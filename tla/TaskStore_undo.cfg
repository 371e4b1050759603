SPECIFICATION HSpec
CONSTANTS
    t1 = t1
    t2 = t2
    t3 = t3
    c1 = c1
    user = user
    a = a
    b = b
    NoOne = NoOne
    NoTask = NoTask
    TaskIds = {t1}
    Added = {t1}
    Holders = {user}
    User = user
    Clients = {}
    StartCalls <- ShellOnly
    Keeps = {FALSE, TRUE}
    Git = TRUE
    Forces = {FALSE}
    Reports = {FALSE, TRUE}
    Births = {"pending", "triage"}
    Columns = {"wait", "tracked", "status"}
    Leases = {1}
    DefaultLease = 1
    Waits = {0, 2}
    Dues = {0}
    Periods = {}
    Deltas <- UpAndDown
    Totals = {1}
    Checks = {FALSE, TRUE}
    Edges = {}
    MaxTracked = 2
    MaxTime = 3
VIEW HistoryView
INVARIANTS
    TypeOK
PROPERTIES
    UndoRestores
