SPECIFICATION HSpec
CONSTANTS
    t1 = t1
    t2 = t2
    t3 = t3
    user = user
    a = a
    b = b
    NoOne = NoOne
    NoTask = NoTask
    c1 = c1
    TaskIds = {t1, t2}
    Added = {t1, t2}
    Holders = {user, a, b}
    User = user
    Clients = {}
    StartCalls <- ActorOrHolder
    Keeps = {FALSE}
    Git = FALSE
    Forces = {FALSE}
    Reports = {FALSE}
    Births = {"pending"}
    Columns = {"status"}
    Leases = {1, 2}
    DefaultLease = 2
    Waits = {0}
    Dues = {0}
    Periods = {}
    Deltas = {}
    Totals = {0}
    Checks = {FALSE}
    Edges = {}
    MaxTracked = 2
    MaxTime = 3
VIEW HistoryView
SYMMETRY Symmetric
INVARIANTS
    LiveClaimIsTheClocks
    OneClockPerHolder
PROPERTIES
    StartSparesClaims
    TimeIsKept
