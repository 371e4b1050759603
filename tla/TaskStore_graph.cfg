SPECIFICATION HSpec
CONSTANTS
    t1 = t1
    t2 = t2
    t3 = t3
    user = user
    a = a
    b = b
    NoOne = NoOne
    NoTask = NoTask
    c1 = c1
    TaskIds = {t1, t2, t3}
    Added = {t1, t2, t3}
    Holders = {user}
    User = user
    Clients = {c1}
    StartCalls <- ShellOnly
    Keeps = {FALSE}
    Git = FALSE
    Forces = {TRUE}
    Reports = {FALSE}
    Births = {"pending", "triage"}
    Columns = {"status"}
    Leases = {}
    DefaultLease = 1
    Waits = {0}
    Dues = {1}
    Periods = {1}
    Deltas = {}
    Totals = {0}
    Checks = {FALSE}
    Edges <- AllEdges
    MaxTracked = 2
    MaxTime = 1
VIEW StoreView
SYMMETRY Symmetric
INVARIANTS
    Acyclic
    HeldIsCurrent
    ProposalsWait
    SlotFilledOnce
PROPERTIES
    CallsAnswer
