CONSTANTS
    m1 = m1
    m2 = m2
    Stores = {m1, m2}
    SECOND = 1
    MaxId = 100
    MaxTask = 6
    Scenes <- TwoCopies
SPECIFICATION Spec
SYMMETRY Symmetric
INVARIANTS
    EitherWayOneStore
    OneNextOccurrence
    EdgesStayAcyclic
    LastWordStands
    LogsExplainTotals
CHECK_DEADLOCK FALSE
