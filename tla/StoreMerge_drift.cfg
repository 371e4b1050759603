CONSTANTS
    SECOND = 2
    MaxId = 400
    Machines = 2
    Steps = {1, 2}
    Scenes <- Restops
    Titles = {}
    Tags = {}
    Deltas = {}
    Totals = {}
    Earlier = 0
SPECIFICATION Spec
VIEW ButRev
INVARIANTS
    NeverOverExplains
CHECK_DEADLOCK FALSE
