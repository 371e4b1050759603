CONSTANTS
    SECOND = 1
    MaxId = 400
    Machines = 2
    Steps = {1}
    Scenes <- Merges
    Titles = {2}
    Tags = {1}
    Deltas = {2}
    Totals = {5}
    Earlier = 1
SPECIFICATION Spec
VIEW ButRev
INVARIANTS
    MergeCommutes
    MergeIsIdempotent
    SameHistorySameRow
    SameEditSameValue
    TagsFollowLog
    LogExplainsTotal
    TimeIsLived
    StoppedStaysStopped
PROPERTIES
    RevTellsOfMerge
CHECK_DEADLOCK FALSE
