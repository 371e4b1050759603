SPECIFICATION LiveSpec
CONSTANTS
    Clients = {c1, c2}
    Poller = poller
    Watchers = {c1}
    Callers = {c1}
    Quitters = {c1}
    Limit = 2
    Cap = 1
    MaxEvents = 2
    MaxRequests = 2
INVARIANTS
    StreamIsWhole
    AnswerIsTrue
PROPERTIES
    EventsArrive
    SlotIsFreed
CHECK_DEADLOCK FALSE
