\* Two daemons, two tasks whose reminders share an instant, one edit or
\* reminder fired by hand, and one failed write or stopped daemon anywhere.
CONSTANTS
    Tasks = {1, 2}
    Instants = {1}
    Daemons = {d1, d2}
    MaxTime = 1
    MaxEdits = 1
    MaxFaults = 1
SPECIFICATION FairSpec
INVARIANT ShownOnce
INVARIANT HeapIsCurrent
PROPERTY RipeFires
\* Every daemon may be asleep, the clock and the bounds used up.
CHECK_DEADLOCK FALSE
