SPECIFICATION FairSpec
CONSTANTS
    m1 = m1
    m2 = m2
    r1 = r1
    r2 = r2
    x = x
    y = y
    Runs = {r1, r2}
    Dirs = {m1, m2}
    DirOf <- OneEach
    Versions <- AnyVersion
    NoVersion = NoVersion
    Changes = {x, y}
    Ids = {1, 2, 3, 4, 5, 6, 7, 8}
    MAX_ATTEMPTS = 3
    MaxFaults = 1
CHECK_DEADLOCK FALSE
INVARIANTS
    Delivered
PROPERTIES
    CopiesAreMerged
    Converges
