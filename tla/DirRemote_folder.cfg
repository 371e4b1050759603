SPECIFICATION Spec
CONSTANTS
    r1 = r1
    r2 = r2
    b1 = b1
    b2 = b2
    c = c
    Runs = {r1, r2}
    Dirs = {r1, r2}
    DirOf <- OneEach
    Blobs = {b1, b2, c}
    NoVersion = NoVersion
    Foreign = {c}
    Keep = 1
    Killable = {r1, r2}
SYMMETRY Twins
CHECK_DEADLOCK FALSE
INVARIANTS
    HeadIsWhole
PROPERTIES
    Implements
CONSTRAINT Whole
