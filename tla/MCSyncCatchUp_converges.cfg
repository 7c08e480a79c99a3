CONSTANTS
    Nodes = {n1}
    Keys = {k1, k2}
    ExternalWrites = FALSE
    Commands = FALSE
    TimePruning = FALSE
    MaxSequence = 4
    MaxWrite = 2
    MaxFailures = 0
SPECIFICATION FairSpec
INVARIANTS
    TypeOK
    CursorIsCovered
PROPERTIES
    Converges
CHECK_DEADLOCK FALSE
