CONSTANTS
    Nodes = {n1, n2}
    Keys = {k1, k2}
    ExternalWrites = TRUE
    Commands = FALSE
    TimePruning = FALSE
    MaxSequence = 2
    MaxWrite = 2
    MaxFailures = 1
SPECIFICATION Spec
INVARIANTS
    RetainedForPeers
PROPERTIES
    NoRegression
CHECK_DEADLOCK FALSE
