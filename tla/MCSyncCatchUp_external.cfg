CONSTANTS
    Nodes = {n1}
    Keys = {k1, k2}
    ExternalWrites = TRUE
    Commands = FALSE
    TimePruning = FALSE
    MaxSequence = 3
    MaxWrite = 2
    MaxFailures = 0
SPECIFICATION FairSpec
PROPERTIES
    Converges
CHECK_DEADLOCK FALSE
