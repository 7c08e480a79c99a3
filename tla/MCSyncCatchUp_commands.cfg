CONSTANTS
    Nodes = {n1}
    Keys = {k1, k2}
    ExternalWrites = TRUE
    Commands = TRUE
    TimePruning = TRUE
    MaxSequence = 2
    MaxWrite = 2
    MaxFailures = 1
SPECIFICATION Spec
INVARIANTS
    NothingInvented
CHECK_DEADLOCK FALSE
