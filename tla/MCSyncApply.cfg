CONSTANTS
    Nodes = {n1}
    Projects = {p1, p2}
    Contested = {p1}
    MaxOps = 3
    MaxBatch = 2
    MaxMutations = 2
    NoContent = NoContent
    NoTxn = NoTxn
SPECIFICATION Spec
INVARIANTS
    TypeOK
    LogInOriginOrder
    OneEffect
    BatchUnity
    Agreement
PROPERTY DecidedOnce
CHECK_DEADLOCK FALSE
