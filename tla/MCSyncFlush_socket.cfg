CONSTANTS
    Nodes = {n1}
    Projects = {p1}
    Contested = {}
    MaxOps = 3
    MaxBatch = 2
    MaxMutations = 1
    Transports = {"socket"}
    BatchErrors = FALSE
    MaxFailures = 1
    NoContent = NoContent
    NoTxn = NoTxn
    NoClient = NoClient
    NoFrame = NoFrame
SPECIFICATION FairFlushSpec
INVARIANTS
    NoStranding
PROPERTIES
    DeliveryImplemented
    Settles
CHECK_DEADLOCK FALSE
