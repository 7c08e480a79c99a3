CONSTANTS
    Nodes = {n1}
    Projects = {p1}
    Contested = {p1}
    MaxOps = 2
    MaxBatch = 2
    MaxMutations = 1
    Transports = {"socket", "command"}
    BatchErrors = TRUE
    MaxFailures = 1
    NoContent = NoContent
    NoTxn = NoTxn
    NoClient = NoClient
    NoFrame = NoFrame
SPECIFICATION FlushSpec
INVARIANTS
    FlushTypeOK
    QueueAgreement
PROPERTY DeliveryImplemented
CHECK_DEADLOCK FALSE
