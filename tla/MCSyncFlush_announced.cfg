CONSTANTS
    Nodes = {n1}
    Projects = {p1}
    Contested = {}
    MaxOps = 2
    MaxBatch = 2
    MaxMutations = 1
    Transports = {"socket"}
    BatchErrors = FALSE
    MaxFailures = 1
    NoContent = NoContent
    NoTxn = NoTxn
    NoClient = NoClient
    NoFrame = NoFrame
SPECIFICATION FlushSpec
INVARIANT AnnouncedFirst
CHECK_DEADLOCK FALSE
