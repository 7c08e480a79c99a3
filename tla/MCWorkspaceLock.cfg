CONSTANTS
    Processes = {a, b, c}
    Workspaces = {w1, w2}
    Existing = {w1}
    Modes = {"auto", "named", "here", "reuse"}
    User = User
    NoLock = NoLock
    NoWorkspace = NoWorkspace
    Unread = Unread
    Busy = Busy
    Excluded = Excluded
SPECIFICATION Spec
SYMMETRY Symmetry
INVARIANTS
    TypeOK
    LockHeld
    Exclusive
PROPERTY LossExplained
CHECK_DEADLOCK FALSE
