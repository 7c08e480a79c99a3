CONSTANTS
    Nodes = {n1}
    Main = main
    Users = {n1, main}
    Commands = {c1}
    Repositories = {r1}
    MaxProjects = 1
    MaxEdits = 3
    MaxFull = 1
    NoProject = NoProject
    NoDraft = NoDraft
SPECIFICATION FairSpec
INVARIANTS
    TypeOK
    RefusedOnlyWhenLost
PROPERTIES
    NeverTakenBack
    SameIdentity
CHECK_DEADLOCK FALSE
