CONSTANTS
    Nodes = {n1, n2}
    Main = main
    Users = {n1, n2}
    Commands = {c1}
    Repositories = {r1}
    MaxProjects = 1
    MaxEdits = 2
    MaxFull = 1
    NoProject = NoProject
    NoDraft = NoDraft
SPECIFICATION Spec
PROPERTIES
    LocalProjectKept
CHECK_DEADLOCK FALSE
