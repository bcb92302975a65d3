SPECIFICATION Spec
CONSTANTS
    u1 = u1
    u2 = u2
    u1_group = u1_group
    u2_group = u2_group
    a = a
    b = b
    root = root
    Users = {u1, u2}
    Known = {u1, u2}
    Roots = {u1, u2}
    GroupNames = {u1_group, u2_group}
    OwnGroup <- MCOwnGroup
    Names = {a, b}
    RootName = root
    Paths <- MCPaths
    Modes <- MCModes
    Threads = {p1, p2}
    Ops = {"CreateFile", "CreateDir", "DeleteFile", "ChangeRights", "WriteToFile"}
    Nobody = Nobody
    NoRow = NoRow
    NullGroup = NullGroup
    MaxNodes = 3
    MaxGroups = 1
    MaxRequests = 4
    MaxFaults = 0
SYMMETRY UserSymmetry
INVARIANTS TypeOK Rooted UniqueNames RightsAsAsked FileListIsTheTree
PROPERTIES OwnersOnly ImplementsService
CHECK_DEADLOCK FALSE
