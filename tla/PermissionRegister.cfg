SPECIFICATION Spec
CONSTANTS
    u1 = u1
    u2 = u2
    u1_group = u1_group
    u2_group = u2_group
    a = a
    b = b
    root = root
    Users = {u1, u2}
    Known = {u1}
    Roots = {u1}
    GroupNames = {u1_group, u2_group}
    OwnGroup <- MCOwnGroup
    Names = {a}
    RootName = root
    Paths <- MCRootPath
    Modes <- MCMode
    Threads = {p1, p2}
    Ops = {"CreateGroup", "Registrate"}
    Nobody = Nobody
    NoRow = NoRow
    NullGroup = NullGroup
    MaxNodes = 2
    MaxGroups = 2
    MaxRequests = 4
    MaxFaults = 0
SYMMETRY Symmetry
INVARIANTS RegisteredIsUser
CHECK_DEADLOCK FALSE
