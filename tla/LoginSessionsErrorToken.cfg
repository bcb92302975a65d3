SPECIFICATION Spec
CONSTANTS
    Users = {u1}
    Clients = {c1, c2}
    Threads = {p1, p2}
    Tokens = {t1, t2}
    TTL = 2
    NoUser = NoUser
    NoToken = NoToken
    MaxQueue = 2
    MaxLogins = 2
    MaxTroubles = 1
    MaxRecoveries = 0
SYMMETRY Symmetry
INVARIANTS SuccessHasToken
CHECK_DEADLOCK FALSE
