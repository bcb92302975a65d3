SPECIFICATION Spec
CONSTANTS
    Users = {u1}
    Clients = {c1, c2}
    Threads = {p1, p2}
    Tokens = {t1, t2}
    TTL = 1
    NoUser = NoUser
    NoToken = NoToken
    MaxQueue = 1
    MaxLogins = 2
    MaxTroubles = 2
    MaxRecoveries = 1
SYMMETRY Symmetry
INVARIANTS TypeOK LiveTokenGuarded OneSeat OneOpenRow LiveTokenHasRow
PROPERTIES DeadTokenStaysDead ImplementsRegistry
CHECK_DEADLOCK FALSE
