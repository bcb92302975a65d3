SPECIFICATION FairSpec
CONSTANTS
    Users = {u1}
    Clients = {c1}
    Threads = {p1, p2}
    Tokens = {t1, t2}
    TTL = 1
    NoUser = NoUser
    NoToken = NoToken
    MaxQueue = 2
    MaxLogins = 2
    MaxTroubles = 1
    MaxRecoveries = 0
PROPERTIES TokenEnds LoginAnswered
CHECK_DEADLOCK FALSE
