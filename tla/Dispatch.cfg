SPECIFICATION Spec
CONSTANTS
    c1 = c1
    c2 = c2
    Clients = {c1, c2}
    Addrs = {a1, a2}
    Threads = {t1, t2}
    None = None
    MaxSends <- MCSends
    Queries = 2
    MaxFaults = 1
SYMMETRY Symmetry
INVARIANTS TypeOK AnswersHome AnswersFresh NoneForgotten 
PROPERTIES ImplementsBoard
CHECK_DEADLOCK FALSE
