SPECIFICATION WSpec
CONSTANTS
    Op <- MCOp
    Body <- MCBody
    Users = {u1}
    Workers = {w1, w2}
    MaxTurns = 3
    MaxCuts = 3
INVARIANTS StreamTypeOK ShownInOrder ShortByTwo Heard MisreadInHeader TableIsTrue
CHECK_DEADLOCK FALSE
