CONSTANTS
    Nil = Nil
    Resolvable = {m1}
    Callers = {c1}
    Writers = {w1}
    Writes = 1
SPECIFICATION LockFairSpec
PROPERTY FirstModelReturns
CHECK_DEADLOCK FALSE
