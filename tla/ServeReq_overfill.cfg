CONSTANTS
    w1 = w1  w2 = w2  c1 = c1  c2 = c2
    Workers = {w1, w2}
    Conns = {c1, c2}
    WorkerOf <- TwoWorkers
    Sizes = {2}
    Page = 2
    Slots = 2
    HeaderLen = 1
    PoolMax = 1
    NoReq = NoReq
SPECIFICATION Spec
CHECK_DEADLOCK FALSE
INVARIANTS NeverOverfilled
