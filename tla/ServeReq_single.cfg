CONSTANTS
    w1 = w1  w2 = w2  c1 = c1  c2 = c2
    Workers = {w1}
    Conns = {c1, c2}
    WorkerOf <- OneWorker
    Sizes = {1, 2, 3, 4, 5, 7, 8, 9}
    Page = 2
    Slots = 2
    HeaderLen = 1
    PoolMax = 1
    NoReq = NoReq
SPECIFICATION LiveSpec
INVARIANTS TypeOK Accounting CacheExact NoMkBug
PROPERTIES ResponseSpec Served
