CONSTANTS
    w1 = w1  w2 = w2  c1 = c1  c2 = c2
    Workers = {w1}
    Conns = {c1, c2}
    WorkerOf <- OneWorker
    Sizes = {4}
    Page = 3
    Slots = 2
    HeaderLen = 1
    PoolMax = 1
    NoReq = NoReq
SPECIFICATION LiveSpec
PROPERTIES Served
