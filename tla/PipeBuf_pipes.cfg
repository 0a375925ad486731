CONSTANTS
    w1 = w1  w2 = w2  s1 = s1  s2 = s2  s3 = s3
    Workers = {w1, w2}
    Socks = {s1, s2, s3}
    WorkerOf <- Owner
    Uris = {u1}
    Files = {f1, f2}
    Bufs = {b1, b2, b3, b4, b5, b6}
    Lengths = {1, 2}
    Resets = TRUE
    PoolMax = 1
    ReqPoolMax = 1
    NULL = NULL
SPECIFICATION MCSpec
INVARIANTS TypeOK FilesLive PlacedOnce MemUsed OwnBytes
PROPERTIES LocksReleased
SYMMETRY Alike
CHECK_DEADLOCK FALSE
