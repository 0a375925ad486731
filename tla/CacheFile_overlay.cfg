CONSTANTS
    w1 = w1  w2 = w2  s1 = s1  s2 = s2
    Workers = {w1}
    Sockets = {s1, s2}
    WorkerOf <- OneWorker
    Uris = {u1}
    Files = {f1, f2}
    Garbage = {0, 1}
    NULL = NULL
    Dangling = Dangling
SPECIFICATION Spec
CHECK_DEADLOCK FALSE
INVARIANTS AccessSafe
