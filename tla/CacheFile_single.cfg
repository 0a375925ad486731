CONSTANTS
    w1 = w1  w2 = w2  s1 = s1  s2 = s2
    Workers = {w1}
    Sockets = {s1, s2}
    WorkerOf <- OneWorker
    Uris = {u1, u2}
    Files = {f1, f2}
    Garbage = {0}
    NULL = NULL
    Dangling = Dangling
SPECIFICATION LiveSpec
CHECK_DEADLOCK FALSE
INVARIANTS TypeOK TableLive RefCount DiskAccessSafe CursorSafe NoOrphan NoMkBug
PROPERTIES TableSpec ZombieReaped
