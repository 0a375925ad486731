CONSTANTS
    Files = {f1, f2}
    Conns = {c1, c2}
    Fds = {0, 1, 2, 3}
    Standard = {0}
    Garbage = {0}
    NULL = NULL
SPECIFICATION Spec
CHECK_DEADLOCK FALSE
INVARIANTS ClientsKeepTheirs
