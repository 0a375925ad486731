CONSTANTS
    Workers = {w1, w2}
    Second = 1
    MaxAge = 2
    MaxReqs = 2
    NULL = NULL
SPECIFICATION LiveSpec
INVARIANTS TypeOK OwnRecord CountExact
PROPERTIES QuietIsZero
