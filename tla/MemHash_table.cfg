CONSTANTS
    k1 = k1  k2 = k2  k3 = k3  k4 = k4
    Keys = {k1, k2, k3, k4}
    Vals = {v1, v2}
    Cursors = {c1, c2}
    Recs = {r1, r2, r3, r4}
    Hash <- HashValues
    BucketSize = 1
    FillFactor = 1
    GrowLimit = 4
    NULL = NULL
    Dangling = Dangling
SPECIFICATION Spec
SYMMETRY Symmetry
CHECK_DEADLOCK FALSE
INVARIANTS TypeOK ListExact LookupAgrees
PROPERTIES TableSpec
