CONSTANTS
    f1 = f1  f2 = f2  f3 = f3  d1 = d1  d2 = d2
    Uris <- MCUris
    Data = {d1, d2}
    Root <- MCRoot
    ConfDir <- MCConfDir
    OnDisk <- MCOnDisk
    MaxUri = 5
    MaxPath = 10
    Configs <- MCConfigs
    MimeInit = 1
    Ext <- MCExt
    Files = {f1, f2, f3}
    NULL = NULL
    Unset = Unset
SPECIFICATION Spec
INVARIANTS TypeOK RightBody  NoneLost
SYMMETRY Symmetry
