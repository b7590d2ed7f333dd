SPECIFICATION Spec
CONSTANTS
    d1 = d1
    d2 = d2
    k1 = k1
    k2 = k2
    DB = {d1}
    Key = {k1}
    NoKey = NoKey
    Addresses <- OneEach
    Actor = {a1, a2}
    Commands = {"facade"}
    NearTipTolerance = 1
    MaxTip = 1
    MaxCrashes = 0
INVARIANT ConvertingHasFiles
CHECK_DEADLOCK FALSE
