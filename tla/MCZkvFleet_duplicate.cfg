SPECIFICATION Spec
CONSTANTS
    d1 = d1
    d2 = d2
    k1 = k1
    k2 = k2
    DB = {d1, d2}
    Key = {k1}
    NoKey = NoKey
    Addresses <- AnyEach
    Actor = {a1}
    Commands = {"watch"}
    NearTipTolerance = 1
    MaxTip = 1
    MaxCrashes = 0
INVARIANT NoDuplicate
CHECK_DEADLOCK FALSE
