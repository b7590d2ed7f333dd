SPECIFICATION Spec
CONSTANTS
    d1 = d1
    d2 = d2
    k1 = k1
    k2 = k2
    DB = {d1}
    Key = {k1}
    NoKey = NoKey
    Addresses <- OneEach
    Actor = {a1}
    Commands = {"facade", "sync", "resync", "migrate", "locate", "join", "leave", "rebuild", "watch", "standalone", "remove", "default"}
    NearTipTolerance = 1
    MaxTip = 2
    MaxCrashes = 2
INVARIANTS NeverBehindReport
PROPERTIES NeverDark DecisionRespected ConversionFinishes
