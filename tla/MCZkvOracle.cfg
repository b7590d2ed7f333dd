SPECIFICATION Spec
CONSTANTS
    root = root
    NotAPubkey = NotAPubkey  NoValue = NoValue  NoSigner = NoSigner
    VersionWindow = 256
    Root = root
    Pubkeys = {root}
    Targets = {}
    Canonical <- MCCanonical
    Keys = {"latest", "stable"}
    Values = {1, 2, 3}
    TickAttempts = 2
    Interval = 3
    MaxLag = 1
    MaxWriteAge = 6
    TagInfo <- MCTagInfo
    Channels <- MCChannels
    StaleTicks = 3
    MaxSpent = 2
    MaxOutages = 1
    MaxLost = 1
PROPERTIES PriceOracleRecovers HealthHonest VersionsRight
CHECK_DEADLOCK FALSE
