SPECIFICATION FairShallow
CONSTANTS
    root = root  alice = alice  k1 = k1  k2 = k2  v1 = v1  v2 = v2
    NotAPubkey = NotAPubkey  NoValue = NoValue  NoSigner = NoSigner
    VersionWindow = 4
    Root = root
    Pubkeys = {root, alice}
    Targets = {}
    Canonical <- MCCanonical
    Keys = {k1, k2}
    Values = {v1, v2}
    Tx = {1, 2, 3}
    MemosOf <- MCMemosOf
    ExtraSigners = {}
    Followed = {k1, k2}
    Searches <- MCSearches
    Confs = {1, 3}
    Verify = {TRUE}
    Depth = 4
    Grace = 1
    ReorgMargin = 1
    FirstChunk = 1
    Chunk = 2
    InitScanLimit = 9
    Birthday = 1
    ReorgDepth = 1
    MaxHeight = 5
    MaxReorgs = 1
    MaxFailures = 1
INVARIANTS ReadsHonest FollowExact
PROPERTIES FollowDelivers
CHECK_DEADLOCK FALSE
