SPECIFICATION HistorySpec
CONSTANTS
    root = root  alice = alice  k1 = k1  k2 = k2  v1 = v1  v2 = v2
    NotAPubkey = NotAPubkey  NoValue = NoValue  NoSigner = NoSigner
    VersionWindow = 4
    Root = root
    Pubkeys = {root, alice}
    Targets = {}
    Canonical <- MCCanonical
    Keys = {k1, k2}
    Values = {v1, v2}
    Tx = {1, 2, 3, 4}
    MemosOf <- MCMemosOf
    Own = {2, 4}
    Queries <- MCQueries
    MinConfs = 2
    SafeDepth = 1
    Concurrent = TRUE
    MaxHeight = 4
    MaxRewinds = 1
INVARIANT ListedOnce
CHECK_DEADLOCK FALSE
