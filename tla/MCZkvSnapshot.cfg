SPECIFICATION Spec
CONSTANTS
    root = root  alice = alice  root_id = root_id  alice_id = alice_id
    k1 = k1  v1 = v1  v2 = v2
    NotAPubkey = NotAPubkey  NoValue = NoValue  NoSigner = NoSigner
    VersionWindow = 1
    Root = root
    Pubkeys <- MCPubkeys
    Targets <- MCTargets
    Canonical <- MCCanonical
    Keys = {k1}
    Values = {v1, v2}
    Rows <- MCRows
    Readers = {r1}
    SafeDepth = 1
    MinConfs = 2
    MaxReorg = 1
    MaxRewind = 4
    MaxHeight = 4
    MaxUnmined = 1
    SyncDuringRead = FALSE
INVARIANTS SnapshotAgrees ReadAgrees
PROPERTIES NeverBuriesGenesis
