SPECIFICATION WriterSpec
CONSTANTS
    root = root  alice = alice
    root_id = root_id  alice_id = alice_id  alice_hex = alice_hex
    k1 = k1  v1 = v1  v2 = v2
    NotAPubkey = NotAPubkey  NoValue = NoValue  NoSigner = NoSigner
    VersionWindow = 16
    Root = root
    Me = root
    Pubkeys <- MCPubkeys
    Targets <- MCTargets
    Canonical <- MCCanonical
    Spelling <- MCSpelling
    Keys = {k1}
    Values = {v1, v2}
    Clients = {c1}
    Batches <- DataBatches
    Managements <- Governance
    Others <- AliceWrites
    Serialized = TRUE
    MaxSent = 3
    MaxLost = 1
    MaxOthers = 1
INVARIANTS NoSelfConflict LastWriteWins
CHECK_DEADLOCK FALSE
