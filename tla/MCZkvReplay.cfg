SPECIFICATION MCSpec
CONSTANTS
    root = root  alice = alice  eve = eve
    root_id = root_id  alice_id = alice_id  alice_hex = alice_hex  eve_id = eve_id  junk_id = junk_id
    k1 = k1  v1 = v1  v2 = v2
    NotAPubkey = NotAPubkey  NoValue = NoValue  NoSigner = NoSigner
    MaxPending = 2
    MaxAuditSeq = 3
    Topics = {"data", "registry", "version", "roles"}
    Spelling <- MCSpelling
    VersionWindow = 1
    Root = root
    Pubkeys <- MCPubkeys
    Targets <- MCTargets
    Canonical <- MCCanonical
    Keys = {k1}
    Values = {v1, v2}
    Signed <- MCSigned
INVARIANTS ReplayedMemoIsInert LatestSequenceWins RegistryManageable AuthorityHasProvenance OwnersCanAlwaysWrite RolesViewSound
PROPERTIES SealedForever ImplementsStore
CHECK_DEADLOCK FALSE
