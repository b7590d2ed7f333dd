SPECIFICATION FairSpec
CONSTANTS
    k1 = k1  k2 = k2  None = None
    Keys = {k1, k2}
    Amounts = {5}
    Typed <- MCTyped
    Decimals = 1
    MAX_MONEY = 9
    Fee = 1
    MinConfs = 2
    TRUSTED_CONFIRMATIONS = 1
    UNTRUSTED_CONFIRMATIONS = 2
    SYNC_ERROR_THRESHOLD = 2
    Expiry = 3
    MaxHeight = 4
    MaxTxs = 3
    MaxEvents = 1
PROPERTIES NeverFlaps
CHECK_DEADLOCK FALSE
