SPECIFICATION Spec
CONSTANTS
    None = None
    Notes = {n1, n2}
    Txs = {t1, t2, t3}
    RebroadcastAfter = 2
    MaxEvents = 3
PROPERTIES PaysOnce InitHappens
CHECK_DEADLOCK FALSE
