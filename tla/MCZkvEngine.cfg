SPECIFICATION FairEngine
CONSTANTS
    Members = {a, b}
    Engines = {e1, e2}
    Nobody = Nobody
    SyncWorkers = 2
    CliStops = TRUE
    GlobalSwitch = TRUE
    MaxPauses = 1
INVARIANTS PausedIsCancelled
PROPERTIES WorkersFinish SyncResumes
