CONSTANTS
    MaxPid = 3
    Waits <- MCWaits
    CatchesChld = {1, 2}
    Targets = {2}
    MaxPending = 2
    CoreCounts = {1, 2}
    None = None
SPECIFICATION FairSpec
INVARIANTS
    ExitSeen
    StopSeen
PROPERTIES
    OrphansReaped
    KillEnds
CHECK_DEADLOCK FALSE
