SPECIFICATION Spec
CONSTANTS
    Display = {d1}
    Ctl = {c1}
    Scenarios <- MCScenarios
    Image = TRUE
    MaxProc = 2
    MaxPool = 2
    MaxSeq = 1
    MaxFormat = 2
INVARIANTS SyncedAtRest PermitFits FrameFits PendingLive
