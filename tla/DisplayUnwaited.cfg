SPECIFICATION Spec
CONSTANTS
    Display = {d1}
    Ctl = {c1}
    Scenarios <- MCStop
    Image = FALSE
    MaxProc = 1
    MaxPool = 1
    MaxSeq = 0
    MaxFormat = 1
INVARIANTS StopAfterRelease
