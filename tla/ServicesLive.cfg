SPECIFICATION LiveSpec
CONSTANTS
    NoCanvas = NoCanvas
    Off = Off
    Caller = {1, 2}
    Mixes <- Calls
    MaxTask = 2
    Cap = 1
INVARIANTS
    OnceExclusive
    PolicyAtRest
PROPERTIES
    ShutdownSettles
    EventuallySaved
