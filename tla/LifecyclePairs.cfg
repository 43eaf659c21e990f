CONSTANTS
    Handlers = {h1, h2}
    Ops = {"manual", "auto", "restart", "apply", "replace", "kill", "display"}
    MaxOps = 2
SYMMETRY HandlerSymmetry
SPECIFICATION Spec
INVARIANTS
    OneProcess
    TableIsSlot
    InhibitHolds
CHECK_DEADLOCK FALSE
