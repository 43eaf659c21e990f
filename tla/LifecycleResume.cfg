CONSTANTS
    Handlers = {h1, h2}
    Ops = {"manual"}
    MaxOps = 2
SYMMETRY HandlerSymmetry
SPECIFICATION Spec
INVARIANTS
    ResumeServed
CHECK_DEADLOCK FALSE
