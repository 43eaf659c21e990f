SPECIFICATION Spec
CONSTANTS
    Kinds = {"image", "video"}
    Users = {d1}
    MaxSlots = 2
    MaxGen = 2
    MaxPoint = 2
INVARIANT BindFailedSurvives
CHECK_DEADLOCK FALSE
