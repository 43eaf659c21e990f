SPECIFICATION LiveSpec
CONSTANTS
    Handlers = {h1, h2}
    Ops = {"manual", "display", "replace"}
    MaxOps = 2
PROPERTIES
    TransitionsSettle
    FrameReleased
    ReaperRetires
CHECK_DEADLOCK FALSE
