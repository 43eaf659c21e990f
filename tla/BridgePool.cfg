SPECIFICATION Spec
CONSTANTS
    Kinds = {"image", "video", "gltf"}
    Users = {d1, d2}
    MaxSlots = 2
    MaxGen = 2
    MaxPoint = 4
INVARIANTS
    NoOverwrite
    ReplayStable
    RepublishIntact
    FrameInPool
PROPERTY KeepsReleaseOrder
SYMMETRY Displays
CHECK_DEADLOCK FALSE
