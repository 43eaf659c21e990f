SPECIFICATION ServicesSpec
CONSTANTS
    Display <- Displays
    AtStart = {"d1", "d2"}
    Key = {"k1", "k2"}
    KeyOf <- KeysOf
    Playlist = {"p1", "p2"}
    Smart = {"p2"}
    User = {"u1"}
    Mixes <- Requests
    SlowCall = FALSE
    NoPlaylist = NoPlaylist
    NoSession = NoSession
    Clients = 2
    Canvas = {v1, v2}
    Member = {"k1"}
    MaxVersion = 2
    Faults = {"write", "crash", "abort"}
    NoCanvas = NoCanvas
    Sender = {"s1"}
    Capacity = 1
    Buffer = 2
    Asked <- AskedFor
    AlreadyAsked <- HeldBefore
    TrafficBounds <- Traffics
    Size = {"s1", "s2"}
    Formats <- FormatsInOrder
    TargetBounds <- TargetChanges
    TargetId = {1, 2}
    SessionDefinitions <- Playlists
    None = None
    Renderer = {"r1", "r2"}
    LinkedDisplay <- Displays
    RendererOf <- RendererOfDisplay
    LockScreen = {"d3"}
    Requester = {1}
    WishMixes <- Wishes
    MaxChanges = 2
    MaxDeaths = 1
    NoName = NoName
    NoBackend = NoBackend
    Off = Off
INVARIANTS
    RoundFair
    OwnersAreMembers
    RemembersOwner
    UpToDate
    SavedWhenClean
    OneCanvas
    RunsBest
    PlaybackAtRest
    TargetAtRest
    EventsFit
    WriterAtRest
PROPERTIES
    StaysInSync
    FileGoesForward
CHECK_DEADLOCK FALSE
