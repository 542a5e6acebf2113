SPECIFICATION SourcesSpec
INVARIANTS TypesOK AudioTrue OverlaysOwned
PROPERTIES SourcesReturn
CONSTANTS
    AiRates = {8, 16}
    Volumes = {1, 2}
    BootVolume = 1
    RecoverFails = 2
    BackoffMax = 2
    AoRates = {8, 16}
    MaxSeq = 1
    IdleMax = 2
    Gaps = {0, 1, 4, 5, 12, 30}
    Chunk = 4
    LiveMin = 3
    LiveMax = 14
    Behind = 14
    Ahead = 30
    SlewMax = 2
    Div = 2
    Far = 60
    Quiet = 4
    Summary = 6
    ENames = {"a", "b"}
    ELayouts <- OverlayKinds
    EPlaces <- Places
    MaxElements = 2
    MaxFonts = 1
    ESizes = {1, 2}
    EOwn = {2}
    EDetect = "b"
    EFaults <- Faults
    RcLines = 3
    RcShown = 2
    RcRows = {1, 3}
    RcLineLen = 2
    RcFed = 7
