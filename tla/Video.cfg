SPECIFICATION VideoSpec
INVARIANTS TypesOK SdkHeld RingsTrue SettingsKept DetectionsTrue
PROPERTIES VideoRecovers
CHECK_DEADLOCK FALSE
CONSTANTS
    Pics = {"s", "l"}
    PicW <- Width
    PicH <- Height
    Turned = FALSE
    Pulse = TRUE
    Stuck = TRUE
    BootPic = "s"
    NSensors = 2
    RVD_MAX_JPEG = 3
    ChannelLimits = {6}
    Asks = {"no", "unset"}
    Ceilings = {500000}
    SensorSizes <- Unsized
    Rates = {10, 25}
    BaseRate = 25
    Gops = {25}
    Bounds = {"q"}
    Knobs = {"a"}
    HasAuto = TRUE
    IAlgos = {"move","roi","persondet","yolo"}
    IGrids <- Grids
    DefaultGrid = 2
    IMaxRoi = 4
    IFrames <- Sizes
    HoldTime = 2
    MaxPersons = 2
    RefBase = 4
    RefSize = 12
    PageSize = 4
    FBufs = 2
    RingBufs = 2
    Starts = {2, 5, 9, 13}
    FLens = {4, 20}
    RingData = 3
    FrameMax = 3
    ClockGap = 4
    Lags = {0, 4, 6}
    ONames = {"time","uptime","x"}
    OOrders <- Orders
    OMaxRegions = 2
    OHardware = 3
    OHeights = {1,2}
    OChanges = 3
    OWindow = TRUE
