SPECIFICATION RecordingSpec
INVARIANTS TypesOK RecordingIntact
PROPERTIES RollsKept LightFollowed RecordingFollows
CONSTANTS
    Capacity = 4
    DataSize = 9
    MaxLen = 3
    Lens = {1, 3}
    MaxAge = 2
    PbGop = 2
    Stall = 3
    Mode = "both"
    PreCaps = {0, 2}
    Gop = 2
    Codecs = {h264}
    Geometries = {small}
    Post = 3
    Banks = {b850}
    Default = {b850}
    Hyst = 2
    Cooldown = 2
    Extend = 1
    AgreeRun = 1
    Settle = 1
    DipRun = 2
    Holdoff = 1
    Recheck = 2
    LockFirst = 2
    LockMax = 4
    Triggers = {"luma"}
    BenchVerbs = FALSE
    Commands = FALSE
    Outages = FALSE
    TlIntervals = {1, 2}
    TlRates = {15, 30}
    TlPer = {0, 2}
    TlCodecs = {h264, h265}
    TlGeometries = {small, large}
    TlDays = 2
    TlStall = 2
    PhReadings <- MCReadings
    EvDay = 5
    EvNight = 7
    EvDeep = 9
    CalSamples = 2
    PhSettle = 2
    EvTrigger = 3
    RTrigger = 2
    BTrigger = 2
    GainWrap = 4
    CheckEvery = 2
    CheckTrigger = 2
    DayRing = 2
    DayTrigger = 2
    FixedRing = 2
    DriftTrigger = 1
    InterfRing = 2
    InterfMax = 6
    RiseTrigger = 1
    FallTrigger = 2
