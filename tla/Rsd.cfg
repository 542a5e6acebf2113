SPECIFICATION RsdSpec
INVARIANTS QueueSound CopiesAccounted StreamsInOrder
PROPERTIES ImplementsPolicy QueueDrains StreamRecovers
CHECK_DEADLOCK FALSE
CONSTANTS
    Clients = {c1}
    RingSlots = 1
    QSlots = 1
    IdleStale = 1
    IdleClose = 2
    Jpeg = FALSE
    IdrOnJoin = TRUE
    RingMayLose = FALSE
    MayResize = TRUE
    AudioShares = FALSE
    AllocMayFail = FALSE
    MayPause = TRUE
    Slots = 3
    MaxPush = 6
