SPECIFICATION Spec
INVARIANTS TypeOK KeyAfterOwnGap
CONSTANTS
    Clients = {c1}
    RingSlots = 1
    QSlots = 1
    IdleStale = 1
    IdleClose = 2
    Jpeg = FALSE
    IdrOnJoin = TRUE
    RingMayLose = TRUE
    MayResize = TRUE
    AudioShares = TRUE
    AllocMayFail = FALSE
    MayPause = TRUE
