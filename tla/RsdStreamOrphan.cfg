SPECIFICATION Spec
INVARIANTS NoOrphanSent
CONSTANTS
    Clients = {c1}
    RingSlots = 2
    QSlots = 2
    IdleStale = 1
    IdleClose = 2
    Jpeg = FALSE
    IdrOnJoin = TRUE
    RingMayLose = TRUE
    MayResize = FALSE
    AudioShares = FALSE
    AllocMayFail = FALSE
    MayPause = FALSE
