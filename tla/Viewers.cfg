SPECIFICATION ViewersSpec
INVARIANTS TypesOK Decodable HeldWhileUsed Admitted
PROPERTIES StampTrue StreamsReturn ConnectionsEnd
CONSTANTS
    Parts = {"media", "sessions", "audio", "rhd", "requests", "guesses", "rsp", "rsr"}
    WSlots = 2
    WIdleMax = 2
    SPeers = {"p1", "p2"}
    SAddrs = {"x", "y"}
    MaxSessions = 1
    MaxVerified = 1
    AFrame = 3
    ADecodes = {4, 8}
    ACap = 16
    AMode = "opus"
    AIdleMax = 2
    HClients = {"v", "s"}
    HAsks <- Asks
    HFrames = 2
    HDepth = 2
    HQuiet = 1
    HSnap = 1
    HDeaths = 1
    RqClients = {"o", "x"}
    RqMax = 2
    RqJobs = 2
    RqRecv = 1
    RqSend = 1
    RaHosts = {"g", "h"}
    RaSlots = 1
    RaBurst = 2
    RaRefill = 2
    RaFree = 1
    RaDelay = 1
    RaDelayMax = 2
    RaForget = 2
    RaTime = 5
    PuCodec <- SetCodec
    PuServers <- Servers
    PuDepth = 2
    PuGop = 2
    PuIdle = 2
    PuWait = 2
    PuFaults = 2
    RNames = {"main", "sub"}
    RDefault = "main"
    RSlots = 2
    RMax = 2
    RIdle = 2
    RFaults = 2
