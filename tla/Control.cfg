SPECIFICATION ControlSpec
INVARIANTS TypesOK Guarded DriftTrue StoresSound  BrokerTrue
PROPERTIES AudioBack ControlSettles
CHECK_DEADLOCK FALSE
CONSTANTS
    Keys = {"address", "ssid"}
    Wifi = {"ssid"}
    Group <- GuardGroup
    Vals = {"unset", "new"}
    Retries = 1
    GuardMishaps = 2
    ApplyMishaps = 1
    DKeys = {"v", "s"}
    Owner <- KeyOwner
    LiveKeys = {"v"}
    DVals = {"unset", "a"}
    DriftMax = 1
    Debounce = 1
    SaveMax = 1
    Posix <- ZoneRule
    ZoneList <- ZoneTable
    Hosts = {"nvr"}
    Addrs = {"", "9"}
    Stanzas <- InterfaceFiles
    Hashes = {"h", "bad"}
    StoreOps = 2
    VKeys = {"bool", "int", "auto", "pct", "label", "enum", "cred", "text", "secret", "passwd", "host", "ipv4", "dns"}
    VWide = 18
    VWord = 16
    VOctet = 31
    MqKeys = 4
    MqPoll = 2
    MqRetry = 1
    MqKeep = 1
    MqSetups <- BridgeSetups
    MqOdd = {}
    MqChanges = 2
    MqFaults = 1
    MdServices <- Announced
    MdAddr <- HostAddr
    MdMax = 2
    MdPorts = {0, 9}
