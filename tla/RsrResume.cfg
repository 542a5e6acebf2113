SPECIFICATION RsrSpec
PROPERTIES ClientsResume
CHECK_DEADLOCK FALSE
CONSTANTS
    RNames = {"main"}
    RDefault = "main"
    RMax = 1
    RSlots = 2
    RIdle = 1
    RFaults = 2
