SPECIFICATION RicSpec
INVARIANTS HardwareMatches
PROPERTIES BacksOff
CONSTANTS
    Banks = {b850}
    Default = {b850}
    Hyst = 1
    Cooldown = 1
    Extend = 1
    AgreeRun = 1
    Settle = 1
    DipRun = 1
    Holdoff = 1
    Recheck = 2
    LockFirst = 1
    LockMax = 2
    Triggers = {"luma", "adc"}
    BenchVerbs = TRUE
    Commands = TRUE
    Outages = TRUE
