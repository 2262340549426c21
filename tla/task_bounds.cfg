SPECIFICATION BSpec
CONSTANTS
    MaxTasks = 4
    NumDefault = 2
    MaxSleep = 2
    MillisMod = 3
INVARIANTS
    BypassBound
    SleepLedger
PROPERTIES
    NoEarlyWake
