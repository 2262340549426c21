SPECIFICATION FairSpec
CONSTANTS
    MaxTasks = 4
    NumDefault = 2
    MaxSleep = 2
    MillisMod = 3
INVARIANTS
    TypeOK
    CurrentIsRunnable
    IdleOnlyWhenNoneReady
PROPERTIES
    TerminatedForever
    NoStarvation
    SleepersWake
