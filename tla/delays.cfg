SPECIFICATION FairSpec
CONSTANTS
    StartTime = 5
    MaxTime = 12
    Target = {6, 7, 9, 10}
    Wrap = 8
    RecoverAfter = 2
    MaxSignals = 2
CHECK_DEADLOCK FALSE
INVARIANTS TypeOK NoStrandedDelay
PROPERTIES TimerNotEarly DelaysEnd
