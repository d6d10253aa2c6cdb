SPECIFICATION FairSpec
CONSTANTS
    Platforms <- AllTargets
    LowPower = TRUE
    MaxSkip = 2
    MaxFaults = 1
    MaxBusy = 0
    MaxSend = 1
    MaxInit = 2
INVARIANTS TypeOK   IrqBalanced 
CHECK_DEADLOCK FALSE
PROPERTIES Collapses
