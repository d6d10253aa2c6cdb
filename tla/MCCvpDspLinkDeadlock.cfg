SPECIFICATION Spec
CONSTANTS
    MaxCalls = 2
    MaxCmds = 1
    MaxProbes = 1
    MaxLate = 0
INVARIANT NoLockCycle
CHECK_DEADLOCK FALSE
