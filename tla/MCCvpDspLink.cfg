SPECIFICATION FairSpec
CONSTANTS
    MaxCalls = 2
    MaxCmds = 1
    MaxProbes = 2
    MaxLate = 1
INVARIANTS TypeOK  OwnAnswer MemoryBack
 
CHECK_DEADLOCK FALSE
