SPECIFICATION FairSpec
CONSTANTS
    Insts = {i1}
    Users = {u1, u2}
    BootInsts = {}
    MaxInst = 1
    MaxSsr = 1
    MaxCreate = 2
INVARIANT OpenHasSession
PROPERTIES
    InvalidSticky
    CloseEnds
CHECK_DEADLOCK FALSE
