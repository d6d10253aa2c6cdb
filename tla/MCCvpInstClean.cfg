SPECIFICATION Spec
CONSTANTS
    Insts = {i1}
    Users = {u1}
    BootInsts = {}
    MaxInst = 1
    MaxSsr = 1
    MaxCreate = 1
INVARIANT SessionCleaned
CHECK_DEADLOCK FALSE
