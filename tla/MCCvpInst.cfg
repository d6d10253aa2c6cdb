SPECIFICATION Spec
CONSTANTS
    Insts = {i1, i2}
    Users = {u1}
    BootInsts = {i2}
    MaxInst = 2
    MaxSsr = 1
    MaxCreate = 1
INVARIANTS TypeOK KrefExact  CoreStateHonest
CHECK_DEADLOCK FALSE
