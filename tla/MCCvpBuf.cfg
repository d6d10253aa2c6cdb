SPECIFICATION Spec
CONSTANTS
    Bufs = {b1, b2}
    Threads = {t1, t2}
    Cap = 1
    CapMax = 2
    Slots = 1
    Threshold = 1
    Careful = TRUE
    MaxSmem = 3
    MaxOps = 3
    MaxRef = 1
SYMMETRY Perms
INVARIANTS TypeOK   
CHECK_DEADLOCK FALSE
