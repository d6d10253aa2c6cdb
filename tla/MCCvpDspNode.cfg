SPECIFICATION Spec
CONSTANTS
    Handles = {h1, h2}
    MaxNames = 2
    MaxNodes = 2
    MaxInsts = 2
    MaxBufs = 1
SYMMETRY Symmetry
INVARIANTS TypeOK NodeSafe RefExact 
CHECK_DEADLOCK FALSE
