SPECIFICATION Spec
CONSTANTS
    KernelFrames = {}
    SocFrames = {s1}
    PlainFrames = {p1}
    Fthreads = {f1}
    FthreadNr = 1
    Ctls = {c1, c2}
    Ops = {"start", "recv", "close"}
    MaxOps = 2
    MaxMsgs = 1
    Restarts = FALSE
SYMMETRY Symmetry
INVARIANTS TypeOK FramesSafe
CHECK_DEADLOCK FALSE
