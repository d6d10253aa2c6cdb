SPECIFICATION Spec
CONSTANTS
    KernelFrames = {k1, k2}
    SocFrames = {}
    PlainFrames = {}
    Fthreads = {f1, f2}
    FthreadNr = 1
    Ctls = {c1}
    Ops = {"start", "stop", "flush"}
    MaxOps = 2
    MaxMsgs = 1
    Restarts = FALSE
SYMMETRY Symmetry
INVARIANTS FramesSafe FlushedAll
CHECK_DEADLOCK FALSE
