SPECIFICATION FairSpec
CONSTANTS
    KernelFrames = {k1}
    SocFrames = {}
    PlainFrames = {}
    Fthreads = {f1}
    FthreadNr = 1
    Ctls = {c1}
    Ops = {"start"}
    MaxOps = 1
    MaxMsgs = 1
    Restarts = TRUE
INVARIANTS FramesSafe
PROPERTIES
    EveryFenceSignalled
    ThreadsExit
CHECK_DEADLOCK FALSE
