SPECIFICATION Spec
CONSTANTS
    Modulus = 256
    KeyOffset = 200
    StartCnts = {0}
    SkipTargets = {}
    Layouts = {"text"}
    MaxCount = 1
    MaxRuns = 1
    MaxCnt = 3
    Concurrent = TRUE
CHECK_DEADLOCK FALSE
INVARIANT
    NumbersAskedOnce
