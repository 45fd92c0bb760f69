SPECIFICATION Spec
CONSTANTS
    Modulus = 256
    KeyOffset = 200
    StartCnts = {68}
    SkipTargets = {69, 140}
    Layouts = {"text"}
    MaxCount = 1
    MaxRuns = 3
    MaxCnt = 71
    Concurrent = FALSE
CHECK_DEADLOCK FALSE
INVARIANTS
    TypeOK
    PrintedOrWarned
    NumbersAskedOnce
