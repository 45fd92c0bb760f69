SPECIFICATION Spec
CONSTANTS
    Modulus = 256
    KeyOffset = 200
    StartCnts = {0}
    SkipTargets = {69, 140}
    Layouts = {"latex"}
    MaxCount = 1
    MaxRuns = 1
    MaxCnt = 2
    Concurrent = FALSE
CHECK_DEADLOCK FALSE
INVARIANTS
    PaperAnswersPrompts
    NoByteTwice
