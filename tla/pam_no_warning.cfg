SPECIFICATION Spec
CONSTANTS
    Sessions = {s1, s2}
    NoSession = NoSession
    Running = {s1, s2}
    s1 = s1
    s2 = s2
    Locking = TRUE
    Secure = TRUE
    Enforced = FALSE
    Patient = FALSE
    IOErrors = FALSE
    TornWrites = FALSE
    MaxTries = 2
    MaxCrashes = 0
    KeyNum = 1000
    StartCnt = 5
    StartGen = 0
    StartFormats = {"flagged"}
    StartFlags <- AllFlags
CHECK_DEADLOCK FALSE
INVARIANT
    WarnsWithoutLock
