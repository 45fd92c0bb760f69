SPECIFICATION Spec
CONSTANTS
    Sessions = {s1, s2}
    NoSession = NoSession
    Running = {s1, s2}
    s1 = s1
    s2 = s2
    Locking = TRUE
    Secure = TRUE
    Enforced = FALSE
    Patient = TRUE
    IOErrors = FALSE
    TornWrites = TRUE
    MaxTries = 2
    MaxCrashes = 1
    KeyNum = 1000
    StartCnt = 5
    StartGen = 0
    StartFormats = {"versioned"}
    StartFlags <- PlainFlags
CHECK_DEADLOCK FALSE
INVARIANT
    IgnoresOnlyTheUnconfigured
