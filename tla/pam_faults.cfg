SPECIFICATION Spec
CONSTANTS
    Sessions = {s1, s2}
    NoSession = NoSession
    Running = {s1}
    s1 = s1
    s2 = s2
    Locking = TRUE
    Secure = FALSE
    Enforced = FALSE
    Patient = FALSE
    IOErrors = TRUE
    TornWrites = TRUE
    MaxTries = 2
    MaxCrashes = 1
    KeyNum = 1000
    StartCnt = 5
    StartGen = 0
    StartFormats = {"missing", "raw", "versioned", "flagged"}
    StartFlags <- AllFlags
CHECK_DEADLOCK FALSE
INVARIANTS
    LockNeverLeaks
    ReservedOnlyWhenSkipping
    FailureSpendsNothing
PROPERTY
    EveryLoginProceeds
