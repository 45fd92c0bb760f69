SPECIFICATION Spec
CONSTANTS
    Sessions = {s1, s2, s3}
    NoSession = NoSession
    Running = {s1, s2, s3}
    s1 = s1
    s2 = s2
    s3 = s3
    Locking = TRUE
    Secure = TRUE
    Enforced = FALSE
    Patient = TRUE
    IOErrors = FALSE
    TornWrites = FALSE
    MaxTries = 2
    MaxCrashes = 1
    KeyNum = 1000
    StartCnt = 5
    StartGen = 0
    StartFormats = {"raw", "versioned", "flagged"}
    StartFlags <- AllFlags
CHECK_DEADLOCK FALSE
SYMMETRY SessionSymmetry
INVARIANTS
    TypeOK
    NoSharedReservation
    ShownIsSpent
    QuietFilesAgree
    ConfiguredUserIsAsked
PROPERTY
    WritesUnderLock
    ImplementsOneTimeCounter
