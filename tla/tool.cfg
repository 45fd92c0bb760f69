SPECIFICATION Spec
CONSTANTS
    CardTargets = {70}
    PasscodeTargets = {71}
    Counts <- CountsOfTwo
    KeyOf <- TwoKeys
    TemporaryKey = 2000
    LoginCnts = {1, 70}
    MaxRuns = 2
    Accidents = {"declined", "temporary", "alphabet", "lostPage", "killed"}
    MaxAccidents = 1
CHECK_DEADLOCK FALSE
INVARIANTS
    TypeOK
    PaperOrWarning
    AskedOncePerKey
    TemporaryKeyNotSaved
    
PROPERTIES
    RecordedWhenSent
    KeySurvivesCounterWrites
    ImplementsCardBook
