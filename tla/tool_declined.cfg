SPECIFICATION Spec
CONSTANTS
    CardTargets = {70}
    PasscodeTargets = {}
    Counts <- CountsOfOne
    KeyOf <- TwoKeys
    TemporaryKey = 2000
    LoginCnts = {1}
    MaxRuns = 1
    Accidents = {"declined"}
    MaxAccidents = 1
CHECK_DEADLOCK FALSE
INVARIANT
    DeclinedKeepsNumbers
