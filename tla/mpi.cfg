SPECIFICATION Spec
CONSTANTS
    DigitBit = 2
    CharBit = 1
    DefPrec = 2
    Null = Null
    Plus = 2
    LongChars = 11
    IntMax = 1023
    Regs = {"r1", "r2", "r3"}
    Start <- Starts
    Digits = {0, 1, 2, 3}
    Shifts = {0, 1, 2, 5}
    Radixes = {2, 3}
    MaxMagnitude = 1100
    MaxBase = 63
    MaxExponent = 5
CHECK_DEADLOCK FALSE
INVARIANTS
    TypeOK
    Values
    Canonical
    CleanAbove
    OverrunOnlyTimesDigit
    Comparisons
    Answers
