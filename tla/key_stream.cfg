SPECIFICATION Spec
CONSTANTS
    DigitBit = 8
    CharBit = 8
    DefPrec = 8
    Null = Null
    Plus = 62
    LongChars = 3
    IntMax = 32767
    MaxPieces = 3
    Jobs <- AllJobs
CHECK_DEADLOCK FALSE
INVARIANTS
    PassesTestVectors
    PrintedAsVerified
    PrimitivesRight
