SPECIFICATION FairSpec
CONSTANTS
    Users = {u1, u2}
    u1 = u1
    u2 = u2
    Nobody = Nobody
    Secure = TRUE
    StartLeft = {0, 15, 71}
    MaxCalls = 2
    MaxEdits = 1
CHECK_DEADLOCK FALSE
INVARIANTS
    TypeOK
    SessionIsTold
    KeyLeavesMemory
    SecureAlwaysReserves
    FreesOnceInACall
PROPERTY
    SessionEnds
