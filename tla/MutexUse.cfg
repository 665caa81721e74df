SPECIFICATION FairSpec
CONSTANT
    Threads = 4
INVARIANTS
    TypeOK
    LockedIsHeld
PROPERTY
    MaskedAcquireReturns
