CONSTANTS
    CabinCapacity = 2
    MaxNbOfBuckets = 3
    Yields = {1, 2}
    Means = {1}
    ProtectionValues = {0, 1, 2}
    ShortMax = 32767
    MaxVectorLength = 2
    SeqSum <- MCSeqSum

SPECIFICATION Spec

INVARIANTS
    TypeOK
    CursorsInStep
    BookingLimitIdentity
    RevenueIdentity
