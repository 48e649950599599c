\* getSize() returns short; a 2-bit short (ShortMax = 1) stands for the
\* 16-bit one so that a list of 2 buckets wraps as 32768 buckets would.
CONSTANTS
    CabinCapacity = 2
    MaxNbOfBuckets = 2
    Yields = {1, 2}
    Means = {1}
    ProtectionValues = {0, 1}
    ShortMax = 1
    MaxVectorLength = 2
    SeqSum <- MCSeqSum

SPECIFICATION Spec

INVARIANT
    BookingLimitIdentity
