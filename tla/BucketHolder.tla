---------------------------- MODULE BucketHolder ----------------------------
(***************************************************************************)
(* The ordered fare-class collection of RMOL (src/rmol/bom/BucketHolder.cpp)*)
(* together with its cursor protocol and its revenue / booking-limit      *)
(* bookkeeping.                                                            *)
(*                                                                         *)
(* A BucketHolder owns an ordered list of buckets (fare classes, highest  *)
(* yield first), a cabin capacity, three list iterators (current, next,  *)
(* tagged) shared by every caller, and three cached aggregates (total     *)
(* mean demand, demand factor, optimal revenue).  The optimisers write    *)
(* the cumulated protection of a bucket reached through a cursor, then    *)
(* call recalculate(), which derives protections, booking limits and the  *)
(* aggregates in two passes that themselves move the shared cursors.      *)
(*                                                                         *)
(* Every public method is one action, and the caller is left free: any    *)
(* method may be called in any order, as long as the call has defined    *)
(* behaviour (the methods that dereference a cursor are only called when  *)
(* the cursor points at a bucket).  Loops of the code are whole-sequence  *)
(* assignments in a single step.  Doubles are abstracted to integers.     *)
(***************************************************************************)
EXTENDS Integers, Sequences

CONSTANTS
    CabinCapacity,      \* _cabinCapacity, fixed at construction
    MaxNbOfBuckets,     \* longest bucket list built by the factory
    Yields,             \* average yields a bucket may be built with
    Means,              \* mean demands a bucket may be built with
    ProtectionValues,   \* cumulated protections an optimiser may write
    ShortMax,           \* largest value of a C++ short (2^15 - 1)
    MaxVectorLength     \* bound on the caller's booking-limit vector

ASSUME CabinCapacityAssumption == CabinCapacity \in Int
ASSUME MaxNbOfBucketsAssumption == MaxNbOfBuckets \in Nat
ASSUME YieldsAssumption == Yields \subseteq Nat
ASSUME MeansAssumption == Means \subseteq Nat
ASSUME ProtectionValuesAssumption == ProtectionValues \subseteq Int
ASSUME ShortMaxAssumption == ShortMax \in Nat
ASSUME MaxVectorLengthAssumption == MaxVectorLength \in Nat

VARIABLES
    bucketList,          \* _bucketList: sequence of bucket records
    itCurrentBucket,     \* _itCurrentBucket, as a position (see below)
    itNextBucket,        \* _itNextBucket
    itTaggedBucket,      \* _itTaggedBucket
    totalMeanDemand,     \* _totalMeanDemand
    demandFactor,        \* _demandFactor, as the fraction num/den
    optimalRevenue,      \* _optimalRevenue
    bookingLimitVector,  \* the caller's vector filled by fillup()
    pending              \* ghost: derived fields not recomputed since
                         \* their inputs last changed

vars == <<bucketList, itCurrentBucket, itNextBucket, itTaggedBucket,
          totalMeanDemand, demandFactor, optimalRevenue,
          bookingLimitVector, pending>>

-----------------------------------------------------------------------------
(***************************************************************************)
(* Data.  A bucket keeps its inputs (yield, mean) and the three outputs   *)
(* the optimisers and the holder write.  An iterator is a position:       *)
(* 1..Size is a bucket, Size + 1 is end(), and Singular is an iterator    *)
(* that was never assigned (a default-constructed list iterator).  The    *)
(* list never changes length once built, so end() keeps its position.     *)
(***************************************************************************)
Bucket == [averageYield: Nat, mean: Nat, cumulatedProtection: Int,
           protection: Int, cumulatedBookingLimit: Int]

Size == Len(bucketList)
End == Size + 1
Singular == 0

\* getSize() returns a short: the list size wrapped to the width of short.
ShortRange == 2 * (ShortMax + 1)
ToShort(n) == LET m == n % ShortRange
              IN  IF m > ShortMax THEN m - ShortRange ELSE m

\* Number of iterations of `for (j = 1; j <= nbOfClasses - 1; ...)` and of
\* `for (j = 1; j < nbOfBuckets; ...)`, with nbOfClasses = getSize().
LoopCount(n) == IF ToShort(n) - 1 > 0 THEN ToShort(n) - 1 ELSE 0

\* Sum of a sequence of integers: the last of its running sums.
RunningSums(s) == {p \in [0..Len(s) -> Int] :
                      /\ p[0] = 0
                      /\ \A i \in 1..Len(s) : p[i] = p[i-1] + s[i]}
SeqSum(s) == IF RunningSums(s) # {}
             THEN (CHOOSE p \in RunningSums(s) : TRUE)[Len(s)]
             ELSE 0

-----------------------------------------------------------------------------
(***************************************************************************)
(* Helpers translating the two passes of BucketHolder.cpp.                 *)
(***************************************************************************)

\* getPreviousCumulatedProtection() with the current iterator at j.
PreviousCumulatedProtection(bl, j) ==
    IF j = 1 THEN 0 ELSE bl[j-1].cumulatedProtection

\* The loop of calculateProtectionAndBookingLimits() stopping one early
\* (j < nbOfClasses - 1).
ProtectionAndBookingLimitsShort(bl) ==
    [j \in 1..Len(bl) |->
        IF j <= LoopCount(Len(bl))
        THEN [bl[j] EXCEPT
                !.cumulatedBookingLimit =
                    CabinCapacity - PreviousCumulatedProtection(bl, j),
                !.protection =
                    bl[j].cumulatedProtection - PreviousCumulatedProtection(bl, j)]
        ELSE bl[j]]

\* The bucket list after calculateProtectionAndBookingLimits(): bucket 1
\* before the loop, buckets 2..LoopCount+1 as Bucket(j+1) in the loop.
ProtectionAndBookingLimits(bl) ==
    [j \in 1..Len(bl) |->
        IF j <= LoopCount(Len(bl)) + 1
        THEN [bl[j] EXCEPT
                !.cumulatedBookingLimit =
                    CabinCapacity - PreviousCumulatedProtection(bl, j),
                !.protection =
                    bl[j].cumulatedProtection - PreviousCumulatedProtection(bl, j)]
        ELSE bl[j]]

MeanDemand(bl) == SeqSum([j \in 1..Len(bl) |-> bl[j].mean])
Revenue(bl) == SeqSum([j \in 1..Len(bl) |->
                          bl[j].averageYield * bl[j].protection])

\* calculateMeanDemandAndOptimalRevenue() without resetting the sums.
MeanDemandAndOptimalRevenueNoReset(bl) ==
    /\ totalMeanDemand' = totalMeanDemand + MeanDemand(bl)
    /\ optimalRevenue' = optimalRevenue + Revenue(bl)
    /\ demandFactor' = IF CabinCapacity # 0
                       THEN [num |-> totalMeanDemand', den |-> CabinCapacity]
                       ELSE demandFactor

\* calculateMeanDemandAndOptimalRevenue() applied to bucket list bl: both
\* sums restart from 0.0; the demand factor is left alone when the
\* capacity is 0.
MeanDemandAndOptimalRevenue(bl) ==
    /\ totalMeanDemand' = MeanDemand(bl)
    /\ optimalRevenue' = Revenue(bl)
    /\ demandFactor' = IF CabinCapacity # 0
                       THEN [num |-> MeanDemand(bl), den |-> CabinCapacity]
                       ELSE demandFactor

\* The cursors after begin() followed by LoopCount iterate() calls, as left
\* by both passes that loop over the list.
CursorsAfterLoop ==
    /\ itCurrentBucket' = 1 + LoopCount(Size)
    /\ itNextBucket' = 2 + LoopCount(Size)

-----------------------------------------------------------------------------
(***************************************************************************)
(* Initial state: the holder as FacBucketHolder builds it, the buckets in *)
(* non-increasing yield order with their outputs at 0, the iterators      *)
(* never assigned, the aggregates at 0.0.                                 *)
(***************************************************************************)
InitialBucket == [averageYield: Yields, mean: Means, cumulatedProtection: {0},
                  protection: {0}, cumulatedBookingLimit: {0}]

OrderedByYield(bl) ==
    \A j \in 1..Len(bl) - 1 : bl[j].averageYield >= bl[j+1].averageYield

Init ==
    /\ bucketList \in {bl \in UNION {[1..n -> InitialBucket] :
                                        n \in 0..MaxNbOfBuckets} :
                          OrderedByYield(bl)}
    /\ itCurrentBucket = Singular
    /\ itNextBucket = Singular
    /\ itTaggedBucket = Singular
    /\ totalMeanDemand = 0
    /\ demandFactor = [num |-> 0, den |-> 1]
    /\ optimalRevenue = 0
    /\ bookingLimitVector = <<>>
    /\ pending = {"limits", "revenue"}

-----------------------------------------------------------------------------
(***************************************************************************)
(* Operations.                                                             *)
(***************************************************************************)

\* begin() without the `if (_itNextBucket != end())` guard.
BeginUnguarded ==
    /\ itCurrentBucket' = 1
    /\ itNextBucket' = 2
    /\ UNCHANGED <<bucketList, itTaggedBucket, totalMeanDemand, demandFactor,
                   optimalRevenue, bookingLimitVector, pending>>

\* begin(): current on the first bucket, next one further unless at end().
Begin ==
    /\ itCurrentBucket' = IF Size = 0 THEN End ELSE 1
    /\ itNextBucket' = IF Size = 0 THEN End ELSE 2
    /\ UNCHANGED <<bucketList, itTaggedBucket, totalMeanDemand, demandFactor,
                   optimalRevenue, bookingLimitVector, pending>>

\* iterate() advancing the current iterator without the end() check.
IterateUnguarded ==
    /\ itCurrentBucket # Singular
    /\ itCurrentBucket' = itCurrentBucket + 1
    /\ itNextBucket' = IF itNextBucket # End
                       THEN itNextBucket + 1 ELSE itNextBucket
    /\ UNCHANGED <<bucketList, itTaggedBucket, totalMeanDemand, demandFactor,
                   optimalRevenue, bookingLimitVector, pending>>

\* iterate(): each iterator advances unless it is at end().
Iterate ==
    /\ itCurrentBucket # Singular
    /\ itCurrentBucket' = IF itCurrentBucket # End
                          THEN itCurrentBucket + 1 ELSE itCurrentBucket
    /\ itNextBucket' = IF itNextBucket # End
                       THEN itNextBucket + 1 ELSE itNextBucket
    /\ UNCHANGED <<bucketList, itTaggedBucket, totalMeanDemand, demandFactor,
                   optimalRevenue, bookingLimitVector, pending>>

\* tag(): remember the current position.
Tag ==
    /\ itCurrentBucket # Singular
    /\ itTaggedBucket' = itCurrentBucket
    /\ UNCHANGED <<bucketList, itCurrentBucket, itNextBucket, totalMeanDemand,
                   demandFactor, optimalRevenue, bookingLimitVector, pending>>

\* An optimiser writes the cumulated protection of the bucket returned by
\* getCurrentBucket(), getNextBucket() or getTaggedBucket(); the accessor
\* dereferences its iterator, so it must point at a bucket.
SetCumulatedProtection ==
    \E it \in {itCurrentBucket, itNextBucket, itTaggedBucket} \cap 1..Size,
       v \in ProtectionValues :
        /\ bucketList' = [bucketList EXCEPT ![it].cumulatedProtection = v]
        /\ pending' = pending \cup {"limits"}
        /\ UNCHANGED <<itCurrentBucket, itNextBucket, itTaggedBucket,
                       totalMeanDemand, demandFactor, optimalRevenue,
                       bookingLimitVector>>

\* calculateProtectionAndBookingLimits(); dereferences the first bucket.
CalculateProtectionAndBookingLimits ==
    /\ Size >= 1
    /\ bucketList' = ProtectionAndBookingLimits(bucketList)
    /\ CursorsAfterLoop
    /\ pending' = (pending \ {"limits"}) \cup {"revenue"}
    /\ UNCHANGED <<itTaggedBucket, totalMeanDemand, demandFactor,
                   optimalRevenue, bookingLimitVector>>

\* calculateMeanDemandAndOptimalRevenue(): a pass that uses no cursor.
CalculateMeanDemandAndOptimalRevenue ==
    /\ MeanDemandAndOptimalRevenue(bucketList)
    /\ pending' = pending \ {"revenue"}
    /\ UNCHANGED <<bucketList, itCurrentBucket, itNextBucket, itTaggedBucket,
                   bookingLimitVector>>

\* getLowestAverageYield(): a scan that moves the shared cursors.  Its
\* result is returned to the caller and changes no state.
GetLowestAverageYield ==
    /\ Size >= 1
    /\ CursorsAfterLoop
    /\ UNCHANGED <<bucketList, itTaggedBucket, totalMeanDemand, demandFactor,
                   optimalRevenue, bookingLimitVector, pending>>

\* recalculate() with its two passes in the opposite order.
RecalculateSwapped ==
    /\ Size >= 1
    /\ bucketList' = ProtectionAndBookingLimits(bucketList)
    /\ MeanDemandAndOptimalRevenue(bucketList)
    /\ CursorsAfterLoop
    /\ pending' = {}
    /\ UNCHANGED <<itTaggedBucket, bookingLimitVector>>

\* recalculate(): booking limits first, then the revenue from the new
\* protections.
Recalculate ==
    /\ Size >= 1
    /\ bucketList' = ProtectionAndBookingLimits(bucketList)
    /\ MeanDemandAndOptimalRevenue(ProtectionAndBookingLimits(bucketList))
    /\ CursorsAfterLoop
    /\ pending' = {}
    /\ UNCHANGED <<itTaggedBucket, bookingLimitVector>>

\* fillup(v): appends every cumulated booking limit to the caller's vector.
Fillup ==
    /\ Len(bookingLimitVector) + Size <= MaxVectorLength
    /\ bookingLimitVector' =
           bookingLimitVector \o
               [j \in 1..Size |-> bucketList[j].cumulatedBookingLimit]
    /\ UNCHANGED <<bucketList, itCurrentBucket, itNextBucket, itTaggedBucket,
                   totalMeanDemand, demandFactor, optimalRevenue, pending>>

Next ==
    \/ Begin
    \/ Iterate
    \/ Tag
    \/ SetCumulatedProtection
    \/ CalculateProtectionAndBookingLimits
    \/ CalculateMeanDemandAndOptimalRevenue
    \/ GetLowestAverageYield
    \/ Recalculate
    \/ Fillup

Spec == Init /\ [][Next]_vars

-----------------------------------------------------------------------------
(***************************************************************************)
(* Properties.                                                             *)
(***************************************************************************)

TypeOK ==
    /\ bucketList \in Seq(Bucket)
    /\ Size <= MaxNbOfBuckets
    /\ itCurrentBucket \in 0..End
    /\ itNextBucket \in 0..End
    /\ itTaggedBucket \in 0..End
    /\ totalMeanDemand \in Int
    /\ demandFactor \in [num: Int, den: Int]
    /\ optimalRevenue \in Int
    /\ bookingLimitVector \in Seq(Int)
    /\ pending \subseteq {"limits", "revenue"}

\* Cursor discipline of the spec (section 3): once begin() has run, next is
\* one position ahead of current, or both sit at end(); this must survive
\* begin(), iterate() and the two passes that reposition the cursors.
CursorsInStep ==
    /\ (itCurrentBucket = Singular) <=> (itNextBucket = Singular)
    /\ itCurrentBucket # Singular =>
           itNextBucket = IF itCurrentBucket = End THEN End
                          ELSE itCurrentBucket + 1

\* Booking-limit identity (spec section 8): unless a cumulated protection
\* was written since the last calculateProtectionAndBookingLimits() or
\* recalculate(), every bucket j has limit = capacity - cumProt(j-1) and
\* protection = cumProt(j) - cumProt(j-1).
LimitsConsistent(bl) ==
    \A j \in 1..Len(bl) :
        /\ bl[j].cumulatedBookingLimit =
               CabinCapacity - PreviousCumulatedProtection(bl, j)
        /\ bl[j].protection =
               bl[j].cumulatedProtection - PreviousCumulatedProtection(bl, j)

BookingLimitIdentity == "limits" \notin pending => LimitsConsistent(bucketList)

\* Revenue identity (spec section 8): unless protections changed since the
\* last calculateMeanDemandAndOptimalRevenue() or recalculate(), the cached
\* aggregates equal the sums over the current buckets.
RevenueIdentity ==
    "revenue" \notin pending =>
        /\ optimalRevenue = Revenue(bucketList)
        /\ totalMeanDemand = MeanDemand(bucketList)
        /\ CabinCapacity # 0 =>
               demandFactor = [num |-> totalMeanDemand, den |-> CabinCapacity]

=============================================================================
