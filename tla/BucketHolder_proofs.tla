------------------------- MODULE BucketHolder_proofs -------------------------
(***************************************************************************)
(* Proofs about BucketHolder: the type invariant, the cursor discipline,  *)
(* the booking-limit identity for every bucket list whose size fits in a  *)
(* short, and the revenue identity.                                      *)
(***************************************************************************)
EXTENDS BucketHolder, TLAPS

USE CabinCapacityAssumption, MaxNbOfBucketsAssumption, YieldsAssumption,
    MeansAssumption, ProtectionValuesAssumption, ShortMaxAssumption,
    MaxVectorLengthAssumption

-----------------------------------------------------------------------------
(* Lemmas on the helpers.                                                  *)

\* The wrapped size never exceeds the real size.
LEMMA ToShortBound ==
    ASSUME NEW n \in Nat
    PROVE  /\ ToShort(n) \in Int
           /\ ToShort(n) <= n
BY DEF ToShort, ShortRange

\* A size that fits in a short is not changed by the wrap.
LEMMA ToShortSmall ==
    ASSUME NEW n \in 0..ShortMax
    PROVE  ToShort(n) = n
BY DEF ToShort, ShortRange

\* The loops run at most n - 1 times, and exactly n - 1 times when n fits.
LEMMA LoopCountBound ==
    ASSUME NEW n \in Nat
    PROVE  /\ LoopCount(n) \in Nat
           /\ n >= 1 => LoopCount(n) <= n - 1
           /\ n \in 1..ShortMax => LoopCount(n) = n - 1
<1>1. ToShort(n) \in Int /\ ToShort(n) <= n
  BY ToShortBound
<1>2. n \in 1..ShortMax => ToShort(n) = n
  BY ToShortSmall
<1>. QED  BY <1>1, <1>2 DEF LoopCount

\* A sum of integers is an integer.
LEMMA SeqSumType ==
    ASSUME NEW s \in Seq(Int)
    PROVE  SeqSum(s) \in Int
<1>. DEFINE R == RunningSums(s)
<1>1. CASE R # {}
  <2>1. (CHOOSE p \in R : TRUE) \in [0..Len(s) -> Int]
    BY <1>1 DEF RunningSums
  <2>. QED  BY <1>1, <2>1 DEF SeqSum
<1>2. CASE R = {}
  BY <1>2 DEF SeqSum
<1>. QED  BY <1>1, <1>2

\* Every element of a list of buckets has integer fields.
LEMMA BucketFields ==
    ASSUME NEW bl \in Seq(Bucket), NEW j \in 1..Len(bl)
    PROVE  /\ bl[j] \in Bucket
           /\ bl[j].averageYield \in Nat
           /\ bl[j].mean \in Nat
           /\ bl[j].cumulatedProtection \in Int
           /\ bl[j].protection \in Int
           /\ bl[j].cumulatedBookingLimit \in Int
<1>1. bl[j] \in Bucket
  OBVIOUS
<1>. QED  BY <1>1 DEF Bucket

\* The cumulated protection before any bucket is an integer.
LEMMA PreviousCumulatedProtectionType ==
    ASSUME NEW bl \in Seq(Bucket), NEW j \in 1..Len(bl) + 1
    PROVE  PreviousCumulatedProtection(bl, j) \in Int
<1>1. CASE j = 1
  BY <1>1 DEF PreviousCumulatedProtection
<1>2. CASE j # 1
  <2>1. j - 1 \in 1..Len(bl)
    BY <1>2
  <2>. QED  BY <1>2, <2>1, BucketFields DEF PreviousCumulatedProtection
<1>. QED  BY <1>1, <1>2

\* A function on 1..n is a sequence of length n.
LEMMA FunctionIsSeq ==
    ASSUME NEW S, NEW n \in Nat, NEW f \in [1..n -> S]
    PROVE  f \in Seq(S) /\ Len(f) = n
OBVIOUS

\* calculateProtectionAndBookingLimits() keeps a list of buckets a list of
\* buckets of the same length, and leaves every cumulated protection.
LEMMA ProtectionAndBookingLimitsType ==
    ASSUME NEW bl \in Seq(Bucket)
    PROVE  /\ ProtectionAndBookingLimits(bl) \in Seq(Bucket)
           /\ Len(ProtectionAndBookingLimits(bl)) = Len(bl)
           /\ \A j \in 1..Len(bl) :
                  ProtectionAndBookingLimits(bl)[j].cumulatedProtection
                      = bl[j].cumulatedProtection
<1>. DEFINE f == ProtectionAndBookingLimits(bl)
<1>1. ASSUME NEW j \in 1..Len(bl)
      PROVE  /\ f[j] \in Bucket
             /\ f[j].cumulatedProtection = bl[j].cumulatedProtection
  <2>1. PreviousCumulatedProtection(bl, j) \in Int
    BY PreviousCumulatedProtectionType
  <2>2. bl[j] \in Bucket
    OBVIOUS
  <2>3. CASE j <= LoopCount(Len(bl)) + 1
    <3>1. f[j] = [bl[j] EXCEPT
                    !.cumulatedBookingLimit =
                        CabinCapacity - PreviousCumulatedProtection(bl, j),
                    !.protection =
                        bl[j].cumulatedProtection - PreviousCumulatedProtection(bl, j)]
      BY <2>3 DEF ProtectionAndBookingLimits
    <3>2. /\ bl[j].cumulatedProtection \in Int
          /\ CabinCapacity - PreviousCumulatedProtection(bl, j) \in Int
          /\ bl[j].cumulatedProtection - PreviousCumulatedProtection(bl, j) \in Int
      BY <2>1, BucketFields
    <3>. QED  BY <3>1, <3>2, <2>2, Zenon DEF Bucket
  <2>4. CASE ~(j <= LoopCount(Len(bl)) + 1)
    BY <2>2, <2>4 DEF ProtectionAndBookingLimits
  <2>. QED  BY <2>3, <2>4
<1>2. f \in [1..Len(bl) -> Bucket]
  BY <1>1 DEF ProtectionAndBookingLimits
<1>3. \A j \in 1..Len(bl) : f[j].cumulatedProtection = bl[j].cumulatedProtection
  BY <1>1
<1>. QED  BY <1>2, <1>3, FunctionIsSeq

\* Both sums over a list of buckets are integers.
LEMMA AggregatesType ==
    ASSUME NEW bl \in Seq(Bucket)
    PROVE  /\ MeanDemand(bl) \in Int
           /\ Revenue(bl) \in Int
<1>1. [j \in 1..Len(bl) |-> bl[j].mean] \in Seq(Int)
  <2>1. [j \in 1..Len(bl) |-> bl[j].mean] \in [1..Len(bl) -> Int]
    BY BucketFields
  <2>. QED  BY <2>1, FunctionIsSeq
<1>2. [j \in 1..Len(bl) |-> bl[j].averageYield * bl[j].protection] \in Seq(Int)
  <2>1. [j \in 1..Len(bl) |-> bl[j].averageYield * bl[j].protection]
            \in [1..Len(bl) -> Int]
    BY BucketFields
  <2>. QED  BY <2>1, FunctionIsSeq
<1>. QED  BY <1>1, <1>2, SeqSumType DEF MeanDemand, Revenue

-----------------------------------------------------------------------------
(* Type correctness.                                                       *)

\* The cursors left by the two looping passes point into 1..End.
LEMMA CursorsAfterLoopType ==
    ASSUME NEW n \in Nat, n >= 1
    PROVE  /\ 1 + LoopCount(n) \in 0..n + 1
           /\ 2 + LoopCount(n) \in 0..n + 1
BY LoopCountBound

LEMMA InitTypeOK == Init => TypeOK
<1> SUFFICES ASSUME Init PROVE TypeOK
  OBVIOUS
<1>1. PICK n \in 0..MaxNbOfBuckets : bucketList \in [1..n -> InitialBucket]
  BY DEF Init
<1>2. InitialBucket \subseteq Bucket
  <2>1. /\ Yields \subseteq Nat /\ Means \subseteq Nat
        /\ {0} \subseteq Int
    BY YieldsAssumption, MeansAssumption
  <2>. QED  BY <2>1, Zenon DEF InitialBucket, Bucket
<1>3. bucketList \in Seq(Bucket) /\ Len(bucketList) = n
  BY <1>1, <1>2, FunctionIsSeq
<1>. QED  BY <1>3 DEF Init, TypeOK, Size, End, Singular

LEMMA NextTypeOK == TypeOK /\ [Next]_vars => TypeOK'
<1> SUFFICES ASSUME TypeOK, [Next]_vars PROVE TypeOK'
  OBVIOUS
<1>. USE DEF TypeOK, Size, End, Singular
<1>1. CASE Begin
  BY <1>1 DEF Begin
<1>2. CASE Iterate
  BY <1>2 DEF Iterate
<1>3. CASE Tag
  BY <1>3 DEF Tag
<1>4. CASE SetCumulatedProtection
  <2>1. PICK it \in {itCurrentBucket, itNextBucket, itTaggedBucket} \cap 1..Size,
             v \in ProtectionValues :
          /\ bucketList' = [bucketList EXCEPT ![it].cumulatedProtection = v]
          /\ pending' = pending \cup {"limits"}
          /\ UNCHANGED <<itCurrentBucket, itNextBucket, itTaggedBucket,
                         totalMeanDemand, demandFactor, optimalRevenue,
                         bookingLimitVector>>
    BY <1>4 DEF SetCumulatedProtection
  <2>2. [bucketList[it] EXCEPT !.cumulatedProtection = v] \in Bucket
    <3>1. bucketList[it] \in Bucket /\ v \in Int
      BY <2>1, BucketFields
    <3>. QED  BY <3>1, Zenon DEF Bucket
  <2>3. bucketList' \in Seq(Bucket) /\ Len(bucketList') = Len(bucketList)
    BY <2>1, <2>2
  <2>. QED  BY <2>1, <2>3
<1>5. CASE CalculateProtectionAndBookingLimits
  <2>1. /\ bucketList' \in Seq(Bucket)
        /\ Len(bucketList') = Len(bucketList)
    BY <1>5, ProtectionAndBookingLimitsType
       DEF CalculateProtectionAndBookingLimits
  <2>2. /\ itCurrentBucket' \in 0..Len(bucketList) + 1
        /\ itNextBucket' \in 0..Len(bucketList) + 1
    BY <1>5, CursorsAfterLoopType
       DEF CalculateProtectionAndBookingLimits, CursorsAfterLoop
  <2>. QED  BY <1>5, <2>1, <2>2 DEF CalculateProtectionAndBookingLimits
<1>6. CASE CalculateMeanDemandAndOptimalRevenue
  <2>1. MeanDemand(bucketList) \in Int /\ Revenue(bucketList) \in Int
    BY AggregatesType
  <2>. QED  BY <1>6, <2>1
           DEF CalculateMeanDemandAndOptimalRevenue, MeanDemandAndOptimalRevenue
<1>7. CASE GetLowestAverageYield
  BY <1>7, CursorsAfterLoopType DEF GetLowestAverageYield, CursorsAfterLoop
<1>8. CASE Recalculate
  <2>. DEFINE bl == ProtectionAndBookingLimits(bucketList)
  <2>1. bl \in Seq(Bucket) /\ Len(bl) = Len(bucketList)
    BY ProtectionAndBookingLimitsType
  <2>2. MeanDemand(bl) \in Int /\ Revenue(bl) \in Int
    BY <2>1, AggregatesType
  <2>3. /\ itCurrentBucket' \in 0..Len(bucketList) + 1
        /\ itNextBucket' \in 0..Len(bucketList) + 1
    BY <1>8, CursorsAfterLoopType DEF Recalculate, CursorsAfterLoop
  <2>. QED  BY <1>8, <2>1, <2>2, <2>3
           DEF Recalculate, MeanDemandAndOptimalRevenue
<1>9. CASE Fillup
  <2>1. [j \in 1..Size |-> bucketList[j].cumulatedBookingLimit] \in Seq(Int)
    <3>1. [j \in 1..Size |-> bucketList[j].cumulatedBookingLimit]
              \in [1..Size -> Int]
      BY BucketFields
    <3>. QED  BY <3>1, FunctionIsSeq
  <2>. QED  BY <1>9, <2>1 DEF Fillup
<1>10. CASE UNCHANGED vars
  BY <1>10 DEF vars
<1>. QED  BY <1>1, <1>2, <1>3, <1>4, <1>5, <1>6, <1>7, <1>8, <1>9, <1>10
          DEF Next

\* The type invariant holds in every reachable state, for every value of
\* the constants: the cursors stay within the list or at end(), and the
\* passes of calculateProtectionAndBookingLimits() and
\* calculateMeanDemandAndOptimalRevenue() produce well-formed buckets and
\* integer aggregates.
THEOREM TypeCorrect == Spec => []TypeOK
BY InitTypeOK, NextTypeOK, PTL DEF Spec

-----------------------------------------------------------------------------
(* The booking-limit identity.                                             *)

\* After the pass over a list whose size fits in a short, every bucket
\* satisfies the identity: the loop reaches the last bucket, and the pass
\* writes no cumulated protection, so each bucket's predecessor still holds
\* the value the pass read.
LEMMA PassEstablishesLimits ==
    ASSUME NEW bl \in Seq(Bucket), Len(bl) \in 1..ShortMax
    PROVE  LimitsConsistent(ProtectionAndBookingLimits(bl))
<1>. DEFINE f == ProtectionAndBookingLimits(bl)
<1>1. LoopCount(Len(bl)) + 1 = Len(bl)
  BY LoopCountBound
<1>2. Len(f) = Len(bl)
  /\ \A j \in 1..Len(bl) : f[j].cumulatedProtection = bl[j].cumulatedProtection
  BY ProtectionAndBookingLimitsType
<1>3. ASSUME NEW j \in 1..Len(bl)
      PROVE  PreviousCumulatedProtection(f, j) = PreviousCumulatedProtection(bl, j)
  BY <1>2 DEF PreviousCumulatedProtection
<1>4. ASSUME NEW j \in 1..Len(bl)
      PROVE  f[j] = [bl[j] EXCEPT
                       !.cumulatedBookingLimit =
                           CabinCapacity - PreviousCumulatedProtection(bl, j),
                       !.protection =
                           bl[j].cumulatedProtection - PreviousCumulatedProtection(bl, j)]
  <2>1. j <= LoopCount(Len(bl)) + 1
    BY <1>1
  <2>. QED  BY <2>1, Zenon DEF ProtectionAndBookingLimits
<1>5. ASSUME NEW j \in 1..Len(bl)
      PROVE  /\ f[j].cumulatedBookingLimit =
                    CabinCapacity - PreviousCumulatedProtection(f, j)
             /\ f[j].protection =
                    f[j].cumulatedProtection - PreviousCumulatedProtection(f, j)
  <2>1. bl[j] \in Bucket
    OBVIOUS
  <2>. QED  BY <1>2, <1>3, <1>4, <2>1 DEF Bucket
<1>. QED  BY <1>2, <1>5 DEF LimitsConsistent

\* The inductive invariant: the identity needs the type of the bucket list.
IInv == TypeOK /\ BookingLimitIdentity

LEMMA NextIInv ==
    ASSUME MaxNbOfBuckets <= ShortMax
    PROVE  IInv /\ [Next]_vars => IInv'
<1> SUFFICES ASSUME IInv, [Next]_vars PROVE BookingLimitIdentity'
  BY NextTypeOK DEF IInv
<1>. USE DEF IInv, BookingLimitIdentity
\* The pass over the whole list establishes the identity.
<1>1. LimitsConsistent(ProtectionAndBookingLimits(bucketList))
          \/ Len(bucketList) = 0
  <2>1. bucketList \in Seq(Bucket) /\ Len(bucketList) <= ShortMax
    BY DEF TypeOK, Size
  <2>. QED  BY <2>1, PassEstablishesLimits
<1>2. CASE Begin
  BY <1>2 DEF Begin
<1>3. CASE Iterate
  BY <1>3 DEF Iterate
<1>4. CASE Tag
  BY <1>4 DEF Tag
<1>5. CASE SetCumulatedProtection
  BY <1>5 DEF SetCumulatedProtection
<1>6. CASE CalculateProtectionAndBookingLimits
  BY <1>1, <1>6 DEF CalculateProtectionAndBookingLimits, Size
<1>7. CASE CalculateMeanDemandAndOptimalRevenue
  BY <1>7 DEF CalculateMeanDemandAndOptimalRevenue
<1>8. CASE GetLowestAverageYield
  BY <1>8 DEF GetLowestAverageYield
<1>9. CASE Recalculate
  BY <1>1, <1>9 DEF Recalculate, Size
<1>10. CASE Fillup
  BY <1>10 DEF Fillup
<1>11. CASE UNCHANGED vars
  BY <1>11 DEF vars
<1>. QED  BY <1>2, <1>3, <1>4, <1>5, <1>6, <1>7, <1>8, <1>9, <1>10, <1>11
          DEF Next

\* Booking-limit identity of the spec (section 8): for every bucket list no
\* longer than the largest short, whenever no cumulated protection was
\* written since the last calculateProtectionAndBookingLimits() or
\* recalculate(), each bucket's booking limit is the capacity minus the
\* previous bucket's cumulated protection, and its protection is the
\* difference of the two cumulated protections.  The hypothesis is needed:
\* getSize() wraps longer lists and the pass then stops early.
THEOREM BookingLimitIdentityHolds ==
    ASSUME MaxNbOfBuckets <= ShortMax
    PROVE  Spec => []BookingLimitIdentity
<1>1. Init => IInv
  BY InitTypeOK DEF Init, IInv, BookingLimitIdentity
<1>2. IInv /\ [Next]_vars => IInv'
  BY NextIInv
<1>3. IInv => BookingLimitIdentity
  BY DEF IInv
<1>. QED  BY <1>1, <1>2, <1>3, PTL DEF Spec

-----------------------------------------------------------------------------
(* The cursor discipline.                                                  *)

\* Both loops leave current on a bucket and next one further.
LEMMA CursorsAfterLoopInStep ==
    ASSUME NEW n \in Nat, n >= 1
    PROVE  /\ 1 + LoopCount(n) \in 1..n
           /\ 2 + LoopCount(n) = (1 + LoopCount(n)) + 1
BY LoopCountBound

\* A current cursor on a bucket with next one further is in step.
LEMMA InStepOnBucket ==
    ASSUME NEW c, NEW n, NEW sz \in Nat, c \in 1..sz, n = c + 1
    PROVE  /\ (c = 0) <=> (n = 0)
           /\ c # 0 => n = IF c = sz + 1 THEN sz + 1 ELSE c + 1
OBVIOUS

\* The inductive invariant: in-step cursors need the type of the cursors.
CInv == TypeOK /\ CursorsInStep

LEMMA NextCInv == CInv /\ [Next]_vars => CInv'
<1> SUFFICES ASSUME CInv, [Next]_vars PROVE CursorsInStep'
  BY NextTypeOK DEF CInv
<1>. USE DEF CInv, CursorsInStep, Singular
<1>. DEFINE SameEnd == Size' = Size
<1>0. Size \in Nat /\ Size' \in Nat
  BY NextTypeOK DEF TypeOK, Size
<1>1. ASSUME Size >= 1, CursorsAfterLoop, SameEnd PROVE CursorsInStep'
  <2>1. Size' = Size
    BY <1>1 DEF SameEnd
  <2>2. itCurrentBucket' \in 1..Size /\ itNextBucket' = itCurrentBucket' + 1
    BY <1>0, <1>1, CursorsAfterLoopInStep DEF CursorsAfterLoop
  <2>3. /\ (itCurrentBucket' = 0) <=> (itNextBucket' = 0)
        /\ itCurrentBucket' # 0 =>
               itNextBucket' = IF itCurrentBucket' = Size + 1 THEN Size + 1
                               ELSE itCurrentBucket' + 1
    BY <1>0, <2>2, InStepOnBucket, Zenon
  <2>. QED  BY <2>1, <2>3 DEF End
<1>2. bucketList \in Seq(Bucket)
  BY DEF TypeOK
<1>3. CASE Begin
  BY <1>3 DEF Begin, End, Size, TypeOK
<1>4. CASE Iterate
  BY <1>4 DEF Iterate, TypeOK, End, Size
<1>5. CASE Tag
  BY <1>5 DEF Tag, End, Size
<1>6. CASE SetCumulatedProtection
  <2>1. SameEnd
    BY <1>2, <1>6 DEF SetCumulatedProtection, End, Size
  <2>. QED  BY <1>6, <2>1 DEF SetCumulatedProtection, SameEnd, End
<1>8. CASE CalculateProtectionAndBookingLimits
  <2>1. SameEnd
    BY <1>2, <1>8, ProtectionAndBookingLimitsType
       DEF CalculateProtectionAndBookingLimits, End, Size
  <2>. QED  BY <1>1, <1>8, <2>1 DEF CalculateProtectionAndBookingLimits, SameEnd, End
<1>9. CASE CalculateMeanDemandAndOptimalRevenue
  BY <1>9 DEF CalculateMeanDemandAndOptimalRevenue, End, Size
<1>10. CASE GetLowestAverageYield
  <2>1. SameEnd
    BY <1>10 DEF GetLowestAverageYield, End, Size
  <2>. QED  BY <1>1, <1>10, <2>1 DEF GetLowestAverageYield
<1>11. CASE Recalculate
  <2>1. SameEnd
    BY <1>2, <1>11, ProtectionAndBookingLimitsType DEF Recalculate, End, Size
  <2>. QED  BY <1>1, <1>11, <2>1 DEF Recalculate, SameEnd, End
<1>12. CASE Fillup
  BY <1>12 DEF Fillup, End, Size
<1>13. CASE UNCHANGED vars
  BY <1>13 DEF vars, End, Size
<1>. QED  BY <1>3, <1>4, <1>5, <1>6, <1>8, <1>9, <1>10, <1>11, <1>12, <1>13
          DEF Next

\* Cursor discipline of the spec (section 3), for every value of the
\* constants: begin(), iterate() and the loops of the two cursor-moving
\* passes (calculateProtectionAndBookingLimits() and
\* getLowestAverageYield()) always leave the next iterator one past the
\* current one, or both at end(), or both unassigned.
THEOREM CursorsInStepHolds == Spec => []CursorsInStep
<1>1. Init => CInv
  BY InitTypeOK DEF Init, CInv, CursorsInStep, Singular
<1>2. CInv /\ [Next]_vars => CInv'
  BY NextCInv
<1>3. CInv => CursorsInStep
  BY DEF CInv
<1>. QED  BY <1>1, <1>2, <1>3, PTL DEF Spec

-----------------------------------------------------------------------------
(* The cached aggregates.                                                  *)

\* Writing a cumulated protection through a cursor leaves every yield,
\* mean and protection of the list as it was, so both sums that
\* calculateMeanDemandAndOptimalRevenue() caches are unchanged.
LEMMA CumulatedProtectionKeepsSums ==
    ASSUME NEW bl \in Seq(Bucket), NEW it \in 1..Len(bl), NEW v
    PROVE  LET bl2 == [bl EXCEPT ![it].cumulatedProtection = v]
           IN  /\ Revenue(bl2) = Revenue(bl)
               /\ MeanDemand(bl2) = MeanDemand(bl)
<1>. DEFINE bl2 == [bl EXCEPT ![it].cumulatedProtection = v]
<1>1. Len(bl2) = Len(bl)
  OBVIOUS
<1>2. \A j \in 1..Len(bl) :
          /\ bl2[j].averageYield = bl[j].averageYield
          /\ bl2[j].protection = bl[j].protection
          /\ bl2[j].mean = bl[j].mean
  <2>1. bl[it] \in Bucket
    BY BucketFields
  <2>2. bl2[it] = [bl[it] EXCEPT !.cumulatedProtection = v]
    OBVIOUS
  <2>3. /\ bl2[it].averageYield = bl[it].averageYield
        /\ bl2[it].protection = bl[it].protection
        /\ bl2[it].mean = bl[it].mean
    BY <2>1, <2>2 DEF Bucket
  <2>4. \A j \in 1..Len(bl) \ {it} : bl2[j] = bl[j]
    OBVIOUS
  <2>. QED  BY <2>3, <2>4
<1>3. /\ [j \in 1..Len(bl2) |-> bl2[j].averageYield * bl2[j].protection]
           = [j \in 1..Len(bl) |-> bl[j].averageYield * bl[j].protection]
      /\ [j \in 1..Len(bl2) |-> bl2[j].mean] = [j \in 1..Len(bl) |-> bl[j].mean]
  BY <1>1, <1>2
<1>. QED  BY <1>3, Zenon DEF Revenue, MeanDemand

\* The inductive invariant: the revenue identity needs the type of the
\* bucket list for the cursor writes.
RInv == TypeOK /\ RevenueIdentity

LEMMA NextRInv == RInv /\ [Next]_vars => RInv'
<1> SUFFICES ASSUME RInv, [Next]_vars PROVE RevenueIdentity'
  BY NextTypeOK DEF RInv
<1>. USE DEF RInv
<1>1. CASE SetCumulatedProtection
  <2>1. PICK it \in {itCurrentBucket, itNextBucket, itTaggedBucket} \cap 1..Size,
             v \in ProtectionValues :
          /\ bucketList' = [bucketList EXCEPT ![it].cumulatedProtection = v]
          /\ pending' = pending \cup {"limits"}
          /\ UNCHANGED <<totalMeanDemand, demandFactor, optimalRevenue>>
    BY <1>1, Zenon DEF SetCumulatedProtection
  <2>2. bucketList \in Seq(Bucket) /\ it \in 1..Len(bucketList)
    BY <2>1 DEF TypeOK, Size
  <2>3. /\ Revenue(bucketList') = Revenue(bucketList)
        /\ MeanDemand(bucketList') = MeanDemand(bucketList)
    BY <2>1, <2>2, CumulatedProtectionKeepsSums, Zenon
  <2>. QED  BY <2>1, <2>3 DEF RevenueIdentity
<1>2. CASE CalculateProtectionAndBookingLimits
  BY <1>2 DEF CalculateProtectionAndBookingLimits, RevenueIdentity
<1>3. CASE CalculateMeanDemandAndOptimalRevenue
  BY <1>3 DEF CalculateMeanDemandAndOptimalRevenue,
              MeanDemandAndOptimalRevenue, RevenueIdentity
<1>4. CASE Recalculate
  BY <1>4 DEF Recalculate, MeanDemandAndOptimalRevenue, RevenueIdentity
<1>5. CASE Begin \/ Iterate \/ Tag \/ GetLowestAverageYield \/ Fillup
      \/ UNCHANGED vars
  BY <1>5 DEF Begin, Iterate, Tag, GetLowestAverageYield, Fillup, vars,
              RevenueIdentity
<1>. QED  BY <1>1, <1>2, <1>3, <1>4, <1>5 DEF Next

\* Revenue identity of the spec (section 8), for every value of the
\* constants: unless a calculateProtectionAndBookingLimits() has changed
\* the protections since, the optimal revenue, the total mean demand and
\* the demand factor cached by calculateMeanDemandAndOptimalRevenue() or
\* recalculate() are those of the current bucket list; an optimiser's
\* writes of cumulated protections in between never make them stale.
THEOREM RevenueIdentityHolds == Spec => []RevenueIdentity
<1>1. Init => RInv
  BY InitTypeOK DEF Init, RInv, RevenueIdentity
<1>2. RInv /\ [Next]_vars => RInv'
  BY NextRInv
<1>3. RInv => RevenueIdentity
  BY DEF RInv
<1>. QED  BY <1>1, <1>2, <1>3, PTL DEF Spec

=============================================================================
