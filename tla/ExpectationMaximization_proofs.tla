------------------- MODULE ExpectationMaximization_proofs -------------------
(***************************************************************************)
(* Proofs about the EM unconstrainer: the type of every estimate, and the  *)
(* monotone-improvement invariant CensoredNumbersAboveBooking, for every   *)
(* number and length of observations, every booking range and every       *)
(* iteration cap and tolerance.  Termination is a liveness property and   *)
(* stays with TLC.                                                         *)
(***************************************************************************)
EXTENDS ExpectationMaximization, FiniteSetTheorems, TLAPS

USE MaxObservationsAssumption, BookingValuesAssumption,
    MaxIterationsAssumption, ToleranceAssumption, MinUncensoredAssumption

Observation == [booking: BookingValues, censored: BOOLEAN]

\* Every estimate, mean and class the loop keeps is of its kind.
TypeOK ==
    /\ observations \in Seq(Observation)
    /\ demand \in [1..N -> Number]
    /\ mean \in Number
    /\ sd \in {"zero", "pos", "nan"}
    /\ iteration \in Nat
    /\ phase \in {"seed", "E", "M", "done"}

-----------------------------------------------------------------------------
(* Lemmas about the exact rationals.                                       *)

\* The gcd of a and a positive d lies in 1..d.
LEMMA GcdRange ==
    ASSUME NEW a \in Int, NEW d \in Nat \ {0}
    PROVE  Gcd(a, d) \in 1..d
<1>. DEFINE cd == CommonDivisors(a, d)
<1>1. cd \subseteq 1..d
    BY DEF CommonDivisors
<1>2. CASE \E g \in cd : \A k \in cd : k <= g
    BY <1>1, <1>2 DEF Gcd
<1>3. CASE ~\E g \in cd : \A k \in cd : k <= g
    BY <1>3 DEF Gcd
<1>. QED  BY <1>2, <1>3

\* A fraction with a positive denominator, reduced, is a number.
LEMMA RatType ==
    ASSUME NEW n \in Int, NEW d \in Nat \ {0}
    PROVE  Rat(n, d) \in Number /\ Rat(n, d) # NaN
<1>. DEFINE g == IF n = 0 THEN d ELSE Gcd(Abs(n), d)
<1>1. g \in 1..d
    BY GcdRange DEF Abs
<1>2. n \div g \in Int /\ d \div g \in Nat \ {0}
    BY <1>1
<1>. QED  BY <1>2 DEF Rat, Number, NaN

\* An integer is already in lowest terms.
LEMMA AsNumberValue ==
    ASSUME NEW v \in Nat
    PROVE  AsNumber(v) = [num |-> v, den |-> 1]
<1>1. CASE v = 0
    BY <1>1 DEF AsNumber, Rat
<1>2. CASE v # 0
    <2>1. Gcd(Abs(v), 1) = 1
        BY GcdRange DEF Abs
    <2>. QED  BY <1>2, <2>1 DEF AsNumber, Rat
<1>. QED  BY <1>1, <1>2

LEMMA AddType ==
    ASSUME NEW x \in Number, NEW y \in Number
    PROVE  Add(x, y) \in Number
<1>1. CASE x = NaN \/ y = NaN
    BY <1>1 DEF Add, Number
<1>2. CASE x # NaN /\ y # NaN
    <2>1. x \in [num: Int, den: Nat \ {0}] /\ y \in [num: Int, den: Nat \ {0}]
        BY <1>2 DEF Number
    <2>2. x.num * y.den + y.num * x.den \in Int /\ x.den * y.den \in Nat \ {0}
        BY <2>1
    <2>. QED  BY <1>2, <2>2, RatType DEF Add
<1>. QED  BY <1>1, <1>2

LEMMA DivByType ==
    ASSUME NEW x \in Number, NEW k \in Int
    PROVE  DivBy(x, k) \in Number
<1>1. CASE x = NaN \/ k = 0
    BY <1>1 DEF DivBy, Number
<1>2. CASE x # NaN /\ k > 0
    <2>1. x.num \in Int /\ x.den * k \in Nat \ {0}
        BY <1>2 DEF Number
    <2>. QED  BY <1>2, <2>1, RatType DEF DivBy
<1>3. CASE x # NaN /\ k < 0
    <2>1. -x.num \in Int /\ x.den * (-k) \in Nat \ {0}
        BY <1>3 DEF Number
    <2>. QED  BY <1>3, <2>1, RatType DEF DivBy
<1>. QED  BY <1>1, <1>2, <1>3

\* The sum of a sequence is a number, whatever the sequence holds.
LEMMA TotalType ==
    ASSUME NEW s \in Seq(Number)
    PROVE  Total(s) \in Number
<1>1. CASE RunningTotals(s) # {}
    <2>1. PICK p \in RunningTotals(s) : p = CHOOSE q \in RunningTotals(s) : TRUE
        BY <1>1
    <2>2. p \in [0..Len(s) -> Number] /\ Len(s) \in 0..Len(s)
        BY DEF RunningTotals
    <2>. QED  BY <1>1, <2>1, <2>2 DEF Total
<1>2. CASE RunningTotals(s) = {}
    BY <1>2, RatType DEF Total
<1>. QED  BY <1>1, <1>2

\* Every value calculateExpectedDemand() may return is a number.
LEMMA ExpectedDemandType ==
    ASSUME NEW b \in Nat, NEW m \in Number, NEW sdc, NEW prior \in Number
    PROVE  ExpectedDemand(b, m, sdc, prior) \subseteq Number
<1>1. \A v \in b..MaxValue : AsNumber(v) \in Number
    BY AsNumberValue DEF Number
<1>2. NaN \in Number
    BY DEF Number, NaN
<1>. QED  BY <1>1, <1>2 DEF ExpectedDemand

-----------------------------------------------------------------------------
(* Type correctness.                                                       *)

\* A list of observations has a length, and each observation a natural
\* booking count and a flag.
LEMMA ObservationFields ==
    ASSUME observations \in Seq(Observation)
    PROVE  /\ N \in Nat
           /\ \A i \in 1..N : observations[i].booking \in Nat
           /\ \A i \in 1..N : observations[i].censored \in BOOLEAN
<1>1. N \in Nat
    BY DEF N
<1>2. \A i \in 1..N : observations[i] \in Observation
    BY DEF N
<1>3. BookingValues \subseteq Nat
    OBVIOUS
<1>. QED  BY <1>1, <1>2, <1>3 DEF Observation

LEMMA InitTypeOK == Init => TypeOK
<1> SUFFICES ASSUME Init PROVE TypeOK
    OBVIOUS
<1>1. observations \in Seq(Observation)
    <2>1. PICK n \in 1..MaxObservations : observations \in [1..n -> Observation]
        BY Zenon DEF Init, Observation
    <2>. QED  BY <2>1
<1>2. \A i \in 1..N : observations[i].booking \in Nat
    BY <1>1, ObservationFields
<1>3. demand \in [1..N -> Number]
    BY <1>2, AsNumberValue DEF Init, Number
<1>. QED  BY <1>1, <1>3 DEF Init, TypeOK, Number, NaN

LEMMA NextTypeOK == TypeOK /\ [Next]_vars => TypeOK'
<1> SUFFICES ASSUME TypeOK, [Next]_vars PROVE TypeOK'
    OBVIOUS
<1>. USE DEF TypeOK
<1>0. /\ N \in Nat
      /\ \A i \in 1..N : observations[i].booking \in Nat
      /\ \A i \in 1..N : observations[i].censored \in BOOLEAN
    BY ObservationFields
<1>1. CASE Seed
    <2>1. UncensoredBookings \in Seq(Number)
        <3>1. Rat(0, 1) \in Number
            BY RatType
        <3>2. \A i \in 1..N : AsNumber(observations[i].booking) \in Number
            BY <1>0, AsNumberValue DEF Number
        <3>3. UncensoredBookings \in [1..N -> Number]
            BY <3>1, <3>2 DEF UncensoredBookings
        <3>. QED  BY <1>0, <3>3
    <2>2. Cardinality(Uncensored) \in Nat
        <3>1. IsFiniteSet(1..N)
            BY <1>0, FS_Interval
        <3>2. IsFiniteSet(Uncensored)
            BY <3>1, FS_Subset DEF Uncensored
        <3>. QED  BY <3>2, FS_CardinalityType
    <2>3. UncensoredMean \in Number
        BY <2>1, <2>2, TotalType, DivByType DEF UncensoredMean
    <2>. QED  BY <1>1, <2>3 DEF Seed, UncensoredStdDev, StdDevClass, N
<1>2. CASE EStep
    <2>1. \A i \in 1..N : ExpectedDemand(observations[i].booking, mean, sd,
                                          demand[i]) \subseteq Number
        BY <1>0, ExpectedDemandType
    <2>. QED  BY <1>2, <2>1 DEF EStep, ToBeUnconstrained, N
<1>3. CASE MStep
    <2>1. demand \in Seq(Number) /\ Len(demand) = N
        BY <1>0
    <2>2. MeanDemand(demand) \in Number
        BY <2>1, TotalType, DivByType DEF MeanDemand
    <2>. QED  BY <1>3, <2>2 DEF MStep, StandardDeviation, StdDevClass, N
<1>4. CASE UNCHANGED vars
    BY <1>4 DEF vars, N
<1>. QED  BY <1>1, <1>2, <1>3, <1>4 DEF Next

\* Every estimate the E-step writes, and every mean and standard
\* deviation the seed and the M-step compute, is NaN or an exact fraction
\* with a positive denominator, whatever the bookings and bounds.
THEOREM TypeCorrect == Spec => []TypeOK
<1>1. Init => TypeOK
    BY InitTypeOK
<1>2. TypeOK /\ [Next]_vars => TypeOK'
    BY NextTypeOK
<1>. QED  BY <1>1, <1>2, PTL DEF Spec

-----------------------------------------------------------------------------
(* Monotone improvement.                                                   *)

\* A number whose fraction lies above a booking count does not lie below it.
LEMMA AboveNotBelow ==
    ASSUME NEW b \in Nat, NEW m \in Number, m # NaN,
           Less(AsNumber(b), m)
    PROVE  ~Less(m, AsNumber(b))
<1>1. m.num \in Int /\ m.den \in Int
    BY DEF Number
<1>. QED  BY <1>1, AsNumberValue DEF Less

\* calculateExpectedDemand() for a censored observation returns, when it
\* returns a number, one at or above the booking count, provided that the
\* prior estimate it may fall back to is.
LEMMA ExpectedDemandAbove ==
    ASSUME NEW b \in Nat, NEW m \in Number, NEW sdc, NEW prior \in Number,
           prior # NaN => ~Less(prior, AsNumber(b)),
           NEW x \in ExpectedDemand(b, m, sdc, prior), x # NaN
    PROVE  ~Less(x, AsNumber(b))
<1>1. CASE m = NaN \/ sdc = "nan"
    BY <1>1 DEF ExpectedDemand
<1>2. CASE ~(m = NaN \/ sdc = "nan") /\ sdc = "zero"
    <2>1. x = prior \/ (x = m /\ Less(AsNumber(b), m))
        BY <1>2 DEF ExpectedDemand
    <2>. QED  BY <2>1, AboveNotBelow
<1>3. CASE ~(m = NaN \/ sdc = "nan") /\ sdc # "zero"
    <2>1. x = prior \/ \E v \in b..MaxValue : x = AsNumber(v)
        BY <1>3 DEF ExpectedDemand
    <2>2. ASSUME NEW v \in b..MaxValue PROVE ~Less(AsNumber(v), AsNumber(b))
        <3>1. v \in Nat
            OBVIOUS
        <3>. QED  BY <3>1, AsNumberValue DEF Less
    <2>. QED  BY <2>1, <2>2
<1>. QED  BY <1>1, <1>2, <1>3

\* The inductive invariant: the monotone-improvement property needs the
\* types of the estimates and of the mean.
IInv == TypeOK /\ CensoredNumbersAboveBooking

LEMMA NextIInv == IInv /\ [Next]_vars => IInv'
<1> SUFFICES ASSUME IInv, [Next]_vars PROVE CensoredNumbersAboveBooking'
    BY NextTypeOK DEF IInv
<1>. USE DEF IInv
<1>0. /\ N \in Nat
      /\ \A i \in 1..N : observations[i].booking \in Nat
    BY ObservationFields DEF TypeOK
<1>1. CASE EStep
    <2>1. ASSUME NEW i \in 1..N, ToBeUnconstrained(i), demand'[i] # NaN
          PROVE  ~Less(demand'[i], AsNumber(observations[i].booking))
        <3>1. demand'[i] \in ExpectedDemand(observations[i].booking, mean, sd,
                                            demand[i])
            BY <1>1, <2>1 DEF EStep
        <3>2. demand[i] # NaN =>
                  ~Less(demand[i], AsNumber(observations[i].booking))
            BY <2>1 DEF CensoredNumbersAboveBooking
        <3>. QED  BY <1>0, <2>1, <3>1, <3>2, ExpectedDemandAbove DEF TypeOK
    <2>. QED  BY <1>1, <2>1 DEF EStep, CensoredNumbersAboveBooking,
                                ToBeUnconstrained, N
<1>2. CASE Seed \/ MStep \/ UNCHANGED vars
    BY <1>2 DEF Seed, MStep, vars, CensoredNumbersAboveBooking,
                ToBeUnconstrained, N
<1>. QED  BY <1>1, <1>2 DEF Next

\* EM monotone improvement (spec section 8), for every list of
\* observations, booking range, iteration cap and tolerance: over all the
\* rounds of unconstrainData(), every estimate calculateExpectedDemand()
\* gives a censored observation is, when it is a number, at or above its
\* booking count, including the prior estimate kept when the tail
\* probability underflows.
THEOREM CensoredNumbersAboveBookingHolds == Spec => []CensoredNumbersAboveBooking
<1>1. Init => IInv
    <2>. SUFFICES ASSUME Init PROVE IInv
        OBVIOUS
    <2>1. TypeOK
        BY InitTypeOK
    <2>2. \A i \in 1..N : demand[i] = [num |-> observations[i].booking, den |-> 1]
        BY <2>1, ObservationFields, AsNumberValue DEF Init, TypeOK
    <2>3. \A i \in 1..N :
              AsNumber(observations[i].booking)
                  = [num |-> observations[i].booking, den |-> 1]
        BY <2>1, ObservationFields, AsNumberValue DEF TypeOK
    <2>. QED  BY <2>1, <2>2, <2>3, ObservationFields
              DEF IInv, CensoredNumbersAboveBooking, Less, TypeOK
<1>2. IInv /\ [Next]_vars => IInv'
    BY NextIInv
<1>3. IInv => CensoredNumbersAboveBooking
    BY DEF IInv
<1>. QED  BY <1>1, <1>2, <1>3, PTL DEF Spec

=============================================================================
