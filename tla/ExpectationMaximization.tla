----------------------- MODULE ExpectationMaximization -----------------------
(***************************************************************************)
(* The Expectation-Maximization demand unconstrainer of RMOL.              *)
(*                                                                         *)
(* The per-observation helpers are those of HistoricalBookingHolderHolder *)
(* (src/0.23.0/main/rmol/bom/HistoricalBookingHolderHolder.cpp), which are *)
(* commented out in this snapshot of the repository; the loop that drives *)
(* them, ExpectationMaximization::unconstrainData(), is only declared      *)
(* under src/, and its body is absent.  The loop is taken from the spec  *)
(* (section 4.5): alternate an E-step over the censored observations and  *)
(* an M-step over all of them until the mean moves by less than the       *)
(* tolerance or the iteration cap is reached.  The spec leaves the seed   *)
(* to the caller; this model seeds the mean and standard deviation with   *)
(* the uncensored statistics of the helpers (getNumberOfUncensored-     *)
(* Bookings and getUncensoredStandardDeviation), one seed a caller may  *)
(* pass.                                                                   *)
(*                                                                         *)
(* Numbers.  An estimate or a mean is an exact rational, or NaN.  A       *)
(* standard deviation is kept only as its class ("zero", "pos", "nan"),    *)
(* which is all the E-step's branches depend on.  The truncated-normal    *)
(* expectation of the E-step, mean + sd * phi(z) / Q(z), is abstracted to *)
(* any integer at or above both the booking count and the mean.           *)
(***************************************************************************)
EXTENDS Integers, Sequences, FiniteSets

CONSTANTS
    MaxObservations,   \* longest list of similar flights
    BookingValues,     \* booking counts an observation may carry
    MaxValue,          \* largest value an E-step estimate is drawn from
    MaxIterations,     \* StoppingCriterion: iteration cap
    Tolerance,         \* StoppingCriterion: minimum change of the mean
    MinUncensored      \* fewest uncensored observations a caller passes

ASSUME MaxObservationsAssumption == MaxObservations \in Nat \ {0}
ASSUME BookingValuesAssumption == BookingValues \subseteq 0..MaxValue
ASSUME MaxIterationsAssumption == MaxIterations \in Nat \ {0}
ASSUME ToleranceAssumption == Tolerance \in Nat
ASSUME MinUncensoredAssumption == MinUncensored \in Nat

VARIABLES
    observations,  \* _historicalBookingHolderHolder: booking and flag
    demand,        \* the unconstrained demand of each observation
    mean,          \* current mean estimate
    sd,            \* class of the current standard deviation estimate
    iteration,     \* E/M rounds done
    phase          \* "seed", "E", "M" or "done"

vars == <<observations, demand, mean, sd, iteration, phase>>

-----------------------------------------------------------------------------
(***************************************************************************)
(* Exact rationals, normalised, and the NaN of IEEE doubles (the one      *)
(* record with a zero denominator).                                        *)
(***************************************************************************)
NaN == [num |-> 0, den |-> 0]

\* A number: NaN, or a fraction with a positive denominator.
Number == {NaN} \cup [num: Int, den: Nat \ {0}]

\* The greatest common divisor of a and d > 0: the greatest of the common
\* divisors in 1..d (1 is one of them, so there is a greatest; the ELSE
\* branch is never taken and only spares the proofs an induction).
CommonDivisors(a, d) == {k \in 1..d : a % k = 0 /\ d % k = 0}
Gcd(a, d) == LET cd == CommonDivisors(a, d)
             IN  IF \E g \in cd : \A k \in cd : k <= g
                 THEN CHOOSE g \in cd : \A k \in cd : k <= g
                 ELSE 1
Abs(a) == IF a < 0 THEN -a ELSE a

\* n / d for d > 0, in lowest terms.
Rat(n, d) == LET g == IF n = 0 THEN d ELSE Gcd(Abs(n), d)
             IN  [num |-> n \div g, den |-> d \div g]

Add(x, y) == IF x = NaN \/ y = NaN THEN NaN
             ELSE Rat(x.num * y.den + y.num * x.den, x.den * y.den)

\* Sum of a sequence of numbers (0 for the empty sequence), added from
\* left to right: the last of its running totals.
RunningTotals(s) == {p \in [0..Len(s) -> Number] :
                        /\ p[0] = Rat(0, 1)
                        /\ \A i \in 1..Len(s) : p[i] = Add(p[i-1], s[i])}
Total(s) == IF RunningTotals(s) # {}
            THEN (CHOOSE p \in RunningTotals(s) : TRUE)[Len(s)]
            ELSE Rat(0, 1)

\* x / k for an integer k: 0.0 / 0 is NaN; a non-zero x / 0 never occurs
\* below (k = 0 only for an empty sum).
DivBy(x, k) == IF x = NaN \/ k = 0 THEN NaN
               ELSE IF k > 0 THEN Rat(x.num, x.den * k)
                    ELSE Rat(-x.num, x.den * (-k))

Less(x, y) == x.num * y.den < y.num * x.den

\* The class of sqrt(sum_{x in S} (x - m)^2 / k) for the set S of the
\* values summed: 0.0 / 0 is NaN, and the empty sum over a negative count
\* gives -0.0, whose square root is -0.0 (the mean is then not read).
StdDevClass(S, m, k) ==
    IF \/ NaN \in S
       \/ S # {} /\ m = NaN
    THEN "nan"
    ELSE IF S \subseteq {m}
         THEN IF k = 0 THEN "nan" ELSE "zero"
         ELSE "pos"

-----------------------------------------------------------------------------
(***************************************************************************)
(* The helpers of HistoricalBookingHolderHolder.                           *)
(***************************************************************************)
N == Len(observations)

\* getListOfToBeUnconstrainedFlags(): the flag of every observation;
\* flagged (censored) observations are the ones the E-step rewrites.
ToBeUnconstrained(i) == observations[i].censored

AsNumber(b) == Rat(b, 1)

\* getNumberOfUncensoredData(): the observations whose flag is false.
Uncensored == {i \in 1..N : ~observations[i].censored}

\* What the loop of getNumberOfUncensoredBookings() adds at each
\* observation: its booking count if uncensored, nothing otherwise.
UncensoredBookings ==
    [i \in 1..N |-> IF observations[i].censored THEN Rat(0, 1)
                    ELSE AsNumber(observations[i].booking)]

\* getNumberOfUncensoredBookings() / getNumberOfUncensoredData(), and
\* getUncensoredStandardDeviation(mean, n), which divides by n - 1.
UncensoredMean == DivBy(Total(UncensoredBookings), Cardinality(Uncensored))
UncensoredStdDev ==
    StdDevClass({AsNumber(observations[i].booking) : i \in Uncensored},
                UncensoredMean, Cardinality(Uncensored) - 1)

\* getMeanDemand(): sum of the unconstrained demands over lSize.
MeanDemand(d) == DivBy(Total(d), Len(d))

\* getStandardDeviation(mean): divides by lSize - 1.
StandardDeviation(d, m) == StdDevClass({d[i] : i \in 1..Len(d)}, m, Len(d) - 1)

AtLeast(v, x) == ~Less(AsNumber(v), x)

\* calculateExpectedDemand() falling back to the mean instead of the prior
\* estimate when the tail probability underflows.
ExpectedDemandFallbackToMean(b, m, s, prior) ==
    IF m = NaN \/ s = "nan" THEN {NaN}
    ELSE IF s = "zero"
         THEN IF Less(m, AsNumber(b)) THEN {m}
              ELSE IF Less(AsNumber(b), m) THEN {m}
              ELSE {NaN}
    ELSE {AsNumber(v) : v \in {w \in b..MaxValue : AtLeast(w, m)}}
         \cup (IF Less(m, AsNumber(b)) THEN {m} ELSE {})

\* calculateExpectedDemand(iMean, iSD, i, iDemand): the values it may
\* return.  d1 = Q((b - mean) / sd) and d2 = sd * phi((b - mean) / sd);
\* d1 = 0 returns the prior estimate iDemand, otherwise mean + d2 / d1.
\*  - a NaN mean or standard deviation makes d1 and d2 NaN: NaN;
\*  - sd = 0: b > mean gives Q(+inf) = 0, the prior; b < mean gives
\*    d2 = 0, the mean; b = mean gives 0 / 0 in both: NaN;
\*  - sd > 0: the truncated mean, above both b and the mean; d1 underflows
\*    to 0 only far in the upper tail (b > mean), giving the prior.
ExpectedDemand(b, m, s, prior) ==
    IF m = NaN \/ s = "nan" THEN {NaN}
    ELSE IF s = "zero"
         THEN IF Less(m, AsNumber(b)) THEN {prior}
              ELSE IF Less(AsNumber(b), m) THEN {m}
              ELSE {NaN}
    ELSE {AsNumber(v) : v \in {w \in b..MaxValue : AtLeast(w, m)}}
         \cup (IF Less(m, AsNumber(b)) THEN {prior} ELSE {})

-----------------------------------------------------------------------------
(***************************************************************************)
(* The unconstraining loop.                                                *)
(***************************************************************************)

\* addHistoricalBooking() for each similar flight: any list of 1 to
\* MaxObservations observations with at least MinUncensored uncensored
\* ones, each estimate starting at its booking.
Init ==
    /\ observations \in
           {o \in UNION {[1..n -> [booking: BookingValues, censored: BOOLEAN]] :
                         n \in 1..MaxObservations} :
               Cardinality({i \in DOMAIN o : ~o[i].censored}) >= MinUncensored}
    /\ demand = [i \in 1..N |-> AsNumber(observations[i].booking)]
    /\ mean = NaN
    /\ sd = "nan"
    /\ iteration = 0
    /\ phase = "seed"

\* The initial estimate, from the uncensored observations.
Seed ==
    /\ phase = "seed"
    /\ mean' = UncensoredMean
    /\ sd' = UncensoredStdDev
    /\ phase' = "E"
    /\ UNCHANGED <<observations, demand, iteration>>

\* E-step: setUnconstrainedDemand(calculateExpectedDemand(mean, sd, i,
\* getUnconstrainedDemand(i)), i) for every flagged observation.
EStep ==
    LET Choices(i) == IF ToBeUnconstrained(i)
                      THEN ExpectedDemand(observations[i].booking, mean, sd,
                                          demand[i])
                      ELSE {demand[i]}
    IN  /\ phase = "E"
        /\ demand' \in {d \in [1..N -> UNION {Choices(i) : i \in 1..N}] :
                           \A i \in 1..N : d[i] \in Choices(i)}
        /\ phase' = "M"
        /\ UNCHANGED <<observations, mean, sd, iteration>>

\* M-step and stopping test: new mean and standard deviation of all the
\* estimates; stop when the mean moved by less than Tolerance (a NaN
\* never does) or after MaxIterations rounds.
MStep ==
    LET m == MeanDemand(demand)
        converged == /\ m # NaN /\ mean # NaN
                     /\ Less(Rat(Abs(m.num * mean.den - mean.num * m.den),
                                 m.den * mean.den),
                             Rat(Tolerance, 1))
    IN  /\ phase = "M"
        /\ mean' = m
        /\ sd' = StandardDeviation(demand, m)
        /\ iteration' = iteration + 1
        /\ phase' = IF converged \/ iteration + 1 >= MaxIterations
                    THEN "done" ELSE "E"
        /\ UNCHANGED <<observations, demand>>

Next == Seed \/ EStep \/ MStep

Spec == Init /\ [][Next]_vars

-----------------------------------------------------------------------------
\* EM monotone improvement (spec section 8): across every round, the
\* estimate of a censored observation, when it is a number, is never below
\* its booking count; the underflow fallback keeps the prior estimate,
\* which an earlier round left at or above the booking count.
CensoredNumbersAboveBooking ==
    \A i \in 1..N :
        ToBeUnconstrained(i) /\ demand[i] # NaN =>
            ~Less(demand[i], AsNumber(observations[i].booking))

=============================================================================
