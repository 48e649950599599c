--------------------- MODULE MC_ExpectationMaximization ---------------------
(***************************************************************************)
(* Model-checking instance of ExpectationMaximization.                    *)
(***************************************************************************)
EXTENDS ExpectationMaximization

\* Gcd and Total are defined by choices over sets that TLC cannot
\* enumerate; TLC computes the same values with Euclid's algorithm and a
\* left-to-right running total.
RECURSIVE MCGcd(_, _)
MCGcd(a, b) == IF b = 0 THEN a ELSE MCGcd(b, a % b)

MCTotal(s) ==
    LET sums[i \in 0..Len(s)] == IF i = 0 THEN Rat(0, 1) ELSE Add(sums[i-1], s[i])
    IN  sums[Len(s)]

=============================================================================
