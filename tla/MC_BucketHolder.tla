--------------------------- MODULE MC_BucketHolder ---------------------------
(***************************************************************************)
(* Model-checking instance of BucketHolder: up to three buckets, two      *)
(* yields, one mean, protections 0..2 on a cabin of 2 seats.              *)
(***************************************************************************)
EXTENDS BucketHolder

\* SeqSum is defined by a choice over running sums, which TLC cannot
\* enumerate; TLC evaluates the same running sum with a recursive function.
MCSeqSum(s) ==
    LET sums[i \in 0..Len(s)] == IF i = 0 THEN 0 ELSE sums[i-1] + s[i]
    IN  sums[Len(s)]

=============================================================================
