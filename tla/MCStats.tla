------------------------------ MODULE MCStats -------------------------------
(***************************************************************************)
(* Checks Stats against definitions that do not sort, over a set of sample *)
(* sequences: every short one, and long ones with two durations, so that   *)
(* there are enough samples (20) for a P95 below the maximum.              *)
(***************************************************************************)
EXTENDS Stats

CONSTANTS
  Durations,  \* the durations of a query
  Short,      \* bound: the samples of the sequences in any order
  MaxSamples  \* bound: the samples

ASSUME DurationsAssumption == Durations \subseteq Nat
ASSUME BoundsAssumption    == Short \in Nat /\ MaxSamples \in Nat

Samples ==
  (UNION {[1..n -> Durations] : n \in 1..Short})
    \cup (UNION {{[j \in 1..n |-> IF j % m = 0 THEN d ELSE e] :
                    d, e \in Durations, m \in 1..n} : n \in Short + 1..MaxSamples})

\* The number of samples of s that are at most v, and the smallest sample
\* that passes a test.
AtMost(s, v) == Cardinality({j \in DOMAIN s : s[j] <= v})
Smallest(s, Test(_)) ==
  LET passes == {j \in DOMAIN s : Test(s[j])}
  IN  s[CHOOSE j \in passes : \A k \in passes : s[j] <= s[k]]

\* The mean of the lower and the upper median.
Middle(s) ==
  LET lower == Smallest(s, LAMBDA v : 2 * AtMost(s, v) >= Len(s))
      upper == Smallest(s, LAMBDA v : 2 * AtMost(s, v) > Len(s))
  IN  (lower + upper) \div 2

\* The quantile of p percent by its definition: the smallest sample that p
\* percent of the samples do not exceed.
Quantile(s, p) == Smallest(s, LAMBDA v : 100 * AtMost(s, v) >= p * Len(s))

Consistent(stats) ==
  /\ stats.Min <= stats.Median /\ stats.Median <= stats.P95
  /\ stats.P95 <= stats.Max
  /\ stats.Min <= stats.Avg /\ stats.Avg <= stats.Max
  /\ stats.Stddev <= stats.Max - stats.Min
  /\ stats.Min = stats.Max => Score(stats) = stats.Median
=============================================================================
