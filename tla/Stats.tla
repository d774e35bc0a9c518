------------------------------- MODULE Stats --------------------------------
(***************************************************************************)
(* The summary of the successful queries of one endpoint: computeStats,    *)
(* median, percentile and Score of cmd/dnsspeed/bench.go, over integer     *)
(* durations.  Go indexes slices from 0, these sequences start at 1.       *)
(*                                                                         *)
(* The floating-point steps are modelled by their results: the rank        *)
(* ceil(0.95 n) is exact for every n below two million, and the square     *)
(* root of the variance is truncated to a whole duration.                  *)
(***************************************************************************)
EXTENDS Integers, Sequences, SequencesExt, FiniteSetsExt

\* One round of an insertion sort: e moves left past every element it is
\* less than, up to the first one it is not.
Place(s, e, Less(_, _)) ==
  InsertAt(s, 1 + Max({0} \cup {j \in DOMAIN s : ~Less(e, s[j])}), e)

\* sort.SliceStable is an insertion sort for up to 20 elements, and stable by
\* contract above; of integers sort.Slice returns the same.
SortBy(s, Less(_, _)) ==
  LET sorted[n \in 0..Len(s)] ==
        IF n = 0 THEN <<>> ELSE Place(sorted[n - 1], s[n], Less)
  IN  sorted[Len(s)]

NotSorted(samples) == samples
Sorted(samples) == SortBy(samples, <)

UpperMedian(s) == IF s = <<>> THEN 0 ELSE s[Len(s) \div 2 + 1]
Median(s) ==
  LET n == Len(s)
  IN  IF n = 0 THEN 0
      ELSE IF n % 2 = 1 THEN s[n \div 2 + 1]
      ELSE (s[n \div 2] + s[n \div 2 + 1]) \div 2

\* The quantile of p percent by the nearest-rank method.
RankRoundedDown(p, n) == (p * n) \div 100
RankRoundedUp(p, n) == (p * n + 99) \div 100

Percentile(s, p) ==
  LET rank == RankRoundedUp(p, Len(s))
  IN  IF s = <<>> THEN 0
      ELSE s[IF rank < 1 THEN 1 ELSE IF rank > Len(s) THEN Len(s) ELSE rank]

Total(s) ==
  LET sum[n \in 0..Len(s)] == IF n = 0 THEN 0 ELSE sum[n - 1] + s[n]
  IN  sum[Len(s)]
Avg(s)   == Total(s) \div Len(s)

Stddev(s) ==
  LET mean    == Avg(s)
      squares == Total([j \in DOMAIN s |-> (s[j] - mean) * (s[j] - mean)])
  IN  CHOOSE r \in 0..Total(s) : /\ r * r * Len(s) <= squares
                                  /\ (r + 1) * (r + 1) * Len(s) > squares

\* The struct Stats.
StatsType == [N : Nat, Min : Nat, Median : Nat, Avg : Nat, P95 : Nat, Max : Nat,
              Stddev : Nat]

NoStats == [N |-> 0, Min |-> 0, Median |-> 0, Avg |-> 0, P95 |-> 0, Max |-> 0,
            Stddev |-> 0]

ComputeStats(samples) ==
  LET s == Sorted(samples)
  IN  IF samples = <<>> THEN NoStats
      ELSE [N      |-> Len(s),
            Min    |-> s[1],
            Median |-> Median(s),
            Avg    |-> Avg(s),
            P95    |-> Percentile(s, 95),
            Max    |-> s[Len(s)],
            Stddev |-> Stddev(s)]

Score(stats) == stats.Median + stats.Stddev
=============================================================================
