----------------------------- MODULE MCRanking ------------------------------
(***************************************************************************)
(* Ranking for TLC: the statistics are those of one or two samples, so     *)
(* that ties, and keys that order two endpoints differently, occur.        *)
(*                                                                         *)
(* What run computes before it measures, and the statistics, are checked   *)
(* here too.  Their properties speak of all lists of servers, or of all    *)
(* Samples, at once and not of a state; they are stated for the states     *)
(* without a result, the initial ones, so that TLC does not evaluate them  *)
(* again in every state.                                                   *)
(***************************************************************************)
EXTENDS Ranking, MCStats, MCTargets

AllStatsDef ==
  {ComputeStats(s) : s \in UNION {[1..n -> Durations] : n \in 1..2}}

\* What is measured are the first -limit endpoints that match -filter, in the
\* order of the list and of -protocol, of each row that is no comment and
\* repeats no earlier row; a row without a DoQ endpoint costs neither its DoH
\* endpoint nor those of other rows (run, LoadServers, BuildTargets).
PlanIsComplete ==
  results = <<>> =>
    \A rows \in Lists, parts \in Options, re \in Filters, limit \in Limits :
      LET protos == ParseProtocols(parts)
      IN  IsPlan(Plan(rows, protos, re, limit), Asked(rows, protos, re),
                 rows, protos, limit)

\* No endpoint is measured twice at once, neither for a repeated row nor for
\* a repeated protocol; the exception are the DoQ endpoints of two URLs of
\* one host (LoadServers, parseProtocols, BuildTargets).
OnlyDoQRepeats ==
  results = <<>> =>
    \A rows \in Lists, parts \in Options :
      LET plan == Plan(rows, ParseProtocols(parts), NoFilter, 0)
      IN  \A j, k \in DOMAIN plan :
            j # k /\ plan[j].proto = plan[k].proto /\ plan[j].url = plan[k].url =>
              plan[j].proto = "DoQ" /\ plan[j].server.url # plan[k].server.url

\* The median is the middle of the samples, whatever their order and whether
\* their number is odd or even (median).
MedianIsMiddle ==
  results = <<>> => \A s \in Samples : ComputeStats(s).Median = Middle(s)

\* P95 is the quantile of the nearest-rank definition (percentile).
P95IsNearestRank ==
  results = <<>> => \A s \in Samples : ComputeStats(s).P95 = Quantile(s, 95)

\* The columns of one row cannot contradict each other, truncated averages
\* and square roots included, and a steady endpoint has the score of its
\* median (computeStats, Score).
StatsConsistent ==
  results = <<>> => \A s \in Samples : Consistent(ComputeStats(s))
=============================================================================
