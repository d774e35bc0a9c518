------------------------------ MODULE Ranking -------------------------------
(***************************************************************************)
(* What dnsspeed does with the results of RunBench: the second half of run *)
(* in cmd/dnsspeed/main.go, with Rank (bench.go), PrintRanking,            *)
(* PrintFailures (report.go), WriteJSON and WriteCSVReport (output.go) and *)
(* summarise (main.go).  Of each report only the order of the endpoints,   *)
(* their numbers and the counts are kept, not the layout.                  *)
(***************************************************************************)
EXTENDS Stats

CONSTANTS
  NTargets,  \* the number of endpoints
  AllStats,  \* what computeStats can return for an endpoint that answered
  SortKeys,  \* the values of -sort
  Tops       \* the values of -top

ASSUME NTargetsAssumption == NTargets \in Nat
ASSUME AllStatsAssumption == AllStats \subseteq StatsType
ASSUME TopsAssumption     == Tops \subseteq Int

VARIABLES
  pc,       \* the step of run
  key,      \* -sort
  top,      \* -top
  results,  \* the slice that RunBench returned
  ranked,   \* the slice that Rank returned
  table,    \* the rows of PrintRanking: their endpoints
  heading,  \* the number of successes in the heading of PrintRanking
  failures, \* the rows of PrintFailures
  json,     \* the ranks in the JSON report
  csv,      \* the ranks in the CSV report
  tally     \* the successes and failures of summarise, and the best endpoint

vars == <<pc, key, top, results, ranked, table, heading, failures, json, csv, tally>>

Nothing == [ok |-> 0, failed |-> 0, best |-> 0]

Init ==
  /\ pc = "bench"
  /\ key \in SortKeys
  /\ top \in Tops
  /\ results = <<>> /\ ranked = <<>>
  /\ table = <<>> /\ heading = 0 /\ failures = <<>>
  /\ json = <<>> /\ csv = <<>>
  /\ tally = Nothing

-----------------------------------------------------------------------------
(* The order of the endpoints.                                             *)

RankKey(stats) ==
  CASE key = "avg"   -> stats.Avg
    [] key = "p95"   -> stats.P95
    [] key = "min"   -> stats.Min
    [] key = "score" -> Score(stats)
    [] OTHER         -> stats.Median

LessOrEqual(a, b) == a.ok /\ (b.ok => RankKey(a.stats) <= RankKey(b.stats))
Less(a, b) == a.ok /\ (b.ok => RankKey(a.stats) < RankKey(b.stats))

Rank(rs) == SortBy(rs, Less)

-----------------------------------------------------------------------------
(* The reports.                                                            *)

\* The loops that collect the results with r.OK, or those without, in order.
WithOutcome(rs, ok) ==
  LET picked[n \in 0..Len(rs)] ==
        IF n = 0 THEN <<>>
        ELSE IF rs[n].ok = ok THEN Append(picked[n - 1], rs[n])
        ELSE picked[n - 1]
  IN  picked[Len(rs)]

Shown ==
  LET ok == WithOutcome(ranked, TRUE)
  IN  IF 0 < top /\ top < Len(ok) THEN SubSeq(ok, 1, top) ELSE ok

\* The counter of WriteJSON and WriteCSVReport.
RankNumberNoReset(r, previous) == previous + 1
RankNumber(r, previous) == IF r.ok THEN previous + 1 ELSE 0

Ranks ==
  LET rank[n \in 0..Len(ranked)] ==
        IF n = 0 THEN 0 ELSE RankNumber(ranked[n], rank[n - 1])
  IN  [n \in DOMAIN ranked |-> [target |-> ranked[n].target, rank |-> rank[n]]]

-----------------------------------------------------------------------------
(* The steps of run.                                                       *)

Goto(from, to) == pc = from /\ pc' = to

\* RunBench leaves one result per endpoint, failed or with samples.
Measured ==
  /\ pc = "bench" /\ Len(results) < NTargets
  /\ \E stats \in AllStats \cup {NoStats} :
       results' = Append(results, [target |-> Len(results) + 1,
                                   ok     |-> stats.N > 0,
                                   stats  |-> stats])
  /\ UNCHANGED <<pc, key, top, ranked, table, heading, failures, json, csv, tally>>

RankResults ==
  /\ Goto("bench", "ranking") /\ Len(results) = NTargets
  /\ ranked' = Rank(results)
  /\ UNCHANGED <<key, top, results, table, heading, failures, json, csv, tally>>

PrintRanking ==
  /\ Goto("ranking", "failures")
  /\ table' = [k \in DOMAIN Shown |-> Shown[k].target]
  /\ heading' = Len(Shown)
  /\ UNCHANGED <<key, top, results, ranked, failures, json, csv, tally>>

PrintFailures ==
  /\ Goto("failures", "json")
  /\ failures' = LET failed == WithOutcome(ranked, FALSE)
                 IN  [k \in DOMAIN failed |-> failed[k].target]
  /\ UNCHANGED <<key, top, results, ranked, table, heading, json, csv, tally>>

\* A report is written if its file name is given; an error ends run.
WriteJSON ==
  /\ \/ Goto("json", "csv") /\ json' \in {Ranks, <<>>}
     \/ Goto("json", "error") /\ UNCHANGED json
  /\ UNCHANGED <<key, top, results, ranked, table, heading, failures, csv, tally>>

WriteCSVReport ==
  /\ \/ Goto("csv", "summary") /\ csv' \in {Ranks, <<>>}
     \/ Goto("csv", "error") /\ UNCHANGED csv
  /\ UNCHANGED <<key, top, results, ranked, table, heading, failures, json, tally>>

Summarise ==
  /\ Goto("summary", "done")
  /\ LET ok == Len(WithOutcome(ranked, TRUE))
     IN  tally' = [ok     |-> ok,
                   failed |-> Len(ranked) - ok,
                   best   |-> IF ok > 0 THEN ranked[1].target ELSE 0]
  /\ UNCHANGED <<key, top, results, ranked, table, heading, failures, json, csv>>

Returned == pc \in {"done", "error"} /\ UNCHANGED vars

Next ==
  \/ Measured \/ RankResults \/ PrintRanking \/ PrintFailures
  \/ WriteJSON \/ WriteCSVReport \/ Summarise \/ Returned

Spec == Init /\ [][Next]_vars

-----------------------------------------------------------------------------
(* Properties.                                                             *)

\* Rank keeps every result once: those that answered come first, from the
\* smallest key to the largest, and neither ties nor failures change places.
Before(i, j) ==
  LET a == results[i]
      b == results[j]
  IN  IF a.ok # b.ok THEN a.ok
      ELSE IF a.ok /\ RankKey(a.stats) # RankKey(b.stats)
           THEN RankKey(a.stats) < RankKey(b.stats)
           ELSE i < j

RankIsStable ==
  pc = "ranking" =>
    \A i \in 1..NTargets :
      ranked[1 + Cardinality({j \in 1..NTargets : Before(j, i)})] = results[i]

\* One endpoint has the same number in the table, in the JSON report and in
\* the CSV report, one that failed has the number 0 and is listed as failed,
\* and an endpoint missing from the table has failed or is below -top; the
\* best endpoint of the summary is the first row.
RankOf(report, t) == (CHOOSE e \in Range(report) : e.target = t).rank

ReportsAgree ==
  pc \in {"done", "error"} =>
    /\ \A report \in {json, csv} \ {<<>>} :
         /\ \A k \in DOMAIN table : RankOf(report, table[k]) = k
         /\ \A t \in 1..NTargets :
              /\ RankOf(report, t) = 0 <=> t \in Range(failures)
              /\ RankOf(report, t) > Len(table) => Len(table) = top
    /\ tally.best # 0 => tally.best = table[1]

\* What the heading says: the number of endpoints that were successful.
HeadingCountsSuccesses ==
  pc = "done" => heading = tally.ok
=============================================================================
