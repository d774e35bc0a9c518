---------------------------- MODULE RankingProofs ---------------------------
(***************************************************************************)
(* Ranking, proved for every number of endpoints, all statistics and every *)
(* -sort and -top: the order of the endpoints is the stable one, and the   *)
(* reports agree with each other.  The properties that MCRanking states of *)
(* Stats and Targets are proved here as well, for any durations, and for   *)
(* lists of servers of any length.                                         *)
(***************************************************************************)
EXTENDS MCRanking, TargetsProofs

-----------------------------------------------------------------------------
(* The order of the endpoints, as a relation.                              *)

ResultType == [target : Nat, ok : BOOLEAN, stats : StatsType]

\* RankKey and Less for the value k of -sort.
KeyOf(k, stats) ==
  CASE k = "avg"   -> stats.Avg
    [] k = "p95"   -> stats.P95
    [] k = "min"   -> stats.Min
    [] k = "score" -> stats.Median + stats.Stddev
    [] OTHER       -> stats.Median

IsLess(k, a, b) == a.ok /\ (b.ok => KeyOf(k, a.stats) < KeyOf(k, b.stats))

Outranks(k) == {x \in ResultType \X ResultType : IsLess(k, x[1], x[2])}

LEMMA KeyType ==
  ASSUME NEW k, NEW r \in ResultType
  PROVE  KeyOf(k, r.stats) \in Nat /\ r.ok \in BOOLEAN
<1>1. r.stats \in StatsType /\ r.ok \in BOOLEAN
  BY DEF ResultType
<1> DEFINE stats == r.stats
<1>2. stats \in StatsType
  BY <1>1
<1> HIDE DEF stats
<1>3. /\ stats.Avg \in Nat /\ stats.P95 \in Nat /\ stats.Min \in Nat
      /\ stats.Median \in Nat /\ stats.Stddev \in Nat
      /\ stats.Median + stats.Stddev \in Nat
  BY <1>2 DEF StatsType
<1>4. KeyOf(k, stats) \in Nat
  BY <1>3 DEF KeyOf
<1> QED BY <1>1, <1>4 DEF stats

\* Failures come after answers, and answers from the smallest key on.
LEMMA OutranksOrders ==
  ASSUME NEW k
  PROVE  /\ WeakOrder(Outranks(k), ResultType)
         /\ \A a, b \in ResultType : <<a, b>> \in Outranks(k) <=> IsLess(k, a, b)
<1>1. \A a, b \in ResultType : <<a, b>> \in Outranks(k) <=> IsLess(k, a, b)
  BY DEF Outranks
<1>2. ASSUME NEW a \in ResultType, NEW b \in ResultType, IsLess(k, a, b)
      PROVE  ~IsLess(k, b, a)
  <2>1. KeyOf(k, a.stats) \in Nat /\ KeyOf(k, b.stats) \in Nat
    BY KeyType
  <2> QED BY <1>2, <2>1 DEF IsLess
<1>3. ASSUME NEW a \in ResultType, NEW b \in ResultType, NEW c \in ResultType,
             ~IsLess(k, a, b), ~IsLess(k, b, c)
      PROVE  ~IsLess(k, a, c)
  <2>1. /\ KeyOf(k, a.stats) \in Nat /\ KeyOf(k, b.stats) \in Nat
        /\ KeyOf(k, c.stats) \in Nat
    BY KeyType
  <2> QED BY <1>3, <2>1 DEF IsLess
<1> QED BY <1>1, <1>2, <1>3 DEF WeakOrder

\* The result of Rank is a stable sort.
LEMMA RankSorts ==
  ASSUME NEW rs \in Seq(ResultType)
  PROVE  /\ Rank(rs) \in Seq(ResultType)
         /\ \E p : StableSort(p, Len(rs), rs, Rank(rs), Outranks(key))
<1> DEFINE R == Outranks(key)
           T == ResultType
           place(t, e) == Place(t, e, Less)
           Rec(g) == g = [n \in 0..Len(rs) |->
                           IF n = 0 THEN <<>> ELSE place(g[n - 1], rs[n])]
           sorted == CHOOSE g : Rec(g)
<1>1. Rank(rs) = sorted[Len(rs)]
  BY DEF Rank, SortBy
<1>2. \A a, b : Less(a, b) <=> IsLess(key, a, b)
  BY DEF Less, IsLess, RankKey, KeyOf, Score
<1>3. ASSUME NEW t \in Seq(T), NEW e \in T
      PROVE  place(t, e) = PlaceBy(t, e, R)
  <2>1. {j \in DOMAIN t : ~Less(e, t[j])} = {j \in DOMAIN t : <<e, t[j]>> \notin R}
    <3>1. \A j \in DOMAIN t : t[j] \in T
      OBVIOUS
    <3> HIDE DEF T, R
    <3>2. \A j \in DOMAIN t : <<e, t[j]>> \in R <=> Less(e, t[j])
      BY <1>2, <3>1, OutranksOrders DEF R, T
    <3> QED BY <3>2
  <2> QED BY <2>1, Zenon DEF Place, PlaceBy
<1>4. WeakOrder(R, T)
  BY OutranksOrders
<1> HIDE DEF place, R, T
<1>5. rs \in Seq(T) /\ \A n \in 1..Len(rs) : rs[n] \in T
  BY DEF T
<1>6. \E g : Rec(g)
  <2>1. PICK g \in [0..Len(rs) -> Seq(T)] : Insertion(g, rs, R, T)
    BY <1>5, InsertionExists
  <2>2. \A n \in 1..Len(rs) : g[n - 1] \in Seq(T) /\ n # 0
    OBVIOUS
  <2>3. \A n \in 1..Len(rs) : g[n] = place(g[n - 1], rs[n])
    BY <1>3, <1>5, <2>1, <2>2, Zenon DEF Insertion
  <2>4. \A n \in 0..Len(rs) :
          g[n] = IF n = 0 THEN <<>> ELSE place(g[n - 1], rs[n])
    BY <2>1, <2>3 DEF Insertion
  <2>5. Rec(g)
    BY <2>4
  <2> QED BY <2>5
<1>7. Rec(sorted)
  <2> HIDE DEF Rec
  <2> QED BY <1>6
<1> HIDE DEF sorted
<1>8. Insertion(sorted, rs, R, T)
  <2>1. \A n \in 0..Len(rs) :
          sorted[n] = IF n = 0 THEN <<>> ELSE place(sorted[n - 1], rs[n])
    BY <1>7, Zenon
  <2>2. /\ sorted[0] = <<>>
        /\ \A n \in 1..Len(rs) : sorted[n] = place(sorted[n - 1], rs[n])
    <3>1. 0 \in 0..Len(rs) /\ \A n \in 1..Len(rs) : n \in 0..Len(rs) /\ n # 0
      OBVIOUS
    <3> QED BY <2>1, <3>1, Zenon
  <2> QED BY <1>3, <1>5, <2>2, Zenon DEF Insertion
<1>9. /\ sorted[Len(rs)] \in Seq(T)
      /\ \E p : StableSort(p, Len(rs), rs, sorted[Len(rs)], R)
  BY <1>4, <1>5, <1>8, InsertionSorts
<1> QED BY <1>1, <1>9, Zenon DEF R, T

\* In the order of the relation is Before for two endpoints.
LEMMA PrecedesIsBefore ==
  ASSUME NEW n \in Nat, results \in Seq(ResultType), n = Len(results),
         NEW i \in 1..n, NEW j \in 1..n
  PROVE  Precedes(i, j, results, Outranks(key)) <=> Before(i, j)
<1> DEFINE a == results[i]
           b == results[j]
           x == KeyOf(key, a.stats)
           y == KeyOf(key, b.stats)
<1>1. a \in ResultType /\ b \in ResultType
  OBVIOUS
<1>2. /\ <<a, b>> \in Outranks(key) <=> IsLess(key, a, b)
      /\ <<b, a>> \in Outranks(key) <=> IsLess(key, b, a)
  BY <1>1, OutranksOrders
<1>3. RankKey(a.stats) = x /\ RankKey(b.stats) = y
  BY DEF RankKey, KeyOf, Score
<1>4. Before(i, j) <=> IF a.ok # b.ok THEN a.ok
                       ELSE IF a.ok /\ x # y THEN x < y ELSE i < j
  BY <1>3, Zenon DEF Before
<1>5. Precedes(i, j, results, Outranks(key)) <=>
        ~IsLess(key, b, a) /\ (i < j \/ IsLess(key, a, b))
  BY <1>2 DEF Precedes
<1>6. x \in Nat /\ y \in Nat /\ a.ok \in BOOLEAN /\ b.ok \in BOOLEAN
  BY <1>1, KeyType
<1>7. /\ IsLess(key, a, b) <=> a.ok /\ (b.ok => x < y)
      /\ IsLess(key, b, a) <=> b.ok /\ (a.ok => y < x)
  BY DEF IsLess
<1> DEFINE okA == a.ok
           okB == b.ok
<1> HIDE DEF x, y, okA, okB
<1>8. (~(okB /\ (okA => y < x)) /\ (i < j \/ (okA /\ (okB => x < y))))
        <=> IF okA # okB THEN okA ELSE IF okA /\ x # y THEN x < y ELSE i < j
  <2>1. okA \in BOOLEAN /\ okB \in BOOLEAN
    BY <1>6 DEF okA, okB
  <2> QED BY <1>6, <2>1
<1> QED BY <1>4, <1>5, <1>7, <1>8, Zenon DEF okA, okB

\* ranking is the stable order of the results rs for the value k of -sort.
IsRanking(rs, ranking, k) ==
  /\ rs \in Seq(ResultType) /\ Len(rs) = NTargets
  /\ \A j \in 1..NTargets : rs[j].target = j
  /\ ranking \in Seq(ResultType)
  /\ \E p \in [1..NTargets -> 1..NTargets] :
       StableSort(p, NTargets, rs, ranking, Outranks(k))

\* As many endpoints belong before the p[k]-th one as there are places before
\* the k-th.
LEMMA RankingIsStable ==
  ASSUME IsRanking(results, ranked, key), NEW i \in 1..NTargets
  PROVE  ranked[1 + Cardinality({j \in 1..NTargets : Before(j, i)})] = results[i]
<1> DEFINE n == NTargets
           earlier == {j \in 1..n : Before(j, i)}
<1>1. PICK p : StableSort(p, n, results, ranked, Outranks(key))
  BY DEF IsRanking
<1>2. n \in Nat /\ results \in Seq(ResultType) /\ n = Len(results)
  BY NTargetsAssumption DEF IsRanking
<1>3. /\ Permutation(p, n)
      /\ \A k \in 1..n : ranked[k] = results[p[k]]
      /\ \A k, l \in 1..n : k < l => Precedes(p[k], p[l], results, Outranks(key))
  BY <1>1 DEF StableSort
<1>4. /\ \A k \in 1..n : p[k] \in 1..n
      /\ \A j \in 1..n : \E k \in 1..n : p[k] = j
  BY <1>3 DEF Permutation
<1>5. PICK k \in 1..n : p[k] = i
  BY <1>4
<1>6. \A l, m \in 1..n : l < m => Before(p[l], p[m])
  BY <1>2, <1>3, <1>4, PrecedesIsBefore
<1>7. ASSUME NEW j \in 1..n, NEW l \in 1..n, Before(j, l) PROVE ~Before(l, j)
  <2> DEFINE a == results[j]
             b == results[l]
  <2>1. a \in ResultType /\ b \in ResultType
    BY <1>2
  <2>2. RankKey(a.stats) = KeyOf(key, a.stats) /\ RankKey(b.stats) = KeyOf(key, b.stats)
    BY DEF RankKey, KeyOf, Score
  <2>3. /\ RankKey(a.stats) \in Nat /\ RankKey(b.stats) \in Nat
        /\ a.ok \in BOOLEAN /\ b.ok \in BOOLEAN
    BY <2>1, <2>2, KeyType
  <2> QED BY <1>7, <2>3 DEF Before
<1>8. ASSUME NEW j \in 1..n
      PROVE  Before(j, i) <=> \E l \in 1..(k - 1) : p[l] = j
  <2>1. PICK l \in 1..n : p[l] = j
    BY <1>4
  <2>2. \A m \in 1..(k - 1) : m \in 1..n /\ m < k
    BY <1>2
  <2>3. CASE l < k
    <3>1. l \in 1..(k - 1)
      BY <1>2, <2>3
    <3> QED BY <1>5, <1>6, <2>1, <2>3, <3>1
  <2>4. CASE ~(l < k)
    <3>1. l = k \/ k < l
      BY <2>4
    <3>2. ~Before(j, i)
      BY <1>5, <1>6, <1>7, <2>1, <3>1
    <3>3. \A m \in 1..(k - 1) : p[m] # j
      BY <2>1, <2>2, <2>4, <1>3 DEF Permutation
    <3> QED BY <3>2, <3>3
  <2> QED BY <2>3, <2>4
<1>9. earlier = First(p, k - 1)
  <2>1. \A m \in 1..(k - 1) : p[m] \in 1..n
    <3>1. \A m \in 1..(k - 1) : m \in 1..n
      BY <1>2
    <3> QED BY <1>4, <3>1
  <2>2. \A j \in earlier : j \in First(p, k - 1)
    BY <1>8 DEF First
  <2>3. \A j \in First(p, k - 1) : j \in earlier
    BY <1>8, <2>1 DEF First
  <2> HIDE DEF earlier
  <2> QED BY <2>2, <2>3
<1>10. k - 1 \in 0..n /\ 1 + (k - 1) = k
  BY <1>2
<1>11. Cardinality(earlier) = k - 1
  <2>1. k - 1 \in Nat /\ \A l, m \in 1..(k - 1) : l \in 1..n /\ m \in 1..n
    BY <1>2
  <2>2. \A l, m \in 1..(k - 1) : p[l] = p[m] => l = m
    BY <1>3, <2>1 DEF Permutation
  <2> HIDE DEF earlier
  <2> QED BY <1>9, <2>1, <2>2, FirstCount
<1> HIDE DEF earlier
<1>12. ranked[1 + Cardinality(earlier)] = results[i]
  BY <1>3, <1>5, <1>10, <1>11
<1> QED BY <1>12 DEF earlier

-----------------------------------------------------------------------------
(* The successes and the failures.                                         *)

\* The number of endpoints that answered, when they are the first ones.
Successes(rs) == Max({0} \cup {i \in DOMAIN rs : rs[i].ok})

\* Every endpoint is there once, and those that answered are the first ones.
Ordered(rs) ==
  /\ rs \in Seq(ResultType) /\ Len(rs) = NTargets
  /\ Successes(rs) \in 0..NTargets
  /\ \A i \in 1..NTargets : rs[i].ok <=> i <= Successes(rs)
  /\ \A i \in 1..NTargets : rs[i].target \in 1..NTargets
  /\ \A i, j \in 1..NTargets : rs[i].target = rs[j].target => i = j
  /\ \A t \in 1..NTargets : \E i \in 1..NTargets : rs[i].target = t

LEMMA RankingOrdered ==
  ASSUME NEW rs, NEW ranking, NEW k, IsRanking(rs, ranking, k)
  PROVE  Ordered(ranking)
<1> DEFINE n == NTargets
           R == Outranks(k)
           S == {0} \cup {i \in DOMAIN ranking : ranking[i].ok}
           c == Max(S)
<1>1. PICK p : StableSort(p, n, rs, ranking, R)
  BY DEF IsRanking
<1>2. /\ n \in Nat /\ rs \in Seq(ResultType) /\ Len(rs) = n
      /\ ranking \in Seq(ResultType) /\ Len(ranking) = n
      /\ \A j \in 1..n : rs[j].target = j
      /\ Permutation(p, n)
      /\ \A i \in 1..n : ranking[i] = rs[p[i]]
      /\ \A i, j \in 1..n : i < j => Precedes(p[i], p[j], rs, R)
  BY <1>1, NTargetsAssumption DEF IsRanking, StableSort
<1>3. /\ \A i \in 1..n : p[i] \in 1..n
      /\ \A i, j \in 1..n : p[i] = p[j] => i = j
      /\ \A j \in 1..n : \E i \in 1..n : p[i] = j
  BY <1>2 DEF Permutation
<1>4. \A i \in 1..n : ranking[i].target = p[i] /\ ranking[i] \in ResultType
  <2>1. \A i \in 1..n : ranking[i] \in ResultType
    BY <1>2
  <2>2. ASSUME NEW i \in 1..n PROVE ranking[i].target = p[i]
    <3>1. ranking[i] = rs[p[i]] /\ p[i] \in 1..n
      BY <1>2, <1>3
    <3>2. rs[p[i]].target = p[i]
      BY <1>2, <3>1
    <3> QED BY <3>1, <3>2
  <2> QED BY <2>1, <2>2
<1>5. ASSUME NEW i \in 1..n, NEW j \in 1..n, i < j, ranking[j].ok
      PROVE  ranking[i].ok
  <2>1. <<ranking[j], ranking[i]>> \notin R
    BY <1>2, <1>5 DEF Precedes
  <2>2. ~IsLess(k, ranking[j], ranking[i])
    BY <1>4, <2>1, OutranksOrders
  <2> QED BY <1>5, <2>2 DEF IsLess
<1>6. c \in S /\ \A x \in S : x <= c
  <2>1. S \in SUBSET Nat /\ S # {} /\ \A x \in S : x <= n
    BY <1>2
  <2> HIDE DEF S
  <2> QED BY <1>2, <2>1, MaxProperties
<1>7. Successes(ranking) = c
  BY DEF Successes
<1> HIDE DEF c
<1>8. c \in 0..n /\ (c > 0 => ranking[c].ok)
  BY <1>2, <1>6
<1>9. ASSUME NEW i \in 1..n PROVE ranking[i].ok <=> i <= c
  <2>1. CASE ranking[i].ok
    BY <1>2, <1>6, <2>1
  <2>2. CASE i <= c
    <3>1. c \in 1..n /\ (i = c \/ i < c)
      BY <1>2, <1>8, <2>2
    <3>2. ranking[c].ok
      BY <1>8, <3>1
    <3> QED BY <1>5, <3>1, <3>2
  <2> QED BY <2>1, <2>2
<1>10. /\ \A i \in 1..n : ranking[i].target \in 1..n
       /\ \A i, j \in 1..n : ranking[i].target = ranking[j].target => i = j
       /\ \A t \in 1..n : \E i \in 1..n : ranking[i].target = t
  BY <1>3, <1>4
<1> QED BY <1>2, <1>7, <1>8, <1>9, <1>10, Zenon DEF Ordered

\* w is the part of rs after place lo, up to place hi.
Segment(w, rs, lo, hi) ==
  /\ w \in Seq(ResultType)
  /\ Len(w) = hi - lo
  /\ \A k \in 1..(hi - lo) : w[k] = rs[lo + k]

LEMMA SegmentGrows ==
  ASSUME NEW rs \in Seq(ResultType), NEW lo \in Nat, NEW n \in Nat, lo <= n,
         n < Len(rs), NEW w, Segment(w, rs, lo, n)
  PROVE  Segment(Append(w, rs[n + 1]), rs, lo, n + 1)
<1> DEFINE v == Append(w, rs[n + 1])
<1>1. /\ w \in Seq(ResultType) /\ Len(w) = n - lo
      /\ \A k \in 1..(n - lo) : w[k] = rs[lo + k]
  BY DEF Segment
<1>2. rs[n + 1] \in ResultType
  OBVIOUS
<1>3. v \in Seq(ResultType) /\ Len(v) = (n + 1) - lo
  BY <1>1, <1>2
<1>4. ASSUME NEW k \in 1..((n + 1) - lo) PROVE v[k] = rs[lo + k]
  <2>1. CASE k \in 1..(n - lo)
    BY <1>1, <2>1
  <2>2. CASE k = Len(w) + 1
    <3>1. v[k] = rs[n + 1] /\ lo + k = n + 1
      BY <1>1, <2>2
    <3> QED BY <3>1
  <2>3. k \in 1..(n - lo) \/ k = Len(w) + 1
    BY <1>1
  <2> QED BY <2>1, <2>2, <2>3
<1> QED BY <1>3, <1>4 DEF Segment

\* The loop of WithOutcome collects the part of rs that has the outcome.
LEMMA WithOutcomeIsSegment ==
  ASSUME NEW rs \in Seq(ResultType), NEW ok \in BOOLEAN,
         NEW lo \in Nat, NEW hi \in Nat, lo <= hi, hi <= Len(rs),
         \A n \in 1..Len(rs) : rs[n].ok = ok <=> lo < n /\ n <= hi
  PROVE  Segment(WithOutcome(rs, ok), rs, lo, hi)
<1> DEFINE N == Len(rs)
           T == Seq(ResultType)
           grown(w, n) == IF rs[n].ok = ok THEN Append(w, rs[n]) ELSE w
           Rec(f) == f = [n \in 0..N |-> IF n = 0 THEN <<>>
                                         ELSE IF rs[n].ok = ok
                                              THEN Append(f[n - 1], rs[n])
                                              ELSE f[n - 1]]
           picked == CHOOSE f : Rec(f)
           F == [n \in 1..N |-> [w \in T |-> grown(w, n)]]
<1>1. WithOutcome(rs, ok) = picked[N]
  BY DEF WithOutcome
<1>2. N \in Nat /\ <<>> \in T /\ \A n \in 1..N : rs[n] \in ResultType
  OBVIOUS
<1>3. PICK g \in [0..N -> T] : Recursion(g, <<>>, F, N)
  <2>1. \A n \in 1..N : \A w \in T : grown(w, n) \in T
    BY <1>2
  <2> HIDE DEF grown, T
  <2>2. F \in [1..N -> [T -> T]]
    BY <2>1
  <2> HIDE DEF F
  <2> QED BY <1>2, <2>2, RecursionExists
<1>4. Rec(g)
  <2>1. \A n \in 1..N : g[n] = grown(g[n - 1], n)
    <3>1. \A n \in 1..N : g[n - 1] \in T
      OBVIOUS
    <3> HIDE DEF grown, T
    <3> QED BY <1>3, <3>1 DEF Recursion
  <2>2. g[0] = <<>>
    BY <1>3 DEF Recursion
  <2>3. \A n \in 0..N : g[n] = IF n = 0 THEN <<>> ELSE grown(g[n - 1], n)
    <3> HIDE DEF grown
    <3>1. \A n \in 0..N : n = 0 \/ n \in 1..N
      OBVIOUS
    <3> QED BY <2>1, <2>2, <3>1
  <2>4. g = [n \in 0..N |-> IF n = 0 THEN <<>> ELSE grown(g[n - 1], n)]
    <3> HIDE DEF grown
    <3> QED BY <2>3
  <2> QED BY <2>4, Zenon
<1>5. Rec(picked)
  <2> HIDE DEF Rec
  <2> QED BY <1>4
<1> HIDE DEF picked
<1>6. \A n \in 0..N : picked[n] = IF n = 0 THEN <<>> ELSE grown(picked[n - 1], n)
  BY <1>5, Zenon
<1> DEFINE end(n) == IF n <= lo THEN lo ELSE IF n <= hi THEN n ELSE hi
           Good == {n \in Nat : n <= N => Segment(picked[n], rs, lo, end(n))}
<1>7. 0 \in Good
  <2>1. picked[0] = <<>> /\ end(0) = lo
    BY <1>2, <1>6
  <2>2. Segment(<<>>, rs, lo, lo)
    BY DEF Segment
  <2> QED BY <2>1, <2>2
<1>8. ASSUME NEW n \in Nat, n \in Good PROVE n + 1 \in Good
  <2>1. SUFFICES ASSUME n + 1 <= N PROVE Segment(picked[n + 1], rs, lo, end(n + 1))
    OBVIOUS
  <2>2. /\ n + 1 \in 1..N /\ n + 1 \in 0..N /\ n + 1 # 0 /\ (n + 1) - 1 = n
        /\ Segment(picked[n], rs, lo, end(n))
    BY <1>8, <2>1
  <2>3. picked[n + 1] = grown(picked[n], n + 1)
    <3> HIDE DEF grown, Good, end
    <3> QED BY <1>6, <2>2
  <2>4. CASE lo < n + 1 /\ n + 1 <= hi
    <3>1. end(n) = n /\ end(n + 1) = n + 1 /\ lo <= n /\ n < Len(rs)
      BY <2>1, <2>4
    <3>2. picked[n + 1] = Append(picked[n], rs[n + 1])
      BY <2>2, <2>3, <2>4
    <3>3. Segment(picked[n], rs, lo, n)
      BY <2>2, <3>1
    <3>4. Segment(Append(picked[n], rs[n + 1]), rs, lo, n + 1)
      <4> HIDE DEF end, Good
      <4> QED BY <3>1, <3>3, SegmentGrows
    <3> QED BY <3>1, <3>2, <3>4
  <2>5. CASE ~(lo < n + 1 /\ n + 1 <= hi)
    <3>1. end(n + 1) = end(n)
      BY <2>5
    <3>2. picked[n + 1] = picked[n]
      BY <2>2, <2>3, <2>5
    <3> QED BY <2>2, <3>1, <3>2
  <2> QED BY <2>4, <2>5
<1>9. \A n \in Nat : n \in Good
  <2> HIDE DEF Good
  <2> QED BY <1>7, <1>8, NatSetInduction
<1>10. Segment(picked[N], rs, lo, end(N)) /\ end(N) = hi
  BY <1>2, <1>9
<1> QED BY <1>1, <1>10

LEMMA SuccessesPicked ==
  ASSUME NEW rs, Ordered(rs)
  PROVE  /\ Segment(WithOutcome(rs, TRUE), rs, 0, Successes(rs))
         /\ Segment(WithOutcome(rs, FALSE), rs, Successes(rs), NTargets)
<1> DEFINE c == Successes(rs)
<1>1. /\ rs \in Seq(ResultType) /\ Len(rs) = NTargets /\ NTargets \in Nat
      /\ c \in Nat /\ c <= NTargets
      /\ \A n \in 1..NTargets : rs[n].ok <=> n <= c
  BY NTargetsAssumption DEF Ordered
<1> HIDE DEF c
<1>2. ASSUME NEW n \in 1..NTargets PROVE rs[n].ok \in BOOLEAN
  <2>1. rs[n] \in ResultType
    BY <1>1
  <2> QED BY <2>1 DEF ResultType
<1>3. \A n \in 1..Len(rs) : rs[n].ok = TRUE <=> 0 < n /\ n <= c
  BY <1>1, <1>2
<1>4. \A n \in 1..Len(rs) : rs[n].ok = FALSE <=> c < n /\ n <= NTargets
  BY <1>1, <1>2
<1>5. Segment(WithOutcome(rs, TRUE), rs, 0, c)
  <2>1. 0 \in Nat /\ 0 <= c /\ c <= Len(rs) /\ TRUE \in BOOLEAN
    BY <1>1
  <2> QED BY <1>1, <1>3, <2>1, WithOutcomeIsSegment
<1>6. Segment(WithOutcome(rs, FALSE), rs, c, NTargets)
  <2>1. NTargets <= Len(rs) /\ FALSE \in BOOLEAN
    BY <1>1
  <2> QED BY <1>1, <1>4, <2>1, WithOutcomeIsSegment
<1> QED BY <1>5, <1>6 DEF c

-----------------------------------------------------------------------------
(* The reports.                                                            *)

\* The rows of PrintRanking and of PrintFailures and the ranks of WriteJSON
\* and WriteCSVReport, for the order rs and the value n of -top.
RowsShown(rs, n) == IF 0 < n /\ n < Successes(rs) THEN n ELSE Successes(rs)

TableOf(rs, n) == [k \in 1..RowsShown(rs, n) |-> rs[k].target]

FailuresOf(rs) ==
  [k \in 1..(NTargets - Successes(rs)) |-> rs[Successes(rs) + k].target]

ReportOf(rs) ==
  [n \in 1..NTargets |-> [target |-> rs[n].target,
                          rank   |-> IF n <= Successes(rs) THEN n ELSE 0]]

\* The slice that Rank returned is in order, and every report written so far
\* is the one of that order.
IInv ==
  /\ pc \in {"bench", "ranking", "failures", "json", "csv", "summary", "done", "error"}
  /\ top \in Int
  /\ results \in Seq(ResultType)
  /\ Len(results) <= NTargets
  /\ \A k \in 1..Len(results) : results[k].target = k
  /\ pc # "bench" => IsRanking(results, ranked, key)
  /\ pc \notin {"bench", "ranking"} => table = TableOf(ranked, top)
  /\ pc \notin {"bench", "ranking", "failures"} => failures = FailuresOf(ranked)
  /\ json # <<>> =>
       json = ReportOf(ranked) /\ pc \in {"csv", "summary", "done", "error"}
  /\ csv # <<>> => csv = ReportOf(ranked) /\ pc \in {"summary", "done"}
  /\ tally.best # 0 =>
       pc = "done" /\ Successes(ranked) > 0 /\ tally.best = ranked[1].target

LEMMA ShownAreFirst ==
  ASSUME Ordered(ranked), top \in Int
  PROVE  /\ [k \in DOMAIN Shown |-> Shown[k].target] = TableOf(ranked, top)
         /\ Len(WithOutcome(ranked, TRUE)) = Successes(ranked)
<1> DEFINE ok == WithOutcome(ranked, TRUE)
           c == Successes(ranked)
           shown == IF 0 < top /\ top < Len(ok) THEN SubSeq(ok, 1, top) ELSE ok
           m == RowsShown(ranked, top)
<1>1. Segment(ok, ranked, 0, c) /\ c \in Nat
  <2>1. Segment(ok, ranked, 0, c)
    BY SuccessesPicked, Zenon
  <2>2. c \in Nat
    BY NTargetsAssumption DEF Ordered
  <2> QED BY <2>1, <2>2
<1>2. Shown = shown
  BY Zenon DEF Shown
<1> HIDE DEF ok, c
<1>3. ok \in Seq(ResultType) /\ Len(ok) = c /\ \A k \in 1..c : ok[k] = ranked[k]
  BY <1>1 DEF Segment
<1>4. m = IF 0 < top /\ top < c THEN top ELSE c
  BY DEF RowsShown, c
<1> HIDE DEF m
<1>5. shown \in Seq(ResultType) /\ Len(shown) = m /\ \A k \in 1..m : shown[k] = ranked[k]
  <2>1. CASE 0 < top /\ top < c
    <3>1. shown = SubSeq(ok, 1, top) /\ m = top /\ top \in Nat
      BY <1>3, <1>4, <2>1
    <3>2. /\ SubSeq(ok, 1, top) \in Seq(ResultType) /\ Len(SubSeq(ok, 1, top)) = top
          /\ \A k \in 1..top : SubSeq(ok, 1, top)[k] = ok[k]
      BY <1>1, <1>3, <2>1
    <3>3. \A k \in 1..top : k \in 1..c
      BY <1>1, <2>1
    <3> QED BY <1>3, <3>1, <3>2, <3>3, Zenon
  <2>2. CASE ~(0 < top /\ top < c)
    <3>1. shown = ok /\ m = c
      BY <1>3, <1>4, <2>2
    <3> QED BY <1>3, <3>1
  <2> QED BY <2>1, <2>2
<1> HIDE DEF shown
<1>6. DOMAIN shown = 1..m
  BY <1>5
<1>7. [k \in DOMAIN shown |-> shown[k].target] = [k \in 1..m |-> ranked[k].target]
  BY <1>5, <1>6
<1> QED BY <1>2, <1>3, <1>7, Zenon DEF TableOf, m, ok, c

LEMMA FailuresAreRest ==
  ASSUME NEW rs, Ordered(rs)
  PROVE  LET failed == WithOutcome(rs, FALSE)
         IN  [k \in DOMAIN failed |-> failed[k].target] = FailuresOf(rs)
<1> DEFINE failed == WithOutcome(rs, FALSE)
           c == Successes(rs)
           m == NTargets - c
<1>1. Segment(failed, rs, c, NTargets) /\ m \in Nat
  <2>1. Segment(failed, rs, c, NTargets)
    BY SuccessesPicked, Zenon
  <2>2. m \in Nat
    BY NTargetsAssumption DEF Ordered
  <2> QED BY <2>1, <2>2
<1> HIDE DEF failed
<1>2. /\ failed \in Seq(ResultType) /\ Len(failed) = m
      /\ \A k \in 1..m : failed[k] = rs[c + k]
  BY <1>1 DEF Segment
<1>3. DOMAIN failed = 1..m
  BY <1>1, <1>2
<1>4. [k \in DOMAIN failed |-> failed[k].target] = [k \in 1..m |-> rs[c + k].target]
  <2> HIDE DEF m, c
  <2> QED BY <1>2, <1>3
<1> QED BY <1>4, Zenon DEF FailuresOf, failed

\* The counter of the reports is the place of an endpoint that answered.
LEMMA RanksArePlaces ==
  ASSUME Ordered(ranked)
  PROVE  Ranks = ReportOf(ranked)
<1> DEFINE N == NTargets
           c == Successes(ranked)
           next(n, x) == RankNumber(ranked[n], x)
           Rec(f) == f = [n \in 0..Len(ranked) |-> IF n = 0 THEN 0
                                                   ELSE next(n, f[n - 1])]
           rank == CHOOSE f : Rec(f)
           place(n) == IF n <= c THEN n ELSE 0
           g == [n \in 0..N |-> place(n)]
<1>1. /\ N \in Nat /\ Len(ranked) = N /\ DOMAIN ranked = 1..N /\ c \in Nat
      /\ \A n \in 1..N : ranked[n].ok <=> n <= c
  <2> HIDE DEF c, next, Rec, rank, place, g
  <2>1. /\ ranked \in Seq(ResultType) /\ Len(ranked) = N
        /\ \A n \in 1..N : ranked[n].ok <=> n <= Successes(ranked)
    BY DEF Ordered
  <2>2. c \in 0..N
    BY DEF Ordered, c
  <2>3. N \in Nat
    BY NTargetsAssumption
  <2>4. DOMAIN ranked = 1..N
    BY <2>1
  <2>5. c \in Nat
    BY <2>2, <2>3
  <2> QED BY <2>1, <2>3, <2>4, <2>5 DEF c
<1>2. Ranks = [n \in DOMAIN ranked |-> [target |-> ranked[n].target, rank |-> rank[n]]]
  BY DEF Ranks
<1> HIDE DEF c
<1>3. ASSUME NEW n \in 1..N, NEW x, x = place(n - 1) PROVE next(n, x) = place(n)
  BY <1>1, <1>3 DEF RankNumber
<1> HIDE DEF next
<1>4. Rec(g)
  <2>1. \A n \in 0..N : g[n] = IF n = 0 THEN 0 ELSE next(n, g[n - 1])
    <3>1. \A n \in 0..N : n = 0 \/ (n \in 1..N /\ n # 0)
      BY <1>1
    <3>2. g[0] = 0
      BY <1>1
    <3>3. \A n \in 1..N : g[n] = place(n) /\ g[n - 1] = place(n - 1)
      BY <1>1
    <3> HIDE DEF g, place, N
    <3> QED BY <1>3, <3>1, <3>2, <3>3
  <2>2. g = [n \in 0..N |-> IF n = 0 THEN 0 ELSE next(n, g[n - 1])]
    BY <2>1
  <2> QED BY <1>1, <2>2, Zenon
<1>5. Rec(rank)
  <2> HIDE DEF Rec
  <2> QED BY <1>4
<1> HIDE DEF rank
<1>6. \A n \in 0..N : rank[n] = IF n = 0 THEN 0 ELSE next(n, rank[n - 1])
  BY <1>1, <1>5, Zenon
<1>7. \A n \in 1..N : rank[n] = place(n)
  <2> DEFINE Good == {n \in Nat : n <= N => rank[n] = place(n)}
  <2>1. 0 \in Good
    BY <1>1, <1>6
  <2>2. ASSUME NEW n \in Nat, n \in Good PROVE n + 1 \in Good
    <3>1. SUFFICES ASSUME n + 1 <= N PROVE rank[n + 1] = place(n + 1)
      OBVIOUS
    <3>2. n + 1 \in 0..N /\ n + 1 \in 1..N /\ n + 1 # 0 /\ (n + 1) - 1 = n
          /\ rank[n] = place(n)
      BY <1>1, <2>2, <3>1
    <3>3. rank[n + 1] = next(n + 1, rank[n])
      <4> HIDE DEF N, place, Good
      <4> QED BY <1>6, <3>2
    <3>4. next(n + 1, rank[n]) = place(n + 1)
      <4> HIDE DEF N, place, Good
      <4> QED BY <1>3, <3>2
    <3> QED BY <3>3, <3>4
  <2>3. \A n \in Nat : n \in Good
    <3> HIDE DEF Good
    <3> QED BY <2>1, <2>2, NatSetInduction
  <2> QED BY <1>1, <2>3
<1>8. [n \in DOMAIN ranked |-> [target |-> ranked[n].target, rank |-> rank[n]]]
        = [n \in 1..N |-> [target |-> ranked[n].target, rank |-> place(n)]]
  <2> HIDE DEF N, place
  <2> QED BY <1>1, <1>7
<1> QED BY <1>2, <1>8 DEF ReportOf, c

-----------------------------------------------------------------------------
(* The invariant.                                                          *)

LEMMA InitIInv == Init => IInv
  BY NTargetsAssumption, TopsAssumption DEF Init, IInv, Nothing

LEMMA NextIInv == IInv /\ [Next]_vars => IInv'
<1> SUFFICES ASSUME IInv, [Next]_vars PROVE IInv'
  OBVIOUS
<1>1. pc # "bench" => Ordered(ranked)
  BY RankingOrdered DEF IInv
<1>2. CASE Measured
  <2>1. PICK stats \in AllStats \cup {NoStats} :
          results' = Append(results, [target |-> Len(results) + 1,
                                      ok     |-> stats.N > 0,
                                      stats  |-> stats])
    BY <1>2 DEF Measured
  <2>2. stats \in StatsType
    BY AllStatsAssumption DEF StatsType, NoStats
  <2> DEFINE r == [target |-> Len(results) + 1, ok |-> stats.N > 0, stats |-> stats]
  <2>3. /\ results \in Seq(ResultType) /\ Len(results) < NTargets
        /\ pc = "bench" /\ \A k \in 1..Len(results) : results[k].target = k
    BY <1>2 DEF Measured, IInv
  <2>4. r \in ResultType /\ r.target = Len(results) + 1
    <3>1. (stats.N > 0) \in BOOLEAN /\ Len(results) + 1 \in Nat
      BY <2>3
    <3> QED BY <2>2, <3>1 DEF ResultType
  <2> HIDE DEF r
  <2>5. results' = Append(results, r)
    BY <2>1 DEF r
  <2>6. /\ results' \in Seq(ResultType) /\ Len(results') <= NTargets
        /\ \A k \in 1..Len(results') : results'[k].target = k
    <3>1. /\ results' \in Seq(ResultType) /\ Len(results') = Len(results) + 1
          /\ results'[Len(results) + 1] = r
          /\ \A k \in 1..Len(results) : results'[k] = results[k]
      BY <2>3, <2>4, <2>5
    <3>2. ASSUME NEW k \in 1..Len(results') PROVE results'[k].target = k
      <4>1. k \in 1..Len(results) \/ k = Len(results) + 1
        BY <2>3, <3>1
      <4> QED BY <2>3, <2>4, <3>1, <4>1
    <3>3. Len(results') <= NTargets
      BY <2>3, <3>1, NTargetsAssumption
    <3> QED BY <3>1, <3>2, <3>3
  <2>7. /\ pc' = "bench" /\ top' \in Int /\ json' = <<>> /\ csv' = <<>>
        /\ tally'.best = 0
    <3>1. UNCHANGED <<pc, top, json, csv, tally>>
      BY <1>2 DEF Measured
    <3> QED BY <2>3, <3>1 DEF IInv
  <2> QED BY <2>6, <2>7 DEF IInv
<1>3. CASE RankResults
  <2>1. /\ pc = "bench" /\ pc' = "ranking" /\ ranked' = Rank(results)
        /\ key' = key /\ top' = top /\ results' = results
        /\ json' = json /\ csv' = csv /\ tally' = tally
        /\ Len(results) = NTargets
    BY <1>3 DEF RankResults, Goto
  <2>2. IsRanking(results, Rank(results), key)
    <3>1. results \in Seq(ResultType) /\ \A k \in 1..NTargets : results[k].target = k
      BY <2>1 DEF IInv
    <3>2. PICK p : StableSort(p, NTargets, results, Rank(results), Outranks(key))
      BY <2>1, <3>1, RankSorts
    <3>3. p \in [1..NTargets -> 1..NTargets] /\ Rank(results) \in Seq(ResultType)
      BY <3>1, <3>2, RankSorts DEF StableSort, Permutation
    <3> QED BY <2>1, <3>1, <3>2, <3>3 DEF IsRanking
  <2>3. IsRanking(results', ranked', key')
    BY <2>1, <2>2
  <2> QED BY <2>1, <2>3 DEF IInv
<1>4. CASE PrintRanking
  <2>1. /\ pc = "ranking" /\ pc' = "failures" /\ UNCHANGED <<key, top, results, ranked>>
        /\ json' = json /\ csv' = csv /\ tally' = tally
        /\ table' = [k \in DOMAIN Shown |-> Shown[k].target]
    BY <1>4, Zenon DEF PrintRanking, Goto
  <2>2. table' = TableOf(ranked, top)
    BY <1>1, <2>1, ShownAreFirst DEF IInv
  <2> QED BY <2>1, <2>2 DEF IInv
<1>5. CASE PrintFailures
  <2>1. /\ pc = "failures" /\ pc' = "json" /\ UNCHANGED <<key, top, results, ranked>>
        /\ table' = table /\ json' = json /\ csv' = csv /\ tally' = tally
    BY <1>5 DEF PrintFailures, Goto
  <2>2. failures' = FailuresOf(ranked)
    BY <1>1, <1>5, <2>1, FailuresAreRest, Zenon DEF PrintFailures
  <2> QED BY <2>1, <2>2 DEF IInv
<1>6. CASE WriteJSON
  <2>1. /\ pc = "json" /\ pc' \in {"csv", "error"}
        /\ UNCHANGED <<key, top, results, ranked, table, failures, csv, tally>>
        /\ (pc' = "csv" /\ json' \in {Ranks, <<>>}) \/ json' = json
    BY <1>6 DEF WriteJSON, Goto
  <2>2. json' # <<>> => json' = ReportOf(ranked) /\ pc' = "csv"
    BY <1>1, <2>1, RanksArePlaces DEF IInv
  <2> QED BY <2>1, <2>2 DEF IInv
<1>7. CASE WriteCSVReport
  <2>1. /\ pc = "csv" /\ pc' \in {"summary", "error"}
        /\ UNCHANGED <<key, top, results, ranked, table, failures, json, tally>>
        /\ (pc' = "summary" /\ csv' \in {Ranks, <<>>}) \/ csv' = csv
    BY <1>7 DEF WriteCSVReport, Goto
  <2>2. csv' # <<>> => csv' = ReportOf(ranked) /\ pc' = "summary"
    BY <1>1, <2>1, RanksArePlaces DEF IInv
  <2> QED BY <2>1, <2>2 DEF IInv
<1>8. CASE Summarise
  <2>1. /\ pc = "summary" /\ pc' = "done"
        /\ UNCHANGED <<key, top, results, ranked, table, failures, json, csv>>
        /\ tally'.best = IF Len(WithOutcome(ranked, TRUE)) > 0
                         THEN ranked[1].target ELSE 0
    BY <1>8 DEF Summarise, Goto
  <2>2. Len(WithOutcome(ranked, TRUE)) = Successes(ranked)
    BY <1>1, <2>1, ShownAreFirst DEF IInv
  <2> QED BY <2>1, <2>2 DEF IInv
<1>9. CASE Returned \/ UNCHANGED vars
  BY <1>9 DEF IInv, Returned, vars
<1> QED BY <1>2, <1>3, <1>4, <1>5, <1>6, <1>7, <1>8, <1>9 DEF Next

THEOREM SpecIInv == Spec => []IInv
  BY InitIInv, NextIInv, PTL DEF Spec

-----------------------------------------------------------------------------
(* The properties of the runs.                                             *)

\* Rank keeps every result once, answers first and in the order of their key,
\* and ties and failures in the order of the list.
THEOREM RankingOrder == Spec => []RankIsStable
<1>1. IInv => RankIsStable
  BY RankingIsStable DEF IInv, RankIsStable
<1> QED BY <1>1, SpecIInv, PTL

\* The number of an endpoint in a report.
LEMMA RankInReport ==
  ASSUME NEW rs, Ordered(rs), NEW i \in 1..NTargets
  PROVE  RankOf(ReportOf(rs), rs[i].target) = IF i <= Successes(rs) THEN i ELSE 0
<1> DEFINE report == ReportOf(rs)
           t == rs[i].target
           e == CHOOSE e \in Range(report) : e.target = t
           entry(n) == [target |-> rs[n].target,
                        rank   |-> IF n <= Successes(rs) THEN n ELSE 0]
<1>1. Range(report) = {entry(n) : n \in 1..NTargets}
  BY DEF Range, ReportOf
<1>2. RankOf(report, t) = e.rank
  BY DEF RankOf
<1> HIDE DEF report
<1>3. e \in Range(report) /\ e.target = t
  <2>1. entry(i) \in Range(report) /\ entry(i).target = t
    BY <1>1
  <2> HIDE DEF entry
  <2> QED BY <2>1
<1> HIDE DEF e
<1>4. PICK n \in 1..NTargets : e = entry(n)
  BY <1>1, <1>3
<1>5. n = i
  BY <1>3, <1>4 DEF Ordered
<1> QED BY <1>2, <1>4, <1>5 DEF report

\* The table, the JSON and the CSV report, the list of failures and the summary
\* of one run of dnsspeed do not contradict each other.
THEOREM ReportAgreement == Spec => []ReportsAgree
<1>1. IInv => ReportsAgree
  <2>1. SUFFICES ASSUME IInv, pc \in {"done", "error"}
                 PROVE  /\ \A report \in {json, csv} \ {<<>>} :
                             /\ \A k \in DOMAIN table : RankOf(report, table[k]) = k
                             /\ \A t \in 1..NTargets :
                                  /\ RankOf(report, t) = 0 <=> t \in Range(failures)
                                  /\ RankOf(report, t) > Len(table) => Len(table) = top
                        /\ tally.best # 0 => tally.best = table[1]
    BY DEF ReportsAgree
  <2> DEFINE n == NTargets
             c == Successes(ranked)
             m == RowsShown(ranked, top)
  <2>2. Ordered(ranked)
    BY <2>1, RankingOrdered DEF IInv
  <2>3. /\ n \in Nat /\ c \in 0..n /\ top \in Int
        /\ table = [k \in 1..m |-> ranked[k].target]
        /\ failures = [k \in 1..(n - c) |-> ranked[c + k].target]
        /\ \A report \in {json, csv} \ {<<>>} : report = ReportOf(ranked)
    BY <2>1, <2>2, NTargetsAssumption DEF IInv, TableOf, FailuresOf, Ordered
  <2>4. m = IF 0 < top /\ top < c THEN top ELSE c
    BY DEF RowsShown
  <2>5. \A i \in 1..n : RankOf(ReportOf(ranked), ranked[i].target) =
                          IF i <= c THEN i ELSE 0
    BY <2>2, RankInReport
  <2>6. /\ \A i \in 1..n : ranked[i].target \in 1..n
        /\ \A t \in 1..n : \E i \in 1..n : ranked[i].target = t
        /\ \A i, j \in 1..n : ranked[i].target = ranked[j].target => i = j
    BY <2>2 DEF Ordered
  <2>7. tally.best # 0 => c > 0 /\ tally.best = ranked[1].target
    BY <2>1 DEF IInv
  <2> HIDE DEF c, m, n
  <2>8. m \in 0..c /\ (c > 0 => m > 0) /\ (m < c => m = top)
    BY <2>3, <2>4
  <2>9. DOMAIN table = 1..m /\ Len(table) = m
    <3>1. \A k \in 1..m : ranked[k].target \in 1..n
      <4>1. \A k \in 1..m : k \in 1..n
        BY <2>3, <2>8
      <4> QED BY <2>6, <4>1
    <3> QED BY <2>3, <2>8, <3>1
  <2>10. ASSUME NEW report \in {json, csv} \ {<<>>}, NEW k \in DOMAIN table
         PROVE  RankOf(report, table[k]) = k
    <3>1. k \in 1..m /\ k \in 1..n /\ k <= c
      BY <2>3, <2>8, <2>9
    <3>2. table[k] = ranked[k].target /\ report = ReportOf(ranked)
      BY <2>3, <3>1
    <3> QED BY <2>5, <3>1, <3>2
  <2>11. ASSUME NEW report \in {json, csv} \ {<<>>}, NEW t \in 1..n
         PROVE  /\ RankOf(report, t) = 0 <=> t \in Range(failures)
                /\ RankOf(report, t) > Len(table) => Len(table) = top
    <3>1. PICK i \in 1..n : ranked[i].target = t
      BY <2>6
    <3>2. RankOf(report, t) = IF i <= c THEN i ELSE 0
      BY <2>3, <2>5, <3>1
    <3>3. t \in Range(failures) <=> i > c
      <4>1. Range(failures) = {ranked[c + k].target : k \in 1..(n - c)}
        BY <2>3 DEF Range
      <4>2. ASSUME NEW k \in 1..(n - c), ranked[c + k].target = t PROVE i > c
        <5>1. c + k \in 1..n /\ c + k > c
          BY <2>3
        <5> QED BY <2>6, <3>1, <4>2, <5>1
      <4>3. ASSUME i > c PROVE \E k \in 1..(n - c) : ranked[c + k].target = t
        <5>1. i - c \in 1..(n - c) /\ c + (i - c) = i
          BY <2>3, <4>3
        <5> QED BY <3>1, <5>1
      <4>4. i > c => t \in Range(failures)
        BY <4>1, <4>3
      <4>5. t \in Range(failures) => i > c
        BY <4>1, <4>2
      <4> QED BY <4>4, <4>5
    <3>4. i \in Nat /\ i > 0 /\ c \in Nat /\ m \in Nat
      BY <2>3, <2>8
    <3>5. RankOf(report, t) = 0 <=> t \in Range(failures)
      BY <3>2, <3>3, <3>4
    <3>6. RankOf(report, t) > Len(table) => Len(table) = top
      BY <2>8, <2>9, <3>2, <3>4
    <3> QED BY <3>5, <3>6
  <2>12. tally.best # 0 => tally.best = table[1]
    <3>1. c > 0 => 1 \in 1..m
      BY <2>3, <2>8
    <3> QED BY <2>3, <2>7, <3>1
  <2> QED BY <2>10, <2>11, <2>12 DEF n
<1> QED BY <1>1, SpecIInv, PTL

\* Every sequence that is checked is one of durations, and not empty.
LEMMA SamplesAreDurations ==
  ASSUME NEW s \in Samples
  PROVE  s \in Seq(Nat) /\ s # <<>>
<1>1. PICK n \in Nat \ {0} : s \in [1..n -> Durations]
  <2>1. CASE s \in UNION {[1..n -> Durations] : n \in 1..Short}
    <3>1. PICK n \in 1..Short : s \in [1..n -> Durations]
      BY <2>1
    <3>2. n \in Nat \ {0}
      BY BoundsAssumption
    <3> QED BY <3>1, <3>2
  <2>2. CASE s \notin UNION {[1..n -> Durations] : n \in 1..Short}
    <3> DEFINE long(n) == {[j \in 1..n |-> IF j % m = 0 THEN d ELSE e] :
                            d, e \in Durations, m \in 1..n}
    <3>1. PICK n \in Short + 1..MaxSamples : s \in long(n)
      <4>1. s \in UNION {long(n) : n \in Short + 1..MaxSamples}
        <5> DEFINE short == UNION {[1..n -> Durations] : n \in 1..Short}
        <5>1. Samples = short \cup (UNION {long(n) : n \in Short + 1..MaxSamples})
          BY DEF Samples
        <5> HIDE DEF long
        <5>2. s \notin short
          BY <2>2
        <5> HIDE DEF short
        <5> QED BY <5>1, <5>2
      <4> HIDE DEF long
      <4> QED BY <4>1
    <3>2. s \in [1..n -> Durations]
      BY <3>1
    <3>3. n \in Nat \ {0}
      BY BoundsAssumption
    <3> QED BY <3>2, <3>3
  <2> QED BY <2>1, <2>2
<1>2. s \in [1..n -> Nat]
  BY <1>1, DurationsAssumption
<1>3. s \in Seq(Nat) /\ DOMAIN s = 1..n
  BY <1>2
<1>4. 1 \in 1..n /\ DOMAIN <<>> = 1..0
  OBVIOUS
<1> QED BY <1>3, <1>4

\* The median is the middle of the samples, for any samples.
THEOREM MedianOfSamples == Spec => []MedianIsMiddle
<1>1. MedianIsMiddle
  BY SamplesAreDurations, MedianMiddle DEF MedianIsMiddle
<1> QED BY <1>1, PTL

\* P95 is the quantile of the nearest-rank definition, for any samples.
THEOREM P95OfSamples == Spec => []P95IsNearestRank
<1>1. P95IsNearestRank
  BY SamplesAreDurations, P95Quantile DEF P95IsNearestRank
<1> QED BY <1>1, PTL

\* The columns of a row do not contradict each other, for any samples.
THEOREM ConsistencyOfStats == Spec => []StatsConsistent
<1>1. StatsConsistent
  BY SamplesAreDurations, StatsOfSamples DEF StatsConsistent
<1> QED BY <1>1, PTL

\* The plan is complete, for lists of any length.
THEOREM CompletenessOfPlans == Spec => []PlanIsComplete
<1>1. PlanIsComplete
  <2>1. ASSUME NEW rows \in Lists, NEW parts \in Options, NEW re \in Filters,
               NEW limit \in Limits
        PROVE  LET protos == ParseProtocols(parts)
               IN  IsPlan(Plan(rows, protos, re, limit), Asked(rows, protos, re),
                          rows, protos, limit)
    <3> DEFINE protos == ParseProtocols(parts)
    <3>1. protos \in Protocols
      BY OptionsParse
    <3>2. limit \in Nat
      BY DEF Limits
    <3> HIDE DEF protos
    <3>3. PICK N \in Nat : DOMAIN rows = 1..N /\ \E H, P : HaveURLs(rows, H, P)
      BY RowsHaveURLs
    <3>3a. PICK H, P : HaveURLs(rows, H, P)
      BY <3>3
    <3>4. IsPlan(Plan(rows, protos, re, limit), Asked(rows, protos, re),
                 rows, protos, limit)
      BY <3>1, <3>2, <3>3, <3>3a, PlanOfLists
    <3> QED BY <3>4, Zenon DEF protos
  <2> QED BY <2>1, Zenon DEF PlanIsComplete
<1> QED BY <1>1, PTL

\* Only DoQ endpoints repeat, for lists of any length.
THEOREM RepetitionsOfPlans == Spec => []OnlyDoQRepeats
<1>1. OnlyDoQRepeats
  <2>1. ASSUME NEW rows \in Lists, NEW parts \in Options
        PROVE  LET plan == Plan(rows, ParseProtocols(parts), NoFilter, 0)
               IN  \A j, k \in DOMAIN plan :
                     j # k /\ plan[j].proto = plan[k].proto /\ plan[j].url = plan[k].url =>
                       plan[j].proto = "DoQ" /\ plan[j].server.url # plan[k].server.url
    <3> DEFINE protos == ParseProtocols(parts)
               built == BuildTargets(LoadServers(rows), protos)
               plan == Plan(rows, protos, NoFilter, 0)
    <3>1. protos \in Protocols
      BY OptionsParse
    <3> HIDE DEF protos
    <3>2. PICK N \in Nat : DOMAIN rows = 1..N /\ \E H, P : HaveURLs(rows, H, P)
      BY RowsHaveURLs
    <3>2a. PICK H, P : HaveURLs(rows, H, P)
      BY <3>2
    <3>3. Listing(built, EndpointsOfAll(rows, protos, Kept(rows)),
                  EndpointOf(rows, protos), PairsAhead(N, Len(protos)))
      BY <3>1, <3>2, <3>2a, PlanOfLists
    <3>4. plan = built
      <4>1. plan = Limited(built, 0)
        BY Zenon DEF Plan
      <4> HIDE DEF plan, built
      <4> QED BY <4>1 DEF Limited
    <3> HIDE DEF plan, built
    <3>5. ASSUME NEW j \in DOMAIN plan, NEW k \in DOMAIN plan, j # k,
                 plan[j].proto = plan[k].proto, plan[j].url = plan[k].url
          PROVE  plan[j].proto = "DoQ" /\ plan[j].server.url # plan[k].server.url
      BY <3>1, <3>2, <3>2a, <3>3, <3>4, <3>5, ListingRepeatsDoQ
    <3> QED BY <3>5, Zenon DEF plan, protos
  <2> QED BY <2>1, Zenon DEF OnlyDoQRepeats
<1> QED BY <1>1, PTL
=============================================================================
