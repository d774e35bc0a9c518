---------------------------- MODULE StatsProofs -----------------------------
(***************************************************************************)
(* Stats, proved for samples of any number and size: Sorted is a stable    *)
(* sort, the median is the middle value, P95 is the value of its nearest   *)
(* rank, the sums are those of Go's loops, and no column of a row          *)
(* contradicts another.                                                    *)
(*                                                                         *)
(* Every loop is a recursive function here, and what such a function       *)
(* computes is shown by induction.  The induction is over a set,           *)
(* {n \in Nat : n has the property}, and rests on the library's theorem    *)
(* that every set of naturals has a least element, whose parameters are    *)
(* sets; that the function exists at all is shown in the same way.         *)
(* Operators that are parameters of the model, the order of a sort above   *)
(* all, are replaced by relations.                                         *)
(***************************************************************************)
EXTENDS MCStats, SequencesExt, FiniteSetsExt, WellFoundedInduction,
        SequenceTheorems, FiniteSetTheorems, TLAPS

-----------------------------------------------------------------------------
(* Induction and recursion over the naturals, for sets and functions in    *)
(* the place of predicates and operators.                                  *)

LEMMA NatSetInduction ==
  ASSUME NEW S, 0 \in S, \A n \in Nat : n \in S => n + 1 \in S
  PROVE  \A n \in Nat : n \in S
<1> DEFINE R == OpToRel(<, Nat)
           T == {n \in Nat : n \notin S}
<1>1. SUFFICES ASSUME T # {} PROVE FALSE
  OBVIOUS
<1>2. PICK x \in T : \A y \in T : <<y, x>> \notin R
  <2>1. IsWellFoundedOn(R, Nat)
    BY NatLessThanWellFounded
  <2>2. T \subseteq Nat
    OBVIOUS
  <2> HIDE DEF R, T
  <2> QED BY <1>1, <2>1, <2>2, WFMin
<1>3. \A y \in T : ~(y < x)
  BY <1>2 DEF OpToRel
<1>4. x # 0 /\ x - 1 \in Nat /\ x - 1 < x /\ x = (x - 1) + 1
  OBVIOUS
<1> QED BY <1>3, <1>4

\* Max of a set of naturals with a bound.
LEMMA MaxProperties ==
  ASSUME NEW S \in SUBSET Nat, S # {}, NEW n \in Nat, \A x \in S : x <= n
  PROVE  Max(S) \in S /\ \A x \in S : x <= Max(S)
<1> DEFINE Good == {m \in Nat : (\E x \in S : x >= n - m) =>
                                  \E x \in S : \A y \in S : x >= y}
<1>1. 0 \in Good
  OBVIOUS
<1>2. ASSUME NEW m \in Nat, m \in Good PROVE m + 1 \in Good
  <2>1. SUFFICES ASSUME NEW x \in S, x >= n - (m + 1)
                 PROVE  \E z \in S : \A y \in S : z >= y
    OBVIOUS
  <2>2. CASE \E y \in S : y >= n - m
    BY <1>2, <2>2
  <2>3. CASE \A y \in S : y < n - m
    <3>1. \A y \in S : x >= y
      BY <2>1, <2>3
    <3> QED BY <3>1
  <2> QED BY <2>2, <2>3
<1>3. n \in Good
  <2> HIDE DEF Good
  <2> QED BY <1>1, <1>2, NatSetInduction
<1>4. \E x \in S : \A y \in S : x >= y
  <2>1. PICK x : x \in S
    OBVIOUS
  <2>2. x \in Nat /\ x >= n - n
    BY <2>1
  <2> QED BY <1>3, <2>1, <2>2
<1> QED BY <1>4 DEF Max

\* g is defined by primitive recursion up to N.
Recursion(g, c, F, N) ==
  g[0] = c /\ \A n \in 1..N : g[n] = F[n][g[n - 1]]

\* Such a function exists.
LEMMA RecursionExists ==
  ASSUME NEW T, NEW c \in T, NEW N \in Nat, NEW F \in [1..N -> [T -> T]]
  PROVE  \E g \in [0..N -> T] : Recursion(g, c, F, N)
<1> DEFINE Sol(m, g) == g[0] = c /\ \A n \in 1..m : g[n] = F[n][g[n - 1]]
           Good == {m \in Nat : m <= N => \E g \in [0..m -> T] : Sol(m, g)}
<1>1. 0 \in Good
  <2>1. Sol(0, [n \in 0..0 |-> c]) /\ [n \in 0..0 |-> c] \in [0..0 -> T]
    OBVIOUS
  <2> QED BY <2>1
<1>2. ASSUME NEW m \in Nat, m \in Good PROVE m + 1 \in Good
  <2>1. SUFFICES ASSUME m + 1 <= N
                 PROVE  \E g \in [0..(m + 1) -> T] : Sol(m + 1, g)
    OBVIOUS
  <2>2. PICK g \in [0..m -> T] : Sol(m, g)
    BY <1>2, <2>1
  <2> DEFINE h == [n \in 0..(m + 1) |-> IF n <= m THEN g[n] ELSE F[n][g[m]]]
  <2>3. m + 1 \in 1..N /\ g[m] \in T
    BY <2>1
  <2>4. h \in [0..(m + 1) -> T]
    <3>1. F[m + 1][g[m]] \in T
      BY <2>3
    <3>2. \A n \in 0..(m + 1) : n \in 0..m \/ n = m + 1
      OBVIOUS
    <3> QED BY <3>1, <3>2
  <2>5. Sol(m + 1, h)
    <3>1. h[0] = c
      BY <2>2
    <3>2. ASSUME NEW n \in 1..(m + 1) PROVE h[n] = F[n][h[n - 1]]
      <4>1. h[n - 1] = g[n - 1] /\ n - 1 \in 0..m
        OBVIOUS
      <4>2. CASE n <= m BY <2>2, <4>1, <4>2
      <4>3. CASE n = m + 1 BY <4>1, <4>3
      <4> QED BY <4>2, <4>3
    <3> QED BY <3>1, <3>2
  <2> QED BY <2>4, <2>5
<1>3. N \in Good
  <2> HIDE DEF Good
  <2> QED BY <1>1, <1>2, NatSetInduction
<1> QED BY <1>3 DEF Recursion

-----------------------------------------------------------------------------
(* Sorting.                                                                *)

\* u is s with e inserted after its first m elements.
Inserted(u, s, m, e, T) ==
  /\ u \in Seq(T)
  /\ Len(u) = Len(s) + 1
  /\ \A k \in 1..(Len(s) + 1) :
       u[k] = IF k <= m THEN s[k] ELSE IF k = m + 1 THEN e ELSE s[k - 1]

LEMMA InsertAtProperties ==
  ASSUME NEW T, NEW s \in Seq(T), NEW e \in T, NEW m \in 0..Len(s)
  PROVE  Inserted(InsertAt(s, 1 + m, e), s, m, e, T)
<1> DEFINE N     == Len(s)
           front == SubSeq(s, 1, m)
           back  == SubSeq(s, m + 1, N)
           t     == front \o <<e>>
           u     == t \o back
<1>1. InsertAt(s, 1 + m, e) = u
  <2>1. (1 + m) - 1 = m /\ 1 + m = m + 1
    OBVIOUS
  <2> QED BY <2>1, Zenon DEF InsertAt
<1>2. /\ front \in Seq(T) /\ Len(front) = m
      /\ \A k \in 1..m : front[k] = s[k]
  OBVIOUS
<1>3. /\ back \in Seq(T) /\ Len(back) = N - m
      /\ \A k \in 1..(N - m) : back[k] = s[m + k]
  OBVIOUS
<1>4. <<e>> \in Seq(T) /\ Len(<<e>>) = 1 /\ <<e>>[1] = e
  OBVIOUS
<1>5. N \in Nat /\ m \in Nat /\ m <= N
  OBVIOUS
<1> HIDE DEF N, front, back
<1>6. /\ t \in Seq(T) /\ Len(t) = m + 1
      /\ \A k \in 1..(m + 1) : t[k] = IF k <= m THEN front[k] ELSE e
  BY <1>2, <1>4, ConcatProperties
<1> HIDE DEF t
<1>7. /\ u \in Seq(T)
      /\ Len(u) = Len(t) + Len(back)
      /\ \A k \in 1..(Len(t) + Len(back)) :
           u[k] = IF k <= Len(t) THEN t[k] ELSE back[k - Len(t)]
  BY <1>3, <1>6, ConcatProperties
<1> HIDE DEF u
<1>8. Len(u) = N + 1
  BY <1>3, <1>5, <1>6, <1>7
<1>9. ASSUME NEW k \in 1..(N + 1)
      PROVE  u[k] = IF k <= m THEN s[k] ELSE IF k = m + 1 THEN e ELSE s[k - 1]
  <2>1. u[k] = IF k <= m + 1 THEN t[k] ELSE back[k - (m + 1)]
    BY <1>3, <1>5, <1>6, <1>7
  <2>2. CASE k <= m + 1
    BY <1>2, <1>5, <1>6, <2>1, <2>2
  <2>3. CASE k > m + 1
    <3>1. k - (m + 1) \in 1..(N - m) /\ m + (k - (m + 1)) = k - 1
      BY <1>5, <2>3
    <3>2. back[k - (m + 1)] = s[k - 1]
      BY <1>3, <3>1
    <3> QED BY <1>5, <2>1, <2>3, <3>2
  <2> QED BY <1>5, <2>2, <2>3
<1> QED BY <1>1, <1>7, <1>8, <1>9, Zenon DEF N, Inserted

\* R is a strict weak order on T.
WeakOrder(R, T) ==
  /\ \A a, b \in T : <<a, b>> \in R => <<b, a>> \notin R
  /\ \A a, b, c \in T : <<a, b>> \notin R /\ <<b, c>> \notin R => <<a, c>> \notin R

\* The i-th element of s belongs before the j-th in a stable sort by R.
Precedes(i, j, s, R) ==
  <<s[j], s[i]>> \notin R /\ (i < j \/ <<s[i], s[j]>> \in R)

\* p is a permutation of 1..n.
Permutation(p, n) ==
  /\ p \in [1..n -> 1..n]
  /\ \A k, l \in 1..n : p[k] = p[l] => k = l
  /\ \A j \in 1..n : \E k \in 1..n : p[k] = j

\* t is the first n elements of s in the order of R: its k-th is the p[k]-th
\* of s.
StableSort(p, n, s, t, R) ==
  /\ Len(t) = n
  /\ Permutation(p, n)
  /\ \A k \in 1..n : t[k] = s[p[k]]
  /\ \A k, l \in 1..n : k < l => Precedes(p[k], p[l], s, R)

\* One round of the insertion sort of s, from t to u.
Round(t, e, u, R) ==
  \E m \in 0..Len(t) :
    /\ u = InsertAt(t, 1 + m, e)
    /\ m > 0 => <<e, t[m]>> \notin R
    /\ \A j \in m + 1..Len(t) : <<e, t[j]>> \in R

\* q is the permutation p of 1..n with n + 1 inserted after its first m numbers.
Widened(q, p, n, m) ==
  /\ Permutation(q, n + 1)
  /\ \A k \in 1..n : k <= m => q[k] = p[k]
  /\ q[m + 1] = n + 1
  /\ \A k \in 1..n : k > m => q[k + 1] = p[k]

LEMMA PermutationGrows ==
  ASSUME NEW n \in Nat, NEW m \in 0..n, NEW p, Permutation(p, n)
  PROVE  \E q : Widened(q, p, n, m)
<1> DEFINE N == 1..(n + 1)
           q == [k \in N |-> IF k <= m THEN p[k]
                             ELSE IF k = m + 1 THEN n + 1 ELSE p[k - 1]]
           from(k) == IF k <= m THEN k ELSE k - 1
<1>0. /\ p \in [1..n -> 1..n]
      /\ \A k, l \in 1..n : p[k] = p[l] => k = l
      /\ \A j \in 1..n : \E k \in 1..n : p[k] = j
  BY DEF Permutation
<1>1. \A k \in 1..n : k \in N /\ k + 1 \in N /\ p[k] \in 1..n /\ p[k] \in N /\ p[k] # n + 1
  BY <1>0
<1>2. m + 1 \in N /\ n + 1 \in N
  OBVIOUS
<1>3. ASSUME NEW k \in N, k # m + 1
      PROVE  from(k) \in 1..n /\ q[k] = p[from(k)]
  BY <1>3
<1>4. q[m + 1] = n + 1
  BY <1>2
<1>5. q \in [N -> N]
  <2>1. \A k \in N : q[k] \in N
    <3> HIDE DEF q, from, N
    <3> QED BY <1>1, <1>2, <1>3, <1>4
  <2> QED BY <2>1
<1>6. \A k \in 1..n : k <= m => q[k] = p[k]
  BY <1>1
<1>7. \A k \in 1..n : k > m => q[k + 1] = p[k]
  BY <1>1
<1>8. ASSUME NEW k \in N, NEW l \in N, q[k] = q[l] PROVE k = l
  <2>1. CASE k = m + 1 \/ l = m + 1
    <3> HIDE DEF q, from, N
    <3> QED BY <1>1, <1>3, <1>4, <1>8, <2>1
  <2>2. CASE k # m + 1 /\ l # m + 1
    <3>1. from(k) = from(l)
      <4> HIDE DEF q, from, N
      <4> QED BY <1>0, <1>3, <1>8, <2>2
    <3>2. k \in Int /\ l \in Int
      OBVIOUS
    <3> HIDE DEF q, N
    <3> QED BY <2>2, <3>1, <3>2
  <2> QED BY <2>1, <2>2
<1>9. ASSUME NEW j \in N PROVE \E k \in N : q[k] = j
  <2>1. CASE j = n + 1
    <3> HIDE DEF q, N
    <3> QED BY <1>2, <1>4, <2>1
  <2>2. CASE j \in 1..n
    <3>1. PICK k \in 1..n : p[k] = j
      BY <1>0, <2>2
    <3>2. k <= m \/ k > m
      OBVIOUS
    <3> HIDE DEF q, N
    <3> QED BY <1>1, <1>6, <1>7, <3>1, <3>2
  <2>3. j = n + 1 \/ j \in 1..n
    OBVIOUS
  <2> QED BY <2>1, <2>2, <2>3
<1> HIDE DEF q
<1> QED BY <1>4, <1>5, <1>6, <1>7, <1>8, <1>9 DEF Permutation, Widened

LEMMA RoundSorts ==
  ASSUME NEW T, NEW R, WeakOrder(R, T), NEW s \in Seq(T), NEW n \in Nat,
         n < Len(s), NEW t \in Seq(T), NEW u, Round(t, s[n + 1], u, R),
         NEW p, StableSort(p, n, s, t, R)
  PROVE  u \in Seq(T) /\ \E q : StableSort(q, n + 1, s, u, R)
<1> DEFINE e == s[n + 1]
           N == 1..(n + 1)
<1>1. e \in T /\ Len(t) = n /\ \A j \in 1..n : s[j] \in T
  BY DEF StableSort
<1>2. Round(t, e, u, R)
  OBVIOUS
<1> HIDE DEF e
<1>3. PICK m \in 0..n : /\ u = InsertAt(t, 1 + m, e)
                        /\ m > 0 => <<e, t[m]>> \notin R
                        /\ \A j \in m + 1..n : <<e, t[j]>> \in R
  BY <1>1, <1>2 DEF Round
<1>4. m \in 0..Len(t) /\ m \in Nat /\ m <= n
  BY <1>1
<1>5. /\ u \in Seq(T) /\ Len(u) = n + 1
      /\ \A k \in N :
           u[k] = IF k <= m THEN t[k] ELSE IF k = m + 1 THEN e ELSE t[k - 1]
  <2> HIDE DEF N
  <2>1. Inserted(InsertAt(t, 1 + m, e), t, m, e, T)
    BY <1>1, <1>4, InsertAtProperties
  <2> QED BY <1>1, <1>3, <2>1, Zenon DEF N, Inserted
<1>6. /\ \A k \in 1..n : p[k] \in 1..n /\ t[k] = s[p[k]] /\ t[k] \in T
      /\ \A k, l \in 1..n : k < l => Precedes(p[k], p[l], s, R)
  <2>1. /\ p \in [1..n -> 1..n]
        /\ \A k \in 1..n : t[k] = s[p[k]]
        /\ \A k, l \in 1..n : k < l => Precedes(p[k], p[l], s, R)
    BY DEF StableSort, Permutation
  <2> QED BY <1>1, <2>1
<1>7. PICK q : Widened(q, p, n, m)
  BY PermutationGrows DEF StableSort
\* An element before the new one comes from place k of t, one after it from k - 1.
<1> DEFINE from(k) == IF k <= m THEN k ELSE k - 1
<1>8. ASSUME NEW k \in N, k # m + 1
      PROVE  from(k) \in 1..n /\ q[k] = p[from(k)] /\ u[k] = t[from(k)]
  <2>1. CASE k <= m
    <3>1. k \in 1..n
      BY <1>4, <2>1
    <3> QED BY <1>5, <1>7, <2>1, <3>1 DEF Widened
  <2>2. CASE k > m + 1
    <3>1. k - 1 \in 1..n /\ k - 1 > m /\ (k - 1) + 1 = k /\ ~(k <= m)
      BY <1>4, <2>2
    <3>2. q[(k - 1) + 1] = p[k - 1]
      BY <1>7, <3>1 DEF Widened
    <3> QED BY <1>5, <1>8, <3>1, <3>2
  <2>3. k <= m \/ k > m + 1
    BY <1>4, <1>8
  <2> QED BY <2>1, <2>2, <2>3
<1>9. m + 1 \in N /\ u[m + 1] = e
  <2>1. m + 1 \in N /\ ~(m + 1 <= m)
    BY <1>4
  <2> QED BY <1>5, <2>1
<1>10. ASSUME NEW k \in N PROVE u[k] = s[q[k]]
  <2>1. CASE k = m + 1
    BY <1>7, <1>9, <2>1 DEF e, Widened
  <2>2. CASE k # m + 1
    <3> HIDE DEF from, N
    <3> QED BY <1>6, <1>8, <2>2
  <2> QED BY <2>1, <2>2
<1>11. ASSUME NEW k \in N, NEW l \in N, k < l
       PROVE  Precedes(q[k], q[l], s, R)
  <2>1. k \in Int /\ l \in Int
    OBVIOUS
  <2>2. CASE l = m + 1
    <3>1. k <= m /\ k \in 1..n /\ m > 0 /\ m \in 1..n /\ k # m + 1 /\ from(k) = k
      BY <1>4, <1>11, <2>2
    <3>2. <<e, t[m]>> \notin R
      BY <1>3, <3>1
    <3>3. k < m => <<t[m], t[k]>> \notin R
      BY <1>6, <3>1 DEF Precedes
    <3>4. <<e, t[k]>> \notin R
      <4>1. CASE k = m
        BY <3>2, <4>1
      <4>2. CASE k < m
        <5>1. t[m] \in T /\ t[k] \in T
          BY <1>6, <3>1
        <5> QED BY <1>1, <3>2, <3>3, <4>2, <5>1 DEF WeakOrder
      <4> QED BY <3>1, <2>1, <1>4, <4>1, <4>2
    <3>5. q[k] = p[k] /\ q[l] = n + 1 /\ p[k] < n + 1 /\ t[k] = s[p[k]]
      BY <1>6, <1>7, <2>2, <3>1 DEF Widened
    <3> QED BY <3>4, <3>5 DEF Precedes, e
  <2>3. CASE k = m + 1
    <3>1. l - 1 \in m + 1..n /\ l - 1 \in 1..n /\ l # m + 1 /\ from(l) = l - 1
      BY <1>4, <1>11, <2>3
    <3>2. <<e, t[l - 1]>> \in R /\ t[l - 1] \in T /\ t[l - 1] = s[p[l - 1]]
      BY <1>3, <1>6, <3>1
    <3>3. <<t[l - 1], e>> \notin R
      BY <1>1, <3>2 DEF WeakOrder
    <3>4. q[k] = n + 1 /\ q[l] = p[l - 1]
      BY <1>7, <1>8, <2>3, <3>1 DEF Widened
    <3> QED BY <3>2, <3>3, <3>4 DEF Precedes, e
  <2>4. CASE k # m + 1 /\ l # m + 1
    <3>1. from(k) < from(l)
      BY <1>4, <1>11, <2>1, <2>4
    <3> HIDE DEF from, N
    <3> QED BY <1>6, <1>8, <2>4, <3>1
  <2> QED BY <2>2, <2>3, <2>4
<1>12. StableSort(q, n + 1, s, u, R)
  BY <1>5, <1>7, <1>10, <1>11 DEF StableSort, Widened
<1> QED BY <1>5, <1>12

LEMMA RoundsSort ==
  ASSUME NEW T, NEW R, WeakOrder(R, T), NEW s \in Seq(T), NEW g, g[0] = <<>>,
         \A n \in 1..Len(s) : g[n - 1] \in Seq(T) => Round(g[n - 1], s[n], g[n], R)
  PROVE  \A n \in 0..Len(s) :
           g[n] \in Seq(T) /\ \E p : StableSort(p, n, s, g[n], R)
<1> DEFINE Good == {n \in Nat : n <= Len(s) =>
                      g[n] \in Seq(T) /\ \E p : StableSort(p, n, s, g[n], R)}
<1>1. 0 \in Good
  <2> DEFINE p == [k \in 1..0 |-> k]
  <2>1. g[0] \in Seq(T) /\ Len(g[0]) = 0
    OBVIOUS
  <2>2. StableSort(p, 0, s, g[0], R)
    BY <2>1 DEF StableSort, Permutation
  <2> HIDE DEF p
  <2> QED BY <2>1, <2>2
<1>2. ASSUME NEW n \in Nat, n \in Good PROVE n + 1 \in Good
  <2>1. SUFFICES ASSUME n + 1 <= Len(s)
                 PROVE  /\ g[n + 1] \in Seq(T)
                        /\ \E p : StableSort(p, n + 1, s, g[n + 1], R)
    OBVIOUS
  <2>2. g[n] \in Seq(T) /\ n < Len(s) /\ n + 1 \in 1..Len(s) /\ (n + 1) - 1 = n
    BY <1>2, <2>1
  <2>3. PICK p : StableSort(p, n, s, g[n], R)
    BY <1>2, <2>2
  <2>4. Round(g[n], s[n + 1], g[n + 1], R)
    BY <2>2
  <2> QED BY <2>2, <2>3, <2>4, RoundSorts
<1>3. \A n \in Nat : n \in Good
  <2> HIDE DEF Good
  <2> QED BY <1>1, <1>2, NatSetInduction
<1> QED BY <1>3

\* Place, for a relation in the place of an operator.
PlaceBy(t, e, R) ==
  InsertAt(t, 1 + Max({0} \cup {j \in DOMAIN t : <<e, t[j]>> \notin R}), e)

LEMMA PlaceIsRound ==
  ASSUME NEW T, NEW R, NEW t \in Seq(T), NEW e \in T
  PROVE  PlaceBy(t, e, R) \in Seq(T) /\ Round(t, e, PlaceBy(t, e, R), R)
<1> DEFINE S == {0} \cup {j \in DOMAIN t : <<e, t[j]>> \notin R}
           m == Max(S)
<1>1. S \in SUBSET Nat /\ S # {} /\ Len(t) \in Nat /\ \A x \in S : x <= Len(t)
  OBVIOUS
<1>2. m \in S /\ \A x \in S : x <= m
  <2> HIDE DEF S
  <2> QED BY <1>1, MaxProperties
<1>3. /\ m \in 0..Len(t)
      /\ m > 0 => <<e, t[m]>> \notin R
      /\ \A j \in m + 1..Len(t) : <<e, t[j]>> \in R
  <2> HIDE DEF m
  <2>1. m \in 0..Len(t)
    BY <1>1, <1>2
  <2>2. ASSUME NEW j \in m + 1..Len(t), <<e, t[j]>> \notin R PROVE FALSE
    <3>1. j \in DOMAIN t /\ ~(j <= m)
      BY <2>1
    <3> QED BY <1>2, <2>2, <3>1
  <2> QED BY <1>2, <2>1, <2>2
<1>4. Inserted(InsertAt(t, 1 + m, e), t, m, e, T)
  <2> HIDE DEF m
  <2> QED BY <1>3, InsertAtProperties
<1>5. PlaceBy(t, e, R) = InsertAt(t, 1 + m, e)
  BY DEF PlaceBy
<1> HIDE DEF m
<1> QED BY <1>3, <1>4, <1>5 DEF Inserted, Round

\* The recursive function of an insertion sort of s exists, and its last value
\* is a stable sort of s.
Insertion(g, s, R, T) ==
  /\ g[0] = <<>>
  /\ \A n \in 1..Len(s) :
       g[n - 1] \in Seq(T) => g[n] = PlaceBy(g[n - 1], s[n], R)

LEMMA InsertionExists ==
  ASSUME NEW T, NEW R, NEW s \in Seq(T)
  PROVE  \E g \in [0..Len(s) -> Seq(T)] : Insertion(g, s, R, T)
<1> DEFINE F == [n \in 1..Len(s) |-> [t \in Seq(T) |-> PlaceBy(t, s[n], R)]]
<1>1. Len(s) \in Nat /\ <<>> \in Seq(T)
  OBVIOUS
<1>2. F \in [1..Len(s) -> [Seq(T) -> Seq(T)]]
  <2>1. \A n \in 1..Len(s) : \A t \in Seq(T) : PlaceBy(t, s[n], R) \in Seq(T)
    <3>1. \A n \in 1..Len(s) : s[n] \in T
      OBVIOUS
    <3> QED BY <3>1, PlaceIsRound
  <2> QED BY <2>1
<1>3. PICK g \in [0..Len(s) -> Seq(T)] : Recursion(g, <<>>, F, Len(s))
  <2> HIDE DEF F
  <2> QED BY <1>1, <1>2, RecursionExists
<1>4. \A n \in 1..Len(s) : g[n - 1] \in Seq(T)
  OBVIOUS
<1> QED BY <1>3, <1>4 DEF Insertion, Recursion

LEMMA InsertionSorts ==
  ASSUME NEW T, NEW R, WeakOrder(R, T), NEW s \in Seq(T), NEW g, Insertion(g, s, R, T)
  PROVE  g[Len(s)] \in Seq(T) /\ \E p : StableSort(p, Len(s), s, g[Len(s)], R)
<1>1. \A n \in 1..Len(s) : g[n - 1] \in Seq(T) => Round(g[n - 1], s[n], g[n], R)
  <2>1. \A n \in 1..Len(s) : s[n] \in T
    OBVIOUS
  <2> QED BY <2>1, PlaceIsRound DEF Insertion
<1>2. g[0] = <<>> /\ Len(s) \in 0..Len(s)
  BY DEF Insertion
<1> QED BY <1>1, <1>2, RoundsSort

\* The order of the durations.
NatLess == {x \in Nat \X Nat : x[1] < x[2]}

LEMMA SortedSorts ==
  ASSUME NEW s \in Seq(Nat)
  PROVE  /\ Sorted(s) \in Seq(Nat)
         /\ \E p : StableSort(p, Len(s), s, Sorted(s), NatLess)
<1> DEFINE place(t, e) == Place(t, e, <)
           Rec(g) == g = [n \in 0..Len(s) |->
                           IF n = 0 THEN <<>> ELSE place(g[n - 1], s[n])]
           sorted == CHOOSE g : Rec(g)
<1>1. Sorted(s) = sorted[Len(s)]
  BY DEF Sorted, SortBy
<1>2. \A a, b \in Nat : <<a, b>> \in NatLess <=> a < b
  BY DEF NatLess
<1>3. WeakOrder(NatLess, Nat)
  BY <1>2 DEF WeakOrder
<1>4. ASSUME NEW t \in Seq(Nat), NEW e \in Nat
      PROVE  place(t, e) = PlaceBy(t, e, NatLess)
  <2>1. {j \in DOMAIN t : ~(e < t[j])} = {j \in DOMAIN t : <<e, t[j]>> \notin NatLess}
    BY <1>2
  <2> QED BY <2>1, Zenon DEF Place, PlaceBy
<1> HIDE DEF place
<1>5. \E g : Rec(g)
  <2>1. PICK g \in [0..Len(s) -> Seq(Nat)] : Insertion(g, s, NatLess, Nat)
    BY InsertionExists
  <2>2. \A n \in 1..Len(s) : s[n] \in Nat /\ g[n - 1] \in Seq(Nat) /\ n # 0
    OBVIOUS
  <2>3. \A n \in 1..Len(s) : g[n] = place(g[n - 1], s[n])
    BY <1>4, <2>1, <2>2, Zenon DEF Insertion
  <2>4. \A n \in 0..Len(s) :
          g[n] = IF n = 0 THEN <<>> ELSE place(g[n - 1], s[n])
    BY <2>1, <2>3 DEF Insertion
  <2>5. Rec(g)
    BY <2>4
  <2> QED BY <2>5
<1>6. Rec(sorted)
  <2> HIDE DEF Rec
  <2> QED BY <1>5
<1> HIDE DEF sorted
<1>7. Insertion(sorted, s, NatLess, Nat)
  <2>1. \A n \in 0..Len(s) :
          sorted[n] = IF n = 0 THEN <<>> ELSE place(sorted[n - 1], s[n])
    BY <1>6, Zenon
  <2>2. /\ sorted[0] = <<>>
        /\ \A n \in 1..Len(s) : sorted[n] = place(sorted[n - 1], s[n])
    BY <2>1
  <2>3. \A n \in 1..Len(s) : s[n] \in Nat
    OBVIOUS
  <2> QED BY <1>4, <2>2, <2>3, Zenon DEF Insertion
<1> QED BY <1>1, <1>3, <1>7, InsertionSorts

\* The first m values of a sequence without repetitions are m values.
First(p, m) == {p[k] : k \in 1..m}

LEMMA FirstCount ==
  ASSUME NEW m \in Nat, NEW p, \A k, l \in 1..m : p[k] = p[l] => k = l
  PROVE  IsFiniteSet(First(p, m)) /\ Cardinality(First(p, m)) = m
<1> DEFINE image == {p[k] : k \in 1..m}
           f == [k \in 1..m |-> p[k]]
<1>1. f \in Injection(1..m, image)
  <2>1. \A k, l \in 1..m : f[k] = f[l] => k = l
    OBVIOUS
  <2>2. f \in [1..m -> image]
    OBVIOUS
  <2> HIDE DEF f, image
  <2> QED BY <2>1, <2>2 DEF Injection, IsInjective
<1>2. f \in Surjection(1..m, image)
  BY DEF Surjection
<1>3. IsFiniteSet(1..m) /\ Cardinality(1..m) = m
  BY FS_Interval
<1>4. ExistsBijection(1..m, image)
  BY <1>1, <1>2 DEF ExistsBijection, Bijection
<1> HIDE DEF image, f
<1>5. IsFiniteSet(image) /\ Cardinality(image) = m
  BY <1>3, <1>4, FS_Bijection
<1> QED BY <1>5 DEF image, First

-----------------------------------------------------------------------------
(* The median and the quantiles.                                           *)

\* t is s in ascending order: its k-th element is the p[k]-th of s.
Ascending(p, s, t) ==
  /\ s \in Seq(Nat) /\ t \in Seq(Nat)
  /\ Len(t) = Len(s)
  /\ Permutation(p, Len(s))
  /\ \A k \in 1..Len(s) : t[k] = s[p[k]]
  /\ \A k, l \in 1..Len(s) : k < l => t[k] <= t[l]

LEMMA SortedAscends ==
  ASSUME NEW s \in Seq(Nat)
  PROVE  \E p : Ascending(p, s, Sorted(s))
<1> DEFINE t == Sorted(s)
           n == Len(s)
<1>1. PICK p : t \in Seq(Nat) /\ StableSort(p, n, s, t, NatLess)
  BY SortedSorts
<1> HIDE DEF t
<1>2. /\ Len(t) = n /\ Permutation(p, n)
      /\ \A k \in 1..n : t[k] = s[p[k]]
      /\ \A k, l \in 1..n : k < l => Precedes(p[k], p[l], s, NatLess)
  BY <1>1 DEF StableSort
<1>3. \A k \in 1..n : t[k] \in Nat
  BY <1>1, <1>2
<1>4. ASSUME NEW k \in 1..n, NEW l \in 1..n, k < l PROVE t[k] <= t[l]
  <2>1. <<t[l], t[k]>> \notin NatLess
    BY <1>2, <1>4 DEF Precedes
  <2> QED BY <1>3, <2>1 DEF NatLess
<1> QED BY <1>1, <1>2, <1>4 DEF Ascending, t

\* At least r samples are at most v if the r-th in ascending order is, and
\* fewer than r if it is not.
LEMMA AtMostByRank ==
  ASSUME NEW p, NEW s, NEW t, Ascending(p, s, t), NEW r \in 1..Len(s), NEW v \in Nat
  PROVE  AtMost(s, v) \in Nat /\ (AtMost(s, v) >= r <=> t[r] <= v)
<1> DEFINE n == Len(s)
           below == {j \in DOMAIN s : s[j] <= v}
<1>1. /\ n \in Nat /\ DOMAIN s = 1..n /\ Permutation(p, n) /\ r \in 1..n
      /\ \A k \in 1..n : t[k] = s[p[k]] /\ t[k] \in Nat
      /\ \A k, l \in 1..n : k < l => t[k] <= t[l]
  BY DEF Ascending
<1>2. /\ \A k \in 1..n : p[k] \in 1..n
      /\ \A j \in 1..n : \E k \in 1..n : p[k] = j
  BY <1>1 DEF Permutation
<1>3. IsFiniteSet(below)
  <2>1. IsFiniteSet(1..n) /\ below \in SUBSET (1..n)
    BY <1>1, FS_Interval
  <2> HIDE DEF below
  <2> QED BY <2>1, FS_Subset
<1>4. AtMost(s, v) = Cardinality(below)
  BY DEF AtMost
<1>5. ASSUME NEW m \in 0..n
      PROVE  IsFiniteSet(First(p, m)) /\ Cardinality(First(p, m)) = m
  <2>1. m \in Nat /\ \A k, l \in 1..m : k \in 1..n /\ l \in 1..n
    BY <1>1
  <2>2. \A k, l \in 1..m : p[k] = p[l] => k = l
    BY <1>1, <2>1 DEF Permutation
  <2> QED BY <2>1, <2>2, FirstCount
<1>6. CASE t[r] <= v
  <2>1. ASSUME NEW k \in 1..r PROVE p[k] \in below
    <3>1. k \in 1..n /\ (k = r \/ k < r)
      BY <1>1
    <3>2. t[k] <= v
      BY <1>1, <1>6, <3>1
    <3> QED BY <1>1, <1>2, <3>1, <3>2
  <2>2. First(p, r) \in SUBSET below
    BY <2>1 DEF First
  <2> HIDE DEF below
  <2>3. Cardinality(First(p, r)) <= Cardinality(below)
    BY <1>3, <2>2, FS_Subset
  <2>4. r \in 0..n
    BY <1>1
  <2>5. Cardinality(below) \in Nat
    BY <1>3, FS_CardinalityType
  <2> QED BY <1>4, <1>5, <1>6, <2>3, <2>4, <2>5
<1>7. CASE t[r] > v
  <2>1. ASSUME NEW j \in below PROVE \E k \in 1..(r - 1) : p[k] = j
    <3>1. PICK k \in 1..n : p[k] = j
      BY <1>1, <1>2
    <3>2. ~(r < k) /\ r # k
      BY <1>1, <1>7, <3>1
    <3>3. k \in 1..(r - 1)
      BY <1>1, <3>2
    <3> QED BY <3>1, <3>3
  <2>2. below \in SUBSET First(p, r - 1)
    BY <2>1 DEF First
  <2>3. r - 1 \in 0..n
    BY <1>1
  <2>4. Cardinality(below) \in Nat
    <3> HIDE DEF below
    <3> QED BY <1>3, FS_CardinalityType
  <2>5. IsFiniteSet(First(p, r - 1)) /\ Cardinality(First(p, r - 1)) = r - 1
    BY <1>5, <2>3
  <2> HIDE DEF below
  <2>6. Cardinality(below) <= r - 1
    BY <2>2, <2>5, FS_Subset
  <2> QED BY <1>1, <1>4, <1>7, <2>3, <2>4, <2>6
<1>8. t[r] <= v \/ t[r] > v
  BY <1>1
<1> QED BY <1>6, <1>7, <1>8

\* The smallest sample that r samples do not exceed is the r-th in ascending
\* order.
SmallestOf(s, P) == s[CHOOSE j \in P : \A k \in P : s[j] <= s[k]]

LEMMA SmallestByRank ==
  ASSUME NEW p, NEW s, NEW t, Ascending(p, s, t), NEW r \in 1..Len(s)
  PROVE  SmallestOf(s, {j \in DOMAIN s : AtMost(s, s[j]) >= r}) = t[r]
<1> DEFINE n == Len(s)
           P == {j \in DOMAIN s : AtMost(s, s[j]) >= r}
<1>1. /\ n \in Nat /\ DOMAIN s = 1..n /\ r \in 1..n
      /\ \A j \in 1..n : s[j] \in Nat
      /\ p[r] \in 1..n /\ t[r] = s[p[r]]
  <2>1. s \in Seq(Nat) /\ p \in [1..n -> 1..n] /\ \A k \in 1..n : t[k] = s[p[k]]
    BY DEF Ascending, Permutation
  <2> QED BY <2>1
<1>2. P = {j \in 1..n : t[r] <= s[j]}
  <2>1. \A j \in 1..n : AtMost(s, s[j]) >= r <=> t[r] <= s[j]
    BY <1>1, AtMostByRank
  <2> QED BY <1>1, <2>1
<1> HIDE DEF P
<1> DEFINE j == CHOOSE j \in P : \A k \in P : s[j] <= s[k]
<1>3. p[r] \in P /\ \A k \in P : s[p[r]] <= s[k]
  BY <1>1, <1>2
<1>4. j \in P /\ \A k \in P : s[j] <= s[k]
  BY <1>3
<1>5. SmallestOf(s, P) = s[j]
  BY DEF SmallestOf
<1> HIDE DEF j
<1>6. s[j] = t[r]
  BY <1>1, <1>2, <1>3, <1>4
<1> QED BY <1>5, <1>6 DEF P

\* The median of any samples is the middle of them.
LEMMA MedianMiddle ==
  ASSUME NEW s \in Seq(Nat), s # <<>>
  PROVE  ComputeStats(s).Median = Middle(s)
<1> DEFINE n == Len(s)
           t == Sorted(s)
<1>1. PICK p : Ascending(p, s, t)
  BY SortedAscends
<1>2. ComputeStats(s).Median = Median(t)
  BY DEF ComputeStats
<1> HIDE DEF t
<1>3. /\ n \in Nat /\ n > 0 /\ Len(t) = n /\ DOMAIN s = 1..n
      /\ \A k \in 1..n : t[k] \in Nat /\ s[k] \in Nat
  BY <1>1 DEF Ascending
<1> DEFINE lower == {j \in DOMAIN s : 2 * AtMost(s, s[j]) >= n}
           upper == {j \in DOMAIN s : 2 * AtMost(s, s[j]) > n}
<1>4. Middle(s) = (SmallestOf(s, lower) + SmallestOf(s, upper)) \div 2
  BY DEF Middle, Smallest, SmallestOf
<1>5. \A j \in DOMAIN s : AtMost(s, s[j]) \in Nat
  BY <1>1, <1>3, AtMostByRank
<1>6. CASE n % 2 = 1
  <2> DEFINE r == n \div 2 + 1
  <2>1. r \in 1..n /\ n = 2 * r - 1
    BY <1>3, <1>6
  <2> HIDE DEF r
  <2>2. /\ lower = {j \in DOMAIN s : AtMost(s, s[j]) >= r}
        /\ upper = {j \in DOMAIN s : AtMost(s, s[j]) >= r}
    <3>1. \A a \in Nat : /\ 2 * a >= n <=> a >= r
                         /\ 2 * a > n <=> a >= r
      BY <2>1
    <3> QED BY <1>5, <3>1
  <2>3. SmallestOf(s, lower) = t[r] /\ SmallestOf(s, upper) = t[r]
    <3>1. SmallestOf(s, {j \in DOMAIN s : AtMost(s, s[j]) >= r}) = t[r]
      BY <1>1, <2>1, SmallestByRank
    <3> HIDE DEF lower, upper
    <3> QED BY <2>2, <3>1, Zenon
  <2>4. Median(t) = t[r]
    BY <1>3, <1>6 DEF Median, r
  <2>5. t[r] \in Nat /\ (t[r] + t[r]) \div 2 = t[r]
    BY <1>3, <2>1
  <2> HIDE DEF lower, upper
  <2> QED BY <1>2, <1>4, <2>3, <2>4, <2>5
<1>7. CASE n % 2 # 1
  <2> DEFINE r == n \div 2
  <2>1. r \in 1..n /\ r + 1 \in 1..n /\ n = 2 * r
    BY <1>3, <1>7
  <2> HIDE DEF r
  <2>2. /\ lower = {j \in DOMAIN s : AtMost(s, s[j]) >= r}
        /\ upper = {j \in DOMAIN s : AtMost(s, s[j]) >= r + 1}
    <3>1. \A a \in Nat : /\ 2 * a >= n <=> a >= r
                         /\ 2 * a > n <=> a >= r + 1
      BY <2>1
    <3> QED BY <1>5, <3>1
  <2>3. SmallestOf(s, lower) = t[r] /\ SmallestOf(s, upper) = t[r + 1]
    <3>1. /\ SmallestOf(s, {j \in DOMAIN s : AtMost(s, s[j]) >= r}) = t[r]
          /\ SmallestOf(s, {j \in DOMAIN s : AtMost(s, s[j]) >= r + 1}) = t[r + 1]
      BY <1>1, <2>1, SmallestByRank
    <3> HIDE DEF lower, upper
    <3> QED BY <2>2, <3>1, Zenon
  <2>4. Median(t) = (t[r] + t[r + 1]) \div 2
    BY <1>3, <1>7 DEF Median, r
  <2> QED BY <1>2, <1>4, <2>3, <2>4
<1> QED BY <1>6, <1>7

\* P95 of any samples is the quantile of the nearest-rank definition.
LEMMA P95Quantile ==
  ASSUME NEW s \in Seq(Nat), s # <<>>
  PROVE  ComputeStats(s).P95 = Quantile(s, 95)
<1> DEFINE n == Len(s)
           t == Sorted(s)
           r == (95 * n + 99) \div 100
           passes == {j \in DOMAIN s : 100 * AtMost(s, s[j]) >= 95 * n}
<1>1. PICK p : Ascending(p, s, t)
  BY SortedAscends
<1>2. ComputeStats(s).P95 = Percentile(t, 95)
  BY DEF ComputeStats
<1> HIDE DEF t
<1>3. n \in Nat /\ n > 0 /\ Len(t) = n /\ DOMAIN s = 1..n
      /\ \A k \in 1..n : s[k] \in Nat
  BY <1>1 DEF Ascending
<1>4. r \in 1..n /\ \A a \in Nat : 100 * a >= 95 * n <=> a >= r
  BY <1>3
<1>5. Percentile(t, 95) = t[r]
  <2>1. t # <<>> /\ RankRoundedUp(95, Len(t)) = r
    BY <1>3 DEF RankRoundedUp
  <2> HIDE DEF r
  <2> QED BY <1>3, <1>4, <2>1 DEF Percentile
<1>6. Quantile(s, 95) = SmallestOf(s, passes)
  BY DEF Quantile, Smallest, SmallestOf
<1> HIDE DEF r
<1>7. \A j \in DOMAIN s : AtMost(s, s[j]) \in Nat
  BY <1>1, <1>3, <1>4, AtMostByRank
<1>8. passes = {j \in DOMAIN s : AtMost(s, s[j]) >= r}
  BY <1>4, <1>7
<1>9. SmallestOf(s, passes) = t[r]
  BY <1>1, <1>4, <1>8, SmallestByRank
<1> QED BY <1>2, <1>5, <1>6, <1>9

-----------------------------------------------------------------------------
(* The average and the standard deviation.                                 *)

LEMMA QuotientBounds ==
  ASSUME NEW x \in Int, NEW n \in Nat, n > 0, NEW lo \in Int, NEW hi \in Int,
         n * lo <= x, x <= n * hi
  PROVE  x \div n \in Int /\ lo <= x \div n /\ x \div n <= hi
<1> DEFINE q == x \div n
<1>1. q \in Int /\ n * q <= x /\ x < n * q + n
  OBVIOUS
<1> HIDE DEF q
<1>2. lo <= q
  <2>1. SUFFICES ASSUME q + 1 <= lo PROVE FALSE
    BY <1>1
  <2>2. n * (q + 1) <= n * lo
    BY <1>1, <2>1
  <2> QED BY <1>1, <2>2
<1>3. q <= hi
  <2>1. SUFFICES ASSUME hi + 1 <= q PROVE FALSE
    BY <1>1
  <2>2. n * (hi + 1) <= n * q
    BY <1>1, <2>1
  <2> QED BY <1>1, <2>2
<1> QED BY <1>1, <1>2, <1>3 DEF q

\* The sum of the first n numbers of s, for all n.
Sums(sum, s) ==
  /\ sum \in [0..Len(s) -> Int]
  /\ sum[0] = 0
  /\ \A n \in 1..Len(s) : sum[n] = sum[n - 1] + s[n]

LEMMA TotalIsSum ==
  ASSUME NEW s \in Seq(Int)
  PROVE  \E sum : Sums(sum, s) /\ Total(s) = sum[Len(s)]
<1> DEFINE Rec(f) == f = [n \in 0..Len(s) |-> IF n = 0 THEN 0 ELSE f[n - 1] + s[n]]
           sum == CHOOSE f : Rec(f)
           F == [n \in 1..Len(s) |-> [x \in Int |-> x + s[n]]]
<1>1. Total(s) = sum[Len(s)]
  BY DEF Total
<1>2. \A n \in 1..Len(s) : s[n] \in Int
  OBVIOUS
<1>3. PICK g \in [0..Len(s) -> Int] : Recursion(g, 0, F, Len(s))
  <2>1. F \in [1..Len(s) -> [Int -> Int]] /\ Len(s) \in Nat /\ 0 \in Int
    BY <1>2
  <2> HIDE DEF F
  <2> QED BY <2>1, RecursionExists
<1>4. Rec(g)
  <2>1. \A n \in 1..Len(s) : g[n - 1] \in Int /\ g[n] = F[n][g[n - 1]]
    <3>1. \A n \in 1..Len(s) : n - 1 \in 0..Len(s)
      OBVIOUS
    <3> HIDE DEF F
    <3> QED BY <1>3, <3>1 DEF Recursion
  <2>2. \A n \in 1..Len(s) : g[n] = g[n - 1] + s[n]
    BY <2>1
  <2>3. \A n \in 0..Len(s) : g[n] = IF n = 0 THEN 0 ELSE g[n - 1] + s[n]
    <3>1. \A n \in 0..Len(s) : n = 0 \/ n \in 1..Len(s)
      OBVIOUS
    <3> QED BY <1>3, <2>2, <3>1 DEF Recursion
  <2> QED BY <2>3
<1>5. Rec(sum)
  <2> HIDE DEF Rec
  <2> QED BY <1>4
<1> HIDE DEF sum
<1>6. \A n \in 0..Len(s) : sum[n] = IF n = 0 THEN 0 ELSE sum[n - 1] + s[n]
  BY <1>5, Zenon
<1>7. sum = [n \in 0..Len(s) |-> sum[n]]
  <2>1. \E body : sum = [n \in 0..Len(s) |-> body[n]]
    BY <1>5
  <2> QED BY <2>1
<1>8. sum[0] = 0 /\ \A n \in 1..Len(s) : sum[n] = sum[n - 1] + s[n]
  BY <1>6
<1>9. \A n \in 0..Len(s) : sum[n] \in Int
  <2> DEFINE Good == {n \in Nat : n <= Len(s) => sum[n] \in Int}
  <2>1. 0 \in Good
    BY <1>8
  <2>2. ASSUME NEW n \in Nat, n \in Good PROVE n + 1 \in Good
    <3>1. SUFFICES ASSUME n + 1 <= Len(s) PROVE sum[n + 1] \in Int
      OBVIOUS
    <3>2. n + 1 \in 1..Len(s) /\ (n + 1) - 1 = n /\ sum[n] \in Int
      BY <2>2, <3>1
    <3> QED BY <1>2, <1>8, <3>2
  <2>3. \A n \in Nat : n \in Good
    <3> HIDE DEF Good
    <3> QED BY <2>1, <2>2, NatSetInduction
  <2> QED BY <2>3
<1>10. Sums(sum, s)
  <2>1. sum \in [0..Len(s) -> Int]
    BY <1>7, <1>9
  <2> QED BY <1>8, <2>1 DEF Sums
<1> QED BY <1>1, <1>10

\* The sum of numbers from lo to hi is from n lo to n hi.
LEMMA TotalBounds ==
  ASSUME NEW s \in Seq(Int), NEW lo \in Int, NEW hi \in Int,
         \A j \in 1..Len(s) : lo <= s[j] /\ s[j] <= hi
  PROVE  Total(s) \in Int /\ Len(s) * lo <= Total(s) /\ Total(s) <= Len(s) * hi
<1>1. PICK sum : Sums(sum, s) /\ Total(s) = sum[Len(s)]
  BY TotalIsSum
<1> DEFINE Good == {n \in Nat : n <= Len(s) =>
                      sum[n] \in Int /\ n * lo <= sum[n] /\ sum[n] <= n * hi}
<1>2. 0 \in Good
  BY <1>1 DEF Sums
<1>3. ASSUME NEW n \in Nat, n \in Good PROVE n + 1 \in Good
  <2>1. SUFFICES ASSUME n + 1 <= Len(s)
                 PROVE  /\ sum[n + 1] \in Int
                        /\ (n + 1) * lo <= sum[n + 1] /\ sum[n + 1] <= (n + 1) * hi
    OBVIOUS
  <2>2. /\ n + 1 \in 1..Len(s) /\ (n + 1) - 1 = n
        /\ sum[n] \in Int /\ n * lo <= sum[n] /\ sum[n] <= n * hi
    BY <1>3, <2>1
  <2>3. sum[n + 1] = sum[n] + s[n + 1] /\ s[n + 1] \in Int
    BY <1>1, <2>2 DEF Sums
  <2>4. (n + 1) * lo = n * lo + lo /\ (n + 1) * hi = n * hi + hi
    OBVIOUS
  <2>5. lo <= s[n + 1] /\ s[n + 1] <= hi
    BY <2>2
  <2>6. n * lo \in Int /\ n * hi \in Int
    OBVIOUS
  <2> QED BY <2>2, <2>3, <2>4, <2>5, <2>6
<1>4. \A n \in Nat : n \in Good
  <2> HIDE DEF Good
  <2> QED BY <1>2, <1>3, NatSetInduction
<1> QED BY <1>1, <1>4

\* The truncated square root of q / n, and its bound.
LEMMA RootExists ==
  ASSUME NEW n \in Nat, n > 0, NEW q \in Nat, NEW d \in Nat, q <= n * (d * d)
  PROVE  /\ \E r \in 0..d : r * r * n <= q /\ (r + 1) * (r + 1) * n > q
         /\ \A r \in Nat : r * r * n <= q => r <= d
<1> DEFINE Root(r) == r * r * n <= q /\ (r + 1) * (r + 1) * n > q
           Good == {m \in Nat : (m + 1) * (m + 1) * n > q => \E r \in 0..m : Root(r)}
<1>1. 0 \in Good
  OBVIOUS
<1>2. ASSUME NEW m \in Nat, m \in Good PROVE m + 1 \in Good
  <2>1. SUFFICES ASSUME ((m + 1) + 1) * ((m + 1) + 1) * n > q
                 PROVE  \E r \in 0..(m + 1) : Root(r)
    OBVIOUS
  <2>2. CASE (m + 1) * (m + 1) * n > q
    <3>1. PICK r \in 0..m : Root(r)
      BY <1>2, <2>2
    <3>2. r \in 0..(m + 1)
      OBVIOUS
    <3> QED BY <3>1, <3>2
  <2>3. CASE ~((m + 1) * (m + 1) * n > q)
    <3>1. (m + 1) * (m + 1) * n \in Nat /\ m + 1 \in 0..(m + 1)
      OBVIOUS
    <3>2. (m + 1) * (m + 1) * n <= q
      BY <2>3, <3>1
    <3> QED BY <2>1, <3>1, <3>2
  <2> QED BY <2>2, <2>3
<1>3. d \in Good
  <2> HIDE DEF Good
  <2> QED BY <1>1, <1>2, NatSetInduction
<1>4. ASSUME NEW r \in Nat, r > d PROVE r * r * n > q
  <2>1. d + 1 <= r
    BY <1>4
  <2>2. (d + 1) * (d + 1) <= r * r
    <3>1. (d + 1) * (d + 1) <= (d + 1) * r /\ (d + 1) * r <= r * r
      BY <2>1
    <3> QED BY <3>1
  <2>3. (d + 1) * (d + 1) * n <= r * r * n
    BY <2>2
  <2>4. (d + 1) * (d + 1) * n = n * (d * d) + (2 * d * n + n)
    OBVIOUS
  <2>5. 2 * d * n + n > 0
    OBVIOUS
  <2>6. n * (d * d) \in Int /\ 2 * d * n + n \in Int /\ r * r * n \in Int
    OBVIOUS
  <2> QED BY <2>3, <2>4, <2>5, <2>6
<1>5. (d + 1) * (d + 1) * n > q
  BY <1>4
<1>6. \A r \in Nat : r * r * n <= q => r <= d
  <2>1. \A r \in Nat : r * r * n \in Nat
    OBVIOUS
  <2> QED BY <1>4, <2>1
<1> QED BY <1>3, <1>5, <1>6

\* The average is between the smallest and the largest sample, and the standard
\* deviation at most their distance.
LEMMA DeviationBounds ==
  ASSUME NEW t \in Seq(Nat), NEW n \in Nat, n = Len(t), n > 0, NEW lo \in Nat,
         NEW hi \in Nat, \A j \in 1..n : lo <= t[j] /\ t[j] <= hi, hi = t[n]
  PROVE  /\ Avg(t) \in Nat /\ lo <= Avg(t) /\ Avg(t) <= hi
         /\ Stddev(t) \in Nat /\ Stddev(t) <= hi - lo
<1> DEFINE mean == Avg(t)
           u == [j \in DOMAIN t |-> (t[j] - mean) * (t[j] - mean)]
           d == hi - lo
<1>1. DOMAIN t = 1..n /\ t \in Seq(Int) /\ \A j \in 1..n : t[j] \in Nat
  OBVIOUS
<1>2. d \in Nat
  OBVIOUS
<1>3. Total(t) \in Int /\ n * lo <= Total(t) /\ Total(t) <= n * hi
  <2>1. /\ lo \in Int /\ hi \in Int /\ Len(t) = n
        /\ \A j \in 1..Len(t) : lo <= t[j] /\ t[j] <= hi
    OBVIOUS
  <2> QED BY <1>1, <2>1, TotalBounds
<1>4. mean \in Int /\ lo <= mean /\ mean <= hi
  <2>1. lo \in Int /\ hi \in Int /\ mean = Total(t) \div n
    BY DEF Avg
  <2> HIDE DEF mean
  <2> QED BY <1>3, <2>1, QuotientBounds
<1>5. Total(t) >= hi
  <2>1. PICK sum : Sums(sum, t) /\ Total(t) = sum[n]
    BY <1>1, TotalIsSum
  <2> DEFINE Good == {k \in Nat : k <= n => sum[k] \in Nat}
  <2>2. 0 \in Good
    BY <2>1 DEF Sums
  <2>3. ASSUME NEW k \in Nat, k \in Good PROVE k + 1 \in Good
    <3>1. SUFFICES ASSUME k + 1 <= n PROVE sum[k + 1] \in Nat
      OBVIOUS
    <3>2. k + 1 \in 1..n /\ (k + 1) - 1 = k /\ sum[k] \in Nat /\ t[k + 1] \in Nat
      BY <1>1, <2>3, <3>1
    <3> QED BY <2>1, <3>2 DEF Sums
  <2>4. n - 1 \in Good
    <3> HIDE DEF Good
    <3>1. n - 1 \in Nat
      OBVIOUS
    <3> QED BY <2>2, <2>3, <3>1, NatSetInduction
  <2>5. sum[n - 1] \in Nat /\ n \in 1..n
    BY <2>4
  <2>6. sum[n] = sum[n - 1] + hi
    BY <2>1, <2>5 DEF Sums
  <2> QED BY <2>1, <2>5, <2>6
<1> HIDE DEF mean
<1>6. u \in Seq(Int) /\ Len(u) = n /\ \A j \in 1..n : 0 <= u[j] /\ u[j] <= d * d
  <2>1. ASSUME NEW j \in 1..n
        PROVE  /\ (t[j] - mean) * (t[j] - mean) \in Int
               /\ 0 <= (t[j] - mean) * (t[j] - mean)
               /\ (t[j] - mean) * (t[j] - mean) <= d * d
    <3> DEFINE x == t[j] - mean
    <3>1. x \in Int /\ 0 - d <= x /\ x <= d
      BY <1>1, <1>4
    <3> HIDE DEF x, d
    <3>2. 0 <= x * x /\ x * x <= d * d /\ x * x \in Int
      <4>1. CASE x >= 0
        <5>1. x * x <= x * d /\ x * d <= d * d /\ 0 <= x * x
          BY <1>2, <3>1, <4>1
        <5>2. x * x \in Int /\ x * d \in Int /\ d * d \in Int
          BY <1>2, <3>1
        <5> QED BY <5>1, <5>2
      <4>2. CASE x < 0
        <5> DEFINE y == 0 - x
        <5>1. y \in Nat /\ y <= d /\ x * x = y * y
          BY <1>2, <3>1, <4>2
        <5> HIDE DEF y
        <5>2. y * y <= y * d /\ y * d <= d * d /\ 0 <= y * y
          BY <1>2, <5>1
        <5>3. y * y \in Int /\ y * d \in Int /\ d * d \in Int
          BY <1>2, <5>1
        <5> QED BY <5>1, <5>2, <5>3
      <4> QED BY <3>1, <4>1, <4>2
    <3> QED BY <3>2 DEF x
  <2> QED BY <1>1, <2>1
<1>7. Total(u) \in Nat /\ Total(u) <= n * (d * d)
  <2>1. d * d \in Int /\ 0 \in Int /\ n * 0 = 0
    BY <1>2
  <2> HIDE DEF u, d
  <2>2. Total(u) \in Int /\ n * 0 <= Total(u) /\ Total(u) <= n * (d * d)
    BY <1>6, <2>1, TotalBounds
  <2> QED BY <2>1, <2>2
<1> DEFINE IsRoot(r) == /\ r * r * n <= Total(u)
                        /\ (r + 1) * (r + 1) * n > Total(u)
<1>8. Stddev(t) = CHOOSE r \in 0..Total(t) : IsRoot(r)
  BY DEF Stddev, mean
<1>9. /\ \E r \in 0..d : IsRoot(r)
      /\ \A r \in Nat : r * r * n <= Total(u) => r <= d
  <2> HIDE DEF u, d
  <2> QED BY <1>2, <1>7, RootExists
<1>10. \E r \in 0..Total(t) : IsRoot(r)
  <2>1. d <= Total(t)
    BY <1>3, <1>5
  <2>2. \A r \in 0..d : r \in 0..Total(t)
    BY <1>2, <1>3, <2>1
  <2> HIDE DEF IsRoot
  <2> QED BY <1>9, <2>2
<1>11. Stddev(t) \in 0..Total(t) /\ IsRoot(Stddev(t))
  <2> HIDE DEF IsRoot
  <2> QED BY <1>8, <1>10
<1>12. Stddev(t) \in Nat /\ Stddev(t) <= d
  <2>1. Stddev(t) \in Nat
    BY <1>3, <1>11
  <2> HIDE DEF u, d
  <2> QED BY <1>9, <1>11, <2>1
<1> QED BY <1>4, <1>12 DEF mean

-----------------------------------------------------------------------------
(* The columns of a row.                                                   *)

\* The median of sorted samples is between the first and any of the upper half.
LEMMA MedianBounds ==
  ASSUME NEW t \in Seq(Nat), NEW n \in Nat, n = Len(t), n > 0,
         \A k, l \in 1..n : k < l => t[k] <= t[l],
         NEW r \in n \div 2 + 1..n
  PROVE  Median(t) \in Nat /\ t[1] <= Median(t) /\ Median(t) <= t[r]
<1> DEFINE h == n \div 2
<1>1. /\ h \in Nat /\ h + 1 \in 1..n /\ r \in 1..n /\ 1 \in 1..n /\ h + 1 <= r
      /\ n % 2 # 1 => h \in 1..n
  OBVIOUS
<1>2. Median(t) = IF n % 2 = 1 THEN t[h + 1] ELSE (t[h] + t[h + 1]) \div 2
  BY DEF Median
<1>3. \A k \in 1..n : t[k] \in Nat
  OBVIOUS
<1> HIDE DEF h
<1>4. \A k, l \in 1..n : k <= l => t[k] <= t[l]
  <2>1. \A k, l \in 1..n : k <= l => k < l \/ k = l
    OBVIOUS
  <2> QED BY <1>3, <2>1
<1>5. t[1] <= t[h + 1] /\ t[h + 1] <= t[r] /\ t[h + 1] \in Nat
      /\ t[1] \in Nat /\ t[r] \in Nat
  BY <1>1, <1>3, <1>4
<1>6. CASE n % 2 = 1
  BY <1>2, <1>5, <1>6
<1>7. CASE n % 2 # 1
  <2>1. t[1] <= t[h] /\ t[h] <= t[h + 1] /\ t[h] \in Nat
    BY <1>1, <1>3, <1>4, <1>7
  <2> DEFINE a == t[h]
             b == t[h + 1]
  <2>2. a \in Nat /\ b \in Nat /\ t[1] <= a /\ a <= b
    BY <1>5, <2>1
  <2>3. Median(t) = (a + b) \div 2
    BY <1>2, <1>7
  <2> HIDE DEF a, b
  <2>4. Median(t) \in Nat /\ t[1] <= Median(t) /\ Median(t) <= b
    BY <1>5, <2>2, <2>3
  <2>5. b <= t[r] /\ t[r] \in Nat
    BY <1>5 DEF b
  <2> QED BY <2>2, <2>4, <2>5
<1> QED BY <1>6, <1>7

\* computeStats returns durations that do not contradict each other.
LEMMA StatsOfSamples ==
  ASSUME NEW s \in Seq(Nat), s # <<>>
  PROVE  /\ ComputeStats(s) \in StatsType
         /\ ComputeStats(s).N = Len(s)
         /\ Consistent(ComputeStats(s))
<1> DEFINE n == Len(s)
           t == Sorted(s)
           stats == ComputeStats(s)
           r == (95 * n + 99) \div 100
<1>1. PICK p : Ascending(p, s, t)
  BY SortedAscends
<1>2. stats = [N |-> Len(t), Min |-> t[1], Median |-> Median(t), Avg |-> Avg(t),
               P95 |-> Percentile(t, 95), Max |-> t[Len(t)], Stddev |-> Stddev(t)]
  BY DEF ComputeStats
<1> HIDE DEF t, stats
<1>3. /\ n \in Nat /\ n > 0 /\ Len(t) = n /\ t \in Seq(Nat)
      /\ \A k \in 1..n : t[k] \in Nat
      /\ \A k, l \in 1..n : k < l => t[k] <= t[l]
  BY <1>1 DEF Ascending
<1>4. r \in n \div 2 + 1..n /\ r \in 1..n /\ n \in 1..n /\ 1 \in 1..n
  BY <1>3
<1>5. Percentile(t, 95) = t[r]
  <2>1. t # <<>> /\ RankRoundedUp(95, Len(t)) = r
    BY <1>3 DEF RankRoundedUp
  <2> HIDE DEF r
  <2> QED BY <1>3, <1>4, <2>1 DEF Percentile
<1> HIDE DEF r, n
<1>6. Median(t) \in Nat /\ t[1] <= Median(t) /\ Median(t) <= t[r]
  BY <1>3, <1>4, MedianBounds
<1>7. \A j \in 1..n : t[1] <= t[j] /\ t[j] <= t[n]
  <2>1. \A j \in 1..n : (1 < j \/ j = 1) /\ (j < n \/ j = n)
    BY <1>3
  <2> QED BY <1>3, <1>4, <2>1
<1>8. /\ Avg(t) \in Nat /\ t[1] <= Avg(t) /\ Avg(t) <= t[n]
      /\ Stddev(t) \in Nat /\ Stddev(t) <= t[n] - t[1]
  BY <1>3, <1>4, <1>7, DeviationBounds
<1>9. t[1] \in Nat /\ t[r] \in Nat /\ t[n] \in Nat
  BY <1>3, <1>4
<1>10. stats \in StatsType /\ stats.N = n
  BY <1>2, <1>3, <1>5, <1>6, <1>8, <1>9 DEF StatsType
<1>11. Consistent(stats)
  <2>1. /\ stats.Min = t[1] /\ stats.Median = Median(t) /\ stats.P95 = t[r]
        /\ stats.Max = t[n] /\ stats.Avg = Avg(t) /\ stats.Stddev = Stddev(t)
    BY <1>2, <1>3, <1>5
  <2>2. t[r] <= t[n]
    BY <1>4, <1>7
  <2>3. t[1] = t[n] => Stddev(t) = 0
    BY <1>8, <1>9
  <2> QED BY <1>6, <1>8, <1>9, <2>1, <2>2, <2>3 DEF Consistent, Score
<1> QED BY <1>10, <1>11 DEF stats, n
=============================================================================
