---------------------------- MODULE TargetsProofs ---------------------------
(***************************************************************************)
(* Targets, proved for lists, options and filters of any length: the plan  *)
(* is the list of the endpoints that are asked for, in order and up to the *)
(* limit, and only DoQ endpoints repeat.                                   *)
(*                                                                         *)
(* Each fold of Targets is first shown to be a recursion along its         *)
(* sequence.  Then every list that the code builds is a Listing: an        *)
(* enumeration, in order, of the elements of a set, which is the set that  *)
(* the reference definitions of MCTargets speak of.  A step that appends   *)
(* an element after all others leaves a Listing, and so the servers list   *)
(* the rows that are kept, the endpoints list pairs of a row and a         *)
(* protocol, and the filter lists those of them that match.                *)
(***************************************************************************)
EXTENDS MCTargets, StatsProofs

-----------------------------------------------------------------------------
(* Folds.                                                                  *)

\* iter is the function by which FoldLeft is defined, over a sequence of N
\* elements and with a step F[n] for the n-th, as long as it stays in T.
Fold(iter, c, F, N, T) ==
  /\ iter[{}] = c
  /\ \A S \in SUBSET (1..N) :
       S # {} /\ iter[S \ {Max(S)}] \in T =>
         iter[S] = F[Max(S)][iter[S \ {Max(S)}]]

LEMMA MaxOfPlaces ==
  ASSUME NEW N \in Nat, NEW S \in SUBSET (1..N), S # {}
  PROVE  Max(S) \in S /\ \A x \in S : x <= Max(S)
<1>1. S \in SUBSET Nat /\ \A x \in S : x <= N
  OBVIOUS
<1> QED BY <1>1, MaxProperties

LEMMA FoldExists ==
  ASSUME NEW T, NEW c \in T, NEW N \in Nat, NEW F \in [1..N -> [T -> T]]
  PROVE  \E iter \in [SUBSET (1..N) -> T] : Fold(iter, c, F, N, T)
<1> DEFINE Has(m) == \E iter \in [SUBSET (1..m) -> T] : Fold(iter, c, F, m, T)
           Good == {m \in Nat : m <= N => Has(m)}
<1>1. Has(0)
  <2> DEFINE D == SUBSET (1..0)
             f == [S \in D |-> c]
  <2>1. D = {{}} /\ \A S \in SUBSET (1..0) : S = {}
    <3>1. 1..0 = {}
      OBVIOUS
    <3> QED BY <3>1
  <2>2. f \in [D -> T] /\ f[{}] = c
    <3> HIDE DEF D
    <3> QED BY <2>1
  <2> HIDE DEF f
  <2>3. Fold(f, c, F, 0, T)
    BY <2>1, <2>2, Zenon DEF Fold
  <2> QED BY <2>2, <2>3
<1>2. ASSUME NEW m \in Nat, m + 1 <= N, Has(m) PROVE Has(m + 1)
  <2>2. PICK f \in [SUBSET (1..m) -> T] : Fold(f, c, F, m, T)
    BY <1>2
  <2> DEFINE M == m + 1
             h == [S \in SUBSET (1..M) |-> IF M \in S THEN F[M][f[S \ {M}]] ELSE f[S]]
  <2>3. ASSUME NEW S \in SUBSET (1..M)
        PROVE  S \ {M} \in SUBSET (1..m) /\ f[S \ {M}] \in T
               /\ (M \notin S => S \in SUBSET (1..m) /\ f[S] \in T)
    <3>1. \A x \in S : x # M => x \in 1..m
      OBVIOUS
    <3>2. S \ {M} \in SUBSET (1..m)
      BY <3>1
    <3>3. M \notin S => S \in SUBSET (1..m)
      BY <3>1
    <3> QED BY <3>2, <3>3
  <2>4. F[M] \in [T -> T] /\ M \in Nat
    BY <1>2
  <2> HIDE DEF M
  <2>5. h \in [SUBSET (1..M) -> T]
    <3>1. \A S \in SUBSET (1..M) : (IF M \in S THEN F[M][f[S \ {M}]] ELSE f[S]) \in T
      BY <2>3, <2>4
    <3> QED BY <3>1
  <2>6. h[{}] = c
    BY <2>2 DEF Fold
  <2>7. ASSUME NEW S \in SUBSET (1..M), S # {}
        PROVE  h[S] = F[Max(S)][h[S \ {Max(S)}]]
    <3> DEFINE n == Max(S)
    <3>1. n \in S /\ \A x \in S : x <= n
      <4>1. Max(S) \in S /\ \A x \in S : x <= Max(S)
        BY <2>4, <2>7, MaxOfPlaces
      <4> QED BY <4>1, Zenon
    <3> HIDE DEF n
    <3>2. n \in Nat /\ n <= M /\ S \ {n} \in SUBSET (1..M)
      BY <2>4, <3>1
    <3>3. CASE M \in S
      <4>1. n = M
        BY <2>4, <3>1, <3>2, <3>3
      <4>2. h[S] = F[M][f[S \ {M}]] /\ h[S \ {M}] = f[S \ {M}]
        BY <3>2, <3>3, <4>1
      <4> QED BY <4>1, <4>2 DEF n
    <3>4. CASE M \notin S
      <4>1. h[S] = f[S] /\ h[S \ {n}] = f[S \ {n}]
        BY <3>2, <3>4
      <4>2. S \in SUBSET (1..m)
        BY <2>3, <3>4
      <4>3. S \ {n} \in SUBSET (1..m)
        BY <4>2
      <4>4. f[S \ {n}] \in T
        BY <4>3
      <4>5. f[S] = F[n][f[S \ {n}]]
        BY <2>2, <2>7, <4>2, <4>4, Zenon DEF Fold, n
      <4> QED BY <4>1, <4>5 DEF n
    <3> QED BY <3>3, <3>4
  <2>8. Fold(h, c, F, M, T)
    <3> HIDE DEF h
    <3> QED BY <2>6, <2>7, Zenon DEF Fold
  <2> HIDE DEF h
  <2> QED BY <2>5, <2>8 DEF M
<1> HIDE DEF Has
<1>3. 0 \in Good
  BY <1>1
<1>4. ASSUME NEW m \in Nat, m \in Good PROVE m + 1 \in Good
  <2>1. m + 1 \in Nat /\ (m + 1 <= N => m <= N)
    OBVIOUS
  <2> QED BY <1>2, <1>4, <2>1
<1>5. N \in Good
  <2> HIDE DEF Good
  <2> QED BY <1>3, <1>4, NatSetInduction
<1>6. Has(N)
  BY <1>5
<1> QED BY <1>6 DEF Has

\* The value of the fold is the last one of a recursion over the sequence.
LEMMA FoldRecursion ==
  ASSUME NEW T, NEW c \in T, NEW N \in Nat, NEW F \in [1..N -> [T -> T]],
         NEW iter, Fold(iter, c, F, N, T)
  PROVE  \E g \in [0..N -> T] : Recursion(g, c, F, N) /\ g[N] = iter[1..N]
<1> DEFINE g == [n \in 0..N |-> iter[1..n]]
           Good == {n \in Nat : n <= N => iter[1..n] \in T}
<1>1. 1..0 = {} /\ iter[{}] = c
  BY DEF Fold
<1>2. ASSUME NEW n \in 1..N, iter[1..(n - 1)] \in T
      PROVE  iter[1..n] = F[n][iter[1..(n - 1)]]
  <2> DEFINE S == 1..n
  <2>1. S \in SUBSET (1..N) /\ n \in S /\ \A x \in S : x <= n
    OBVIOUS
  <2>2. Max(S) = n
    <3> DEFINE k == Max(S)
    <3>1. k \in S /\ n <= k
      <4> HIDE DEF S
      <4> QED BY <2>1, MaxOfPlaces
    <3> HIDE DEF k
    <3> QED BY <3>1 DEF k
  <2>3. S \ {n} = 1..(n - 1)
    OBVIOUS
  <2> HIDE DEF S
  <2>4. iter[S] = F[n][iter[S \ {n}]]
    <3>1. iter[S \ {n}] \in T
      BY <1>2, <2>3, Zenon
    <3>2. S # {}
      BY <2>1
    <3> QED BY <2>1, <2>2, <3>1, <3>2, Zenon DEF Fold
  <2> QED BY <2>3, <2>4 DEF S
<1>3. 0 \in Good
  BY <1>1
<1>4. ASSUME NEW n \in Nat, n \in Good PROVE n + 1 \in Good
  <2>1. SUFFICES ASSUME n + 1 <= N PROVE iter[1..(n + 1)] \in T
    OBVIOUS
  <2>2. n + 1 \in 1..N /\ (n + 1) - 1 = n /\ iter[1..n] \in T
    BY <1>4, <2>1
  <2>3. iter[1..(n + 1)] = F[n + 1][iter[1..n]]
    BY <1>2, <2>2
  <2>4. F[n + 1] \in [T -> T]
    BY <2>2
  <2> QED BY <2>2, <2>3, <2>4
<1>5. \A n \in Nat : n \in Good
  <2> HIDE DEF Good
  <2> QED BY <1>3, <1>4, NatSetInduction
<1>6. \A n \in 0..N : iter[1..n] \in T
  BY <1>5
<1>7. g \in [0..N -> T] /\ g[N] = iter[1..N]
  BY <1>6
<1>8. g[0] = c
  BY <1>1
<1>9. \A n \in 1..N : g[n] = F[n][g[n - 1]]
  <2>1. \A n \in 1..N : /\ n - 1 \in 0..N /\ g[n] = iter[1..n]
                        /\ g[n - 1] = iter[1..(n - 1)]
    OBVIOUS
  <2> HIDE DEF g
  <2> QED BY <1>2, <1>6, <2>1
<1> HIDE DEF g
<1> QED BY <1>7, <1>8, <1>9 DEF Recursion

-----------------------------------------------------------------------------
(* The folds of Targets: if the step of a loop stays in T, a function g    *)
(* follows the loop, and the fold is the last value of g.                  *)

NoRows == [seen |-> {}, servers |-> <<>>]

LoadRowStays(T, rows) ==
  \A n \in DOMAIN rows : \A l \in T : LoadRow(l, rows[n]) \in T
LoadRowSteps(g, rows) ==
  g[0] = NoRows /\ \A n \in DOMAIN rows : g[n] = LoadRow(g[n - 1], rows[n])

LEMMA LoadServersIsRecursive ==
  ASSUME NEW T, NoRows \in T,
         NEW N \in Nat, NEW rows, DOMAIN rows = 1..N,
         LoadRowStays(T, rows)
  PROVE  \E g \in [0..N -> T] :
           LoadRowSteps(g, rows) /\ LoadServers(rows) = g[N].servers
<1> DEFINE c == NoRows
           F == [n \in 1..N |-> [l \in T |-> LoadRow(l, rows[n])]]
           Body(f) == [S \in SUBSET DOMAIN rows |->
                         IF S = {} THEN c
                         ELSE LET x == Max(S) IN LoadRow(f[S \ {x}], rows[x])]
           iter == CHOOSE f : f = Body(f)
<1>1. LoadServers(rows) = iter[DOMAIN rows].servers
  BY Zenon DEF LoadServers, FoldLeft, MapThenFoldSet, NoRows
<1>2. \A S \in SUBSET (1..N) : S # {} =>
        Max(S) \in 1..N /\ S \ {Max(S)} \in SUBSET (1..N)
  BY MaxOfPlaces
<1>3. c \in T
  OBVIOUS
<1>4. F \in [1..N -> [T -> T]]
  BY DEF LoadRowStays
<1>5. \A n \in 1..N : \A l \in T : F[n][l] = LoadRow(l, rows[n])
  OBVIOUS
<1> HIDE DEF c, F
<1>6. PICK f \in [SUBSET (1..N) -> T] : Fold(f, c, F, N, T)
  BY <1>3, <1>4, FoldExists
<1>7. f = Body(f)
  <2> DEFINE h == Body(f)
  <2>1. ASSUME NEW S \in SUBSET (1..N) PROVE f[S] = h[S]
    <3>1. CASE S = {}
      BY <1>6, <3>1 DEF Fold
    <3>2. CASE S # {}
      BY <1>2, <1>4, <1>6, <1>5, <3>2 DEF Fold
    <3> QED BY <3>1, <3>2
  <2> QED BY <2>1
<1>8. iter = Body(iter)
  BY <1>7, Zenon
<1> HIDE DEF iter
<1>9. Fold(iter, c, F, N, T)
  <2>1. iter[{}] = c
    BY <1>8
  <2>2. ASSUME NEW S \in SUBSET (1..N), S # {}, iter[S \ {Max(S)}] \in T
        PROVE  iter[S] = F[Max(S)][iter[S \ {Max(S)}]]
    <3>1. iter[S] = LoadRow(iter[S \ {Max(S)}], rows[Max(S)])
      BY <1>8, <2>2, Zenon
    <3> QED BY <1>2, <1>5, <2>2, <3>1, Zenon
  <2> QED BY <2>1, <2>2, Zenon DEF Fold
<1>10. LoadServers(rows) = iter[1..N].servers
  BY <1>1, Zenon
<1>11. PICK g \in [0..N -> T] : Recursion(g, c, F, N) /\ g[N] = iter[1..N]
  BY <1>3, <1>4, <1>9, FoldRecursion
<1>12. \A n \in 1..N : g[n] = LoadRow(g[n - 1], rows[n])
  <2>1. \A n \in 1..N : g[n - 1] \in T
    OBVIOUS
  <2> QED BY <1>11, <1>5, <2>1, Zenon DEF Recursion
<1> QED BY <1>10, <1>11, <1>12, Zenon DEF c, Recursion, LoadRowSteps

ProtocolsOf(parts) == FoldLeft(AddPart, <<>>, parts)

AddPartStays(T, parts) ==
  \A n \in DOMAIN parts : \A l \in T : AddPart(l, parts[n]) \in T
AddPartSteps(g, parts) ==
  g[0] = <<>> /\ \A n \in DOMAIN parts : g[n] = AddPart(g[n - 1], parts[n])

LEMMA ParseProtocolsIsRecursive ==
  ASSUME NEW T, <<>> \in T,
         NEW N \in Nat, NEW parts, DOMAIN parts = 1..N,
         AddPartStays(T, parts)
  PROVE  \E g \in [0..N -> T] :
           AddPartSteps(g, parts) /\ ProtocolsOf(parts) = g[N]
<1> DEFINE c == <<>>
           F == [n \in 1..N |-> [l \in T |-> AddPart(l, parts[n])]]
           Body(f) == [S \in SUBSET DOMAIN parts |->
                         IF S = {} THEN c
                         ELSE LET x == Max(S) IN AddPart(f[S \ {x}], parts[x])]
           iter == CHOOSE f : f = Body(f)
<1>1. ProtocolsOf(parts) = iter[DOMAIN parts]
  BY Zenon DEF ProtocolsOf, FoldLeft, MapThenFoldSet
<1>2. \A S \in SUBSET (1..N) : S # {} =>
        Max(S) \in 1..N /\ S \ {Max(S)} \in SUBSET (1..N)
  BY MaxOfPlaces
<1>3. c \in T
  OBVIOUS
<1>4. F \in [1..N -> [T -> T]]
  BY DEF AddPartStays
<1>5. \A n \in 1..N : \A l \in T : F[n][l] = AddPart(l, parts[n])
  OBVIOUS
<1> HIDE DEF c, F
<1>6. PICK f \in [SUBSET (1..N) -> T] : Fold(f, c, F, N, T)
  BY <1>3, <1>4, FoldExists
<1>7. f = Body(f)
  <2> DEFINE h == Body(f)
  <2>1. ASSUME NEW S \in SUBSET (1..N) PROVE f[S] = h[S]
    <3>1. CASE S = {}
      BY <1>6, <3>1 DEF Fold
    <3>2. CASE S # {}
      BY <1>2, <1>4, <1>6, <1>5, <3>2 DEF Fold
    <3> QED BY <3>1, <3>2
  <2> QED BY <2>1
<1>8. iter = Body(iter)
  BY <1>7, Zenon
<1> HIDE DEF iter
<1>9. Fold(iter, c, F, N, T)
  <2>1. iter[{}] = c
    BY <1>8
  <2>2. ASSUME NEW S \in SUBSET (1..N), S # {}, iter[S \ {Max(S)}] \in T
        PROVE  iter[S] = F[Max(S)][iter[S \ {Max(S)}]]
    <3>1. iter[S] = AddPart(iter[S \ {Max(S)}], parts[Max(S)])
      BY <1>8, <2>2, Zenon
    <3> QED BY <1>2, <1>5, <2>2, <3>1, Zenon
  <2> QED BY <2>1, <2>2, Zenon DEF Fold
<1>10. ProtocolsOf(parts) = iter[1..N]
  BY <1>1, Zenon
<1>11. PICK g \in [0..N -> T] : Recursion(g, c, F, N) /\ g[N] = iter[1..N]
  BY <1>3, <1>4, <1>9, FoldRecursion
<1>12. \A n \in 1..N : g[n] = AddPart(g[n - 1], parts[n])
  <2>1. \A n \in 1..N : g[n - 1] \in T
    OBVIOUS
  <2> QED BY <1>11, <1>5, <2>1, Zenon DEF Recursion
<1> QED BY <1>10, <1>11, <1>12, Zenon DEF c, Recursion, AddPartSteps

AddTargetStays(T, s, protos) ==
  \A n \in DOMAIN protos : \A l \in T : AddTarget(l, s, protos[n]) \in T
AddTargetSteps(g, ts, s, protos) ==
  g[0] = ts /\ \A n \in DOMAIN protos : g[n] = AddTarget(g[n - 1], s, protos[n])

LEMMA AddServerIsRecursive ==
  ASSUME NEW T, NEW s, NEW ts, ts \in T,
         NEW N \in Nat, NEW protos, DOMAIN protos = 1..N,
         AddTargetStays(T, s, protos)
  PROVE  \E g \in [0..N -> T] :
           AddTargetSteps(g, ts, s, protos) /\ AddServer(ts, s, protos) = g[N]
<1> DEFINE c == ts
           F == [n \in 1..N |-> [l \in T |-> AddTarget(l, s, protos[n])]]
           Body(f) == [S \in SUBSET DOMAIN protos |->
                         IF S = {} THEN c
                         ELSE LET x == Max(S) IN AddTarget(f[S \ {x}], s, protos[x])]
           iter == CHOOSE f : f = Body(f)
<1>1. AddServer(ts, s, protos) = iter[DOMAIN protos]
  BY Zenon DEF AddServer, FoldLeft, MapThenFoldSet
<1>2. \A S \in SUBSET (1..N) : S # {} =>
        Max(S) \in 1..N /\ S \ {Max(S)} \in SUBSET (1..N)
  BY MaxOfPlaces
<1>3. c \in T
  OBVIOUS
<1>4. F \in [1..N -> [T -> T]]
  BY DEF AddTargetStays
<1>5. \A n \in 1..N : \A l \in T : F[n][l] = AddTarget(l, s, protos[n])
  OBVIOUS
<1> HIDE DEF c, F
<1>6. PICK f \in [SUBSET (1..N) -> T] : Fold(f, c, F, N, T)
  BY <1>3, <1>4, FoldExists
<1>7. f = Body(f)
  <2> DEFINE h == Body(f)
  <2>1. ASSUME NEW S \in SUBSET (1..N) PROVE f[S] = h[S]
    <3>1. CASE S = {}
      BY <1>6, <3>1 DEF Fold
    <3>2. CASE S # {}
      BY <1>2, <1>4, <1>6, <1>5, <3>2 DEF Fold
    <3> QED BY <3>1, <3>2
  <2> QED BY <2>1
<1>8. iter = Body(iter)
  BY <1>7, Zenon
<1> HIDE DEF iter
<1>9. Fold(iter, c, F, N, T)
  <2>1. iter[{}] = c
    BY <1>8
  <2>2. ASSUME NEW S \in SUBSET (1..N), S # {}, iter[S \ {Max(S)}] \in T
        PROVE  iter[S] = F[Max(S)][iter[S \ {Max(S)}]]
    <3>1. iter[S] = AddTarget(iter[S \ {Max(S)}], s, protos[Max(S)])
      BY <1>8, <2>2, Zenon
    <3> QED BY <1>2, <1>5, <2>2, <3>1, Zenon
  <2> QED BY <2>1, <2>2, Zenon DEF Fold
<1>10. AddServer(ts, s, protos) = iter[1..N]
  BY <1>1, Zenon
<1>11. PICK g \in [0..N -> T] : Recursion(g, c, F, N) /\ g[N] = iter[1..N]
  BY <1>3, <1>4, <1>9, FoldRecursion
<1>12. \A n \in 1..N : g[n] = AddTarget(g[n - 1], s, protos[n])
  <2>1. \A n \in 1..N : g[n - 1] \in T
    OBVIOUS
  <2> QED BY <1>11, <1>5, <2>1, Zenon DEF Recursion
<1> QED BY <1>10, <1>11, <1>12, Zenon DEF c, Recursion, AddTargetSteps

AddServerStays(T, protos, servers) ==
  \A n \in DOMAIN servers : \A l \in T : AddServer(l, servers[n], protos) \in T
AddServerSteps(g, protos, servers) ==
  g[0] = <<>> /\ \A n \in DOMAIN servers : g[n] = AddServer(g[n - 1], servers[n], protos)

LEMMA BuildTargetsIsRecursive ==
  ASSUME NEW T, NEW protos, <<>> \in T,
         NEW N \in Nat, NEW servers, DOMAIN servers = 1..N,
         AddServerStays(T, protos, servers)
  PROVE  \E g \in [0..N -> T] :
           AddServerSteps(g, protos, servers) /\ BuildTargets(servers, protos) = g[N]
<1> DEFINE c == <<>>
           F == [n \in 1..N |-> [l \in T |-> AddServer(l, servers[n], protos)]]
           Body(f) == [S \in SUBSET DOMAIN servers |->
                         IF S = {} THEN c
                         ELSE LET x == Max(S) IN AddServer(f[S \ {x}], servers[x], protos)]
           iter == CHOOSE f : f = Body(f)
<1>1. BuildTargets(servers, protos) = iter[DOMAIN servers]
  BY Zenon DEF BuildTargets, FoldLeft, MapThenFoldSet
<1>2. \A S \in SUBSET (1..N) : S # {} =>
        Max(S) \in 1..N /\ S \ {Max(S)} \in SUBSET (1..N)
  BY MaxOfPlaces
<1>3. c \in T
  OBVIOUS
<1>4. F \in [1..N -> [T -> T]]
  BY DEF AddServerStays
<1>5. \A n \in 1..N : \A l \in T : F[n][l] = AddServer(l, servers[n], protos)
  OBVIOUS
<1> HIDE DEF c, F
<1>6. PICK f \in [SUBSET (1..N) -> T] : Fold(f, c, F, N, T)
  BY <1>3, <1>4, FoldExists
<1>7. f = Body(f)
  <2> DEFINE h == Body(f)
  <2>1. ASSUME NEW S \in SUBSET (1..N) PROVE f[S] = h[S]
    <3>1. CASE S = {}
      BY <1>6, <3>1 DEF Fold
    <3>2. CASE S # {}
      BY <1>2, <1>4, <1>6, <1>5, <3>2 DEF Fold
    <3> QED BY <3>1, <3>2
  <2> QED BY <2>1
<1>8. iter = Body(iter)
  BY <1>7, Zenon
<1> HIDE DEF iter
<1>9. Fold(iter, c, F, N, T)
  <2>1. iter[{}] = c
    BY <1>8
  <2>2. ASSUME NEW S \in SUBSET (1..N), S # {}, iter[S \ {Max(S)}] \in T
        PROVE  iter[S] = F[Max(S)][iter[S \ {Max(S)}]]
    <3>1. iter[S] = AddServer(iter[S \ {Max(S)}], servers[Max(S)], protos)
      BY <1>8, <2>2, Zenon
    <3> QED BY <1>2, <1>5, <2>2, <3>1, Zenon
  <2> QED BY <2>1, <2>2, Zenon DEF Fold
<1>10. BuildTargets(servers, protos) = iter[1..N]
  BY <1>1, Zenon
<1>11. PICK g \in [0..N -> T] : Recursion(g, c, F, N) /\ g[N] = iter[1..N]
  BY <1>3, <1>4, <1>9, FoldRecursion
<1>12. \A n \in 1..N : g[n] = AddServer(g[n - 1], servers[n], protos)
  <2>1. \A n \in 1..N : g[n - 1] \in T
    OBVIOUS
  <2> QED BY <1>11, <1>5, <2>1, Zenon DEF Recursion
<1> QED BY <1>10, <1>11, <1>12, Zenon DEF c, Recursion, AddServerSteps

\* The step of filterTargets.
AddMatch(out, t, re) == IF Matches(t, re) THEN Append(out, t) ELSE out

AddMatchStays(T, re, targets) ==
  \A n \in DOMAIN targets : \A l \in T : AddMatch(l, targets[n], re) \in T
AddMatchSteps(g, re, targets) ==
  g[0] = <<>> /\ \A n \in DOMAIN targets : g[n] = AddMatch(g[n - 1], targets[n], re)

LEMMA FilterTargetsIsRecursive ==
  ASSUME NEW T, NEW re, <<>> \in T,
         NEW N \in Nat, NEW targets, DOMAIN targets = 1..N,
         AddMatchStays(T, re, targets)
  PROVE  \E g \in [0..N -> T] :
           AddMatchSteps(g, re, targets) /\ FilterTargets(targets, re) = g[N]
<1> DEFINE c == <<>>
           F == [n \in 1..N |-> [l \in T |-> AddMatch(l, targets[n], re)]]
           Body(f) == [S \in SUBSET DOMAIN targets |->
                         IF S = {} THEN c
                         ELSE LET x == Max(S) IN AddMatch(f[S \ {x}], targets[x], re)]
           iter == CHOOSE f : f = Body(f)
<1>1. FilterTargets(targets, re) = iter[DOMAIN targets]
  BY Zenon DEF FilterTargets, AddMatch, FoldLeft, MapThenFoldSet
<1>2. \A S \in SUBSET (1..N) : S # {} =>
        Max(S) \in 1..N /\ S \ {Max(S)} \in SUBSET (1..N)
  BY MaxOfPlaces
<1>3. c \in T
  OBVIOUS
<1>4. F \in [1..N -> [T -> T]]
  BY DEF AddMatchStays
<1>5. \A n \in 1..N : \A l \in T : F[n][l] = AddMatch(l, targets[n], re)
  OBVIOUS
<1> HIDE DEF c, F
<1>6. PICK f \in [SUBSET (1..N) -> T] : Fold(f, c, F, N, T)
  BY <1>3, <1>4, FoldExists
<1>7. f = Body(f)
  <2> DEFINE h == Body(f)
  <2>1. ASSUME NEW S \in SUBSET (1..N) PROVE f[S] = h[S]
    <3>1. CASE S = {}
      BY <1>6, <3>1 DEF Fold
    <3>2. CASE S # {}
      BY <1>2, <1>4, <1>6, <1>5, <3>2 DEF Fold
    <3> QED BY <3>1, <3>2
  <2> QED BY <2>1
<1>8. iter = Body(iter)
  BY <1>7, Zenon
<1> HIDE DEF iter
<1>9. Fold(iter, c, F, N, T)
  <2>1. iter[{}] = c
    BY <1>8
  <2>2. ASSUME NEW S \in SUBSET (1..N), S # {}, iter[S \ {Max(S)}] \in T
        PROVE  iter[S] = F[Max(S)][iter[S \ {Max(S)}]]
    <3>1. iter[S] = AddMatch(iter[S \ {Max(S)}], targets[Max(S)], re)
      BY <1>8, <2>2, Zenon
    <3> QED BY <1>2, <1>5, <2>2, <3>1, Zenon
  <2> QED BY <2>1, <2>2, Zenon DEF Fold
<1>10. FilterTargets(targets, re) = iter[1..N]
  BY <1>1, Zenon
<1>11. PICK g \in [0..N -> T] : Recursion(g, c, F, N) /\ g[N] = iter[1..N]
  BY <1>3, <1>4, <1>9, FoldRecursion
<1>12. \A n \in 1..N : g[n] = AddMatch(g[n - 1], targets[n], re)
  <2>1. \A n \in 1..N : g[n - 1] \in T
    OBVIOUS
  <2> QED BY <1>11, <1>5, <2>1, Zenon DEF Recursion
<1> QED BY <1>10, <1>11, <1>12, Zenon DEF c, Recursion, AddMatchSteps

-----------------------------------------------------------------------------
(* Lists of the elements of a set.                                         *)

\* t lists V[x] for the elements x of A, in the order R; e[k] is the element
\* at its k-th place.
Enumerates(t, e, A, V, R) ==
  /\ A \subseteq DOMAIN V
  /\ t \in Seq({V[x] : x \in DOMAIN V})
  /\ e \in [1..Len(t) -> A]
  /\ \A x \in A : \E k \in 1..Len(t) : e[k] = x
  /\ \A k \in 1..Len(t) : t[k] = V[e[k]]
  /\ \A k, l \in 1..Len(t) : k < l => <<e[k], e[l]>> \in R

Listing(t, A, V, R) == \E e : Enumerates(t, e, A, V, R)

LEMMA EmptyListing ==
  ASSUME NEW V, NEW R
  PROVE  Listing(<<>>, {}, V, R)
<1> DEFINE e == [k \in 1..0 |-> 0]
           T == {V[x] : x \in DOMAIN V}
<1>1. <<>> \in Seq(T) /\ Len(<<>>) = 0 /\ 1..0 = {}
  OBVIOUS
<1>2. e \in [1..0 -> {}]
  BY <1>1
<1> HIDE DEF e, T
<1>3. Enumerates(<<>>, e, {}, V, R)
  BY <1>1, <1>2 DEF Enumerates, T
<1> QED BY <1>3 DEF Listing

\* x comes after the elements of A.
After(x, A, R) == \A y \in A : <<y, x>> \in R

LEMMA LongerListing ==
  ASSUME NEW V, NEW R, NEW A, NEW t, Listing(t, A, V, R),
         NEW x \in DOMAIN V, After(x, A, R)
  PROVE  Listing(Append(t, V[x]), A \cup {x}, V, R)
<1> DEFINE T == {V[y] : y \in DOMAIN V}
           N == Len(t)
           u == Append(t, V[x])
           B == A \cup {x}
<1>1. PICK e : Enumerates(t, e, A, V, R)
  BY DEF Listing
<1>2. /\ A \subseteq DOMAIN V
      /\ t \in Seq(T)
      /\ e \in [1..N -> A]
      /\ \A y \in A : \E k \in 1..N : e[k] = y
      /\ \A k \in 1..N : t[k] = V[e[k]]
      /\ \A k, l \in 1..N : k < l => <<e[k], e[l]>> \in R
  BY <1>1, Zenon DEF Enumerates
<1>3. V[x] \in T
  OBVIOUS
<1> HIDE DEF T
<1> DEFINE v == V[x]
<1> HIDE DEF v
<1>4. /\ u \in Seq(T) /\ Len(u) = N + 1 /\ N \in Nat
      /\ u[N + 1] = v /\ \A k \in 1..N : u[k] = t[k]
  BY <1>2, <1>3 DEF v
<1> HIDE DEF N, u
<1> DEFINE M == N + 1
           h == [k \in 1..M |-> IF k = M THEN x ELSE e[k]]
<1>5. M \in Nat /\ M \in 1..M /\ \A k \in 1..M : k = M \/ (k # M /\ k \in 1..N)
  BY <1>4
<1>6. \A k \in 1..N : k \in 1..M /\ k # M
  BY <1>4
<1>7. \A k, l \in 1..M : k < l => k \in 1..N
  BY <1>4
<1> HIDE DEF M
<1>8. h[M] = x /\ \A k \in 1..N : h[k] = e[k] /\ e[k] \in A
  BY <1>2, <1>5, <1>6
<1>9. h \in [1..M -> B]
  BY <1>2, <1>5
<1> HIDE DEF h
<1>10. \A y \in B : \E k \in 1..M : h[k] = y
  BY <1>2, <1>5, <1>6, <1>8
<1>11. \A k \in 1..M : u[k] = V[h[k]]
  BY <1>2, <1>4, <1>5, <1>8 DEF M, v
<1>12. ASSUME NEW k \in 1..M, NEW l \in 1..M, k < l
       PROVE  <<h[k], h[l]>> \in R
  <2>1. k \in 1..N /\ h[k] = e[k] /\ e[k] \in A
    BY <1>7, <1>8, <1>12
  <2>2. CASE l = M
    BY <1>8, <2>1, <2>2 DEF After
  <2>3. CASE l \in 1..N
    BY <1>2, <1>8, <1>12, <2>1, <2>3
  <2> QED BY <1>5, <2>2, <2>3
<1>13. B \subseteq DOMAIN V
  BY <1>2
<1> HIDE DEF B
<1>14. Enumerates(u, h, B, V, R)
  <2>1. Len(u) = M
    BY <1>4 DEF M
  <2> QED BY <1>4, <1>9, <1>10, <1>11, <1>12, <1>13, <2>1, Zenon DEF Enumerates, T
<1>15. Listing(u, B, V, R)
  BY <1>14 DEF Listing
<1> QED BY <1>15 DEF u, B, v

\* A list g[k] that grows, for k up to M, by x[k] or not at all.
Grows(g, a, x, M, V, R) ==
  \A k \in 1..M :
    \/ /\ x[k] \in DOMAIN V /\ After(x[k], a[k - 1], R)
       /\ g[k] = Append(g[k - 1], V[x[k]])
       /\ a[k] = a[k - 1] \cup {x[k]}
    \/ g[k] = g[k - 1] /\ a[k] = a[k - 1]

LEMMA ListingGrows ==
  ASSUME NEW V, NEW R, NEW M \in Nat, NEW g, NEW a, NEW x,
         Listing(g[0], a[0], V, R), Grows(g, a, x, M, V, R)
  PROVE  Listing(g[M], a[M], V, R)
<1> DEFINE Good == {k \in Nat : k <= M => Listing(g[k], a[k], V, R)}
<1>1. 0 \in Good
  OBVIOUS
<1>2. ASSUME NEW k \in Nat, k \in Good PROVE k + 1 \in Good
  <2>1. SUFFICES ASSUME k + 1 <= M PROVE Listing(g[k + 1], a[k + 1], V, R)
    OBVIOUS
  <2>2. Listing(g[k], a[k], V, R) /\ k + 1 \in 1..M /\ (k + 1) - 1 = k
    BY <1>2, <2>1
  <2>3. \/ /\ x[k + 1] \in DOMAIN V /\ After(x[k + 1], a[k], R)
           /\ g[k + 1] = Append(g[k], V[x[k + 1]])
           /\ a[k + 1] = a[k] \cup {x[k + 1]}
        \/ g[k + 1] = g[k] /\ a[k + 1] = a[k]
    BY <2>2 DEF Grows
  <2>4. CASE /\ x[k + 1] \in DOMAIN V /\ After(x[k + 1], a[k], R)
             /\ g[k + 1] = Append(g[k], V[x[k + 1]])
             /\ a[k + 1] = a[k] \cup {x[k + 1]}
    <3>1. Listing(Append(g[k], V[x[k + 1]]), a[k] \cup {x[k + 1]}, V, R)
      BY <2>2, <2>4, LongerListing
    <3> QED BY <2>4, <3>1, Zenon
  <2>5. CASE g[k + 1] = g[k] /\ a[k + 1] = a[k]
    BY <2>2, <2>5, Zenon
  <2> QED BY <2>3, <2>4, <2>5
<1>3. M \in Good
  <2> HIDE DEF Good
  <2> QED BY <1>1, <1>2, NatSetInduction
<1> QED BY <1>3

-----------------------------------------------------------------------------
(* The servers: one for each row that is kept, in the order of the rows.   *)

URLs(H, P) == [host : H, path : P, capitals : BOOLEAN]

\* A row that is used has a URL.
HaveURLs(rows, H, P) ==
  \A n \in DOMAIN rows :
    rows[n].comment \in BOOLEAN /\ (Usable(rows[n]) => rows[n].url \in URLs(H, P))

\* The keys of two URLs are equal when only capitals tell them apart.
LEMMA SameKey ==
  ASSUME NEW H, NEW P, NEW u \in URLs(H, P), NEW v \in URLs(H, P)
  PROVE  Key(u) = Key(v) <=> SameURL(u, v)
<1>1. ASSUME NEW w \in URLs(H, P)
      PROVE  /\ Key(w) \in URLs(H, P)
             /\ Key(w).host = w.host /\ Key(w).path = w.path /\ Key(w).capitals = FALSE
  BY DEF Key, URLs
<1>2. ASSUME NEW w \in URLs(H, P), NEW z \in URLs(H, P),
             w.host = z.host, w.path = z.path, w.capitals = z.capitals
      PROVE  w = z
  BY <1>2 DEF URLs
<1>3. Key(u) = Key(v) => SameURL(u, v)
  BY <1>1 DEF SameURL
<1>4. SameURL(u, v) => Key(u) = Key(v)
  BY <1>1, <1>2 DEF SameURL
<1> QED BY <1>3, <1>4

Ahead(N) == {p \in (1..N) \X (1..N) : p[1] < p[2]}
ServerOf(rows) == [n \in DOMAIN rows |-> Server(rows[n])]

\* The keys of the first k rows.
Seen(rows, k) == {Key(rows[m].url) : m \in {j \in 1..k : Usable(rows[j])}}

\* What LoadRow does to the list of the first rows.
LEMMA LoadRowKeepsFirst ==
  ASSUME NEW N \in Nat, NEW rows, DOMAIN rows = 1..N,
         NEW H, NEW P, HaveURLs(rows, H, P),
         NEW k \in 1..N, NEW list,
         list.seen = Seen(rows, k - 1)
  PROVE  /\ LoadRow(list, rows[k]).seen = Seen(rows, k)
         /\ k \in Kept(rows) =>
              LoadRow(list, rows[k]).servers = Append(list.servers, Server(rows[k]))
         /\ k \notin Kept(rows) => LoadRow(list, rows[k]).servers = list.servers
<1> DEFINE used(n) == {j \in 1..n : Usable(rows[j])}
           row == rows[k]
<1>1. 1..k = (1..(k - 1)) \cup {k}
  OBVIOUS
<1>2. Usable(row) <=> ~(IsComment(row) \/ row.url = NoURL)
  BY DEF Usable, IsComment, HaveURLs
<1>3. k \in Kept(rows) <=> /\ Usable(row)
                           /\ \A m \in used(k - 1) : ~SameURL(rows[m].url, row.url)
  BY DEF Kept
<1>4. CASE ~Usable(row)
  <2>1. used(k) = used(k - 1)
    BY <1>1, <1>4
  <2>2. LoadRow(list, row) = list
    BY <1>2, <1>4 DEF LoadRow
  <2> QED BY <1>3, <1>4, <2>1, <2>2 DEF Seen
<1>5. CASE Usable(row)
  <2>1. \A m \in used(k - 1) :
          Key(rows[m].url) = Key(row.url) <=> SameURL(rows[m].url, row.url)
    <3>1. \A m \in used(k - 1) : rows[m].url \in URLs(H, P)
      BY DEF HaveURLs
    <3>2. row.url \in URLs(H, P)
      BY <1>5 DEF HaveURLs
    <3> QED BY <3>1, <3>2, SameKey
  <2>2. k \in Kept(rows) <=> Key(row.url) \notin list.seen
    BY <1>3, <1>5, <2>1 DEF Seen
  <2>3. Seen(rows, k) = list.seen \cup {Key(row.url)}
    BY <1>1, <1>5 DEF Seen
  <2>4. CASE Key(row.url) \in list.seen
    <3>1. LoadRow(list, row) = list
      BY <1>2, <1>5, <2>4 DEF LoadRow
    <3>2. list.seen \cup {Key(row.url)} = list.seen
      BY <2>4
    <3> QED BY <2>2, <2>3, <2>4, <3>1, <3>2, Zenon
  <2>5. CASE Key(row.url) \notin list.seen
    <3>1. LoadRow(list, row)
            = [seen    |-> list.seen \cup {Key(row.url)},
               servers |-> Append(list.servers, Server(row))]
      BY <1>2, <1>5, <2>5 DEF LoadRow
    <3>2. /\ LoadRow(list, row).seen = list.seen \cup {Key(row.url)}
          /\ LoadRow(list, row).servers = Append(list.servers, Server(row))
      BY <3>1
    <3> QED BY <2>2, <2>3, <2>5, <3>2, Zenon
  <2> QED BY <2>4, <2>5
<1> QED BY <1>4, <1>5

LEMMA LoadServersListsKept ==
  ASSUME NEW N \in Nat, NEW rows, DOMAIN rows = 1..N,
         NEW H, NEW P, HaveURLs(rows, H, P)
  PROVE  Listing(LoadServers(rows), Kept(rows), ServerOf(rows), Ahead(N))
<1> DEFINE V == ServerOf(rows)
           R == Ahead(N)
           S == {Server(rows[n]) : n \in 1..N}
           K == {Key(rows[n].url) : n \in 1..N}
           T == [seen : SUBSET K, servers : Seq(S)]
           a == [k \in 0..N |-> {m \in Kept(rows) : m <= k}]
           id == [k \in 1..N |-> k]
<1>1. NoRows \in T
  BY DEF NoRows
<1>2. \A n \in 1..N : \A l \in T : LoadRow(l, rows[n]) \in T
  <2>1. ASSUME NEW n \in 1..N, NEW l \in T PROVE LoadRow(l, rows[n]) \in T
    <3>1. Key(rows[n].url) \in K /\ Server(rows[n]) \in S
      OBVIOUS
    <3> HIDE DEF K, S
    <3>2. l.seen \cup {Key(rows[n].url)} \in SUBSET K
      BY <3>1
    <3>3. Append(l.servers, Server(rows[n])) \in Seq(S)
      BY <3>1
    <3> QED BY <3>2, <3>3 DEF LoadRow
  <2> HIDE DEF T
  <2> QED BY <2>1
<1> HIDE DEF T
<1>3. LoadRowStays(T, rows)
  BY <1>2 DEF LoadRowStays
<1>4. PICK g \in [0..N -> T] :
        LoadRowSteps(g, rows) /\ LoadServers(rows) = g[N].servers
  BY <1>1, <1>3, LoadServersIsRecursive
<1>5. g[0].seen = {} /\ g[0].servers = <<>>
  BY <1>4 DEF NoRows, LoadRowSteps
<1>6. \A k \in 1..N : g[k] = LoadRow(g[k - 1], rows[k])
  BY <1>4 DEF LoadRowSteps
<1>7. \A k \in 0..N : g[k].seen = Seen(rows, k)
  <2> DEFINE Good == {k \in Nat : k <= N => g[k].seen = Seen(rows, k)}
  <2>1. 0 \in Good
    <3>1. Seen(rows, 0) = {}
      BY DEF Seen
    <3> QED BY <1>5, <3>1
  <2>2. ASSUME NEW k \in Nat, k \in Good PROVE k + 1 \in Good
    <3>1. SUFFICES ASSUME k + 1 <= N PROVE g[k + 1].seen = Seen(rows, k + 1)
      OBVIOUS
    <3>2. k + 1 \in 1..N /\ (k + 1) - 1 = k /\ g[k].seen = Seen(rows, k)
      BY <2>2, <3>1
    <3> HIDE DEF Good
    <3>3. LoadRow(g[k], rows[k + 1]).seen = Seen(rows, k + 1)
      BY <3>2, LoadRowKeepsFirst
    <3> QED BY <1>6, <3>2, <3>3
  <2>3. \A k \in Nat : k \in Good
    <3> HIDE DEF Good
    <3> QED BY <2>1, <2>2, NatSetInduction
  <2> QED BY <2>3
<1>8. ASSUME NEW k \in 1..N
      PROVE  /\ k \in Kept(rows) => g[k].servers = Append(g[k - 1].servers, Server(rows[k]))
             /\ k \notin Kept(rows) => g[k].servers = g[k - 1].servers
  <2>1. k - 1 \in 0..N
    OBVIOUS
  <2>2. g[k - 1].seen = Seen(rows, k - 1) /\ g[k] = LoadRow(g[k - 1], rows[k])
    BY <1>6, <1>7, <2>1
  <2> QED BY <2>2, LoadRowKeepsFirst
<1> DEFINE list == [k \in 0..N |-> g[k].servers]
<1>9. Kept(rows) \in SUBSET (1..N)
  BY DEF Kept
<1>10. Grows(list, a, id, N, V, R)
  <2>1. SUFFICES ASSUME NEW k \in 1..N
                 PROVE  \/ /\ id[k] \in DOMAIN V /\ After(id[k], a[k - 1], R)
                           /\ list[k] = Append(list[k - 1], V[id[k]])
                           /\ a[k] = a[k - 1] \cup {id[k]}
                        \/ list[k] = list[k - 1] /\ a[k] = a[k - 1]
    BY Zenon DEF Grows
  <2>2. /\ id[k] = k /\ k \in DOMAIN V /\ V[k] = Server(rows[k])
        /\ list[k] = g[k].servers /\ list[k - 1] = g[k - 1].servers
    BY DEF ServerOf
  <2>3. /\ a[k] = {m \in Kept(rows) : m <= k}
        /\ a[k - 1] = {m \in Kept(rows) : m <= k - 1}
    OBVIOUS
  <2> HIDE DEF V, list, a, id
  <2>4. CASE k \in Kept(rows)
    <3>1. a[k] = a[k - 1] \cup {k}
      BY <1>9, <2>3, <2>4
    <3>2. After(k, a[k - 1], R)
      BY <1>9, <2>3 DEF After, Ahead
    <3> QED BY <1>8, <2>2, <2>4, <3>1, <3>2
  <2>5. CASE k \notin Kept(rows)
    <3>1. a[k] = a[k - 1]
      BY <1>9, <2>3, <2>5
    <3> QED BY <1>8, <2>2, <2>5, <3>1
  <2> QED BY <2>4, <2>5
<1>11. list[0] = <<>> /\ list[N] = LoadServers(rows)
  BY <1>4, <1>5
<1>12. a[0] = {} /\ a[N] = Kept(rows)
  BY <1>9
<1> HIDE DEF list, a, id, V, R
<1>13. Listing(list[0], a[0], V, R)
  BY <1>11, <1>12, EmptyListing
<1>14. Listing(list[N], a[N], V, R)
  BY <1>10, <1>13, ListingGrows
<1> QED BY <1>11, <1>12, <1>14 DEF V, R

-----------------------------------------------------------------------------
(* The protocols.                                                          *)

Protocols == {p \in Seq({"DoH", "DoQ"}) : \A j, k \in DOMAIN p : p[j] = p[k] => j = k}

LEMMA AddAddsOnce ==
  ASSUME NEW out \in Protocols, NEW p \in {"DoH", "DoQ"}
  PROVE  Add(out, p) \in Protocols
<1> DEFINE T == {"DoH", "DoQ"}
<1>1. out \in Seq(T) /\ \A j, k \in DOMAIN out : out[j] = out[k] => j = k
  BY DEF Protocols
<1>2. CASE p \in Range(out)
  BY <1>2 DEF Add
<1>3. CASE p \notin Range(out)
  <2> DEFINE u == Append(out, p)
             N == Len(out)
  <2>1. /\ u \in Seq(T) /\ N \in Nat /\ DOMAIN u = 1..(N + 1) /\ DOMAIN out = 1..N
        /\ u[N + 1] = p /\ \A k \in 1..N : u[k] = out[k]
    BY <1>1
  <2>2. \A k \in 1..N : out[k] # p
    BY <1>3, <2>1 DEF Range
  <2> HIDE DEF u, N
  <2>3. \A k \in 1..(N + 1) : k \in 1..N \/ k = N + 1
    BY <2>1
  <2>4. \A j, k \in DOMAIN u : u[j] = u[k] => j = k
    BY <1>1, <2>1, <2>2, <2>3
  <2>5. u \in Protocols
    BY <2>1, <2>4 DEF Protocols
  <2> QED BY <1>3, <2>5 DEF Add, u
<1> QED BY <1>2, <1>3

LEMMA ParseProtocolsAddsOnce ==
  ASSUME NEW N \in Nat, NEW parts, DOMAIN parts = 1..N
  PROVE  ParseProtocols(parts) \in Protocols
<1> DEFINE T == Protocols
<1>1. <<>> \in T
  BY DEF Protocols
<1>2. N \in 0..N
  OBVIOUS
<1>3. ASSUME NEW n \in 1..N, NEW l \in T PROVE AddPart(l, parts[n]) \in T
  <2>1. Add(l, "DoH") \in T /\ Add(l, "DoQ") \in T
    BY AddAddsOnce
  <2>2. Add(Add(l, "DoH"), "DoQ") \in T
    BY <2>1, AddAddsOnce
  <2> HIDE DEF T
  <2> QED BY <2>1, <2>2 DEF AddPart
<1> HIDE DEF T
<1>4. AddPartStays(T, parts)
  BY <1>2, <1>3 DEF AddPartStays
<1>5. ProtocolsOf(parts) \in T
  <2>1. PICK g \in [0..N -> T] : ProtocolsOf(parts) = g[N]
    BY <1>1, <1>2, <1>4, ParseProtocolsIsRecursive
  <2>2. g[N] \in T
    BY <1>2
  <2> QED BY <2>1, <2>2, Zenon
<1> QED BY <1>1, <1>5, Zenon DEF ParseProtocols, ProtocolsOf, T

-----------------------------------------------------------------------------
(* The endpoints: one for each pair of a row that is kept and a place of   *)
(* the protocols, if the row has one, in the order of these pairs.         *)

EndpointOf(rows, protos) ==
  [d \in (DOMAIN rows) \X (DOMAIN protos) |->
     LET s == Server(rows[d[1]])
         proto == protos[d[2]]
     IN  Target(s, proto, IF proto = "DoH" THEN s.url ELSE DoQURL(s))]

LEMMA EndpointOfPair ==
  ASSUME NEW rows, NEW protos
  PROVE  /\ DOMAIN EndpointOf(rows, protos) = (DOMAIN rows) \X (DOMAIN protos)
         /\ \A n \in DOMAIN rows, k \in DOMAIN protos :
              EndpointOf(rows, protos)[<<n, k>>]
                = Target(Server(rows[n]), protos[k],
                         IF protos[k] = "DoH" THEN Server(rows[n]).url
                                              ELSE DoQURL(Server(rows[n])))
<1>1. DOMAIN EndpointOf(rows, protos) = (DOMAIN rows) \X (DOMAIN protos)
  BY Zenon DEF EndpointOf
<1>2. ASSUME NEW n \in DOMAIN rows, NEW k \in DOMAIN protos
      PROVE  EndpointOf(rows, protos)[<<n, k>>]
               = Target(Server(rows[n]), protos[k],
                        IF protos[k] = "DoH" THEN Server(rows[n]).url
                                             ELSE DoQURL(Server(rows[n])))
  <2>1. <<n, k>>[1] = n /\ <<n, k>>[2] = k /\ <<n, k>> \in (DOMAIN rows) \X (DOMAIN protos)
    OBVIOUS
  <2> QED BY <2>1, Zenon DEF EndpointOf
<1> QED BY <1>1, <1>2

PairsAhead(N, M) ==
  {q \in ((1..N) \X (1..M)) \X ((1..N) \X (1..M)) : Earlier(q[1], q[2])}

\* The endpoints of the row n.
EndpointsOf(rows, protos, n) ==
  {d \in {n} \X DOMAIN protos : HasEndpoint(Server(rows[n]), protos[d[2]])}

LEMMA AddServerListsEndpoints ==
  ASSUME NEW N \in Nat, NEW rows, DOMAIN rows = 1..N,
         NEW M \in Nat, NEW protos, DOMAIN protos = 1..M,
         NEW n \in 1..N, NEW ts, NEW A, \A d \in A : d[1] < n,
         Listing(ts, A, EndpointOf(rows, protos), PairsAhead(N, M))
  PROVE  Listing(AddServer(ts, Server(rows[n]), protos),
                 A \cup EndpointsOf(rows, protos, n),
                 EndpointOf(rows, protos), PairsAhead(N, M))
<1> DEFINE V == EndpointOf(rows, protos)
           R == PairsAhead(N, M)
           s == Server(rows[n])
           T == Seq({V[x] : x \in DOMAIN V})
           x == [k \in 1..M |-> <<n, k>>]
           a == [k \in 0..M |-> A \cup {d \in EndpointsOf(rows, protos, n) : d[2] <= k}]
<1>1. ASSUME NEW k \in 1..M
      PROVE  /\ x[k] = <<n, k>> /\ x[k] \in DOMAIN V
             /\ V[x[k]] = Target(s, protos[k],
                                 IF protos[k] = "DoH" THEN s.url ELSE DoQURL(s))
  <2>1. n \in DOMAIN rows /\ k \in DOMAIN protos /\ x[k] = <<n, k>>
    OBVIOUS
  <2> HIDE DEF V, x
  <2>2. <<n, k>> \in (DOMAIN rows) \X (DOMAIN protos)
    BY <2>1
  <2>3. x[k] \in DOMAIN V
    BY <2>1, <2>2, EndpointOfPair, Zenon DEF V
  <2>4. V[<<n, k>>] = Target(s, protos[k],
                            IF protos[k] = "DoH" THEN s.url ELSE DoQURL(s))
    BY <2>1, EndpointOfPair, Zenon DEF V
  <2> QED BY <2>1, <2>3, <2>4, Zenon
<1>2. ts \in T /\ A \subseteq DOMAIN V
  BY DEF Listing, Enumerates
<1>3. DOMAIN V = (1..N) \X (1..M)
  <2>1. DOMAIN V = (DOMAIN rows) \X (DOMAIN protos)
    BY EndpointOfPair
  <2> HIDE DEF V
  <2> QED BY <2>1
<1> HIDE DEF V
<1>4. ASSUME NEW k \in 1..M
      PROVE  \A l : AddTarget(l, s, protos[k])
                    = IF HasEndpoint(s, protos[k]) THEN Append(l, V[x[k]]) ELSE l
  BY <1>1 DEF AddTarget
<1>5. \A k \in 1..M : \A l \in T : AddTarget(l, s, protos[k]) \in T
  <2> DEFINE S == {V[y] : y \in DOMAIN V}
  <2>1. \A k \in 1..M : V[x[k]] \in S
    BY <1>1
  <2> HIDE DEF S, x
  <2>2. \A k \in 1..M : \A l \in Seq(S) : Append(l, V[x[k]]) \in Seq(S)
    BY <2>1
  <2> QED BY <1>4, <2>2, Zenon DEF S
<1> HIDE DEF T, s, x
<1>6. AddTargetStays(T, s, protos)
  BY <1>5 DEF AddTargetStays
<1>7. PICK g \in [0..M -> T] :
        AddTargetSteps(g, ts, s, protos) /\ AddServer(ts, s, protos) = g[M]
  <2>1. ts \in T
    BY <1>2
  <2> HIDE DEF a, R
  <2> QED BY <2>1, <1>6, AddServerIsRecursive
<1>8. \A k \in 1..M : g[k] = AddTarget(g[k - 1], s, protos[k])
  BY <1>7 DEF AddTargetSteps
<1>9. /\ a[0] = A /\ a[M] = A \cup EndpointsOf(rows, protos, n)
      /\ \A k \in 1..M : IF HasEndpoint(s, protos[k])
                         THEN a[k] = a[k - 1] \cup {<<n, k>>}
                         ELSE a[k] = a[k - 1]
  <2> DEFINE own == EndpointsOf(rows, protos, n)
  <2>1. \A d : d \in own <=> \E k \in 1..M : d = <<n, k>> /\ HasEndpoint(s, protos[k])
    BY DEF EndpointsOf, s
  <2> HIDE DEF own
  <2>2. \A k \in 0..M : a[k] = A \cup {d \in own : d[2] <= k}
    BY DEF own
  <2>3. \A d \in own : d[2] \in 1..M
    BY <2>1
  <2> HIDE DEF a
  <2>4. a[0] = A
    <3>1. \A d \in own : ~(d[2] <= 0)
      BY <2>3
    <3>2. a[0] = A \cup {d \in own : d[2] <= 0}
      BY <2>2
    <3> QED BY <3>1, <3>2
  <2>5. a[M] = A \cup own
    <3>1. \A d \in own : d[2] <= M
      BY <2>3
    <3>2. a[M] = A \cup {d \in own : d[2] <= M}
      BY <2>2
    <3> QED BY <3>1, <3>2
  <2>6. ASSUME NEW k \in 1..M
        PROVE  IF HasEndpoint(s, protos[k])
               THEN a[k] = a[k - 1] \cup {<<n, k>>} ELSE a[k] = a[k - 1]
    <3>1. /\ a[k] = A \cup {d \in own : d[2] <= k}
          /\ a[k - 1] = A \cup {d \in own : d[2] <= k - 1}
      BY <2>2
    <3>2. \A d \in own : d[2] <= k <=> (d[2] <= k - 1 \/ d = <<n, k>>)
      BY <2>1
    <3>3. <<n, k>> \in own <=> HasEndpoint(s, protos[k])
      BY <2>1
    <3>4. <<n, k>>[2] = k
      OBVIOUS
    <3> QED BY <3>1, <3>2, <3>3, <3>4
  <2> QED BY <2>4, <2>5, <2>6 DEF own
<1>10. \A k \in 1..M : After(<<n, k>>, a[k - 1], R)
  <2>1. ASSUME NEW k \in 1..M, NEW d \in a[k - 1] PROVE <<d, <<n, k>>>> \in R
    <3>1. d \in A \/ (d \in EndpointsOf(rows, protos, n) /\ d[2] <= k - 1)
      BY <2>1
    <3>2. d \in (1..N) \X (1..M)
      BY <1>2, <1>3, <3>1 DEF EndpointsOf
    <3>3. Earlier(d, <<n, k>>)
      BY <3>1, <3>2 DEF Earlier, EndpointsOf
    <3> QED BY <3>2, <3>3 DEF PairsAhead
  <2> HIDE DEF a, R
  <2> QED BY <2>1 DEF After
<1>11. Grows(g, a, x, M, V, R)
  <2> HIDE DEF a, R
  <2>1. \A k \in 1..M :
          IF HasEndpoint(s, protos[k])
          THEN g[k] = Append(g[k - 1], V[x[k]]) ELSE g[k] = g[k - 1]
    BY <1>4, <1>8
  <2> QED BY <1>1, <1>9, <1>10, <2>1 DEF Grows
<1>12. g[0] = ts
  BY <1>7 DEF AddTargetSteps
<1> HIDE DEF a, R
<1>13. Listing(g[M], a[M], V, R)
  BY <1>9, <1>11, <1>12, ListingGrows DEF V, R
<1> QED BY <1>7, <1>9, <1>13, Zenon DEF V, R, s

LEMMA AddServerTyped ==
  ASSUME NEW U, NEW ts \in Seq(U), NEW s,
         NEW M \in Nat, NEW protos, DOMAIN protos = 1..M,
         \A k \in 1..M :
           Target(s, protos[k], IF protos[k] = "DoH" THEN s.url ELSE DoQURL(s)) \in U
  PROVE  AddServer(ts, s, protos) \in Seq(U)
<1> DEFINE T == Seq(U)
<1>1. ASSUME NEW k \in 1..M, NEW l \in T PROVE AddTarget(l, s, protos[k]) \in T
  <2> DEFINE v == Target(s, protos[k], IF protos[k] = "DoH" THEN s.url ELSE DoQURL(s))
  <2>1. v \in U
    OBVIOUS
  <2> HIDE DEF v
  <2>2. Append(l, v) \in T
    BY <2>1
  <2>3. AddTarget(l, s, protos[k])
          = IF HasEndpoint(s, protos[k]) THEN Append(l, v) ELSE l
    BY Zenon DEF AddTarget, v
  <2> QED BY <2>2, <2>3, Zenon
<1>2. ts \in T
  OBVIOUS
<1> HIDE DEF T
<1>3. AddTargetStays(T, s, protos)
  BY <1>1 DEF AddTargetStays
<1>4. \E g \in [0..M -> T] : AddServer(ts, s, protos) = g[M]
  BY <1>2, <1>3, AddServerIsRecursive
<1>5. M \in 0..M
  OBVIOUS
<1> QED BY <1>4, <1>5 DEF T

\* The endpoints of the rows of K.
EndpointsOfAll(rows, protos, K) ==
  {d \in K \X DOMAIN protos : HasEndpoint(Server(rows[d[1]]), protos[d[2]])}

LEMMA BuildTargetsListsEndpoints ==
  ASSUME NEW N \in Nat, NEW rows, DOMAIN rows = 1..N,
         NEW M \in Nat, NEW protos, DOMAIN protos = 1..M,
         NEW K, NEW servers, Listing(servers, K, ServerOf(rows), Ahead(N))
  PROVE  Listing(BuildTargets(servers, protos), EndpointsOfAll(rows, protos, K),
                 EndpointOf(rows, protos), PairsAhead(N, M))
<1> DEFINE V == EndpointOf(rows, protos)
           R == PairsAhead(N, M)
           U == {V[x] : x \in DOMAIN V}
           T == Seq(U)
           L == Len(servers)
<1>1. PICK e : Enumerates(servers, e, K, ServerOf(rows), Ahead(N))
  BY DEF Listing
<1>2. /\ L \in Nat /\ DOMAIN servers = 1..L
      /\ e \in [1..L -> K]
      /\ \A x \in K : \E i \in 1..L : e[i] = x
      /\ \A i, j \in 1..L : i < j => e[i] < e[j]
  <2>1. servers \in Seq({ServerOf(rows)[x] : x \in DOMAIN ServerOf(rows)})
    BY <1>1, Zenon DEF Enumerates
  <2>2. L \in Nat /\ DOMAIN servers = 1..L
    BY <2>1
  <2>3. \A i, j \in 1..L : i < j => <<e[i], e[j]>> \in Ahead(N)
    BY <1>1, Zenon DEF Enumerates
  <2>4. \A i, j \in 1..L : i < j => e[i] < e[j]
    BY <2>3 DEF Ahead
  <2>5. e \in [1..L -> K] /\ \A x \in K : \E i \in 1..L : e[i] = x
    BY <1>1, Zenon DEF Enumerates
  <2> QED BY <2>2, <2>4, <2>5
<1>3. \A i \in 1..L : e[i] \in 1..N /\ servers[i] = Server(rows[e[i]])
  BY <1>1 DEF Enumerates, ServerOf
<1> HIDE DEF L
<1>4. \A i \in 1..L : \A l \in T : AddServer(l, servers[i], protos) \in T
  <2>1. SUFFICES ASSUME NEW i \in 1..L, NEW l \in T
                 PROVE  AddServer(l, servers[i], protos) \in T
    OBVIOUS
  <2> DEFINE s == servers[i]
  <2>2. ASSUME NEW k \in 1..M
        PROVE  Target(s, protos[k], IF protos[k] = "DoH" THEN s.url ELSE DoQURL(s)) \in U
    <3>1. /\ e[i] \in DOMAIN rows /\ k \in DOMAIN protos
          /\ <<e[i], k>> \in (DOMAIN rows) \X (DOMAIN protos)
      BY <1>3
    <3>2. <<e[i], k>> \in DOMAIN V
      BY <3>1, EndpointOfPair, Zenon
    <3>5. s = Server(rows[e[i]])
      BY <1>3, Zenon
    <3> HIDE DEF s
    <3> DEFINE n == e[i]
    <3>6. n \in DOMAIN rows /\ s = Server(rows[n])
      BY <3>1, <3>5
    <3>8. k \in DOMAIN protos
      BY <3>1
    <3> HIDE DEF V, n, U, T, R
    <3>7. V[<<n, k>>] = Target(Server(rows[n]), protos[k],
                               IF protos[k] = "DoH" THEN Server(rows[n]).url
                                                    ELSE DoQURL(Server(rows[n])))
      BY <3>6, <3>8, EndpointOfPair, Zenon DEF V
    <3>3. V[<<e[i], k>>] = Target(s, protos[k],
                                  IF protos[k] = "DoH" THEN s.url ELSE DoQURL(s))
      BY <3>6, <3>7 DEF n
    <3>4. V[<<e[i], k>>] \in U
      BY <3>2 DEF U
    <3> QED BY <3>3, <3>4, Zenon
  <2> HIDE DEF U, s
  <2>3. AddServer(l, s, protos) \in Seq(U)
    BY <2>2, AddServerTyped
  <2> QED BY <2>3 DEF s
<1>5. <<>> \in T
  OBVIOUS
<1> HIDE DEF T
<1>6. AddServerStays(T, protos, servers)
  BY <1>2, <1>4 DEF AddServerStays
<1>7. PICK g \in [0..L -> T] :
        AddServerSteps(g, protos, servers) /\ BuildTargets(servers, protos) = g[L]
  BY <1>2, <1>5, <1>6, BuildTargetsIsRecursive
<1>8. \A i \in 1..L : g[i] = AddServer(g[i - 1], servers[i], protos)
  BY <1>2, <1>7 DEF AddServerSteps
<1> DEFINE first(i) == {e[j] : j \in 1..i}
           all(i) == EndpointsOfAll(rows, protos, first(i))
           Good == {i \in Nat : i <= L => Listing(g[i], all(i), V, R)}
<1>9. 0 \in Good
  <2>1. all(0) = {}
    BY DEF EndpointsOfAll
  <2>2. g[0] = <<>>
    BY <1>7 DEF AddServerSteps
  <2> HIDE DEF all, V, R
  <2>3. Listing(g[0], all(0), V, R)
    BY <2>1, <2>2, EmptyListing
  <2> QED BY <2>3
<1>10. ASSUME NEW i \in Nat, i \in Good PROVE i + 1 \in Good
  <2>1. SUFFICES ASSUME i + 1 <= L PROVE Listing(g[i + 1], all(i + 1), V, R)
    OBVIOUS
  <2>2. Listing(g[i], all(i), V, R)
    BY <1>2, <1>10, <2>1
  <2>3. i + 1 \in 1..L /\ (i + 1) - 1 = i
    BY <1>2, <2>1
  <2> DEFINE n == e[i + 1]
  <2>4. n \in 1..N /\ g[i + 1] = AddServer(g[i], Server(rows[n]), protos)
    BY <1>3, <1>8, <2>3
  <2>5. \A d \in all(i) : d[1] < n
    <3>1. \A j \in 1..i : j \in 1..L /\ j < i + 1
      BY <1>2, <2>1
    <3>2. \A x \in first(i) : x < n
      BY <1>2, <2>3, <3>1
    <3> HIDE DEF first, n
    <3> QED BY <3>2 DEF EndpointsOfAll
  <2>6. all(i + 1) = all(i) \cup EndpointsOf(rows, protos, n)
    <3>1. first(i + 1) = first(i) \cup {n}
      OBVIOUS
    <3> HIDE DEF first, n
    <3>2. EndpointsOfAll(rows, protos, first(i) \cup {n})
            = EndpointsOfAll(rows, protos, first(i)) \cup EndpointsOf(rows, protos, n)
      BY DEF EndpointsOfAll, EndpointsOf
    <3> QED BY <3>1, <3>2, Zenon
  <2> HIDE DEF all, n
  <2>7. Listing(AddServer(g[i], Server(rows[n]), protos),
                all(i) \cup EndpointsOf(rows, protos, n), V, R)
    BY <2>2, <2>4, <2>5, AddServerListsEndpoints
  <2> QED BY <2>4, <2>6, <2>7, Zenon
<1>11. L \in Good
  <2> HIDE DEF Good
  <2> QED BY <1>2, <1>9, <1>10, NatSetInduction
<1>12. first(L) = K
  BY <1>2
<1>13. Listing(g[L], all(L), V, R)
  <2> HIDE DEF all, V, R
  <2> QED BY <1>2, <1>11
<1> HIDE DEF first, V, R
<1> QED BY <1>7, <1>12, <1>13, Zenon DEF V, R

LEMMA FilterTargetsListsMatches ==
  ASSUME NEW V, NEW R, NEW A, NEW targets, Listing(targets, A, V, R), NEW re
  PROVE  Listing(FilterTargets(targets, re), {x \in A : Matches(V[x], re)}, V, R)
<1> DEFINE U == {V[x] : x \in DOMAIN V}
           T == Seq(U)
           L == Len(targets)
<1>1. PICK e : Enumerates(targets, e, A, V, R)
  BY DEF Listing
<1>2. /\ A \subseteq DOMAIN V
      /\ targets \in Seq(U)
      /\ e \in [1..L -> A]
      /\ \A x \in A : \E i \in 1..L : e[i] = x
      /\ \A i \in 1..L : targets[i] = V[e[i]]
      /\ \A i, j \in 1..L : i < j => <<e[i], e[j]>> \in R
  BY <1>1, Zenon DEF Enumerates
<1> HIDE DEF U
<1>3. L \in Nat /\ DOMAIN targets = 1..L /\ <<>> \in T
  BY <1>2
<1>4. \A i \in 1..L : targets[i] \in U
  BY <1>2
<1> HIDE DEF L
<1>5. AddMatchStays(T, re, targets)
  <2>1. \A i \in 1..L : \A l \in T : Append(l, targets[i]) \in T
    BY <1>4
  <2> HIDE DEF T
  <2> QED BY <1>3, <2>1 DEF AddMatchStays, AddMatch
<1> HIDE DEF T
<1>6. PICK g \in [0..L -> T] :
        AddMatchSteps(g, re, targets) /\ FilterTargets(targets, re) = g[L]
  BY <1>3, <1>5, FilterTargetsIsRecursive
<1>7. /\ g[0] = <<>>
      /\ \A i \in 1..L : g[i] = IF Matches(targets[i], re)
                                THEN Append(g[i - 1], targets[i]) ELSE g[i - 1]
  BY <1>3, <1>6, Zenon DEF AddMatchSteps, AddMatch
<1> DEFINE a == [i \in 0..L |-> {e[j] : j \in {k \in 1..i : Matches(targets[k], re)}}]
<1>8. \A i \in 0..L : \A x : x \in a[i] <=>
        \E j \in 1..i : Matches(targets[j], re) /\ x = e[j]
  OBVIOUS
<1> HIDE DEF a
<1>9. a[0] = {}
  <2>1. 0 \in 0..L /\ 1..0 = {}
    BY <1>3
  <2> QED BY <1>8, <2>1
<1>10. a[L] = {x \in A : Matches(V[x], re)}
  <2>1. L \in 0..L
    BY <1>3
  <2>2. \A x : x \in a[L] <=> \E j \in 1..L : Matches(targets[j], re) /\ x = e[j]
    BY <1>8, <2>1
  <2> QED BY <1>2, <2>2
<1>11. Grows(g, a, e, L, V, R)
  <2>1. SUFFICES ASSUME NEW i \in 1..L
                 PROVE  \/ /\ e[i] \in DOMAIN V /\ After(e[i], a[i - 1], R)
                           /\ g[i] = Append(g[i - 1], V[e[i]])
                           /\ a[i] = a[i - 1] \cup {e[i]}
                        \/ g[i] = g[i - 1] /\ a[i] = a[i - 1]
    BY Zenon DEF Grows
  <2>2. /\ i \in 0..L /\ i - 1 \in 0..L
        /\ \A j : j \in 1..i <=> (j \in 1..(i - 1) \/ j = i)
        /\ \A j \in 1..(i - 1) : j \in 1..L /\ j < i
    BY <1>3
  <2>3. /\ \A x : x \in a[i] <=> \E j \in 1..i : Matches(targets[j], re) /\ x = e[j]
        /\ \A x : x \in a[i - 1] <=>
             \E j \in 1..(i - 1) : Matches(targets[j], re) /\ x = e[j]
    BY <1>8, <2>2
  <2>4. CASE Matches(targets[i], re)
    <3>1. a[i] = a[i - 1] \cup {e[i]}
      BY <2>2, <2>3, <2>4
    <3>2. After(e[i], a[i - 1], R)
      BY <1>2, <2>2, <2>3 DEF After
    <3>3. e[i] \in DOMAIN V
      BY <1>2
    <3>4. g[i] = Append(g[i - 1], V[e[i]])
      BY <1>2, <1>7, <2>4
    <3> QED BY <3>1, <3>2, <3>3, <3>4
  <2>5. CASE ~Matches(targets[i], re)
    <3>1. a[i] = a[i - 1]
      BY <2>2, <2>3, <2>5
    <3>2. g[i] = g[i - 1]
      BY <1>7, <2>5
    <3> QED BY <3>1, <3>2
  <2> QED BY <2>4, <2>5
<1>12. Listing(g[0], a[0], V, R)
  BY <1>7, <1>9, EmptyListing
<1>13. Listing(g[L], a[L], V, R)
  BY <1>3, <1>11, <1>12, ListingGrows
<1> QED BY <1>6, <1>10, <1>13, Zenon

-----------------------------------------------------------------------------
(* The plan.                                                               *)

\* The endpoints that are asked for are those that the steps of the code keep.
LEMMA AskedAreKept ==
  ASSUME NEW N \in Nat, NEW rows, DOMAIN rows = 1..N,
         NEW protos \in Protocols, NEW re
  PROVE  Asked(rows, protos, re)
           = IF re = NoFilter THEN EndpointsOfAll(rows, protos, Kept(rows))
             ELSE {d \in EndpointsOfAll(rows, protos, Kept(rows)) :
                     Matches(EndpointOf(rows, protos)[d], re)}
<1> DEFINE V == EndpointOf(rows, protos)
           all == EndpointsOfAll(rows, protos, Kept(rows))
<1>1. \A k \in DOMAIN protos : protos[k] = "DoH" \/ protos[k] = "DoQ"
  BY DEF Protocols
<1>2. Kept(rows) \subseteq DOMAIN rows
  BY DEF Kept
<1>3. SUFFICES ASSUME NEW d
               PROVE  d \in Asked(rows, protos, re) <=>
                        d \in all /\ (re = NoFilter \/ Matches(V[d], re))
  <2> HIDE DEF all, V
  <2>1. \A d : d \in Asked(rows, protos, re) <=>
                 d \in all /\ (re = NoFilter \/ Matches(V[d], re))
    BY <1>3, Zenon
  <2>2. CASE re = NoFilter
    BY <2>1, <2>2 DEF all
  <2>3. CASE re # NoFilter
    BY <2>1, <2>3 DEF all, V
  <2> QED BY <2>2, <2>3
<1>4. CASE d \notin Kept(rows) \X (DOMAIN protos)
  BY <1>4 DEF Asked, EndpointsOfAll
<1>5. CASE d \in Kept(rows) \X (DOMAIN protos)
  <2> DEFINE n == d[1]
             k == d[2]
             s == Server(rows[n])
             proto == protos[k]
  <2>1. n \in Kept(rows) /\ k \in DOMAIN protos /\ d = <<n, k>>
    BY <1>5
  <2>2. proto = "DoH" \/ proto = "DoQ"
    BY <1>1, <2>1
  <2>3. d \in all <=> HasEndpoint(s, proto)
    BY <1>5 DEF EndpointsOfAll
  <2>4. d \in Asked(rows, protos, re) <=>
          /\ proto = "DoQ" => "DoQ" \in s.protocols /\ s.url.host \notin NoHosts
          /\ \/ re = NoFilter
             \/ s.provider \in re.providers
             \/ (IF proto = "DoQ" THEN Derived(s.url) ELSE s.url) \in re.urls
    BY <1>5, Zenon DEF Asked
  <2>5. n \in DOMAIN rows
    BY <1>2, <2>1
  <2> HIDE DEF n, k, all
  <2>6. V[<<n, k>>] = Target(s, proto, IF proto = "DoH" THEN s.url ELSE DoQURL(s))
    BY <2>1, <2>5, EndpointOfPair, Zenon
  <2> HIDE DEF V, s, proto
  <2>7. /\ V[d].server = s
        /\ V[d].url = IF proto = "DoH" THEN s.url ELSE Derived(s.url)
    BY <2>1, <2>6 DEF Target, DoQURL, Derived
  <2>8. HasEndpoint(s, proto) <=>
          (proto = "DoQ" => "DoQ" \in s.protocols /\ s.url.host \notin NoHosts)
    BY <2>2 DEF HasEndpoint, Supports
  <2>9. Matches(V[d], re) <=>
          \/ s.provider \in re.providers
          \/ (IF proto = "DoQ" THEN Derived(s.url) ELSE s.url) \in re.urls
    <3>1. CASE proto = "DoH"
      BY <2>7, <3>1 DEF Matches
    <3>2. CASE proto = "DoQ"
      BY <2>7, <3>2 DEF Matches
    <3> QED BY <2>2, <3>1, <3>2
  <2> QED BY <2>3, <2>4, <2>8, <2>9, Zenon
<1> QED BY <1>4, <1>5

\* The place of an element of a list is the one the reference counts.
OnPairs(V, N, M) == N \in Nat /\ M \in Nat /\ DOMAIN V = (1..N) \X (1..M)

PlacesCounted(targets, e, A) ==
  /\ \A i, j \in 1..Len(targets) : e[i] = e[j] => i = j
  /\ \A i \in 1..Len(targets) : PlaceOf(e[i], A) = i

LEMMA PlaceIsCounted ==
  ASSUME NEW N, NEW M, NEW A, NEW V, NEW targets, NEW e, OnPairs(V, N, M),
         Enumerates(targets, e, A, V, PairsAhead(N, M))
  PROVE  PlacesCounted(targets, e, A)
<1> DEFINE L == Len(targets)
           U == {V[x] : x \in DOMAIN V}
<1> USE DEF OnPairs
<1>1. /\ A \subseteq (1..N) \X (1..M)
      /\ targets \in Seq(U)
      /\ e \in [1..L -> A]
      /\ \A x \in A : \E i \in 1..L : e[i] = x
      /\ \A i, j \in 1..L : i < j => Earlier(e[i], e[j])
  <2>1. \A i, j \in 1..L : i < j => <<e[i], e[j]>> \in PairsAhead(N, M)
    BY Zenon DEF Enumerates
  <2>2. \A i, j \in 1..L : i < j => Earlier(e[i], e[j])
    BY <2>1 DEF PairsAhead
  <2> QED BY <2>2, Zenon DEF Enumerates
<1>2. L \in Nat
  <2> HIDE DEF U
  <2> QED BY <1>1
<1> HIDE DEF L, U
<1>3. \A x, y \in A : Earlier(x, y) => x # y /\ ~Earlier(y, x)
  BY <1>1 DEF Earlier
<1>4. \A i, j \in 1..L : e[i] = e[j] => i = j
  <2>1. ASSUME NEW i \in 1..L, NEW j \in 1..L, e[i] = e[j], i # j PROVE FALSE
    <3>1. i < j \/ j < i
      BY <1>2, <2>1
    <3>2. Earlier(e[i], e[j]) \/ Earlier(e[j], e[i])
      BY <1>1, <3>1
    <3>3. e[i] \in A /\ e[j] \in A
      BY <1>1
    <3> QED BY <1>3, <2>1, <3>2, <3>3
  <2> QED BY <2>1
<1>5. ASSUME NEW i \in 1..L PROVE PlaceOf(e[i], A) = i
  <2>1. i - 1 \in Nat /\ \A k \in 1..(i - 1) : k \in 1..L /\ k < i
    BY <1>2
  <2>2. {d \in A : Earlier(d, e[i])} = First(e, i - 1)
    <3>1. ASSUME NEW d, d \in A, Earlier(d, e[i]) PROVE d \in First(e, i - 1)
      <4>1. PICK k \in 1..L : e[k] = d
        BY <1>1, <3>1
      <4>2. ~(k > i) /\ k # i
        BY <1>1, <1>3, <3>1, <4>1
      <4>3. k \in 1..(i - 1)
        BY <1>2, <4>2
      <4> QED BY <4>1, <4>3 DEF First
    <3>2. ASSUME NEW d \in First(e, i - 1) PROVE d \in A /\ Earlier(d, e[i])
      <4>1. PICK k \in 1..(i - 1) : d = e[k]
        BY DEF First
      <4>2. k \in 1..L /\ k < i
        BY <2>1
      <4> QED BY <1>1, <4>1, <4>2
    <3> QED BY <3>1, <3>2
  <2>3. \A k, l \in 1..(i - 1) : e[k] = e[l] => k = l
    BY <1>4, <2>1
  <2>4. Cardinality(First(e, i - 1)) = i - 1
    BY <2>1, <2>3, FirstCount
  <2>5. PlaceOf(e[i], A) = 1 + Cardinality(First(e, i - 1))
    BY <2>2, Zenon DEF PlaceOf
  <2> QED BY <2>1, <2>4, <2>5
<1> QED BY <1>4, <1>5, Zenon DEF L, PlacesCounted

LEMMA ListingIsPlan ==
  ASSUME NEW N \in Nat, NEW rows, DOMAIN rows = 1..N,
         NEW M \in Nat, NEW protos, DOMAIN protos = 1..M,
         NEW A, NEW targets,
         Listing(targets, A, EndpointOf(rows, protos), PairsAhead(N, M)),
         NEW limit \in Nat
  PROVE  IsPlan(Limited(targets, limit), A, rows, protos, limit)
<1> DEFINE V == EndpointOf(rows, protos)
           U == {V[x] : x \in DOMAIN V}
           L == Len(targets)
           plan == Limited(targets, limit)
           m == IF limit > 0 /\ L > limit THEN limit ELSE L
           wanted == {d \in A : limit = 0 \/ PlaceOf(d, A) <= limit}
<1>1. PICK e : Enumerates(targets, e, A, V, PairsAhead(N, M))
  BY DEF Listing
<1>2. DOMAIN V = (1..N) \X (1..M)
  <2>1. DOMAIN V = (DOMAIN rows) \X (DOMAIN protos)
    BY EndpointOfPair
  <2> HIDE DEF V
  <2> QED BY <2>1
<1>3. /\ A \subseteq DOMAIN V
      /\ targets \in Seq(U)
      /\ e \in [1..L -> A]
      /\ \A x \in A : \E i \in 1..L : e[i] = x
      /\ \A i \in 1..L : targets[i] = V[e[i]]
  BY <1>1, Zenon DEF Enumerates
<1> HIDE DEF U, V
<1>4. /\ \A i, j \in 1..L : e[i] = e[j] => i = j
      /\ \A i \in 1..L : PlaceOf(e[i], A) = i
  <2> HIDE DEF L, m, plan, wanted
  <2>1. OnPairs(V, N, M)
    BY <1>2 DEF OnPairs
  <2>2. PlacesCounted(targets, e, A)
    BY <1>1, <2>1, PlaceIsCounted, Zenon
  <2> QED BY <2>2, Zenon DEF L, PlacesCounted
<1>5. /\ L \in Nat /\ Len(plan) = m
      /\ \A i \in 1..m : plan[i] = targets[i]
  <2>1. CASE limit > 0 /\ L > limit
    <3>1. plan = SubSeq(targets, 1, limit) /\ m = limit /\ limit \in 0..L /\ L \in Nat
      BY <1>3, <2>1 DEF Limited
    <3>2. /\ Len(SubSeq(targets, 1, limit)) = limit
          /\ \A i \in 1..limit : SubSeq(targets, 1, limit)[i] = targets[i]
      BY <1>3, <3>1
    <3> QED BY <3>1, <3>2
  <2>2. CASE ~(limit > 0 /\ L > limit)
    <3>1. plan = targets /\ m = L /\ L \in Nat
      BY <1>3, <2>2 DEF Limited
    <3> QED BY <3>1
  <2> QED BY <2>1, <2>2
<1>6. /\ m \in Nat /\ \A i \in 1..m : i \in 1..L
      /\ \A i \in 1..L : (limit = 0 \/ i <= limit) <=> i \in 1..m
  BY <1>5
<1> HIDE DEF m, L, plan
<1>7. wanted = First(e, m)
  <2>1. ASSUME NEW d \in wanted PROVE d \in First(e, m)
    <3>1. PICK i \in 1..L : e[i] = d
      BY <1>3
    <3>2. limit = 0 \/ i <= limit
      BY <1>4, <3>1
    <3> QED BY <1>6, <3>1, <3>2 DEF First
  <2>2. ASSUME NEW d \in First(e, m) PROVE d \in wanted
    <3>1. PICK i \in 1..m : d = e[i]
      BY DEF First
    <3>2. i \in 1..L /\ d \in A /\ PlaceOf(d, A) = i
      BY <1>3, <1>4, <1>6, <3>1
    <3> QED BY <1>6, <3>2
  <2> QED BY <2>1, <2>2
<1>8. Cardinality(First(e, m)) = m
  <2>1. \A i, j \in 1..m : e[i] = e[j] => i = j
    BY <1>4, <1>6
  <2> QED BY <1>6, <2>1, FirstCount
<1>9. ASSUME NEW d \in First(e, m)
      PROVE  /\ plan[PlaceOf(d, A)].server = Server(rows[d[1]])
             /\ plan[PlaceOf(d, A)].proto = protos[d[2]]
  <2>1. PICK i \in 1..m : d = e[i]
    BY DEF First
  <2>2. i \in 1..L /\ d \in A /\ PlaceOf(d, A) = i
    BY <1>3, <1>4, <1>6, <2>1
  <2>3. plan[i] = V[d]
    BY <1>3, <1>5, <2>1, <2>2
  <2> DEFINE n == d[1]
             k == d[2]
  <2>4. n \in DOMAIN rows /\ k \in DOMAIN protos /\ d = <<n, k>>
    BY <1>2, <1>3, <2>2
  <2> HIDE DEF n, k
  <2>5. V[<<n, k>>] = Target(Server(rows[n]), protos[k],
                             IF protos[k] = "DoH" THEN Server(rows[n]).url
                                                  ELSE DoQURL(Server(rows[n])))
    BY <2>4, EndpointOfPair, Zenon DEF V
  <2>6. V[d].server = Server(rows[n]) /\ V[d].proto = protos[k]
    BY <2>4, <2>5 DEF Target
  <2> QED BY <2>2, <2>3, <2>6, Zenon DEF n, k
<1>10. Len(plan) = Cardinality(wanted)
  BY <1>5, <1>7, <1>8
<1>11. \A d \in wanted :
         /\ plan[PlaceOf(d, A)].server = Server(rows[d[1]])
         /\ plan[PlaceOf(d, A)].proto = protos[d[2]]
  <2> HIDE DEF wanted
  <2> QED BY <1>7, <1>9, Zenon
<1> QED BY <1>10, <1>11, Zenon DEF IsPlan, plan

\* No endpoint is listed twice but for the DoQ endpoints of two URLs.
LEMMA ListingRepeatsDoQ ==
  ASSUME NEW N \in Nat, NEW rows, DOMAIN rows = 1..N,
         NEW protos \in Protocols, NEW targets,
         Listing(targets, EndpointsOfAll(rows, protos, Kept(rows)),
                 EndpointOf(rows, protos), PairsAhead(N, Len(protos))),
         NEW j \in DOMAIN targets, NEW k \in DOMAIN targets, j # k,
         targets[j].proto = targets[k].proto, targets[j].url = targets[k].url
  PROVE  targets[j].proto = "DoQ" /\ targets[j].server.url # targets[k].server.url
<1> DEFINE V == EndpointOf(rows, protos)
           M == Len(protos)
           A == EndpointsOfAll(rows, protos, Kept(rows))
           L == Len(targets)
           U == {V[x] : x \in DOMAIN V}
<1>1. PICK e : Enumerates(targets, e, A, V, PairsAhead(N, M))
  BY DEF Listing
<1>2. /\ M \in Nat /\ DOMAIN protos = 1..M
      /\ \A a, b \in DOMAIN protos : protos[a] = protos[b] => a = b
      /\ \A a \in DOMAIN protos : protos[a] = "DoH" \/ protos[a] = "DoQ"
  BY DEF Protocols
<1>3. DOMAIN V = (1..N) \X (1..M)
  <2>1. DOMAIN V = (DOMAIN rows) \X (DOMAIN protos)
    BY EndpointOfPair
  <2> HIDE DEF V, M
  <2> QED BY <1>2, <2>1
<1>4. /\ targets \in Seq(U)
      /\ e \in [1..L -> A]
      /\ \A i \in 1..L : targets[i] = V[e[i]]
  BY <1>1, Zenon DEF Enumerates
<1> HIDE DEF U, M
<1>5. DOMAIN targets = 1..L /\ j \in 1..L /\ k \in 1..L
  BY <1>4
<1> HIDE DEF V, L, A
<1>6. e[j] # e[k]
  <2>1. OnPairs(V, N, M)
    BY <1>2, <1>3 DEF OnPairs
  <2>2. PlacesCounted(targets, e, A)
    BY <1>1, <2>1, PlaceIsCounted, Zenon
  <2> QED BY <1>5, <2>2, Zenon DEF L, PlacesCounted
<1>7. ASSUME NEW i \in 1..L
      PROVE  \E n \in Kept(rows), a \in DOMAIN protos :
               /\ e[i] = <<n, a>>
               /\ targets[i] = Target(Server(rows[n]), protos[a],
                                      IF protos[a] = "DoH" THEN Server(rows[n]).url
                                      ELSE DoQURL(Server(rows[n])))
  <2> DEFINE n == e[i][1]
             a == e[i][2]
  <2>1. n \in Kept(rows) /\ a \in DOMAIN protos /\ e[i] = <<n, a>>
    BY <1>4 DEF A, EndpointsOfAll
  <2>2. n \in DOMAIN rows
    BY <2>1 DEF Kept
  <2> HIDE DEF n, a
  <2>3. V[<<n, a>>] = Target(Server(rows[n]), protos[a],
                             IF protos[a] = "DoH" THEN Server(rows[n]).url
                                                  ELSE DoQURL(Server(rows[n])))
    BY <2>1, <2>2, EndpointOfPair, Zenon DEF V
  <2> QED BY <1>4, <2>1, <2>3, Zenon
<1>8. PICK n \in Kept(rows), a \in DOMAIN protos :
        /\ e[j] = <<n, a>>
        /\ targets[j] = Target(Server(rows[n]), protos[a],
                               IF protos[a] = "DoH" THEN Server(rows[n]).url
                               ELSE DoQURL(Server(rows[n])))
  BY <1>5, <1>7, Zenon
<1>9. PICK p \in Kept(rows), b \in DOMAIN protos :
        /\ e[k] = <<p, b>>
        /\ targets[k] = Target(Server(rows[p]), protos[b],
                               IF protos[b] = "DoH" THEN Server(rows[p]).url
                               ELSE DoQURL(Server(rows[p])))
  BY <1>5, <1>7, Zenon
<1>10. /\ targets[j].proto = protos[a] /\ targets[j].server = Server(rows[n])
       /\ protos[a] = "DoH" => targets[j].url = Server(rows[n]).url
  BY <1>8 DEF Target
<1>11. /\ targets[k].proto = protos[b] /\ targets[k].server = Server(rows[p])
       /\ protos[b] = "DoH" => targets[k].url = Server(rows[p]).url
  BY <1>9 DEF Target
<1>12. a = b /\ n # p
  <2>1. a = b
    BY <1>2, <1>10, <1>11
  <2> QED BY <1>6, <1>8, <1>9, <2>1
<1>13. Server(rows[n]).url # Server(rows[p]).url
  <2>1. n \in 1..N /\ p \in 1..N /\ (n < p \/ p < n)
    BY <1>12 DEF Kept
  <2>2. Usable(rows[n]) /\ Usable(rows[p])
    BY DEF Kept
  <2>3. ~SameURL(rows[n].url, rows[p].url) \/ ~SameURL(rows[p].url, rows[n].url)
    BY <2>1, <2>2 DEF Kept
  <2>4. rows[n].url # rows[p].url
    BY <2>3 DEF SameURL
  <2> QED BY <2>4 DEF Server
<1> QED BY <1>2, <1>10, <1>11, <1>12, <1>13

\* For any list whose rows have URLs, any protocols, filter and limit, the
\* plan is the one the reference describes (run).
THEOREM PlanOfLists ==
  ASSUME NEW N \in Nat, NEW rows, DOMAIN rows = 1..N,
         NEW H, NEW P, HaveURLs(rows, H, P),
         NEW protos \in Protocols, NEW re, NEW limit \in Nat
  PROVE  /\ IsPlan(Plan(rows, protos, re, limit), Asked(rows, protos, re),
                   rows, protos, limit)
         /\ Listing(BuildTargets(LoadServers(rows), protos),
                    EndpointsOfAll(rows, protos, Kept(rows)),
                    EndpointOf(rows, protos), PairsAhead(N, Len(protos)))
<1> DEFINE V == EndpointOf(rows, protos)
           M == Len(protos)
           R == PairsAhead(N, M)
           all == EndpointsOfAll(rows, protos, Kept(rows))
           servers == LoadServers(rows)
           built == BuildTargets(servers, protos)
           targets == IF re = NoFilter THEN built ELSE FilterTargets(built, re)
           asked == Asked(rows, protos, re)
<1>1. M \in Nat /\ DOMAIN protos = 1..M
  BY DEF Protocols
<1> HIDE DEF M
<1>2. Listing(servers, Kept(rows), ServerOf(rows), Ahead(N))
  BY LoadServersListsKept
<1> HIDE DEF servers
<1>3. Listing(built, all, V, R)
  BY <1>1, <1>2, BuildTargetsListsEndpoints
<1>4. asked = IF re = NoFilter THEN all ELSE {d \in all : Matches(V[d], re)}
  BY AskedAreKept
<1> HIDE DEF built, all, V, R, asked
<1>5. Listing(targets, asked, V, R)
  <2>1. CASE re = NoFilter
    BY <1>3, <1>4, <2>1
  <2>2. CASE re # NoFilter
    <3>1. Listing(FilterTargets(built, re), {d \in all : Matches(V[d], re)}, V, R)
      BY <1>3, FilterTargetsListsMatches
    <3> QED BY <1>4, <2>2, <3>1, Zenon
  <2> QED BY <2>1, <2>2
<1>6. Plan(rows, protos, re, limit) = Limited(targets, limit)
  BY Zenon DEF Plan, built, servers
<1> HIDE DEF targets
<1>7. IsPlan(Limited(targets, limit), asked, rows, protos, limit)
  BY <1>1, <1>5, ListingIsPlan DEF V, R
<1> QED BY <1>3, <1>6, <1>7, Zenon DEF built, servers, all, V, R, M, asked

-----------------------------------------------------------------------------
(* The lists and options of MCTargets.                                     *)

LEMMA RowsHaveURLs ==
  ASSUME NEW rows \in Lists
  PROVE  \E N \in Nat : DOMAIN rows = 1..N /\ \E H, P : HaveURLs(rows, H, P)
<1> DEFINE H == {"a", "b", "ip"}
           P == {"p", "q"}
<1>1. ASSUME NEW row \in RowKinds
      PROVE  row.comment \in BOOLEAN /\ (Usable(row) => row.url \in URLs(H, P))
  <2> DEFINE a == Row(URL("a", "p", FALSE), {"DoH", "DoQ"})
             u == URL("a", "p", FALSE)
  <2>1. /\ u \in URLs(H, P)
        /\ DOMAIN a = {"comment", "provider", "url", "protocols"}
        /\ a.comment = FALSE /\ a.url = u
    BY DEF Row, URL, URLs
  <2>2. /\ [u EXCEPT !.capitals = TRUE] \in URLs(H, P)
        /\ [u EXCEPT !.path = "q"] \in URLs(H, P)
        /\ [u EXCEPT !.host = "ip"] \in URLs(H, P)
    BY <2>1 DEF URLs
  <2>3. /\ Row(URL("b", "p", FALSE), {"DoH"}).comment = FALSE
        /\ Row(URL("b", "p", FALSE), {"DoH"}).url \in URLs(H, P)
    BY DEF Row, URL, URLs
  <2>4. row \in {a, [a EXCEPT !.url.capitals = TRUE], [a EXCEPT !.url.path = "q"],
                 [a EXCEPT !.comment = TRUE], [a EXCEPT !.url = NoURL],
                 [a EXCEPT !.url.host = "ip", !.provider = "b"],
                 Row(URL("b", "p", FALSE), {"DoH"})}
    BY Zenon DEF RowKinds
  <2> HIDE DEF a, u
  <2>5. CASE row = a
    BY <2>1, <2>5
  <2>6. CASE row = [a EXCEPT !.url.capitals = TRUE]
    BY <2>1, <2>2, <2>6
  <2>7. CASE row = [a EXCEPT !.url.path = "q"]
    BY <2>1, <2>2, <2>7
  <2>8. CASE row = [a EXCEPT !.comment = TRUE]
    BY <2>1, <2>8 DEF Usable
  <2>9. CASE row = [a EXCEPT !.url = NoURL]
    BY <2>1, <2>9 DEF Usable
  <2>10. CASE row = [a EXCEPT !.url.host = "ip", !.provider = "b"]
    BY <2>1, <2>2, <2>10
  <2>11. CASE row = Row(URL("b", "p", FALSE), {"DoH"})
    BY <2>3, <2>11
  <2> QED BY <2>4, <2>5, <2>6, <2>7, <2>8, <2>9, <2>10, <2>11, Zenon
<1>2. PICK n \in 0..MaxRows : rows \in [1..n -> RowKinds]
  BY DEF Lists
<1>3. n \in Nat /\ DOMAIN rows = 1..n
  BY <1>2
<1>4. HaveURLs(rows, H, P)
  <2> HIDE DEF H, P
  <2> QED BY <1>1, <1>2 DEF HaveURLs
<1> QED BY <1>3, <1>4, Zenon

LEMMA OptionsParse ==
  ASSUME NEW parts \in Options
  PROVE  ParseProtocols(parts) \in Protocols
<1>1. \E N \in Nat : DOMAIN parts = 1..N
  <2>1. \A x, y, z : /\ DOMAIN <<x>> = 1..1 /\ DOMAIN <<x, y>> = 1..2
                     /\ DOMAIN <<x, y, z>> = 1..3
    OBVIOUS
  <2>2. \/ parts = <<"all">> \/ parts = <<"quic", "">> \/ parts = <<"doq", "all">>
        \/ parts = <<"doh", "all", "h2">> \/ parts = <<"doh", "dot">>
    BY Zenon DEF Options
  <2>3. DOMAIN parts = 1..1 \/ DOMAIN parts = 1..2 \/ DOMAIN parts = 1..3
    BY <2>1, <2>2, Zenon
  <2> QED BY <2>3
<1> QED BY <1>1, ParseProtocolsAddsOnce
=============================================================================
