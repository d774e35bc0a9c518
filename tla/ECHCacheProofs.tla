--------------------------- MODULE ECHCacheProofs ---------------------------
(***************************************************************************)
(* Proofs about ECHCache, for any number of handlers and buffers, any      *)
(* length of a configuration and any set of answers: an answer carries one *)
(* whole configuration, a stored one is never missing from an answer, and  *)
(* the cache implements ECHRegister.                                       *)
(***************************************************************************)
EXTENDS ECHCache, TLAPS

(* The parts of the inductive invariant.                                   *)

\* The refresher holds the lock exactly while it copies, into a buffer that
\* no handler has; what is in the cache when it does not hold the lock is
\* the whole of the configuration stored last.
WriteInv ==
  /\ writer <=> refresher = "copy"
  /\ refresher \in {"lock", "copy"} =>
       incoming = Config(fetched) /\ fetched = published + 1
  /\ refresher \notin {"lock", "copy"} => fetched = published
  /\ writer =>
       /\ ech \in Bufs
       /\ \A h \in Handlers : snap[h] # ech
       /\ \A w \in 1..Words : w <= copied => mem[ech][w] = fetched
  /\ ~writer => IF ech = NoBuf THEN published = 0
                ELSE published > 0 /\ mem[ech] = Config(published)

\* The slice a handler took is whole, and as new as its query demands.
SnapInv ==
  \A h \in Handlers :
    /\ floor[h] <= published
    /\ snap[h] # NoBuf =>
         /\ hpc[h] \in {"records", "write"}
         /\ \E n \in 1..published : mem[snap[h]] = Config(n) /\ floor[h] <= n
    /\ hpc[h] = "records" => snap[h] # NoBuf /\ pos[h] > 0
    /\ hpc[h] = "write" /\ snap[h] = NoBuf => floor[h] = 0

\* Every word in an answer is a word of the slice the handler took.
WordInv ==
  \A h \in Handlers : \A i \in DOMAIN added[h] :
    /\ Len(added[h][i]) <= Words
    /\ \A w \in DOMAIN added[h][i] :
         snap[h] # NoBuf /\ added[h][i][w] = mem[snap[h]][1]

\* The records before the current one are finished, the others that need no
\* parameter stay as they are.
PosInv ==
  \A h \in Handlers :
    /\ \A i \in DOMAIN answer[h] :
         /\ answer[h][i] # "bare" => added[h][i] = <<>>
         /\ snap[h] # NoBuf /\ i < pos[h] /\ answer[h][i] = "bare" =>
              Len(added[h][i]) = Words
    /\ hpc[h] = "write" /\ snap[h] # NoBuf => pos[h] > Len(answer[h])

Inv == TypeOK /\ WriteInv /\ SnapInv /\ WordInv /\ PosInv

-----------------------------------------------------------------------------
LEMMA ConfigFacts ==
  ASSUME NEW n \in 0..MaxConfigs
  PROVE  /\ Config(n) \in [1..Words -> 0..MaxConfigs]
         /\ Config(n)[1] = n
         /\ Config(n) # <<>>
  BY WordsAssumption DEF Config

LEMMA InitInv == Init => Inv
<1> SUFFICES ASSUME Init PROVE Inv
  OBVIOUS
<1> USE BufsAssumption, WordsAssumption, ConfigsAssumption DEF Init
<1>0. Config(0) \in [1..Words -> 0..MaxConfigs] /\ 0 \in 0..MaxConfigs
  BY ConfigFacts
<1>1. TypeOK
  <2>1. writer \in BOOLEAN /\ serving \in BOOLEAN /\ stop \in BOOLEAN
    OBVIOUS
  <2>2. mem \in [Bufs -> [1..Words -> 0..MaxConfigs]]
    BY <1>0
  <2>3. hpc \in [Handlers -> {"idle", "resolve", "inject", "records", "write"}]
    OBVIOUS
  <2>4. snap \in [Handlers -> Bufs \cup {NoBuf}] /\ pos \in [Handlers -> Nat]
    OBVIOUS
  <2>5. answer \in [Handlers -> Answers \cup {<<>>}]
    OBVIOUS
  <2>6. DOMAIN added = Handlers
    OBVIOUS
  <2>7. floor \in [Handlers -> 0..MaxConfigs]
    BY <1>0
  <2>8. copied \in 0..Words /\ fetched \in 0..MaxConfigs
        /\ published \in 0..MaxConfigs
    OBVIOUS
  <2>9. \A h \in Handlers : added[h] = <<>> /\ answer[h] = <<>>
    OBVIOUS
  <2> QED
    BY <1>0, <2>1, <2>2, <2>3, <2>4, <2>5, <2>6, <2>7, <2>8, <2>9 DEF TypeOK
<1>2. WriteInv BY DEF WriteInv
<1>3. SnapInv
  <2>1. ASSUME NEW h \in Handlers
        PROVE  hpc[h] = "idle" /\ snap[h] = NoBuf /\ floor[h] = 0
    OBVIOUS
  <2>2. published = 0
    OBVIOUS
  <2> HIDE DEF Init
  <2>3. ASSUME NEW h \in Handlers
        PROVE  /\ floor[h] <= published
               /\ snap[h] = NoBuf
               /\ hpc[h] \notin {"records", "write"}
    BY <2>1, <2>2
  <2> QED BY <2>3 DEF SnapInv
<1>4. WordInv BY DEF WordInv
<1>5. PosInv
  <2>1. ASSUME NEW h \in Handlers
        PROVE  DOMAIN answer[h] = {} /\ hpc[h] # "write"
    OBVIOUS
  <2> HIDE DEF Init
  <2> QED BY <2>1 DEF PosInv
<1> QED BY <1>1, <1>2, <1>3, <1>4, <1>5 DEF Inv


\* What the types of a step inside the write section rest on.
LEMMA WriteTypes ==
  ASSUME TypeOK, UNCHANGED <<incoming, process, handlers, history>>,
         mem' \in [Bufs -> [1..Words -> 0..MaxConfigs]],
         writer' \in BOOLEAN, ech' \in Bufs \cup {NoBuf},
         refresher' = "copy", copied' \in 0..Words
  PROVE  TypeOK'
<1>1. /\ UNCHANGED <<incoming, serving, stop, hpc, answer, snap, pos, added>>
      /\ UNCHANGED <<fetched, published, floor>>
  BY DEF process, handlers, history
<1> QED BY <1>1 DEF TypeOK

\* Every step keeps the types: a handler only copies from a slice it has taken.
LEMMA TypeNext ==
  ASSUME TypeOK, SnapInv, [Next]_vars
  PROVE  TypeOK'
<1> USE BufsAssumption, WordsAssumption, ConfigsAssumption, AnswersAssumption
    DEF TypeOK
<1>1. CASE FetchFails
  BY <1>1 DEF FetchFails, FetchReturns, cache, handlers, history
<1>2. CASE FetchConfig
  <2>1. fetched + 1 \in 0..MaxConfigs /\ incoming' = Config(fetched + 1)
    BY <1>2 DEF FetchConfig, Usable
  <2>2. incoming' \in [1..Words -> 0..MaxConfigs]
    BY <2>1, ConfigFacts
  <2> QED BY <1>2, <2>1, <2>2 DEF FetchConfig, cache, handlers, process
<1>3. CASE LockAndMake
  <2>1. PICK b \in Bufs : ech' = b /\ mem' = [mem EXCEPT ![b] = Config(0)]
    BY <1>3 DEF LockAndMake, Config
  <2>2. mem' \in [Bufs -> [1..Words -> 0..MaxConfigs]]
    <3>1. 0 \in 0..MaxConfigs
      OBVIOUS
    <3>2. Config(0) \in [1..Words -> 0..MaxConfigs]
      BY <3>1, ConfigFacts
    <3> QED BY <2>1, <3>2
  <2>3. /\ UNCHANGED <<incoming, process, handlers, history>>
        /\ writer' = TRUE /\ copied' = 0 /\ refresher' = "copy"
    BY <1>3 DEF LockAndMake
  <2>4. 0 \in 0..Words
    OBVIOUS
  <2> QED BY <2>1, <2>2, <2>3, <2>4, WriteTypes
<1>4. CASE CopyIn
  <2>1. copied + 1 \in 1..Words /\ copied' = copied + 1
    BY <1>4 DEF CopyIn
  <2>2. mem' = [mem EXCEPT ![ech] = [mem[ech] EXCEPT
                  ![copied + 1] = incoming[copied + 1]]]
    BY <1>4 DEF CopyIn
  <2>3. incoming[copied + 1] \in 0..MaxConfigs
    BY <2>1
  <2> DEFINE w == [mem[ech] EXCEPT ![copied + 1] = incoming[copied + 1]]
  <2>4. ech \in Bufs => w \in [1..Words -> 0..MaxConfigs]
    BY <2>1, <2>3
  <2>5. mem' = [mem EXCEPT ![ech] = w]
    BY <2>2
  <2> HIDE DEF w
  <2>6. mem' \in [Bufs -> [1..Words -> 0..MaxConfigs]]
    BY <2>4, <2>5
  <2>7. /\ UNCHANGED <<writer, ech, refresher>> /\ refresher = "copy"
        /\ UNCHANGED <<incoming, process, handlers, history>>
    BY <1>4 DEF CopyIn
  <2>8. copied' \in 0..Words
    BY <2>1
  <2> QED BY <2>6, <2>7, <2>8, WriteTypes
<1>5. CASE Unlock
  BY <1>5 DEF Unlock, FetchReturns, handlers
<1>6. CASE TimerFires
  BY <1>6 DEF TimerFires, cache, handlers, history, process
<1>7. CASE Stopped
  BY <1>7 DEF Stopped, cache, handlers, history, process
<1>8. CASE Signal
  BY <1>8 DEF Signal, cache, handlers, history, refresh
<1>9. ASSUME NEW h \in Handlers, Receive(h) PROVE TypeOK'
  BY <1>9 DEF Receive, Goto, cache, refresh, process
<1>10. ASSUME NEW h \in Handlers, ResolveFails(h) PROVE TypeOK'
  BY <1>10 DEF ResolveFails, Goto, cache, refresh, process, history
<1>11. ASSUME NEW h \in Handlers, Resolved(h) PROVE TypeOK'
  <2>1. PICK a \in Answers :
          /\ answer' = [answer EXCEPT ![h] = a]
          /\ added' = [added EXCEPT ![h] = [i \in DOMAIN a |-> <<>>]]
    BY <1>11 DEF Resolved
  <2>2. answer' \in [Handlers -> Answers \cup {<<>>}] /\ DOMAIN added' = Handlers
    BY <2>1
  <2>3. ASSUME NEW g \in Handlers
        PROVE  /\ DOMAIN added'[g] = DOMAIN answer'[g]
               /\ \A i \in DOMAIN added'[g] : added'[g][i] \in Seq(0..MaxConfigs)
    <3>1. CASE g = h
      BY <2>1, <3>1
    <3>2. CASE g # h
      BY <2>1, <3>2
    <3> QED BY <3>1, <3>2
  <2> QED
    BY <1>11, <2>2, <2>3 DEF Resolved, Goto, cache, refresh, process, history
<1>12. ASSUME NEW h \in Handlers, ReadCache(h) PROVE TypeOK'
  BY <1>12 DEF ReadCache, Goto, cache, refresh, process, history
<1>13. ASSUME NEW h \in Handlers, NextRecord(h) PROVE TypeOK'
  <2>1. pos' \in [Handlers -> Nat]
    BY <1>13 DEF NextRecord
  <2> QED BY <1>13, <2>1 DEF NextRecord, cache, refresh, process, history
<1>14. ASSUME NEW h \in Handlers, CopyOut(h) PROVE TypeOK'
  <2> DEFINE i == pos[h]
             v == mem[snap[h]][Copied(h) + 1]
  <2>1. snap[h] \in Bufs /\ Copied(h) + 1 \in 1..Words
    BY <1>14 DEF CopyOut, SnapInv
  <2>2. v \in 0..MaxConfigs
    BY <2>1
  <2>3. added' = [added EXCEPT ![h] = [added[h] EXCEPT ![i] = Append(@, v)]]
    BY <1>14 DEF CopyOut
  <2> HIDE DEF v
  <2>4. ASSUME NEW g \in Handlers
        PROVE  /\ DOMAIN added'[g] = DOMAIN added[g]
               /\ \A j \in DOMAIN added'[g] : added'[g][j] \in Seq(0..MaxConfigs)
    <3>1. CASE g # h
      BY <2>3, <3>1
    <3>2. CASE g = h
      <4>1. added'[g] = [added[h] EXCEPT ![i] = Append(@, v)]
        BY <2>3, <3>2
      <4>2. ASSUME i \in DOMAIN added[h] PROVE Append(added[h][i], v) \in Seq(0..MaxConfigs)
        BY <2>2, <4>2
      <4> QED BY <3>2, <4>1, <4>2
    <3> QED BY <3>1, <3>2
  <2>5. DOMAIN added' = Handlers
    BY <2>3
  <2> QED BY <1>14, <2>4, <2>5 DEF CopyOut, cache, refresh, process, history
<1>15. ASSUME NEW h \in Handlers, Injected(h) PROVE TypeOK'
  BY <1>15 DEF Injected, Goto, cache, refresh, process, history
<1>16. ASSUME NEW h \in Handlers, WriteMsg(h) PROVE TypeOK'
  BY <1>16 DEF WriteMsg, Goto, cache, refresh, process, history
<1>17. CASE UNCHANGED vars
  BY <1>17 DEF vars, cache, refresh, process, handlers, history
<1> HIDE DEF TypeOK
<1> QED
  BY <1>1, <1>2, <1>3, <1>4, <1>5, <1>6, <1>7, <1>8, <1>9, <1>10, <1>11,
     <1>12, <1>13, <1>14, <1>15, <1>16, <1>17 DEF Next, Refresher, Handler

\* Only the refresher writes, and only into a buffer of its own.
LEMMA WriteNext ==
  ASSUME TypeOK, WriteInv, [Next]_vars
  PROVE  WriteInv'
<1> USE BufsAssumption, WordsAssumption, ConfigsAssumption DEF TypeOK, WriteInv
<1>1. CASE FetchFails
  BY <1>1 DEF FetchFails, cache, handlers, history
<1>2. CASE FetchConfig
  BY <1>2 DEF FetchConfig, Usable, cache, handlers
<1>3. CASE LockAndMake
  <2>1. PICK b \in Bufs : Unreferenced(b) /\ ech' = b
    BY <1>3 DEF LockAndMake
  <2>2. writer' /\ copied' = 0 /\ refresher' = "copy"
        /\ UNCHANGED <<incoming, fetched, published, snap>>
    BY <1>3 DEF LockAndMake, handlers, history
  <2>3. refresher = "lock"
    BY <1>3 DEF LockAndMake
  <2> QED BY <2>1, <2>2, <2>3 DEF Unreferenced
<1>4. CASE CopyIn
  <2>1. writer /\ ech \in Bufs /\ incoming = Config(fetched)
        /\ copied + 1 \in 1..Words
    BY <1>4 DEF CopyIn
  <2>2. /\ copied' = copied + 1
        /\ mem' = [mem EXCEPT ![ech] = [mem[ech] EXCEPT
                     ![copied + 1] = incoming[copied + 1]]]
        /\ UNCHANGED <<writer, ech, refresher, incoming, snap, fetched, published>>
    BY <1>4 DEF CopyIn, handlers, history
  <2>3. incoming[copied + 1] = fetched
    BY <2>1 DEF Config
  <2>4. ASSUME NEW w \in 1..Words, w <= copied' PROVE mem'[ech][w] = fetched
    <3>1. CASE w = copied + 1
      BY <2>1, <2>2, <2>3, <3>1
    <3>2. CASE w <= copied
      BY <2>1, <2>2, <3>2
    <3> QED BY <2>2, <2>4, <3>1, <3>2
  <2> QED BY <2>1, <2>2, <2>4
<1>5. CASE Unlock
  <2>1. /\ refresher = "copy" /\ copied + 1 \notin 1..Words
        /\ ~writer' /\ published' = fetched /\ refresher' = "wait"
        /\ UNCHANGED <<ech, mem, incoming, fetched, snap>>
    BY <1>5 DEF Unlock, handlers
  <2>2. \A w \in 1..Words : mem[ech][w] = fetched
    BY <2>1
  <2>3. mem[ech] = Config(fetched)
    BY <2>1, <2>2 DEF Config
  <2> QED BY <2>1, <2>3
<1>6. CASE TimerFires
  BY <1>6 DEF TimerFires, cache, handlers, history
<1>7. CASE Stopped
  BY <1>7 DEF Stopped, cache, handlers, history
<1>8. ASSUME NEW h \in Handlers, ReadCache(h) PROVE WriteInv'
  BY <1>8 DEF ReadCache, MayRead, cache, refresh, history
<1>9. ASSUME NEW h \in Handlers, WriteMsg(h) PROVE WriteInv'
  BY <1>9 DEF WriteMsg, cache, refresh, history
<1>10. CASE UNCHANGED <<cache, refresh, snap, fetched, published>>
  BY <1>10 DEF cache, refresh
<1> HIDE DEF WriteInv, TypeOK
<1> QED
  BY <1>1, <1>2, <1>3, <1>4, <1>5, <1>6, <1>7, <1>8, <1>9, <1>10
  DEF Next, Refresher, Handler, Signal, Receive, ResolveFails, Resolved,
      NextRecord, CopyOut, Injected, vars, handlers, history

\* A slice that a handler holds is not written any more.
LEMMA HeldIsStable ==
  ASSUME TypeOK, WriteInv, [Next]_vars, NEW h \in Handlers, snap[h] # NoBuf
  PROVE  mem'[snap[h]] = mem[snap[h]]
<1>1. CASE LockAndMake
  BY <1>1 DEF LockAndMake, Unreferenced, TypeOK
<1>2. CASE CopyIn
  BY <1>2 DEF CopyIn, TypeOK, WriteInv
<1>3. CASE mem' = mem
  BY <1>3
<1> QED
  BY <1>1, <1>2, <1>3
  DEF Next, Refresher, Handler, Signal, Receive, ResolveFails, Resolved,
      NextRecord, CopyOut, Injected, ReadCache, WriteMsg, FetchFails,
      FetchConfig, Unlock, TimerFires, Stopped, vars, cache

LEMMA SnapNext ==
  ASSUME TypeOK, WriteInv, SnapInv, [Next]_vars
  PROVE  SnapInv'
<1> USE BufsAssumption, WordsAssumption, ConfigsAssumption DEF SnapInv
<1>1. CASE UNCHANGED <<handlers, floor>> /\ published <= published'
  <2>1. UNCHANGED <<hpc, snap, pos>>
    BY <1>1 DEF handlers
  <2>2. published \in 0..MaxConfigs /\ published' \in 0..MaxConfigs
        /\ \A h \in Handlers : floor[h] \in 0..MaxConfigs
    BY TypeNext DEF TypeOK
  <2>3. 1..published \subseteq 1..published'
    BY <1>1, <2>2
  <2>4. ASSUME NEW h \in Handlers, snap[h] # NoBuf
        PROVE  mem'[snap[h]] = mem[snap[h]]
    BY <2>4, HeldIsStable
  <2>5. \A h \in Handlers : floor'[h] <= published'
    BY <1>1, <2>2
  <2> QED BY <1>1, <2>1, <2>3, <2>4, <2>5
<1>2. ASSUME NEW h \in Handlers, Receive(h) PROVE SnapInv'
  BY <1>2 DEF Receive, Goto, cache, TypeOK
<1>3. ASSUME NEW h \in Handlers, ReadCache(h) PROVE SnapInv'
  <2>1. ~writer /\ hpc[h] = "inject" /\ snap[h] = NoBuf
    BY <1>3 DEF ReadCache, MayRead, Goto
  <2>2. /\ UNCHANGED <<mem, floor, published>>
        /\ snap' = [snap EXCEPT ![h] = ech] /\ pos' = [pos EXCEPT ![h] = 1]
    BY <1>3 DEF ReadCache, cache, history
  <2>3. CASE ech = NoBuf
    <3>1. hpc' = [hpc EXCEPT ![h] = "write"] /\ published = 0 /\ floor[h] = 0
      BY <1>3, <2>1, <2>3 DEF ReadCache, Goto, WriteInv, TypeOK
    <3> QED BY <2>2, <2>3, <3>1 DEF TypeOK
  <2>4. CASE ech # NoBuf
    <3>1. published \in 1..published /\ mem[ech] = Config(published)
          /\ floor[h] <= published
      BY <2>1, <2>4 DEF WriteInv, TypeOK
    <3>2. mem[ech] # <<>>
      BY <3>1, ConfigFacts DEF TypeOK
    <3>3. hpc' = [hpc EXCEPT ![h] = "records"]
      BY <1>3, <2>4, <3>2 DEF ReadCache, Goto
    <3> QED BY <2>2, <2>4, <3>1, <3>3 DEF TypeOK
  <2> QED BY <2>3, <2>4
<1>4. ASSUME NEW h \in Handlers,
             ResolveFails(h) \/ Resolved(h) \/ CopyOut(h)
      PROVE  SnapInv'
  BY <1>4 DEF ResolveFails, Resolved, CopyOut, Goto, cache, history, TypeOK
<1>8. ASSUME NEW h \in Handlers, NextRecord(h) PROVE SnapInv'
  <2>1. UNCHANGED <<mem, hpc, snap, floor, published>>
    BY <1>8 DEF NextRecord, cache, history
  <2>2. \A g \in Handlers : pos[g] > 0 => pos'[g] > 0
    BY <1>8 DEF NextRecord, TypeOK
  <2> QED BY <2>1, <2>2
<1>5. ASSUME NEW h \in Handlers, Injected(h) PROVE SnapInv'
  BY <1>5 DEF Injected, Goto, cache, history, TypeOK
<1>6. ASSUME NEW h \in Handlers, WriteMsg(h) PROVE SnapInv'
  BY <1>6 DEF WriteMsg, Goto, cache, history, TypeOK
<1>7. CASE Refresher \/ Stopped \/ Signal \/ UNCHANGED vars
  <2>1. UNCHANGED <<handlers, floor>> /\ published <= published'
    BY <1>7
    DEF Refresher, Stopped, Signal, vars, FetchFails, FetchConfig, LockAndMake,
        CopyIn, Unlock, TimerFires, history, TypeOK, WriteInv
  <2> QED BY <1>1, <2>1
<1> HIDE DEF SnapInv
<1> QED BY <1>2, <1>3, <1>4, <1>5, <1>6, <1>7, <1>8 DEF Next, Handler

LEMMA AnswerIsSeq ==
  ASSUME TypeOK, NEW h \in Handlers
  PROVE  answer[h] \in Seq(Kinds) /\ DOMAIN added[h] = DOMAIN answer[h]
<1>1. answer[h] \in Answers \/ answer[h] = <<>>
  BY DEF TypeOK
<1>2. <<>> \in Seq(Kinds)
  OBVIOUS
<1> QED BY <1>1, <1>2, AnswersAssumption DEF TypeOK

\* What CopyOut does to the words of an answer.
LEMMA CopyOutStep ==
  ASSUME TypeOK, SnapInv, NEW h \in Handlers, CopyOut(h)
  PROVE  LET i == pos[h]
             v == mem[snap[h]][1]
         IN  /\ i \in DOMAIN added[h] /\ answer[h][i] = "bare"
             /\ Len(added[h][i]) < Words
             /\ added' = [added EXCEPT ![h] =
                            [added[h] EXCEPT ![i] = Append(added[h][i], v)]]
<1>1. snap[h] \in Bufs /\ Copied(h) + 1 \in 1..Words
      /\ pos[h] <= Len(answer[h]) /\ answer[h][pos[h]] = "bare"
  BY DEF CopyOut, NeedsECH, SnapInv, TypeOK
<1>2. pos[h] \in DOMAIN added[h]
  <2>1. answer[h] \in Seq(Kinds) /\ DOMAIN added[h] = DOMAIN answer[h]
    BY AnswerIsSeq
  <2>2. pos[h] \in Nat /\ pos[h] > 0
    BY DEF CopyOut, SnapInv, TypeOK
  <2> QED BY <1>1, <2>1, <2>2
<1>3. mem[snap[h]][Copied(h) + 1] = mem[snap[h]][1]
  <2>1. PICK n \in 1..published : mem[snap[h]] = Config(n)
    BY <1>1, BufsAssumption DEF SnapInv
  <2> QED BY <1>1, <2>1, WordsAssumption DEF Config
<1>4. Len(added[h][pos[h]]) < Words
  BY <1>1, <1>2, WordsAssumption DEF Copied, TypeOK
<1> QED BY <1>1, <1>2, <1>3, <1>4 DEF CopyOut

LEMMA WordNext ==
  ASSUME TypeOK, WriteInv, SnapInv, WordInv, [Next]_vars
  PROVE  WordInv'
<1> DEFINE Right(h) == \A i \in DOMAIN added[h] :
                         /\ Len(added[h][i]) <= Words
                         /\ \A w \in DOMAIN added[h][i] :
                              snap[h] # NoBuf /\ added[h][i][w] = mem[snap[h]][1]
<1> SUFFICES ASSUME NEW h \in Handlers PROVE Right(h)'
  BY DEF WordInv
<1>0. Right(h)
  BY DEF WordInv
<1>1. CASE added'[h] = added[h] /\ snap'[h] = snap[h]
  BY <1>0, <1>1, HeldIsStable
<1>2. CASE Resolved(h)
  <2>1. \A i \in DOMAIN added'[h] : added'[h][i] = <<>>
    BY <1>2 DEF Resolved, TypeOK
  <2> QED BY <2>1, WordsAssumption
<1>3. CASE ReadCache(h)
  <2>1. snap[h] = NoBuf /\ added' = added
    BY <1>3 DEF ReadCache, Goto, SnapInv
  <2> QED BY <1>0, <2>1
<1>4. CASE CopyOut(h)
  <2> DEFINE j == pos[h]
             v == mem[snap[h]][1]
  <2>1. /\ added' = [added EXCEPT ![h] =
                       [added[h] EXCEPT ![j] = Append(added[h][j], v)]]
        /\ j \in DOMAIN added[h] /\ Len(added[h][j]) < Words
    BY <1>4, CopyOutStep
  <2>2. snap'[h] = snap[h] /\ mem' = mem /\ snap[h] # NoBuf
    BY <1>4 DEF CopyOut, SnapInv, cache
  <2>3. /\ v \in 0..MaxConfigs /\ added[h][j] \in Seq(0..MaxConfigs)
        /\ DOMAIN added = Handlers
    <3>1. snap[h] \in Bufs /\ 1 \in 1..Words
      BY <2>2, WordsAssumption DEF TypeOK
    <3>2. mem[snap[h]] \in [1..Words -> 0..MaxConfigs]
      BY <3>1 DEF TypeOK
    <3>3. mem[snap[h]][1] \in 0..MaxConfigs
      BY <3>1, <3>2
    <3> QED BY <2>1, <3>3 DEF TypeOK
  <2> HIDE DEF v
  <2>4. ASSUME NEW i \in DOMAIN added'[h]
        PROVE  /\ Len(added'[h][i]) <= Words
               /\ \A w \in DOMAIN added'[h][i] : added'[h][i][w] = v
    <3>1. CASE i = j
      <4>1. added'[h][i] = Append(added[h][j], v)
        BY <2>1, <2>3, <3>1
      <4>2. \A w \in DOMAIN added[h][j] : added[h][j][w] = v
        BY <1>0, <2>1 DEF v
      <4> QED BY <2>1, <2>3, <4>1, <4>2, WordsAssumption
    <3>2. CASE i # j
      <4>1. i \in DOMAIN added[h] /\ added'[h][i] = added[h][i]
        BY <2>1, <2>3, <3>2
      <4> QED BY <1>0, <4>1 DEF v
    <3> QED BY <3>1, <3>2
  <2> QED BY <2>2, <2>4 DEF v
<1>5. CASE WriteMsg(h)
  <2>1. added'[h] = <<>>
    BY <1>5 DEF WriteMsg, TypeOK
  <2> QED BY <2>1
<1> HIDE DEF Right
<1>6. CASE UNCHANGED <<added, snap>>
  BY <1>1, <1>6
<1>7. ASSUME NEW g \in Handlers, g # h,
             Resolved(g) \/ ReadCache(g) \/ CopyOut(g) \/ WriteMsg(g)
      PROVE  Right(h)'
  <2>1. added'[h] = added[h] /\ snap'[h] = snap[h]
    BY <1>7 DEF Resolved, ReadCache, CopyOut, WriteMsg, TypeOK
  <2> QED BY <1>1, <2>1
<1> QED
  BY <1>2, <1>3, <1>4, <1>5, <1>6, <1>7
  DEF Next, Handler, Refresher, Stopped, Signal, FetchFails, FetchConfig,
      LockAndMake, CopyIn, Unlock, TimerFires, Receive, ResolveFails,
      NextRecord, Injected, vars, handlers

LEMMA PosNext ==
  ASSUME TypeOK, SnapInv, WordInv, PosInv, [Next]_vars
  PROVE  PosInv'
<1> DEFINE Done(h) ==
      /\ \A i \in DOMAIN answer[h] :
           /\ answer[h][i] # "bare" => added[h][i] = <<>>
           /\ snap[h] # NoBuf /\ i < pos[h] /\ answer[h][i] = "bare" =>
                Len(added[h][i]) = Words
      /\ hpc[h] = "write" /\ snap[h] # NoBuf => pos[h] > Len(answer[h])
<1> SUFFICES ASSUME NEW h \in Handlers PROVE Done(h)'
  BY DEF PosInv
<1>0. Done(h)
  BY DEF PosInv
<1>1. CASE /\ answer'[h] = answer[h] /\ added'[h] = added[h]
           /\ snap'[h] = snap[h] /\ pos'[h] = pos[h]
           /\ hpc'[h] = hpc[h] \/ hpc'[h] # "write"
  BY <1>0, <1>1
<1>2. CASE Resolved(h)
  <2>1. \A i \in DOMAIN answer'[h] : added'[h][i] = <<>>
    BY <1>2 DEF Resolved, TypeOK
  <2>2. snap'[h] = NoBuf
    BY <1>2 DEF Resolved, Goto, SnapInv
  <2> QED BY <2>1, <2>2
<1>3. CASE ReadCache(h)
  <2>1. /\ UNCHANGED <<answer, added>> /\ pos'[h] = 1 /\ snap'[h] = ech
        /\ hpc'[h] = IF ech = NoBuf \/ mem[ech] = <<>> THEN "write" ELSE "records"
    BY <1>3 DEF ReadCache, Goto, TypeOK
  <2>2. ech # NoBuf => mem[ech] # <<>>
    BY WordsAssumption DEF TypeOK
  <2>3. answer[h] \in Seq(Kinds)
    BY AnswerIsSeq
  <2> QED BY <1>0, <2>1, <2>2, <2>3
<1>4. CASE NextRecord(h)
  <2>1. /\ UNCHANGED <<hpc, answer, added, snap>> /\ pos'[h] = pos[h] + 1
        /\ pos[h] \in Nat /\ hpc[h] = "records" /\ snap[h] \in Bufs
    BY <1>4 DEF NextRecord, SnapInv, TypeOK
  <2>2. ASSUME pos[h] \in DOMAIN answer[h], answer[h][pos[h]] = "bare"
        PROVE  Len(added[h][pos[h]]) = Words
    <3>1. Copied(h) + 1 \notin 1..Words
      BY <1>4, <2>1, <2>2 DEF NextRecord, NeedsECH, TypeOK
    <3>2. Copied(h) \in Nat /\ Copied(h) <= Words
      BY <2>2 DEF Copied, WordInv, TypeOK
    <3> QED BY <3>1, <3>2, WordsAssumption DEF Copied
  <2>3. \A i \in DOMAIN answer[h] : i < pos'[h] => i < pos[h] \/ i = pos[h]
    <3>1. answer[h] \in Seq(Kinds)
      BY AnswerIsSeq
    <3> QED BY <2>1, <3>1
  <2> QED BY <1>0, <2>1, <2>2, <2>3
<1>5. CASE CopyOut(h)
  <2>1. /\ UNCHANGED <<hpc, answer, pos, snap>> /\ hpc[h] = "records"
        /\ pos[h] \in Nat
    BY <1>5 DEF CopyOut, TypeOK
  <2>2. \A i \in DOMAIN answer[h] : i # pos[h] => added'[h][i] = added[h][i]
    BY <1>5, CopyOutStep DEF TypeOK
  <2>3. answer[h][pos[h]] = "bare"
    BY <1>5, CopyOutStep
  <2> QED BY <1>0, <2>1, <2>2, <2>3
<1>6. CASE Injected(h)
  <2>1. UNCHANGED <<answer, added, pos, snap>> /\ pos[h] > Len(answer[h])
    BY <1>6 DEF Injected
  <2> QED BY <1>0, <2>1
<1>7. CASE WriteMsg(h)
  <2>1. answer'[h] = <<>> /\ snap'[h] = NoBuf
    BY <1>7 DEF WriteMsg, TypeOK
  <2> QED BY <2>1
<1>8. CASE Receive(h) \/ ResolveFails(h)
  <2>1. /\ UNCHANGED <<answer, added, snap, pos>>
        /\ hpc'[h] # "write"
    BY <1>8 DEF Receive, ResolveFails, Goto, TypeOK
  <2> QED BY <1>1, <2>1
<1> HIDE DEF Done
<1>9. CASE UNCHANGED handlers
  BY <1>1, <1>9 DEF handlers
<1>10. ASSUME NEW g \in Handlers, g # h, Handler(g) PROVE Done(h)'
  <2>1. /\ answer'[h] = answer[h] /\ added'[h] = added[h]
        /\ snap'[h] = snap[h] /\ pos'[h] = pos[h] /\ hpc'[h] = hpc[h]
    BY <1>10
    DEF Handler, Receive, ResolveFails, Resolved, ReadCache, NextRecord,
        CopyOut, Injected, WriteMsg, Goto, TypeOK
  <2> QED BY <1>1, <2>1
<1> QED
  BY <1>2, <1>3, <1>4, <1>5, <1>6, <1>7, <1>8, <1>9, <1>10
  DEF Next, Handler, Refresher, Stopped, Signal, FetchFails, FetchConfig,
      LockAndMake, CopyIn, Unlock, TimerFires, vars

LEMMA NextInv == Inv /\ [Next]_vars => Inv'
  BY TypeNext, WriteNext, SnapNext, WordNext, PosNext DEF Inv

LEMMA Invariance == Spec => []Inv
  BY InitInv, NextInv, PTL DEF Spec

-----------------------------------------------------------------------------
(* The theorems.                                                           *)

\* Every variable keeps to its type: no copy runs past the end of a slice.
THEOREM TypeCorrect == Spec => []TypeOK
  BY Invariance, PTL DEF Inv

\* All words a handler has put in are those of the configuration it took.
LEMMA PutIsSnapshot ==
  ASSUME Inv, NEW h \in Handlers
  PROVE  /\ Put(h) # {} => snap[h] # NoBuf
         /\ snap[h] # NoBuf => Put(h) \subseteq {mem[snap[h]][1]}
  BY DEF Inv, WordInv, Put

LEMMA SnapshotIsConfig ==
  ASSUME Inv, NEW h \in Handlers, snap[h] # NoBuf
  PROVE  /\ mem[snap[h]][1] \in 1..MaxConfigs
         /\ mem[snap[h]][1] <= published /\ floor[h] <= mem[snap[h]][1]
<1>1. PICK n \in 1..published : mem[snap[h]] = Config(n) /\ floor[h] <= n
  BY DEF Inv, SnapInv
<1>2. n \in 1..MaxConfigs
  BY ConfigsAssumption DEF Inv, TypeOK
<1>3. Config(n)[1] = n
  BY <1>2, ConfigFacts, ConfigsAssumption
<1> QED BY <1>1, <1>2, <1>3 DEF Inv, TypeOK

\* No answer ever holds a torn configuration, or two of them.
THEOREM OneConfig == Spec => []OneWholeConfig
<1>1. Inv => OneWholeConfig
  BY PutIsSnapshot, SnapshotIsConfig DEF OneWholeConfig
<1> QED BY <1>1, Invariance, PTL

\* Once a configuration is stored, every later answer is complete.
THEOREM Complete == Spec => []FreshAndComplete
<1>1. ASSUME Inv, NEW h \in Handlers, hpc[h] = "write", floor[h] > 0,
             NEW i \in DOMAIN answer[h]
      PROVE  IF answer[h][i] = "bare"
             THEN Len(added[h][i]) = Words
                  /\ \A w \in 1..Words : added[h][i][w] >= floor[h]
             ELSE added[h][i] = <<>>
  <2>1. snap[h] # NoBuf
    BY <1>1 DEF Inv, SnapInv
  <2>2. CASE answer[h][i] = "bare"
    <3>1. answer[h] \in Seq(Kinds) /\ i \in DOMAIN added[h] /\ pos[h] \in Nat
      BY <1>1, AnswerIsSeq DEF Inv, TypeOK
    <3>2. i < pos[h]
      BY <1>1, <2>1, <3>1 DEF Inv, PosInv
    <3>3. Len(added[h][i]) = Words
      BY <1>1, <2>1, <2>2, <3>2 DEF Inv, PosInv
    <3>4. DOMAIN added[h][i] = 1..Words
      BY <3>1, <3>3, <1>1 DEF Inv, TypeOK
    <3>5. \A w \in 1..Words : added[h][i][w] = mem[snap[h]][1]
      BY <3>1, <3>4, <1>1 DEF Inv, WordInv
    <3>6. mem[snap[h]][1] >= floor[h]
      BY <1>1, <2>1, SnapshotIsConfig DEF Inv, TypeOK
    <3> QED BY <2>2, <3>3, <3>5, <3>6
  <2>3. CASE answer[h][i] # "bare"
    BY <1>1, <2>3 DEF Inv, PosInv
  <2> QED BY <2>2, <2>3
<1>2. Inv => FreshAndComplete
  BY <1>1 DEF FreshAndComplete
<1> QED BY <1>2, Invariance, PTL

-----------------------------------------------------------------------------
(* Refinement.                                                             *)

\* What a handler has read, as the register sees it.
Seen(h) ==
  IF hpc[h] \notin {"records", "write"} THEN NotRead
  ELSE IF snap[h] = NoBuf THEN 0 ELSE mem[snap[h]][1]

\* The cache is an atomic register: the slice taken under the read lock is
\* one value, whatever is copied when.
THEOREM Implements == Spec => ImplementsRegister
<1>1. Init => Register!Init
  <2>1. ASSUME Init, NEW h \in Handlers PROVE Put(h) = {}
    BY <2>1 DEF Init, Put
  <2> QED BY <2>1 DEF Init, Register!Init
<1>2. Inv /\ [Next]_vars => [Register!Next]_(Register!vars)
  <2> SUFFICES ASSUME Inv, Inv', [Next]_vars
               PROVE  Register!Next \/ UNCHANGED Register!vars
    BY NextInv
  <2>0. ASSUME published' = published,
               \A h \in Handlers : Seen(h)' = Seen(h) /\ Put(h)' = Put(h)
        PROVE  UNCHANGED Register!vars
    BY <2>0 DEF Register!vars, Seen
  <2>1. ASSUME NEW h \in Handlers,
               hpc'[h] = hpc[h], snap'[h] = snap[h], added'[h] = added[h]
        PROVE  Seen(h)' = Seen(h) /\ Put(h)' = Put(h)
    BY <2>1, HeldIsStable DEF Seen, Put, Inv
  <2>2. CASE UNCHANGED handlers /\ published' = published
    BY <2>0, <2>1, <2>2 DEF handlers
  <2>3. CASE Unlock
    <3>1. UNCHANGED handlers /\ published' = published + 1
      BY <2>3 DEF Unlock, Inv, WriteInv
    <3>2. \A h \in Handlers : Seen(h)' = Seen(h) /\ Put(h)' = Put(h)
      BY <2>1, <3>1 DEF handlers
    <3>3. Register!Publish
      BY <3>1, <3>2 DEF Register!Publish, Seen
    <3> QED BY <3>3 DEF Register!Next
  <2>4. ASSUME NEW h \in Handlers, Handler(h), NEW g \in Handlers, g # h
        PROVE  Seen(g)' = Seen(g) /\ Put(g)' = Put(g)
    <3>1. hpc'[g] = hpc[g] /\ snap'[g] = snap[g] /\ added'[g] = added[g]
      BY <2>4
      DEF Handler, Receive, ResolveFails, Resolved, ReadCache, NextRecord,
          CopyOut, Injected, WriteMsg, Goto, Inv, TypeOK
    <3> QED BY <2>1, <3>1
  <2>5. ASSUME NEW h \in Handlers, Handler(h), Seen(h)' = Seen(h),
               Put(h)' = Put(h), published' = published
        PROVE  UNCHANGED Register!vars
    BY <2>0, <2>4, <2>5
  <2>6. ASSUME NEW h \in Handlers, Receive(h) \/ ResolveFails(h) \/ Resolved(h)
        PROVE  UNCHANGED Register!vars
    <3>1. /\ hpc[h] \in {"idle", "resolve"}
          /\ hpc'[h] \in {"idle", "resolve", "inject"}
          /\ published' = published
      BY <2>6 DEF Receive, ResolveFails, Resolved, Goto, history, Inv, TypeOK
    <3>2. snap[h] = NoBuf /\ snap'[h] = NoBuf
      BY <3>1 DEF Inv, SnapInv
    <3>3. Put(h) = {}
      BY <3>2, PutIsSnapshot
    <3>4. Put(h)' = {}
      BY <3>2 DEF Inv, WordInv, Put
    <3>5. Seen(h)' = Seen(h)
      BY <3>1 DEF Seen
    <3> QED BY <2>5, <2>6, <3>1, <3>3, <3>4, <3>5 DEF Handler
  <2>7. ASSUME NEW h \in Handlers, ReadCache(h) PROVE Register!Read(h)
    <3>1. /\ hpc[h] = "inject" /\ hpc'[h] \in {"records", "write"} /\ ~writer
          /\ snap'[h] = ech /\ UNCHANGED <<mem, added, published>>
      BY <2>7 DEF ReadCache, MayRead, Goto, cache, history, Inv, TypeOK
    <3>2. Seen(h) = NotRead
      BY <3>1 DEF Seen
    <3>3. Seen(h)' = published
      <4>1. CASE ech = NoBuf
        BY <3>1, <4>1 DEF Seen, Inv, WriteInv
      <4>2. CASE ech # NoBuf
        <5>1. mem[ech] = Config(published) /\ published \in 0..MaxConfigs
          BY <3>1, <4>2 DEF Inv, WriteInv, TypeOK
        <5>2. Config(published)[1] = published
          BY <5>1, ConfigFacts
        <5> QED BY <3>1, <4>2, <5>1, <5>2 DEF Seen
      <4> QED BY <4>1, <4>2
    <3>4. Put(h)' = Put(h)
      BY <3>1 DEF Put
    <3>5. [g \in Handlers |-> Seen(g)]' =
            [[g \in Handlers |-> Seen(g)] EXCEPT ![h] = published]
      BY <2>4, <2>7, <3>3 DEF Handler
    <3>6. [g \in Handlers |-> Put(g)]' = [g \in Handlers |-> Put(g)]
      BY <2>4, <2>7, <3>4 DEF Handler
    <3> QED BY <3>1, <3>2, <3>5, <3>6 DEF Register!Read, Seen
  <2>8. ASSUME NEW h \in Handlers, NextRecord(h) \/ Injected(h)
        PROVE  UNCHANGED Register!vars
    <3>1. /\ UNCHANGED <<mem, snap, added, published>>
          /\ hpc[h] = "records" /\ hpc'[h] \in {"records", "write"}
      BY <2>8 DEF NextRecord, Injected, Goto, cache, history, Inv, TypeOK
    <3>2. Seen(h)' = Seen(h) /\ Put(h)' = Put(h)
      BY <3>1 DEF Seen, Put
    <3> QED BY <2>5, <2>8, <3>1, <3>2 DEF Handler
  <2>9. ASSUME NEW h \in Handlers, CopyOut(h) PROVE Register!Put(h)
    <3>1. /\ UNCHANGED <<mem, snap, hpc, published>> /\ hpc[h] = "records"
          /\ snap[h] # NoBuf
      BY <2>9 DEF CopyOut, cache, history, Inv, SnapInv
    <3>2. Seen(h) = mem[snap[h]][1] /\ Seen(h)' = Seen(h)
      BY <3>1 DEF Seen
    <3>3. Seen(h) \in Nat \ {0}
      BY <3>1, <3>2, SnapshotIsConfig, ConfigsAssumption
    <3>4. Put(h)' \subseteq {Seen(h)}
      BY <3>1, <3>2 DEF Inv, WordInv, Put
    <3>5. Seen(h) \in Put(h)'
      <4> DEFINE i == pos[h]
      <4>1. /\ i \in DOMAIN added[h]
            /\ added' = [added EXCEPT ![h] = [added[h] EXCEPT
                           ![i] = Append(added[h][i], mem[snap[h]][1])]]
        BY <2>9, CopyOutStep DEF Inv
      <4>2. added'[h][i] = Append(added[h][i], Seen(h))
            /\ i \in DOMAIN added'[h]
        BY <3>2, <4>1 DEF Inv, TypeOK
      <4>3. added[h][i] \in Seq(0..MaxConfigs)
        BY <4>1 DEF Inv, TypeOK
      <4>4. Seen(h) \in 0..MaxConfigs
        BY <3>1, <3>2, SnapshotIsConfig
      <4> DEFINE w == Len(added[h][i]) + 1
      <4>5. w \in DOMAIN added'[h][i] /\ added'[h][i][w] = Seen(h)
        BY <4>2, <4>3, <4>4
      <4> QED BY <4>2, <4>5 DEF Put
    <3>6. Put(h)' = {Seen(h)}
      BY <3>4, <3>5
    <3>7. [g \in Handlers |-> Put(g)]' =
            [[g \in Handlers |-> Put(g)] EXCEPT ![h] = {Seen(h)}]
      BY <2>4, <2>9, <3>6 DEF Handler
    <3>8. [g \in Handlers |-> Seen(g)]' = [g \in Handlers |-> Seen(g)]
      BY <2>4, <2>9, <3>2 DEF Handler
    <3> QED BY <3>1, <3>3, <3>7, <3>8 DEF Register!Put, Seen
  <2>10. ASSUME NEW h \in Handlers, WriteMsg(h) PROVE Register!Reply(h)
    <3>1. /\ hpc[h] = "write" /\ hpc'[h] = "idle" /\ published' = published
          /\ added'[h] = <<>>
      BY <2>10 DEF WriteMsg, Goto, history, Inv, TypeOK
    <3>2. Seen(h) # NotRead
      BY <3>1, SnapshotIsConfig, NotReadAssumption, ConfigsAssumption DEF Seen
    <3>3. Seen(h)' = NotRead /\ Put(h)' = {}
      BY <3>1 DEF Seen, Put
    <3>4. [g \in Handlers |-> Seen(g)]' =
            [[g \in Handlers |-> Seen(g)] EXCEPT ![h] = NotRead]
      BY <2>4, <2>10, <3>3 DEF Handler
    <3>5. [g \in Handlers |-> Put(g)]' =
            [[g \in Handlers |-> Put(g)] EXCEPT ![h] = {}]
      BY <2>4, <2>10, <3>3 DEF Handler
    <3> QED BY <3>1, <3>2, <3>4, <3>5 DEF Register!Reply, Seen
  <2>11. CASE FetchFails \/ FetchConfig \/ LockAndMake \/ CopyIn
              \/ TimerFires \/ Stopped \/ Signal \/ UNCHANGED vars
    BY <2>2, <2>11
    DEF FetchFails, FetchConfig, LockAndMake, CopyIn, TimerFires, Stopped,
        Signal, vars, history
  <2> QED
    BY <2>3, <2>6, <2>7, <2>8, <2>9, <2>10, <2>11
    DEF Next, Refresher, Handler, Register!Next
<1> QED BY <1>1, <1>2, Invariance, PTL
        DEF Spec, ImplementsRegister, Register!Spec
=============================================================================
