--------------------------- MODULE RunBenchProofs ---------------------------
(***************************************************************************)
(* Proofs about RunBench, for any number of targets, any -concurrency and  *)
(* any moment of an interrupt: the pool is type correct, respects its      *)
(* bound, returns complete results and counts its progress without gaps.   *)
(*                                                                         *)
(* The argument counts workers: the semaphore, the WaitGroup, the counter  *)
(* of the callback and the number of printed lines are each the size of a  *)
(* set of workers, given by the places of the program they are at.         *)
(***************************************************************************)
EXTENDS RunBench, FiniteSetTheorems, TLAPS

At(P)   == {w \in Targets : wpc[w] \in P}
Size(P) == Cardinality(At(P))

HoldsSlot  == {"probe", "lock", "store", "report", "count", "print", "unlock",
               "release"}
Started    == HoldsSlot \cup {"finish"}
Shown      == {"unlock", "release", "finish", "gone"}
Counted    == {"print"} \cup Shown
Stored     == {"report", "count"} \cup Counted
InBench    == {"store", "report", "count", "print", "unlock"}
InProgress == {"count", "print"}

\* The workers are started in the order of the targets, each with its index.
StartInv ==
  /\ \A w \in Targets : wpc[w] = "unborn" <=> w >= next
  /\ \A w \in Targets : w < next => slot[w] = w
  /\ main = "acquire" => next <= N
  /\ main = "returned" => \A w \in Targets : wpc[w] = "gone"

\* The WaitGroup counts the workers that are not done yet, and the one that
\* is about to start; the semaphore counts the workers that hold a place.
CountInv ==
  /\ wg = Size(Started) + (IF main = "acquire" THEN 1 ELSE 0)
  /\ sem = Size(HoldsSlot)
  /\ sem <= capacity

\* A worker past its measurement has an outcome, and past its store it is in
\* the results.
ResultInv ==
  \A w \in Targets :
    /\ wpc[w] \notin {"unborn", "probe"} => outcome[w] # None
    /\ wpc[w] \in Stored => results[w] = <<w, outcome[w]>>

\* Each mutex is held by the worker in its critical section.
LockInv ==
  \A w \in Targets : /\ lock["bench"] = w <=> wpc[w] \in InBench
                     /\ lock["progress"] = w <=> wpc[w] \in InProgress

\* The counter and the lines agree with the workers that have reported.
ProgressInv ==
  /\ \A w \in Targets : wpc[w] = "count" => seen[w] = done
  /\ done = Size(Counted)
  /\ Len(printed) = Size(Shown)
  /\ \A k \in DOMAIN printed : printed[k] = k

Inv ==
  TypeOK /\ StartInv /\ CountInv /\ ResultInv /\ LockInv /\ ProgressInv

-----------------------------------------------------------------------------
(* Sizes of sets of workers.                                               *)

LEMMA SizeBounds ==
  ASSUME NEW S \in SUBSET Targets
  PROVE  IsFiniteSet(S) /\ Cardinality(S) \in 0..N
<1>1. IsFiniteSet(Targets) /\ Cardinality(Targets) = N
  BY FS_Interval, NAssumption DEF Targets
<1>2. IsFiniteSet(S) /\ Cardinality(S) <= N
  BY <1>1, FS_Subset
<1> QED
  BY <1>2, FS_CardinalityType, NAssumption

LEMMA WholePool ==
  ASSUME NEW S \in SUBSET Targets
  PROVE  /\ Cardinality(S) = 0 <=> S = {}
         /\ Cardinality(S) = N <=> S = Targets
<1>1. IsFiniteSet(Targets) /\ Cardinality(Targets) = N
  BY FS_Interval, NAssumption DEF Targets
<1>2. IsFiniteSet(S)
  BY SizeBounds
<1> QED
  BY <1>1, <1>2, FS_Subset, FS_EmptySet

LEMMA SizeType ==
  ASSUME NEW P
  PROVE  /\ Size(P) \in 0..N
         /\ Size(P)' \in 0..N
<1>1. At(P) \in SUBSET Targets /\ At(P)' \in SUBSET Targets
  BY DEF At
<1> QED
  BY <1>1, SizeBounds DEF Size

\* A worker that moves joins the sets its new place is in and leaves those
\* of its old one.
LEMMA SizeMoves ==
  ASSUME wpc \in [Targets -> Places], NEW w \in Targets, NEW from, NEW to,
         Goto(w, from, to), NEW P
  PROVE  Size(P)' = Size(P) + (IF to \in P /\ from \notin P THEN 1 ELSE 0)
                            - (IF from \in P /\ to \notin P THEN 1 ELSE 0)
<1>1. IsFiniteSet(At(P)) /\ Size(P) \in Nat
  <2>1. At(P) \in SUBSET Targets
    BY DEF At
  <2> QED
    BY <2>1, SizeBounds DEF Size
<1>2. CASE to \in P
  <2>1. At(P)' = At(P) \cup {w}
    BY <1>2 DEF At, Goto
  <2>2. w \in At(P) <=> from \in P
    BY DEF At, Goto
  <2>3. Size(P)' = IF w \in At(P) THEN Size(P) ELSE Size(P) + 1
    BY <1>1, <2>1, FS_AddElement DEF Size
  <2> QED
    BY <1>1, <1>2, <2>2, <2>3
<1>3. CASE to \notin P
  <2>1. At(P)' = At(P) \ {w}
    BY <1>3 DEF At, Goto
  <2>2. w \in At(P) <=> from \in P
    BY DEF At, Goto
  <2>3. Size(P)' = IF w \in At(P) THEN Size(P) - 1 ELSE Size(P)
    BY <1>1, <2>1, FS_RemoveElement DEF Size
  <2> QED
    BY <1>1, <1>3, <2>2, <2>3
<1> QED
  BY <1>2, <1>3

LEMMA SizeStays ==
  ASSUME UNCHANGED wpc, NEW P
  PROVE  Size(P)' = Size(P)
BY DEF Size, At

-----------------------------------------------------------------------------
(* Inv is inductive.                                                       *)

LEMMA InitInv == Init => Inv
<1> SUFFICES ASSUME Init PROVE Inv
  OBVIOUS
<1> USE NAssumption, NoWorkerAssumption DEF Init
<1>1. ASSUME NEW P, "unborn" \notin P
      PROVE  Size(P) = 0
  <2>1. At(P) = {}
    BY <1>1 DEF At
  <2> QED
    BY <2>1, FS_EmptySet DEF Size
<1>2. TypeOK
  <2>1. capacity \in Nat \ {0}
    BY ConcurrenciesAssumption DEF Capacity
  <2>2. printed \in Seq(0..N)
    OBVIOUS
  <2>3. /\ sem \in 0..N /\ wg \in 0..N /\ done \in 0..N
        /\ next \in 1..(N + 1)
        /\ slot \in [Targets -> 0..N] /\ seen \in [Targets -> 0..N]
    OBVIOUS
  <2>4. results \in [Targets -> (0..N) \X Outcomes]
    BY DEF Outcomes
  <2> QED
    BY <2>1, <2>2, <2>3, <2>4 DEF TypeOK, Places, Outcomes
<1>3. StartInv
  BY DEF StartInv, Targets
<1>4. CountInv
  <2>1. Size(Started) = 0 /\ Size(HoldsSlot) = 0
    BY <1>1 DEF Started, HoldsSlot
  <2> QED
    BY <1>2, <2>1 DEF CountInv, TypeOK
<1>5. ResultInv
  BY DEF ResultInv, Stored, Counted, Shown
<1>6. LockInv
  BY DEF LockInv, InBench, InProgress, Mutexes
<1>7. ProgressInv
  BY <1>1 DEF ProgressInv, Counted, Shown
<1> QED
  BY <1>2, <1>3, <1>4, <1>5, <1>6, <1>7 DEF Inv

\* What every move of a running worker keeps.
LEMMA StartStays ==
  ASSUME Inv, NEW w \in Targets, NEW from, NEW to, Goto(w, from, to),
         from \notin {"unborn", "gone"}, to # "unborn",
         UNCHANGED <<next, main, slot>>
  PROVE  StartInv'
BY DEF Inv, TypeOK, StartInv, Goto

LEMMA Returned ==
  ASSUME Inv, next > N, wg = 0, main = "loop"
  PROVE  \A w \in Targets : wpc[w] = "gone"
<1>1. At(Started) = {}
  <2>1. At(Started) \in SUBSET Targets
    BY DEF At
  <2>2. Size(Started) = 0
    BY SizeType DEF Inv, CountInv
  <2> QED
    BY <2>1, <2>2, WholePool DEF Size
<1>2. \A w \in Targets : wpc[w] # "unborn"
  BY NAssumption DEF Inv, TypeOK, StartInv, Targets
<1> QED
  BY <1>1, <1>2 DEF At, Started, HoldsSlot, Inv, TypeOK, Places

\* The WaitGroup never counts more workers than there are targets.
LEMMA AddFits ==
  ASSUME Inv, main = "loop", next <= N
  PROVE  next \in Targets /\ Size(Started) + 1 \in 0..N
<1>1. next \in Targets /\ wpc[next] = "unborn"
  BY NAssumption DEF Inv, TypeOK, StartInv, Targets
<1>2. At(Started) \in SUBSET Targets /\ next \notin At(Started)
  BY <1>1 DEF At, Started, HoldsSlot
<1>3. Size(Started) \in 0..N /\ Size(Started) # N
  BY <1>1, <1>2, WholePool, SizeType DEF Size
<1> QED
  BY <1>1, <1>3, NAssumption

LEMMA MainInv == Inv /\ Main => Inv'
<1> SUFFICES ASSUME Inv, Main PROVE Inv'
  OBVIOUS
<1> USE NAssumption, NoWorkerAssumption
<1>1. CASE Add
  <2> USE <1>1 DEF Add, HasTarget, pool, worker, progress
  <2>1. TypeOK' /\ CountInv'
    <3>1. Size(Started)' = Size(Started) /\ Size(HoldsSlot)' = Size(HoldsSlot)
      BY SizeStays
    <3>2. Size(Started) + 1 \in 0..N
      BY AddFits DEF Inv
    <3>3. CountInv'
      BY <3>1, SizeType DEF Inv, TypeOK, CountInv
    <3>4. wg' \in 0..N
      BY <3>2, SizeType DEF Inv, CountInv
    <3> QED
      BY <3>3, <3>4 DEF Inv, TypeOK
  <2>2. StartInv'
    BY DEF Inv, StartInv
  <2>3. ResultInv' /\ LockInv'
    BY DEF Inv, ResultInv, LockInv
  <2>4. ProgressInv'
    <3>1. Size(Counted)' = Size(Counted) /\ Size(Shown)' = Size(Shown)
      BY SizeStays
    <3> QED
      BY <3>1 DEF Inv, ProgressInv
  <2> QED
    BY <2>1, <2>2, <2>3, <2>4 DEF Inv
<1>2. CASE Spawn
  <2> USE <1>2 DEF Spawn
  <2>0. next \in Targets /\ wpc[next] = "unborn"
    BY DEF Inv, TypeOK, StartInv, Targets
  <2>w. PICK w \in Targets : w = next
    BY <2>0
  <2>1. w = next /\ Goto(w, "unborn", "probe")
    BY <2>0, <2>w DEF Goto
  <2>s. ASSUME NEW P, "unborn" \notin P
        PROVE  Size(P)' = Size(P) + (IF "probe" \in P THEN 1 ELSE 0)
    <3>1. wpc \in [Targets -> Places]
      BY DEF Inv, TypeOK
    <3>2. Size(P)' = Size(P) + (IF "probe" \in P /\ "unborn" \notin P THEN 1 ELSE 0)
                             - (IF "unborn" \in P /\ "probe" \notin P THEN 1 ELSE 0)
      BY <2>1, <3>1, SizeMoves
    <3> QED
      BY <2>s, <3>2, SizeType
  <2>2. CountInv'
    <3>1. Size(Started)' = Size(Started) + 1 /\ Size(HoldsSlot)' = Size(HoldsSlot) + 1
      BY <2>s DEF Started, HoldsSlot
    <3> QED
      BY <3>1, SizeType DEF Inv, TypeOK, CountInv, HasRoom
  <2>3. TypeOK'
    <3>1. sem' \in 0..N
      BY <2>2, SizeType DEF CountInv
    <3>2. wpc' \in [Targets -> Places]
      BY <2>1 DEF Inv, TypeOK, Places, Goto
    <3>3. slot' \in [Targets -> 0..N] /\ next' \in 1..(N + 1)
      BY <2>0 DEF Inv, TypeOK, Targets
    <3> QED
      BY <3>1, <3>2, <3>3 DEF Inv, TypeOK, progress
  <2>4. StartInv'
    <3>1. \A v \in Targets : (wpc'[v] = "unborn" <=> v >= next')
      <4>1. ASSUME NEW v \in Targets PROVE wpc'[v] = "unborn" <=> v # w /\ wpc[v] = "unborn"
        BY <2>1 DEF Inv, TypeOK, Goto
      <4>2. \A v \in Targets : v >= next' <=> v # w /\ v >= next
        BY <2>1 DEF Inv, TypeOK, Targets
      <4> QED
        BY <4>1, <4>2 DEF Inv, StartInv
    <3>2. \A v \in Targets : v < next' => slot'[v] = v
      BY <2>1 DEF Inv, TypeOK, StartInv, Targets
    <3>3. main' = "loop"
      OBVIOUS
    <3> QED
      BY <3>1, <3>2, <3>3 DEF StartInv
  <2>5. ResultInv' /\ LockInv'
    <3>1. ResultInv'
      BY <2>1 DEF Inv, TypeOK, ResultInv, Goto, Stored, Counted, Shown
    <3>2. LockInv'
      BY <2>1 DEF Inv, TypeOK, LockInv, Goto, InBench, InProgress
    <3> QED
      BY <3>1, <3>2
  <2>6. ProgressInv'
    <3>1. Size(Counted)' = Size(Counted) /\ Size(Shown)' = Size(Shown)
      BY <2>s, SizeType DEF Counted, Shown
    <3> QED
      BY <3>1 DEF Inv, TypeOK, ProgressInv, progress
  <2> QED
    BY <2>2, <2>3, <2>4, <2>5, <2>6 DEF Inv
<1>3. CASE Wait
  <2> USE <1>3 DEF Wait, HasTarget, pool, worker, progress
  <2>1. TypeOK'
    BY DEF Inv, TypeOK
  <2>2. StartInv'
    <3>1. next > N
      BY DEF Inv, TypeOK
    <3> QED
      BY <3>1, Returned DEF Inv, StartInv
  <2>3. CountInv'
    <3>1. Size(Started)' = Size(Started) /\ Size(HoldsSlot)' = Size(HoldsSlot)
      BY SizeStays
    <3> QED
      BY <3>1 DEF Inv, CountInv
  <2>4. ResultInv' /\ LockInv'
    BY DEF Inv, ResultInv, LockInv
  <2>5. ProgressInv'
    <3>1. Size(Counted)' = Size(Counted) /\ Size(Shown)' = Size(Shown)
      BY SizeStays
    <3> QED
      BY <3>1 DEF Inv, ProgressInv
  <2> QED
    BY <2>1, <2>2, <2>3, <2>4, <2>5 DEF Inv
<1> QED
  BY <1>1, <1>2, <1>3 DEF Main

\* The size of a set of workers that the move does not cross.
LEMMA SizeKept ==
  ASSUME Inv, NEW w \in Targets, NEW from, NEW to, Goto(w, from, to),
         NEW P, from \in P <=> to \in P
  PROVE  Size(P)' = Size(P)
<1>1. wpc \in [Targets -> Places]
  BY DEF Inv, TypeOK
<1>2. Size(P)' = Size(P) + (IF to \in P /\ from \notin P THEN 1 ELSE 0)
                         - (IF from \in P /\ to \notin P THEN 1 ELSE 0)
  BY <1>1, SizeMoves
<1> QED
  BY <1>2, SizeType

LEMMA SizeGrows ==
  ASSUME Inv, NEW w \in Targets, NEW from, NEW to, Goto(w, from, to),
         NEW P, from \notin P, to \in P
  PROVE  Size(P)' = Size(P) + 1
<1>1. wpc \in [Targets -> Places]
  BY DEF Inv, TypeOK
<1>2. Size(P)' = Size(P) + (IF to \in P /\ from \notin P THEN 1 ELSE 0)
                         - (IF from \in P /\ to \notin P THEN 1 ELSE 0)
  BY <1>1, SizeMoves
<1> QED
  BY <1>2, SizeType

LEMMA SizeShrinks ==
  ASSUME Inv, NEW w \in Targets, NEW from, NEW to, Goto(w, from, to),
         NEW P, from \in P, to \notin P
  PROVE  Size(P)' = Size(P) - 1
<1>1. wpc \in [Targets -> Places]
  BY DEF Inv, TypeOK
<1>2. Size(P)' = Size(P) + (IF to \in P /\ from \notin P THEN 1 ELSE 0)
                         - (IF from \in P /\ to \notin P THEN 1 ELSE 0)
  BY <1>1, SizeMoves
<1> QED
  BY <1>2, SizeType

LEMMA WorkerInv ==
  ASSUME Inv, NEW w \in Targets, Worker(w)
  PROVE  Inv'
<1> USE NAssumption, NoWorkerAssumption
<1>1. CASE Measure(w)
  <2>1. Goto(w, "probe", "lock")
    BY <1>1 DEF Measure
  <2>2. Size(Started)' = Size(Started)
    BY <2>1, SizeKept DEF Inv, Started, HoldsSlot
  <2>3. Size(HoldsSlot)' = Size(HoldsSlot)
    BY <2>1, SizeKept DEF Inv, HoldsSlot
  <2>4. Size(Counted)' = Size(Counted)
    BY <2>1, SizeKept DEF Inv, Counted, Shown
  <2>5. Size(Shown)' = Size(Shown)
    BY <2>1, SizeKept DEF Inv, Shown
  <2>6. CountInv'
    BY <1>1, <2>2, <2>3, SizeType DEF Measure, Inv, TypeOK, CountInv, pool
  <2>7. ProgressInv'
    BY <1>1, <2>1, <2>4, <2>5, SizeType DEF Measure, Inv, TypeOK, ProgressInv, LockInv, Goto, InBench, InProgress, progress
  <2>8. TypeOK'
    BY <1>1, <2>6, <2>7, SizeType DEF Measure, Inv, TypeOK, Places, Outcomes, None, Mutexes, Goto, pool, progress, CountInv, ProgressInv
  <2>9. StartInv'
    BY <1>1, <2>1, StartStays DEF Measure, pool
  <2>10. ResultInv'
    BY <1>1, <2>1 DEF Measure, Inv, TypeOK, ResultInv, StartInv, Goto, Stored, Counted, Shown, None
  <2>11. LockInv'
    BY <1>1, <2>1 DEF Measure, Inv, TypeOK, LockInv, Goto, Free, Mutexes, InBench, InProgress
  <2> QED
    BY <2>6, <2>7, <2>8, <2>9, <2>10, <2>11 DEF Inv
<1>2. CASE Lock(w)
  <2>1. Goto(w, "lock", "store")
    BY <1>2 DEF Lock
  <2>2. Size(Started)' = Size(Started)
    BY <2>1, SizeKept DEF Inv, Started, HoldsSlot
  <2>3. Size(HoldsSlot)' = Size(HoldsSlot)
    BY <2>1, SizeKept DEF Inv, HoldsSlot
  <2>4. Size(Counted)' = Size(Counted)
    BY <2>1, SizeKept DEF Inv, Counted, Shown
  <2>5. Size(Shown)' = Size(Shown)
    BY <2>1, SizeKept DEF Inv, Shown
  <2>6. CountInv'
    BY <1>2, <2>2, <2>3, SizeType DEF Lock, Inv, TypeOK, CountInv, pool
  <2>7. ProgressInv'
    BY <1>2, <2>1, <2>4, <2>5, SizeType DEF Lock, Inv, TypeOK, ProgressInv, LockInv, Goto, InBench, InProgress, progress
  <2>8. TypeOK'
    BY <1>2, <2>6, <2>7, SizeType DEF Lock, Inv, TypeOK, Places, Outcomes, None, Mutexes, Goto, pool, progress, CountInv, ProgressInv
  <2>9. StartInv'
    BY <1>2, <2>1, StartStays DEF Lock, pool
  <2>10. ResultInv'
    BY <1>2, <2>1 DEF Lock, Inv, TypeOK, ResultInv, StartInv, Goto, Stored, Counted, Shown, None
  <2>11. LockInv'
    BY <1>2, <2>1 DEF Lock, Inv, TypeOK, LockInv, Goto, Free, Mutexes, InBench, InProgress
  <2> QED
    BY <2>6, <2>7, <2>8, <2>9, <2>10, <2>11 DEF Inv
<1>3. CASE Store(w)
  <2>1. Goto(w, "store", "report")
    BY <1>3 DEF Store
  <2>2. Size(Started)' = Size(Started)
    BY <2>1, SizeKept DEF Inv, Started, HoldsSlot
  <2>3. Size(HoldsSlot)' = Size(HoldsSlot)
    BY <2>1, SizeKept DEF Inv, HoldsSlot
  <2>4. Size(Counted)' = Size(Counted)
    BY <2>1, SizeKept DEF Inv, Counted, Shown
  <2>5. Size(Shown)' = Size(Shown)
    BY <2>1, SizeKept DEF Inv, Shown
  <2>6. CountInv'
    BY <1>3, <2>2, <2>3, SizeType DEF Store, Inv, TypeOK, CountInv, pool
  <2>7. ProgressInv'
    BY <1>3, <2>1, <2>4, <2>5, SizeType DEF Store, Inv, TypeOK, ProgressInv, LockInv, Goto, InBench, InProgress, progress
  <2>8. TypeOK'
    BY <1>3, <2>6, <2>7, SizeType DEF Store, Inv, TypeOK, Places, Outcomes, None, Mutexes, Goto, pool, progress, CountInv, ProgressInv
  <2>9. StartInv'
    BY <1>3, <2>1, StartStays DEF Store, pool
  <2>10. ResultInv'
    <3>1. slot[w] = w
      BY <2>1 DEF Inv, TypeOK, StartInv, Goto, Targets
    <3>2. results' = [results EXCEPT ![w] = <<w, outcome[w]>>]
      BY <1>3, <3>1 DEF Store, Index
    <3> QED
      BY <1>3, <2>1, <3>2 DEF Store, Inv, TypeOK, ResultInv, Goto, Stored, Counted, Shown
  <2>11. LockInv'
    BY <1>3, <2>1 DEF Store, Inv, TypeOK, LockInv, Goto, Free, Mutexes, InBench, InProgress
  <2> QED
    BY <2>6, <2>7, <2>8, <2>9, <2>10, <2>11 DEF Inv
<1>4. CASE LockProgress(w)
  <2>1. Goto(w, "report", "count")
    BY <1>4 DEF LockProgress
  <2>2. Size(Started)' = Size(Started)
    BY <2>1, SizeKept DEF Inv, Started, HoldsSlot
  <2>3. Size(HoldsSlot)' = Size(HoldsSlot)
    BY <2>1, SizeKept DEF Inv, HoldsSlot
  <2>4. Size(Counted)' = Size(Counted)
    BY <2>1, SizeKept DEF Inv, Counted, Shown
  <2>5. Size(Shown)' = Size(Shown)
    BY <2>1, SizeKept DEF Inv, Shown
  <2>6. CountInv'
    BY <1>4, <2>2, <2>3, SizeType DEF LockProgress, Inv, TypeOK, CountInv, pool
  <2>7. ProgressInv'
    BY <1>4, <2>1, <2>4, <2>5, SizeType DEF LockProgress, Inv, TypeOK, ProgressInv, LockInv, Goto, InBench, InProgress, progress
  <2>8. TypeOK'
    BY <1>4, <2>6, <2>7, SizeType DEF LockProgress, Inv, TypeOK, Places, Outcomes, None, Mutexes, Goto, pool, progress, CountInv, ProgressInv
  <2>9. StartInv'
    BY <1>4, <2>1, StartStays DEF LockProgress, pool
  <2>10. ResultInv'
    BY <1>4, <2>1 DEF LockProgress, Inv, TypeOK, ResultInv, StartInv, Goto, Stored, Counted, Shown, None
  <2>11. LockInv'
    BY <1>4, <2>1 DEF LockProgress, Inv, TypeOK, LockInv, Goto, Free, Mutexes, InBench, InProgress
  <2> QED
    BY <2>6, <2>7, <2>8, <2>9, <2>10, <2>11 DEF Inv
<1>5. CASE Count(w)
  <2>1. Goto(w, "count", "print")
    BY <1>5 DEF Count
  <2>2. Size(Started)' = Size(Started)
    BY <2>1, SizeKept DEF Inv, Started, HoldsSlot
  <2>3. Size(HoldsSlot)' = Size(HoldsSlot)
    BY <2>1, SizeKept DEF Inv, HoldsSlot
  <2>4. Size(Counted)' = Size(Counted) + 1
    BY <2>1, SizeGrows DEF Inv, Counted, Shown
  <2>5. Size(Shown)' = Size(Shown)
    BY <2>1, SizeKept DEF Inv, Shown
  <2>6. CountInv'
    BY <1>5, <2>2, <2>3, SizeType DEF Count, Inv, TypeOK, CountInv, pool
  <2>7. ProgressInv'
    <3>1. done' = done + 1
      BY <1>5 DEF Count, Goto, Inv, ProgressInv
    <3>2. done' = Size(Counted)'
      BY <3>1, <2>4 DEF Inv, ProgressInv
    <3>3. \A v \in Targets : wpc'[v] # "count"
      BY <2>1 DEF Inv, TypeOK, LockInv, Goto, InProgress
    <3>4. UNCHANGED printed
      BY <1>5 DEF Count
    <3>5. Len(printed') = Size(Shown)' /\ \A k \in DOMAIN printed' : printed'[k] = k
      BY <3>4, <2>5 DEF Inv, ProgressInv
    <3> QED
      BY <3>2, <3>3, <3>5 DEF ProgressInv
  <2>8. TypeOK'
    <3>1. done' \in 0..N
      BY <2>7, SizeType DEF ProgressInv
    <3> QED
      BY <1>5, <3>1 DEF Count, Inv, TypeOK, Places, Goto, pool
  <2>9. StartInv'
    BY <1>5, <2>1, StartStays DEF Count, pool
  <2>10. ResultInv'
    BY <1>5, <2>1 DEF Count, Inv, TypeOK, ResultInv, StartInv, Goto, Stored, Counted, Shown, None
  <2>11. LockInv'
    BY <1>5, <2>1 DEF Count, Inv, TypeOK, LockInv, Goto, Free, Mutexes, InBench, InProgress
  <2> QED
    BY <2>6, <2>7, <2>8, <2>9, <2>10, <2>11 DEF Inv
<1>6. CASE PrintLine(w)
  <2>1. Goto(w, "print", "unlock")
    BY <1>6 DEF PrintLine
  <2>2. Size(Started)' = Size(Started)
    BY <2>1, SizeKept DEF Inv, Started, HoldsSlot
  <2>3. Size(HoldsSlot)' = Size(HoldsSlot)
    BY <2>1, SizeKept DEF Inv, HoldsSlot
  <2>4. Size(Counted)' = Size(Counted)
    BY <2>1, SizeKept DEF Inv, Counted, Shown
  <2>5. Size(Shown)' = Size(Shown) + 1
    BY <2>1, SizeGrows DEF Inv, Shown
  <2>6. CountInv'
    BY <1>6, <2>2, <2>3, SizeType DEF PrintLine, Inv, TypeOK, CountInv, pool
  <2>7. ProgressInv'
    <3>1. At(Counted) = At(Shown) \cup {w} /\ w \notin At(Shown)
      BY <2>1 DEF At, Counted, Shown, Goto, Inv, LockInv, InProgress
    <3>2. At(Shown) \in SUBSET Targets
      BY DEF At
    <3>3. Size(Counted) = Size(Shown) + 1
      BY <3>1, <3>2, SizeBounds, FS_AddElement DEF Size
    <3>4. printed' = Append(printed, Len(printed) + 1)
      BY <1>6, <3>3 DEF PrintLine, Inv, ProgressInv
    <3>5. Len(printed') = Len(printed) + 1 /\ \A k \in DOMAIN printed' : printed'[k] = k
      BY <3>4 DEF Inv, TypeOK, ProgressInv
    <3>6. \A v \in Targets : wpc'[v] = "count" => seen'[v] = done'
      BY <1>6, <2>1 DEF PrintLine, Inv, TypeOK, ProgressInv, Goto
    <3> QED
      BY <1>6, <2>4, <2>5, <3>5, <3>6, SizeType DEF PrintLine, Inv, ProgressInv
  <2>8. TypeOK'
    <3>1. printed' \in Seq(0..N)
      BY <1>6 DEF PrintLine, Inv, TypeOK
    <3>2. wpc' \in [Targets -> Places] /\ lock' \in [Mutexes -> Targets \cup {NoWorker}]
      BY <1>6 DEF PrintLine, Goto, Inv, TypeOK, Places
    <3> QED
      BY <1>6, <3>1, <3>2 DEF PrintLine, Inv, TypeOK, pool
  <2>9. StartInv'
    BY <1>6, <2>1, StartStays DEF PrintLine, pool
  <2>10. ResultInv'
    BY <1>6, <2>1 DEF PrintLine, Inv, TypeOK, ResultInv, StartInv, Goto, Stored, Counted, Shown, None
  <2>11. LockInv'
    BY <1>6, <2>1 DEF PrintLine, Inv, TypeOK, LockInv, Goto, Free, Mutexes, InBench, InProgress
  <2> QED
    BY <2>6, <2>7, <2>8, <2>9, <2>10, <2>11 DEF Inv
<1>7. CASE Unlock(w)
  <2>1. Goto(w, "unlock", "release")
    BY <1>7 DEF Unlock
  <2>2. Size(Started)' = Size(Started)
    BY <2>1, SizeKept DEF Inv, Started, HoldsSlot
  <2>3. Size(HoldsSlot)' = Size(HoldsSlot)
    BY <2>1, SizeKept DEF Inv, HoldsSlot
  <2>4. Size(Counted)' = Size(Counted)
    BY <2>1, SizeKept DEF Inv, Counted, Shown
  <2>5. Size(Shown)' = Size(Shown)
    BY <2>1, SizeKept DEF Inv, Shown
  <2>6. CountInv'
    BY <1>7, <2>2, <2>3, SizeType DEF Unlock, Inv, TypeOK, CountInv, pool
  <2>7. ProgressInv'
    BY <1>7, <2>1, <2>4, <2>5, SizeType DEF Unlock, Inv, TypeOK, ProgressInv, LockInv, Goto, InBench, InProgress, progress
  <2>8. TypeOK'
    BY <1>7, <2>6, <2>7, SizeType DEF Unlock, Inv, TypeOK, Places, Outcomes, None, Mutexes, Goto, pool, progress, CountInv, ProgressInv
  <2>9. StartInv'
    BY <1>7, <2>1, StartStays DEF Unlock, pool
  <2>10. ResultInv'
    BY <1>7, <2>1 DEF Unlock, Inv, TypeOK, ResultInv, StartInv, Goto, Stored, Counted, Shown, None
  <2>11. LockInv'
    BY <1>7, <2>1 DEF Unlock, Inv, TypeOK, LockInv, Goto, Free, Mutexes, InBench, InProgress
  <2> QED
    BY <2>6, <2>7, <2>8, <2>9, <2>10, <2>11 DEF Inv
<1>8. CASE Release(w)
  <2>1. Goto(w, "release", "finish")
    BY <1>8 DEF Release
  <2>2. Size(Started)' = Size(Started)
    BY <2>1, SizeKept DEF Inv, Started, HoldsSlot
  <2>3. Size(HoldsSlot)' = Size(HoldsSlot) - 1
    BY <2>1, SizeShrinks DEF Inv, HoldsSlot
  <2>4. Size(Counted)' = Size(Counted)
    BY <2>1, SizeKept DEF Inv, Counted, Shown
  <2>5. Size(Shown)' = Size(Shown)
    BY <2>1, SizeKept DEF Inv, Shown
  <2>6. CountInv'
    BY <1>8, <2>2, <2>3, SizeType DEF Release, Inv, TypeOK, CountInv, pool
  <2>7. ProgressInv'
    BY <1>8, <2>1, <2>4, <2>5, SizeType DEF Release, Inv, TypeOK, ProgressInv, LockInv, Goto, InBench, InProgress, progress
  <2>8. TypeOK'
    <3>1. sem' \in 0..N
      BY <2>6, SizeType DEF CountInv
    <3>2. wpc' \in [Targets -> Places]
      BY <1>8 DEF Release, Inv, TypeOK, Places, Goto
    <3> QED
      BY <1>8, <3>1, <3>2 DEF Release, Inv, TypeOK, progress
  <2>9. StartInv'
    BY <1>8, <2>1, StartStays DEF Release, pool
  <2>10. ResultInv'
    BY <1>8, <2>1 DEF Release, Inv, TypeOK, ResultInv, StartInv, Goto, Stored, Counted, Shown, None
  <2>11. LockInv'
    BY <1>8, <2>1 DEF Release, Inv, TypeOK, LockInv, Goto, Free, Mutexes, InBench, InProgress
  <2> QED
    BY <2>6, <2>7, <2>8, <2>9, <2>10, <2>11 DEF Inv
<1>9. CASE Finish(w)
  <2>1. Goto(w, "finish", "gone")
    BY <1>9 DEF Finish
  <2>2. Size(Started)' = Size(Started) - 1
    BY <2>1, SizeShrinks DEF Inv, Started, HoldsSlot
  <2>3. Size(HoldsSlot)' = Size(HoldsSlot)
    BY <2>1, SizeKept DEF Inv, HoldsSlot
  <2>4. Size(Counted)' = Size(Counted)
    BY <2>1, SizeKept DEF Inv, Counted, Shown
  <2>5. Size(Shown)' = Size(Shown)
    BY <2>1, SizeKept DEF Inv, Shown
  <2>6. CountInv'
    BY <1>9, <2>2, <2>3, SizeType DEF Finish, Inv, TypeOK, CountInv, pool
  <2>7. ProgressInv'
    BY <1>9, <2>1, <2>4, <2>5, SizeType DEF Finish, Inv, TypeOK, ProgressInv, LockInv, Goto, InBench, InProgress, progress
  <2>8. TypeOK'
    <3>1. wg' \in 0..N
      BY <1>9, <2>2, SizeType DEF Finish, Inv, TypeOK, CountInv
    <3>2. wpc' \in [Targets -> Places]
      BY <2>1 DEF Inv, TypeOK, Places, Goto
    <3> QED
      BY <1>9, <3>1, <3>2 DEF Finish, Inv, TypeOK, progress
  <2>9. StartInv'
    BY <1>9, <2>1, StartStays DEF Finish, pool
  <2>10. ResultInv'
    BY <1>9, <2>1 DEF Finish, Inv, TypeOK, ResultInv, StartInv, Goto, Stored, Counted, Shown, None
  <2>11. LockInv'
    BY <1>9, <2>1 DEF Finish, Inv, TypeOK, LockInv, Goto, Free, Mutexes, InBench, InProgress
  <2> QED
    BY <2>6, <2>7, <2>8, <2>9, <2>10, <2>11 DEF Inv
<1> QED
  BY <1>1, <1>2, <1>3, <1>4, <1>5, <1>6, <1>7, <1>8, <1>9 DEF Worker

LEMMA NextInv == Inv /\ [Next]_vars => Inv'
<1> SUFFICES ASSUME Inv, [Next]_vars PROVE Inv'
  OBVIOUS
<1>1. ASSUME UNCHANGED <<pool, worker, results, lock, progress>>, interrupted' \in BOOLEAN
      PROVE  Inv'
  <2>1. \A P : Size(P)' = Size(P)
    BY <1>1, SizeStays DEF worker
  <2>2. TypeOK' /\ StartInv' /\ ResultInv' /\ LockInv'
    BY <1>1 DEF Inv, TypeOK, StartInv, ResultInv, LockInv, pool, worker, progress
  <2>3. CountInv'
    BY <1>1, <2>1 DEF Inv, CountInv, pool
  <2>4. ProgressInv'
    BY <1>1, <2>1 DEF Inv, ProgressInv, worker, progress
  <2> QED
    BY <2>2, <2>3, <2>4 DEF Inv
<1>2. CASE Main
  BY <1>2, MainInv
<1>3. CASE \E w \in Targets : Worker(w)
  BY <1>3, WorkerInv
<1>4. CASE Interrupt
  BY <1>1, <1>4 DEF Interrupt
<1>5. CASE Terminated
  BY <1>1, <1>5 DEF Terminated, vars, Inv, TypeOK
<1>6. CASE UNCHANGED vars
  BY <1>1, <1>6 DEF vars, Inv, TypeOK
<1> QED
  BY <1>2, <1>3, <1>4, <1>5, <1>6 DEF Next

LEMMA Invariance == Spec => []Inv
BY InitInv, NextInv, PTL DEF Spec

-----------------------------------------------------------------------------
(* The properties.                                                         *)

\* RunBench is type correct: among others the semaphore, the WaitGroup and
\* the counters stay within 0..N, and the pool has a capacity of at least 1.
THEOREM TypeCorrect == Spec => []TypeOK
<1>1. Inv => TypeOK
  BY DEF Inv
<1> QED
  BY <1>1, Invariance, PTL

\* At most as many endpoints are measured at a time as the pool has places.
THEOREM Bounded == Spec => []BoundedProbes
<1>1. Inv => BoundedProbes
  <2> SUFFICES ASSUME Inv PROVE BoundedProbes
    OBVIOUS
  <2>1. At(Probing) \in SUBSET At(HoldsSlot) /\ At(HoldsSlot) \in SUBSET Targets
    BY DEF At, Probing, HoldsSlot
  <2>2. Cardinality(At(Probing)) <= Size(HoldsSlot)
    BY <2>1, SizeBounds, FS_Subset DEF Size
  <2>3. Size(Probing) \in Nat /\ Size(HoldsSlot) \in Nat
    BY SizeType
  <2> QED
    BY <2>2, <2>3 DEF Inv, TypeOK, CountInv, BoundedProbes, At, Size
<1> QED
  BY <1>1, Invariance, PTL

\* When RunBench returns, every slot holds the result of its own target.
THEOREM Complete == Spec => []ResultsComplete
<1>1. Inv => ResultsComplete
  BY DEF Inv, StartInv, ResultInv, ResultsComplete, Stored, Counted, Shown
<1> QED
  BY <1>1, Invariance, PTL

\* The progress lines count without a gap, up to the number of targets.
THEOREM Counts == Spec => []ProgressCounts
<1>1. Inv => ProgressCounts
  <2> SUFFICES ASSUME Inv PROVE ProgressCounts
    OBVIOUS
  <2>1. ASSUME main = "returned" PROVE Len(printed) = N
    <3>1. At(Shown) = Targets
      BY <2>1 DEF At, Shown, Inv, StartInv
    <3>2. Size(Shown) = N
      BY <3>1, WholePool DEF Size
    <3> QED
      BY <3>2 DEF Inv, ProgressInv
  <2> QED
    BY <2>1 DEF Inv, ProgressInv, ProgressCounts
<1> QED
  BY <1>1, Invariance, PTL
=============================================================================
