------------------------------ MODULE RunBench ------------------------------
(***************************************************************************)
(* The worker pool of dnsspeed (RunBench of cmd/dnsspeed/bench.go) and the *)
(* progress callback its caller passes (run of cmd/dnsspeed/main.go).      *)
(* The main goroutine starts one worker per target, at most `capacity` of  *)
(* them at a time, and waits for all.  A worker measures its target,       *)
(* stores the result at the index of the target and reports it, under the  *)
(* mutex of RunBench; the callback counts and prints under one of its own. *)
(*                                                                         *)
(* benchmarkTarget is one step here, with a result that says whether all   *)
(* its queries were sent ("full"), some could not be sent because of an    *)
(* interrupt ("cut"), or none was answered ("failed"); see Benchmark.      *)
(***************************************************************************)
EXTENDS Integers, Sequences, FiniteSets

CONSTANTS
  N,             \* the number of targets
  Concurrencies, \* the values of -concurrency that callers may pass
  NoWorker       \* the owner of a free mutex

Targets == 1..N

ASSUME NAssumption == N \in Nat
ASSUME ConcurrenciesAssumption == Concurrencies \subseteq Int
ASSUME NoWorkerAssumption == NoWorker \notin Targets

VARIABLES
  capacity,    \* cap(sem)
  sem,         \* len(sem)
  wg,          \* the counter of the WaitGroup
  next,        \* the loop variable i of the main goroutine
  main,        \* where the main goroutine is
  slot,        \* slot[w]: the index worker w was started with
  wpc,         \* wpc[w]: where worker w is
  outcome,     \* outcome[w]: what benchmarkTarget returned to w
  results,     \* the slice RunBench returns: a pair of target and outcome
  lock,        \* the owners of the mutexes of RunBench and of the callback
  done,        \* the counter of the callback
  seen,        \* seen[w]: the value of done that w has read
  printed,     \* the numbers of the progress lines, in order
  interrupted  \* the context of run is done

pool     == <<capacity, sem, wg, next, main>>
worker   == <<slot, wpc, outcome>>
progress == <<done, seen, printed>>
vars     == <<pool, worker, results, lock, progress, interrupted>>

None    == "none"
Mutexes == {"bench", "progress"}
Probing == {"probe"}

\* validate rejects a -concurrency below 1 before; RunBench clamps it again.
Capacity(c) == IF c < 1 THEN 1 ELSE c

Init ==
  /\ \E c \in Concurrencies : capacity = Capacity(c)
  /\ sem = 0
  /\ wg = 0
  /\ next = 1
  /\ main = "loop"
  /\ slot = [w \in Targets |-> 0]
  /\ wpc = [w \in Targets |-> "unborn"]
  /\ outcome = [w \in Targets |-> None]
  /\ results = [t \in Targets |-> <<0, None>>]
  /\ lock = [m \in Mutexes |-> NoWorker]
  /\ done = 0
  /\ seen = [w \in Targets |-> 0]
  /\ printed = <<>>
  /\ interrupted = FALSE

-----------------------------------------------------------------------------
(* The main goroutine.                                                     *)

HasTargetOffByOne == next <= N + 1
HasTarget == next <= N

Add ==
  /\ main = "loop"
  /\ HasTarget
  /\ wg' = wg + 1
  /\ main' = "acquire"
  /\ UNCHANGED <<capacity, sem, next, worker, results, lock, progress,
                 interrupted>>

\* The send on sem blocks while sem is full; then the worker is started with
\* the current index as its argument.
HasRoomOffByOne == sem <= capacity
HasRoom == sem < capacity

Spawn ==
  /\ main = "acquire"
  /\ HasRoom
  /\ sem' = sem + 1
  /\ slot' = [slot EXCEPT ![next] = next]
  /\ wpc' = [wpc EXCEPT ![next] = "probe"]
  /\ next' = next + 1
  /\ main' = "loop"
  /\ UNCHANGED <<capacity, wg, outcome, results, lock, progress, interrupted>>

Wait ==
  /\ main = "loop"
  /\ ~HasTarget
  /\ wg = 0
  /\ main' = "returned"
  /\ UNCHANGED <<capacity, sem, wg, next, worker, results, lock, progress,
                 interrupted>>

-----------------------------------------------------------------------------
(* A worker.                                                               *)

Goto(w, from, to) ==
  /\ wpc[w] = from
  /\ wpc' = [wpc EXCEPT ![w] = to]

Measure(w) ==
  /\ Goto(w, "probe", "lock")
  /\ \E o \in {"full", "cut", "failed"} :
       /\ o = "cut" => interrupted
       /\ outcome' = [outcome EXCEPT ![w] = o]
  /\ UNCHANGED <<pool, slot, results, lock, progress, interrupted>>

FreeAlways(m) == m \in Mutexes
Free(m) == lock[m] = NoWorker

Lock(w) ==
  /\ Free("bench")
  /\ Goto(w, "lock", "store")
  /\ lock' = [lock EXCEPT !["bench"] = w]
  /\ UNCHANGED <<pool, slot, outcome, results, progress, interrupted>>

\* The worker stores at the index it was given, not at the loop variable.
IndexShared(w) == IF next > N THEN N ELSE next
Index(w) == slot[w]

Store(w) ==
  /\ Goto(w, "store", "report")
  /\ results' = [results EXCEPT ![Index(w)] = <<slot[w], outcome[w]>>]
  /\ UNCHANGED <<pool, slot, outcome, lock, progress, interrupted>>

\* The callback locks its own mutex, increments, prints.
LockProgress(w) ==
  /\ Free("progress")
  /\ Goto(w, "report", "count")
  /\ lock' = [lock EXCEPT !["progress"] = w]
  /\ seen' = [seen EXCEPT ![w] = done]
  /\ UNCHANGED <<pool, slot, outcome, results, done, printed, interrupted>>

Count(w) ==
  /\ Goto(w, "count", "print")
  /\ done' = seen[w] + 1
  /\ UNCHANGED <<pool, slot, outcome, results, lock, seen, printed, interrupted>>

PrintLine(w) ==
  /\ Goto(w, "print", "unlock")
  /\ printed' = Append(printed, done)
  /\ lock' = [lock EXCEPT !["progress"] = NoWorker]
  /\ UNCHANGED <<pool, slot, outcome, results, done, seen, interrupted>>

Unlock(w) ==
  /\ Goto(w, "unlock", "release")
  /\ lock' = [lock EXCEPT !["bench"] = NoWorker]
  /\ UNCHANGED <<pool, slot, outcome, results, progress, interrupted>>

\* The deferred calls, last in first out: receive from sem, then wg.Done.
ReleaseForgotten(w) ==
  /\ Goto(w, "release", "finish")
  /\ UNCHANGED <<pool, slot, outcome, results, lock, progress, interrupted>>
Release(w) ==
  /\ Goto(w, "release", "finish")
  /\ sem > 0
  /\ sem' = sem - 1
  /\ UNCHANGED <<capacity, wg, next, main, slot, outcome, results, lock,
                 progress, interrupted>>

Finish(w) ==
  /\ Goto(w, "finish", "gone")
  /\ wg' = wg - 1
  /\ UNCHANGED <<capacity, sem, next, main, slot, outcome, results, lock,
                 progress, interrupted>>

Interrupt ==
  /\ ~interrupted
  /\ main # "returned"
  /\ interrupted' = TRUE
  /\ UNCHANGED <<pool, worker, results, lock, progress>>

-----------------------------------------------------------------------------
Main == Add \/ Spawn \/ Wait
Worker(w) ==
  \/ Measure(w) \/ Lock(w) \/ Store(w)
  \/ LockProgress(w) \/ Count(w) \/ PrintLine(w)
  \/ Unlock(w) \/ Release(w) \/ Finish(w)

Terminated == main = "returned" /\ UNCHANGED vars

Next == Main \/ (\E w \in Targets : Worker(w)) \/ Interrupt \/ Terminated

Spec == Init /\ [][Next]_vars

\* Every goroutine runs on, a measurement returns (each of its queries has
\* a timeout), and a mutex is not refused to one worker for ever.
Fairness ==
  /\ WF_vars(Main)
  /\ \A w \in Targets :
       /\ WF_vars(Worker(w))
       /\ SF_vars(Lock(w)) /\ SF_vars(LockProgress(w))

FairSpec == Spec /\ Fairness

-----------------------------------------------------------------------------
(* Properties.                                                             *)

Outcomes == {None, "full", "cut", "failed"}
Places   == {"unborn", "probe", "lock", "store", "report", "count", "print",
             "unlock", "release", "finish", "gone"}

TypeOK ==
  /\ capacity \in Nat \ {0}
  /\ sem \in 0..N
  /\ wg \in 0..N
  /\ next \in 1..(N + 1)
  /\ main \in {"loop", "acquire", "returned"}
  /\ slot \in [Targets -> 0..N]
  /\ wpc \in [Targets -> Places]
  /\ outcome \in [Targets -> Outcomes]
  /\ results \in [Targets -> (0..N) \X Outcomes]
  /\ lock \in [Mutexes -> Targets \cup {NoWorker}]
  /\ done \in 0..N
  /\ seen \in [Targets -> 0..N]
  /\ printed \in Seq(0..N)
  /\ interrupted \in BOOLEAN

\* No more endpoints are measured at a time than -concurrency allows
\* (RunBench, the semaphore).
BoundedProbes ==
  Cardinality({w \in Targets : wpc[w] \in Probing}) <= capacity

\* When RunBench returns, every slot holds the result of its own target and
\* no worker is left that could still write (wg.Wait, the index argument).
ResultsComplete ==
  main = "returned" =>
    \A t \in Targets : /\ results[t] = <<t, outcome[t]>>
                       /\ outcome[t] # None
                       /\ wpc[t] = "gone"

\* The progress lines count 1, 2, 3, ... without a gap or a repetition,
\* whatever order the endpoints finish in (mu of RunBench, mu of run).
ProgressCounts ==
  /\ \A k \in DOMAIN printed : printed[k] = k
  /\ main = "returned" => Len(printed) = N

\* RunBench returns: no worker waits for ever for the semaphore, a mutex or
\* the WaitGroup, also when the user interrupts.
Returns == <>(main = "returned")
=============================================================================
