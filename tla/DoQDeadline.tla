---------------------------- MODULE DoQDeadline -----------------------------
(***************************************************************************)
(* The DoQ upstream in time.  The resolver gives every exchange a context  *)
(* with a timeout; DoQUpstream lets that context end at any moment, here a *)
(* clock runs and it ends when its time is up.  Added to the upstream is   *)
(* what decides how long a call really takes: a handshake or an exchange   *)
(* stops waiting the moment its own context is done, but quic.DialAddr     *)
(* looks the host up before the handshake and without the context          *)
(* (net.ResolveUDPAddr), with the mutex held; and a goroutine that waits   *)
(* in d.mu.Lock() does not look at its context either, and gets the mutex  *)
(* by the rules of Go's sync.Mutex: a FIFO queue that newcomers may        *)
(* overtake, until a waiter that has lost more than a millisecond makes    *)
(* the mutex starving and unlocks hand it over in order.                   *)
(*                                                                         *)
(* Steps that only compute take no time; a tick is much longer than that   *)
(* millisecond, so a waiter has waited for long when a tick has passed.    *)
(***************************************************************************)
EXTENDS DoQUpstream, Integers, Sequences

CONSTANTS
  Timeout,  \* the timeout of an exchange, in ticks
  MaxSlow,  \* the ticks name lookups may hold a call up beyond the end of
            \* the dialling context; 0 when the upstream is an IP address
  Closer    \* the goroutine that calls Close

ASSUME TimeoutAssumption == Timeout \in Nat \ {0}
ASSUME MaxSlowAssumption == MaxSlow \in Nat
ASSUME CloserAssumption  == Closer \notin Calls

VARIABLES
  left,   \* left[c]: the ticks that c's context still has, negative once it
          \* is overdue (0 while c is not in Exchange)
  slow,   \* slow[c]: the ticks of its present Exchange in which c waited for
          \* a lookup that outlasted the context it was made for (history)
  queue,  \* the goroutines asleep in d.mu.Lock(), in order
  aged,   \* those of them that have slept for a tick or more
  mode    \* "normal"; "overtaken": a newcomer took the mutex from an aged
          \* waiter in this very moment; "starving": newcomers may not

timing    == <<left, slow, queue, aged, mode>>
timedVars == <<vars, timing>>

Goroutines == Calls \cup {Closer}
Waiting    == {queue[i] : i \in DOMAIN queue}

\* Bounds left from below; OverrunBounded is about the values above it.
Least == -(4 * Timeout) - 1 - MaxSlow

TimedTypeOK ==
  /\ TypeOK
  /\ left \in [Calls -> Least..Timeout]
  /\ slow \in [Calls -> 0..MaxSlow]
  /\ queue \in Seq(Goroutines)
  /\ aged \subseteq Waiting
  /\ mode \in {"normal", "overtaken", "starving"}

TimedInit ==
  /\ Init
  /\ left = [c \in Calls |-> 0]
  /\ slow = [c \in Calls |-> 0]
  /\ queue = <<>>
  /\ aged = {}
  /\ mode = "normal"

-----------------------------------------------------------------------------
(* d.mu.Lock(), by the rules of sync.Mutex.                                *)

AtLock(g) ==
  IF g = Closer THEN closer = "lock" ELSE pc[g] \in {"connection", "discard"}

Enqueue(g) ==
  /\ AtLock(g)
  /\ g \notin Waiting
  /\ ~MutexFree \/ mode = "starving"
  /\ queue' = Append(queue, g)
  /\ UNCHANGED <<vars, left, slow, aged, mode>>

\* The first waiter gets the mutex; the mode ends with the last waiter, or
\* with one that has hardly waited.
Handover(g) ==
  /\ queue # <<>>
  /\ g = Head(queue)
  /\ queue' = Tail(queue)
  /\ mode' = IF mode = "starving" /\ Len(queue) > 1 /\ g \in aged
             THEN "starving" ELSE "normal"
  /\ aged' = aged \ {g}

\* A newcomer takes a free mutex in front of those that wait for it.
Overtake(g) ==
  /\ mode # "starving"
  /\ g \notin Waiting
  /\ mode' = IF queue # <<>> /\ Head(queue) \in aged
             THEN "overtaken" ELSE mode
  /\ UNCHANGED <<queue, aged>>

TakesMutex(g) == Handover(g) \/ Overtake(g)

Acquire(g) ==
  /\ IF g = Closer THEN CloseLocked ELSE Connection(g) \/ Discard(g)
  /\ TakesMutex(g)
  /\ UNCHANGED <<left, slow>>

-----------------------------------------------------------------------------
(* The calls, with their deadlines.                                        *)

TimedSubmit(c) ==
  /\ Submit(c)
  /\ left' = [left EXCEPT ![c] = Timeout]
  /\ UNCHANGED <<slow, queue, aged, mode>>

\* The lookup and the handshake.  A lookup may fail at any time; a handshake
\* takes time, so one that starts with an overdue context fails.
TimedDial(c) ==
  /\ DialFail(c) \/ (left[c] >= 0 /\ DialOk(c))
  /\ UNCHANGED timing

\* The other steps of a call take no time and leave the queue alone.
AtOnce(c, A) ==
  /\ A
  /\ left' = [left EXCEPT ![c] = IF pc'[c] \in Returned THEN 0 ELSE @]
  /\ slow' = [slow EXCEPT ![c] = IF pc'[c] \in Returned THEN 0 ELSE @]
  /\ UNCHANGED <<queue, aged, mode>>

\* The context ends: by the clock (Tick waits for it) or before, when the
\* program is asked to stop while the ECH cache is refreshed.
TimedExpire(c) == Expire(c) /\ UNCHANGED timing

\* Where a call lets time pass.  An exchange ends with its context or its
\* connection (OpenStreamSync, the goroutine next to the stream); a dial may
\* still look the host up when its context is done, and a wait for the mutex
\* ends with neither.
BlockedForAnswer(c) ==
  pc[c] \in {"dial", "exchange"} \/ (c \in Waiting /\ ~MutexFree)
Blocked(c) ==
  \/ pc[c] = "dial"
  \/ pc[c] = "exchange" /\ c \notin expired /\ link[used[c]] = "live"
  \/ c \in Waiting /\ ~MutexFree

\* Call c waits for the lookup of a dial whose context is done.
HeldUp(c) == mu \in expired /\ (c = mu \/ c \in Waiting)

\* Time passes when nobody has anything else to do.
Tick ==
  /\ \E c \in Calls : pc[c] \in Busy
  /\ \A c \in Calls : pc[c] \in Busy =>
       Blocked(c) /\ (left[c] = 0 => c \in expired)
  /\ \A c \in Calls : HeldUp(c) => slow[c] < MaxSlow
  /\ closer \in {"idle", "done"} \/ (Closer \in Waiting /\ ~MutexFree)
  /\ left' = [c \in Calls |-> IF pc[c] \in Busy /\ left[c] > Least
                              THEN left[c] - 1 ELSE left[c]]
  /\ slow' = [c \in Calls |-> IF HeldUp(c) THEN slow[c] + 1 ELSE slow[c]]
  /\ aged' = Waiting
  /\ mode' = IF mode = "overtaken" THEN "starving" ELSE mode
  /\ UNCHANGED <<vars, queue>>

-----------------------------------------------------------------------------
Server(c)  == AtOnce(c, PackFails(c) \/ Answered(c) \/ StreamFails(c))
Advance(c) == \/ Enqueue(c) \/ Acquire(c)
              \/ TimedDial(c) \/ TimedExpire(c)
              \/ AtOnce(c, LinkLost(c) \/ Cancelled(c) \/ AfterQuery(c))
CloserAdvance == \/ Enqueue(Closer) \/ Acquire(Closer)
                 \/ CloseHangsUp /\ UNCHANGED timing

TimedNext ==
  \/ \E c \in Calls : TimedSubmit(c) \/ Server(c) \/ Advance(c)
  \/ CallClose /\ UNCHANGED timing
  \/ CloserAdvance
  \/ \E k \in Conns : LinkDies(k) /\ UNCHANGED timing
  \/ Tick
  \/ Terminated /\ UNCHANGED timing

TimedSpec == TimedInit /\ [][TimedNext]_timedVars

\* Every goroutine keeps running, time passes, and a lookup ends some day.
\* Nothing is assumed of the server, and nothing of the mutex but the rules
\* above.
TimedFairSpec ==
  /\ TimedSpec
  /\ \A c \in Calls : WF_timedVars(Advance(c))
  /\ WF_timedVars(CloserAdvance)
  /\ WF_timedVars(Tick)

-----------------------------------------------------------------------------
(* Properties.                                                             *)

\* What c has left when the time it lost to lookups that outlasted their
\* context is given back to it.
Due(c) == left[c] + slow[c]

\* A call is overdue by at most four timeouts, and by at most two before it
\* has its first connection, plus the time it waited for name lookups that
\* went on after the dialling context was done, however many calls share the
\* upstream and whatever they dial: of the dials it waits for, all but one
\* are limited by the deadlines of calls that were there before it
\* (connection, discard).  Such a lookup is limited by net's resolver only.
OverrunBounded ==
  \A c \in Calls : pc[c] \in Busy =>
    /\ Due(c) >= -4 * Timeout
    /\ pc[c] \in {"connection", "dial"} => Due(c) >= -2 * Timeout

\* What the comment of NewUpstream says of timeout.
TimeoutBoundsExchange == \A c \in Calls : pc[c] \in Busy => left[c] >= 0
=============================================================================
