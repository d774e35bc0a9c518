------------------------- MODULE DoQUpstreamProofs --------------------------
(***************************************************************************)
(* DoQUpstream and DoQDeadline, proved for any number of calls and         *)
(* connections and any timeout.  First DoQUpstream: it is type correct,    *)
(* never leaks a connection, stays closed once closed, spends two faults   *)
(* before it fails a call, never ends a live connection by itself, and     *)
(* implements Upstream.  Then DoQDeadline: it takes only steps of          *)
(* DoQUpstream, so all of this holds in time, and no call is overdue by    *)
(* more than OverrunBounded says.                                          *)
(***************************************************************************)
EXTENDS DoQDeadline, TLAPS

-----------------------------------------------------------------------------
(* DoQUpstream: the parts of the inductive invariant.                      *)

\* The mutex is held exactly by the call that dials.
MutexInv == \A c \in Calls : mu = c <=> pc[c] = "dial"

\* Whoever dials has found no usable connection, and that stays so.
DialInv == mu # NoCall => ~Usable(conn)

\* The cached connection and those of the running attempts were dialled, and
\* only a dead one is discarded.
LinkInv ==
  /\ conn # NoConn => link[conn] # "none"
  /\ \A c \in Calls :
       /\ pc[c] \in {"exchange", "failed", "discard", "hangup"} =>
            used[c] \in Conns /\ link[used[c]] # "none"
       /\ pc[c] \in {"discard", "hangup"} => link[used[c]] = "dead"

\* The closed flag, the cache and the mutex once Close has been through.
CloseInv ==
  /\ closed <=> closer \in {"hangup", "done"}
  /\ closed => conn = NoConn /\ mu = NoCall

\* A call meets at most one fault per attempt.
CountInv ==
  \A c \in Calls :
    /\ pc[c] \notin Busy => attempt[c] = 0 /\ faults[c] = 0
    /\ pc[c] \in Busy => attempt[c] \in {1, 2} /\ faults[c] <= attempt[c]
    /\ pc[c] \in {"connection", "dial"} => faults[c] < attempt[c]
    /\ pc[c] = "exchange" /\ link[used[c]] = "live" => faults[c] < attempt[c]

\* An attempt only fails because of a fault, of Close or of the context.
BlameInv ==
  \A c \in Calls :
    /\ pc[c] \in Busy => closed \/ faults[c] + 1 >= attempt[c]
    /\ pc[c] = "exchange" /\ link[used[c]] = "dead" =>
         closed \/ faults[c] >= attempt[c]
    /\ pc[c] \in {"failed", "discard", "hangup", "judge"} =>
         closed \/ c \in expired \/ faults[c] >= attempt[c]

Inv ==
  /\ TypeOK /\ MutexInv /\ DialInv /\ LinkInv /\ CloseInv
  /\ NoConnectionLeak /\ CountInv /\ BlameInv

-----------------------------------------------------------------------------
(* Inv is inductive.                                                       *)

LEMMA InitInv == Init => Inv
<1> SUFFICES ASSUME Init PROVE Inv
  OBVIOUS
<1> USE NoCallAssumption, NoConnAssumption DEF Init
<1>1. TypeOK
  <2>1. closed \in BOOLEAN /\ expired \subseteq Calls
    OBVIOUS
  <2>2. pc \in [Calls -> {"idle"} \cup Busy \cup Returned]
    OBVIOUS
  <2>3. attempt \in [Calls -> 0..2] /\ faults \in [Calls -> 0..2]
    OBVIOUS
  <2>4. used \in [Calls -> Conns \cup {NoConn}]
    OBVIOUS
  <2>5. link \in [Conns -> {"none", "live", "dead"}]
    OBVIOUS
  <2> QED BY <2>1, <2>2, <2>3, <2>4, <2>5 DEF TypeOK
<1>2. MutexInv BY DEF MutexInv
<1>3. DialInv BY DEF DialInv
<1>4. LinkInv BY DEF LinkInv
<1>5. CloseInv BY DEF CloseInv
<1>6. NoConnectionLeak BY DEF NoConnectionLeak, Live
<1>7. CountInv BY DEF CountInv, Busy
<1>8. BlameInv BY DEF BlameInv, Busy
<1> QED BY <1>1, <1>2, <1>3, <1>4, <1>5, <1>6, <1>7, <1>8 DEF Inv

LEMMA NextInv == Inv /\ [Next]_vars => Inv'
<1> SUFFICES ASSUME Inv, [Next]_vars PROVE Inv'
  OBVIOUS
<1> USE NoCallAssumption, NoConnAssumption
    DEF Inv, TypeOK, MutexInv, DialInv, LinkInv, CloseInv, NoConnectionLeak,
        CountInv, BlameInv, Busy, Returned, Live, Usable
<1>1. ASSUME NEW c \in Calls, Submit(c) PROVE Inv'
  BY <1>1 DEF Submit, Goto, shared, shutdown
<1>2. ASSUME NEW c \in Calls, PackFails(c) PROVE Inv'
  BY <1>2 DEF PackFails, Goto, shared, shutdown
<1>3. ASSUME NEW c \in Calls, Connection(c) PROVE Inv'
  <2>1. CASE RefuseClosed(c)
    BY <2>1 DEF RefuseClosed, Goto, shared, shutdown
  <2>2. CASE Reuse(c)
    BY <2>2 DEF Reuse, Goto, shared, shutdown
  <2>3. CASE StartDial(c)
    BY <2>3 DEF StartDial, MutexFree, Goto, shutdown
  <2> QED BY <1>3, <2>1, <2>2, <2>3 DEF Connection
<1>4. ASSUME NEW c \in Calls, DialReturns(c) PROVE Inv'
  <2>1. CASE DialOk(c)
    <3>1. ~closed /\ ~Usable(conn) /\ mu = c
      BY <2>1 DEF DialOk, Goto
    <3>2. Live = {}
      BY <3>1
    <3> QED BY <2>1, <3>1, <3>2 DEF DialOk, Goto, shutdown
  <2>2. CASE DialFail(c)
    BY <2>2 DEF DialFail, Goto, Fault, shutdown
  <2> QED BY <1>4, <2>1, <2>2 DEF DialReturns
<1>5. ASSUME NEW c \in Calls, Exchange(c) PROVE Inv'
  <2>1. CASE Answered(c)
    BY <2>1 DEF Answered, Return, Goto, shared, shutdown
  <2>2. CASE StreamFails(c)
    BY <2>2 DEF StreamFails, Goto, Fault, shared, shutdown
  <2>3. CASE LinkLost(c)
    BY <2>3 DEF LinkLost, Goto, shared, shutdown
  <2>4. CASE Cancelled(c)
    BY <2>4 DEF Cancelled, Goto, shared, shutdown
  <2> QED BY <1>5, <2>1, <2>2, <2>3, <2>4 DEF Exchange
<1>6. ASSUME NEW c \in Calls, AfterQuery(c) PROVE Inv'
  <2>1. CASE CheckConn(c)
    BY <2>1 DEF CheckConn, Gone, Goto, shared, shutdown
  <2>2. CASE HangUp(c)
    <3>1. link' = link
      BY <2>2 DEF HangUp, Goto
    <3> QED BY <2>2, <3>1 DEF HangUp, Goto, shutdown
  <2>3. CASE Retry(c)
    BY <2>3 DEF Retry, RetryAllowed, Goto, shared, shutdown
  <2>4. CASE GiveUp(c)
    BY <2>4 DEF GiveUp, Return, Goto, shared, shutdown
  <2> QED BY <1>6, <2>1, <2>2, <2>3, <2>4 DEF AfterQuery
<1>7. ASSUME NEW c \in Calls, Discard(c) PROVE Inv'
  <2>1. conn' \in {conn, NoConn} /\ (conn' # conn => ~Usable(conn))
    BY <1>7 DEF Discard, Kept, Goto
  <2> QED BY <1>7, <2>1 DEF Discard, MutexFree, Goto, shutdown
<1>8. ASSUME NEW c \in Calls, Expire(c) PROVE Inv'
  BY <1>8 DEF Expire, shared, shutdown
<1>9. CASE CallClose
  BY <1>9 DEF CallClose, shared, local
<1>10. CASE CloseLocked
  BY <1>10 DEF CloseLocked, MutexFree, local
<1>11. CASE CloseHangsUp
  BY <1>11 DEF CloseHangsUp, local
<1>12. ASSUME NEW k \in Conns, LinkDies(k) PROVE Inv'
  <2>1. /\ link' = [link EXCEPT ![k] = "dead"]
        /\ faults' = [c \in Calls |-> IF pc[c] = "exchange" /\ used[c] = k
                                      THEN faults[c] + 1 ELSE faults[c]]
        /\ UNCHANGED <<mu, conn, closed, pc, attempt, used, expired, closer,
                       closing>>
        /\ link[k] = "live"
    BY <1>12 DEF LinkDies, local, shutdown
  <2>2. TypeOK'
    <3>1. \A c \in Calls : faults'[c] \in 0..2
      BY <2>1
    <3> QED BY <2>1, <3>1
  <2>3. MutexInv' /\ DialInv' /\ LinkInv' /\ CloseInv' /\ NoConnectionLeak'
    BY <2>1
  <2>4. CountInv'
    BY <2>1
  <2>5. BlameInv'
    BY <2>1
  <2> QED BY <2>2, <2>3, <2>4, <2>5
<1>13. CASE UNCHANGED vars
  BY <1>13 DEF vars, shared, local, shutdown
<1> HIDE DEF Inv
<1> QED
  BY <1>1, <1>2, <1>3, <1>4, <1>5, <1>6, <1>7, <1>8, <1>9, <1>10, <1>11,
     <1>12, <1>13 DEF Next, Terminated

LEMMA Invariance == Spec => []Inv
  BY InitInv, NextInv, PTL DEF Spec

-----------------------------------------------------------------------------
(* The theorems.                                                           *)

\* Every variable keeps to its type; in particular no call enters query more
\* than twice (Exchange).
THEOREM TypeCorrect == Spec => []TypeOK
  BY Invariance, PTL DEF Inv

\* No connection stays open that neither the cache nor Close holds, whatever
\* the interleaving of dials, discards, retries and Close.
THEOREM NoLeak == Spec => []NoConnectionLeak
  BY Invariance, PTL DEF Inv

\* After Close has returned there is no connection, and never one again.
THEOREM CloseIsFinal == Spec => []ClosedForGood
<1>1. Inv => ClosedForGood
  BY NoConnAssumption
  DEF Inv, CloseInv, NoConnectionLeak, ClosedForGood, Live
<1> QED BY <1>1, Invariance, PTL

\* A call fails only because of Close, of its context, or of two faults.
THEOREM TwoFaults == Spec => FailureNeedsTwoFaults
<1>1. ASSUME Inv, NEW c \in Calls, GiveUp(c)
      PROVE  closed \/ c \in expired \/ faults[c] = 2
  <2>1. pc[c] = "judge" /\ (attempt[c] = 2 \/ c \in expired)
    BY <1>1 DEF GiveUp, RetryAllowed, Return, Goto, Inv, CountInv, Busy
  <2>2. attempt[c] \in 0..2 /\ faults[c] \in 0..2
    BY <1>1 DEF Inv, TypeOK
  <2> QED BY <1>1, <2>1, <2>2 DEF Inv, BlameInv
<1>2. Inv => [\A c \in Calls : GiveUp(c) =>
                closed \/ c \in expired \/ faults[c] = 2]_vars
  BY <1>1
<1> QED BY <1>2, Invariance, PTL DEF FailureNeedsTwoFaults

\* Only the network or Close ends a live connection.
THEOREM LiveSurvives == Spec => SharedLinkSurvives
<1>1. ASSUME Inv, [Next]_vars, NEW k \in Live, k \notin Live'
      PROVE  LinkDies(k) \/ CloseHangsUp
  <2> k \in Conns /\ link[k] = "live" /\ link'[k] # "live"
    BY <1>1 DEF Live
  <2>1. ASSUME NEW c \in Calls, DialOk(c) PROVE FALSE
    BY <2>1, <1>1 DEF DialOk, Goto, Inv, TypeOK
  <2>2. ASSUME NEW c \in Calls, HangUp(c) PROVE FALSE
    BY <2>2, <1>1 DEF HangUp, Goto, Inv, TypeOK, LinkInv
  <2>3. ASSUME NEW j \in Conns, LinkDies(j) PROVE LinkDies(k)
    BY <2>3, <1>1 DEF LinkDies, Inv, TypeOK
  <2>4. link' # link
    OBVIOUS
  <2> QED
    BY <1>1, <2>1, <2>2, <2>3, <2>4
    DEF Next, Terminated, vars, shared, local, shutdown,
        Submit, PackFails, Connection, RefuseClosed, Reuse, StartDial,
        DialReturns, DialFail, Exchange, Answered, StreamFails, LinkLost,
        Cancelled, AfterQuery, CheckConn, Discard, Retry, GiveUp, Expire,
        CallClose, CloseLocked
<1>2. Inv /\ [Next]_vars =>
        [\A k \in Live : k \notin Live' => LinkDies(k) \/ CloseHangsUp]_vars
  BY <1>1
<1> QED BY <1>2, Invariance, PTL DEF SharedLinkSurvives, Spec

-----------------------------------------------------------------------------
(* Refinement.                                                             *)

\* What the interface sees of the control state of the calls.
Status == [c \in Calls |-> IF pc[c] \in Busy THEN "pending" ELSE pc[c]]

\* A step inside Exchange does not show; a step into or out of it does.
LEMMA StatusStep ==
  ASSUME Inv, NEW c \in Calls, NEW from, NEW to, Goto(c, from, to)
  PROVE  /\ from \in Busy /\ to \in Busy => Status' = Status
         /\ from \notin Busy /\ to \in Busy =>
              Status[c] = from /\ Status' = [Status EXCEPT ![c] = "pending"]
         /\ from \in Busy /\ to \notin Busy =>
              Status[c] = "pending" /\ Status' = [Status EXCEPT ![c] = to]
         /\ from \notin Busy /\ to \notin Busy =>
              Status[c] = from /\ Status' = [Status EXCEPT ![c] = to]
  BY DEF Inv, TypeOK, Goto, Status

\* At most one connection is live.
LEMMA OneLive == ASSUME Inv, NEW k \in Live PROVE Live = {k}
  BY NoConnAssumption DEF Inv, NoConnectionLeak, CloseInv, Live

\* DoQUpstream is an Upstream: every step of it is a step of the interface,
\* or does not show there.
THEOREM Implements == Spec => ImplementsUpstream
<1>1. Init => Abstract!Init
  BY DEF Init, Abstract!Init, Live, Busy
<1>2. Inv /\ [Next]_vars => [Abstract!Next]_(Abstract!vars)
  <2> SUFFICES ASSUME Inv, [Next]_vars
               PROVE  Abstract!Next \/ UNCHANGED Abstract!vars
    OBVIOUS
  <2> USE DEF Abstract!vars, Abstract!Next, Abstract!Move
  <2>0. ASSUME Status' = Status, Live' = Live, closed' = closed
        PROVE  UNCHANGED Abstract!vars
    BY <2>0 DEF Status
  <2>1. ASSUME NEW c \in Calls, Submit(c) PROVE Abstract!Exchange(c)
    <3>1. Goto(c, "idle", "connection") /\ UNCHANGED <<link, closed>>
      BY <2>1 DEF Submit, shared
    <3>2. Status[c] = "idle" /\ Status' = [Status EXCEPT ![c] = "pending"]
      BY <3>1, StatusStep DEF Busy
    <3> QED BY <3>1, <3>2 DEF Abstract!Exchange, Status, Live
  <2>2. ASSUME NEW c \in Calls, PackFails(c) PROVE Abstract!Refuse(c)
    <3>1. Goto(c, "idle", "err") /\ UNCHANGED <<link, closed>>
      BY <2>2 DEF PackFails, shared
    <3>2. Status[c] = "idle" /\ Status' = [Status EXCEPT ![c] = "err"]
      BY <3>1, StatusStep DEF Busy
    <3> QED BY <3>1, <3>2 DEF Abstract!Refuse, Status, Live
  <2>3. ASSUME NEW c \in Calls, Answered(c) PROVE Abstract!Answer(c)
    <3>1. Goto(c, "exchange", "ok") /\ UNCHANGED <<link, closed>>
      BY <2>3 DEF Answered, Return, shared
    <3>2. Live # {}
      BY <2>3 DEF Answered, Return, Goto, Inv, LinkInv, Live
    <3>3. Status[c] = "pending" /\ Status' = [Status EXCEPT ![c] = "ok"]
      BY <3>1, StatusStep DEF Busy
    <3> QED BY <3>1, <3>2, <3>3 DEF Abstract!Answer, Status, Live
  <2>4. ASSUME NEW c \in Calls, GiveUp(c) PROVE Abstract!Fail(c)
    <3>1. Goto(c, "judge", "err") /\ UNCHANGED <<link, closed>>
      BY <2>4 DEF GiveUp, Return, shared
    <3>2. Status[c] = "pending" /\ Status' = [Status EXCEPT ![c] = "err"]
      BY <3>1, StatusStep DEF Busy
    <3> QED BY <3>1, <3>2 DEF Abstract!Fail, Status, Live
  <2>5. ASSUME NEW c \in Calls, DialOk(c)
        PROVE  \E k \in Conns : Abstract!Connect(k)
    <3>1. PICK k \in Conns : link[k] = "none" /\ link' = [link EXCEPT ![k] = "live"]
      BY <2>5 DEF DialOk
    <3>2. Goto(c, "dial", "exchange") /\ closed' = closed
      BY <2>5 DEF DialOk
    <3>3. Live = {} /\ ~closed
      BY <3>2, NoCallAssumption, NoConnAssumption
      DEF Goto, Inv, MutexInv, DialInv, CloseInv, NoConnectionLeak, Live, Usable
    <3>4. Live' = {k}
      BY <3>1, <3>3 DEF Inv, TypeOK, Live
    <3>5. Status' = Status /\ Status[c] = "pending"
      BY <3>2, StatusStep DEF Goto, Status, Busy
    <3>6. Abstract!Connect(k)
      BY <3>2, <3>3, <3>4, <3>5 DEF Abstract!Connect, Status
    <3> QED BY <3>6
  <2>6. ASSUME NEW k \in Conns, LinkDies(k) PROVE Abstract!Drop
    <3>1. Live = {k} /\ Live' = {}
      BY <2>6, OneLive DEF LinkDies, Inv, TypeOK, Live
    <3> QED BY <2>6, <3>1 DEF LinkDies, local, Abstract!Drop
  <2>7. CASE CloseLocked
    <3>1. ~closed /\ closed' /\ Live' = Live /\ pc' = pc
      BY <2>7 DEF CloseLocked, local, Inv, CloseInv, TypeOK, Live
    <3> QED BY <3>1 DEF Abstract!Shut
  <2>8. CASE CloseHangsUp
    <3>1. Live' = {}
      BY <2>8, NoConnAssumption
      DEF CloseHangsUp, Inv, TypeOK, CloseInv, NoConnectionLeak, Live
    <3>2. closed' = closed /\ pc' = pc
      BY <2>8 DEF CloseHangsUp, local
    <3> QED BY <3>1, <3>2 DEF Abstract!Drop
  <2>9. ASSUME NEW c \in Calls,
               \/ Connection(c) \/ DialFail(c) \/ StreamFails(c)
               \/ LinkLost(c) \/ Cancelled(c) \/ CheckConn(c)
               \/ Discard(c) \/ Retry(c)
        PROVE  UNCHANGED Abstract!vars
    <3>1. \E from \in Busy, to \in Busy : Goto(c, from, to)
      BY <2>9
      DEF Connection, RefuseClosed, Reuse, StartDial, DialFail, StreamFails,
          LinkLost, Cancelled, CheckConn, Discard, Retry, Busy
    <3>2. link' = link /\ closed' = closed
      BY <2>9
      DEF Connection, RefuseClosed, Reuse, StartDial, DialFail, StreamFails,
          LinkLost, Cancelled, CheckConn, Discard, Retry, shared
    <3>3. Status' = Status
      BY <3>1, StatusStep
    <3> QED BY <2>0, <3>2, <3>3 DEF Live
  <2>10. ASSUME NEW c \in Calls, HangUp(c) PROVE UNCHANGED Abstract!vars
    <3>1. link' = link /\ closed' = closed /\ Goto(c, "hangup", "judge")
      BY <2>10 DEF HangUp, Goto, Inv, TypeOK, LinkInv
    <3>2. Status' = Status
      BY <3>1, StatusStep DEF Busy
    <3> QED BY <2>0, <3>1, <3>2 DEF Live
  <2>11. ASSUME NEW c \in Calls, Expire(c) PROVE UNCHANGED Abstract!vars
    BY <2>11 DEF Expire, shared, Live
  <2>12. CASE CallClose
    BY <2>12 DEF CallClose, shared, local, Live
  <2>13. CASE UNCHANGED vars
    BY <2>13 DEF vars, shared, local, Live
  <2> QED
    BY <2>1, <2>2, <2>3, <2>4, <2>5, <2>6, <2>7, <2>8, <2>9, <2>10, <2>11,
       <2>12, <2>13
    DEF Next, Terminated, DialReturns, Exchange, AfterQuery
<1> QED BY <1>1, <1>2, Invariance, PTL
        DEF Spec, ImplementsUpstream, Abstract!Spec

-----------------------------------------------------------------------------
(* DoQDeadline.                                                            *)
(*                                                                         *)
(* The argument is about Due, the clocks without the time that lookups     *)
(* took beyond their context; it passes while somebody waits only during a *)
(* dial, and no longer than the dialling call has time left, for beyond    *)
(* that it stands still for the holder and the waiters.  A waiter w that fell *)
(* asleep with at least Floor(w) ticks left compares itself with whoever   *)
(* can still hold the mutex before it; the difference of two clocks does   *)
(* not change when both tick.  Those ahead of it in the queue, and the     *)
(* holder it found, had at most Timeout ticks then.  A newcomer that       *)
(* overtakes later than that starts with at most Timeout ticks while w is  *)
(* at most Timeout below its floor, and makes the mutex starving, so that  *)
(* no second one can.                                                      *)

\* The least time a call can have left when it starts to wait for the mutex.
Floor(c) == IF pc[c] = "connection" THEN 0 ELSE -2 * Timeout

\* The waiters are asleep in Lock, each once, and the aged come first.
QueueInv ==
  /\ \A g \in Waiting : AtLock(g)
  /\ \A i, j \in DOMAIN queue : queue[i] = queue[j] => i = j
  /\ \A i, j \in DOMAIN queue : i < j /\ queue[j] \in aged => queue[i] \in aged
  /\ mode # "normal" => queue # <<>>
  /\ mode = "overtaken" => Head(queue) \in aged

\* What a call has left, by where it is.
ClockOf(c) ==
  /\ Due(c) <= Timeout
  /\ pc[c] \notin Busy => slow[c] = 0
  /\ pc[c] \in Busy => Due(c) >= -4 * Timeout
  /\ pc[c] \in Busy /\ left[c] < 0 => c \in expired
  /\ pc[c] \in {"connection", "dial", "exchange", "failed"} =>
       Due(c) >= -2 * Timeout
  /\ AtLock(c) /\ c \notin aged => Due(c) >= Floor(c)
ClockInv == \A c \in Calls : ClockOf(c)

\* What a waiter has left, compared with the holder and with those ahead.
HolderOf(w) ==
  mu # NoCall =>
    /\ Due(mu) <= Due(w) - Floor(w) + 2 * Timeout
    /\ mode = "normal" \/ w \notin aged =>
         Due(mu) <= Due(w) - Floor(w) + Timeout
NotStarved(w) == mode # "starving" => Due(w) >= Floor(w) - Timeout
AheadOf(j) ==
  \A i \in DOMAIN queue : i < j /\ queue[i] \in Calls =>
    Due(queue[i]) <= Due(queue[j]) - Floor(queue[j]) + Timeout
WaitInv ==
  \A j \in DOMAIN queue : queue[j] \in Calls =>
    HolderOf(queue[j]) /\ NotStarved(queue[j]) /\ AheadOf(j)

TimedInv == Inv /\ TimedTypeOK /\ QueueInv /\ ClockInv /\ WaitInv

-----------------------------------------------------------------------------
(* Sequences.                                                              *)

\* What Tail and Append do to the elements of a sequence.
LEMMA TailFacts ==
  ASSUME NEW S, NEW q \in Seq(S), q # <<>>
  PROVE  /\ Tail(q) \in Seq(S)
         /\ Len(q) \in Nat \ {0}
         /\ DOMAIN q = 1..Len(q)
         /\ DOMAIN Tail(q) = 1..(Len(q) - 1)
         /\ \A i \in 1..(Len(q) - 1) : Tail(q)[i] = q[i + 1]
         /\ Head(q) = q[1]
OBVIOUS

LEMMA AppendFacts ==
  ASSUME NEW S, NEW q \in Seq(S), NEW e \in S
  PROVE  /\ Append(q, e) \in Seq(S)
         /\ Len(q) \in Nat
         /\ DOMAIN q = 1..Len(q)
         /\ DOMAIN Append(q, e) = 1..(Len(q) + 1)
         /\ \A i \in 1..Len(q) : Append(q, e)[i] = q[i]
         /\ Append(q, e)[Len(q) + 1] = e
OBVIOUS

-----------------------------------------------------------------------------
(* Every timed step is a step of the upstream, or leaves it alone.         *)

LEMMA TimedIsUntimed == TimedNext => [Next]_vars
<1> SUFFICES ASSUME TimedNext PROVE [Next]_vars
  OBVIOUS
<1>1. ASSUME NEW c \in Calls, TimedSubmit(c) \/ Server(c) PROVE Next
  BY <1>1 DEF TimedSubmit, Server, AtOnce, Next, Exchange
<1>2. ASSUME NEW c \in Calls, Advance(c) PROVE [Next]_vars
  <2>1. CASE Enqueue(c)
    BY <2>1 DEF Enqueue
  <2>2. CASE Acquire(c)
    BY <2>2, CloserAssumption DEF Acquire, Next
  <2>3. CASE TimedDial(c) \/ TimedExpire(c)
    BY <2>3 DEF TimedDial, TimedExpire, Next, DialReturns
  <2>4. CASE AtOnce(c, LinkLost(c) \/ Cancelled(c) \/ AfterQuery(c))
    BY <2>4 DEF AtOnce, Next, Exchange
  <2> QED BY <1>2, <2>1, <2>2, <2>3, <2>4 DEF Advance
<1>3. CASE CloserAdvance
  BY <1>3 DEF CloserAdvance, Enqueue, Acquire, Next
<1>4. CASE Tick
  BY <1>4 DEF Tick
<1>5. CASE (CallClose \/ Terminated \/ \E k \in Conns : LinkDies(k))
  BY <1>5 DEF Next
<1> QED BY <1>1, <1>2, <1>3, <1>4, <1>5 DEF TimedNext

-----------------------------------------------------------------------------
(* Preservation of TimedInv, by what a step does to the mutex and the      *)
(* clocks.                                                                 *)

\* The state as the solvers need it: a dialling call does not wait.
LEMMA WaiterFacts ==
  ASSUME TimedInv
  PROVE  /\ queue \in Seq(Goroutines)
         /\ DOMAIN queue = 1..Len(queue)
         /\ Len(queue) \in Nat
         /\ \A i \in DOMAIN queue : queue[i] \in Waiting /\ queue[i] \in Goroutines
         /\ \A c \in Calls : pc[c] \in {"dial", "exchange", "failed", "hangup",
                                        "judge", "idle", "ok", "err"} =>
                               c \notin Waiting
         /\ mu # NoCall => mu \in Calls /\ pc[mu] = "dial" /\ mu \notin Waiting
         /\ Timeout \in Nat \ {0}
         /\ left \in [Calls -> Int] /\ slow \in [Calls -> Nat]
         /\ \A c \in Calls : Due(c) \in Int /\ Due(c) <= Timeout
         /\ Closer \notin Calls /\ NoCall \notin Calls
         /\ aged \subseteq Waiting /\ Waiting \subseteq Goroutines
<1> USE DEF TimedInv
<1>1. queue \in Seq(Goroutines) /\ aged \subseteq Waiting
  BY DEF TimedTypeOK
<1>2. \A i \in DOMAIN queue : queue[i] \in Waiting /\ queue[i] \in Goroutines
  BY <1>1 DEF Waiting
<1>3. \A c \in Calls : pc[c] \in {"dial", "exchange", "failed", "hangup",
                                  "judge", "idle", "ok", "err"} =>
                         c \notin Waiting
  BY CloserAssumption DEF QueueInv, AtLock
<1>4. mu # NoCall => mu \in Calls /\ pc[mu] = "dial"
  BY DEF Inv, TypeOK, MutexInv
<1>5. left \in [Calls -> Int] /\ slow \in [Calls -> Nat]
  BY TimeoutAssumption, MaxSlowAssumption DEF TimedTypeOK, Least
<1>8. \A c \in Calls : Due(c) \in Int /\ Due(c) <= Timeout
  <2>1. \A c \in Calls : Due(c) \in Int
    BY <1>5 DEF Due
  <2>2. \A c \in Calls : Due(c) <= Timeout
    BY DEF ClockInv, ClockOf
  <2> QED BY <2>1, <2>2
<1>6. DOMAIN queue = 1..Len(queue) /\ Len(queue) \in Nat
  BY <1>1
<1>7. Waiting \subseteq Goroutines
  BY <1>2 DEF Waiting
<1> QED
  BY <1>1, <1>2, <1>3, <1>4, <1>5, <1>6, <1>7, <1>8, TimeoutAssumption,
     CloserAssumption, NoCallAssumption

\* A step of call c that neither takes the mutex nor waits for it.
LEMMA LocalStep ==
  ASSUME TimedInv, NEW c \in Calls,
         UNCHANGED <<queue, aged, mode>>,
         closer = "lock" => closer' = "lock",
         \A x \in Calls \ {c} :
           pc'[x] = pc[x] /\ left'[x] = left[x] /\ slow'[x] = slow[x],
         expired \ {c} \subseteq expired',
         mu' \in {mu, NoCall},
         ClockOf(c)',
         \/ pc'[c] = pc[c] /\ left'[c] = left[c] /\ slow'[c] = slow[c]
         \/ c \notin Waiting /\ mu' # c
  PROVE  QueueInv' /\ ClockInv' /\ WaitInv'
<1> USE WaiterFacts
<1>1. Waiting' = Waiting
  BY DEF Waiting
<1>2. \A w \in Waiting \cap Calls : pc'[w] = pc[w] /\ Due(w)' = Due(w)
  BY DEF Due
<1>3. ASSUME NEW g \in Waiting PROVE AtLock(g)'
  <2>1. AtLock(g) /\ g \in Goroutines
    BY DEF QueueInv, TimedInv, Waiting
  <2> QED BY <2>1, <1>2 DEF AtLock, Goroutines
<1>4. QueueInv'
  BY <1>1, <1>3 DEF QueueInv, TimedInv
<1>5. \A x \in Calls \ {c} : ClockOf(x)'
  BY DEF TimedInv, ClockInv, ClockOf, Floor, AtLock, Due
<1>6. ClockInv'
  BY <1>5 DEF ClockInv
<1>7. \A w \in Waiting \cap Calls : Floor(w)' = Floor(w)
  BY <1>2 DEF Floor
<1>8. mu' # NoCall => mu' = mu /\ Due(mu)' = Due(mu)
  BY DEF Due
<1>9. ASSUME NEW j \in DOMAIN queue, queue[j] \in Calls
      PROVE  (HolderOf(queue[j]) /\ NotStarved(queue[j]) /\ AheadOf(j))'
  <2> DEFINE w == queue[j]
  <2>1. w \in Waiting \cap Calls /\ HolderOf(w) /\ NotStarved(w) /\ AheadOf(j)
    BY <1>9 DEF TimedInv, WaitInv
  <2>2. Due(w)' = Due(w) /\ Floor(w)' = Floor(w)
    BY <2>1, <1>2, <1>7
  <2>3. HolderOf(w)'
    BY <2>1, <2>2, <1>8 DEF HolderOf
  <2>4. NotStarved(w)'
    BY <2>1, <2>2 DEF NotStarved
  <2>5. AheadOf(j)'
    BY <2>1, <2>2, <1>2 DEF AheadOf
  <2> QED BY <2>3, <2>4, <2>5
<1> QED BY <1>4, <1>6, <1>9 DEF WaitInv

\* A goroutine falls asleep at the end of the queue.
LEMMA EnqueueStep ==
  ASSUME TimedInv, NEW g \in Goroutines, Enqueue(g)
  PROVE  TimedTypeOK' /\ QueueInv' /\ ClockInv' /\ WaitInv'
<1> USE WaiterFacts
<1> DEFINE n == Len(queue)
<1>1. /\ AtLock(g) /\ g \notin Waiting
      /\ queue' = Append(queue, g)
      /\ UNCHANGED <<vars, left, slow, aged, mode>>
      /\ ~MutexFree \/ mode = "starving"
  BY DEF Enqueue
<1>2. UNCHANGED <<mu, pc, closer, expired>>
  BY <1>1 DEF vars, shared, local, shutdown
<1>3. /\ queue' \in Seq(Goroutines)
      /\ DOMAIN queue' = 1..(n + 1)
      /\ \A i \in 1..n : queue'[i] = queue[i]
      /\ queue'[n + 1] = g
  BY <1>1, AppendFacts
<1>4. Waiting' = Waiting \cup {g}
  <2>1. ASSUME NEW x \in Waiting PROVE x \in Waiting'
    <3>1. PICK i \in DOMAIN queue : x = queue[i]
      BY DEF Waiting
    <3>2. i \in DOMAIN queue' /\ queue'[i] = x
      BY <3>1, <1>3
    <3> QED BY <3>2 DEF Waiting
  <2>2. g \in Waiting'
    <3>1. n + 1 \in DOMAIN queue'
      BY <1>3
    <3> QED BY <3>1, <1>3 DEF Waiting
  <2>3. ASSUME NEW x \in Waiting' PROVE x \in Waiting \cup {g}
    <3>1. PICK i \in DOMAIN queue' : x = queue'[i]
      BY DEF Waiting
    <3>2. CASE i = n + 1
      BY <3>1, <3>2, <1>3
    <3>3. CASE i \in 1..n
      BY <3>1, <3>3, <1>3 DEF Waiting
    <3> QED BY <3>1, <3>2, <3>3, <1>3
  <2> QED BY <2>1, <2>2, <2>3
<1>5. TimedTypeOK'
  BY <1>1, <1>3, <1>4 DEF TimedInv, TimedTypeOK, TypeOK, vars, shared, local,
                          shutdown
<1>6. g \notin aged /\ aged' = aged
  BY <1>1
<1>7. QueueInv'
  <2>1. \A x \in Goroutines : AtLock(x)' = AtLock(x)
    BY <1>2 DEF AtLock
  <2>2. \A x \in Waiting' : AtLock(x)'
    BY <2>1, <1>1, <1>4 DEF QueueInv, TimedInv, Waiting
  <2>3. \A i, j \in DOMAIN queue' : queue'[i] = queue'[j] => i = j
    BY <1>1, <1>3 DEF QueueInv, TimedInv
  <2>4. \A i, j \in DOMAIN queue' :
          i < j /\ queue'[j] \in aged' => queue'[i] \in aged'
    BY <1>3, <1>6 DEF QueueInv, TimedInv
  <2>5. queue' # <<>>
    BY <1>3
  <2>6. mode' = "overtaken" => Head(queue') \in aged'
    <3>1. ASSUME mode = "overtaken" PROVE Head(queue') \in aged
      <4>1. queue # <<>> /\ Head(queue) \in aged
        BY <3>1 DEF QueueInv, TimedInv
      <4>2. 1 \in DOMAIN queue /\ Head(queue) = queue[1]
        BY <4>1
      <4>3. Head(queue') = queue'[1]
        BY <1>3, <2>5
      <4> QED BY <4>1, <4>2, <4>3, <1>3
    <3> QED BY <3>1, <1>1
  <2> QED BY <2>2, <2>3, <2>4, <2>5, <2>6 DEF QueueInv
<1>8. ClockInv'
  BY <1>1, <1>2 DEF ClockInv, ClockOf, Floor, AtLock, TimedInv, Due
<1>9. \A c \in Calls : Floor(c)' = Floor(c)
  BY <1>2 DEF Floor
<1>10. ASSUME NEW j \in DOMAIN queue', queue'[j] \in Calls
       PROVE  (HolderOf(queue[j]) /\ NotStarved(queue[j]) /\ AheadOf(j))'
  <2>1. CASE j # n + 1
    <3>1. j \in DOMAIN queue /\ queue'[j] = queue[j]
      BY <2>1, <1>3
    <3>2. HolderOf(queue[j]) /\ NotStarved(queue[j]) /\ AheadOf(j)
      BY <3>1, <1>10 DEF TimedInv, WaitInv
    <3>3. Floor(queue[j])' = Floor(queue[j])
      BY <3>1, <1>10, <1>9
    <3>4. HolderOf(queue[j])' /\ NotStarved(queue[j])'
      BY <3>1, <3>2, <3>3, <1>1, <1>2 DEF HolderOf, NotStarved, Due
    <3>5. AheadOf(j)'
      BY <3>1, <3>2, <3>3, <1>1, <1>3 DEF AheadOf, Due
    <3> QED BY <3>4, <3>5
  <2>2. CASE j = n + 1
    <3>1. g \in Calls /\ queue'[j] = g
      BY <2>2, <1>3, <1>10
    <3>2. Due(g) >= Floor(g) /\ Floor(g) \in Int
      BY <3>1, <1>1, <1>6 DEF TimedInv, ClockInv, ClockOf, Floor
    <3>3. \A c \in Calls : Due(c) <= Timeout
      OBVIOUS
    <3>6. \A c \in Calls : Due(c)' = Due(c)
      BY <1>1 DEF Due
    <3>7. mu # NoCall => mu' = mu /\ Due(mu)' = Due(mu)
      BY <1>1, <1>2 DEF Due
    <3>8. Due(g)' = Due(g) /\ Floor(g)' = Floor(g) /\ Due(g) \in Int
      BY <3>1, <3>6, <1>1, <1>9
    <3>4. HolderOf(g)'
      <4>1. CASE mu' = NoCall
        BY <4>1 DEF HolderOf
      <4>2. CASE mu' # NoCall
        <5>1. Due(mu)' <= Timeout /\ Due(mu)' \in Int
          BY <4>2, <3>3, <3>7, <1>1, <1>2 DEF Due
        <5>2. /\ Due(mu)' <= Due(g)' - Floor(g)' + Timeout
              /\ Due(mu)' <= Due(g)' - Floor(g)' + 2 * Timeout
          BY <5>1, <3>2, <3>8
        <5> QED BY <5>2 DEF HolderOf
      <4> QED BY <4>1, <4>2
    <3>9. NotStarved(g)'
      BY <3>2, <3>8 DEF NotStarved
    <3>5. AheadOf(j)'
      BY <3>1, <3>2, <3>3, <3>6, <1>1, <1>9, <1>3 DEF AheadOf
    <3> QED BY <3>1, <3>4, <3>9, <3>5
  <2> QED BY <2>1, <2>2
<1> QED BY <1>5, <1>7, <1>8, <1>10 DEF WaitInv

\* The first waiter takes the mutex and leaves the queue.
LEMMA HandoverStep ==
  ASSUME TimedInv, NEW g \in Goroutines, Handover(g),
         left' = left, slow' = slow, expired' = expired,
         \A x \in Calls \ {g} : pc'[x] = pc[x],
         g # Closer => closer' = closer,
         mu' = NoCall \/ (mu' = g /\ g \in Calls),
         g \in Calls => ClockOf(g)'
  PROVE  QueueInv' /\ ClockInv' /\ WaitInv' /\ aged' \subseteq Waiting'
<1> USE WaiterFacts
<1> DEFINE n == Len(queue)
<1>1. /\ queue # <<>> /\ g = Head(queue) /\ queue' = Tail(queue)
      /\ mode' = IF mode = "starving" /\ n > 1 /\ g \in aged
                 THEN "starving" ELSE "normal"
      /\ aged' = aged \ {g}
  BY DEF Handover
<1>2. /\ n \in Nat \ {0} /\ DOMAIN queue = 1..n /\ g = queue[1]
      /\ DOMAIN queue' = 1..(n - 1)
      /\ \A i \in 1..(n - 1) : queue'[i] = queue[i + 1]
  BY <1>1, TailFacts
<1>3. \A i \in 1..(n - 1) : i + 1 \in DOMAIN queue /\ queue[i + 1] # g
  BY <1>2 DEF QueueInv, TimedInv
<1>4. \A x \in Waiting : x = g \/ x \in Waiting'
  <2>1. ASSUME NEW x \in Waiting, x # g PROVE x \in Waiting'
    <3>1. PICK i \in DOMAIN queue : x = queue[i]
      BY DEF Waiting
    <3>2. i - 1 \in DOMAIN queue' /\ queue'[i - 1] = x
      BY <3>1, <2>1, <1>2
    <3> QED BY <3>2 DEF Waiting
  <2> QED BY <2>1
<1>5. \A x \in Waiting' : x \in Waiting /\ x # g
  <2>1. ASSUME NEW x \in Waiting' PROVE x \in Waiting /\ x # g
    <3>1. PICK i \in DOMAIN queue' : x = queue'[i]
      BY DEF Waiting
    <3>2. x = queue[i + 1] /\ i + 1 \in DOMAIN queue /\ queue[i + 1] # g
      BY <3>1, <1>2, <1>3
    <3> QED BY <3>2
  <2> QED BY <2>1
<1>6. aged' \subseteq Waiting'
  BY <1>1, <1>4
<1>7. QueueInv'
  <2>1. ASSUME NEW x \in Waiting' PROVE AtLock(x)'
    <3>1. x \in Goroutines /\ x # g /\ AtLock(x)
      BY <1>5 DEF QueueInv, TimedInv
    <3> QED BY <3>1 DEF AtLock, Goroutines
  <2>2. \A i, j \in DOMAIN queue' : queue'[i] = queue'[j] => i = j
    <3>1. ASSUME NEW i \in DOMAIN queue', NEW j \in DOMAIN queue',
                 queue'[i] = queue'[j]
          PROVE  i = j
      <4>1. /\ i \in 1..(n - 1) /\ j \in 1..(n - 1)
            /\ queue[i + 1] = queue[j + 1]
        BY <3>1, <1>2
      <4>2. i + 1 = j + 1
        BY <4>1, <1>3 DEF QueueInv, TimedInv
      <4> QED BY <4>1, <4>2
    <3> QED BY <3>1
  <2>3. ASSUME NEW i \in DOMAIN queue', NEW j \in DOMAIN queue', i < j,
               queue'[j] \in aged'
        PROVE  queue'[i] \in aged'
    <3>1. i + 1 \in DOMAIN queue /\ j + 1 \in DOMAIN queue /\ i + 1 < j + 1
      BY <2>3, <1>2
    <3>2. queue[j + 1] \in aged
      BY <2>3, <1>1, <1>2
    <3>3. queue[i + 1] \in aged
      BY <3>1, <3>2 DEF QueueInv, TimedInv
    <3> QED BY <3>3, <1>1, <1>2, <1>3
  <2>4. mode' # "normal" => queue' # <<>>
    <3>1. ASSUME mode' # "normal" PROVE 1 \in DOMAIN queue'
      BY <3>1, <1>1, <1>2
    <3> QED BY <3>1
  <2> QED BY <2>1, <2>2, <2>3, <2>4, <1>1 DEF QueueInv
<1>8. ClockInv'
  <2>1. ASSUME NEW x \in Calls \ {g} PROVE ClockOf(x)'
    BY <1>1 DEF TimedInv, ClockInv, ClockOf, Floor, AtLock, Due
  <2> QED BY <2>1 DEF ClockInv
<1>9. ASSUME NEW j \in DOMAIN queue', NEW w \in Calls, w = queue'[j]
      PROVE  HolderOf(w)' /\ NotStarved(w)' /\ AheadOf(j)'
  <2>1. /\ j + 1 \in DOMAIN queue /\ 1 \in DOMAIN queue /\ 1 < j + 1
        /\ queue[j + 1] = w /\ w # g /\ w \in Waiting
    BY <1>2, <1>3, <1>9
  <2>2. /\ HolderOf(w) /\ NotStarved(w) /\ AheadOf(j + 1)
    BY <2>1 DEF TimedInv, WaitInv
  <2>3. Floor(w)' = Floor(w)
    BY <2>1 DEF Floor
  <2>4. Floor(w) \in Int /\ Due(w) \in Int
    BY DEF Floor
  <2>5. g \in Calls => Due(g) <= Due(w) - Floor(w) + Timeout
    BY <2>1, <2>2, <1>2 DEF AheadOf
  <2>6. HolderOf(w)'
    <3>1. ASSUME mu' # NoCall
          PROVE  /\ Due(g) <= Due(w) - Floor(w) + 2 * Timeout
                 /\ Due(g) <= Due(w) - Floor(w) + Timeout
      BY <3>1, <2>4, <2>5
    <3>2. mu' # NoCall => mu' = g /\ Due(mu)' = Due(g) /\ Due(w)' = Due(w)
      BY DEF Due
    <3> QED BY <3>1, <3>2, <2>3 DEF HolderOf
  <2>7. NotStarved(w)'
    <3>1. ASSUME mode' # "starving" PROVE Due(w) >= Floor(w) - Timeout
      <4>1. CASE mode # "starving"
        BY <4>1, <2>2 DEF NotStarved
      <4>2. CASE mode = "starving"
        <5>1. g \notin aged
          BY <3>1, <4>2, <1>1, <2>1, <1>2
        <5>2. w \notin aged
          BY <5>1, <2>1, <1>2 DEF QueueInv, TimedInv
        <5>3. Due(w) >= Floor(w)
          BY <5>2, <2>1 DEF TimedInv, ClockInv, ClockOf, QueueInv
        <5> QED BY <5>3, <2>4
      <4> QED BY <4>1, <4>2
    <3> QED BY <3>1, <2>3 DEF NotStarved, Due
  <2>8. AheadOf(j)'
    <3>1. ASSUME NEW i \in DOMAIN queue', i < j, queue'[i] \in Calls
          PROVE  Due(queue'[i]) <= Due(w) - Floor(w) + Timeout
      <4>1. i + 1 \in DOMAIN queue /\ i + 1 < j + 1 /\ queue[i + 1] = queue'[i]
        BY <3>1, <1>2
      <4> QED BY <4>1, <3>1, <2>1, <2>2 DEF AheadOf
    <3>2. \A x \in Calls : Due(x)' = Due(x)
      BY DEF Due
    <3> QED BY <3>1, <3>2, <1>9, <2>3 DEF AheadOf
  <2> QED BY <2>6, <2>7, <2>8
<1> QED BY <1>6, <1>7, <1>8, <1>9 DEF WaitInv

\* A newcomer takes the free mutex; the queue stays as it is.
LEMMA OvertakeStep ==
  ASSUME TimedInv, NEW g \in Goroutines, Overtake(g),
         left' = left, slow' = slow, expired' = expired,
         \A x \in Calls \ {g} : pc'[x] = pc[x],
         g # Closer => closer' = closer,
         mu' = NoCall \/ (mu' = g /\ g \in Calls),
         g \in Calls => ClockOf(g)'
  PROVE  QueueInv' /\ ClockInv' /\ WaitInv' /\ aged' \subseteq Waiting'
<1> USE WaiterFacts
<1>1. /\ mode # "starving" /\ g \notin Waiting
      /\ mode' = IF queue # <<>> /\ Head(queue) \in aged
                 THEN "overtaken" ELSE mode
      /\ queue' = queue /\ aged' = aged
  BY DEF Overtake
<1>2. Waiting' = Waiting
  BY <1>1 DEF Waiting
<1>3. QueueInv'
  <2>1. ASSUME NEW x \in Waiting PROVE AtLock(x)'
    <3>1. x \in Goroutines /\ x # g /\ AtLock(x)
      BY <1>1 DEF QueueInv, TimedInv, Waiting
    <3> QED BY <3>1 DEF AtLock, Goroutines
  <2> QED BY <2>1, <1>1, <1>2 DEF QueueInv, TimedInv
<1>4. ClockInv'
  <2>1. ASSUME NEW x \in Calls \ {g} PROVE ClockOf(x)'
    BY <1>1 DEF TimedInv, ClockInv, ClockOf, Floor, AtLock, Due
  <2> QED BY <2>1 DEF ClockInv
<1>5. ASSUME NEW j \in DOMAIN queue', queue'[j] \in Calls
      PROVE  (HolderOf(queue[j]) /\ NotStarved(queue[j]) /\ AheadOf(j))'
  <2> DEFINE w == queue[j]
  <2>1. /\ j \in DOMAIN queue /\ queue'[j] = w /\ w # g /\ w \in Calls
        /\ w \in Waiting
    BY <1>1, <1>5
  <2>2. /\ HolderOf(w) /\ NotStarved(w) /\ AheadOf(j)
    BY <2>1 DEF TimedInv, WaitInv
  <2>3. pc'[w] = pc[w]
    BY <2>1
  <2>4. Due(w) >= Floor(w) - Timeout /\ Floor(w) \in Int /\ Due(w) \in Int
    BY <2>1, <2>2, <1>1 DEF NotStarved, Floor
  <2>11. Due(w)' = Due(w)
    BY <1>1 DEF Due
  <2>5. w \notin aged => Due(w) >= Floor(w)
    BY <2>1 DEF TimedInv, ClockInv, ClockOf, QueueInv
  <2>6. g \in Calls => Due(g) <= Timeout
    OBVIOUS
  <2>7. mode' = "normal" => w \notin aged
    <3>1. queue # <<>> /\ 1 \in DOMAIN queue /\ Head(queue) = queue[1]
      BY <2>1
    <3>2. mode' = "normal" => queue[1] \notin aged
      BY <3>1, <1>1
    <3> QED BY <3>1, <3>2, <2>1 DEF QueueInv, TimedInv
  <2>8. HolderOf(w)'
    <3>1. ASSUME mu' # NoCall
          PROVE  /\ Due(g) <= Due(w) - Floor(w) + 2 * Timeout
                 /\ w \notin aged => Due(g) <= Due(w) - Floor(w) + Timeout
      BY <3>1, <2>4, <2>5, <2>6
    <3>2. mu' # NoCall => mu' = g /\ Due(mu)' = Due(g)
      BY DEF Due
    <3> QED BY <3>1, <3>2, <2>1, <2>3, <2>7, <2>11, <1>1 DEF HolderOf, Floor
  <2>9. NotStarved(w)'
    BY <2>1, <2>3, <2>4, <2>11 DEF NotStarved, Floor
  <2>10. AheadOf(j)'
    <3>1. \A x \in Calls : Due(x)' = Due(x)
      BY DEF Due
    <3> QED BY <3>1, <2>1, <2>2, <2>3, <1>1 DEF AheadOf, Floor
  <2> QED BY <2>1, <2>8, <2>9, <2>10
<1> QED BY <1>1, <1>2, <1>3, <1>4, <1>5 DEF WaitInv

\* Time passes: either the holder has time left, and all clocks tick, or it
\* is looking up beyond its context, and for it and the waiters Due stands
\* still.
LEMMA TickStep ==
  ASSUME TimedInv, Tick
  PROVE  TimedTypeOK' /\ QueueInv' /\ ClockInv' /\ WaitInv'
<1> USE WaiterFacts
<1>1. /\ \A c \in Calls : pc[c] \in Busy =>
           Blocked(c) /\ (left[c] = 0 => c \in expired)
      /\ left' = [c \in Calls |-> IF pc[c] \in Busy /\ left[c] > Least
                                  THEN left[c] - 1 ELSE left[c]]
      /\ \A c \in Calls : HeldUp(c) => slow[c] < MaxSlow
      /\ slow' = [c \in Calls |-> IF HeldUp(c) THEN slow[c] + 1 ELSE slow[c]]
      /\ aged' = Waiting /\ queue' = queue
      /\ mode' = IF mode = "overtaken" THEN "starving" ELSE mode
  BY DEF Tick
<1>2. UNCHANGED <<mu, pc, closer, expired>> /\ UNCHANGED vars
  BY DEF Tick, vars, shared, local, shutdown
<1>3. Waiting' = Waiting
  BY <1>1 DEF Waiting
<1>4. \A c \in Calls : pc[c] \in Busy => left[c] > Least
  <2>1. slow \in [Calls -> 0..MaxSlow]
    BY DEF TimedInv, TimedTypeOK
  <2>2. ASSUME NEW c \in Calls, pc[c] \in Busy PROVE left[c] > Least
    <3>1. slow[c] \in Nat /\ slow[c] <= MaxSlow /\ left[c] \in Int
      BY <2>1
    <3>2. Due(c) >= -4 * Timeout /\ Due(c) = left[c] + slow[c]
      BY <2>2 DEF TimedInv, ClockInv, ClockOf, Due
    <3> QED BY <3>1, <3>2, MaxSlowAssumption DEF Least
  <2> QED BY <2>2
<1>5. \A c \in Calls : left'[c] = IF pc[c] \in Busy THEN left[c] - 1 ELSE left[c]
  BY <1>1, <1>4
<1>15. \A c \in Calls : slow'[c] = IF HeldUp(c) THEN slow[c] + 1 ELSE slow[c]
  BY <1>1
<1>16. \A c \in Calls : pc[c] = "dial" => c = mu
  BY DEF TimedInv, Inv, MutexInv
<1>17. \A c \in Calls : pc[c] \in Busy /\ c \notin Waiting /\ c \notin expired =>
         left[c] >= 1
  BY <1>1 DEF TimedInv, ClockInv, ClockOf
<1>18. \A c \in Calls : pc[c] \in Busy /\ left'[c] < 0 => c \in expired
  BY <1>1, <1>5 DEF TimedInv, ClockInv, ClockOf
<1>6. PICK d \in {0, 1} :
        /\ \A c \in Calls : c = mu \/ c \in Waiting => Due(c)' = Due(c) - d
        /\ d = 1 /\ mu # NoCall => Due(mu) >= 1
  <2>1. \A c \in Calls : c = mu \/ c \in Waiting => left'[c] = left[c] - 1
    BY <1>5 DEF Busy, QueueInv, AtLock, TimedInv
  <2>2. CASE mu \in expired
    <3>1. \A c \in Calls : c = mu \/ c \in Waiting => slow'[c] = slow[c] + 1
      BY <1>15, <2>2 DEF HeldUp
    <3>2. \A c \in Calls : c = mu \/ c \in Waiting => Due(c)' = Due(c) - 0
      BY <2>1, <3>1 DEF Due
    <3> QED BY <3>2
  <2>3. CASE mu \notin expired
    <3>1. \A c \in Calls : slow'[c] = slow[c]
      BY <1>15, <2>3 DEF HeldUp
    <3>2. \A c \in Calls : c = mu \/ c \in Waiting => Due(c)' = Due(c) - 1
      BY <2>1, <3>1 DEF Due
    <3>3. mu # NoCall => Due(mu) >= 1
      BY <1>17, <2>3 DEF Due, Busy
    <3> QED BY <3>2, <3>3
  <2> QED BY <2>2, <2>3
<1>19. \A c \in Calls : pc[c] \in {"exchange"} =>
         Due(c)' >= 0 /\ Due(c)' \in Int /\ Due(c)' <= Timeout
  <2>1. ASSUME NEW c \in Calls, pc[c] = "exchange"
        PROVE  Due(c)' >= 0 /\ Due(c)' \in Int /\ Due(c)' <= Timeout
    <3>1. pc[c] \in Busy /\ c \notin Waiting /\ c # mu
      BY <2>1 DEF Busy
    <3>2. c \notin expired
      BY <2>1, <3>1, <1>1 DEF Blocked
    <3>3. left[c] >= 1 /\ left'[c] = left[c] - 1 /\ slow'[c] = slow[c]
      BY <3>1, <3>2, <1>5, <1>15, <1>17 DEF HeldUp
    <3> QED BY <3>3 DEF Due
  <2> QED BY <2>1
<1>7. \A c \in Calls : pc[c] \in {"connection", "discard"} =>
        c \in Waiting /\ mu # NoCall
  BY <1>1 DEF Blocked, Busy, MutexFree
<1>8. \A c \in Calls : pc[c] \notin {"failed", "hangup", "judge"}
  BY <1>1 DEF Blocked, Busy, QueueInv, AtLock, TimedInv
<1>9. TimedTypeOK'
  <2>1. left' \in [Calls -> Least..Timeout]
    <3>1. Least \in Int /\ left \in [Calls -> Least..Timeout]
      BY MaxSlowAssumption DEF TimedInv, TimedTypeOK, Least
    <3>2. \A c \in Calls : left'[c] \in Least..Timeout
      BY <1>4, <1>5, <3>1
    <3> QED BY <3>2, <1>1
  <2>2. mode' \in {"normal", "overtaken", "starving"}
    BY <1>1 DEF TimedInv, TimedTypeOK
  <2>3. slow' \in [Calls -> 0..MaxSlow]
    <3>1. \A c \in Calls : slow'[c] \in 0..MaxSlow
      BY <1>1, <1>15, MaxSlowAssumption DEF TimedInv, TimedTypeOK
    <3> QED BY <3>1, <1>1
  <2> QED BY <2>1, <2>2, <2>3, <1>1, <1>2, <1>3 DEF TimedInv, TimedTypeOK, TypeOK,
            vars, shared, local, shutdown
<1>10. QueueInv'
  <2>1. \A g \in Waiting' : AtLock(g)'
    BY <1>2, <1>3 DEF QueueInv, TimedInv, AtLock
  <2> QED BY <2>1, <1>1, <1>3 DEF QueueInv, TimedInv, Waiting
<1>11. ASSUME NEW w \in Calls, w \in Waiting
       PROVE  /\ Due(w)' = Due(w) - d
              /\ Floor(w)' = Floor(w) /\ Floor(w) \in {0, -2 * Timeout}
              /\ HolderOf(w) /\ NotStarved(w)
              /\ mu # NoCall /\ (d = 1 => Due(mu) >= 1)
              /\ Due(mu)' = Due(mu) - d
              /\ pc[w] \in {"connection", "discard"}
              /\ Due(w) \in Int /\ Due(mu) \in Int /\ Floor(w) \in Int
  <2>1. pc[w] \in {"connection", "discard"}
    BY <1>11 DEF QueueInv, TimedInv, AtLock
  <2>2. mu # NoCall /\ pc[mu] = "dial" /\ mu \in Calls
    BY <2>1, <1>7
  <2>3. PICK j \in DOMAIN queue : w = queue[j]
    BY <1>11 DEF Waiting
  <2>4. HolderOf(w) /\ NotStarved(w)
    BY <2>3, <1>11 DEF TimedInv, WaitInv
  <2>5. /\ Floor(w)' = Floor(w) /\ Floor(w) \in {0, -2 * Timeout}
        /\ Floor(w) \in Int
    BY <1>2 DEF Floor
  <2>6. Due(w)' = Due(w) - d
    BY <1>11, <1>6
  <2>7. left'[mu] + slow'[mu] = Due(mu) - d /\ (d = 1 => Due(mu) >= 1)
    BY <2>2, <1>6 DEF Due
  <2>8. Due(mu)' = Due(mu) - d
    BY <2>7, <1>2 DEF Due
  <2>9. Due(w) \in Int /\ Due(mu) \in Int
    BY <2>2
  <2> QED BY <2>1, <2>2, <2>4, <2>5, <2>6, <2>7, <2>8, <2>9
<1>12. \A w \in Calls : w \in Waiting => Due(w)' >= Floor(w) - 2 * Timeout
  <2>1. ASSUME NEW w \in Calls, w \in Waiting
        PROVE  Due(w)' >= Floor(w) - 2 * Timeout
    <3>1. Due(mu) <= Due(w) - Floor(w) + 2 * Timeout
      BY <2>1, <1>11 DEF HolderOf
    <3>2. /\ d = 1 => Due(mu) >= 1
          /\ Due(w)' = Due(w) - d
          /\ Due(w) \in Int /\ Due(mu) \in Int /\ Floor(w) \in Int
      BY <2>1, <1>11
    <3>3. Due(w) >= Floor(w) - 2 * Timeout
      <4>1. pc[w] \in {"connection", "discard"} /\ Due(w) \in Int
        BY <2>1, <1>11
      <4>2. Due(w) >= -4 * Timeout
            /\ (pc[w] = "connection" => Due(w) >= -2 * Timeout)
        BY <4>1 DEF TimedInv, ClockInv, ClockOf, Busy
      <4>3. CASE pc[w] = "connection"
        BY <4>1, <4>2, <4>3 DEF Floor
      <4>4. CASE pc[w] = "discard"
        BY <4>1, <4>2, <4>4 DEF Floor
      <4> QED BY <4>1, <4>3, <4>4
    <3>4. CASE d = 1
      BY <3>1, <3>2, <3>4
    <3>5. CASE d = 0
      BY <3>2, <3>3, <3>5
    <3> QED BY <3>4, <3>5
  <2> QED BY <2>1
<1>13. ClockInv'
  <2>1. ASSUME NEW c \in Calls PROVE ClockOf(c)'
    <3>1. CASE pc[c] = "exchange"
      <4>1. Due(c)' >= 0 /\ Due(c)' \in Int /\ Due(c)' <= Timeout
        BY <3>1, <1>19
      <4>2. Due(c)' >= -4 * Timeout /\ Due(c)' >= -2 * Timeout
        BY <4>1
      <4>3. ~AtLock(c)' /\ pc'[c] \in Busy
        BY <3>1, <1>2, CloserAssumption DEF AtLock, Busy
      <4> QED BY <4>1, <4>2, <4>3, <1>2, <1>18 DEF ClockOf
    <3>2. CASE pc[c] = "dial"
      <4>1. Due(c)' = Due(c) - d /\ (d = 1 => Due(c) >= 1) /\ Due(c) \in Int
        BY <3>2, <1>6, <1>16
      <4>2. Due(c) >= -2 * Timeout /\ Due(c) <= Timeout
        BY <3>2 DEF TimedInv, ClockInv, ClockOf
      <4>3. Due(c)' >= -2 * Timeout /\ Due(c)' >= -4 * Timeout
            /\ Due(c)' <= Timeout
        BY <4>1, <4>2
      <4>4. ~AtLock(c)' /\ pc'[c] \in Busy
        BY <3>2, <1>2, CloserAssumption DEF AtLock, Busy
      <4> QED BY <4>3, <4>4, <1>2, <1>18 DEF ClockOf
    <3>3. CASE pc[c] \in {"connection", "discard"}
      <4>1. c \in Waiting /\ c \in aged'
        BY <3>3, <1>1, <1>7
      <4>2. /\ Due(c)' >= Floor(c) - 2 * Timeout
            /\ Floor(c) = IF pc[c] = "connection" THEN 0 ELSE -2 * Timeout
            /\ Due(c)' = Due(c) - d /\ Due(c) \in Int /\ Due(c) <= Timeout
        BY <4>1, <1>11, <1>12 DEF Floor
      <4>3. Due(c)' >= -4 * Timeout
        BY <3>3, <4>2
      <4>4. pc[c] = "connection" => Due(c)' >= -2 * Timeout
        BY <3>3, <4>2
      <4>5. Due(c)' <= Timeout /\ pc'[c] \in Busy
        BY <3>3, <4>2, <1>2 DEF Busy
      <4> QED BY <3>3, <4>1, <4>3, <4>4, <4>5, <1>2, <1>18 DEF ClockOf
    <3>4. CASE pc[c] \notin Busy
      <4>1. c \notin Waiting /\ c # mu /\ slow[c] = 0 /\ Due(c) <= Timeout
        BY <3>4, CloserAssumption
        DEF QueueInv, AtLock, Busy, TimedInv, ClockInv, ClockOf
      <4>2. slow'[c] = 0 /\ left'[c] = left[c]
        BY <3>4, <4>1, <1>5, <1>15 DEF HeldUp
      <4>3. Due(c)' <= Timeout
        BY <4>1, <4>2 DEF Due
      <4>4. ~AtLock(c)'
        BY <3>4, <1>2, CloserAssumption DEF AtLock, Busy
      <4> QED BY <3>4, <4>2, <4>3, <4>4, <1>2 DEF ClockOf, Busy
    <3> QED BY <3>1, <3>2, <3>3, <3>4, <1>8 DEF Busy
  <2> QED BY <2>1 DEF ClockInv
<1>14. ASSUME NEW j \in DOMAIN queue', NEW w \in Calls, w = queue'[j]
       PROVE  HolderOf(w)' /\ NotStarved(w)' /\ AheadOf(j)'
  <2>1. j \in DOMAIN queue /\ queue[j] = w /\ w \in Waiting
    BY <1>1, <1>14
  <2>2. HolderOf(w)'
    <3>1. mode' = "normal" => mode = "normal"
      BY <1>1
    <3>2. w \in aged'
      BY <2>1, <1>1
    <3>3. /\ Due(mu) <= Due(w) - Floor(w) + 2 * Timeout
          /\ mode = "normal" => Due(mu) <= Due(w) - Floor(w) + Timeout
      BY <2>1, <1>11 DEF HolderOf
    <3>4. /\ Due(mu)' <= Due(w)' - Floor(w) + 2 * Timeout
          /\ mode = "normal" => Due(mu)' <= Due(w)' - Floor(w) + Timeout
      <4>1. /\ Due(mu)' = Due(mu) - d /\ Due(w)' = Due(w) - d
            /\ Due(w) \in Int /\ Due(mu) \in Int /\ Floor(w) \in Int
        BY <2>1, <1>11
      <4>2. CASE d = 0
        BY <4>1, <4>2, <3>3
      <4>3. CASE d = 1
        BY <4>1, <4>3, <3>3
      <4> QED BY <4>2, <4>3
    <3> QED BY <2>1, <3>1, <3>2, <3>4, <1>11, <1>2 DEF HolderOf
  <2>3. NotStarved(w)'
    <3>1. ASSUME mode' # "starving"
          PROVE  Due(w)' >= Floor(w) - Timeout
      <4>1. mode = "normal"
        BY <3>1, <1>1 DEF TimedInv, TimedTypeOK
      <4>2. Due(mu) <= Due(w) - Floor(w) + Timeout
        BY <4>1, <2>1, <1>11 DEF HolderOf
      <4>3. /\ d = 1 => Due(mu) >= 1
            /\ Due(w)' = Due(w) - d
            /\ Due(w) \in Int /\ Due(mu) \in Int /\ Floor(w) \in Int
        BY <2>1, <1>11
      <4>4. mode # "starving" /\ Due(w) >= Floor(w) - Timeout
        BY <4>1, <2>1, <1>11 DEF NotStarved
      <4>5. CASE d = 1
        BY <4>2, <4>3, <4>5
      <4>6. CASE d = 0
        BY <4>3, <4>4, <4>6
      <4> QED BY <4>5, <4>6
    <3> QED BY <3>1, <2>1, <1>11 DEF NotStarved
  <2>4. AheadOf(j)'
    <3>1. AheadOf(j)
      BY <2>1 DEF TimedInv, WaitInv
    <3>2. ASSUME NEW i \in DOMAIN queue, i < j, queue[i] \in Calls
          PROVE  Due(queue[i])' <= Due(w)' - Floor(w) + Timeout
      <4>1. /\ Due(queue[i])' = Due(queue[i]) - d
            /\ Due(queue[i]) \in Int
        <5>1. ASSUME NEW v \in Calls, v = queue[i]
              PROVE  left'[v] + slow'[v] = Due(v) - d /\ Due(v) \in Int
          BY <3>2, <5>1, <1>11 DEF Due
        <5> QED BY <3>2, <5>1, <1>1 DEF Due
      <4>2. Due(queue[i]) <= Due(w) - Floor(w) + Timeout
        BY <3>1, <3>2, <2>1 DEF AheadOf
      <4>3. Due(w)' = Due(w) - d /\ Due(w) \in Int /\ Floor(w) \in Int
        BY <2>1, <1>11
      <4> QED BY <4>1, <4>2, <4>3
    <3> QED BY <3>2, <2>1, <1>11, <1>1 DEF AheadOf
  <2> QED BY <2>2, <2>3, <2>4
<1> QED BY <1>9, <1>10, <1>13, <1>14 DEF WaitInv

\* A step of Close or of the network that leaves mutex and clocks alone.
LEMMA OtherStep ==
  ASSUME TimedInv, Inv', UNCHANGED timing, UNCHANGED <<mu, pc, expired>>,
         closer = "lock" => closer' = "lock"
  PROVE  TimedInv'
<1> USE WaiterFacts
<1>1. UNCHANGED <<left, slow, queue, aged, mode>> /\ Waiting' = Waiting
  BY DEF timing, Waiting
<1>6. (\A c \in Calls : Due(c)' = Due(c)) /\ Due(mu)' = Due(mu)
  BY <1>1 DEF Due
<1>2. TimedTypeOK'
  BY <1>1 DEF Inv, TimedInv, TimedTypeOK
<1>3. QueueInv'
  <2>1. \A g \in Waiting : AtLock(g)'
    BY DEF QueueInv, TimedInv, AtLock
  <2> QED BY <2>1, <1>1 DEF QueueInv, TimedInv
<1>4. ClockInv'
  BY <1>1, <1>6, CloserAssumption DEF ClockInv, ClockOf, Floor, AtLock, TimedInv
<1>5. ASSUME NEW j \in DOMAIN queue', queue'[j] \in Calls
      PROVE  (HolderOf(queue[j]) /\ NotStarved(queue[j]) /\ AheadOf(j))'
  BY <1>1, <1>5, <1>6 DEF WaitInv, HolderOf, NotStarved, AheadOf, Floor, TimedInv
<1> QED BY <1>2, <1>3, <1>4, <1>5 DEF WaitInv, TimedInv

LEMMA TimedInitInv == TimedInit => TimedInv
<1> SUFFICES ASSUME TimedInit PROVE TimedInv
  OBVIOUS
<1> USE TimeoutAssumption, MaxSlowAssumption, CloserAssumption DEF TimedInit
<1>1. Inv
  BY InitInv
<1>2. Waiting = {}
  BY DEF Waiting
<1>3. left \in [Calls -> Least..Timeout] /\ slow \in [Calls -> 0..MaxSlow]
  BY DEF Least
<1>4. TimedTypeOK
  BY <1>1, <1>2, <1>3 DEF TimedTypeOK, Inv
<1>5. QueueInv
  BY <1>2 DEF QueueInv
<1>6. ClockInv
  <2>1. ASSUME NEW c \in Calls PROVE ClockOf(c)
    <3>1. pc[c] = "idle" /\ left[c] = 0 /\ slow[c] = 0
      BY DEF Init
    <3>2. ~AtLock(c) /\ pc[c] \notin Busy
      BY <3>1 DEF AtLock, Busy
    <3>3. Due(c) <= Timeout
      BY <3>1 DEF Due
    <3> QED BY <3>1, <3>2, <3>3 DEF ClockOf
  <2> QED BY <2>1 DEF ClockInv
<1>7. WaitInv
  BY DEF WaitInv
<1> QED BY <1>1, <1>4, <1>5, <1>6, <1>7 DEF TimedInv

\* A call that takes a step outside of Lock keeps to its clock.
LEMMA CallStep ==
  ASSUME TimedInv, Inv', NEW c \in Calls,
         \/ TimedSubmit(c) \/ Server(c) \/ TimedDial(c) \/ TimedExpire(c)
         \/ AtOnce(c, LinkLost(c) \/ Cancelled(c) \/ AfterQuery(c))
  PROVE  TimedInv'
<1> USE WaiterFacts
<1>1. /\ UNCHANGED <<queue, aged, mode, closer>>
      /\ \A x \in Calls \ {c} : pc'[x] = pc[x]
      /\ expired \ {c} \subseteq expired'
      /\ left' = left \/ left' = [left EXCEPT ![c] = Timeout]
                      \/ left' = [left EXCEPT ![c] = 0]
      /\ slow' = slow \/ slow' = [slow EXCEPT ![c] = 0]
  <2>1. CASE TimedSubmit(c)
    BY <2>1 DEF TimedSubmit, Submit, Goto, shutdown, TimedInv, Inv, TypeOK
  <2>2. CASE TimedDial(c)
    BY <2>2 DEF TimedDial, DialOk, DialFail, Goto, shutdown, timing, TimedInv,
                Inv, TypeOK
  <2>3. CASE TimedExpire(c)
    BY <2>3 DEF TimedExpire, Expire, shutdown, timing
  <2>4. ASSUME PackFails(c) \/ Answered(c) \/ StreamFails(c) \/ LinkLost(c)
               \/ Cancelled(c) \/ AfterQuery(c)
        PROVE  /\ closer' = closer /\ expired \ {c} \subseteq expired'
               /\ \A x \in Calls \ {c} : pc'[x] = pc[x]
    BY <2>4 DEF PackFails, Answered, StreamFails, LinkLost, Cancelled,
                AfterQuery, CheckConn, HangUp, Retry, GiveUp, Return, Goto,
                shutdown, TimedInv, Inv, TypeOK
  <2>5. CASE Server(c)
    BY <2>5, <2>4 DEF Server, AtOnce, TimedInv, TimedTypeOK
  <2>6. CASE AtOnce(c, LinkLost(c) \/ Cancelled(c) \/ AfterQuery(c))
    BY <2>6, <2>4 DEF AtOnce, TimedInv, TimedTypeOK
  <2> QED BY <2>1, <2>2, <2>3, <2>5, <2>6
<1>2. TimedTypeOK'
  <2>1. left' \in [Calls -> Least..Timeout]
    <3>1. {0, Timeout} \subseteq Least..Timeout
      BY MaxSlowAssumption DEF Least
    <3> QED BY <1>1, <3>1, MaxSlowAssumption DEF TimedInv, TimedTypeOK
  <2>3. slow' \in [Calls -> 0..MaxSlow]
    <3>1. 0 \in 0..MaxSlow
      BY MaxSlowAssumption
    <3>2. slow \in [Calls -> 0..MaxSlow]
      BY DEF TimedInv, TimedTypeOK
    <3> QED BY <1>1, <3>1, <3>2
  <2>2. Waiting' = Waiting
    BY <1>1 DEF Waiting
  <2> QED BY <1>1, <2>1, <2>2, <2>3 DEF Inv, TimedInv, TimedTypeOK
<1>3. /\ mu' \in {mu, NoCall}
      /\ \/ pc'[c] = pc[c] /\ left'[c] = left[c] /\ slow'[c] = slow[c]
         \/ c \notin Waiting /\ mu' # c
      /\ ClockOf(c)'
  <2> USE CloserAssumption
  <2>1. ClockOf(c)
    BY DEF TimedInv, ClockInv
  <2>2. CASE TimedSubmit(c)
    <3>1. /\ pc[c] = "idle" /\ pc'[c] = "connection" /\ left'[c] = Timeout
          /\ mu' = mu /\ slow'[c] = slow[c]
      BY <2>2 DEF TimedSubmit, Submit, Goto, shared, TimedInv, Inv, TypeOK
    <3>3. slow[c] = 0
      BY <2>1, <3>1 DEF ClockOf, Busy
    <3>2. ClockOf(c)'
      BY <3>1, <3>3 DEF ClockOf, Floor, Due, Busy
    <3> QED BY <3>1, <3>2
  <2>3. CASE TimedDial(c)
    <3>1. /\ pc[c] = "dial" /\ pc'[c] \in {"exchange", "judge"}
          /\ left' = left /\ slow' = slow /\ expired' = expired /\ mu' = NoCall
      BY <2>3 DEF TimedDial, DialOk, DialFail, Goto, timing, TimedInv, Inv,
                  TypeOK
    <3>2. ClockOf(c)'
      BY <3>1, <2>1 DEF ClockOf, AtLock, Busy, Due
    <3> QED BY <3>1, <3>2
  <2>4. CASE TimedExpire(c)
    <3>1. /\ pc' = pc /\ left' = left /\ c \in expired' /\ mu' = mu
          /\ slow' = slow /\ aged' = aged
      BY <2>4 DEF TimedExpire, Expire, timing, shared
    <3>2. ClockOf(c)'
      BY <3>1, <2>1 DEF ClockOf, AtLock, Floor, Due
    <3> QED BY <3>1, <3>2
  <2>5. ASSUME AtOnce(c, PackFails(c) \/ Answered(c) \/ StreamFails(c)
                         \/ LinkLost(c) \/ Cancelled(c) \/ AfterQuery(c))
        PROVE  /\ mu' = mu /\ c \notin Waiting /\ mu # c
               /\ ClockOf(c)'
    <3>1. /\ left'[c] = IF pc'[c] \in Returned THEN 0 ELSE left[c]
          /\ slow'[c] = IF pc'[c] \in Returned THEN 0 ELSE slow[c]
      BY <2>5 DEF AtOnce
    <3>2. /\ mu' = mu
          /\ pc[c] \in {"idle", "exchange", "failed", "hangup", "judge"}
      BY <2>5 DEF AtOnce, PackFails, Answered, StreamFails, LinkLost, Cancelled,
                  AfterQuery, CheckConn, HangUp, Retry, GiveUp, Return, Goto,
                  shared
    <3>3. ClockOf(c)'
      <4>1. CASE pc'[c] \in Returned
        BY <3>1, <4>1 DEF ClockOf, AtLock, Busy, Returned, Due
      <4>2. CASE pc'[c] = "failed" /\ pc[c] = "exchange" /\ expired' = expired
        BY <3>1, <4>2, <2>1 DEF ClockOf, AtLock, Busy, Returned, Due
      <4>3. CASE /\ pc'[c] \in {"discard", "judge"} /\ expired' = expired
                 /\ pc[c] \in {"failed", "hangup"}
                 /\ pc'[c] = "discard" => pc[c] = "failed"
        BY <3>1, <4>3, <2>1 DEF ClockOf, AtLock, Busy, Returned, Floor, Due
      <4>4. CASE /\ pc'[c] = "connection" /\ pc[c] = "judge"
                 /\ c \notin expired
        BY <3>1, <4>4, <2>1 DEF ClockOf, AtLock, Busy, Returned, Floor, Due
      <4>5. \/ pc'[c] \in Returned
            \/ pc'[c] = "failed" /\ pc[c] = "exchange" /\ expired' = expired
            \/ /\ pc'[c] \in {"discard", "judge"} /\ expired' = expired
               /\ pc[c] \in {"failed", "hangup"}
               /\ pc'[c] = "discard" => pc[c] = "failed"
            \/ pc'[c] = "connection" /\ pc[c] = "judge" /\ c \notin expired
        BY <2>5 DEF AtOnce, PackFails, Answered, StreamFails, LinkLost, Cancelled,
                    AfterQuery, CheckConn, HangUp, Retry, GiveUp, Return, Goto,
                    RetryAllowed, Returned, TimedInv, Inv, TypeOK
      <4> QED BY <4>1, <4>2, <4>3, <4>4, <4>5
    <3> QED BY <3>2, <3>3
  <2>6. CASE Server(c) \/ AtOnce(c, LinkLost(c) \/ Cancelled(c) \/ AfterQuery(c))
    <3>1. AtOnce(c, PackFails(c) \/ Answered(c) \/ StreamFails(c)
                    \/ LinkLost(c) \/ Cancelled(c) \/ AfterQuery(c))
      BY <2>6 DEF Server, AtOnce
    <3> QED BY <2>5, <3>1
  <2> QED BY <2>2, <2>3, <2>4, <2>6
<1>4. \A x \in Calls \ {c} : left'[x] = left[x] /\ slow'[x] = slow[x]
  BY <1>1 DEF TimedInv, TimedTypeOK
<1>5. QueueInv' /\ ClockInv' /\ WaitInv'
  BY <1>1, <1>3, <1>4, LocalStep
<1> QED BY <1>2, <1>5 DEF TimedInv

\* A goroutine takes the mutex, at the head of the queue or past it.
LEMMA AcquireStep ==
  ASSUME TimedInv, Inv', NEW g \in Goroutines, Acquire(g)
  PROVE  TimedInv'
<1> USE WaiterFacts
<1>1. left' = left /\ slow' = slow /\ (Handover(g) \/ Overtake(g))
  BY DEF Acquire, TakesMutex
<1>2. /\ \A x \in Calls \ {g} : pc'[x] = pc[x]
      /\ expired' = expired
      /\ g # Closer => closer' = closer
      /\ mu' = NoCall \/ (mu' = g /\ g \in Calls)
      /\ g \in Calls => ClockOf(g)'
  <2>1. CASE g = Closer
    BY <2>1, CloserAssumption DEF Acquire, CloseLocked, MutexFree, local
  <2>2. CASE g \in Calls
    <3>1. CASE Connection(g)
      <4>1. /\ \A x \in Calls \ {g} : pc'[x] = pc[x]
            /\ expired' = expired /\ closer' = closer
            /\ mu' = NoCall \/ mu' = g
            /\ pc[g] = "connection" /\ pc'[g] \in {"judge", "exchange", "dial"}
        BY <3>1, <2>2 DEF Connection, RefuseClosed, Reuse, StartDial, Goto,
                          MutexFree, shared, shutdown, TimedInv, Inv, TypeOK
      <4>2. ClockOf(g)
        BY <2>2 DEF TimedInv, ClockInv
      <4>3. ClockOf(g)'
        BY <4>1, <4>2, <1>1, <2>2, CloserAssumption DEF ClockOf, AtLock, Busy, Due
      <4> QED BY <4>1, <4>3, <2>2
    <3>2. CASE Discard(g)
      <4>1. /\ \A x \in Calls \ {g} : pc'[x] = pc[x]
            /\ expired' = expired /\ closer' = closer
            /\ mu' = NoCall
            /\ pc[g] = "discard" /\ pc'[g] = "hangup"
        BY <3>2, <2>2 DEF Discard, Goto, MutexFree, shutdown, TimedInv, Inv,
                          TypeOK
      <4>2. ClockOf(g)
        BY <2>2 DEF TimedInv, ClockInv
      <4>3. ClockOf(g)'
        BY <4>1, <4>2, <1>1, <2>2, CloserAssumption DEF ClockOf, AtLock, Busy, Due
      <4> QED BY <4>1, <4>3, <2>2
    <3> QED BY <2>2, <3>1, <3>2, CloserAssumption DEF Acquire
  <2> QED BY <2>1, <2>2 DEF Goroutines
<1>3. QueueInv' /\ ClockInv' /\ WaitInv' /\ aged' \subseteq Waiting'
  BY <1>1, <1>2, HandoverStep, OvertakeStep
<1>4. queue' \in Seq(Goroutines) /\ mode' \in {"normal", "overtaken", "starving"}
  <2>1. CASE Handover(g)
    BY <2>1, TailFacts DEF Handover
  <2>2. CASE Overtake(g)
    BY <2>2 DEF Overtake, TimedInv, TimedTypeOK
  <2> QED BY <1>1, <2>1, <2>2
<1> QED BY <1>1, <1>3, <1>4 DEF TimedInv, TimedTypeOK, Inv

LEMMA TimedNextInv == TimedInv /\ [TimedNext]_timedVars => TimedInv'
<1> SUFFICES ASSUME TimedInv, [TimedNext]_timedVars PROVE TimedInv'
  OBVIOUS
<1>1. Inv'
  <2>1. [Next]_vars
    BY TimedIsUntimed DEF timedVars
  <2> QED BY <2>1, NextInv DEF TimedInv
<1>2. ASSUME NEW c \in Calls, TimedSubmit(c) \/ Server(c) PROVE TimedInv'
  BY <1>1, <1>2, CallStep
<1>3. ASSUME NEW g \in Goroutines, Enqueue(g) PROVE TimedInv'
  BY <1>1, <1>3, EnqueueStep DEF TimedInv
<1>4. ASSUME NEW c \in Calls, Advance(c) PROVE TimedInv'
  BY <1>1, <1>3, <1>4, CallStep, AcquireStep DEF Advance, Goroutines
<1>5. CASE CloserAdvance
  <2>1. CASE CloseHangsUp /\ UNCHANGED timing
    BY <2>1, <1>1, OtherStep DEF CloseHangsUp, local
  <2> QED BY <1>1, <1>3, <1>5, <2>1, AcquireStep DEF CloserAdvance, Goroutines
<1>6. CASE CallClose /\ UNCHANGED timing
  BY <1>1, <1>6, OtherStep DEF CallClose, local, shared
<1>7. ASSUME NEW k \in Conns, LinkDies(k) /\ UNCHANGED timing PROVE TimedInv'
  BY <1>1, <1>7, OtherStep DEF LinkDies, local, shutdown
<1>8. CASE Tick
  BY <1>1, <1>8, TickStep DEF TimedInv
<1>9. CASE UNCHANGED vars /\ UNCHANGED timing
  BY <1>1, <1>9, OtherStep DEF vars, local, shutdown, shared
<1> QED BY <1>2, <1>4, <1>5, <1>6, <1>7, <1>8, <1>9
        DEF TimedNext, Terminated, timedVars

LEMMA TimedInvariance == TimedSpec => []TimedInv
  BY TimedInitInv, TimedNextInv, PTL DEF TimedSpec

-----------------------------------------------------------------------------
(* The theorems.                                                           *)

\* Every variable keeps to its type; in particular no goroutine is twice in
\* the queue of the mutex, and only waiters are aged.
THEOREM TimedTypeCorrect == TimedSpec => []TimedTypeOK
  BY TimedInvariance, PTL DEF TimedInv

\* In time, the upstream does nothing it does not do without a clock: what
\* is proved of Spec above holds of TimedSpec too.
THEOREM TimedRefines == TimedSpec => Spec
<1>1. TimedInit => Init
  BY DEF TimedInit
<1>2. [TimedNext]_timedVars => [Next]_vars
  BY TimedIsUntimed DEF timedVars
<1> QED BY <1>1, <1>2, PTL DEF TimedSpec, Spec

\* However many calls share the upstream, none is overdue by more than two
\* timeouts when it gets its connection, or by more than four when it ends,
\* the name lookups left out that outlast their context while it waits.
THEOREM Overrun == TimedSpec => []OverrunBounded
<1>1. TimedInv => OverrunBounded
  BY DEF TimedInv, ClockInv, ClockOf, OverrunBounded
<1> QED BY <1>1, TimedInvariance, PTL

=============================================================================
