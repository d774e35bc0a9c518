---------------------------- MODULE DoQUpstream -----------------------------
(***************************************************************************)
(* The DNS-over-QUIC upstream of doq.go: one QUIC connection, cached under *)
(* a mutex, that every concurrent Exchange shares.  A call obtains the     *)
(* connection (dialling while it holds the mutex when there is none),      *)
(* runs its query on a stream of its own, discards the connection when it  *)
(* finds it dead, and tries once more.  Close may run at any moment.       *)
(*                                                                         *)
(* A critical section that cannot block is one action, guarded by the      *)
(* mutex being free; only a dial keeps the mutex from one step to another. *)
(* The steps of a single stream (doqExchange) are collapsed here into      *)
(* their outcome: an answer, a stream error, the loss of the connection,   *)
(* or the end of the caller's context.                                     *)
(***************************************************************************)
EXTENDS Naturals

CONSTANTS
  Calls,   \* the goroutines, each of which calls Exchange once
  Conns,   \* the QUIC connections that may be dialled (bounds the dials)
  NoCall,  \* the owner of a free mutex
  NoConn   \* the nil *quic.Conn

ASSUME NoCallAssumption == NoCall \notin Calls
ASSUME NoConnAssumption == NoConn \notin Conns

VARIABLES
  mu,      \* d.mu: the call that dials while holding it, or NoCall
  conn,    \* d.conn
  closed,  \* d.closed
  link,    \* link[k]: connection k is not dialled, live, or dead
           \* (dead: k.Context().Err() is not nil)
  pc,      \* pc[c]: where call c is
  attempt, \* attempt[c]: how often call c has entered query
  used,    \* used[c]: the connection of c's latest attempt that got one
  expired, \* the calls whose context is done
  closer,  \* where the goroutine that calls Close is
  closing, \* the connection Close took out of d.conn
  faults   \* history: the network faults call c has met

shared   == <<mu, conn, closed, link>>
local    == <<pc, attempt, used, expired>>
shutdown == <<closer, closing>>
vars     == <<shared, local, shutdown, faults>>

Busy == {"connection", "dial", "exchange", "failed", "discard", "hangup",
         "judge"}
Returned == {"ok", "err"}

TypeOK ==
  /\ mu \in Calls \cup {NoCall}
  /\ conn \in Conns \cup {NoConn}
  /\ closed \in BOOLEAN
  /\ link \in [Conns -> {"none", "live", "dead"}]
  /\ pc \in [Calls -> {"idle"} \cup Busy \cup Returned]
  /\ attempt \in [Calls -> 0..2]
  /\ used \in [Calls -> Conns \cup {NoConn}]
  /\ expired \subseteq Calls
  /\ closer \in {"idle", "lock", "hangup", "done"}
  /\ closing \in Conns \cup {NoConn}
  /\ faults \in [Calls -> 0..2]

Init ==
  /\ mu = NoCall
  /\ conn = NoConn
  /\ closed = FALSE
  /\ link = [k \in Conns |-> "none"]
  /\ pc = [c \in Calls |-> "idle"]
  /\ attempt = [c \in Calls |-> 0]
  /\ used = [c \in Calls |-> NoConn]
  /\ expired = {}
  /\ closer = "idle"
  /\ closing = NoConn
  /\ faults = [c \in Calls |-> 0]

Live == {k \in Conns : link[k] = "live"}

Goto(c, from, to) ==
  /\ pc[c] = from
  /\ pc' = [pc EXCEPT ![c] = to]

Fault(c) == faults' = [faults EXCEPT ![c] = @ + 1]

\* The goroutine of c leaves Exchange, and everything local to it is gone.
Return(c, from, to) ==
  /\ Goto(c, from, to)
  /\ attempt' = [attempt EXCEPT ![c] = 0]
  /\ used' = [used EXCEPT ![c] = NoConn]
  /\ expired' = expired \ {c}
  /\ faults' = [faults EXCEPT ![c] = 0]

-----------------------------------------------------------------------------
(* Exchange: pack the query, enter query for the first time.               *)

Submit(c) ==
  /\ Goto(c, "idle", "connection")
  /\ attempt' = [attempt EXCEPT ![c] = 1]
  /\ UNCHANGED <<shared, used, expired, shutdown, faults>>

\* The message does not pack, or is longer than the length field can say.
PackFails(c) ==
  /\ Goto(c, "idle", "err")
  /\ UNCHANGED <<shared, attempt, used, expired, shutdown, faults>>

-----------------------------------------------------------------------------
(* connection: the cached connection, or a new one, under the mutex.       *)

MutexFree == mu = NoCall

\* A cached connection is handed out only while its context is not done.
UsableAnyCached(k) == k # NoConn
Usable(k) == k # NoConn /\ link[k] = "live"

RefuseClosed(c) ==
  /\ MutexFree
  /\ closed
  /\ Goto(c, "connection", "judge")
  /\ UNCHANGED <<shared, attempt, used, expired, shutdown, faults>>

Reuse(c) ==
  /\ MutexFree
  /\ ~closed
  /\ Usable(conn)
  /\ Goto(c, "connection", "exchange")
  /\ used' = [used EXCEPT ![c] = conn]
  /\ UNCHANGED <<shared, attempt, expired, shutdown, faults>>

\* quic.DialAddr is called with the mutex held.
StartDialUnlocked(c) ==
  /\ MutexFree
  /\ ~closed
  /\ ~Usable(conn)
  /\ Goto(c, "connection", "dial")
  /\ UNCHANGED <<shared, attempt, used, expired, shutdown, faults>>
StartDial(c) ==
  /\ MutexFree
  /\ ~closed
  /\ ~Usable(conn)
  /\ Goto(c, "connection", "dial")
  /\ mu' = c
  /\ UNCHANGED <<conn, closed, link, attempt, used, expired, shutdown, faults>>

DialOk(c) ==
  /\ Goto(c, "dial", "exchange")
  /\ \E k \in Conns :
       /\ link[k] = "none"
       /\ link' = [link EXCEPT ![k] = "live"]
       /\ conn' = k
       /\ used' = [used EXCEPT ![c] = k]
  /\ mu' = NoCall
  /\ UNCHANGED <<closed, attempt, expired, shutdown, faults>>

\* The dial fails, by itself or because the context of c is done; the
\* deferred Unlock releases the mutex on this path too.
DialFailKeepsLock(c) ==
  /\ Goto(c, "dial", "judge")
  /\ conn' = NoConn
  /\ Fault(c)
  /\ UNCHANGED <<mu, closed, link, attempt, used, expired, shutdown>>
DialFail(c) ==
  /\ Goto(c, "dial", "judge")
  /\ conn' = NoConn
  /\ mu' = NoCall
  /\ Fault(c)
  /\ UNCHANGED <<closed, link, attempt, used, expired, shutdown>>

-----------------------------------------------------------------------------
(* doqExchange: one stream of the connection, by outcome.                  *)

Answered(c) ==
  /\ Return(c, "exchange", "ok")
  /\ link[used[c]] = "live"
  /\ UNCHANGED <<shared, shutdown>>

\* The stream is reset, the response is empty, does not parse, or carries a
\* message ID other than 0; the connection itself is fine.
StreamFails(c) ==
  /\ Goto(c, "exchange", "failed")
  /\ link[used[c]] = "live"
  /\ Fault(c)
  /\ UNCHANGED <<shared, attempt, used, expired, shutdown>>

LinkLost(c) ==
  /\ Goto(c, "exchange", "failed")
  /\ link[used[c]] = "dead"
  /\ UNCHANGED <<shared, attempt, used, expired, shutdown, faults>>

\* The context of c is done: OpenStreamSync gives up, or the goroutine next
\* to the stream cancels both its directions.
CancelledNever(c) == FALSE /\ UNCHANGED vars
Cancelled(c) ==
  /\ Goto(c, "exchange", "failed")
  /\ c \in expired
  /\ UNCHANGED <<shared, attempt, used, expired, shutdown, faults>>

-----------------------------------------------------------------------------
(* query after a failed exchange, discard, and the retry in Exchange.      *)

GoneAlways(c) == TRUE
Gone(c) == link[used[c]] = "dead"

CheckConn(c) ==
  /\ Goto(c, "failed", IF Gone(c) THEN "discard" ELSE "judge")
  /\ UNCHANGED <<shared, attempt, used, expired, shutdown, faults>>

\* The cache is cleared only if it still holds the connection of c.
KeptForget(c) == NoConn
Kept(c) == IF conn = used[c] THEN NoConn ELSE conn

Discard(c) ==
  /\ MutexFree
  /\ Goto(c, "discard", "hangup")
  /\ conn' = Kept(c)
  /\ UNCHANGED <<mu, closed, link, attempt, used, expired, shutdown, faults>>

HangUp(c) ==
  /\ Goto(c, "hangup", "judge")
  /\ link' = [link EXCEPT ![used[c]] = "dead"]
  /\ UNCHANGED <<mu, conn, closed, attempt, used, expired, shutdown, faults>>

RetryAgain(c) == c \notin expired
RetryAllowed(c) == attempt[c] = 1 /\ c \notin expired

Retry(c) ==
  /\ Goto(c, "judge", "connection")
  /\ RetryAllowed(c)
  /\ attempt' = [attempt EXCEPT ![c] = @ + 1]
  /\ UNCHANGED <<shared, used, expired, shutdown, faults>>

GiveUp(c) ==
  /\ ~RetryAllowed(c)
  /\ Return(c, "judge", "err")
  /\ UNCHANGED <<shared, shutdown>>

-----------------------------------------------------------------------------
(* Close, and what the network and the clock do.                           *)

CallClose ==
  /\ closer = "idle"
  /\ closer' = "lock"
  /\ UNCHANGED <<shared, local, closing, faults>>

CloseForgetsFlag ==
  /\ closer = "lock"
  /\ MutexFree
  /\ closing' = conn
  /\ conn' = NoConn
  /\ closer' = "hangup"
  /\ UNCHANGED <<mu, closed, link, local, faults>>
CloseLocked ==
  /\ closer = "lock"
  /\ MutexFree
  /\ closing' = conn
  /\ conn' = NoConn
  /\ closed' = TRUE
  /\ closer' = "hangup"
  /\ UNCHANGED <<mu, link, local, faults>>

CloseHangsUp ==
  /\ closer = "hangup"
  /\ link' = [k \in Conns |-> IF k = closing THEN "dead" ELSE link[k]]
  /\ closer' = "done"
  /\ UNCHANGED <<mu, conn, closed, local, closing, faults>>

\* The server closes connection k, or k times out; every exchange that is
\* running on k meets this fault.
LinkDies(k) ==
  /\ link[k] = "live"
  /\ link' = [link EXCEPT ![k] = "dead"]
  /\ faults' = [c \in Calls |-> IF pc[c] = "exchange" /\ used[c] = k
                                THEN faults[c] + 1 ELSE faults[c]]
  /\ UNCHANGED <<mu, conn, closed, local, shutdown>>

Expire(c) ==
  /\ pc[c] \in Busy
  /\ c \notin expired
  /\ expired' = expired \cup {c}
  /\ UNCHANGED <<shared, pc, attempt, used, shutdown, faults>>

-----------------------------------------------------------------------------
Connection(c)  == RefuseClosed(c) \/ Reuse(c) \/ StartDial(c)
DialReturns(c) == DialOk(c) \/ DialFail(c)
Exchange(c)    == Answered(c) \/ StreamFails(c) \/ LinkLost(c) \/ Cancelled(c)
AfterQuery(c)  == CheckConn(c) \/ HangUp(c) \/ Retry(c) \/ GiveUp(c)

Terminated ==
  /\ \A c \in Calls : pc[c] \in Returned
  /\ closer = "done"
  /\ UNCHANGED vars

Next ==
  \/ \E c \in Calls : \/ Submit(c) \/ PackFails(c)
                      \/ Connection(c) \/ DialReturns(c)
                      \/ Exchange(c) \/ AfterQuery(c) \/ Discard(c)
                      \/ Expire(c)
  \/ CallClose \/ CloseLocked \/ CloseHangsUp
  \/ \E k \in Conns : LinkDies(k)
  \/ Terminated

Spec == Init /\ [][Next]_vars

-----------------------------------------------------------------------------
(* Properties.                                                             *)

\* A live connection is the cached one, or the one Close has just taken out
\* to close it: dials that race with a discard, a retry or Close never leave
\* a connection open that nobody holds (connection, discard, Close).
NoConnectionLeak ==
  \A k \in Live : k = conn \/ (closer = "hangup" /\ k = closing)

\* Close is final: once it has returned no connection is open, not even one
\* whose dial was under way when Close was called, and none comes back.
ClosedForGood ==
  /\ closed => conn = NoConn
  /\ closer = "done" => Live = {}

\* One stale or broken connection never fails an exchange: a call that was
\* sent, whose context is not done and whose upstream is not closed returns
\* an error only after two network faults of its own (Exchange, query).
FailureNeedsTwoFaults ==
  [][\A c \in Calls : GiveUp(c) => closed \/ c \in expired \/ faults[c] = 2]_vars

\* A live connection is only ever ended by the network or by Close, never
\* by a call whose own exchange failed while others use it (query, discard).
SharedLinkSurvives ==
  [][\A k \in Live : k \notin Live' => LinkDies(k) \/ CloseHangsUp]_vars

\* Every exchange returns, whatever the server does and however long other
\* calls keep the mutex for a dial (Exchange, connection, doqExchange).  This
\* and CloseReturns are checked with the deadlines and the mutex of
\* DoQDeadline.
ExchangeReturns ==
  \A c \in Calls : pc[c] = "connection" ~> pc[c] \in Returned

\* Close returns although dials may hold the mutex when it is called.
CloseReturns == closer = "lock" ~> closer = "done"

\* What README.md says of a failed query: it is retried once, on a new
\* connection.  The code does so only if the old connection is dead.
RetryUsesNewConnection ==
  [][\A c \in Calls : Reuse(c) /\ attempt[c] = 2 => used'[c] # used[c]]_vars

\* The interface of upstream.go, as seen through the cached connection.
Abstract == INSTANCE Upstream WITH
  status <- [c \in Calls |-> IF pc[c] \in Busy THEN "pending" ELSE pc[c]],
  up     <- Live,
  shut   <- closed

\* DoQUpstream implements Upstream: never two connections, no answer without
\* one, none established after Close, one result per call.
ImplementsUpstream == Abstract!Spec
=============================================================================
