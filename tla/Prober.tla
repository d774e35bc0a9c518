------------------------------- MODULE Prober -------------------------------
(***************************************************************************)
(* The measurement of Benchmark with the exchanges of its two probers step *)
(* by step: over DoQ those of DoQStream, over DoH one HTTP request of      *)
(* cmd/dnsspeed/doh.go.  queryOnce gives each query a context of its own,  *)
(* which ends with the timeout, with the interrupt of the user, and when   *)
(* queryOnce returns.                                                      *)
(***************************************************************************)
EXTENDS Benchmark

CONSTANT MaxSize  \* see DoQStream

ASSUME MaxSizeAssumption == MaxSize \in Nat

VARIABLES
  proto,                                            \* Target.Proto
  ctx, at, helper, stop, tx, rx, size, kind, arrived, got  \* see DoQStream

S == INSTANCE DoQStream

network    == <<size, kind, arrived>>
elsewhere  == <<at, stop, got, helper, tx, rx, network>>
stream     == <<ctx, elsewhere>>
proberVars == <<vars, proto, stream>>

ProberTypeOK == TypeOK /\ S!StreamTypeOK /\ proto \in {"DoH", "DoQ"}

ProberInit == Init /\ S!StreamInit /\ proto \in {"DoH", "DoQ"}

-----------------------------------------------------------------------------
(* queryOnce.                                                              *)

Alone(A) == A /\ UNCHANGED <<proto, stream>>
StreamSteps(A) == A /\ UNCHANGED <<vars, proto>>

Query ==
  /\ FirstQuery \/ TimedQuery
  /\ ctx' = FALSE
  /\ UNCHANGED <<proto, elsewhere>>

\* The deferred cancel ends the context when queryOnce returns.
Cancels(A) ==
  /\ A
  /\ ctx' = TRUE
  /\ UNCHANGED <<proto, elsewhere>>

BeginDoH ==
  /\ at' = "request" /\ helper' = "none" /\ stop' = FALSE
  /\ tx' = "none" /\ rx' = "none"
  /\ size' = 0 /\ kind' = "valid" /\ arrived' = 0 /\ got' = 0
  /\ ctx' = ctx

\* net/http need not be through with a query that has failed or whose context
\* is done; quic-go has then nothing more to do with the connection.
GivesUp(A) ==
  /\ A
  /\ gaveUp' = IF proto = "DoH" /\ (ctx \/ at = "err") THEN "dialing" ELSE gaveUp

\* A connection is there and the exchange begins.
Begin(A) ==
  /\ A
  /\ IF proto = "DoQ" THEN S!Begin ELSE BeginDoH
  /\ UNCHANGED proto

EndsWithAnswer == at = "ok" /\ Cancels(GivesUp(Answered \/ Unusable))
EndsWithError  == at = "err" /\ Alone(GivesUp(ExchangeFails))

-----------------------------------------------------------------------------
(* dohProber.Exchange.                                                     *)

DoHGoto(from, to) ==
  /\ at = from
  /\ at' = to
  /\ UNCHANGED <<vars, proto, ctx, stop, got, helper, tx, rx, network>>

Responds == conn = "live" /\ DoHGoto("request", "response")

\* The body is read to its end or to maxDoHResponse bytes.  The message ID of
\* the answer is overwritten and never compared.
DoHAccept == DoHGoto("response", "ok")

\* Do and ReadAll fail when the context is done, the connection is lost or
\* the server speaks no HTTP; a status other than 200 and a body that is no
\* DNS message are errors too.
DoHFails == DoHGoto("request", "err") \/ DoHGoto("response", "err")

RedialDoH == at = "request" /\ Alone(Redial)

-----------------------------------------------------------------------------
\* The steps of the measuring goroutine that nothing but the scheduler
\* delays, when enabled.
Measuring ==
  \/ Query \/ Begin(Reuse) \/ EndsWithAnswer \/ EndsWithError
  \/ Alone(NewProberFails \/ Succeeded \/ Failed \/ Summarise \/ Close)
  \/ Cancels(CheckConn)
  \/ StreamSteps(S!Caller)

\* What waits for the server or the network, and what fails by itself or
\* when the context is done.
Fallible == Cancels(PackFails) \/ Cancels(GivesUp(DialFails)) \/ DoHFails
Awaited  ==
  \/ Begin(DialOk) \/ Responds \/ DoHAccept \/ RedialDoH
  \/ StreamSteps(S!Server) \/ Alone(LinkDies) \/ Alone(LateDial)

ProberNext ==
  \/ Measuring \/ Fallible \/ Awaited
  \/ StreamSteps(S!Helper) \/ StreamSteps(S!Expire)
  \/ Alone(Returned)

ProberSpec == ProberInit /\ [][ProberNext]_proberVars

\* Goroutines run and timers fire; of the server nothing is assumed.
ProberFairSpec ==
  /\ ProberSpec
  /\ WF_proberVars(Measuring)
  /\ WF_proberVars(ctx /\ Fallible)
  /\ WF_proberVars(StreamSteps(S!Helper))
  /\ WF_proberVars(StreamSteps(S!Expire))

-----------------------------------------------------------------------------
(* Properties.                                                             *)

\* See DoQStream.
AnswersAreWhole == S!AnswersAreWhole
FailedStreamsReleased == S!FailedStreamsReleased

\* When benchmarkTarget returns, however it returns, the DoQ prober has left
\* no connection open, and the DoH prober only if a query has failed or run
\* out of time before: net/http may then still clean up a stream of a
\* connection, which Close skips, or finish a dial after Close.
NothingLeftOpen ==
  /\ ClosedUnlessGivenUp
  /\ pc = "done" /\ open > 0 => proto = "DoH"

\* The measurement of an endpoint ends, whatever its server leaves
\* unanswered: each wait of a query ends with its context (queryOnce).  The
\* pool waits for every measurement before it reports any.
MeasurementEnds == pc = "connection" ~> pc = "done"
=============================================================================
