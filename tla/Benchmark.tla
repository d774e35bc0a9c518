----------------------------- MODULE Benchmark ------------------------------
(***************************************************************************)
(* The measurement of one endpoint: benchmarkTarget and queryOnce of       *)
(* cmd/dnsspeed/bench.go.  A first query pays for the connection, then     *)
(* Count timed queries follow; the prober keeps one connection and dials   *)
(* when it has no live one.  One goroutine uses it, so the mutex of the    *)
(* DoQ prober is never contended and is left out.  For the DoH prober conn *)
(* is the pool of net/http: live if any connection of it is.  net/http may *)
(* still clean up or dial for a query that has failed or timed out.        *)
(* Prober has the exchanges step by step.                                  *)
(*                                                                         *)
(* A duration is represented by what it includes: "dial" if the query had  *)
(* to dial a connection, "query" if it ran on one that was there.          *)
(***************************************************************************)
EXTENDS Naturals, Sequences

CONSTANTS
  Count,   \* -count, the number of timed queries
  NoError, \* the empty Result.Err
  Cold     \* the Result.Handshake of an endpoint that was not reached

ASSUME CountAssumption == Count \in Nat
Durations == {"dial", "query"}
ASSUME ColdAssumption == Cold \notin Durations

\* The kinds of Result.Err.
Errors == {"url", "pack", "dial", "exchange", "unusable"}
ASSUME NoErrorAssumption == NoError \notin Errors

VARIABLES
  pc,        \* where benchmarkTarget is
  i,         \* the timed queries that were started
  conn,      \* the connection of the prober: none, live or dead
  took,      \* what the duration of the current query includes
  err,       \* Result.Err: the kind of the last error
  handshake, \* Result.Handshake
  samples,   \* Result.Samples
  attempts,  \* Result.Attempts
  failures,  \* Result.Failures
  ok,        \* Result.OK
  open,      \* history: the connections that are open
  gaveUp     \* history: whether a query ended before net/http was through
             \* with it: "no" (always so with the DoQ prober, see Prober),
             \* "dialing" while it may still dial for it, "over"

result == <<err, handshake, samples, attempts, failures, ok>>
link   == <<conn, open, gaveUp>>
vars   == <<pc, i, took, result, link>>

Init ==
  /\ pc = "new"
  /\ i = 0
  /\ conn = "none"
  /\ took = "query"
  /\ err = NoError
  /\ handshake = Cold
  /\ samples = <<>>
  /\ attempts = 0
  /\ failures = 0
  /\ ok = FALSE
  /\ open = 0
  /\ gaveUp = "no"

Goto(from, to) == pc = from /\ pc' = to

-----------------------------------------------------------------------------
(* benchmarkTarget.                                                        *)

NewProberFails ==
  /\ Goto("new", "done")
  /\ err' = "url"
  /\ UNCHANGED <<i, took, handshake, samples, attempts, failures, ok, link>>

FirstQuery ==
  /\ Goto("new", "connection")
  /\ attempts' = attempts + 1
  /\ UNCHANGED <<i, took, err, handshake, samples, failures, ok, link>>

MoreOffByOne == i <= Count
More == i < Count

TimedQuery ==
  /\ Goto("loop", "connection")
  /\ More
  /\ i' = i + 1
  /\ attempts' = attempts + 1
  /\ UNCHANGED <<took, err, handshake, samples, failures, ok, link>>

\* The first query (i = 0) is the handshake, the others are samples.
Succeeded ==
  /\ Goto("answered", "loop")
  /\ IF i = 0
     THEN handshake' = took /\ UNCHANGED samples
     ELSE samples' = Append(samples, took) /\ UNCHANGED handshake
  /\ UNCHANGED <<i, took, err, attempts, failures, ok, link>>

\* A failed first query ends the measurement, the deferred Close included.
FailedButSampled ==
  /\ Goto("failed", IF i = 0 THEN "close" ELSE "loop")
  /\ failures' = failures + 1
  /\ samples' = IF i = 0 THEN samples ELSE Append(samples, took)
  /\ UNCHANGED <<i, took, err, handshake, attempts, ok, link>>
FailedLeavingOpen ==
  /\ Goto("failed", IF i = 0 THEN "done" ELSE "loop")
  /\ failures' = failures + 1
  /\ UNCHANGED <<i, took, err, handshake, samples, attempts, ok, link>>
Failed ==
  /\ Goto("failed", IF i = 0 THEN "close" ELSE "loop")
  /\ failures' = failures + 1
  /\ UNCHANGED <<i, took, err, handshake, samples, attempts, ok, link>>

Summarise ==
  /\ Goto("loop", "close")
  /\ ~More
  /\ ok' = (samples # <<>>)
  /\ UNCHANGED <<i, took, err, handshake, samples, attempts, failures, link>>

CloseConn ==
  /\ Goto("close", "done")
  /\ conn' = "none"
  /\ open' = IF conn = "live" THEN open - 1 ELSE open
  /\ UNCHANGED <<i, took, result, gaveUp>>

\* CloseIdleConnections skips a connection on which an earlier query is
\* still cleaned up.
SkipBusy ==
  /\ Goto("close", "done")
  /\ gaveUp # "no"
  /\ UNCHANGED <<i, took, result, link>>

Close == CloseConn \/ SkipBusy

-----------------------------------------------------------------------------
(* queryOnce and the prober.                                               *)

Reuse ==
  /\ Goto("connection", "exchange")
  /\ conn = "live"
  /\ took' = "query"
  /\ UNCHANGED <<i, result, link>>

DialOk ==
  /\ Goto("connection", "exchange")
  /\ conn # "live"
  /\ conn' = "live"
  /\ open' = open + 1
  /\ took' = "dial"
  /\ UNCHANGED <<i, result, gaveUp>>

Fails(to, kind) ==
  /\ pc' = to
  /\ err' = kind
  /\ UNCHANGED <<i, took, handshake, samples, attempts, failures, ok, open>>

\* The query may end before net/http is through with it.
Ends == gaveUp' \in {gaveUp, "dialing"}

\* The domain makes no DNS message, or one too large, or the URL no request.
\* All queries are the same, so the first one shows it.
PackFails ==
  /\ pc = "connection" /\ i = 0
  /\ Fails("failed", "pack")
  /\ UNCHANGED <<conn, gaveUp>>

DialFails ==
  /\ pc = "connection" /\ conn # "live"
  /\ conn' = "none"
  /\ Fails("failed", "dial")
  /\ Ends

\* net/http finishes the dial of a query that has ended without it.
LateDial ==
  /\ gaveUp = "dialing" /\ conn # "live"
  /\ gaveUp' = "over"
  /\ conn' = "live"
  /\ open' = open + 1
  /\ UNCHANGED <<pc, i, took, result>>

\* net/http dials again for a request of a connection that is gone.
Redial ==
  /\ pc = "exchange" /\ conn = "dead"
  /\ conn' = "live"
  /\ open' = open + 1
  /\ took' = "dial"
  /\ UNCHANGED <<pc, i, result, gaveUp>>

Answered ==
  /\ Goto("exchange", "answered")
  /\ Ends
  /\ UNCHANGED <<i, took, result, conn, open>>

\* A response code other than NOERROR, or no answer record.
Unusable ==
  /\ pc = "exchange"
  /\ Fails("failed", "unusable")
  /\ Ends
  /\ UNCHANGED conn

\* The stream fails, the connection is lost, the query times out, or the
\* user interrupts.
ExchangeFails ==
  /\ pc = "exchange"
  /\ Fails("check", "exchange")
  /\ Ends
  /\ UNCHANGED conn

\* A connection that is gone is discarded, another one is kept.
CheckConn ==
  /\ Goto("check", "failed")
  /\ conn' = IF conn = "dead" THEN "none" ELSE conn
  /\ UNCHANGED <<i, took, result, open, gaveUp>>

LinkDies ==
  /\ conn = "live"
  /\ conn' = "dead"
  /\ open' = open - 1
  /\ UNCHANGED <<pc, i, took, result, gaveUp>>

-----------------------------------------------------------------------------
Run ==
  \/ NewProberFails \/ FirstQuery \/ TimedQuery
  \/ Succeeded \/ Failed \/ Summarise \/ Close
  \/ PackFails \/ Reuse \/ DialOk \/ DialFails \/ Redial
  \/ Answered \/ Unusable \/ ExchangeFails \/ CheckConn

Returned == pc = "done" /\ UNCHANGED vars

Next == Run \/ LateDial \/ LinkDies \/ Returned

Spec == Init /\ [][Next]_vars

-----------------------------------------------------------------------------
(* Properties.                                                             *)

TypeOK ==
  /\ pc \in {"new", "connection", "exchange", "check", "answered", "failed",
             "loop", "close", "done"}
  /\ i \in 0..Count
  /\ conn \in {"none", "live", "dead"}
  /\ took \in Durations
  /\ err \in Errors \cup {NoError}
  /\ handshake \in Durations \cup {Cold}
  /\ samples \in Seq(Durations)
  /\ attempts \in 0..(Count + 1)
  /\ failures \in 0..(Count + 1)
  /\ ok \in BOOLEAN
  /\ open \in 0..1
  /\ gaveUp \in {"no", "dialing", "over"}

\* The counters of a finished result agree: every query that was sent is
\* the handshake, a sample or a failure, an endpoint that was reached has
\* got all its queries, and it is OK if and only if it has a sample; the
\* tables and the rates of the reports rest on it (Result, benchmarkTarget).
Reached == IF handshake = Cold THEN 0 ELSE 1
CountersAgree ==
  pc = "done" =>
    /\ attempts = Reached + Len(samples) + failures
    /\ handshake # Cold => attempts = Count + 1
    /\ ok <=> samples # <<>>
    /\ err = NoError <=> attempts > 0 /\ failures = 0

\* The first query always pays for the connection, so the handshake time is
\* one (Result.Handshake).
HandshakeIncluded == handshake # Cold => handshake = "dial"

\* The prober has one connection at most, and when benchmarkTarget returns,
\* however it returns, one is left open only if a query had ended before
\* net/http was through with it (connection, discard, Close).
ClosedUnlessGivenUp ==
  /\ open = (IF conn = "live" THEN 1 ELSE 0)
  /\ pc = "done" /\ open > 0 => gaveUp # "no"
=============================================================================
