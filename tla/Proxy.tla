------------------------------- MODULE Proxy --------------------------------
(***************************************************************************)
(* The life of the proxy process (main.go, server.go): the first ECH fetch *)
(* inside Start, the two DNS servers started in goroutines of their own,   *)
(* queries answered through the resolver, the refresher, and the shutdown  *)
(* after a signal: UDP server, TCP server, then the deferred Close of the  *)
(* resolver and the end of the process, whatever still runs.               *)
(*                                                                         *)
(* dns.Server is a library: Shutdown of a server that has not started is   *)
(* an error that main ignores; of one that has, it refuses new queries and *)
(* waits for the handlers that run.                                        *)
(***************************************************************************)
EXTENDS Naturals

CONSTANTS
  Handlers,    \* the handler goroutines, each for one query at a time
  Fetcher,     \* the goroutine that fetches the ECH configuration
  IDs,         \* see Resolver
  HasFallback, \* see Resolver
  DoQ          \* see Resolver

ASSUME FetcherAssumption == Fetcher \notin Handlers
ASSUME HasFallbackAssumption == HasFallback \in BOOLEAN

VARIABLES
  at, asked, msgId, origId, reply, expired, shut, sent, blame, \* see Resolver
  main,      \* where the main goroutine is
  listener,  \* listener[l]: the state of the UDP and of the TCP server
  via,       \* via[h]: the server whose query h handles
  refresher, \* where the refresher is
  stop,      \* the signal context is done
  missed     \* history: the servers not started when they were shut down

resolver == <<at, asked, msgId, origId, reply, expired, shut, sent, blame>>
process  == <<main, listener, via, refresher, stop, missed>>
vars     == <<resolver, process>>

Callers   == Handlers \cup {Fetcher}
Listeners == {"udp", "tcp"}

R == INSTANCE Resolver

Init ==
  /\ R!Init
  /\ main = "start"
  /\ listener = [l \in Listeners |-> "none"]
  /\ via = [h \in Handlers |-> "udp"]
  /\ refresher = "none"
  /\ stop = FALSE
  /\ missed = {}

Alive     == main # "exited"
Active(h) == at[h] # "idle"
Goto(from, to) == main = from /\ main' = to

-----------------------------------------------------------------------------
(* The main goroutine.                                                     *)

\* Start fetches before it starts the refresher; a signal does not end that.
FirstFetch ==
  /\ Goto("start", "fetch")
  /\ R!Ask(Fetcher)
  /\ UNCHANGED <<listener, via, refresher, stop, missed>>

FirstFetchReturns ==
  /\ Goto("fetch", "launch")
  /\ R!Return(Fetcher)
  /\ refresher' = "wait"
  /\ UNCHANGED <<listener, via, stop, missed>>

\* StartServer returns at once and without an error.
StartServer ==
  /\ Goto("launch", "await")
  /\ listener' = [l \in Listeners |-> "launched"]
  /\ UNCHANGED <<resolver, via, refresher, stop, missed>>

ShuttingDown ==
  /\ Goto("await", "udp")
  /\ stop
  /\ UNCHANGED <<resolver, listener, via, refresher, stop, missed>>

NextStepSkipsTCP(l) == "close"
NextStep(l) == IF l = "udp" THEN "tcp" ELSE "close"

ShutdownServing(l) ==
  /\ main = l
  /\ listener[l] = "serving"
  /\ listener' = [listener EXCEPT ![l] = "draining"]
  /\ UNCHANGED <<resolver, main, via, refresher, stop, missed>>

ShutdownReturns(l) ==
  /\ listener[l] = "draining"
  /\ \A h \in Handlers : Active(h) => via[h] # l
  /\ Goto(l, NextStep(l))
  /\ listener' = [listener EXCEPT ![l] = "down"]
  /\ UNCHANGED <<resolver, via, refresher, stop, missed>>

ShutdownNotStarted(l) ==
  /\ listener[l] \in {"launched", "failed"}
  /\ Goto(l, NextStep(l))
  /\ missed' = missed \cup {l}
  /\ UNCHANGED <<resolver, listener, via, refresher, stop>>

CloseNext ==
  /\ main = "close"
  /\ \E u \in R!Upstreams : R!CloseUpstream(u)
  /\ UNCHANGED process

Exit ==
  /\ shut = R!Upstreams
  /\ Goto("close", "exited")
  /\ UNCHANGED <<resolver, listener, via, refresher, stop, missed>>

-----------------------------------------------------------------------------
(* The servers and their handlers.                                         *)

\* ListenAndServe: bound and serving, or an error that is only logged.
Listen(l) ==
  /\ Alive
  /\ listener[l] = "launched"
  /\ \E s \in {"serving", "failed"} : listener' = [listener EXCEPT ![l] = s]
  /\ UNCHANGED <<resolver, main, via, refresher, stop, missed>>

Receive(h, l) ==
  /\ Alive
  /\ listener[l] = "serving"
  /\ R!Ask(h)
  /\ via' = [via EXCEPT ![h] = l]
  /\ UNCHANGED <<main, listener, refresher, stop, missed>>

Reply(h) ==
  /\ Alive
  /\ R!Return(h)
  /\ UNCHANGED process

Resolve(c) ==
  /\ Alive
  /\ R!Steps(c)
  /\ UNCHANGED process

-----------------------------------------------------------------------------
(* The refresher, and the signal.                                          *)

TimerFires ==
  /\ Alive
  /\ refresher = "wait"
  /\ refresher' = "fetch"
  /\ R!Ask(Fetcher)
  /\ UNCHANGED <<main, listener, via, stop, missed>>

FetchReturns ==
  /\ Alive
  /\ refresher = "fetch"
  /\ refresher' = "wait"
  /\ R!Return(Fetcher)
  /\ UNCHANGED <<main, listener, via, stop, missed>>

RefresherStops ==
  /\ Alive
  /\ refresher = "wait"
  /\ stop
  /\ refresher' = "gone"
  /\ UNCHANGED <<resolver, main, listener, via, stop, missed>>

Signal ==
  /\ Alive
  /\ ~stop
  /\ stop' = TRUE
  /\ UNCHANGED <<resolver, main, listener, via, refresher, missed>>

Exited == main = "exited" /\ UNCHANGED vars

-----------------------------------------------------------------------------
Main ==
  \/ FirstFetch \/ FirstFetchReturns \/ StartServer \/ ShuttingDown
  \/ \E l \in Listeners :
       ShutdownServing(l) \/ ShutdownReturns(l) \/ ShutdownNotStarted(l)
  \/ CloseNext \/ Exit

Next ==
  \/ Main
  \/ \E l \in Listeners : Listen(l)
  \/ \E h \in Handlers : Reply(h) \/ \E l \in Listeners : Receive(h, l)
  \/ \E c \in Callers : Resolve(c)
  \/ TimerFires \/ FetchReturns \/ RefresherStops
  \/ Signal
  \/ Exited

Spec == Init /\ [][Next]_vars

\* Goroutines run on, and an attempt ends when its deadline has passed (the
\* resolver sets one when -timeout is positive; ExchangeReturns of
\* DoQUpstream).  Queries, answers and signals may stay away.
Fairness ==
  /\ WF_vars(Main)
  /\ \A h \in Handlers : WF_vars(Reply(h))
  /\ \A c \in Callers : WF_vars(Resolve(c))

FairSpec == Spec /\ Fairness

-----------------------------------------------------------------------------
(* Properties.                                                             *)

TypeOK ==
  /\ R!TypeOK
  /\ main \in {"start", "fetch", "launch", "await", "udp", "tcp", "close",
               "exited"}
  /\ listener \in [Listeners -> {"none", "launched", "serving", "failed",
                                 "draining", "down"}]
  /\ via \in [Handlers -> Listeners]
  /\ refresher \in {"none", "wait", "fetch", "gone"}
  /\ stop \in BOOLEAN
  /\ missed \subseteq Listeners

\* A response carries the ID of the query it answers, also when it comes
\* from the fallback after the primary has had the message in its hands
\* (ExchangeContext, and Exchange of both upstreams).
ReplyMatchesQuery == R!ReplyMatchesQuery

\* A query that was accepted by a server is answered before the upstreams
\* are closed and the process ends, except by a server that was still about
\* to start when main shut it down (the end of main, ServeDNS).
DrainedBeforeClose ==
  shut # {} \/ main = "exited" =>
    \A h \in Handlers : Active(h) => via[h] \in missed

\* A query fails only if every upstream has failed it by itself: the
\* fallback is not passed over, not failed by the time the primary has used
\* up, and no upstream is closed under a query (ExchangeContext, exchange,
\* the end of main); the exception is again a server that started too late.
FailureNeedsEveryUpstream ==
  \A h \in Handlers :
    at[h] = "err" /\ via[h] \notin missed => blame[h] = R!Upstreams

\* After the signal the process ends: neither the first fetch, nor a query
\* that is being answered, nor the refresher keeps it alive for ever (main).
SignalEndsProcess == stop ~> main = "exited"

\* Every query that is accepted is replied to, or the process ends.
QueryReplied ==
  \A h \in Handlers : Active(h) ~> (~Active(h) \/ main = "exited")

\* What the error handling of main expects: a server that cannot listen is
\* an error of StartServer, and ends the process.
BindFailureEnds ==
  \A l \in Listeners : listener[l] = "failed" ~> main = "exited"
=============================================================================
