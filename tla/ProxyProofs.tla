----------------------------- MODULE ProxyProofs ----------------------------
(***************************************************************************)
(* Proofs about Proxy, for any number of handlers, any message IDs, any    *)
(* mix of protocols, with and without a fallback: replies carry the ID of  *)
(* their query, queries are drained before the upstreams are closed, and a *)
(* query fails only if every upstream has failed it by itself.             *)
(***************************************************************************)
EXTENDS Proxy, TLAPS

\* While a caller waits, its message and the upstream hold the ID it sent.
IdInv ==
  \A c \in Callers :
    /\ Active(c) => msgId[c] = sent[c] /\ origId[c] = sent[c]
    /\ at[c] = "ok" => reply[c] = sent[c]

\* A query is in the hands of a server that serves or drains, and of one of
\* the configured upstreams.
ActiveInv ==
  /\ \A h \in Handlers : Active(h) => listener[via[h]] \in {"serving", "draining"}
  /\ \A c \in Callers : Active(c) => asked[c] \in R!Upstreams

\* There is no server before StartServer, and main passes one only when that
\* is down or was not up.
DrainInv ==
  /\ main \in {"start", "fetch", "launch"} =>
       \A l \in Listeners : listener[l] = "none"
  /\ main \in {"tcp", "close", "exited"} =>
       listener["udp"] = "down" \/ "udp" \in missed
  /\ main \in {"close", "exited"} =>
       listener["tcp"] = "down" \/ "tcp" \in missed
  /\ shut # {} => main \in {"close", "exited"}

\* The blame for the failures of the attempts so far.
BlameInv ==
  \A h \in Handlers : via[h] \notin missed =>
    /\ at[h] = "try" /\ h \in expired => asked[h] \in blame[h]
    /\ at[h] \in {"failed", "err"} => asked[h] \in blame[h]
    /\ Active(h) /\ asked[h] # 1 => 1 \in blame[h]
    /\ at[h] = "err" => asked[h] = R!Last

Inv == TypeOK /\ IdInv /\ ActiveInv /\ DrainInv /\ BlameInv

-----------------------------------------------------------------------------
LEMMA UpstreamNumbers ==
  /\ R!Primary = 1 /\ R!Fallback = 2 
  /\ R!Last = IF HasFallback THEN 2 ELSE 1
  /\ R!Upstreams = IF HasFallback THEN {1, 2} ELSE {1}
<1>1. R!Last = IF HasFallback THEN 2 ELSE 1
  BY DEF R!Primary, R!Fallback, R!Last
<1>2. 1..1 = {1} /\ 1..2 = {1, 2}
  OBVIOUS
<1> QED
  BY <1>1, <1>2, HasFallbackAssumption DEF R!Primary, R!Fallback, R!Upstreams

LEMMA InitInv == Init => Inv
<1> SUFFICES ASSUME Init PROVE Inv
  OBVIOUS
<1> USE DEF Init, R!Init
<1>1. TypeOK
  BY DEF TypeOK, R!TypeOK, Listeners
<1>2. IdInv /\ ActiveInv /\ DrainInv /\ BlameInv
  BY DEF IdInv, ActiveInv, DrainInv, BlameInv, Active, Callers
<1> QED
  BY <1>1, <1>2 DEF Inv

\* DrainedBeforeClose follows from the parts of the invariant.
LEMMA Drained == Inv => DrainedBeforeClose
<1> SUFFICES ASSUME Inv, shut # {} \/ main = "exited", NEW h \in Handlers,
                    Active(h), via[h] \notin missed
             PROVE  FALSE
  BY DEF DrainedBeforeClose
<1>1. main \in {"close", "exited"}
  BY DEF Inv, DrainInv
<1>2. via[h] \in {"udp", "tcp"} /\ listener[via[h]] \in {"serving", "draining"}
  BY DEF Inv, TypeOK, ActiveInv, Listeners
<1> QED
  BY <1>1, <1>2 DEF Inv, DrainInv

\* The steps of the resolver.
LEMMA ResolveInv ==
  ASSUME Inv, NEW c \in Callers, Resolve(c)
  PROVE  Inv'
<1> USE UpstreamNumbers DEF process
<1>1. CASE R!Answered(c)
  <2> USE <1>1 DEF R!Answered, R!history, Resolve
  <2>1. TypeOK'
    BY DEF Inv, TypeOK, R!TypeOK, ActiveInv, Active
  <2>2. IdInv'
    BY DEF Inv, TypeOK, R!TypeOK, IdInv, Active
  <2>3. ActiveInv'
    BY DEF Inv, TypeOK, R!TypeOK, ActiveInv, Active, Callers
  <2>4. DrainInv'
    BY DEF Inv, DrainInv
  <2>5. BlameInv'
    BY DEF Inv, TypeOK, R!TypeOK, BlameInv, Active
  <2> QED
    BY <2>1, <2>2, <2>3, <2>4, <2>5 DEF Inv
<1>2. CASE R!AttemptFails(c)
  <2> USE <1>2 DEF R!AttemptFails, R!Blame, Resolve
  <2>1. TypeOK'
    BY DEF Inv, TypeOK, R!TypeOK, ActiveInv, Active
  <2>2. IdInv'
    BY DEF Inv, TypeOK, R!TypeOK, IdInv, Active
  <2>3. ActiveInv'
    BY DEF Inv, TypeOK, R!TypeOK, ActiveInv, Active, Callers
  <2>4. DrainInv'
    BY DEF Inv, DrainInv
  <2>5. BlameInv'
    BY DEF Inv, TypeOK, R!TypeOK, BlameInv, Active
  <2> QED
    BY <2>1, <2>2, <2>3, <2>4, <2>5 DEF Inv
<1>3. CASE R!Expire(c)
  <2> USE <1>3 DEF R!Expire, R!Blame, Resolve
  <2>1. TypeOK'
    BY DEF Inv, TypeOK, R!TypeOK, ActiveInv, Active
  <2>2. IdInv'
    BY DEF Inv, TypeOK, R!TypeOK, IdInv, Active
  <2>3. ActiveInv'
    BY DEF Inv, TypeOK, R!TypeOK, ActiveInv, Active, Callers
  <2>4. DrainInv'
    BY DEF Inv, DrainInv
  <2>5. BlameInv'
    BY DEF Inv, TypeOK, R!TypeOK, BlameInv, Active
  <2> QED
    BY <2>1, <2>2, <2>3, <2>4, <2>5 DEF Inv
<1>4. CASE R!GivesUp(c)
  <2> USE <1>4 DEF R!GivesUp, R!history, Resolve
  <2>1. TypeOK'
    BY DEF Inv, TypeOK, R!TypeOK, ActiveInv, Active
  <2>2. IdInv'
    BY DEF Inv, TypeOK, R!TypeOK, IdInv, Active
  <2>3. ActiveInv'
    BY DEF Inv, TypeOK, R!TypeOK, ActiveInv, Active, Callers
  <2>4. DrainInv'
    BY DEF Inv, DrainInv
  <2>5. BlameInv'
    <3>1. ASSUME NEW h \in Handlers, h = c, via[h] \notin missed
          PROVE  h \in expired
      BY <3>1, Drained DEF R!Open, DrainedBeforeClose, Active
    <3> QED
      BY <3>1 DEF Inv, TypeOK, R!TypeOK, BlameInv, Active
  <2> QED
    BY <2>1, <2>2, <2>3, <2>4, <2>5 DEF Inv
<1>5. CASE R!NextUpstream(c)
  <2>a. asked[c] = 1 /\ asked[c] + 1 = 2 /\ asked[c] + 1 \in R!Upstreams
    BY <1>5, UpstreamNumbers DEF R!NextUpstream, R!HasNext, Inv, ActiveInv, Active
  <2> USE <1>5, <2>a DEF R!NextUpstream, R!Enter, R!Restored, R!FreshContext, R!history, Resolve
  <2>1. TypeOK'
    BY DEF Inv, TypeOK, R!TypeOK, ActiveInv, Active
  <2>2. IdInv'
    BY DEF Inv, TypeOK, R!TypeOK, IdInv, Active
  <2>3. ActiveInv'
    BY DEF Inv, TypeOK, R!TypeOK, ActiveInv, Active, Callers
  <2>4. DrainInv'
    BY DEF Inv, DrainInv
  <2>5. BlameInv'
    BY DEF Inv, TypeOK, R!TypeOK, BlameInv, Active
  <2> QED
    BY <2>1, <2>2, <2>3, <2>4, <2>5 DEF Inv
<1>6. CASE R!Fails(c)
  <2>a. asked[c] = R!Last
    BY <1>6, UpstreamNumbers DEF R!Fails, R!HasNext, Inv, ActiveInv, Active
  <2> USE <1>6, <2>a DEF R!Fails, R!history, Resolve
  <2>1. TypeOK'
    BY DEF Inv, TypeOK, R!TypeOK, ActiveInv, Active
  <2>2. IdInv'
    BY DEF Inv, TypeOK, R!TypeOK, IdInv, Active
  <2>3. ActiveInv'
    BY DEF Inv, TypeOK, R!TypeOK, ActiveInv, Active, Callers
  <2>4. DrainInv'
    BY DEF Inv, DrainInv
  <2>5. BlameInv'
    BY DEF Inv, TypeOK, R!TypeOK, ActiveInv, BlameInv, Active
  <2> QED
    BY <2>1, <2>2, <2>3, <2>4, <2>5 DEF Inv
<1> QED
  BY <1>1, <1>2, <1>3, <1>4, <1>5, <1>6 DEF Resolve, R!Steps, R!Attempt

\* A caller that asks, and one that has its response; for the fetcher via
\* does not change, for a handler it is the server of the query.
LEMMA AskInv ==
  ASSUME Inv, NEW c \in Callers, R!Ask(c),
         main' = main \/ (main = "start" /\ main' = "fetch"),
         refresher' \in {"none", "wait", "fetch", "gone"},
         UNCHANGED <<listener, stop, missed>>,
         \/ c = Fetcher /\ UNCHANGED via
         \/ \E l \in Listeners : /\ listener[l] = "serving"
                                /\ via' = [via EXCEPT ![c] = l]
                                /\ UNCHANGED main
  PROVE  Inv'
<1> USE UpstreamNumbers, FetcherAssumption DEF R!Ask, R!Enter, R!Restored, R!FreshContext
<1>1. TypeOK'
  BY DEF Inv, TypeOK, R!TypeOK
<1>2. IdInv'
  BY DEF Inv, TypeOK, R!TypeOK, IdInv, Active
<1>3. ActiveInv'
  BY DEF Inv, TypeOK, R!TypeOK, ActiveInv, Active, Callers
<1>4. DrainInv'
  BY DEF Inv, DrainInv
<1>5. BlameInv'
  BY DEF Inv, TypeOK, R!TypeOK, BlameInv, Active
<1> QED
  BY <1>1, <1>2, <1>3, <1>4, <1>5 DEF Inv

LEMMA ReturnInv ==
  ASSUME Inv, NEW c \in Callers, R!Return(c),
         main' = main \/ (main = "fetch" /\ main' = "launch"),
         refresher' \in {"none", "wait", "fetch", "gone"},
         UNCHANGED <<listener, via, stop, missed>>
  PROVE  Inv'
<1> USE UpstreamNumbers DEF R!Return
<1>1. TypeOK'
  BY DEF Inv, TypeOK, R!TypeOK
<1>2. IdInv'
  BY DEF Inv, TypeOK, R!TypeOK, IdInv, Active
<1>3. ActiveInv'
  BY DEF Inv, TypeOK, R!TypeOK, ActiveInv, Active, Callers
<1>4. DrainInv'
  BY DEF Inv, DrainInv
<1>5. BlameInv'
  BY DEF Inv, TypeOK, R!TypeOK, BlameInv, Active
<1> QED
  BY <1>1, <1>2, <1>3, <1>4, <1>5 DEF Inv

\* The steps that leave every caller where it is.
LEMMA ProcessInv ==
  ASSUME Inv, TypeOK', DrainInv', missed \subseteq missed', UNCHANGED via,
         UNCHANGED <<at, asked, msgId, origId, reply, expired, sent, blame>>,
         \A h \in Handlers :
           Active(h) => listener'[via[h]] \in {"serving", "draining"}
  PROVE  Inv'
<1>1. IdInv' /\ ActiveInv'
  BY DEF Inv, IdInv, ActiveInv, Active, R!Upstreams
<1>2. BlameInv'
  BY DEF Inv, BlameInv, Active
<1> QED
  BY <1>1, <1>2 DEF Inv

LEMMA MainInv == Inv /\ Main => Inv'
<1> SUFFICES ASSUME Inv, Main PROVE Inv'
  OBVIOUS
<1>1. CASE FirstFetch
  BY <1>1, AskInv DEF FirstFetch, Goto, Callers, Inv, TypeOK
<1>2. CASE FirstFetchReturns
  BY <1>2, ReturnInv DEF FirstFetchReturns, Goto, Callers
<1>3. CASE StartServer
  <2> USE <1>3 DEF StartServer, Goto, resolver
  <2>1. TypeOK' /\ DrainInv'
    BY DEF Inv, TypeOK, R!TypeOK, DrainInv, R!Upstreams
  <2>2. \A h \in Handlers : ~Active(h)
    BY DEF Inv, ActiveInv, DrainInv, TypeOK
  <2> QED
    BY <2>1, <2>2, ProcessInv
<1>4. CASE ShuttingDown
  <2>1. TypeOK' /\ DrainInv'
    BY <1>4 DEF ShuttingDown, Goto, resolver, Inv, TypeOK, R!TypeOK, DrainInv
  <2> QED
    BY <1>4, <2>1, ProcessInv DEF ShuttingDown, Goto, resolver, Inv, ActiveInv
<1>5. ASSUME NEW l \in Listeners, ShutdownServing(l)
      PROVE  Inv'
  <2> USE <1>5 DEF ShutdownServing, resolver
  <2>1. TypeOK' /\ DrainInv'
    BY DEF Inv, TypeOK, R!TypeOK, DrainInv, Listeners
  <2>2. \A h \in Handlers : Active(h) => listener'[via[h]] \in {"serving", "draining"}
    BY DEF Inv, TypeOK, ActiveInv
  <2> QED
    BY <2>1, <2>2, ProcessInv
<1>6. ASSUME NEW l \in Listeners, ShutdownReturns(l)
      PROVE  Inv'
  <2> USE <1>6 DEF ShutdownReturns, resolver, Goto, NextStep
  <2>1. TypeOK' /\ DrainInv'
    BY DEF Inv, TypeOK, R!TypeOK, DrainInv, Listeners
  <2>2. \A h \in Handlers : Active(h) => listener'[via[h]] \in {"serving", "draining"}
    BY DEF Inv, TypeOK, ActiveInv
  <2> QED
    BY <2>1, <2>2, ProcessInv
<1>7. ASSUME NEW l \in Listeners, ShutdownNotStarted(l)
      PROVE  Inv'
  <2> USE <1>7 DEF ShutdownNotStarted, resolver, Goto, NextStep
  <2>1. TypeOK' /\ DrainInv'
    BY DEF Inv, TypeOK, R!TypeOK, DrainInv, Listeners
  <2> QED
    BY <2>1, ProcessInv DEF Inv, ActiveInv
<1>8. CASE CloseNext
  <2> USE <1>8 DEF CloseNext, process, R!CloseUpstream, R!call, R!history
  <2>1. TypeOK' /\ DrainInv'
    BY DEF Inv, TypeOK, R!TypeOK, DrainInv
  <2> QED
    BY <2>1, ProcessInv DEF Inv, ActiveInv
<1>9. CASE Exit
  <2> USE <1>9 DEF Exit, resolver, Goto
  <2>1. TypeOK' /\ DrainInv'
    BY DEF Inv, TypeOK, R!TypeOK, DrainInv
  <2> QED
    BY <2>1, ProcessInv DEF Inv, ActiveInv
<1> QED
  BY <1>1, <1>2, <1>3, <1>4, <1>5, <1>6, <1>7, <1>8, <1>9 DEF Main

LEMMA NextInv == Inv /\ [Next]_vars => Inv'
<1> SUFFICES ASSUME Inv, [Next]_vars PROVE Inv'
  OBVIOUS
<1>1. CASE Main
  BY <1>1, MainInv
<1>2. ASSUME NEW l \in Listeners, Listen(l)
      PROVE  Inv'
  <2> USE <1>2 DEF Listen, resolver, Alive
  <2>1. TypeOK' /\ DrainInv'
    BY DEF Inv, TypeOK, R!TypeOK, DrainInv, Listeners
  <2>2. \A h \in Handlers : Active(h) => listener'[via[h]] \in {"serving", "draining"}
    BY DEF Inv, TypeOK, ActiveInv
  <2> QED
    BY <2>1, <2>2, ProcessInv
<1>3. ASSUME NEW h \in Handlers, Reply(h)
      PROVE  Inv'
  BY <1>3, ReturnInv DEF Reply, process, Callers, Inv, TypeOK
<1>4. ASSUME NEW h \in Handlers, NEW l \in Listeners, Receive(h, l)
      PROVE  Inv'
  <2>1. refresher' \in {"none", "wait", "fetch", "gone"}
    BY <1>4 DEF Receive, Inv, TypeOK
  <2> QED
    BY <1>4, <2>1, AskInv DEF Receive, Callers
<1>5. ASSUME NEW c \in Callers, Resolve(c)
      PROVE  Inv'
  BY <1>5, ResolveInv
<1>6. CASE TimerFires
  BY <1>6, AskInv DEF TimerFires, Callers
<1>7. CASE FetchReturns
  BY <1>7, ReturnInv DEF FetchReturns, Callers
<1>8. CASE RefresherStops \/ Signal
  <2>1. TypeOK' /\ DrainInv'
    BY <1>8 DEF RefresherStops, Signal, resolver, Inv, TypeOK, R!TypeOK, DrainInv
  <2> QED
    BY <1>8, <2>1, ProcessInv DEF RefresherStops, Signal, resolver, Inv, ActiveInv
<1>9. CASE Exited \/ UNCHANGED vars
  <2>1. TypeOK' /\ DrainInv'
    BY <1>9 DEF Exited, vars, resolver, process, Inv, TypeOK, R!TypeOK, DrainInv
  <2> QED
    BY <1>9, <2>1, ProcessInv DEF Exited, vars, resolver, process, Inv, ActiveInv
<1> QED
  BY <1>1, <1>2, <1>3, <1>4, <1>5, <1>6, <1>7, <1>8, <1>9 DEF Next

LEMMA Invariance == Spec => []Inv
BY InitInv, NextInv, PTL DEF Spec

-----------------------------------------------------------------------------
(* The properties.                                                         *)

\* The proxy is type correct: among others no upstream is asked that is not
\* configured.
THEOREM TypeCorrect == Spec => []TypeOK
<1>1. Inv => TypeOK
  BY DEF Inv
<1> QED
  BY <1>1, Invariance, PTL

\* Every response carries the ID of its query.
THEOREM RepliesMatch == Spec => []ReplyMatchesQuery
<1>1. Inv => ReplyMatchesQuery
  BY DEF Inv, IdInv, ReplyMatchesQuery, R!ReplyMatchesQuery
<1> QED
  BY <1>1, Invariance, PTL

\* Accepted queries are answered before the upstreams are closed.
THEOREM DrainedFirst == Spec => []DrainedBeforeClose
BY Drained, Invariance, PTL

\* A query fails only if every upstream has failed it by itself.
THEOREM FailuresExplained == Spec => []FailureNeedsEveryUpstream
<1>1. Inv => FailureNeedsEveryUpstream
  BY UpstreamNumbers
     DEF Inv, TypeOK, R!TypeOK, BlameInv, Active, FailureNeedsEveryUpstream,
         Callers
<1> QED
  BY <1>1, Invariance, PTL
=============================================================================
