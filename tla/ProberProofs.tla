---------------------------- MODULE ProberProofs ----------------------------
(***************************************************************************)
(* Benchmark and Prober, proved for every -count and every length of an    *)
(* answer.  First Benchmark: its counters agree with what was measured,    *)
(* and no connection is left open unless net/http was not through with a   *)
(* query when that ended.  Then Prober: it implements Benchmark, so that   *)
(* the same holds with the streams and requests in detail, only DoH        *)
(* queries end that way, and no answer is accepted that is not whole.      *)
(***************************************************************************)
EXTENDS Prober, SequenceTheorems, TLAPS

-----------------------------------------------------------------------------
(* Benchmark.                                                              *)

InQuery == {"connection", "exchange", "check", "answered", "failed"}

\* While a query is under way it is the one attempt that is not yet counted
\* as the handshake, as a sample or as a failure.
Counted ==
  /\ pc = "new" => /\ i = 0 /\ attempts = 0 /\ failures = 0
                   /\ handshake = Cold /\ samples = <<>> /\ err = NoError
                   /\ ok = FALSE
  /\ pc \in InQuery \cup {"loop"} => attempts = i + 1 /\ ok = FALSE
  /\ pc \in InQuery =>
       /\ attempts = Reached + Len(samples) + failures + 1
       /\ handshake = Cold <=> i = 0
  /\ pc = "loop" =>
       /\ attempts = Reached + Len(samples) + failures
       /\ handshake # Cold
  /\ handshake = Cold => samples = <<>>

\* err is set by every failure and by nothing else.
Erred ==
  /\ pc \in {"check", "failed"} => err # NoError
  /\ pc \in {"connection", "exchange", "answered", "loop"} =>
       (err = NoError <=> failures = 0)

\* What CountersAgree says already holds when the deferred Close runs.
Finished ==
  pc \in {"close", "done"} =>
    /\ attempts = Reached + Len(samples) + failures
    /\ handshake # Cold => attempts = Count + 1
    /\ ok <=> samples # <<>>
    /\ err = NoError <=> attempts > 0 /\ failures = 0

\* The first query finds no connection and has dialed when it is answered;
\* net/http has no earlier one to be busy with.
FirstDials ==
  /\ pc = "new" \/ (pc = "connection" /\ i = 0) => gaveUp = "no"
  /\ pc = "new" \/ (pc = "connection" /\ i = 0) => conn = "none"
  /\ pc \in {"exchange", "answered"} /\ i = 0 => took = "dial"

Links ==
  /\ open = IF conn = "live" THEN 1 ELSE 0
  /\ pc = "done" /\ conn = "live" => gaveUp # "no"

IInv ==
  TypeOK /\ Counted /\ Erred /\ Finished /\ FirstDials /\ HandshakeIncluded /\ Links

LEMMA InitIInv == Init => IInv
<1> SUFFICES ASSUME Init PROVE IInv
  OBVIOUS
<1>1. TypeOK
  <2>1. samples \in Seq(Durations) BY EmptySeq DEF Init
  <2>2. /\ i \in 0..Count
        /\ attempts \in 0..(Count + 1)
        /\ failures \in 0..(Count + 1)
        /\ open \in 0..1 /\ gaveUp \in {"no", "dialing", "over"}
    BY CountAssumption DEF Init
  <2>3. /\ ok \in BOOLEAN
        /\ handshake \in Durations \cup {Cold}
        /\ took \in Durations
        /\ err \in Errors \cup {NoError}
    BY DEF Init, Durations
  <2> QED BY <2>1, <2>2, <2>3 DEF Init, TypeOK
<1>2. Counted /\ Erred /\ Finished
  BY DEF Init, Counted, Erred, Finished, InQuery
<1>3. FirstDials /\ HandshakeIncluded /\ Links
  BY DEF Init, FirstDials, HandshakeIncluded, Links, Durations
<1> QED BY <1>1, <1>2, <1>3 DEF IInv

-----------------------------------------------------------------------------
LEMMA NextIInv == IInv /\ [Next]_vars => IInv'
<1> SUFFICES ASSUME IInv, [Next]_vars PROVE IInv'
  OBVIOUS
<1> USE CountAssumption, ColdAssumption, NoErrorAssumption
<1> USE DEF IInv, TypeOK, Counted, Erred, Finished, FirstDials, Links,
            HandshakeIncluded, InQuery, Reached, Errors, Durations
<1>len. /\ Len(samples) \in Nat
        /\ samples = <<>> <=> Len(samples) = 0
  BY EmptySeq, LenProperties
<1>1. CASE NewProberFails
  <2>1. TypeOK' BY <1>1, <1>len DEF NewProberFails, Goto, link
  <2>2. Counted' BY <1>1, <1>len DEF NewProberFails, Goto, link
  <2>3. Erred' BY <1>1, <1>len DEF NewProberFails, Goto, link
  <2>4. Finished'
    <3>1. CASE pc' \notin {"close", "done"} BY <3>1
    <3>2. CASE pc' \in {"close", "done"}
      <4>1. (attempts = Reached + Len(samples) + failures)' BY <1>1, <3>2, <1>len DEF NewProberFails, Goto, link
      <4>2. (handshake # Cold => attempts = Count + 1)' BY <1>1, <3>2, <1>len DEF NewProberFails, Goto, link
      <4>3. (ok <=> samples # <<>>)' BY <1>1, <3>2, <1>len DEF NewProberFails, Goto, link
      <4>4. (err = NoError <=> attempts > 0 /\ failures = 0)' BY <1>1, <3>2, <1>len DEF NewProberFails, Goto, link
      <4> QED BY <4>1, <4>2, <4>3, <4>4
    <3> QED BY <3>1, <3>2
  <2>5. (FirstDials /\ HandshakeIncluded /\ Links)' BY <1>1, <1>len DEF NewProberFails, Goto, link
  <2> QED BY <2>1, <2>2, <2>3, <2>4, <2>5
<1>2. CASE FirstQuery
  <2>1. TypeOK' BY <1>2, <1>len DEF FirstQuery, Goto, link
  <2>2. Counted' BY <1>2, <1>len DEF FirstQuery, Goto, link
  <2>3. Erred' BY <1>2, <1>len DEF FirstQuery, Goto, link
  <2>4. Finished' BY <1>2, <1>len DEF FirstQuery, Goto, link
  <2>5. (FirstDials /\ HandshakeIncluded /\ Links)' BY <1>2, <1>len DEF FirstQuery, Goto, link
  <2> QED BY <2>1, <2>2, <2>3, <2>4, <2>5
<1>3. CASE TimedQuery
  <2>1. TypeOK' BY <1>3, <1>len DEF TimedQuery, More, Goto, link
  <2>2. Counted' BY <1>3, <1>len DEF TimedQuery, More, Goto, link
  <2>3. Erred' BY <1>3, <1>len DEF TimedQuery, More, Goto, link
  <2>4. Finished' BY <1>3, <1>len DEF TimedQuery, More, Goto, link
  <2>5. (FirstDials /\ HandshakeIncluded /\ Links)' BY <1>3, <1>len DEF TimedQuery, More, Goto, link
  <2> QED BY <2>1, <2>2, <2>3, <2>4, <2>5
<1>4. CASE Succeeded
  <2>1. CASE i = 0 BY <1>4, <2>1, <1>len DEF Succeeded, Goto, link
  <2>2. CASE i # 0
    <3>1. /\ samples' = Append(samples, took)
          /\ samples' \in Seq(Durations)
          /\ Len(samples') = Len(samples) + 1
          /\ samples' # <<>>
      BY <1>4, <2>2, AppendProperties, <1>len DEF Succeeded
    <3> QED BY <1>4, <2>2, <3>1, <1>len DEF Succeeded, Goto, link
  <2> QED BY <2>1, <2>2
<1>5. CASE Failed
  <2>0. (attempts = Reached + Len(samples) + failures)'
    <3>1. attempts = Reached + Len(samples) + failures + 1
      BY <1>5 DEF Failed, Goto
    <3>2. /\ attempts' = attempts /\ failures' = failures + 1
          /\ samples' = samples /\ Reached' = Reached
      BY <1>5 DEF Failed, link
    <3>3. Reached \in Nat /\ Len(samples) \in Nat /\ failures \in Nat
      BY <1>len
    <3> HIDE DEF Reached
    <3> QED BY <3>1, <3>2, <3>3
  <2>1. TypeOK' BY <1>5, <1>len DEF Failed, Goto, link
  <2>2. Counted' BY <1>5, <1>len, <2>0 DEF Failed, Goto, link
  <2>3. Erred' BY <1>5, <1>len DEF Failed, Goto, link
  <2>4. Finished'
    <3>1. CASE pc' \notin {"close", "done"} BY <3>1
    <3>2. CASE pc' \in {"close", "done"}
      <4>1. (attempts = Reached + Len(samples) + failures)' BY <2>0
      <4>2. (handshake # Cold => attempts = Count + 1)' BY <1>5, <3>2, <1>len DEF Failed, Goto, link
      <4>3. (ok <=> samples # <<>>)' BY <1>5, <3>2, <1>len DEF Failed, Goto, link
      <4>4. (err = NoError <=> attempts > 0 /\ failures = 0)' BY <1>5, <3>2, <1>len DEF Failed, Goto, link
      <4> QED BY <4>1, <4>2, <4>3, <4>4
    <3> QED BY <3>1, <3>2
  <2>5. (FirstDials /\ HandshakeIncluded /\ Links)' BY <1>5, <1>len DEF Failed, Goto, link
  <2> QED BY <2>1, <2>2, <2>3, <2>4, <2>5
<1>6. CASE Summarise
  <2>1. TypeOK' BY <1>6, <1>len DEF Summarise, More, Goto, link
  <2>2. Counted' BY <1>6, <1>len DEF Summarise, More, Goto, link
  <2>3. Erred' BY <1>6, <1>len DEF Summarise, More, Goto, link
  <2>4. Finished'
    <3>1. CASE pc' \notin {"close", "done"} BY <3>1
    <3>2. CASE pc' \in {"close", "done"}
      <4>1. (attempts = Reached + Len(samples) + failures)' BY <1>6, <3>2, <1>len DEF Summarise, More, Goto, link
      <4>2. (handshake # Cold => attempts = Count + 1)' BY <1>6, <3>2, <1>len DEF Summarise, More, Goto, link
      <4>3. (ok <=> samples # <<>>)' BY <1>6, <3>2, <1>len DEF Summarise, More, Goto, link
      <4>4. (err = NoError <=> attempts > 0 /\ failures = 0)' BY <1>6, <3>2, <1>len DEF Summarise, More, Goto, link
      <4> QED BY <4>1, <4>2, <4>3, <4>4
    <3> QED BY <3>1, <3>2
  <2>5. (FirstDials /\ HandshakeIncluded /\ Links)' BY <1>6, <1>len DEF Summarise, More, Goto, link
  <2> QED BY <2>1, <2>2, <2>3, <2>4, <2>5
<1>7. CASE Close
  <2>1. CASE CloseConn BY <2>1, <1>len DEF CloseConn, Goto, result
  <2>2. CASE SkipBusy BY <2>2, <1>len DEF SkipBusy, Goto, result, link
  <2> QED BY <1>7, <2>1, <2>2 DEF Close
<1>8. CASE Reuse BY <1>8, <1>len DEF Reuse, Goto, result, link
<1>9. CASE DialOk BY <1>9, <1>len DEF DialOk, Goto, result
<1>10. CASE DialFails BY <1>10, <1>len DEF DialFails, Fails, Ends
<1>18. CASE PackFails BY <1>18, <1>len DEF PackFails, Fails
<1>19. CASE LateDial BY <1>19, <1>len DEF LateDial, result
<1>11. CASE Answered BY <1>11, <1>len DEF Answered, Goto, result, Ends
<1>12. CASE Unusable BY <1>12, <1>len DEF Unusable, Fails, Ends
<1>13. CASE ExchangeFails BY <1>13, <1>len DEF ExchangeFails, Fails, Ends
<1>14. CASE CheckConn BY <1>14, <1>len DEF CheckConn, Goto, result
<1>17. CASE Redial BY <1>17, <1>len DEF Redial, result
<1>15. CASE LinkDies BY <1>15, <1>len DEF LinkDies, result
<1>16. CASE UNCHANGED vars BY <1>16 DEF vars, result, link
<1> QED
  BY <1>1, <1>2, <1>3, <1>4, <1>5, <1>6, <1>7, <1>8, <1>9, <1>10, <1>11,
     <1>12, <1>13, <1>14, <1>15, <1>16, <1>17, <1>18, <1>19
  DEF Next, Run, Returned

THEOREM Invariant == Spec => []IInv
BY InitIInv, NextIInv, PTL DEF Spec
-----------------------------------------------------------------------------
\* benchmarkTarget keeps its variables in their types.
THEOREM TypeCorrect == Spec => []TypeOK
<1>1. IInv => TypeOK BY DEF IInv
<1> QED BY <1>1, Invariant, PTL

\* Every query of a finished result is the handshake, a sample or a failure,
\* and OK, Err and Attempts say the same as the samples (benchmarkTarget).
THEOREM Counters == Spec => []CountersAgree
<1>1. IInv => CountersAgree BY DEF IInv, Finished, CountersAgree
<1> QED BY <1>1, Invariant, PTL

\* The handshake time includes a handshake (benchmarkTarget, connection).
THEOREM Handshakes == Spec => []HandshakeIncluded
<1>1. IInv => HandshakeIncluded BY DEF IInv
<1> QED BY <1>1, Invariant, PTL

\* However benchmarkTarget returns, no connection is left open unless
\* net/http was not through with a query when that ended.
THEOREM NoneOpen == Spec => []ClosedUnlessGivenUp
<1>1. IInv => ClosedUnlessGivenUp
  BY DEF IInv, Links, ClosedUnlessGivenUp, TypeOK
<1> QED BY <1>1, Invariant, PTL

-----------------------------------------------------------------------------
(* Prober.                                                                 *)

\* How much has been read, by the place of the calling goroutine, and that
\* the query was sent before.
ReadSoFar ==
  /\ at \in {"length", "body", "unpack"} => tx = "fin"
  /\ at \in {"write", "fin"} => tx \in {"open", "stopped", "cancelled"}
  /\ at \in {"open", "write", "fin", "length"} => got < 2
  /\ at = "body" => got >= 2 /\ (size > 0 => got < 2 + size)
  /\ at = "unpack" => size > 0 /\ got = 2 + size

\* A helper has a stream; there is none before it is opened, and none of DoH,
\* whose queries alone can end with net/http not through with them.
HasStream ==
  /\ proto = "DoH" =>
       /\ rx = "none" /\ helper = "none"
       /\ at \in {"idle", "request", "response", "ok", "err"}
  /\ proto \in {"DoH", "DoQ"}
  /\ gaveUp # "no" => proto = "DoH"
  /\ helper # "none" => rx # "none"
  /\ at \in {"open", "request", "response"} => rx = "none"

\* Who is about to end the receiving side while it is held open.
Held == {"open", "fin", "reset"}
Releases ==
  /\ tx = "cancelled" /\ rx \in Held => helper = "cancelling"
  /\ at = "err" /\ conn = "live" /\ rx \in Held => tx \in {"stopped", "cancelled"}

StreamInv ==
  S!StreamTypeOK /\ ReadSoFar /\ HasStream /\ Releases /\ AnswersAreWhole

-----------------------------------------------------------------------------
LEMMA InitStreamInv == ProberInit => StreamInv
<1> SUFFICES ASSUME ProberInit PROVE StreamInv
  OBVIOUS
<1>1. S!StreamTypeOK
  <2>1. size \in 0..MaxSize /\ arrived \in 0..(2 + size) /\ got \in 0..arrived
    BY MaxSizeAssumption DEF ProberInit, S!StreamInit
  <2>2. ctx \in BOOLEAN /\ stop \in BOOLEAN
    BY DEF ProberInit, S!StreamInit
  <2> QED BY <2>1, <2>2 DEF ProberInit, S!StreamInit, S!StreamTypeOK, S!Kinds
<1>2. ReadSoFar /\ HasStream /\ Releases /\ AnswersAreWhole
  BY DEF ProberInit, S!StreamInit, ReadSoFar, HasStream, Releases,
         AnswersAreWhole, S!AnswersAreWhole, Init, Held
<1> QED BY <1>1, <1>2 DEF StreamInv

\* The steps of an exchange over DoQ leave the connection alone.
LEMMA StreamStep ==
  ASSUME StreamInv, UNCHANGED <<conn, gaveUp, proto>>,
         S!Caller \/ S!Helper \/ S!Server \/ S!Expire
  PROVE  StreamInv'
<1> USE MaxSizeAssumption
<1> USE DEF StreamInv, S!StreamTypeOK, S!Kinds, ReadSoFar, HasStream, Releases,
            AnswersAreWhole, S!AnswersAreWhole, S!Alive, S!Leave, S!caller,
            S!network, S!CancelRead, Held
<1>1. CASE S!OpenFails BY <1>1 DEF S!OpenFails
<1>2. CASE S!OpenStreamSync BY <1>2 DEF S!OpenStreamSync
<1>3. CASE S!Write BY <1>3 DEF S!Write
<1>4. CASE S!CloseWrite BY <1>4 DEF S!CloseWrite
<1>5. CASE S!SendFails BY <1>5 DEF S!SendFails
<1>6. CASE S!ReadLength BY <1>6 DEF S!ReadLength, S!ReadFull, S!Readable, S!Goal, S!SeesEnd
<1>7. CASE S!ReadBody BY <1>7 DEF S!ReadBody, S!ReadFull, S!Readable, S!Goal, S!SeesEnd
<1>8. CASE S!ReadFails BY <1>8 DEF S!ReadFails
<1>9. CASE S!Reject BY <1>9 DEF S!Reject
<1>10. CASE S!Accept BY <1>10 DEF S!Accept
<1>11. CASE S!HelperStops BY <1>11 DEF S!HelperStops
<1>12. CASE S!CancelWrite BY <1>12 DEF S!CancelWrite
<1>13. CASE S!HelperCancelsRead BY <1>13 DEF S!HelperCancelsRead
<1>14. CASE S!Expire BY <1>14 DEF S!Expire
<1>15. CASE S!ByteArrives BY <1>15 DEF S!ByteArrives
<1>16. CASE S!ServerEnds BY <1>16 DEF S!ServerEnds
<1>17. CASE S!ServerStops BY <1>17 DEF S!ServerStops
<1> QED
  BY <1>1, <1>2, <1>3, <1>4, <1>5, <1>6, <1>7, <1>8, <1>9, <1>10, <1>11, <1>12, <1>13, <1>14, <1>15, <1>16, <1>17
  DEF S!Caller, S!Helper, S!Server

\* Nothing has been read of an answer of any length.
LEMMA NothingRead ==
  ASSUME NEW n \in 0..MaxSize, NEW m, m = 0
  PROVE  n \in Nat /\ m \in 0..(2 + n) /\ m \in 0..m /\ m < 2
BY MaxSizeAssumption

LEMMA BeginStep ==
  ASSUME StreamInv, IF proto = "DoQ" THEN S!Begin ELSE BeginDoH,
         UNCHANGED <<gaveUp, proto>>
  PROVE  StreamInv'
<1>1. /\ size' \in 0..MaxSize /\ kind' \in S!Kinds
      /\ arrived' = 0 /\ got' = 0
      /\ at' \in {"open", "request"}
      /\ helper' = "none" /\ tx' = "none" /\ rx' = "none"
      /\ proto = "DoH" => at' = "request"
  BY MaxSizeAssumption DEF S!Begin, BeginDoH, S!Kinds
<1>2. arrived' \in 0..(2 + size') /\ got' \in 0..arrived' /\ got' < 2
  BY <1>1, NothingRead
<1>3. ctx' \in BOOLEAN /\ stop' \in BOOLEAN
  BY DEF StreamInv, S!StreamTypeOK, S!Begin, BeginDoH
<1>4. S!StreamTypeOK' BY <1>1, <1>2, <1>3 DEF S!StreamTypeOK
<1>5. ReadSoFar'
  <2>1. at' \notin {"length", "body", "unpack", "write", "fin"} BY <1>1
  <2> QED BY <1>2, <2>1 DEF ReadSoFar
<1>6. (HasStream /\ Releases /\ AnswersAreWhole)'
  BY <1>1 DEF StreamInv, HasStream, Releases, AnswersAreWhole, S!AnswersAreWhole
<1> QED BY <1>4, <1>5, <1>6 DEF StreamInv

\* The other steps move the calling goroutine within a request of DoH, or
\* change the context or the connection.
LEMMA RequestStep ==
  ASSUME StreamInv, Responds \/ DoHAccept \/ DoHFails
  PROVE  StreamInv'
BY DEF StreamInv, S!StreamTypeOK, ReadSoFar, HasStream, Releases, AnswersAreWhole,
       S!AnswersAreWhole, Responds, DoHAccept, DoHFails, DoHGoto, network, vars,
       link, Held

LEMMA OtherStep ==
  ASSUME StreamInv, ctx' \in BOOLEAN, UNCHANGED elsewhere,
         proto' = proto, gaveUp' # "no" => gaveUp # "no" \/ proto = "DoH",
         conn' = "live" => conn = "live" \/ at # "err" \/ proto = "DoH"
  PROVE  StreamInv'
BY DEF StreamInv, S!StreamTypeOK, ReadSoFar, HasStream, Releases, AnswersAreWhole,
       S!AnswersAreWhole, elsewhere, network, Held

LEMMA NextStreamInv == StreamInv /\ [ProberNext]_proberVars => StreamInv'
<1> SUFFICES ASSUME StreamInv, [ProberNext]_proberVars PROVE StreamInv'
  OBVIOUS
<1>b. ctx \in BOOLEAN
  BY DEF StreamInv, S!StreamTypeOK
<1>2. CASE Query
  <2>1. UNCHANGED <<conn, gaveUp>> BY <1>2 DEF Query, FirstQuery, TimedQuery, link
  <2> QED BY <1>2, <2>1, OtherStep DEF Query
<1>3. CASE Begin(Reuse) \/ Begin(DialOk)
  <2>1. gaveUp' = gaveUp BY <1>3 DEF Begin, Reuse, DialOk, link
  <2> QED BY <1>3, <2>1, BeginStep DEF Begin
<1>4. CASE EndsWithAnswer
  <2>1. conn' = conn /\ (gaveUp' # "no" => gaveUp # "no" \/ proto = "DoH")
    BY <1>4 DEF EndsWithAnswer, Cancels, GivesUp, Answered, Unusable
  <2> QED BY <1>4, <2>1, OtherStep DEF EndsWithAnswer, Cancels
<1>5. CASE EndsWithError
  <2>1. conn' = conn /\ (gaveUp' # "no" => gaveUp # "no" \/ proto = "DoH")
    BY <1>5 DEF EndsWithError, Alone, GivesUp, ExchangeFails
  <2> QED BY <1>5, <2>1, <1>b, OtherStep DEF EndsWithError, Alone, stream
<1>6. CASE Alone(NewProberFails \/ Succeeded \/ Failed \/ Summarise \/ Close)
  <2>1. (conn' = "live" => conn = "live") /\ gaveUp' = gaveUp
    BY <1>6 DEF Alone, NewProberFails, Succeeded, Failed, Summarise, Close,
                CloseConn, SkipBusy, link
  <2> QED BY <1>6, <2>1, <1>b, OtherStep DEF Alone, stream
<1>7. CASE Cancels(CheckConn) \/ Cancels(PackFails) \/ Cancels(GivesUp(DialFails))
  <2>1. /\ conn' = "live" => conn = "live"
        /\ gaveUp' # "no" => gaveUp # "no" \/ proto = "DoH"
    BY <1>7 DEF Cancels, CheckConn, PackFails, GivesUp, DialFails
  <2> QED BY <1>7, <2>1, OtherStep DEF Cancels
<1>8. CASE \/ StreamSteps(S!Caller) \/ StreamSteps(S!Helper)
          \/ StreamSteps(S!Server) \/ StreamSteps(S!Expire)
  <2>1. UNCHANGED <<conn, gaveUp, proto>> BY <1>8 DEF StreamSteps, vars, link
  <2> QED BY <1>8, <2>1, StreamStep DEF StreamSteps
<1>9. CASE Responds \/ DoHAccept \/ DoHFails
  BY <1>9, RequestStep
<1>10. CASE RedialDoH
  BY <1>10, <1>b, OtherStep DEF RedialDoH, Alone, stream, Redial
<1>13. CASE Alone(LateDial)
  <2>1. proto = "DoH"
    BY <1>13 DEF Alone, LateDial, StreamInv, HasStream
  <2> QED BY <1>13, <2>1, <1>b, OtherStep DEF Alone, stream
<1>11. CASE Alone(LinkDies) \/ Alone(Returned)
  <2>1. (conn' = "live" => conn = "live") /\ gaveUp' = gaveUp
    BY <1>11 DEF Alone, LinkDies, Returned, vars, link
  <2> QED BY <1>11, <2>1, <1>b, OtherStep DEF Alone, stream
<1>12. CASE UNCHANGED proberVars
  BY <1>12, <1>b, OtherStep DEF proberVars, stream, vars, link
<1> QED
  BY <1>2, <1>3, <1>4, <1>5, <1>6, <1>7, <1>8, <1>9, <1>10, <1>11, <1>12, <1>13
  DEF ProberNext, Measuring, Fallible, Awaited

\* What the receiving of an answer rests on holds in every state.
THEOREM StreamInvariant == ProberSpec => []StreamInv
BY InitStreamInv, NextStreamInv, PTL DEF ProberSpec
-----------------------------------------------------------------------------
\* Every step of Prober is a step of Benchmark or leaves its variables alone.
THEOREM Implements == ProberSpec => Spec
<1>1. ProberInit => Init BY DEF ProberInit
<1>2. [ProberNext]_proberVars => [Next]_vars
  <2> SUFFICES ASSUME [ProberNext]_proberVars PROVE [Next]_vars
    OBVIOUS
  <2>1. CASE Measuring
    BY <2>1 DEF Measuring, Query, Begin, EndsWithAnswer, EndsWithError, Alone,
                GivesUp, Cancels, StreamSteps, Next, Run
  <2>2. CASE Fallible
    BY <2>2 DEF Fallible, Cancels, GivesUp, DoHFails, DoHGoto, Next, Run
  <2>3. CASE Awaited
    BY <2>3 DEF Awaited, Begin, Responds, DoHAccept, DoHGoto, RedialDoH,
                StreamSteps, Alone, Next, Run
  <2>4. CASE StreamSteps(S!Helper) \/ StreamSteps(S!Expire) \/ Alone(Returned)
    BY <2>4 DEF StreamSteps, Alone, Returned, Next
  <2>5. CASE UNCHANGED proberVars BY <2>5 DEF proberVars
  <2> QED BY <2>1, <2>2, <2>3, <2>4, <2>5 DEF ProberNext
<1> QED BY <1>1, <1>2, PTL DEF ProberSpec, Spec

\* The probers keep their variables in their types (queryOnce, doqExchange).
THEOREM ProberTypeCorrect == ProberSpec => []ProberTypeOK
<1> DEFINE ProtoOK == proto \in {"DoH", "DoQ"}
<1>1. ProberInit => ProtoOK BY DEF ProberInit
<1>2. ProtoOK /\ [ProberNext]_proberVars => ProtoOK'
  <2>1. [ProberNext]_proberVars => proto' = proto
    BY DEF ProberNext, Measuring, Fallible, Awaited, Query, Begin, EndsWithAnswer,
           EndsWithError, Alone, GivesUp, Cancels, StreamSteps, DoHFails, Responds, DoHAccept,
           DoHGoto, RedialDoH, proberVars
  <2> QED BY <2>1
<1>4. TypeOK /\ StreamInv /\ ProtoOK => ProberTypeOK
  BY DEF StreamInv, ProberTypeOK
<1> HIDE DEF ProtoOK
<1>3. ProberSpec => []ProtoOK BY <1>1, <1>2, PTL DEF ProberSpec
<1> QED BY <1>3, <1>4, StreamInvariant, Implements, TypeCorrect, PTL

\* Only a whole answer with message ID 0 is accepted, in however many pieces
\* it arrives and wherever the server stops (doqExchange).
THEOREM Whole == ProberSpec => []AnswersAreWhole
<1>1. StreamInv => AnswersAreWhole BY DEF StreamInv
<1> QED BY <1>1, StreamInvariant, PTL

\* A failed exchange leaves no stream behind on a live connection: its end
\* was read or it was cancelled (doqExchange).
THEOREM Released == ProberSpec => []FailedStreamsReleased
<1>1. StreamInv => FailedStreamsReleased
  BY DEF StreamInv, Releases, Held, HasStream, FailedStreamsReleased,
         S!FailedStreamsReleased, S!Alive, S!StreamTypeOK
<1> QED BY <1>1, StreamInvariant, PTL

\* The counters of a result agree with both probers in detail as well.
THEOREM ProberCounters == ProberSpec => []CountersAgree
BY Implements, Counters, PTL

\* The DoQ prober leaves no connection open, and the DoH prober none unless
\* one of its queries has failed or timed out.
THEOREM ProberNoneOpen == ProberSpec => []NothingLeftOpen
<1>1. ClosedUnlessGivenUp /\ StreamInv => NothingLeftOpen
  BY DEF ClosedUnlessGivenUp, StreamInv, HasStream, NothingLeftOpen
<1> QED BY <1>1, Implements, NoneOpen, StreamInvariant, PTL
=============================================================================
