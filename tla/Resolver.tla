------------------------------ MODULE Resolver ------------------------------
(***************************************************************************)
(* The resolver of resolver.go: each query is tried on the primary         *)
(* upstream and, when that fails, on the fallback.  Every attempt has a    *)
(* context of its own with the full timeout.  Both upstreams blank the ID  *)
(* of the message while they pack it, put it back, and give the ID they    *)
(* found to the response (Exchange of doq.go and doh.go); the fallback is  *)
(* handed the same message as the primary.                                 *)
(*                                                                         *)
(* What happens inside an attempt is left to the upstream: it is answered, *)
(* it fails, or its context expires and it fails; see DoQUpstream.         *)
(***************************************************************************)
EXTENDS Naturals

CONSTANTS
  Callers,     \* the goroutines that call Exchange
  IDs,         \* the message IDs of their queries; 0 is the one on the wire
  HasFallback, \* whether -fallback is not empty
  DoQ          \* the upstreams that speak DoQ, the others speak DoH

Primary   == 1
Fallback  == 2
Last      == IF HasFallback THEN Fallback ELSE Primary
Upstreams == Primary..Last

VARIABLES
  at,      \* at[c]: where caller c is
  asked,   \* asked[c]: the upstream of its latest attempt, 0 if none
  msgId,   \* msgId[c]: the ID in its message
  origId,  \* origId[c]: the ID its latest attempt has saved
  reply,   \* reply[c]: the ID in its response
  expired, \* the callers whose attempt is past its deadline
  shut,    \* the upstreams whose Close has returned
  sent,    \* history: sent[c] is the ID c has asked with
  blame    \* history: blame[c] are the upstreams that failed c by themselves

call    == <<at, asked, msgId, origId, reply, expired>>
history == <<sent, blame>>
vars    == <<call, shut, history>>

Init ==
  /\ at = [c \in Callers |-> "idle"]
  /\ asked = [c \in Callers |-> 0]
  /\ msgId = [c \in Callers |-> 0]
  /\ origId = [c \in Callers |-> 0]
  /\ reply = [c \in Callers |-> 0]
  /\ expired = {}
  /\ shut = {}
  /\ sent = [c \in Callers |-> 0]
  /\ blame = [c \in Callers |-> {}]

Blame(c) == blame' = [blame EXCEPT ![c] = @ \cup {asked[c]}]

-----------------------------------------------------------------------------
\* The ID of the message after it has been packed, also when that failed.
NotRestored(id) == 0
Restored(id) == id

\* context.WithTimeout: the attempt starts with its whole timeout.
SharedContext(c) == expired
FreshContext(c) == expired \ {c}

\* Caller c, whose message has the given ID, enters Exchange of upstream u.
Enter(c, u, id) ==
  /\ at' = [at EXCEPT ![c] = "try"]
  /\ asked' = [asked EXCEPT ![c] = u]
  /\ origId' = [origId EXCEPT ![c] = id]
  /\ msgId' = [msgId EXCEPT ![c] = Restored(id)]
  /\ expired' = FreshContext(c)

Ask(c) ==
  /\ at[c] = "idle"
  /\ \E id \in IDs : Enter(c, Primary, id) /\ sent' = [sent EXCEPT ![c] = id]
  /\ blame' = [blame EXCEPT ![c] = {}]
  /\ UNCHANGED <<reply, shut>>

\* DoH goes on working after Close, which only drops idle connections.
Open(u) == u \notin shut \/ u \notin DoQ

Answered(c) ==
  /\ at[c] = "try"
  /\ Open(asked[c])
  /\ at' = [at EXCEPT ![c] = "ok"]
  /\ reply' = [reply EXCEPT ![c] = origId[c]]
  /\ UNCHANGED <<asked, msgId, origId, expired, shut, history>>

\* The message does not pack, or the server or the network fails.
AttemptFails(c) ==
  /\ at[c] = "try"
  /\ at' = [at EXCEPT ![c] = "failed"]
  /\ Blame(c)
  /\ UNCHANGED <<asked, msgId, origId, reply, expired, shut, sent>>

\* The deadline of the attempt passes; the answer may still win the race.
Expire(c) ==
  /\ at[c] = "try"
  /\ c \notin expired
  /\ expired' = expired \cup {c}
  /\ Blame(c)
  /\ UNCHANGED <<at, asked, msgId, origId, reply, shut, sent>>

GivesUp(c) ==
  /\ at[c] = "try"
  /\ c \in expired \/ ~Open(asked[c])
  /\ at' = [at EXCEPT ![c] = "failed"]
  /\ UNCHANGED <<asked, msgId, origId, reply, expired, shut, history>>

\* The upstreams are a pair; without a fallback its second field is nil.
HasNextUnchecked(c) == asked[c] <= Last
HasNext(c) == asked[c] < Last

NextUpstreamRestarts(c) ==
  /\ at[c] = "failed"
  /\ HasNext(c)
  /\ Enter(c, Primary, msgId[c])
  /\ UNCHANGED <<reply, shut, history>>

NextUpstream(c) ==
  /\ at[c] = "failed"
  /\ HasNext(c)
  /\ Enter(c, asked[c] + 1, msgId[c])
  /\ UNCHANGED <<reply, shut, history>>

Fails(c) ==
  /\ at[c] = "failed"
  /\ ~HasNext(c)
  /\ at' = [at EXCEPT ![c] = "err"]
  /\ UNCHANGED <<asked, msgId, origId, reply, expired, shut, history>>

\* Exchange has returned and its caller has used the response.
Return(c) ==
  /\ at[c] \in {"ok", "err"}
  /\ at' = [at EXCEPT ![c] = "idle"]
  /\ asked' = [asked EXCEPT ![c] = 0]
  /\ msgId' = [msgId EXCEPT ![c] = 0]
  /\ origId' = [origId EXCEPT ![c] = 0]
  /\ reply' = [reply EXCEPT ![c] = 0]
  /\ expired' = expired \ {c}
  /\ sent' = [sent EXCEPT ![c] = 0]
  /\ blame' = [blame EXCEPT ![c] = {}]
  /\ UNCHANGED shut

\* Close: the primary, then the fallback if there is one.
CloseUpstream(u) ==
  /\ u \in Upstreams \ shut
  /\ \A v \in Upstreams : v < u => v \in shut
  /\ shut' = shut \cup {u}
  /\ UNCHANGED <<call, history>>

-----------------------------------------------------------------------------
Attempt(c) == Answered(c) \/ AttemptFails(c) \/ Expire(c) \/ GivesUp(c)
Steps(c)   == Attempt(c) \/ NextUpstream(c) \/ Fails(c)

Next ==
  \/ \E c \in Callers : Ask(c) \/ Steps(c) \/ Return(c)
  \/ \E u \in Upstreams : CloseUpstream(u)

Spec == Init /\ [][Next]_vars

-----------------------------------------------------------------------------
(* Properties.                                                             *)

TypeOK ==
  /\ at \in [Callers -> {"idle", "try", "failed", "ok", "err"}]
  /\ asked \in [Callers -> Upstreams \cup {0}]
  /\ msgId \in [Callers -> IDs \cup {0}]
  /\ origId \in [Callers -> IDs \cup {0}]
  /\ reply \in [Callers -> IDs \cup {0}]
  /\ expired \subseteq Callers
  /\ shut \subseteq Upstreams
  /\ sent \in [Callers -> IDs \cup {0}]
  /\ blame \in [Callers -> SUBSET Upstreams]

\* See Proxy.
ReplyMatchesQuery == \A c \in Callers : at[c] = "ok" => reply[c] = sent[c]
=============================================================================
