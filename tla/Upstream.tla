------------------------------ MODULE Upstream ------------------------------
(***************************************************************************)
(* What an encrypted upstream promises to the resolver (the Upstream       *)
(* interface of upstream.go): many goroutines may call Exchange at once,   *)
(* each call ends at most once, an answer only ever arrives over an        *)
(* established connection, at most one connection is held at any time,     *)
(* and once the upstream has been shut no connection is established any    *)
(* more.  DoQUpstream is shown to implement this module.                   *)
(***************************************************************************)
CONSTANTS
  Calls,  \* the goroutines that call Exchange
  Conns   \* the identities of the connections that may be established

VARIABLES
  status, \* status[c]: "idle", "pending", "ok" or "err"
  up,     \* the established connections
  shut    \* TRUE once Close has begun to release the upstream

vars == <<status, up, shut>>

TypeOK ==
  /\ status \in [Calls -> {"idle", "pending", "ok", "err"}]
  /\ up \in SUBSET Conns
  /\ shut \in BOOLEAN

Init ==
  /\ status = [c \in Calls |-> "idle"]
  /\ up = {}
  /\ shut = FALSE

Move(c, from, to) ==
  /\ status[c] = from
  /\ status' = [status EXCEPT ![c] = to]
  /\ UNCHANGED <<up, shut>>

\* Exchange is called, and ends with a response or with an error; a message
\* that cannot be sent is refused on the spot.
Exchange(c) == Move(c, "idle", "pending")
Refuse(c)   == Move(c, "idle", "err")
Fail(c)     == Move(c, "pending", "err")
Answer(c)   == up # {} /\ Move(c, "pending", "ok")

\* A connection is set up for a waiting call, when there is none.
Connect(k) ==
  /\ ~shut
  /\ up = {}
  /\ \E c \in Calls : status[c] = "pending"
  /\ up' = {k}
  /\ UNCHANGED <<status, shut>>

\* The connection goes away: the server, the network, or Close.
Drop ==
  /\ up # {}
  /\ up' = {}
  /\ UNCHANGED <<status, shut>>

Shut ==
  /\ ~shut
  /\ shut' = TRUE
  /\ UNCHANGED <<status, up>>

Next ==
  \/ \E c \in Calls : Exchange(c) \/ Refuse(c) \/ Fail(c) \/ Answer(c)
  \/ \E k \in Conns : Connect(k)
  \/ Drop
  \/ Shut

Spec == Init /\ [][Next]_vars
=============================================================================
