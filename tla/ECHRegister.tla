---------------------------- MODULE ECHRegister -----------------------------
(***************************************************************************)
(* What the ECH cache of ech.go promises to the DNS handlers: it behaves   *)
(* like one atomic register that holds the number of the configuration     *)
(* fetched last (0: none yet).  A handler reads it once per answer, and    *)
(* every ECH parameter it adds to that answer is the value it read.        *)
(* ECHCache is shown to implement this module.                             *)
(***************************************************************************)
EXTENDS Naturals

CONSTANTS
  Handlers,   \* the goroutines that answer queries
  NotRead     \* the handler has not looked at the register yet

VARIABLES
  config,  \* the register
  read,    \* read[h]: what h read for its current answer
  put      \* put[h]: the configurations h has put into its answer

vars == <<config, read, put>>

Init ==
  /\ config = 0
  /\ read = [h \in Handlers |-> NotRead]
  /\ put = [h \in Handlers |-> {}]

\* A refresh replaces the configuration by a newer one.
Publish ==
  /\ config' = config + 1
  /\ UNCHANGED <<read, put>>

Read(h) ==
  /\ read[h] = NotRead
  /\ read' = [read EXCEPT ![h] = config]
  /\ UNCHANGED <<config, put>>

\* Nothing is put into an answer before the first successful refresh.
Put(h) ==
  /\ read[h] \in Nat \ {0}
  /\ put' = [put EXCEPT ![h] = {read[h]}]
  /\ UNCHANGED <<config, read>>

Reply(h) ==
  /\ read[h] # NotRead
  /\ read' = [read EXCEPT ![h] = NotRead]
  /\ put' = [put EXCEPT ![h] = {}]
  /\ UNCHANGED config

Next == Publish \/ \E h \in Handlers : Read(h) \/ Put(h) \/ Reply(h)

Spec == Init /\ [][Next]_vars
=============================================================================
