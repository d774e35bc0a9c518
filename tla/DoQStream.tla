----------------------------- MODULE DoQStream ------------------------------
(***************************************************************************)
(* One exchange on a stream of a QUIC connection: doqExchange, the same    *)
(* code in doq.go and in cmd/dnsspeed/doq.go.  The calling goroutine sends *)
(* the query and reads the answer, a length of two bytes and then as many  *)
(* bytes as that says; a helper goroutine waits for the context and        *)
(* cancels both directions of the stream, which is the only thing that     *)
(* wakes a blocked read or write.                                          *)
(*                                                                         *)
(* Bytes are counted, and what they say is one of Kinds.  The helper of an *)
(* earlier exchange touches nothing but its own stream; it is forgotten    *)
(* when the next exchange begins.                                          *)
(***************************************************************************)
EXTENDS Naturals

CONSTANT MaxSize  \* bound: the largest length a server announces

VARIABLES
  conn,    \* the connection: "none", "live" or "dead"
  ctx,     \* the context of the query is done
  at,      \* where the calling goroutine is
  helper,  \* where the helper goroutine is
  stop,    \* the channel stop is closed
  tx, rx,  \* the two directions of the stream; rx is "fin" or "reset" when
           \* the server has ended it, "read" when the caller was told so
  size,    \* the announced length, and
  kind,    \* what the announced bytes are
  arrived, \* the bytes of the answer that have arrived, and
  got      \* those that were read

caller  == <<at, stop, got>>
network == <<size, kind, arrived>>
stream  == <<ctx, caller, helper, tx, rx, network>>

\* A DNS message with ID 0, with another ID, or no message.
Kinds == {"valid", "id", "garbage"}

StreamTypeOK ==
  /\ ctx \in BOOLEAN /\ stop \in BOOLEAN
  /\ at \in {"idle", "open", "write", "fin", "length", "body", "unpack",
             "request", "response", "ok", "err"}
  /\ helper \in {"none", "select", "cancelling", "ended"}
  /\ tx \in {"none", "open", "fin", "stopped", "cancelled"}
  /\ rx \in {"none", "open", "fin", "reset", "read", "cancelled"}
  /\ size \in 0..MaxSize /\ kind \in Kinds
  /\ arrived \in 0..(2 + size) /\ got \in 0..arrived

StreamInit ==
  /\ ctx = TRUE /\ at = "idle" /\ helper = "none" /\ stop = FALSE
  /\ tx = "none" /\ rx = "none"
  /\ size = 0 /\ kind = "valid" /\ arrived = 0 /\ got = 0

Alive == conn = "live"

\* doqExchange returns, and the deferred call closes stop.
Leave(from, to) ==
  /\ at = from
  /\ at' = to
  /\ stop' = TRUE

\* What the server will answer is drawn when the exchange begins.
Begin ==
  /\ at' = "open" /\ helper' = "none" /\ stop' = FALSE
  /\ tx' = "none" /\ rx' = "none"
  /\ size' \in 0..MaxSize /\ kind' \in Kinds /\ arrived' = 0 /\ got' = 0
  /\ ctx' = ctx

-----------------------------------------------------------------------------
(* The calling goroutine.                                                  *)

OpenFails ==
  /\ ctx \/ ~Alive
  /\ Leave("open", "err")
  /\ UNCHANGED <<ctx, got, helper, tx, rx, network>>

OpenStreamSync ==
  /\ at = "open" /\ Alive
  /\ at' = "write" /\ helper' = "select"
  /\ tx' = "open" /\ rx' = "open"
  /\ UNCHANGED <<ctx, stop, got, network>>

Write ==
  /\ at = "write" /\ Alive /\ tx = "open"
  /\ at' = "fin"
  /\ UNCHANGED <<ctx, stop, got, helper, tx, rx, network>>

CloseWrite ==
  /\ at = "fin" /\ Alive /\ tx = "open"
  /\ at' = "length" /\ tx' = "fin"
  /\ UNCHANGED <<ctx, stop, got, helper, rx, network>>

SendFails ==
  /\ ~Alive \/ tx # "open"
  /\ Leave("write", "err") \/ Leave("fin", "err")
  /\ UNCHANGED <<ctx, got, helper, tx, rx, network>>

\* io.ReadFull: Read returns some of the bytes that are there, and is called
\* again until the buffer is full.  The Read that returns the last byte also
\* tells the end of the stream if that came with the byte.
Goal == IF at = "length" THEN 2 ELSE 2 + size
Readable == Alive /\ rx \in {"open", "fin"} /\ got < arrived
SeesEnd  == rx' \in IF rx = "fin" /\ got' = arrived THEN {"fin", "read"} ELSE {rx}

ReadOnce(next) ==
  /\ Readable
  /\ \E n \in got + 1..arrived : n <= Goal /\ got' = n /\ at' = next
  /\ SeesEnd
ReadFull(next) ==
  /\ Readable
  /\ \E n \in got + 1..arrived :
       n <= Goal /\ got' = n /\ at' = IF n = Goal THEN next ELSE at
  /\ SeesEnd

ReadLength ==
  /\ at = "length"
  /\ ReadFull("body")
  /\ UNCHANGED <<ctx, stop, helper, tx, network>>

ReadBody ==
  /\ at = "body" /\ size > 0
  /\ ReadFull("unpack")
  /\ UNCHANGED <<ctx, stop, helper, tx, network>>

ReadFails ==
  /\ at = "body" => size > 0
  /\ \/ ~Alive
     \/ rx \in {"reset", "cancelled"}
     \/ rx \in {"fin", "read"} /\ got = arrived
  /\ Leave("length", "err") \/ Leave("body", "err")
  /\ rx' = IF rx \in {"fin", "reset"} THEN "read" ELSE rx
  /\ UNCHANGED <<ctx, got, helper, tx, network>>

CancelRead == rx' = IF rx = "read" THEN rx ELSE "cancelled"

\* An answer that cannot be used: the server need not send any more of it.
RejectSilently ==
  /\ \/ size = 0 /\ Leave("body", "err")
     \/ kind # "valid" /\ Leave("unpack", "err")
  /\ UNCHANGED <<ctx, got, helper, tx, rx, network>>
Reject ==
  /\ \/ size = 0 /\ Leave("body", "err")
     \/ kind # "valid" /\ Leave("unpack", "err")
  /\ CancelRead
  /\ UNCHANGED <<ctx, got, helper, tx, network>>

Accept ==
  /\ kind = "valid"
  /\ Leave("unpack", "ok")
  /\ UNCHANGED <<ctx, got, helper, tx, rx, network>>

-----------------------------------------------------------------------------
(* The helper goroutine, the context and the server.                       *)

\* When the context is done and stop is closed, select picks either.
HelperStops ==
  /\ helper = "select" /\ stop
  /\ helper' = "ended"
  /\ UNCHANGED <<ctx, caller, tx, rx, network>>

CancelWriteNever == FALSE /\ UNCHANGED stream
CancelWrite ==
  /\ helper = "select" /\ ctx
  /\ helper' = "cancelling"
  /\ tx' = IF tx = "open" THEN "cancelled" ELSE tx
  /\ UNCHANGED <<ctx, caller, rx, network>>

HelperCancelsRead ==
  /\ helper = "cancelling"
  /\ helper' = "ended"
  /\ CancelRead
  /\ UNCHANGED <<ctx, caller, tx, network>>

Expire ==
  /\ ~ctx
  /\ ctx' = TRUE
  /\ UNCHANGED <<caller, helper, tx, rx, network>>

ByteArrives ==
  /\ Alive /\ rx = "open" /\ arrived < 2 + size
  /\ arrived' = arrived + 1
  /\ UNCHANGED <<ctx, caller, helper, tx, rx, size, kind>>

\* The server ends its side, where it likes, or resets it, or refuses to
\* read the query.
ServerEnds ==
  /\ Alive /\ rx = "open" /\ rx' \in {"fin", "reset"}
  /\ UNCHANGED <<ctx, caller, helper, tx, network>>

ServerStops ==
  /\ Alive /\ tx = "open" /\ tx' = "stopped"
  /\ UNCHANGED <<ctx, caller, helper, rx, network>>

Caller == OpenFails \/ CloseWrite \/ SendFails \/ ReadLength \/ ReadBody
          \/ ReadFails \/ Reject \/ Accept
Helper == HelperStops \/ CancelWrite \/ HelperCancelsRead
Server == OpenStreamSync \/ Write \/ ByteArrives \/ ServerEnds \/ ServerStops

-----------------------------------------------------------------------------
(* Properties.                                                             *)

\* An answer is only accepted whole: as many bytes as the length announced,
\* in however many pieces they arrived, and with message ID 0.
AnswersAreWhole ==
  at = "ok" /\ rx # "none" =>
    size > 0 /\ got = 2 + size /\ kind = "valid" /\ tx = "fin"

\* No failed exchange leaves its stream behind: when caller and helper are
\* through, the receiving side was read to its end or cancelled, unless the
\* server had refused the query.  An exchange that succeeds promises nothing
\* of the kind: nobody reads on behind the answer, and the helper may end
\* without cancelling.
FailedStreamsReleased ==
  at = "err" /\ helper = "ended" /\ Alive =>
    rx \in {"read", "cancelled"} \/ tx = "stopped"
=============================================================================
