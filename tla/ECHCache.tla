------------------------------ MODULE ECHCache ------------------------------
(***************************************************************************)
(* The ECH cache of ech.go.  One refresher goroutine fetches the current   *)
(* ECH configuration and stores it under the write lock, as a new slice    *)
(* that it then fills by copying.  Any number of handlers (ServeDNS of     *)
(* server.go) take the slice under the read lock and copy out of it after  *)
(* they have released the lock, once per HTTPS record that has no ECH      *)
(* parameter.                                                              *)
(*                                                                         *)
(* The memory is explicit: a slice is a buffer, a buffer is a sequence of  *)
(* words, and both copies move one word at a time, so that a handler could *)
(* see a half-written configuration if the locking let it.  A buffer that  *)
(* nothing refers to may be allocated again (the garbage collector).  The  *)
(* read lock protects one assignment, so a read section is one step.       *)
(***************************************************************************)
EXTENDS Naturals, Sequences

CONSTANTS
  Handlers,   \* the goroutines that answer queries
  Bufs,       \* the memory: buffers a slice may point to
  NoBuf,      \* the nil slice
  NotRead,    \* see ECHRegister
  Words,      \* the length of a configuration, in words
  MaxConfigs, \* bound: the configurations that are ever fetched
  Answers     \* bound: the answer sections an upstream may return

\* A record is no HTTPS record, an HTTPS record without an ECH parameter, or
\* one whose ECH parameter is empty or full.
Kinds == {"other", "bare", "empty", "full"}

ASSUME BufsAssumption == NoBuf \notin Bufs
ASSUME WordsAssumption == Words \in Nat \ {0}
ASSUME ConfigsAssumption == MaxConfigs \in Nat
ASSUME AnswersAssumption == Answers \subseteq Seq(Kinds)
ASSUME NotReadAssumption == NotRead \notin Nat

VARIABLES
  writer,    \* c.mu is held for writing
  ech,       \* c.ech: the buffer it points to, or NoBuf
  mem,       \* mem[b]: the words of buffer b
  refresher, \* where the refresher is
  incoming,  \* the parameter value the refresher is about to store
  copied,    \* how many words of it have been copied
  serving,   \* Start has returned and the DNS servers are up
  stop,      \* the signal context is done
  hpc,       \* hpc[h]: where handler h is
  answer,    \* answer[h]: the answer section h got from the resolver
  snap,      \* snap[h]: the slice h took out of the cache
  pos,       \* pos[h]: the record h looks at
  added,     \* added[h][i]: the words h has copied into record i
  fetched,   \* history: how many configurations have been fetched
  published, \* history: the number of the last one that is stored
  floor      \* history: published when h received its query

cache    == <<writer, ech, mem>>
refresh  == <<refresher, incoming, copied>>
process  == <<serving, stop>>
handlers == <<hpc, answer, snap, pos, added>>
history  == <<fetched, published, floor>>
vars     == <<cache, refresh, process, handlers, history>>

Config(n) == [w \in 1..Words |-> n]

Init ==
  /\ writer = FALSE
  /\ ech = NoBuf
  /\ mem = [b \in Bufs |-> Config(0)]
  /\ refresher = "fetch"
  /\ incoming = Config(0)
  /\ copied = 0
  /\ serving = FALSE
  /\ stop = FALSE
  /\ hpc = [h \in Handlers |-> "idle"]
  /\ answer = [h \in Handlers |-> <<>>]
  /\ snap = [h \in Handlers |-> NoBuf]
  /\ pos = [h \in Handlers |-> 0]
  /\ added = [h \in Handlers |-> <<>>]
  /\ fetched = 0
  /\ published = 0
  /\ floor = [h \in Handlers |-> 0]

-----------------------------------------------------------------------------
(* The refresher: Start and fetch.                                         *)

\* The first fetch runs inside Start, and main starts the servers after it.
FetchReturns == serving' = TRUE

\* The resolver fails, or no record of the response has a usable parameter.
UsableEmpty(kind) == kind \in {"empty", "full"}
Usable(kind) == kind = "full"

FetchFailsReturns ==
  /\ refresher = "fetch"
  /\ refresher' = "stopped"
  /\ FetchReturns
  /\ UNCHANGED <<cache, incoming, copied, stop, handlers, history>>
FetchFails ==
  /\ refresher = "fetch"
  /\ refresher' = "wait"
  /\ FetchReturns
  /\ UNCHANGED <<cache, incoming, copied, stop, handlers, history>>

\* The first usable parameter of the response is taken.
FetchConfig ==
  /\ refresher = "fetch"
  /\ fetched < MaxConfigs
  /\ \E a \in Answers : \E i \in DOMAIN a :
       /\ Usable(a[i])
       /\ \A j \in DOMAIN a : j < i => ~Usable(a[j])
       /\ incoming' = IF a[i] = "full" THEN Config(fetched + 1) ELSE <<>>
  /\ fetched' = fetched + 1
  /\ refresher' = "lock"
  /\ UNCHANGED <<cache, copied, process, handlers, published, floor>>

\* make returns a buffer nothing else refers to, filled with zeros.
InPlace(b) == IF ech = NoBuf THEN TRUE ELSE b = ech
Unreferenced(b) == b # ech /\ \A h \in Handlers : snap[h] # b

LockAndMake ==
  /\ refresher = "lock"
  /\ ~writer
  /\ writer' = TRUE
  /\ \E b \in Bufs :
       /\ Unreferenced(b)
       /\ ech' = b
       /\ mem' = [mem EXCEPT ![b] = [w \in DOMAIN incoming |-> 0]]
  /\ copied' = 0
  /\ refresher' = "copy"
  /\ UNCHANGED <<incoming, process, handlers, history>>

CopyIn ==
  /\ refresher = "copy"
  /\ copied + 1 \in DOMAIN incoming
  /\ copied' = copied + 1
  /\ mem' = [mem EXCEPT ![ech][copied + 1] = incoming[copied + 1]]
  /\ UNCHANGED <<writer, ech, refresher, incoming, process, handlers, history>>

UnlockForgotten ==
  /\ refresher = "copy"
  /\ copied + 1 \notin DOMAIN incoming
  /\ published' = fetched
  /\ refresher' = "wait"
  /\ FetchReturns
  /\ UNCHANGED <<cache, incoming, copied, stop, handlers, fetched, floor>>
Unlock ==
  /\ refresher = "copy"
  /\ copied + 1 \notin DOMAIN incoming
  /\ writer' = FALSE
  /\ published' = fetched
  /\ refresher' = "wait"
  /\ FetchReturns
  /\ UNCHANGED <<ech, mem, incoming, copied, stop, handlers, fetched, floor>>

\* The timer may also have fired when the context is done: select picks one.
TimerFires ==
  /\ refresher = "wait"
  /\ refresher' = "fetch"
  /\ UNCHANGED <<cache, incoming, copied, process, handlers, history>>

StoppedNever == FALSE /\ UNCHANGED vars
Stopped ==
  /\ refresher = "wait"
  /\ stop
  /\ refresher' = "stopped"
  /\ UNCHANGED <<cache, incoming, copied, process, handlers, history>>

Signal ==
  /\ ~stop
  /\ stop' = TRUE
  /\ UNCHANGED <<cache, refresh, serving, handlers, history>>

-----------------------------------------------------------------------------
(* A handler: ServeDNS and InjectECH.                                      *)

Goto(h, from, to) ==
  /\ hpc[h] = from
  /\ hpc' = [hpc EXCEPT ![h] = to]

Receive(h) ==
  /\ serving
  /\ Goto(h, "idle", "resolve")
  /\ floor' = [floor EXCEPT ![h] = published]
  /\ UNCHANGED <<cache, refresh, process, answer, snap, pos, added, fetched,
                 published>>

\* The upstreams failed: HandleFailed, without a look at the cache.
ResolveFails(h) ==
  /\ Goto(h, "resolve", "idle")
  /\ UNCHANGED <<cache, refresh, process, answer, snap, pos, added, history>>

Resolved(h) ==
  /\ Goto(h, "resolve", "inject")
  /\ \E a \in Answers :
       /\ answer' = [answer EXCEPT ![h] = a]
       /\ added' = [added EXCEPT ![h] = [i \in DOMAIN a |-> <<>>]]
  /\ UNCHANGED <<cache, refresh, process, snap, pos, history>>

\* RLock waits while the refresher writes.
MayReadAlways == TRUE
MayRead == ~writer

ReadCache(h) ==
  /\ MayRead
  /\ Goto(h, "inject", IF ech = NoBuf \/ mem[ech] = <<>>
                       THEN "write" ELSE "records")
  /\ snap' = [snap EXCEPT ![h] = ech]
  /\ pos' = [pos EXCEPT ![h] = 1]
  /\ UNCHANGED <<cache, refresh, process, answer, added, history>>

\* A parameter is added to an HTTPS record that has none, not even an empty
\* one.
NeedsECHTooMuch(kind) == kind \in {"bare", "empty"}
NeedsECH(kind) == kind = "bare"

\* How much of the parameter of the current record has been copied.
Copied(h) == Len(added[h][pos[h]])

NextRecord(h) ==
  /\ hpc[h] = "records"
  /\ pos[h] <= Len(answer[h])
  /\ NeedsECH(answer[h][pos[h]]) => Copied(h) + 1 \notin DOMAIN mem[snap[h]]
  /\ pos' = [pos EXCEPT ![h] = @ + 1]
  /\ UNCHANGED <<cache, refresh, process, hpc, answer, snap, added, history>>

CopyOut(h) ==
  /\ hpc[h] = "records"
  /\ pos[h] <= Len(answer[h])
  /\ NeedsECH(answer[h][pos[h]])
  /\ Copied(h) + 1 \in DOMAIN mem[snap[h]]
  /\ added' = [added EXCEPT
       ![h][pos[h]] = Append(@, mem[snap[h]][Copied(h) + 1])]
  /\ UNCHANGED <<cache, refresh, process, hpc, answer, snap, pos, history>>

Injected(h) ==
  /\ pos[h] > Len(answer[h])
  /\ Goto(h, "records", "write")
  /\ UNCHANGED <<cache, refresh, process, answer, snap, pos, added, history>>

\* The reply is written, and the locals of the handler are garbage.
WriteMsg(h) ==
  /\ Goto(h, "write", "idle")
  /\ answer' = [answer EXCEPT ![h] = <<>>]
  /\ added' = [added EXCEPT ![h] = <<>>]
  /\ snap' = [snap EXCEPT ![h] = NoBuf]
  /\ pos' = [pos EXCEPT ![h] = 0]
  /\ UNCHANGED <<cache, refresh, process, history>>

-----------------------------------------------------------------------------
Refresher ==
  FetchFails \/ FetchConfig \/ LockAndMake \/ CopyIn \/ Unlock \/ TimerFires
Handler(h) ==
  \/ Receive(h) \/ ResolveFails(h) \/ Resolved(h) \/ ReadCache(h)
  \/ NextRecord(h) \/ CopyOut(h) \/ Injected(h) \/ WriteMsg(h)

Next == Refresher \/ Stopped \/ Signal \/ \E h \in Handlers : Handler(h)

Spec == Init /\ [][Next]_vars

\* The refresher is a running goroutine whose timer always fires and whose
\* exchange always returns; select chooses at random, so it cannot ignore a
\* context that is done for ever.  A handler runs on, its exchange returns,
\* and RLock is not overtaken by every writer.  Queries and signals may stay
\* away.
Resolves(h) == Resolved(h) \/ ResolveFails(h)
Injects(h)  == NextRecord(h) \/ CopyOut(h) \/ Injected(h) \/ WriteMsg(h)

Fairness ==
  /\ WF_vars(Refresher) /\ SF_vars(Stopped)
  /\ \A h \in Handlers :
       WF_vars(Resolves(h)) /\ SF_vars(ReadCache(h)) /\ WF_vars(Injects(h))

FairSpec == Spec /\ Fairness

-----------------------------------------------------------------------------
(* Properties.                                                             *)

TypeOK ==
  /\ writer \in BOOLEAN
  /\ ech \in Bufs \cup {NoBuf}
  /\ mem \in [Bufs -> [1..Words -> 0..MaxConfigs]]
  /\ refresher \in {"fetch", "lock", "copy", "wait", "stopped"}
  /\ incoming \in [1..Words -> 0..MaxConfigs]
  /\ copied \in 0..Words
  /\ serving \in BOOLEAN
  /\ stop \in BOOLEAN
  /\ hpc \in [Handlers -> {"idle", "resolve", "inject", "records", "write"}]
  /\ answer \in [Handlers -> Answers \cup {<<>>}]
  /\ snap \in [Handlers -> Bufs \cup {NoBuf}]
  /\ pos \in [Handlers -> Nat]
  /\ DOMAIN added = Handlers
  /\ \A h \in Handlers :
       /\ DOMAIN added[h] = DOMAIN answer[h]
       /\ \A i \in DOMAIN added[h] : added[h][i] \in Seq(0..MaxConfigs)
  /\ fetched \in 0..MaxConfigs
  /\ published \in 0..MaxConfigs
  /\ floor \in [Handlers -> 0..MaxConfigs]

\* The words h has put into its answer.
Put(h) == UNION {{added[h][i][w] : w \in DOMAIN added[h][i]}
                   : i \in DOMAIN added[h]}

\* One answer carries one configuration, and a whole one: no record gets a
\* half-written or half-zero value, and two records of an answer never get
\* different versions, although the copies run without the lock (InjectECH).
OneWholeConfig ==
  \A h \in Handlers :
    Put(h) # {} => \E n \in 1..MaxConfigs : Put(h) = {n}

\* Once a configuration is stored, no later query is answered without it: a
\* failed or empty refresh never takes it away, every bare HTTPS record gets
\* a full parameter at least as new as the one stored when the query came
\* in, and no other record gets any (fetch, InjectECH).
FreshAndComplete ==
  \A h \in Handlers : hpc[h] = "write" /\ floor[h] > 0 =>
    \A i \in DOMAIN answer[h] :
      IF answer[h][i] = "bare"
      THEN Len(added[h][i]) = Words /\ \A w \in 1..Words : added[h][i][w] >= floor[h]
      ELSE added[h][i] = <<>>

\* The cache is an atomic register to its handlers.
Register == INSTANCE ECHRegister WITH
  config <- published,
  read   <- [h \in Handlers |->
               IF hpc[h] \notin {"records", "write"} THEN NotRead
               ELSE IF snap[h] = NoBuf THEN 0 ELSE mem[snap[h]][1]],
  put    <- [h \in Handlers |-> Put(h)]
ImplementsRegister == Register!Spec

\* The refresher never dies of a failed fetch: until the signal comes it
\* tries again and again (the loop of Start).
KeepsRefreshing == []<>(refresher = "fetch" \/ stop)

\* The refresher goroutine ends after the signal, even if it was fetching or
\* its timer fires at the same moment (the select of Start).
RefresherStops == stop ~> refresher = "stopped"

\* A query that was received is answered, however often the cache is
\* rewritten meanwhile (ServeDNS).
QueryReturns == \A h \in Handlers : hpc[h] = "resolve" ~> hpc[h] = "idle"
=============================================================================
