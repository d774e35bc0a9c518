# cf-ech in TLA+

A verification project for cf-ech, a local DNS proxy that forwards queries over
DNS over QUIC (DoQ) or DNS over HTTPS (DoH) and adds Cloudflare's ECH
configuration to HTTPS records, and for `dnsspeed`, the benchmark that ships
with it (`cmd/dnsspeed`). The modules are translated from the Go sources; TLC
checks them on small instances, and TLAPS proves the main results for every
value of the constants.

## 1. The system

### Inventory

| Component | Source | State it keeps | Operations | What is hard |
|---|---|---|---|---|
| DoQ upstream | `doq.go`, `upstream.go` | `mu`, `conn`, `closed`; per exchange a stream and a goroutine beside it | `Exchange`, `query`, `connection`, `discard`, `doqExchange`, `Close` | many goroutines share one connection that any of them may find dead, replace or close; a dial holds the mutex, its name lookup does not look at the deadline, and who waits for the mutex does not see his |
| ECH cache | `ech.go` | `ech` (a slice) under an RWMutex, a refresher goroutine | `Start`, `fetch`, `InjectECH` | the slice is published before it is filled, and escapes the read lock |
| Resolver | `resolver.go` | none of its own | `ExchangeContext`, `exchange`, `Close` | primary and fallback share the message, each needs its own deadline |
| Proxy | `server.go`, `main.go` | two listeners, the signal context | `ServeDNS`, `StartServer`, `main` | order of start-up and shutdown, a signal at any moment |
| DoH upstream | `doh.go` | an `http.Client` | `Exchange`, `Close` | stateless here, the pool is in net/http |
| Worker pool | `cmd/dnsspeed/bench.go`, `main.go` | semaphore, WaitGroup, results, two mutexes, the progress counter | `RunBench`, the callback of `run` | a goroutine per target, bounded, reporting in any order, interrupted |
| Measurement | `cmd/dnsspeed/bench.go`, `doq.go` | a result, a prober with one connection | `benchmarkTarget`, `queryOnce`, the prober | three ways out; redials in the middle |
| Statistics | `cmd/dnsspeed/bench.go` | none | `computeStats`, `median`, `percentile`, `Score` | boundaries and rounding |
| Ranking, reports | `cmd/dnsspeed/bench.go`, `report.go`, `output.go`, `main.go` | none | `Rank`, `PrintRanking`, `PrintFailures`, `WriteJSON`, `WriteCSVReport`, `summarise` | five views of one order that must agree |
| DoH prober | `cmd/dnsspeed/doh.go` | an `http.Client` | `Exchange`, `Close` | stateless here; a request can fail at every step, net/http redials by itself, and `Close` closes only what is idle |
| Server lists | `cmd/dnsspeed/servers.go` | none | `LoadServers`, `BuildTargets`, `DoQURL` | de-duplication, rows without an endpoint, order of filter and limit |
| Command line | `cmd/dnsspeed/main.go` | flags | `run`, `validate`, `parseProtocols` | interruption, partial output |

### Interactions

`main` builds two upstreams, gives them to the resolver, gives the resolver to
the ECH cache, whose `Start` fetches once and then starts the refresher, and
starts a UDP and a TCP server whose handlers call the resolver and then the
cache. Every handler and the refresher call `Exchange` of the same upstreams
concurrently. After a signal `main` shuts both servers down and the deferred
`Close` of the resolver closes the upstreams; the refresher may still run.

In dnsspeed `run` calls `RunBench`, which runs `benchmarkTarget` for each
endpoint in a goroutine of its own; each has its own prober, so the only shared
state is that of the pool. `Rank` and the reports run after it, sequentially.

### What makes each component correct

- DoQ upstream: no connection leaks, `Close` is final, one broken connection
  does not fail a query, nobody closes a connection that others use, every
  exchange and `Close` return, and no call outlasts its timeout without bound,
  as far as the program has a say in it (name lookups have their own limits).
- An exchange on a stream: an answer is accepted whole or not at all, and a failed
  exchange does not leave the stream open. (A successful one may, see section 5.)
- ECH cache: an answer gets one whole configuration, never an older one than
  was stored when its query came in, and keeps getting one when refreshes fail;
  the refresher never dies by itself and stops on the signal.
- Resolver and proxy: a reply carries the ID of its query; a query fails only if
  every upstream failed it; accepted queries are answered before the upstreams
  are closed; the process ends after a signal.
- Worker pool: the bound on concurrency, complete results at the right index,
  a gapless progress count, termination.
- Measurement: the counters of a result agree; the DoQ prober leaves no connection
  open, the DoH prober only what net/http is still busy with; the measurement of a
  silent server ends.
- Server lists: exactly the endpoints that were asked for, in order; nothing but a
  DoQ endpoint twice.
- Statistics, ranking, reports: textbook median and nearest-rank P95, a stable
  order, and the same number for an endpoint in every report.

`PROJECT.json` lists the hazards behind these, line by line, with the
properties that cover them.

## 2. Modules

| Module | Kind | Uses |
|---|---|---|
| `Upstream` | abstract: what an upstream promises | |
| `DoQUpstream` | `doq.go` in detail, `doqExchange` as an outcome | implements `Upstream` |
| `DoQDeadline` | the same with a clock and the queue of `sync.Mutex` | extends and implements `DoQUpstream` |
| `DoQStream` | one `doqExchange`: the caller, the helper goroutine, the server | |
| `ECHRegister` | abstract: an atomic register | |
| `ECHCache` | `ech.go` in detail, with the handlers | implements `ECHRegister` |
| `Resolver` | `resolver.go`, upstreams reduced to outcomes | |
| `Proxy` | `main.go`, `server.go` | composes `Resolver` with servers, handlers, refresher and shutdown |
| `RunBench` | the worker pool and the progress callback | |
| `Benchmark` | the measurement of one endpoint, exchanges as outcomes | |
| `Prober` | the same with both probers step by step | composes `Benchmark` with `DoQStream`, implements `Benchmark` |
| `Stats` | pure operators: `computeStats` and what it calls | |
| `Targets` | pure operators: the choice of the endpoints | |
| `Ranking` | `Rank` and the reports | extends `Stats` |
| `MCDoQUpstream`, `MCECHCache`, `MCProxy`, `MCRunBench`, `MCStats`, `MCTargets`, `MCRanking` | values and symmetry for TLC; `MCStats` and `MCTargets` hold the reference definitions | |
| `DoQUpstreamProofs`, `ECHCacheProofs`, `RunBenchProofs`, `ProxyProofs`, `ProberProofs`, `StatsProofs`, `TargetsProofs`, `RankingProofs` | theorems and proofs: those of `DoQDeadline` are in `DoQUpstreamProofs`, those of `Benchmark` in `ProberProofs` | |

Beside some definitions stands a variant of it (`LimitFirst` beside `Plan`, and so
on): what the definition would be with a plausible bug in that line. `PROJECT.json`
("mutants") pairs each with the property that must fail when it is used. No
specification refers to them.

### DoQUpstream

`mu`, `conn`, `closed` are the fields of the struct; `link[k]` says whether
connection `k` exists and whether its context is done. A call has a program
counter: `connection` (waiting for the mutex), `dial` (in `quic.DialAddr` with the
mutex held), `exchange` (in `doqExchange`), `failed`, `discard`, `hangup`, and
`judge` (the `if` of `Exchange` that decides on the retry). A critical section that
cannot block is one action guarded by the mutex being free. `doqExchange` ends
in one of four outcomes: an answer, a fault of the stream, the loss of the
connection, or cancellation by the context. `LinkDies` and `Expire` are the network
and the clock, enabled at any moment. `faults` is a history variable that counts
the network faults a call has met.

`Upstream` sees each call as idle, pending, ok or err, and the set of live
connections. `ImplementsUpstream` is the refinement: at most one connection at a
time, no answer without one, none established after `Close`, one result per call.

### DoQDeadline

A call that sleeps in `d.mu.Lock()` does not look at its context, and the mutex is
held for a whole dial: how long a call can take depends on who gets the mutex when.
`DoQDeadline` therefore adds to every step of `DoQUpstream` what Go's `sync.Mutex`
does (external, modelled from its documented rules): `queue` is the FIFO queue of
sleeping goroutines, a newcomer may `Overtake` it, and after a waiter that has slept
for long (`aged`) was overtaken the mutex is `"starving"` and is handed over in order
(`Handover`). `left[c]` is what is left of the timeout of a call. `Tick` is possible
only when nobody has anything else to do: `Blocked` names the places where a call lets
time pass. A handshake and an exchange do not outlive the context. Two things do: a wait
for the mutex, and the lookup of the host, which `quic.DialAddr` (`doq.go:171`) makes
before the handshake with `net.ResolveUDPAddr`, a function without a context; the default
upstream is a host name (`main.go:15`). A dial therefore lets time pass whether or not its
context is done, and may fail at any moment; it can succeed only before the deadline,
because a handshake takes time. `slow[c]` is a history variable: the ticks in which `c`
waited for a lookup whose context was done (`HeldUp`), its own or that of the call that
holds the mutex. `Due(c)`, which is `left[c] + slow[c]`, is what `c` would have left
without them.

### DoQStream

`at` is the line of `doqExchange` (the same code in `doq.go` and in
`cmd/dnsspeed/doq.go`), `helper` the goroutine that waits for `ctx` or `stop`; `tx` and
`rx` are the directions of the stream, `arrived` and `got` count the bytes of the
answer, of which the first two are the length. `ReadFull` is `io.ReadFull`, with a
`Read` that returns any part of what is there. `select` with both channels ready is two
enabled actions. The server's steps are not fair: it can stop anywhere.

### ECHCache

Memory is explicit: a slice is a buffer, `make` returns a zeroed buffer nothing
refers to, and both `copy` calls move one word per step, so torn reads are
representable. `LockAndMake`, `CopyIn`, `Unlock` are the write section;
`ReadCache` is the read section (one assignment), `CopyOut` runs without the lock.
`NextRecord` walks the answer section. `floor[h]` remembers what had been stored
when `h` received its query, for `FreshAndComplete`.

`ECHRegister` has a number as its state, read once per answer.

### Resolver and Proxy

`Resolver` follows one message through `ExchangeContext`: `msgId` is the ID in the
shared message, `origId` what the upstream has saved, `blame` the upstreams that
failed the caller by a fault or a deadline of their own. A DoQ upstream that has
been closed gives up (`DoQUpstream` says why); a DoH upstream goes on working.
`Proxy` adds the main goroutine step by step, both `dns.Server`s, the handlers and
the refresher. `dns.Server` is external and modelled by its contract: `Shutdown`
of a server that has not started is an error (which `main` ignores); otherwise new
queries are refused and `Shutdown` returns when the running handlers have. `missed`
remembers the servers that were shut down before they had started; they may start
afterwards.

### RunBench, Benchmark, Prober

`RunBench` has one step per shared access: `wg.Add`, the send on the semaphore,
both mutexes, the store, the read and the write of the progress counter, and the
deferred calls in their order. `benchmarkTarget` is one step with the outcome full,
cut (by an interrupt) or failed. `Benchmark` is that function in detail. A duration
there is what it includes: a dial or only the query. `Close` is that of either prober:
the DoQ prober closes its connection (`CloseConn`), the DoH prober asks net/http to close
idle ones, which skips one that is still busy with an earlier query (`SkipBusy`); `gaveUp`
remembers such a query, and `LateDial` is a dial that net/http finishes for it, if need be
after `Close`. `Prober` replaces the outcome of
an exchange by its steps: those of `DoQStream`, or request, response and body of the
DoH prober; `GivesUp` says when net/http may not be through with a query: when that has
failed or its context is done, over DoH only. Each query has a context that `queryOnce` makes and cancels
(`Query`, `Cancels`); it ends at the timeout or with the interrupt (`Expire`). The
helper of an exchange may still run while the next query begins; it is forgotten when
the next exchange does, because it touches nothing but its own stream.

### Stats, Targets, Ranking

`Stats` is a set of operators over sequences of integers; `MCStats` holds sample
sequences and definitions of median and quantile that count instead of sorting.
`Targets` is the first half of `run`: rows of the list are records of what the code
asks of them, a URL is its host, its path and whether it is written in capitals
(`DoQURL` keeps that, `Key` does not).
`MCTargets` defines the same endpoints without an order of evaluation: which rows are
kept, which pairs of row and protocol are asked for, and how many come before each.
`Ranking` is the second half: one action per report. Its statistics are computed
by `Stats` from samples, so no impossible combination of columns is ranked.
The loops of these three are recursive functions and folds with a named step
(`Place`, `AddPart`, `AddServer`, `AddTarget`, ...), the two sorts one insertion sort
(`SortBy`) under two orders: both are what the proofs need.

## 3. Runs

| Run | Instance | States | Shows |
|---|---|---|---|
| `doq_safety` | 3 calls, 2 dials, `Close`; symmetric | 664,000 | types, no leak, `Close` is final, a failure takes two faults, shared connections survive, refinement of `Upstream` |
| `doq_time` | 2 calls, 1 dial, `Close`, timeout of 1 tick, lookups that outlast it by up to 1, fair | 191,000 | exchanges and `Close` return, and how late at most, such lookups excluded |
| `doq_retry` | 1 call, 2 dials | | *violated*: a retry uses a new connection |
| `doq_deadline` | as `doq_time`, but no lookup outlasts its context | | *violated*: the timeout bounds an exchange |
| `ech` | 2 handlers, 2 buffers, 2 configurations of 2 words, 2 answers, fair | 97,000 | types, one whole, current configuration per answer, refinement of the register; the refresher goes on, stops, and never blocks a query |
| `pool` | 3 targets, `-concurrency` 1, 2, 4, an interrupt, fair | 41,000 | bound, complete results, progress, `RunBench` returns |
| `proxy_safety` | 2 handlers, 2 IDs, DoQ primary, DoH fallback; symmetric | 2,400,000 | types, IDs, drain before close, a failure needs both upstreams |
| `proxy_live` | 1 handler, fair | 26,000 | the process ends after a signal, queries are replied to |
| `proxy_bind` | 1 handler, fair | | *violated*: a bind failure ends the process |
| `bench` | `-count` 2, lengths 0 and 1, DoQ and DoH, fair | 138,000 | types, counters, DoQ connections closed, answers whole, streams of failed exchanges released, the measurement ends |
| `ranking` | 3 endpoints, 5 keys, `-top` 0 to 2; up to 22 samples; lists of up to 3 rows | 242,000 | the endpoints asked for; stable order, reports agree; median, P95, consistent columns |
| `ranking_heading` | the same | | *violated*: the heading counts successes |

### Bounds

- Three calls are the least with which one call can wait for the mutex while
  another dials and a third discards; two dials the least with which an old and a
  new connection coexist; when they are used up every further dial fails. A call is
  made once; one that has returned has no state left, so a further call is as good
  as a new one. The proofs cover any number of calls and dials.
- In `doq_time` one call can wait for the dial of another and `Close` for both, and a
  newcomer can overtake a waiter that is aged. With `MaxSlow` 1 a lookup goes on for a
  whole timeout after its context is done, with and without somebody waiting for it;
  a second tick repeats the first. Three calls and one dial without such lookups (1.8
  million states, too long for a regular run) were checked once: there a call is overdue
  by two timeouts. The four timeouts of `OverrunBounded` are proved, for every `MaxSlow`.
- Two handlers and two configurations: one handler may keep the slice of the first
  while it is replaced by the second and another handler reads that. `make` needs a
  fresh buffer per configuration. Two words are the least that can tear. The answers
  have an empty and a full ECH parameter, and two bare records, one of them behind a
  record of another type.
- Two handlers can use both servers at once; two IDs can be confused. The refresher
  is a third caller of the resolver.
- Three targets and a pool of two give workers that run, wait, and have ended at
  once; in a pool of 4 nobody waits. Lower values than 1 are rejected by `validate`.
- Two timed queries let the connection be lost and redialled between any two of the
  three. The lengths 0 and 1 are the one the code rejects and the least it accepts; an
  answer of three bytes can arrive and be read in pieces, inside the length and
  between length and body.
- 20 samples are the least with a P95 below the maximum; 22 pass that point for odd
  and even numbers. All sequences of up to 5 samples are checked, and longer ones in
  which every m-th sample differs from the others. The arithmetic of `ceil(0.95 n)`
  was compared with Go's double-precision result separately: equal for all n below
  two million.
- Three rows: a repeated one behind a kept and behind a skipped one. The kinds of row
  are two spellings and two paths of one host, an IP address, a server without DoQ, a
  comment and a row without URL; the options repeat protocols and name unknown ones.
- Three endpoints have ties, a failure between two successes, and a `-top` below
  the number of rows; statistics of one or two samples out of three durations
  order two endpoints differently under different keys. `sort.SliceStable` is an
  insertion sort for up to 20 elements, and stable by contract above.

The deadlock check is on in every run. Each specification has a stuttering step for
its regular end (`Terminated`, `Exited`, `Returned`), so a deadlock elsewhere is
reported. Symmetry is used only in `doq_safety` and `proxy_safety`, whose properties are
safety and name no handler, call or connection; in `proxy_safety` the handlers alone
are symmetric.

### Fairness

- Goroutines run on (weak fairness on their steps) and timers fire. `DoQDeadline` and
  `Prober` assume nothing else: what the mutex promises follows there from its rules,
  and time passes (`Tick`) when nobody can do anything.
- In `RunBench` and `ECHCache`: `sync.Mutex` passes a starving waiter the lock, and
  RWMutex lets readers that wait go before the next writer: strong fairness on each
  acquisition.
- A dial returns: quic-go bounds the handshake by the context, and net's resolver,
  which does not know of the context, gives up by its own timeouts (how long after, is
  left open: any `MaxSlow`). A context expires; this is the `-timeout` of `main`, which is positive by default. With `-timeout 0` the resolver sets
  no deadline, and neither `ExchangeReturns`, `QueryReplied` nor `SignalEndsProcess`
  is claimed for it.
- `select` picks at random among ready cases: strong fairness on the refresher's
  stop.
- Nothing is assumed of servers, clients or the user: no answer, query or signal
  need ever come. `KeepsRefreshing` needs only that the timer fires and an
  exchange returns.

## 4. Proofs

TLAPS proves the safety results for every value of the constants; only the
assumptions named in the modules are used (a special value is not an ordinary one,
`N`, `Count`, `MaxConfigs`, `MaxSize`, `MaxSlow` are naturals, `Words` and `Timeout` are positive,
`HasFallback` is a Boolean). Each module has an inductive invariant (`Inv`, `IInv`,
`TimedInv`, `StreamInv`) with three facts: `Init` implies it, every step keeps it, and it
implies the properties. TLC found the properties to hold before they were proved.

| Module | Proved | Why the property alone is not inductive, and what is added |
|---|---|---|
| `DoQUpstreamProofs` | `TypeOK`, `NoConnectionLeak`, `ClosedForGood`, `FailureNeedsTwoFaults`, `SharedLinkSurvives`, `ImplementsUpstream` | A finished dial overwrites `conn`, which leaks the old connection unless that is dead: `MutexInv` and `DialInv` say that whoever dials holds the mutex and that the cached connection has been unusable since. `LinkInv`: only dead connections are discarded. `CloseInv`: a set `closed` flag means an empty cache and no dial. `CountInv` and `BlameInv` relate attempts and faults from above and below, at each place of the program. |
| `DoQUpstreamProofs`, of `DoQDeadline` | `OverrunBounded`, `TimedTypeOK`, `TimedSpec => Spec` (so all of the above holds in time) | Time passes for a waiter only during a dial, and a dial ends with the deadline of who dials, unless a lookup goes on; that time is counted in `slow`, for the dialler and for those that wait, so the argument is about `Due` and not `left`. `WaitInv` compares a waiter's `Due` with the holder's and with those ahead in the queue: they tick together or are held up together, so a difference fixed when the waiter fell asleep stays. `QueueInv` (the aged come first) and `mode` say that after one overtaking of an aged waiter no second one is possible. `ClockInv` gives the bounds by place: -2 timeouts until the connection is there, -4 after a `discard`. |
| `ECHCacheProofs` | `TypeOK`, `OneWholeConfig`, `FreshAndComplete`, `ImplementsRegister` | The answer is whole because the slice is: `WriteInv` says that the buffer being written is in no handler's hands and that the cache holds a whole configuration whenever the lock is free, `SnapInv` that a slice a handler has taken is whole and recent enough, `WordInv` and `PosInv` carry that to the words and records of the answer. |
| `ProxyProofs` | `TypeOK`, `ReplyMatchesQuery`, `DrainedBeforeClose`, `FailureNeedsEveryUpstream` | `IdInv`: message and upstream hold the ID that was sent, before and after every attempt. `ActiveInv` and `DrainInv`: a query is in the hands of a server that is up, and main passes a server only when that is down or had not started. `BlameInv`: who is to blame for the attempts so far. |
| `RunBenchProofs` | `TypeOK`, `BoundedProbes`, `ResultsComplete`, `ProgressCounts` | A counting argument: the semaphore, the WaitGroup, the progress counter and the number of printed lines are each the size of a set of workers given by their places (`CountInv`, `ProgressInv`), so a move of one worker changes each by one exactly when it crosses the border of that set (`SizeMoves`). `StartInv`: workers are born in order with their own index; `LockInv`: a mutex is held by the one worker in its section. |
| `ProberProofs`, of `Benchmark` | `TypeOK`, `CountersAgree`, `HandshakeIncluded`, `ClosedUnlessGivenUp` | `Counted`, `Erred`: while a query is under way it is the one attempt not counted yet. `Finished` carries that over the deferred `Close`. `FirstDials`: the first query found no connection. |
| `ProberProofs`, of `Prober` | `ProberTypeOK`, `AnswersAreWhole`, `FailedStreamsReleased`, `CountersAgree`, `NothingLeftOpen`, `ProberSpec => Spec` of `Benchmark` (so its theorems hold of the detailed probers) | `ReadSoFar`: how many bytes were read, by place; `HasStream`: a helper has a stream; `Releases`: a receiving side that is open after an error is about to be cancelled by the helper, or the server refused the query. `gaveUp` stays "no" with the DoQ prober. |
| `RankingProofs` | `RankIsStable`, `ReportsAgree`; of `MCStats` and `MCTargets`: `MedianIsMiddle`, `P95IsNearestRank`, `StatsConsistent`, `PlanIsComplete`, `OnlyDoQRepeats` | `IInv`: the results are numbered by endpoint, `ranked` is a stable permutation of them (`IsRanking`), and what each report printed is determined by `ranked` and `-top` (`TableOf`, `FailuresOf`, `ReportOf`). The last five are about operators, not steps: they are the lemmas of the next section for the values that `MCRanking` enumerates. |

### Loops

`Stats`, `Targets` and `Ranking` are mostly loops, and what a loop computes needs
induction. The library's induction theorems take a predicate as a parameter and the
provers cannot supply one, so the proofs say the same of sets:

- `NatSetInduction`: a set with 0 and the successors of its members holds every natural.
  It follows from the library's theorem that a well-founded relation has minimal
  elements in every non-empty set (`NatLessThanWellFounded`, `WFMin`). The "property" is
  then the set of the numbers that have it.
- A recursive function is defined by `CHOOSE`, so that it exists must be shown before
  anything is known of it: `RecursionExists`, and `FoldExists` for the function under
  `FoldLeft`, which recurs over sets of indices. `FoldRecursion` turns a fold into a
  recursion along the sequence, and the lemmas `...IsRecursive` do so for each fold of
  `Targets`.
- The order of a sort, a parameter of `SortBy`, becomes a relation: `WeakOrder` says what
  a `less` function must satisfy, `StableSort` what the sort then returns.
- Lemmas take what they assume of a loop as one defined predicate (`Recursion`, `Fold`,
  `Enumerates`), so that the solver does not instantiate its quantifiers at will.

`StatsProofs`: one round of the insertion sort keeps a sorted, stable permutation
(`RoundSorts`), hence `Sorted` and `Rank` return one. In a sorted sequence the elements
up to place k are at most the k-th (`AtMostByRank`), which turns the counting definitions of
median and quantile into the indexing of the code (`MedianMiddle`, `P95Quantile`). The sums
equal those of the reference (`TotalIsSum`), the integer root exists and is bounded by the
spread of the samples (`RootExists`, `DeviationBounds`), and so the columns of a row agree
(`StatsOfSamples`).

`TargetsProofs`: every list the code builds is a `Listing`, the elements of a set in an order,
each once. `ListingGrows` appends the next element. By it `LoadServers` lists the kept rows,
`BuildTargets` the pairs of a kept row and a protocol asked for, `filterTargets` those that
match, and a limit cuts the end off (`ListingIsPlan`). `PlanOfLists` states the result for lists
of any length with any URLs, not just those TLC tries, and `ListingRepeatsDoQ` that equal
endpoints come from two DoH URLs of one host.

`RankingProofs`: a stable sort under this order puts successes first (`RankingOrdered`), so
`RankNumber` counts places (`RanksArePlaces`) and the lists of successes and of failures are two
segments of `ranked` (`WithOutcomeIsSegment`), from which the reports are compared.

TLC also checked `IInv` as an invariant, on a smaller instance of `ranking` (52,000 states).

### Only model-checked

Every invariant and every action or refinement property of a run is stated by a theorem.
Left to TLC is liveness: `ExchangeReturns`, `CloseReturns`, `KeepsRefreshing`,
`RefresherStops`, `QueryReturns`, `Returns`, `SignalEndsProcess`, `QueryReplied` and
`MeasurementEnds` rest on fairness and `ENABLED`, which the provers do not handle. So does
the absence of deadlock. `HandshakeIncluded` is proved and in no run; `ClosedUnlessGivenUp` is
checked as a part of `NothingLeftOpen`.

## 5. Divergences between the code and what it says

Each of the first four has a run in which TLC finds the disagreement
(`PROJECT.json`, "findings").

- `doq_retry`: the README promises a retry on a new connection; the
  second attempt uses whatever is cached, which is the same connection when only
  the stream failed, or one that another call has dialled.
- `doq_deadline`: `upstream.go:30` says that the timeout bounds an exchange. It is not
  even passed to the DoQ upstream; the resolver's context bounds the exchange there, but
  not the wait for a mutex that another call holds during its dial. `OverrunBounded`
  says how late a call can be, apart from name lookups.
- `proxy_bind`: `main` ends the process if `StartServer` fails, but `StartServer`
  never returns an error.
- `ranking_heading`: with `-top` the heading counts the rows shown, not the
  endpoints that were successful.

Seen while the code was modelled, without a run of their own:

- The comment of `benchmarkTarget` (`bench.go:101`) puts all timed queries on the
  connection of the first one. The prober redials when that is lost (`doq.go:158`), so
  a sample can include a handshake; `Benchmark` has such samples (`took = "dial"`).
- The rate of an endpoint is out of `-count` + 1: the handshake query is an attempt
  and never a success (`bench.go:114`, `report.go:77`); the example in the README
  shows rates out of `-count`.
- After an interrupt `run` announces that only finished results are shown
  (`main.go:252`), but endpoints that were cut off are ranked with the others
  (outcome `cut` of `RunBench`).
- The comment of `PrintRanking` (`report.go:45`) scales the bars by the fastest
  endpoint; with another key than the median the first row need not be that.
- `quic.DialAddr` looks the host up without the context while the mutex is held
  (`doq.go:171`). With a resolver that is down every call waits for that lookup, past its
  own deadline; and as `connection` does not look at its context after `Lock`, the next
  one that gets the mutex looks the host up again although it is overdue, so n waiting
  calls can wait for n lookups one after the other. `OverrunBounded` gives that time back
  to a call (`slow`) and bounds the rest only.
- A stream can stay open until its connection ends, in two cases. When the server refuses
  to read the query (STOP_SENDING), `doqExchange` returns without cancelling the receiving
  side (`doq.go:218`, `cmd/dnsspeed/doq.go:208`). And when it succeeds (`doq.go:251`,
  `cmd/dnsspeed/doq.go:241`), it has not read on to the end of the stream, which the
  server may not have sent yet. Either way the goroutine beside the stream may see `stop`
  first and cancel nothing. `FailedStreamsReleased` speaks of the other failures only.
- `Close` of the DoH prober (`cmd/dnsspeed/doh.go:68-73`) closes the connections that are
  idle at that moment. One on which net/http still cleans up the stream of a query that
  failed or timed out, or whose dial is still under way, stays open until net/http drops
  it (`IdleConnTimeout`, 90 s), during the measurement of other endpoints. `NothingLeftOpen`
  says that nothing else is left open.
- De-duplication lower-cases the whole URL (`servers.go:156`), so of two rows that differ
  only in the case of the path, which is significant in a URL, the second is dropped;
  and several DoH URLs of one host give one DoQ endpoint that is measured as often
  (`OnlyDoQRepeats` says that nothing else repeats).
- The README names another default for `-upstream` than `main.go:15`.

## 6. Not modelled

- The HTTP client, `dns.Server`, quic-go, `sync.Mutex`, name lookups, packing of DNS
  messages: libraries, modelled by their contract where the code relies on it. Of the DoH upstream
  the resolver's attempt is all there is: its pool and its time limit are those of
  net/http. Of the DoH prober's pool `Benchmark` has one connection, open or not, also
  when over HTTP/1.1 a late dial adds a second.
- How long a name lookup takes: it may outlast its context by any number of ticks, but
  for the bound `MaxSlow`.
- Layout of the reports (column widths, padding, truncation, bars, units), logging,
  flag parsing and validation: no state, one check after the other.
- The search for the server list, the CSV decoder, the header and the splitting of a cell:
  input only; `Targets` begins with rows.
- Durations outside `DoQDeadline`. Timers and deadlines fire at any moment elsewhere,
  which covers every order of events; not how often a refresher wakes up whose
  `-refresh` is not larger than its jitter.
- `-timeout 0`: no liveness is claimed for it (see Fairness).

## 7. Plan

The modules of section 2 and the theorems of section 4 are done. What is left, and why it
has waited:

1. A composition of `Proxy` with `DoQUpstream` in place of the outcomes of an attempt. The
   two meet only in an upstream's interface, of which `Resolver` takes every outcome; the
   product is too large for TLC beyond one handler.
2. `DoQStream` under `DoQUpstream`, as `Prober` does it for the probers: the code of the
   exchange is the same, and several exchanges share nothing but the connection.
3. Absence of deadlock for every value of the constants: an invariant that names, for every
   state in which somebody waits, who can step, in place of `ENABLED`. The invariants of
   section 4 say who holds each mutex and the semaphore, which is most of it.
