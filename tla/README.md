# Vahak in TLA+

Vahak captures webhooks over HTTP, stores them and delivers them to a target
until the target answers 2xx or the attempts are used up. This directory models
the part of it where something can go wrong that a test would hardly find: the
acknowledgment of a request, the queue and its workers, the rows and leases
behind them, the circuit breaker, the endpoint cache, the retention cleaner, the
script machines and the websocket hub.

`PROJECT.json` lists the components, the runs, the correspondence of every
definition with its source lines, the hazards, the mutants and the theorems.

## The system

| part | state | operations | talks to |
|---|---|---|---|
| Capture handler (`api/handler.go`) | endpoint cache, pool of result channels | `CaptureWebhook` | ingest channel (send), result channel (receive), job queue (push), hub |
| Endpoint management (`api/handler.go`) | `endpoints` rows, endpoint cache | create, update, delete, replay | store |
| Batch ingester (`store/*.go`) | the batch in hand | `batchWorker`, `flushBatch` | ingest channel, `requests` and `delivery_jobs`, result channels |
| Job queue (`queue/queue.go`) | a buffered channel | `Push` | handlers, sweeper, workers |
| Forwarder (`forwarder/forwarder.go`) | `processing`, `deliveredCh`, collected ids | 100 workers, sweeper, flusher, `processJob` | queue, store, breaker, targets |
| Circuit breaker (`forwarder/circuit.go`) | per URL: state, failures, trips, last failure | `Allow`, `RecordSuccess`, `RecordFailure` | `processJob` |
| Store (`store/sqlite.go`, `store/store.go`) | four kinds of row: endpoint, request, job, none of them cached | claim, mark, save, prune, ... | everybody |
| Transformer (`transformer.go`) | pooled JavaScript machines | `Transform` | `processJob` |
| Hub (`api/ws.go`) | connections per endpoint | register, unregister, `Broadcast` | handlers, browsers |
| Main (`cmd/server/main.go`) | context, wait group | start, shutdown | everybody |

A request takes this way: handler -> ingest channel -> batch (one transaction) ->
result channel -> handler -> job queue and 200 OK -> worker -> target -> flusher.
In fast mode the handler pushes and answers right after the ingest channel, and a
job gets a row only when its first call fails. The sweeper closes the loop: it
leases pending rows whose date has passed and hands copies of them to the workers.

What is hard here:

- **Copies.** A job exists as a row and as any number of copies in memory, each
  with the attempt count it was made with. Copies are made by handlers and by
  leases that expire; each of them overwrites the row when it is done.
- **Two modes.** Fast mode has no row until a call fails, so what durable mode
  repairs by sweeping is gone in fast mode.
- **Reused channels.** Result channels come from a `sync.Pool` and a handler may
  leave before its item was notified.
- **One context.** Everything in the background, the last flush included, uses the
  context that the shutdown cancels.
- **Batches.** A transaction has many requests in it; one bad one fails them all.
- **Late results.** A call may report to a breaker that has changed state since.
- **Read, then write.** Handlers read a row and write it, or cache it, later; nothing
  excludes the others meanwhile.
- **Statements that overlap.** The cleaner's `DELETE` and a replay's `INSERT` meet in
  the database, which promises less than one would like.
- **Late timers and late writers.** A timer's callback reaches a machine somebody else
  uses by now; a goroutine still writes to a connection when the next one begins.

What makes each part correct: a handler that answers 200 has its request stored
and one that answers 500 has not; every waiting handler is woken; a shutdown ends
and drains; nothing acknowledged is forgotten; a job is given up only after the
calls were really made, and every job is settled in the end; one goroutine works on
a job; one probe runs against a broken target and none before its cooldown is over;
the cache shows no deleted endpoint for long; retention takes no pending job's
request; a connection has one writer.

## Modules

- **`Circuit`** is the breaker of one target with the goroutines that use it. Time
  is counted in ticks; `sinceFailure` is `clockNow().Sub(cb.lastFailure)`, `age[w]`
  how long the call of `w` has been running, `quiet` a history variable. A mutex
  makes each method one step; the call between two of them is not. `Cooldown` is
  a closed form of the doubling loop; `MCCircuit` compares it with the loop.
- **`Ingest`** is the way from the enqueue to the answer. `pc[h]` is where a handler
  is in `CaptureWebhook`, `ch[h]` its item's result channel, `cell[c]` what the
  channel holds, `pool` and `fresh` what `resultPool.Get` may return. `wpc` is where
  the worker is: at its `select`, draining the channel into `batch`, flushing,
  notifying one item after the other, stopped. `final` tells the drain after
  `ctx.Done` from the others, in which SQLite takes less at a time (`FinalMax`).
  `sunk` is a history variable: what a failed batch or the end of the last drain
  left behind. A batch is one atomic transaction that respects the
  foreign key, fails when its context is cancelled, and may fail otherwise, also
  with its effects committed.
- **`Delivery`** is what happens to a stored job: `row[j]` and `stage[j]` are the
  database, `queue`, `claimed`, `doneCh`, `ids` and the goroutines' `pc` and `copy`
  are memory that `Restart` clears. `processJob` is cut wherever another goroutine
  can get in between: `Begin` (the `LoadOrStore`), `Load`, `Gate` (the breaker),
  `Send`, `Mark`, `Save`, `Release`. Dates are abstracted to due or not due, and
  `ComeDue` may happen at any time, so every lease may expire at any time. A store
  call may fail, and always fails once the context is cancelled. A claim may hand out
  only some of the rows it has leased, and on Postgres it may pass by a row that
  another statement holds (`Locked`). `forgotten` is a history variable: the fast-mode
  jobs without a row whose copy was lost.
- **`AtLeastOnce`** is the contract of delivery without queues, copies or crashes: a
  job is owed, failed or received, and never forgotten. Durable mode acknowledges and
  attempts only what is in the store's books; fast mode may be early with both, and
  what binds it is the rest.
- **`Acknowledgment`** is the contract with the sender, without channels, batches or
  workers: which answer may be given when, and which requests a transaction may still
  take. `doubt` (a sender hung up) and `unsure` (a transaction's outcome is unknown) are
  the two things that may make an answer wrong. `Ingest` and `Delivery` both implement
  it, in both modes.
- **`EndpointCache`** is one endpoint: its `row`, its entry in `epCache` (`cached`, and
  `cachedFor`, the ticks since `cachedAt`), and the handlers that use them, each with
  the version it has in hand and how long it has had it. A capture is `Hit`, or `Miss`,
  `Evict`, `Read`, `Fill`; a PUT is `ReadExisting`, `UpdateRow`, `ReRead`, `Refresh`,
  and leaves early in `Refuse`; a DELETE is `DeleteRow`, `Uncache`. A version is the
  number of the write that made it. `gone`, `worst`, `latest`, `overlapped` and
  `disturbed` are history variables for the properties.
- **`Retention`** is the tables as foreign keys and cascades see them: which requests
  and jobs have rows, of which status, and which are older than the cutoff (`old`).
  `PruneExpired` is two statements; on SQLite each is atomic, on Postgres the first
  decides what to delete when it begins (`victims`) and deletes it later. Against it
  run captures, `ReplayRequest` call by call, the workers' writes (SQLite deletes a
  delivered job's row, Postgres keeps it) and `DeleteEndpoint`.
- **`Transformer`** is `Transform` from `vmPool.Get` to `vmPool.Put`: `payload[v]`,
  `transform[v]` (a global function a script left behind, which still reaches the
  payload of the call it was made in), `kept[v]` (the payloads in reach of other globals
  that scripts left) and `interrupt[v]` are the machine, `timer[t]` is what
  `time.AfterFunc` started. Constants say of each script whether it declares or assigns
  `transform`, saves or uses other globals, is slow or never ends; a result may be made
  of any payload its code can reach (`Reach`). `Expire` and `Interrupt` are two steps,
  because `Stop` does not wait for a callback that has begun.
- **`Hub`** is `ServeWS` and `Broadcast`: `clients` is the map, `pc[c]` a connection's
  handler, `write[c][m]` the goroutine that writes message `m` to it, `peer[c]` what
  the dashboard does. `flag` is the library's mark that somebody writes, which is not
  synchronised: a second writer panics when it begins, or slips by, and then one of the
  two panics when it ends and finds its mark gone. A panic is `crashed`, the end of the
  process.
- **`Backoff`** is the retry schedule, pure arithmetic; `MCDelivery` compares the loop
  with capped powers.
- **`CircuitProofs`, `IngestProofs`, `DeliveryProofs`, `DeliveryRefines`,
  `EndpointCacheProofs`, `RetentionProofs`, `HubProofs`, `TransformerProofs`** hold the
  theorems, the modules whose names begin with **`MC`** the instances for TLC.

The modules meet where one's step is another's assumption. `Delivery` takes the batch
as one step that stores a job or loses it, and the handler's answer as following the
commit (`Committed`). `Acknowledgment` is the seam: `Ingest` implements it with handlers,
channels and the batch worker, and `Delivery`, which has none of them, stays within it
with `doubt` always false (`Sender` in `ImplementsContract`). So the answers that
`Delivery` starts from are those `Ingest` gives as long as nobody hung up; what
`Delivery` says of acknowledged jobs does not cover the answers of a reused channel
(see below). `Retention` takes from `Delivery` which
statements a worker may end a job with, and lets copies come as late as they like;
`Hub` takes broadcasts from captures in any order and number, as `Ingest` gives them.

Each property of a passing run has a mutant: a definition next to the one it replaces, named in the
comment above it, that changes it as a plausible mistake would and breaks the
property.

## Runs

| run | instance | shows |
|---|---|---|
| `Circuit` | 3 workers, the code's numbers in ticks of 10s | types with `CountersAgree`, `SingleProbe`, `ProbeAfterSilence`, `Recovers` |
| `IngestDurable` | 4 handlers, 2 endpoints, channel and batch of 2, 1 hang-up, 1 fault, deletion, shutdown | types, `AckedIsCommitted`, `RefusedIsNotStored`, `NobodyStranded`, `ImplementsAcknowledgment` |
| `IngestLive` | 3 handlers, channel of 1, 1 hang-up, 1 fault, shutdown | `EveryWaiterAnswered`, `StopEnds` |
| `IngestFast` | 4 handlers, 2 endpoints, fast mode, channel of 1, 1 fault, deletion, shutdown | `AckedIsStored` |
| `IngestHangUp` | 2 handlers, 1 hang-up | violates `AckImpliesCommitted` |
| `DeliveryCopies` | 1 job, 3 goroutines, queues of 1, 2 disturbances, SQLite | types, `NoAckedLoss`, `GivenUpHonestly`, `OneAtATime`, `ImplementsContract` (`AtLeastOnce` and `Acknowledgment`) |
| `DeliveryLive` | 1 job, 2 goroutines, 1 disturbance | `EventuallySettled`, `Quiesces` |
| `DeliveryFast` | fast mode, 2 jobs, 1 goroutine, claims and flushes of 2, 1 disturbance, Postgres | `FastLossKnown`, `ImplementsContract`, `Quiesces` |
| `EndpointCache` | 1 capture handler that comes again and again, 2 editors, 3 versions, the minute as 2 ticks, 1 tick of lag | types, `StaleBound`, `SequentialExact`, `EditsKept`, `DeletedIsRefused` |
| `Retention` | either store, 1 request, 2 jobs, 2 copies, 1 replay, 1 failing statement | types, `AcceptedKept`, `ExpiredIsPruned` |
| `Hub` | 2 dashboards on one endpoint, 2 messages about it and 1 about another | types, `WatchersExact`, `DiesByOverlap`, `EveryWatcherServed`, `ClosedIsCleanedUp` |
| `Transformer` | 2 machines, 5 calls: one endless that saves its payload, one slow that assigns a function, one quick that uses what it finds, one with a bad payload, one with a bad script | types, `OwnResult`, `FairInterrupts`, `GuardStands`, `EveryCallEnds` |

Every run of `MCDelivery` evaluates `BackoffIsCapped` too: the loop computes the
capped powers of the initial backoff, a later attempt never waits less, and with six
attempts the cap of half an hour, which `FAILURE_MODES.md:65` and `README.md` promise,
is never reached.

What holds only with a condition has it in its formula, and without it the run finds
the counterexample: `EditsKept` (`~overlapped`), `SequentialExact` (`~disturbed`),
`AcceptedKept` (the jobs in `raced`), `OwnResult` (`Inherits`, `Finds`), `AckedIsStored`
(`sunk`), `FastLossKnown` (`forgotten`), `FairInterrupts` (a
script ended by another call's timer), `DiesByOverlap` (`overlapped`),
`AckedIsCommitted` (clean channels). These are the facts behind them, and others the models show when the
constants of a configuration are changed as said:

- A sender hangs up; the next handler gets its result channel from the pool and
  answers 200 for a request that is not committed, against `README.md:41`'s
  acknowledgment after the commit: the run `IngestHangUp` violates
  `AckImpliesCommitted`.
- Two items share a result channel that way; the worker blocks on it, no batch is
  written any more and a shutdown never ends (`IngestLive` with
  `HangUps = {h1, h2}` violates `StopEnds`; one hang-up is not enough).
- In fast mode the row of a failed first call is refused by the foreign key when it
  comes before the batch, and the job is gone; so is the job of a script that fails, and
  the one whose first row could not be saved.
- A copy that outlived its lease reopens a terminal row, without any fault; terminal
  states (`FAILURE_MODES.md:66-68`) are not final. On SQLite the row may even have been
  deleted: the upsert inserts it again (`Save` in `Delivery`, `SaveDeliveryJob` in
  `Retention`).
- On Postgres a replay whose `INSERT` meets the cleaner's `DELETE` is answered with
  success and its job is cascaded away (the second disjunct of `AcceptedKept`; SQLite,
  whose statement is atomic, needs none), against `FAILURE_MODES.md:79` and
  `store.go:459`.
- An endpoint that was deleted or changed is used for up to a minute and the time a
  handler takes from reading the row to caching it, for `Fill` may cache what
  is gone by then.
- Two updates of one endpoint that overlap lose the fields of the first.
- Two captures of one endpoint at the same time may bring the process down, if a
  dashboard watches it: their writers may be on one connection together.
- A script that assigns `transform` without declaring it leaves it in the pooled
  machine, and an inline script of another endpoint is then run through it. The function
  still has the payload parameter of the call it was made in (`transformer.go:29`), so
  that the later call may return the earlier call's payload; so may a script that reads
  a global which another one has set. `transformer.go:65` clears only the global named
  `payload`.
- The timer of a slow script may interrupt the next script on its machine, once.
- Fast mode loses acknowledged requests in a graceful stop: a batch is flushed with the
  cancelled context, or an item is enqueued behind the final drain (both count as `sunk`
  in `IngestFast`), and so are jobs that wait in the queue when the workers leave
  (`forwarder.go:109`; `forgotten` in `DeliveryFast`). `README.md:42` speaks of abrupt
  kills only.
- In fast mode a deleted endpoint makes a batch fail, and acknowledged requests for
  other endpoints go with it (`sunk` in `IngestFast`).
- In fast mode a job that a full queue dropped has no row to be swept (`Push` in
  `Delivery`, `forgotten` in `DeliveryFast`), against `queue.go:16`.
- A job whose script fails is claimed for ever and never settled (`DeliveryLive` with
  `BadScripts = {j1}`): `processJob` returns without counting an attempt.
- The flush on shutdown (`forwarder.go:139`) uses the cancelled context, so `Flush`
  never works once `life` is `"cancelled"`; the jobs are delivered again.
- `MaxAttempts` is 6 (`forwarder.go:23`) where `README.md:48` and
  `FAILURE_MODES.md:65` say 5.

**Bounds.** `MaxFaults` bounds the disturbances: in `Delivery` store errors, breaker
refusals, shutdowns and crashes, in `Ingest` failing transactions. One job is enough
for everything copies do to each other, because jobs share only the queue, the
goroutines and the batches, all of them at their limit in the instances (capacities
of one, so that full and empty alternate); two jobs are needed for claims and flushes
of more than one row (`DeliveryFast`). Three handlers are what it takes to reuse a channel twice, the
fourth is for the other endpoint. In `Circuit` counters stop at the value from which
on they make no difference (`TripCap`, `Forever`, `cbThreshold`). `tries` is exact up
to `MaxAttempts`. `Chans` has as many members as there are handlers, since each
takes one. Timers are not counted but may fire at any time.

In `EndpointCache` one endpoint is enough, as endpoints share nothing; two ticks tell
an entry that is young, one that is old but valid and one that is stale; three versions
are an original and the writes of two editors. In `Retention` two requests would share
only the cleaner, which takes each by itself; two jobs are a request's own and its
replay's, and two copies let one outlive what the other did to the row. In `Hub` two
messages are what a connection needs for two writers, the third has nobody to go to;
in `Transformer` five calls are one of each kind, and two machines make them share.

**Deadlock** is checked in `Circuit` only. Elsewhere the inputs are finite (requests,
messages, calls, versions, ids) and the system rests when they are used up, or the
process is dead (`crashed`). What waiting for each other could mean is covered by
`EveryWaiterAnswered`, `StopEnds`, `EventuallySettled`, `EveryWatcherServed`,
`EveryCallEnds` and `DeletedIsRefused`.

**Symmetry** is used for alike workers and channels in runs without liveness.

**Fairness.** Goroutines run (weak fairness of the worker, of each step of
`processJob`, of the flusher and the sweeper, whose ticker always comes again); time
passes (`Tick`, `ComeDue`); calls end because the HTTP client has a timeout; a
handler with an answer or a timer takes it; a stopped process is restarted. Handlers of
`EndpointCache` go on once they have begun; the cleaner's ticker always comes again; in
`Hub` some handler that can go on does, and some writer, but a write to a dashboard
that does not read may wait for ever; in `Transformer` calls go on and timers fire, and
a script in `Endless` ends only by its interrupt. Nothing
is assumed of targets, senders, store errors or crashes, except that the budget
bounds them. `Recovers` has its assumption in its formula: no call fails any more.

## Proofs

All proofs are for every value of the constants that the named assumptions allow
(`TimesAssumption`, `IngestAssumption`, `DeliveryAssumption`, `CacheAssumption`,
`RetentionAssumption`, `HubAssumption`, `TransformerAssumption`): any number of jobs,
handlers, goroutines, dashboards, machines and faults, any capacities and times.

- **Circuit.** The strengthening is `OpenIsQuiet`: while the breaker is open every
  running call is at least as old as the last failure. With a client timeout no
  longer than the cooldown, all of them have ended when the cooldown is over
  (`CooledDownIsIdle`), which is why a single probe runs although nothing counts
  calls. This is where `ClientTimeout <= cbCooldown` (10s and 30s) is needed.
- **Ingest.** A result channel is *clean* if it was never put back while an item
  referred to it. The invariant says that handlers own their channels alone
  (`Ownership`), that an item is in one place only (`Once`), that a clean channel is
  empty unless it holds the answer its handler waits for (`CellsClean`), and that
  what is told is what happened (`GoodNews`, `BadNews`). From it follow
  `AckedIsCommitted` and `RefusedIsNotStored`. `NothingVanishes` is the safety half of
  `AckedIsStored`: whatever fails and whenever the server stops, what fast mode
  acknowledged is stored, with the worker or in the channel before it, or `sunk`
  (`Kept`). `NobodyIsStranded` is the safety
  half of `EveryWaiterAnswered`: a handler that waits has its answer in its channel or
  an item in the pipeline (`Attended`), the worker never blocks on a clean channel, and
  it stops only at the end of the final drain. The rest is fairness.
- **The contract with the sender.** `Implements` is `Spec => ImplementsAcknowledgment`,
  for both modes, any hang-ups, faults and shutdowns. The additional invariant is
  `NotYet`: what is on its way to a transaction, and what its handler still looks for
  room for, is not committed yet, so a request is stored once and no request that was
  refused is stored later. A hang-up maps to `HangUp`, which raises `doubt`, and
  everything that happens through a channel that was put back early lies behind it.
  `ContractIsTruthful` shows of `Acknowledgment` alone that without doubt an answer is
  true; `SendersAreToldTheTruth` is the two together.
- **Delivery.** A copy that may still be sent counts fewer than `MaxAttempts`
  attempts and no more than calls have failed (`GoodCopy`); so does a row; only jobs
  that were received are on their way to be marked (`DoneReceived`); in durable mode
  a stored job has a row or was received (`StoredKept`). From it follow
  `NothingAckedIsLost` (durable mode only: the list above shows that fast mode needs
  the restriction) and `HonestFailure`. In fast mode every accepted job is booked (it was
  received, has a row, or is `forgotten`), in the queue, or with a goroutine that has not
  settled it, what the sweeper leased has a row, and what a goroutine is done with is
  booked (`FastKept`): `FastLossesAreKnown`. For `MutualExclusion` the
  marks in `processing` are those of the goroutines at work and no others: a mark too few
  lets two of them at one job, and a mark too many, which nobody would take away again,
  keeps every later copy of the job out until a restart.
- **Refinement.** `DeliveryRefines` maps the pending rows to `owed` and the failed
  ones to `failed`, and shows that in either mode every step of `Delivery` is one of
  `AtLeastOnce` or changes none of its variables; and the same of `Acknowledgment`.
  Durable mode needs for it that what a goroutine has in hand is in the books, and both
  modes that no handler has answered before its turn (`Unanswered`).
  `ContractKeepsItsWord` shows `NothingForgotten`, `HonestFailures` and `NothingDropped` of
  `AtLeastOnce` alone; so of `Delivery` in both modes `NothingIsDropped`: from its first
  row on a job stays in the books until it was received.

- **EndpointCache.** How old an entry is bounds how long its version can have been
  gone: `gone` of the version in hand is at most the handler's lag (`HandBound`), that
  of the cached one at most `cachedFor` plus `Lag` (`EntryBound`). `StalenessIsBounded`
  follows, for any number of handlers; `Prompt`, that a handler caches what it has read
  within `Lag`, is the assumption it rests on, a guard of `Tick` that no code enforces. For
  `ExactWithoutOverlap` the invariant is that what is in hand is the row
  (`HandsCurrent`) as long as nothing was disturbed, for `EditsAreKept` that a PUT has
  in hand what it read.
- **Retention.** `VictimsKnown`: a request the running `DELETE` has chosen has no
  pending job but those that became pending since. So the cascade takes no job that is
  owed, unless it is one of those, and `AcceptedIsKept` follows.
- **Hub.** The map follows from the connections' places (`WatchersExact` is itself
  inductive with the types). A writer writes only to a connection of its message's
  endpoint (`OwnTarget`), and before any overlap a connection has one writer
  (`OneWriter`), whose mark is the flag (`FlagExact`), so that it finds neither somebody
  else's nor its own gone: `DiesOnlyByOverlap`. From the same invariant follows the safety half of
  `EveryWatcherServed` (`NobodyIsLeftOut`): who was served when a message was broadcast
  has it, or a goroutine still to write it, or a closed connection.
- **Transformer.** A machine has one user (`Exclusive`), a running one has its user's
  payload (`Loaded`), one in the pool none (`PoolEmpty`); a function left behind is that
  of an earlier user that assigns one (`Assigned`), and what other globals reach are
  payloads of earlier users, one of which saved them (`Saved`). So a result that is not
  a call's own is one by these two ways, which each name an earlier user (`OthersOut`):
  `ResultsAreOwn`. A callback comes only from calls that are slow or over (`Timed`), an
  interrupt is in one machine and not there any more when it has ended a script
  (`Placed`): `InterruptsAreFair`. `NoScriptUnguarded` is the safety half of
  `EveryCallEnds`: a running script has a timer that ticks, a callback under way or the
  interrupt in its machine.

Only model-checked: the liveness properties (`Recovers`, `EveryWaiterAnswered`,
`StopEnds`, `AckedIsStored`, `EventuallySettled`, `Quiesces`, `DeletedIsRefused`,
`ExpiredIsPruned`, `EveryWatcherServed`, `ClosedIsCleanedUp`, `EveryCallEnds`). Out of the provers' reach: liveness under
fairness and `ENABLED`, induction over data (that the closed form of `Cooldown` and the
loop of `Base` are what they are compared with, for every count), and anything about
`RECURSIVE` operators, which only `MCCircuit` has.

## Not modelled, and what comes next

Left out for good: native functions of goja that never return (an interrupt does not
end them, so `EveryCallEnds` does not speak of them), parsing, headers, the SSRF dialer, logging, configuration, the
dashboard, connecting to the databases, `UpdateJobStatus` and `GetPendingJobs` (no
caller), the handlers that only read.

Modelled in part: the shutdown. That nothing waits for the workers, that the context is
cancelled and that `Close` waits for the batch worker is in `Ingest` and `Delivery`;
the closing of the Postgres pool and the HTTP server's own shutdown are not.

Abstracted: dates. Both stores compare dates of several origins (local time, UTC,
SQLite's text), and `ComeDue`, `Expire` and `old` let them pass in any order instead,
which covers every origin but says nothing of how late a job may be.

What could come next:

1. What the cleaner may remove, as an action property, beside `ExpiredIsPruned`.
2. An abstract breaker that `Circuit` implements.
3. Dates as the stores compare them.
