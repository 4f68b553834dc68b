------------------------------ MODULE Delivery ------------------------------
(***************************************************************************)
(* From the stored row of a job to its terminal state: the job queue, the  *)
(* worker pool and its overflow goroutines (processJob), the sweeper that  *)
(* leases pending rows, the flusher that marks delivered ones, and the     *)
(* delivery_jobs and requests tables (internal/forwarder, internal/queue,  *)
(* internal/store), through store errors, shutdowns and crashes.           *)
(*                                                                         *)
(* The same job may have several copies in memory, each with the attempt   *)
(* count it was made with, and every copy overwrites the row when it is    *)
(* done.  Module Ingest has the details of the batch that stores a job,    *)
(* module Circuit those of the breaker; here a batch stores a job or loses *)
(* it and the breaker refuses a call or does not.                          *)
(***************************************************************************)
EXTENDS Integers, Sequences, FiniteSets

CONSTANTS
    Jobs,           \* the jobs captured, one request each
    BadScripts,     \* jobs whose endpoint has a script that fails on them
    Pool,           \* worker goroutines reading the queue
    Overflow,       \* goroutines the sweeper may start when the queue is full
    QueueCap,       \* capacity of JobQueue.Jobs
    DoneCap,        \* capacity of deliveredCh
    FlushAt,        \* ids the flusher collects before it must flush
    ClaimLimit,     \* rows one claim may lease
    MaxAttempts,
    MaxFaults,      \* bound: store errors, refusals, shutdowns and crashes
    Durable,        \* ACK_MODE=durable
    KeepDelivered   \* Postgres keeps a delivered row, SQLite deletes it

ASSUME DeliveryAssumption ==
    /\ BadScripts \subseteq Jobs
    /\ Pool \cap Overflow = {}
    /\ QueueCap \in Nat \ {0} /\ DoneCap \in Nat \ {0} /\ FlushAt \in Nat \ {0}
    /\ ClaimLimit \in Nat \ {0} /\ MaxAttempts \in Nat \ {0} /\ MaxFaults \in Nat
    /\ Durable \in BOOLEAN /\ KeepDelivered \in BOOLEAN

VARIABLES
    stage,       \* stage[j]: "new", "ingest" (in ingestCh), "stored" or "lost"
    waiting,     \* jobs whose handler waits for the commit
    accepted,    \* jobs whose sender got 200 OK
    row,         \* row[j] of delivery_jobs
    queue,       \* JobQueue.Jobs
    claimed,     \* copies the sweeper has leased and not yet handed out
    processing,  \* Forwarder.processing
    pc,          \* where each goroutine is in processJob
    copy,        \* the copy it works on
    doneCh,      \* deliveredCh
    ids,         \* ids the flusher has collected
    life,        \* "up", or "cancelled": the context is, the process still runs
    faults,
    received,    \* history: jobs some call answered 2xx for
    tries,       \* history: calls that failed, exact up to MaxAttempts
    forgotten    \* history: fast-mode jobs without a row whose copy was lost

store == <<stage, row>>
sweeper == <<claimed>>
worker == <<processing, pc, copy>>
flusher == <<doneCh, ids>>
history == <<received, tries, forgotten>>
vars == <<stage, waiting, accepted, row, queue, claimed, processing, pc, copy,
          doneCh, ids, life, faults, received, tries, forgotten>>

Goroutines == Pool \cup Overflow

Copies == [job : Jobs, attempts : 0..MaxAttempts, persisted : BOOLEAN,
           inMem : BOOLEAN, status : {"pending", "failed"}]
Rows == [status : {"none", "pending", "delivered", "failed"},
         attempts : 0..MaxAttempts, due : BOOLEAN]

NoCopy == [job |-> "none"]
NoRow == [status |-> "none", attempts |-> 0, due |-> FALSE]

\* A pending row whose date is in the future.
Postponed(n) == [status |-> "pending", attempts |-> n, due |-> FALSE]

\* The copy a handler makes of the job, with the request in memory.
Captured(j) ==
    [job |-> j, attempts |-> 0, persisted |-> Durable, inMem |-> TRUE,
     status |-> "pending"]

\* The copy a claim makes of a row.
Leased(j) ==
    [job |-> j, attempts |-> row[j].attempts, persisted |-> TRUE, inMem |-> FALSE,
     status |-> "pending"]

StoreType ==
    /\ stage \in [Jobs -> {"new", "ingest", "stored", "lost"}]
    /\ row \in [Jobs -> Rows]

QueueType ==
    /\ queue \in Seq(Copies) /\ Len(queue) <= QueueCap
    /\ claimed \subseteq Copies

WorkerType ==
    /\ processing \subseteq Jobs
    /\ pc \in [Goroutines -> {"idle", "begin", "load", "gate", "send", "mark", "save",
                              "release"}]
    /\ copy \in [Goroutines -> Copies \cup {NoCopy}]
    /\ \A w \in Goroutines : pc[w] # "idle" => copy[w] \in Copies

FlusherType ==
    /\ doneCh \in Seq(Jobs) /\ Len(doneCh) <= DoneCap
    /\ ids \subseteq Jobs

ControlType ==
    /\ waiting \subseteq Jobs /\ accepted \subseteq Jobs
    /\ life \in {"up", "cancelled"} /\ faults \in 0..MaxFaults
    /\ received \subseteq Jobs /\ tries \in [Jobs -> 0..MaxAttempts]
    /\ forgotten \subseteq Jobs

TypeOK == StoreType /\ QueueType /\ WorkerType /\ FlusherType /\ ControlType

Init ==
    /\ stage = [j \in Jobs |-> "new"]
    /\ waiting = {} /\ accepted = {}
    /\ row = [j \in Jobs |-> NoRow]
    /\ queue = <<>> /\ claimed = {}
    /\ processing = {}
    /\ pc = [w \in Goroutines |-> "idle"]
    /\ copy = [w \in Goroutines |-> NoCopy]
    /\ doneCh = <<>> /\ ids = {}
    /\ life = "up" /\ faults = 0
    /\ received = {} /\ forgotten = {}
    /\ tries = [j \in Jobs |-> 0]

-----------------------------------------------------------------------------
(***************************************************************************)
(* A store call with the server's context either works or fails: it always *)
(* fails once the context is cancelled, and before that at the expense of  *)
(* the fault budget.                                                       *)
(***************************************************************************)
Fault == faults < MaxFaults /\ faults' = faults + 1
Works == life = "up" /\ UNCHANGED faults
Fails == \/ life = "up" /\ Fault
         \/ life = "cancelled" /\ UNCHANGED faults

-----------------------------------------------------------------------------
(***************************************************************************)
(* The handler and the batch, as far as delivery depends on them.          *)
(***************************************************************************)
\* The copies of the jobs in S are gone; so are those jobs, if they have no row yet.
Forget(S) ==
    forgotten' = forgotten \cup {j \in S : ~Durable /\ row[j].status = "none"}

\* Push drops the copy when the queue is full.
Push(c) ==
    \/ /\ Len(queue) < QueueCap
       /\ queue' = Append(queue, c)
       /\ UNCHANGED forgotten
    \/ /\ Len(queue) = QueueCap
       /\ Forget({c.job})
       /\ UNCHANGED queue

\* Fast mode answers as soon as the item is in ingestCh.
Capture(j) ==
    /\ stage[j] = "new"
    /\ stage' = [stage EXCEPT ![j] = "ingest"]
    /\ IF Durable
       THEN waiting' = waiting \cup {j} /\ UNCHANGED <<accepted, queue, forgotten>>
       ELSE /\ accepted' = accepted \cup {j}
            /\ Push(Captured(j))
            /\ UNCHANGED waiting
    /\ UNCHANGED <<row, sweeper, worker, flusher, life, faults, received, tries>>

\* The batch commits the request and, in durable mode, a row leased for 15s.
StoreItem(j) ==
    /\ stage[j] = "ingest"
    /\ stage' = [stage EXCEPT ![j] = "stored"]
    /\ row' = IF Durable THEN [row EXCEPT ![j] = Postponed(0)] ELSE row
    /\ UNCHANGED <<waiting, accepted, queue, sweeper, worker, flusher, life, faults,
                   history>>

\* The batch fails: durable mode answers 500, fast mode has answered already.
LoseItem(j) ==
    /\ stage[j] = "ingest"
    /\ Fails
    /\ stage' = [stage EXCEPT ![j] = "lost"]
    /\ waiting' = waiting \ {j}
    /\ UNCHANGED <<accepted, row, queue, sweeper, worker, flusher, life, history>>

\* Mutant of Committed: the handler answers once the item is enqueued.
Enqueued(j) == TRUE
Committed(j) == stage[j] = "stored"

\* The handler wakes up, hands a copy to the workers and answers 200.
Accept(j) ==
    /\ j \in waiting
    /\ Committed(j)
    /\ waiting' = waiting \ {j}
    /\ accepted' = accepted \cup {j}
    /\ Push(Captured(j))
    /\ UNCHANGED <<store, sweeper, worker, flusher, life, faults, received, tries>>

\* The sender hung up: the handler leaves, the row stays.
GiveUpWaiting(j) ==
    /\ j \in waiting
    /\ waiting' = waiting \ {j}
    /\ UNCHANGED <<store, accepted, queue, sweeper, worker, flusher, life, faults, history>>

-----------------------------------------------------------------------------
(***************************************************************************)
(* The sweeper.                                                            *)
(***************************************************************************)
\* Mutant of Claimable: a sweep for retries only.
ClaimableRetry(j) == row[j].status = "pending" /\ row[j].due /\ row[j].attempts > 0
Claimable(j) == row[j].status = "pending" /\ row[j].due

\* A row that the statement of somebody else may hold at this moment; only the
\* claim of Postgres passes it by (SKIP LOCKED).
Locked(j) ==
    /\ KeepDelivered
    /\ j \in ids \/ \E w \in Goroutines : pc[w] \in {"mark", "save"} /\ copy[w].job = j

\* A claim leases up to ClaimLimit rows, the oldest first (dates are abstracted
\* to due).  An error after the update (a scan error, a lost answer) leaves all of
\* the rows leased; it hands out none of them, or those read before an error that
\* only rows.Err() would tell.
Claim(S) ==
    /\ claimed = {}
    /\ S # {} /\ \A j \in S : Claimable(j)
    /\ \/ Cardinality(S) = ClaimLimit
       \/ Cardinality(S) < ClaimLimit /\ \A j \in Jobs \ S : Claimable(j) => Locked(j)
    /\ row' = [j \in Jobs |-> IF j \in S THEN Postponed(row[j].attempts) ELSE row[j]]
    /\ life = "up"
    /\ \E T \in SUBSET S :
          /\ claimed' = {Leased(j) : j \in T}
          /\ IF T = S THEN UNCHANGED faults ELSE Fault
    /\ UNCHANGED <<stage, waiting, accepted, queue, worker, flusher, life, history>>

\* A claimed copy goes to the queue, or to a goroutine of its own.
Dispatch(c) ==
    /\ c \in claimed
    /\ claimed' = claimed \ {c}
    /\ \/ /\ Len(queue) < QueueCap
          /\ queue' = Append(queue, c)
          /\ UNCHANGED <<pc, copy>>
       \/ /\ Len(queue) = QueueCap
          /\ \E w \in Overflow :
                /\ pc[w] = "idle"
                /\ pc' = [pc EXCEPT ![w] = "begin"]
                /\ copy' = [copy EXCEPT ![w] = c]
          /\ UNCHANGED queue
    /\ UNCHANGED <<store, waiting, accepted, processing, flusher, life, faults, history>>

\* The cancelled context ends the loop with copies still in hand.
SweeperStop ==
    /\ life = "cancelled" /\ claimed # {}
    /\ claimed' = {}
    /\ UNCHANGED <<store, waiting, accepted, queue, worker, flusher, life, faults, history>>

-----------------------------------------------------------------------------
(***************************************************************************)
(* processJob, in the goroutine w.                                         *)
(***************************************************************************)
GoTo(w, label) == pc' = [pc EXCEPT ![w] = label]
Job(w) == copy[w].job

\* A worker takes the next copy; after the cancellation it may still win the
\* select against ctx.Done.
Take(w) ==
    /\ w \in Pool
    /\ pc[w] = "idle"
    /\ queue # <<>>
    /\ copy' = [copy EXCEPT ![w] = Head(queue)]
    /\ queue' = Tail(queue)
    /\ GoTo(w, "begin")
    /\ UNCHANGED <<store, waiting, accepted, claimed, processing, flusher, life,
                   faults, history>>

\* Leaves processJob before the job was marked as being processed.
Drop(w) ==
    /\ pc' = [pc EXCEPT ![w] = "idle"]
    /\ copy' = [copy EXCEPT ![w] = NoCopy]

\* Mutant of Loaded: every copy is processed.
NeverLoaded(j) == FALSE
Loaded(j) == j \in processing

\* LoadOrStore: a second copy of a job in process is thrown away.
Begin(w) ==
    /\ pc[w] = "begin"
    /\ \/ /\ Loaded(Job(w))
          /\ Drop(w)
          /\ UNCHANGED processing
       \/ /\ ~Loaded(Job(w))
          /\ processing' = processing \cup {Job(w)}
          /\ GoTo(w, "load")
          /\ UNCHANGED copy
    /\ UNCHANGED <<store, waiting, accepted, queue, claimed, flusher, life, faults,
                   history>>

\* Transform fails, always or this once (its 50ms were over): processJob returns and
\* nothing is saved.
Transformed(w) ==
    \/ /\ Job(w) \notin BadScripts
       /\ GoTo(w, "gate")
       /\ UNCHANGED <<faults, forgotten>>
    \/ /\ (Job(w) \in BadScripts /\ UNCHANGED faults) \/ Fault
       /\ GoTo(w, "release")
       /\ Forget({Job(w)})

\* A copy from the sweeper reads its request and its endpoint.  Without the request
\* processJob returns; without the endpoint it goes on with no script at all.
Load(w) ==
    /\ pc[w] = "load"
    /\ \/ /\ copy[w].inMem \/ (life = "up" /\ stage[Job(w)] = "stored")
          /\ Transformed(w)
       \/ /\ ~copy[w].inMem /\ Fails
          /\ GoTo(w, "release") \/ (stage[Job(w)] = "stored" /\ GoTo(w, "gate"))
          /\ UNCHANGED forgotten
    /\ UNCHANGED <<store, waiting, accepted, queue, claimed, processing, copy, flusher,
                   life, received, tries>>

\* Mutant of Refused: processJob only returns.
Discarded(w) == GoTo(w, "release")
\* A refused copy is saved as it is, for thirty seconds later.
Refused(w) == GoTo(w, "save")

\* circuits.Allow.
Gate(w) ==
    /\ pc[w] = "gate"
    /\ \/ /\ GoTo(w, "send")
          /\ UNCHANGED faults
       \/ /\ Fault
          /\ Refused(w)
    /\ UNCHANGED <<store, waiting, accepted, queue, claimed, processing, copy, flusher,
                   life, history>>

\* Mutant of Attempted: the attempt is not counted.
NotCounted(c) == c.attempts
Attempted(c) == c.attempts + 1

\* Mutants of Exhausted: off by one, either way.
ExhaustedEarly(n) == n >= MaxAttempts - 1
ExhaustedLate(n) == n > MaxAttempts
Exhausted(n) == n >= MaxAttempts

Outcome(c, n) ==
    [job |-> c.job, attempts |-> n, persisted |-> TRUE, inMem |-> c.inMem,
     status |-> IF Exhausted(n) THEN "failed" ELSE "pending"]

\* deliver: the target answers 2xx, or it does not (a timeout, a refused
\* connection, another status).
Send(w) ==
    /\ pc[w] = "send"
    /\ \/ /\ received' = received \cup {Job(w)}
          /\ GoTo(w, "mark")
          /\ UNCHANGED <<copy, tries>>
       \/ /\ tries' = [tries EXCEPT ![Job(w)] = IF @ < MaxAttempts THEN @ + 1 ELSE @]
          /\ copy' = [copy EXCEPT ![w] = Outcome(@, Attempted(@))]
          /\ GoTo(w, "save")
          /\ UNCHANGED received
    /\ UNCHANGED <<store, waiting, accepted, queue, claimed, processing, flusher, life,
                   faults, forgotten>>

\* BatchMarkDelivered(S): rows that do not exist are not created.
Marked(S) ==
    [j \in Jobs |->
        IF j \notin S THEN row[j]
        ELSE IF ~KeepDelivered \/ row[j].status = "none" THEN NoRow
        ELSE [status |-> "delivered", attempts |-> row[j].attempts, due |-> FALSE]]

\* A delivered job goes to the flusher; when deliveredCh is full the worker
\* marks it itself and ignores an error.
Mark(w) ==
    /\ pc[w] = "mark"
    /\ \/ ~copy[w].persisted /\ UNCHANGED <<row, doneCh, faults>>
       \/ /\ copy[w].persisted /\ Len(doneCh) < DoneCap
          /\ doneCh' = Append(doneCh, Job(w))
          /\ UNCHANGED <<row, faults>>
       \/ /\ copy[w].persisted /\ Len(doneCh) = DoneCap
          /\ \/ Works /\ row' = Marked({Job(w)})
             \/ Fails /\ UNCHANGED row
          /\ UNCHANGED doneCh
    /\ GoTo(w, "release")
    /\ UNCHANGED <<stage, waiting, accepted, queue, claimed, processing, copy, ids, life,
                   history>>

\* The foreign key of delivery_jobs: the request's row must be there.
Referenced(j) == stage[j] = "stored"

\* SaveDeliveryJob overwrites the row, whoever wrote it last; errors are ignored.
Save(w) ==
    /\ pc[w] = "save"
    /\ \/ /\ Works /\ Referenced(Job(w))
          /\ row' = [row EXCEPT ![Job(w)] =
                        [status |-> copy[w].status, attempts |-> copy[w].attempts,
                         due |-> FALSE]]
          /\ UNCHANGED forgotten
       \/ /\ (Works /\ ~Referenced(Job(w))) \/ Fails
          /\ Forget({Job(w)})
          /\ UNCHANGED row
    /\ GoTo(w, "release")
    /\ UNCHANGED <<stage, waiting, accepted, queue, claimed, processing, copy, flusher,
                   life, received, tries>>

\* The deferred processing.Delete.
Release(w) ==
    /\ pc[w] = "release"
    /\ processing' = processing \ {Job(w)}
    /\ Drop(w)
    /\ UNCHANGED <<store, waiting, accepted, queue, claimed, flusher, life, faults,
         history>>

Work(w) ==
    \/ Take(w) \/ Begin(w) \/ Load(w) \/ Gate(w) \/ Send(w)
    \/ Mark(w) \/ Save(w) \/ Release(w)

-----------------------------------------------------------------------------
(***************************************************************************)
(* The flusher, the clock, and the end of the process.                     *)
(***************************************************************************)
Collect ==
    /\ doneCh # <<>>
    /\ Cardinality(ids) < FlushAt
    /\ ids' = ids \cup {Head(doneCh)}
    /\ doneCh' = Tail(doneCh)
    /\ UNCHANGED <<store, waiting, accepted, queue, claimed, worker, life, faults, history>>

\* A full batch, the ticker, or (once, last) the cancelled context; the ids are
\* forgotten whether or not the store took them.
Flush ==
    /\ ids # {}
    /\ \/ Works /\ row' = Marked(ids)
       \/ Fails /\ UNCHANGED row
    /\ ids' = {}
    /\ UNCHANGED <<stage, waiting, accepted, queue, claimed, worker, doneCh, life, history>>

\* The date of a pending row passes: a lease or a backoff is over.
ComeDue(j) ==
    /\ row[j].status = "pending" /\ ~row[j].due
    /\ row' = [row EXCEPT ![j] = [Postponed(row[j].attempts) EXCEPT !.due = TRUE]]
    /\ UNCHANGED <<stage, waiting, accepted, queue, claimed, worker, flusher, life, faults,
                   history>>

\* The signal handler: the listener is closed, cancel() runs.
Shutdown ==
    /\ life = "up" /\ Fault
    /\ life' = "cancelled"
    /\ UNCHANGED <<store, waiting, accepted, queue, claimed, worker, flusher, history>>

\* A copy of the job is in the queue or with a goroutine that has not settled it.
InHand(j) ==
    \/ \E i \in 1..Len(queue) : queue[i].job = j
    \/ \E w \in Goroutines :
          /\ pc[w] \in {"begin", "load", "gate", "send", "save"}
          /\ Job(w) = j

\* The process ends, by itself after a shutdown or killed at any moment, and
\* another one starts on the same database.
Restart ==
    /\ \/ life = "cancelled" /\ UNCHANGED faults
       \/ life = "up" /\ Fault
    /\ life' = "up"
    /\ stage' = [j \in Jobs |-> IF stage[j] = "ingest" THEN "lost" ELSE stage[j]]
    /\ waiting' = {} /\ queue' = <<>> /\ claimed' = {} /\ processing' = {}
    /\ pc' = [w \in Goroutines |-> "idle"]
    /\ copy' = [w \in Goroutines |-> NoCopy]
    /\ doneCh' = <<>> /\ ids' = {}
    /\ Forget({j \in Jobs : InHand(j)})
    /\ UNCHANGED <<accepted, row, received, tries>>

Next ==
    \/ \E j \in Jobs :
          \/ Capture(j) \/ StoreItem(j) \/ LoseItem(j) \/ Accept(j) \/ GiveUpWaiting(j)
          \/ ComeDue(j)
    \/ \E S \in SUBSET Jobs : Claim(S)
    \/ \E c \in claimed : Dispatch(c)
    \/ SweeperStop
    \/ \E w \in Goroutines : Work(w)
    \/ Collect \/ Flush
    \/ Shutdown \/ Restart

Spec == Init /\ [][Next]_vars

(***************************************************************************)
(* Every goroutine runs, dates pass, and a process that was told to stop   *)
(* is replaced.  What a call answers, the sender and the crashes are free. *)
(***************************************************************************)
Fairness ==
    /\ \A j \in Jobs : WF_vars(ComeDue(j)) /\ WF_vars(StoreItem(j) \/ LoseItem(j))
    /\ WF_vars(\E S \in SUBSET Jobs : Claim(S))
    /\ WF_vars(\E c \in claimed : Dispatch(c))
    /\ \A w \in Goroutines : WF_vars(Work(w))
    /\ WF_vars(Collect) /\ WF_vars(Flush)
    /\ WF_vars(life = "cancelled" /\ Restart)

FairSpec == Spec /\ Fairness

-----------------------------------------------------------------------------
\* FAILURE_MODES.md:10-12.  An acknowledged webhook is never forgotten: its row
\* waits to be delivered or has failed for good, or the target answered 2xx for
\* it.  Through crashes, shutdowns, failed store calls, full queues, expired
\* leases and copies of the job that overwrite each other's row.
NoAckedLoss ==
    \A j \in accepted : row[j].status \in {"pending", "failed"} \/ j \in received

\* A job is given up only after MaxAttempts calls for it have really failed,
\* however many copies of it counted at the same time (forwarder.go:302).
GivenUpHonestly ==
    \A j \in Jobs : row[j].status = "failed" => tries[j] = MaxAttempts

\* A goroutine past the LoadOrStore of processJob.
Busy(w) == pc[w] \notin {"idle", "begin"}

\* Two goroutines are never at work on the same job (forwarder.go:211), neither
\* the pool's nor the sweeper's, and no mark is left behind: processing names the
\* jobs they are at work on and no other, which no copy could pass any more.
OneAtATime ==
    /\ \A v, w \in Goroutines : v # w /\ Busy(v) /\ Busy(w) => Job(v) # Job(w)
    /\ processing = {Job(w) : w \in {g \in Goroutines : Busy(g)}}

\* Fast mode keeps a job in memory until its first call has failed, and four things
\* only may lose it there: a full queue (queue.go:20), a script that fails
\* (forwarder.go:254), a first row that is not stored, because the batch has not stored
\* its request or the call fails (forwarder.go:316), and the end of the process.  No
\* refusal of the breaker, second copy, failed claim or load, or sweeper that stops
\* does: any other job was received, has a row, or has a copy in hand.
FastLossKnown ==
    ~Durable =>
        \A j \in accepted :
            j \in received \/ row[j].status # "none" \/ InHand(j) \/ j \in forgotten

\* An acknowledged webhook reaches the target or is given up, if the disturbances
\* end: with every copy lost, the row still comes due and is claimed again.
EventuallySettled ==
    \A j \in Jobs :
        j \in accepted ~> (j \in received \/ row[j].status = "failed")

\* Rows do not stay pending: when the disturbances have ended every row becomes
\* terminal for good.  A stale copy may reopen a delivered or a failed job, but
\* never without end, since every copy carries the attempts it was made with.
Quiesces ==
    \A j \in Jobs : <>[](row[j].status # "pending")

-----------------------------------------------------------------------------
Contract ==
    INSTANCE AtLeastOnce WITH
        owed <- {j \in Jobs : row[j].status = "pending"},
        failed <- {j \in Jobs : row[j].status = "failed"}

Sender ==
    INSTANCE Acknowledgment WITH
        Requests <- Jobs,
        stored <- {j \in Jobs : stage[j] = "stored"},
        told <- [j \in Jobs |-> IF j \in accepted THEN "ok" ELSE "nothing"],
        doubt <- FALSE,
        unsure <- FALSE

\* In both modes every behaviour of the queue, the workers, the sweeper and the
\* flusher is a behaviour of AtLeastOnce: a row appears, fails and disappears only
\* as that contract allows.  It is one of Acknowledgment too, as Ingest is: what
\* stands here for the handler and its batch promises the sender no more than they.
ImplementsContract == Contract!Spec /\ Sender!Spec
=============================================================================
