------------------------------- MODULE Ingest -------------------------------
(***************************************************************************)
(* From the request to its acknowledgment: the handlers of CaptureWebhook, *)
(* the ingest channel, the batch worker with its single transaction        *)
(* (flushBatch), the pool of result channels through which it wakes the    *)
(* handlers, and the drain at shutdown.  An item is named by its handler.  *)
(***************************************************************************)
EXTENDS Integers, Sequences, FiniteSets

CONSTANTS
    Handlers,     \* capture requests, one goroutine each
    Chans,        \* result channels
    Endpoints,
    EndpointOf,   \* the endpoint each request is for
    HangUps,      \* handlers whose sender may hang up while they wait
    Deletable,    \* endpoints that may be deleted meanwhile
    MayStop,      \* the process may be asked to stop
    Durable,      \* ACK_MODE=durable
    IngestCap,    \* capacity of ingestCh
    BatchMax,     \* items of one transaction: 1000, on Postgres 500
    FinalMax,     \* items of one transaction of the final drain: 500
    MaxFaults     \* bound: transactions that fail

ASSUME IngestAssumption ==
    /\ EndpointOf \in [Handlers -> Endpoints]
    /\ HangUps \subseteq Handlers /\ Deletable \subseteq Endpoints
    /\ MayStop \in BOOLEAN /\ Durable \in BOOLEAN
    /\ IngestCap \in Nat \ {0} /\ MaxFaults \in Nat
    /\ FinalMax \in Nat \ {0} /\ BatchMax \in Nat /\ FinalMax <= BatchMax
    /\ "none" \notin Chans

VARIABLES
    pc,         \* of each handler
    ch,         \* the result channel in each handler's item
    cell,       \* what each result channel (capacity 1) holds
    pool,       \* resultPool
    fresh,      \* channels not made yet
    ingestCh,
    batch,      \* items the worker holds and has not notified yet
    wpc,        \* of the batch worker
    verdict,    \* of the transaction being notified
    final,      \* "no", or after ctx.Done: "more" batches follow, or the "last"
    life,       \* "serving", "cancelled" (after cancel()), "exited"
    endpoints,  \* rows of endpoints
    faults,
    committed,  \* history: items whose request (and job) was committed
    sunk,       \* history: items whose transaction reported an error, or that were
                \* enqueued after the worker had looked into ingestCh for the last time
    orphaned    \* history: channels put back while an item still refers to them

handlers == <<pc, ch, fresh, orphaned>>
channels == <<cell, pool>>
worker == <<batch, wpc, verdict, final>>
world == <<life, endpoints, faults>>
books == <<committed, sunk>>
vars == <<pc, ch, cell, pool, fresh, ingestCh, batch, wpc, verdict, final, life,
          endpoints, faults, committed, sunk, orphaned>>

Answers == {"ok", "err"}
Waits(h) == pc[h] \in {"blocked", "wait"}

HandlerType ==
    /\ pc \in [Handlers -> {"idle", "blocked", "wait", "acked", "e500", "e503"}]
    /\ ch \in [Handlers -> Chans \cup {"none"}]
    /\ fresh \subseteq Chans /\ orphaned \subseteq Chans

ChannelType ==
    /\ cell \in [Chans -> {"empty"} \cup Answers]
    /\ pool \subseteq Chans

WorkerType ==
    /\ ingestCh \in Seq(Handlers) /\ Len(ingestCh) <= IngestCap
    /\ batch \in Seq(Handlers) /\ Len(batch) <= BatchMax
    /\ wpc \in {"select", "drain", "flush", "notify", "stopped"}
    /\ verdict \in Answers /\ final \in {"no", "more", "last"}

WorldType ==
    /\ life \in {"serving", "cancelled", "exited"}
    /\ endpoints \subseteq Endpoints /\ faults \in 0..MaxFaults
    /\ committed \subseteq Handlers /\ sunk \subseteq Handlers

TypeOK == HandlerType /\ ChannelType /\ WorkerType /\ WorldType

Init ==
    /\ pc = [h \in Handlers |-> "idle"]
    /\ ch = [h \in Handlers |-> "none"]
    /\ cell = [c \in Chans |-> "empty"]
    /\ pool = {} /\ fresh = Chans
    /\ ingestCh = <<>> /\ batch = <<>>
    /\ wpc = "select" /\ verdict = "ok" /\ final = "no"
    /\ life = "serving" /\ endpoints = Endpoints /\ faults = 0
    /\ committed = {} /\ sunk = {} /\ orphaned = {}

-----------------------------------------------------------------------------
(***************************************************************************)
(* CaptureWebhook, after the endpoint was found (in the cache or the       *)
(* store): it may be deleted by the time the item is enqueued.             *)
(***************************************************************************)
\* sync.Pool hands out any channel put back earlier, or makes a new one (it
\* keeps no promise to remember them).
Get(c) ==
    \/ c \in pool /\ pool' = pool \ {c} /\ UNCHANGED fresh
    \/ c \in fresh /\ fresh' = fresh \ {c} /\ UNCHANGED pool

HasRoom == Len(ingestCh) < IngestCap

\* The next pc once the item is in ingestCh: fast mode answers at once.
Enqueued == IF Durable THEN "wait" ELSE "acked"

\* The item joins the others; after the worker's last look nobody takes it any more.
Send(h) ==
    /\ HasRoom
    /\ ingestCh' = Append(ingestCh, h)
    /\ pc' = [pc EXCEPT ![h] = Enqueued]
    /\ sunk' = IF final = "last" THEN sunk \cup {h} ELSE sunk

Enter(h) ==
    /\ life # "exited" /\ pc[h] = "idle"
    /\ IF Durable
       THEN \E c \in pool \cup fresh : Get(c) /\ ch' = [ch EXCEPT ![h] = c]
       ELSE UNCHANGED <<ch, pool, fresh>>
    /\ \/ Send(h)
       \/ /\ ~HasRoom
          /\ pc' = [pc EXCEPT ![h] = "blocked"]
          /\ UNCHANGED <<ingestCh, sunk>>
    /\ UNCHANGED <<cell, worker, world, committed, orphaned>>

\* Room at last, before the timer.
Enqueue(h) ==
    /\ life # "exited" /\ pc[h] = "blocked"
    /\ Send(h)
    /\ UNCHANGED <<ch, fresh, channels, worker, world, committed, orphaned>>

\* Fast mode took no channel.
PutBack(h) == IF Durable THEN {ch[h]} ELSE {}

\* The timer (2s, 500ms in fast mode) fires or the sender hangs up: 503.
Overloaded(h) ==
    /\ life # "exited" /\ pc[h] = "blocked"
    /\ pc' = [pc EXCEPT ![h] = "e503"]
    /\ pool' = pool \cup PutBack(h)
    /\ UNCHANGED <<ch, cell, fresh, ingestCh, worker, world, books, orphaned>>

\* Mutant of Succeeded: the error is logged and the request is answered all the same.
AnyAnswer(c) == TRUE
Succeeded(c) == cell[c] = "ok"

\* The worker's verdict arrives: 200 or 500.
Answered(h) ==
    /\ life # "exited" /\ pc[h] = "wait" /\ cell[ch[h]] # "empty"
    /\ pc' = [pc EXCEPT ![h] = IF Succeeded(ch[h]) THEN "acked" ELSE "e500"]
    /\ cell' = [cell EXCEPT ![ch[h]] = "empty"]
    /\ pool' = pool \cup {ch[h]}
    /\ UNCHANGED <<ch, fresh, ingestCh, worker, world, books, orphaned>>

\* The sender hangs up first: the channel goes back to the pool although the
\* item still refers to it.
HangUp(h) ==
    /\ life # "exited" /\ pc[h] = "wait" /\ h \in HangUps
    /\ pc' = [pc EXCEPT ![h] = "e503"]
    /\ pool' = pool \cup {ch[h]}
    /\ orphaned' = orphaned \cup {ch[h]}
    /\ UNCHANGED <<ch, cell, fresh, ingestCh, worker, world, books>>

Handle(h) == Enter(h) \/ Enqueue(h) \/ Overloaded(h) \/ Answered(h) \/ HangUp(h)

-----------------------------------------------------------------------------
(***************************************************************************)
(* The batch worker.                                                       *)
(***************************************************************************)
Pick ==
    /\ batch' = Append(batch, Head(ingestCh))
    /\ ingestCh' = Tail(ingestCh)

\* case item := <-ingestCh
First ==
    /\ life # "exited" /\ wpc = "select" /\ ingestCh # <<>>
    /\ Pick
    /\ wpc' = "drain"
    /\ UNCHANGED <<handlers, channels, verdict, final, world, books>>

\* Mutant of Cancelled: the worker stops when ingestCh is closed, which nobody does.
ChannelClosed == FALSE
Cancelled == life = "cancelled"

\* Mutant of AtStop: the worker returns at once.
Abandon == "stopped"
AtStop == "drain"

\* case <-ctx.Done()
BeginFinal ==
    /\ Cancelled /\ wpc = "select"
    /\ wpc' = AtStop /\ final' = "more"
    /\ UNCHANGED <<handlers, channels, ingestCh, batch, verdict, world, books>>

\* SQLite takes less at a time when it drains for the last time.
Limit == IF final = "no" THEN BatchMax ELSE FinalMax

\* Mutant of BatchFull: one item too many.
BatchFullLate == Len(batch) > Limit
BatchFull == Len(batch) >= Limit

More ==
    /\ life # "exited" /\ wpc = "drain" /\ ingestCh # <<>> /\ ~BatchFull
    /\ Pick
    /\ UNCHANGED <<handlers, channels, wpc, verdict, final, world, books>>

\* A full batch, or nothing more to take: the final drain then ends, with a last
\* batch or without.
Enough ==
    /\ life # "exited" /\ wpc = "drain" /\ (ingestCh = <<>> \/ BatchFull)
    /\ wpc' = IF batch = <<>> THEN "stopped" ELSE "flush"
    /\ final' = IF final = "more" /\ ~BatchFull THEN "last" ELSE final
    /\ UNCHANGED <<handlers, channels, ingestCh, batch, verdict, world, books>>

Items == {batch[i] : i \in 1..Len(batch)}

\* Every request of the batch refers to an endpoint that is still there.
Constrained == \A h \in Items : EndpointOf[h] \in endpoints

\* The final drain uses a context of its own, every other batch the server's.
ContextLive == final # "no" \/ life = "serving"

\* Mutant of Stored: the transaction commits the rows inserted before the error.
StoredPartly(ok) == committed \cup {batch[1]}
Stored(ok) == IF ok THEN committed \cup Items ELSE committed

\* One transaction for the whole batch.  With the fault budget it fails, or
\* commits although Commit reports an error.
Flush ==
    /\ life # "exited" /\ wpc = "flush"
    /\ \/ /\ Constrained /\ ContextLive
          /\ committed' = Stored(TRUE) /\ verdict' = "ok"
          /\ UNCHANGED <<faults, sunk>>
       \/ /\ ~(Constrained /\ ContextLive)
          /\ committed' = Stored(FALSE) /\ verdict' = "err"
          /\ sunk' = sunk \cup Items
          /\ UNCHANGED faults
       \/ /\ faults < MaxFaults /\ faults' = faults + 1
          /\ \E ok \in {FALSE, Constrained /\ ContextLive} : committed' = Stored(ok)
          /\ verdict' = "err" /\ sunk' = sunk \cup Items
    /\ wpc' = "notify"
    /\ UNCHANGED <<handlers, channels, ingestCh, batch, final, life, endpoints>>

\* Mutant of Answer: flushBatch returns on an error without waking the handlers.
NoAnswer(v) == IF v = "err" THEN "empty" ELSE v
Answer(v) == v

\* item.Result <- err, which blocks while the channel is full.
Notify ==
    /\ life # "exited" /\ wpc = "notify" /\ batch # <<>>
    /\ LET c == ch[Head(batch)] IN
       IF Durable
       THEN cell[c] = "empty" /\ cell' = [cell EXCEPT ![c] = Answer(verdict)]
       ELSE UNCHANGED cell
    /\ batch' = Tail(batch)
    /\ UNCHANGED <<handlers, pool, ingestCh, wpc, verdict, final, world, books>>

\* flushBatch returns: to the select, to the final drain, or for good.
Flushed ==
    /\ life # "exited" /\ wpc = "notify" /\ batch = <<>>
    /\ wpc' = CASE final = "no" -> "select"
                [] final = "more" -> "drain"
                [] final = "last" -> "stopped"
    /\ UNCHANGED <<handlers, channels, ingestCh, batch, verdict, final, world, books>>

Worker == First \/ BeginFinal \/ More \/ Enough \/ Flush \/ Notify \/ Flushed

-----------------------------------------------------------------------------
(***************************************************************************)
(* The rest of the process.                                                *)
(***************************************************************************)
\* DELETE /api/endpoints/{id}, seen by the foreign key of later batches only.
DeleteEndpoint(e) ==
    /\ life # "exited" /\ e \in endpoints \cap Deletable
    /\ endpoints' = endpoints \ {e}
    /\ UNCHANGED <<handlers, channels, ingestCh, worker, life, faults, books>>

\* srv.Shutdown closes the listener, ListenAndServe returns at once and main goes
\* on to cancel(): handlers may still be at work.
Stop ==
    /\ MayStop /\ life = "serving"
    /\ life' = "cancelled"
    /\ UNCHANGED <<handlers, channels, ingestCh, worker, endpoints, faults, books>>

\* st.Close() waits for the worker, then main returns.
Exit ==
    /\ life = "cancelled" /\ wpc = "stopped"
    /\ life' = "exited"
    /\ UNCHANGED <<handlers, channels, ingestCh, worker, endpoints, faults, books>>

Next ==
    \/ \E h \in Handlers : Handle(h)
    \/ Worker
    \/ \E e \in Deletable : DeleteEndpoint(e)
    \/ Stop \/ Exit

Spec == Init /\ [][Next]_vars

\* The worker runs, a handler with something to do does it (an answer that has
\* come, room or the timer), and main goes on once the worker has stopped.
Fairness ==
    /\ WF_vars(Worker)
    /\ \A h \in Handlers : WF_vars(Enqueue(h) \/ Overloaded(h)) /\ WF_vars(Answered(h))
    /\ WF_vars(Exit)

FairSpec == Spec /\ Fairness

-----------------------------------------------------------------------------
\* README.md:41.  In durable mode a handler that answered 200 had its request and
\* job committed, whatever the batches did to their neighbours, as long as its
\* result channel was not put back by a handler that stopped waiting for it.
AckedIsCommitted ==
    \A h \in Handlers :
        Durable /\ pc[h] = "acked" /\ ch[h] \notin orphaned => h \in committed

\* All or nothing: a handler that answered 500 left nothing behind, whichever row
\* of the batch was at fault, unless Commit itself failed (its outcome is then
\* unknown); a sender that tries again does not make a duplicate.
RefusedIsNotStored ==
    \A h \in Handlers :
        pc[h] = "e500" /\ ch[h] \notin orphaned /\ faults = 0 => h \notin committed

\* flushBatch wakes every handler of a batch on every path, also while the server
\* stops (store.go:426, sqlite.go:593-598).
EveryWaiterAnswered ==
    \A h \in Handlers : pc[h] = "wait" ~> (pc[h] # "wait" \/ life = "exited")

\* README.md:53-57.  A server that was asked to stop does: Close waits for the
\* worker, and the worker for nobody, even with a result channel that somebody put
\* back early.  It takes two senders that hang up for the worker to wait at
\* sqlite.go:596 for ever, and to refute both this and EveryWaiterAnswered.
StopEnds == life = "cancelled" ~> life = "exited"

\* README.md:42, 55.  In fast mode an acknowledged request reaches the store a little
\* later, also while the server stops, with two exceptions and no others: its batch
\* fails as a whole (for one endpoint that was deleted, by a flush with the context
\* that was cancelled, by an error of the database), or it is enqueued behind the
\* final drain.
AckedIsStored ==
    \A h \in Handlers : pc[h] = "acked" ~> h \in committed \cup sunk

\* The items in the channel.
InCh == {ingestCh[i] : i \in 1..Len(ingestCh)}

\* Nobody is left behind, whoever hangs up, fails or stops (store.go:426,
\* sqlite.go:523-598): a handler that waits has its answer or an item on its way to
\* one, the worker never blocks on a channel that nobody put back early, and it
\* does not stop before the server does.
NobodyStranded ==
    /\ \A h \in Handlers :
          pc[h] = "wait" /\ ch[h] \notin orphaned
              => cell[ch[h]] # "empty" \/ h \in InCh \cup Items
    /\ Durable /\ wpc = "notify" /\ batch # <<>> /\ ch[Head(batch)] \notin orphaned
          => cell[ch[Head(batch)]] = "empty"
    /\ wpc = "stopped" => life # "serving"

-----------------------------------------------------------------------------
(***************************************************************************)
(* What README.md:41 says without reserve: a sender that hangs up refutes  *)
(* it.                                                                     *)
(***************************************************************************)
\* Durable mode "blocks until the atomic batch transaction commits to durable storage,
\* and only then acknowledges 200 OK to the sender".
AckImpliesCommitted == \A h \in Handlers : pc[h] = "acked" => h \in committed

-----------------------------------------------------------------------------
\* The answer a handler has given.
Told(h) ==
    CASE pc[h] = "acked" -> "ok"
      [] pc[h] = "e500" -> "error"
      [] pc[h] = "e503" -> "busy"
      [] OTHER -> "nothing"

Contract ==
    INSTANCE Acknowledgment WITH
        Requests <- Handlers,
        stored <- committed,
        told <- [h \in Handlers |-> Told(h)],
        doubt <- orphaned # {},
        unsure <- faults # 0

\* In both modes channels, batches, the worker and the drain at shutdown make no
\* difference to a sender: what it is told and what is stored change only as
\* Acknowledgment allows (README.md:41-42).
ImplementsAcknowledgment == Contract!Spec
=============================================================================
