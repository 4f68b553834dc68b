------------------------------- MODULE Retention -------------------------------
(***************************************************************************)
(* The retention cleaner (PruneExpired, once an hour), the replay handler  *)
(* (internal/api/handler.go), the deletion of an endpoint and the workers  *)
(* that write delivery_jobs, all on the requests of one endpoint.  Rows of *)
(* requests go with their endpoint and rows of jobs with their request (ON *)
(* DELETE CASCADE), and neither can be inserted without the other          *)
(* (REFERENCES).                                                           *)
(*                                                                         *)
(* How a row gets to its status is Delivery's subject; a worker here holds *)
(* a copy of a job, from the claim to the statement that ends it.          *)
(***************************************************************************)
EXTENDS Naturals, FiniteSets

CONSTANTS
    Requests,   \* ids of requests
    Jobs,       \* ids of delivery jobs
    Workers,    \* holders of copies: workers, queue slots, the flusher
    Replayers,  \* handlers of POST /endpoints/{id}/replay/{request_id}
    Stores,     \* which of the two stores the configuration may choose
    None,       \* no job, no request
    MaxFaults   \* bound: statements of the cleaner that fail

ASSUME RetentionAssumption ==
    /\ Stores \subseteq {"sqlite", "postgres"}
    /\ None \notin Requests \cup Jobs
    /\ MaxFaults \in Nat

VARIABLES
    store,      \* the store in use
    endpoint,   \* the endpoint has a row
    requests,   \* requests that have a row
    used,       \* ids of requests given out
    old,        \* requests and jobs made before the cutoff
    rows,       \* rows[j]: the status of j's row, "none" without a row
    of,         \* of[j]: the request j was made for, None while j is not given out
    copy,       \* copy[w]: the job w works on, None when it has none
    replay,     \* replay[r]: a handler's place and the request it has read
    prune,      \* the cleaner's place
    victims,    \* Postgres: the requests its DELETE saw when it began
    faults,     \* statements of the cleaner that failed
    accepted,   \* history: jobs whose sender was told 200
    settled,    \* history: jobs that were delivered or given up
    fresh,      \* history: jobs that became pending since the DELETE began
    raced       \* history: fresh jobs that a DELETE removed

tables == <<endpoint, requests, used, old, rows, of>>
cleaner == <<prune, victims, faults>>
vars == <<store, endpoint, requests, used, old, rows, of, copy, replay,
          prune, victims, faults, accepted, settled, fresh, raced>>

Terminal == {"delivered", "failed"}
Statuses == {"none", "pending"} \cup Terminal

JobsOf(Q) == {j \in Jobs : of[j] \in Q}
Pending == {j \in Jobs : rows[j] = "pending"}

\* The columns' types and the two foreign keys.
TypeOK ==
    /\ store \in Stores /\ endpoint \in BOOLEAN
    /\ requests \subseteq used /\ used \subseteq Requests
    /\ old \subseteq Requests \cup Jobs
    /\ rows \in [Jobs -> Statuses] /\ of \in [Jobs -> Requests \cup {None}]
    /\ copy \in [Workers -> Jobs \cup {None}]
    /\ \A w \in Workers : copy[w] # None => of[copy[w]] # None
    /\ replay \in [Replayers -> [pc : {"idle", "endpoint", "create"},
                                 req : Requests \cup {None}]]
    /\ prune \in {"idle", "requests", "jobs"}
    /\ victims \subseteq Requests
    /\ faults \in 0..MaxFaults
    /\ accepted \subseteq Jobs /\ settled \subseteq Jobs
    /\ fresh \subseteq Jobs /\ raced \subseteq Jobs
    /\ requests # {} => endpoint
    /\ \A j \in Jobs : rows[j] # "none" => of[j] \in requests

Init ==
    /\ store \in Stores /\ endpoint = TRUE
    /\ requests = {} /\ used = {} /\ old = {}
    /\ rows = [j \in Jobs |-> "none"] /\ of = [j \in Jobs |-> None]
    /\ copy = [w \in Workers |-> None]
    /\ replay = [r \in Replayers |-> [pc |-> "idle", req |-> None]]
    /\ prune = "idle" /\ victims = {} /\ faults = 0
    /\ accepted = {} /\ settled = {} /\ fresh = {} /\ raced = {}

-----------------------------------------------------------------------------
(***************************************************************************)
(* Requests and jobs come.                                                 *)
(***************************************************************************)
\* Mutant of Referenced: the foreign key is not enforced.
Dangling(q) == TRUE
\* REFERENCES requests(id): the row of q is there.
Referenced(q) == q \in requests

\* An INSERT of a pending row for j, which is about q.
Insert(j, q) ==
    /\ of[j] = None
    /\ of' = [of EXCEPT ![j] = q]
    /\ rows' = [rows EXCEPT ![j] = "pending"]
    /\ fresh' = fresh \cup {j}
    /\ accepted' = accepted \cup {j}

\* A batch is committed: durable mode stores a job with the request, fast mode
\* does not.
CaptureWebhook(q) ==
    /\ endpoint /\ q \notin used
    /\ used' = used \cup {q} /\ requests' = requests \cup {q}
    /\ \/ \E j \in Jobs : Insert(j, q)
       \/ UNCHANGED <<of, rows, fresh, accepted>>
    /\ UNCHANGED <<store, endpoint, old, copy, replay, cleaner, settled, raced>>

\* Days pass.  Which of two rows is made first says little: received_at is local
\* time and created_at is UTC, and SQLite compares them as text.
Expire(x) ==
    /\ x \in requests \cup {j \in Jobs : of[j] # None}
    /\ old' = old \cup {x}
    /\ UNCHANGED <<store, endpoint, requests, used, rows, of, copy, replay, cleaner,
                   accepted, settled, fresh, raced>>

GoTo(r, label, q) == replay' = [replay EXCEPT ![r] = [pc |-> label, req |-> q]]

\* ReplayRequest reads the request, 404 when it is gone; reads the endpoint, 502
\* when it is gone; and inserts a job, 500 when its request is gone by now.
GetRequest(r, q) ==
    /\ replay[r].pc = "idle" /\ q \in requests
    /\ GoTo(r, "endpoint", q)
    /\ UNCHANGED <<store, tables, copy, cleaner, accepted, settled, fresh, raced>>

GetEndpoint(r) ==
    /\ replay[r].pc = "endpoint"
    /\ IF endpoint THEN GoTo(r, "create", replay[r].req) ELSE GoTo(r, "idle", None)
    /\ UNCHANGED <<store, tables, copy, cleaner, accepted, settled, fresh, raced>>

CreateDeliveryJob(r) ==
    /\ replay[r].pc = "create"
    /\ GoTo(r, "idle", None)
    /\ IF Referenced(replay[r].req)
       THEN \E j \in Jobs : Insert(j, replay[r].req)
       ELSE UNCHANGED <<of, rows, fresh, accepted>>
    /\ UNCHANGED <<store, endpoint, requests, used, old, copy, cleaner, settled, raced>>

-----------------------------------------------------------------------------
(***************************************************************************)
(* Workers.                                                                *)
(***************************************************************************)
\* A pending row is due, for the first time or because its lease has run out
\* while somebody else still has a copy.
Claim(w, j) ==
    /\ copy[w] = None /\ rows[j] = "pending"
    /\ copy' = [copy EXCEPT ![w] = j]
    /\ UNCHANGED <<store, tables, replay, cleaner, accepted, settled, fresh, raced>>

\* The target took it, and BatchMarkDelivered marks the row, or deletes it.
BatchMarkDelivered(w) ==
    /\ copy[w] # None
    /\ rows' = [rows EXCEPT ![copy[w]] =
                   IF @ = "none" \/ store = "sqlite" THEN "none" ELSE "delivered"]
    /\ settled' = settled \cup {copy[w]}
    /\ copy' = [copy EXCEPT ![w] = None]
    /\ UNCHANGED <<store, endpoint, requests, used, old, of, replay, cleaner, accepted,
                   fresh, raced>>

\* The call failed: an upsert with the copy's status, which inserts the row again
\* when it is gone and its request is not.  SQLite inserts created_at as the copy
\* has it, Postgres the present time.
SaveDeliveryJob(w, status) ==
    /\ copy[w] # None
    /\ LET j == copy[w] IN
       IF Referenced(of[j])
       THEN /\ rows' = [rows EXCEPT ![j] = status]
            /\ old' = IF rows[j] = "none" /\ store = "postgres" THEN old \ {j} ELSE old
            /\ settled' = IF status = "failed" THEN settled \cup {j} ELSE settled
            /\ fresh' = IF status = "pending" /\ rows[j] # "pending"
                        THEN fresh \cup {j} ELSE fresh
       ELSE UNCHANGED <<rows, old, settled, fresh>>
    /\ copy' = [copy EXCEPT ![w] = None]
    /\ UNCHANGED <<store, endpoint, requests, used, of, replay, cleaner, accepted, raced>>

\* A crash, or a write that fails: the row stays as it is.
Drop(w) ==
    /\ copy[w] # None
    /\ copy' = [copy EXCEPT ![w] = None]
    /\ UNCHANGED <<store, tables, replay, cleaner, accepted, settled, fresh, raced>>

-----------------------------------------------------------------------------
(***************************************************************************)
(* Rows go.                                                                *)
(***************************************************************************)
\* DELETE of requests, with the rows of their jobs.
DeleteCascade(Q) ==
    /\ requests' = requests \ Q
    /\ rows' = [j \in Jobs |-> IF of[j] \in Q THEN "none" ELSE rows[j]]

DeleteEndpoint ==
    /\ endpoint /\ endpoint' = FALSE
    /\ DeleteCascade(requests)
    /\ UNCHANGED <<store, used, old, of, copy, replay, cleaner, accepted, settled,
                   fresh, raced>>

\* Mutants of Spared: a job that was given up or delivered keeps its request too;
\* no job does.
SparedByAny(q) == \E j \in JobsOf({q}) : rows[j] # "none"
SparedByNone(q) == FALSE
\* NOT EXISTS a job that is not terminal, negated.
Spared(q) == \E j \in JobsOf({q}) : rows[j] \notin Terminal \cup {"none"}

Expired == {q \in requests \cap old : ~Spared(q)}

\* SQLite's statement is atomic.  Postgres's (READ COMMITTED) decides by what is
\* there when it begins: an INSERT into delivery_jobs only locks the request's row,
\* the DELETE waits for it and does not look again, and its cascade then sees the
\* new job.
Doomed == IF store = "postgres" THEN victims \cap requests ELSE Expired

BeginPrune ==
    /\ prune = "idle" /\ prune' = "requests"
    /\ victims' = IF store = "postgres" THEN Expired ELSE {}
    /\ fresh' = {}
    /\ UNCHANGED <<store, tables, copy, replay, faults, accepted, settled, raced>>

PruneRequests ==
    /\ prune = "requests" /\ prune' = "jobs"
    /\ DeleteCascade(Doomed)
    /\ victims' = {}
    /\ raced' = raced \cup (JobsOf(Doomed) \cap Pending \cap fresh)
    /\ UNCHANGED <<store, endpoint, used, old, of, copy, replay, faults, accepted,
                   settled, fresh>>

\* A row that another statement changes meanwhile is looked at again.
PruneJobs ==
    /\ prune = "jobs" /\ prune' = "idle"
    /\ rows' = [j \in Jobs |-> IF rows[j] \in Terminal /\ j \in old
                               THEN "none" ELSE rows[j]]
    /\ UNCHANGED <<store, endpoint, requests, used, old, of, copy, replay, victims,
                   faults, accepted, settled, fresh, raced>>

\* A statement fails; the next try is in an hour.
FailPrune ==
    /\ prune # "idle" /\ prune' = "idle"
    /\ faults < MaxFaults /\ faults' = faults + 1
    /\ victims' = {}
    /\ UNCHANGED <<store, tables, copy, replay, accepted, settled, fresh, raced>>

PruneExpired == BeginPrune \/ PruneRequests \/ PruneJobs \/ FailPrune

-----------------------------------------------------------------------------
Next ==
    \/ \E q \in Requests : CaptureWebhook(q)
    \/ \E x \in Requests \cup Jobs : Expire(x)
    \/ \E r \in Replayers : \/ \E q \in Requests : GetRequest(r, q)
                            \/ GetEndpoint(r) \/ CreateDeliveryJob(r)
    \/ \E w \in Workers : \/ \E j \in Jobs : Claim(w, j)
                          \/ BatchMarkDelivered(w) \/ Drop(w)
                          \/ \E status \in {"pending", "failed"} : SaveDeliveryJob(w, status)
    \/ DeleteEndpoint
    \/ PruneExpired

Spec == Init /\ [][Next]_vars

\* The ticker of the cleaner never stops.
FairSpec == Spec /\ WF_vars(PruneExpired)

-----------------------------------------------------------------------------
(***************************************************************************)
(* Properties.                                                             *)
(***************************************************************************)
\* While its endpoint exists, a job whose sender was told 200, by the capture or
\* by the replay handler, is pending until it is delivered or given up, however
\* long that takes: the cleaner never takes it away.  Only on Postgres may it, and
\* only a job that became pending while the DELETE was running (sqlite.go:464-471,
\* store.go:461-468).
AcceptedKept ==
    endpoint => \A j \in accepted :
        \/ j \in settled \cup Pending
        \/ store = "postgres" /\ j \in raced

\* An expired request whose jobs are all terminal goes, and so does an expired
\* terminal job, unless a stale copy or a replay makes work for it again
\* (sqlite.go:464-480).
ExpiredIsPruned ==
    /\ \A q \in Requests :
          (q \in requests \cap old /\ JobsOf({q}) \cap Pending = {})
             ~> (q \notin requests \/ JobsOf({q}) \cap Pending # {})
    /\ \A j \in Jobs :
          (j \in old /\ rows[j] \in Terminal) ~> (rows[j] \notin Terminal \/ j \notin old)
=============================================================================
