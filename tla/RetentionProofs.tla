--------------------------- MODULE RetentionProofs ---------------------------
(***************************************************************************)
(* For any number of requests, jobs, copies and replays, and both stores:  *)
(* the foreign keys hold, and no job is forgotten whose sender was told    *)
(* 200, but for the one race of Postgres's DELETE.                         *)
(***************************************************************************)
EXTENDS Retention, TLAPS

-----------------------------------------------------------------------------
(***************************************************************************)
(* The helpers.                                                            *)
(***************************************************************************)
\* An insert gives a job that was not given out a pending row.
LEMMA InsertEffect ==
    ASSUME TypeOK, NEW j \in Jobs, NEW q \in Requests, Insert(j, q)
    PROVE  /\ rows' \in [Jobs -> Statuses] /\ of' \in [Jobs -> Requests \cup {None}]
           /\ of[j] = None /\ of'[j] = q /\ rows'[j] = "pending"
           /\ fresh' = fresh \cup {j} /\ accepted' = accepted \cup {j}
           /\ \A i \in Jobs \ {j} : rows'[i] = rows[i] /\ of'[i] = of[i]
  BY DEF TypeOK, Insert, Statuses

\* A cascade leaves the rows of the other requests alone.
LEMMA CascadeEffect ==
    ASSUME TypeOK, NEW Q, DeleteCascade(Q)
    PROVE  /\ rows' \in [Jobs -> Statuses]
           /\ requests' = requests \ Q
           /\ \A j \in Jobs : rows'[j] = IF of[j] \in Q THEN "none" ELSE rows[j]
  BY DEF TypeOK, DeleteCascade, Statuses

\* A save changes the one row, when its request is there.
LEMMA SaveEffect ==
    ASSUME TypeOK, NEW w \in Workers, NEW status \in {"pending", "failed"},
           SaveDeliveryJob(w, status)
    PROVE  /\ copy[w] \in Jobs
           /\ rows' \in [Jobs -> Statuses]
           /\ \A i \in Jobs \ {copy[w]} : rows'[i] = rows[i]
           /\ \/ /\ of[copy[w]] \in requests
                 /\ rows'[copy[w]] = status
                 /\ status = "failed" => settled' = settled \cup {copy[w]}
                 /\ status = "pending" => settled' = settled
                 /\ \/ fresh' = fresh \cup {copy[w]}
                    \/ fresh' = fresh /\ (status = "pending" => rows[copy[w]] = "pending")
              \/ rows' = rows /\ settled' = settled /\ fresh' = fresh
           /\ settled \subseteq settled' /\ settled' \subseteq Jobs
           /\ fresh \subseteq fresh' /\ fresh' \subseteq Jobs
           /\ old' \subseteq old
<1>1. copy[w] \in Jobs
  BY DEF TypeOK, SaveDeliveryJob
<1>2. CASE Referenced(of[copy[w]])
  BY <1>1, <1>2 DEF TypeOK, SaveDeliveryJob, Statuses, Terminal, Referenced
<1>3. CASE ~Referenced(of[copy[w]])
  BY <1>1, <1>3 DEF TypeOK, SaveDeliveryJob
<1> QED
  BY <1>2, <1>3

-----------------------------------------------------------------------------
(***************************************************************************)
(* Types and foreign keys.                                                 *)
(***************************************************************************)
LEMMA InitType == Init => TypeOK
  BY RetentionAssumption DEF Init, TypeOK, Statuses

LEMMA CaptureType ==
    ASSUME TypeOK, NEW q \in Requests, CaptureWebhook(q) PROVE TypeOK'
<1>1. CASE \E j \in Jobs : Insert(j, q)
  <2>1. PICK j \in Jobs : Insert(j, q)
    BY <1>1
  <2> QED
    BY <2>1, InsertEffect, RetentionAssumption
    DEF TypeOK, CaptureWebhook, cleaner, Statuses
<1>2. CASE UNCHANGED <<of, rows, fresh, accepted>>
  BY <1>2 DEF TypeOK, CaptureWebhook, cleaner
<1> QED
  BY <1>1, <1>2 DEF CaptureWebhook

LEMMA ReplayType ==
    ASSUME TypeOK, NEW r \in Replayers,
           \/ \E q \in Requests : GetRequest(r, q)
           \/ GetEndpoint(r) \/ CreateDeliveryJob(r)
    PROVE  TypeOK'
<1>1. CASE \E q \in Requests : GetRequest(r, q)
  BY <1>1 DEF TypeOK, GetRequest, GoTo, tables, cleaner
<1>2. CASE GetEndpoint(r)
  BY <1>2 DEF TypeOK, GetEndpoint, GoTo, tables, cleaner
<1>3. CASE CreateDeliveryJob(r)
  <2> DEFINE q == replay[r].req
  <2>1. replay' \in [Replayers -> [pc : {"idle", "endpoint", "create"},
                                   req : Requests \cup {None}]]
    BY <1>3 DEF TypeOK, CreateDeliveryJob, GoTo
  <2>2. CASE Referenced(q)
    <3>1. PICK j \in Jobs : Insert(j, q)
      BY <1>3, <2>2 DEF CreateDeliveryJob
    <3>2. q \in requests /\ q \in Requests
      BY <2>2 DEF Referenced, TypeOK
    <3> QED
      BY <1>3, <2>1, <3>1, <3>2, InsertEffect, RetentionAssumption
      DEF TypeOK, CreateDeliveryJob, cleaner, Statuses
  <2>3. CASE ~Referenced(q)
    BY <1>3, <2>1, <2>3 DEF TypeOK, CreateDeliveryJob, cleaner
  <2> QED
    BY <2>2, <2>3
<1> QED
  BY <1>1, <1>2, <1>3

LEMMA WorkerType ==
    ASSUME TypeOK, NEW w \in Workers,
           \/ \E j \in Jobs : Claim(w, j)
           \/ BatchMarkDelivered(w) \/ Drop(w)
           \/ \E status \in {"pending", "failed"} : SaveDeliveryJob(w, status)
    PROVE  TypeOK'
<1>1. CASE \E j \in Jobs : Claim(w, j)
  BY <1>1, RetentionAssumption DEF TypeOK, Claim, tables, cleaner
<1>2. CASE BatchMarkDelivered(w)
  BY <1>2 DEF TypeOK, BatchMarkDelivered, cleaner, Statuses, Terminal
<1>3. CASE Drop(w)
  BY <1>3 DEF TypeOK, Drop, tables, cleaner
<1>4. CASE \E status \in {"pending", "failed"} : SaveDeliveryJob(w, status)
  <2>1. PICK status \in {"pending", "failed"} : SaveDeliveryJob(w, status)
    BY <1>4
  <2>2. /\ copy' \in [Workers -> Jobs \cup {None}]
        /\ \A v \in Workers : copy'[v] # None => copy'[v] = copy[v]
    BY <2>1 DEF TypeOK, SaveDeliveryJob
  <2> QED
    BY <2>1, <2>2, SaveEffect DEF TypeOK, SaveDeliveryJob, cleaner
<1> QED
  BY <1>1, <1>2, <1>3, <1>4

LEMMA DeletionType ==
    ASSUME TypeOK, DeleteEndpoint \/ PruneExpired PROVE TypeOK'
<1>1. CASE DeleteEndpoint
  <2>1. DeleteCascade(requests)
    BY <1>1 DEF DeleteEndpoint
  <2> QED
    BY <1>1, <2>1, CascadeEffect DEF TypeOK, DeleteEndpoint, cleaner
<1>2. CASE BeginPrune
  BY <1>2 DEF TypeOK, BeginPrune, tables, Expired
<1>3. CASE PruneRequests
  <2>1. DeleteCascade(Doomed)
    BY <1>3 DEF PruneRequests
  <2> QED
    BY <1>3, <2>1, CascadeEffect DEF TypeOK, PruneRequests, Pending
<1>4. CASE PruneJobs
  BY <1>4 DEF TypeOK, PruneJobs, Statuses, Terminal
<1>5. CASE FailPrune
  BY <1>5, RetentionAssumption DEF TypeOK, FailPrune, tables
<1> QED
  BY <1>1, <1>2, <1>3, <1>4, <1>5 DEF PruneExpired

LEMMA ExpireType == ASSUME TypeOK, NEW x, Expire(x) PROVE TypeOK'
  BY DEF TypeOK, Expire, cleaner

LEMMA NextType == TypeOK /\ [Next]_vars => TypeOK'
<1>1. ASSUME TypeOK, UNCHANGED vars PROVE TypeOK'
  BY <1>1 DEF TypeOK, vars
<1> QED
  BY <1>1, CaptureType, ReplayType, WorkerType, DeletionType, ExpireType DEF Next

\* Every reachable state has its types and its foreign keys: whatever the cascades,
\* the cleaner and the upserts of stale copies do, a job's row has its request and
\* a request its endpoint (sqlite.go:66-95).
THEOREM TypeCorrect == Spec => []TypeOK
<1>1. Init => TypeOK
  BY InitType
<1>2. TypeOK /\ [Next]_vars => TypeOK'
  BY NextType
<1> QED
  BY <1>1, <1>2, PTL DEF Spec

-----------------------------------------------------------------------------
(***************************************************************************)
(* What is accepted is kept.  While Postgres's DELETE runs, a victim has   *)
(* no pending job but one that became pending since.                       *)
(***************************************************************************)
VictimsKnown ==
    /\ store # "postgres" => victims = {}
    /\ JobsOf(victims) \cap Pending \subseteq fresh

KInv == TypeOK /\ VictimsKnown /\ AcceptedKept

LEMMA InitKept == Init => KInv
<1> SUFFICES ASSUME Init PROVE KInv
  OBVIOUS
<1>1. VictimsKnown
  BY RetentionAssumption DEF Init, VictimsKnown, JobsOf, Pending
<1>2. AcceptedKept
  BY DEF Init, AcceptedKept
<1> QED
  BY <1>1, <1>2, InitType DEF KInv

\* An insert makes a job that is pending, and fresh.
LEMMA InsertKept ==
    ASSUME KInv, NEW j \in Jobs, NEW q \in Requests, Insert(j, q),
           UNCHANGED <<store, victims, settled, raced, endpoint>>
    PROVE  VictimsKnown' /\ AcceptedKept'
<1>1. TypeOK
  BY DEF KInv
<1>2. VictimsKnown'
  BY <1>1, InsertEffect DEF KInv, VictimsKnown, JobsOf, Pending
<1>3. AcceptedKept'
  <2> SUFFICES ASSUME endpoint', NEW i \in accepted'
               PROVE  i \in settled' \cup Pending' \/ (store' = "postgres" /\ i \in raced')
    BY DEF AcceptedKept
  <2>1. CASE i = j
    BY <2>1, <1>1, InsertEffect DEF Pending
  <2>2. CASE i # j
    BY <2>2, <1>1, InsertEffect DEF KInv, AcceptedKept, Pending, TypeOK
  <2> QED
    BY <2>1, <2>2
<1> QED
  BY <1>2, <1>3

\* Steps that write no row of a job.
LEMMA SameRowsKept ==
    ASSUME KInv, UNCHANGED <<store, endpoint, rows, of, victims, accepted, settled,
                             fresh, raced>>
    PROVE  VictimsKnown' /\ AcceptedKept'
  BY DEF KInv, VictimsKnown, AcceptedKept, JobsOf, Pending

LEMMA ComingKept ==
    ASSUME KInv,
           \/ \E q \in Requests : CaptureWebhook(q)
           \/ \E x \in Requests \cup Jobs : Expire(x)
           \/ \E r \in Replayers : \/ \E q \in Requests : GetRequest(r, q)
                                   \/ GetEndpoint(r) \/ CreateDeliveryJob(r)
    PROVE  VictimsKnown' /\ AcceptedKept'
<1>1. CASE \E q \in Requests : CaptureWebhook(q)
  <2>1. PICK q \in Requests : CaptureWebhook(q)
    BY <1>1
  <2>2. CASE \E j \in Jobs : Insert(j, q)
    BY <2>1, <2>2, InsertKept DEF CaptureWebhook, cleaner
  <2>3. CASE UNCHANGED <<of, rows, fresh, accepted>>
    BY <2>1, <2>3, SameRowsKept DEF CaptureWebhook, cleaner
  <2> QED
    BY <2>1, <2>2, <2>3 DEF CaptureWebhook
<1>2. CASE \E x \in Requests \cup Jobs : Expire(x)
  BY <1>2, SameRowsKept DEF Expire, cleaner
<1>3. ASSUME NEW r \in Replayers, NEW q \in Requests, GetRequest(r, q)
      PROVE  VictimsKnown' /\ AcceptedKept'
  BY <1>3, SameRowsKept DEF GetRequest, tables, cleaner
<1>4. ASSUME NEW r \in Replayers, GetEndpoint(r) PROVE VictimsKnown' /\ AcceptedKept'
  BY <1>4, SameRowsKept DEF GetEndpoint, tables, cleaner
<1>5. ASSUME NEW r \in Replayers, CreateDeliveryJob(r)
      PROVE  VictimsKnown' /\ AcceptedKept'
  <2>1. CASE Referenced(replay[r].req)
    <3>1. PICK j \in Jobs : Insert(j, replay[r].req)
      BY <1>5, <2>1 DEF CreateDeliveryJob
    <3>2. replay[r].req \in Requests
      BY <2>1 DEF Referenced, KInv, TypeOK
    <3> QED
      BY <1>5, <3>1, <3>2, InsertKept DEF CreateDeliveryJob, cleaner
  <2>2. CASE ~Referenced(replay[r].req)
    BY <1>5, <2>2, SameRowsKept DEF CreateDeliveryJob, cleaner
  <2> QED
    BY <2>1, <2>2
<1> QED
  BY <1>1, <1>2, <1>3, <1>4, <1>5

LEMMA WorkerKept ==
    ASSUME KInv, NEW w \in Workers,
           \/ \E j \in Jobs : Claim(w, j)
           \/ BatchMarkDelivered(w) \/ Drop(w)
           \/ \E status \in {"pending", "failed"} : SaveDeliveryJob(w, status)
    PROVE  VictimsKnown' /\ AcceptedKept'
<1> USE DEF KInv
<1>1. CASE (\E j \in Jobs : Claim(w, j)) \/ Drop(w)
  BY <1>1, SameRowsKept DEF Claim, Drop, tables, cleaner
<1>2. CASE BatchMarkDelivered(w)
  <2>1. /\ copy[w] \in Jobs /\ settled' = settled \cup {copy[w]}
        /\ rows' \in [Jobs -> Statuses] /\ rows'[copy[w]] # "pending"
        /\ \A i \in Jobs \ {copy[w]} : rows'[i] = rows[i]
    BY <1>2 DEF TypeOK, BatchMarkDelivered, Statuses, Terminal
  <2>2. UNCHANGED <<store, endpoint, of, victims, accepted, fresh, raced>>
    BY <1>2 DEF BatchMarkDelivered, cleaner
  <2>3. VictimsKnown'
    BY <2>1, <2>2 DEF VictimsKnown, JobsOf, Pending
  <2>4. AcceptedKept'
    BY <2>1, <2>2 DEF AcceptedKept, Pending, TypeOK
  <2> QED
    BY <2>3, <2>4
<1>3. CASE \E status \in {"pending", "failed"} : SaveDeliveryJob(w, status)
  <2>1. PICK status \in {"pending", "failed"} : SaveDeliveryJob(w, status)
    BY <1>3
  <2>2. UNCHANGED <<store, endpoint, of, victims, accepted, raced>>
    BY <2>1 DEF SaveDeliveryJob, cleaner
  <2>3. VictimsKnown'
    BY <2>1, <2>2, SaveEffect DEF VictimsKnown, JobsOf, Pending
  <2>4. AcceptedKept'
    BY <2>1, <2>2, SaveEffect DEF AcceptedKept, Pending, TypeOK
  <2> QED
    BY <2>3, <2>4
<1> QED
  BY <1>1, <1>2, <1>3

\* What a DELETE of requests takes with it: no job that is owed, or a fresh one.
LEMMA PruneKept ==
    ASSUME KInv, PruneRequests
    PROVE  VictimsKnown' /\ AcceptedKept'
<1>1. TypeOK
  BY DEF KInv
<1>2. DeleteCascade(Doomed) /\ victims' = {}
  BY DEF PruneRequests
<1>3. UNCHANGED <<store, endpoint, of, accepted, settled, fresh>>
  BY DEF PruneRequests
<1>4. VictimsKnown'
  BY <1>2 DEF VictimsKnown, JobsOf
<1>5. ASSUME NEW j \in JobsOf(Doomed) \cap Pending
      PROVE  store = "postgres" /\ j \in raced'
  <2>1. j \in Jobs /\ rows[j] = "pending" /\ of[j] \in Doomed
    BY <1>5 DEF JobsOf, Pending
  <2>2. CASE store = "postgres"
    <3>1. of[j] \in victims
      BY <2>1, <2>2 DEF Doomed
    <3>2. j \in fresh
      BY <2>1, <3>1 DEF KInv, VictimsKnown, JobsOf, Pending
    <3> QED
      BY <1>5, <2>2, <3>2 DEF PruneRequests
  <2>3. CASE store # "postgres"
    <3>1. ~Spared(of[j])
      BY <2>1, <2>3 DEF Doomed, Expired
    <3>2. Spared(of[j])
      BY <2>1 DEF Spared, JobsOf, Terminal
    <3> QED
      BY <3>1, <3>2
  <2> QED
    BY <2>2, <2>3
<1>6. AcceptedKept'
  <2> SUFFICES ASSUME endpoint', NEW j \in accepted'
               PROVE  j \in settled' \cup Pending' \/ (store' = "postgres" /\ j \in raced')
    BY DEF AcceptedKept
  <2>1. j \in Jobs /\ raced \subseteq raced'
    BY <1>1, <1>3 DEF TypeOK, PruneRequests
  <2>2. j \in settled \cup Pending \/ (store = "postgres" /\ j \in raced)
    BY <1>3 DEF KInv, AcceptedKept
  <2>3. CASE j \in Pending /\ of[j] \in Doomed
    BY <1>3, <1>5, <2>1, <2>3 DEF JobsOf
  <2>4. CASE j \in Pending /\ of[j] \notin Doomed
    BY <1>1, <1>2, <2>1, <2>4, CascadeEffect DEF Pending
  <2>5. CASE j \notin Pending
    BY <1>3, <2>1, <2>2, <2>5
  <2> QED
    BY <2>3, <2>4, <2>5
<1> QED
  BY <1>4, <1>6

LEMMA DeletionKept ==
    ASSUME KInv, DeleteEndpoint \/ PruneExpired
    PROVE  VictimsKnown' /\ AcceptedKept'
<1>1. CASE DeleteEndpoint
  <2>1. DeleteCascade(requests) /\ ~endpoint'
    BY <1>1 DEF DeleteEndpoint
  <2>2. UNCHANGED <<store, of, victims, fresh>>
    BY <1>1 DEF DeleteEndpoint, cleaner
  <2>3. \A j \in Jobs : rows'[j] = "pending" => rows[j] = "pending"
    BY <2>1, CascadeEffect DEF KInv
  <2> QED
    BY <2>1, <2>2, <2>3 DEF KInv, VictimsKnown, AcceptedKept, JobsOf, Pending
<1>2. CASE BeginPrune
  <2>1. JobsOf(victims') \cap Pending = {}
    BY <1>2 DEF BeginPrune, Expired, Spared, JobsOf, Pending, Terminal
  <2> QED
    BY <1>2, <2>1
    DEF BeginPrune, tables, KInv, VictimsKnown, AcceptedKept, JobsOf, Pending
<1>3. CASE PruneRequests
  BY <1>3, PruneKept
<1>4. CASE PruneJobs
  <2>1. \A j \in Jobs : rows'[j] = "pending" <=> rows[j] = "pending"
    BY <1>4 DEF PruneJobs, Terminal
  <2>2. Pending' = Pending
    BY <2>1 DEF Pending
  <2> QED
    BY <1>4, <2>2 DEF PruneJobs, KInv, VictimsKnown, AcceptedKept, JobsOf
<1>5. CASE FailPrune
  BY <1>5 DEF FailPrune, tables, KInv, VictimsKnown, AcceptedKept, JobsOf, Pending
<1> QED
  BY <1>1, <1>2, <1>3, <1>4, <1>5 DEF PruneExpired

LEMMA NextKept == KInv /\ [Next]_vars => KInv'
<1> SUFFICES ASSUME KInv, [Next]_vars PROVE KInv'
  OBVIOUS
<1>1. TypeOK'
  BY NextType DEF KInv
<1>2. CASE Next
  BY <1>2, <1>1, ComingKept, WorkerKept, DeletionKept DEF Next, KInv
<1>3. CASE UNCHANGED vars
  BY <1>3, <1>1, SameRowsKept DEF KInv, vars
<1> QED
  BY <1>2, <1>3

\* However long a job is pending, the cleaner does not take it away while its
\* endpoint exists, and on Postgres only one that became pending while the DELETE
\* was running (sqlite.go:464-471, store.go:461-468).
THEOREM AcceptedIsKept == Spec => []AcceptedKept
<1>1. Init => KInv
  BY InitKept
<1>2. KInv /\ [Next]_vars => KInv'
  BY NextKept
<1>3. KInv => AcceptedKept
  BY DEF KInv
<1> QED
  BY <1>1, <1>2, <1>3, PTL DEF Spec
=============================================================================
