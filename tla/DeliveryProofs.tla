--------------------------- MODULE DeliveryProofs ---------------------------
(***************************************************************************)
(* For any number of jobs and goroutines, any capacities and limits, any   *)
(* number of store errors, refusals, shutdowns and crashes: in durable     *)
(* mode nothing acknowledged is forgotten, and in both modes a job is      *)
(* given up after MaxAttempts real calls only and processed by one         *)
(* goroutine at a time; fast mode loses jobs in four known ways only.      *)
(***************************************************************************)
EXTENDS Delivery, SequenceTheorems, TLAPS

\* A copy that may still be sent counts fewer than MaxAttempts attempts, and no
\* more than there were failed calls.
GoodCopy(c) ==
    /\ c \in Copies
    /\ c.attempts <= tries[c.job]
    /\ c.attempts < MaxAttempts
    /\ c.status = "pending"

\* A copy whose call is over says "failed" exactly when it counts MaxAttempts.
UsedCopy(c) ==
    /\ c \in Copies
    /\ c.attempts <= tries[c.job]
    /\ c.status = "failed" <=> c.attempts = MaxAttempts

CopiesGood ==
    /\ \A i \in 1..Len(queue) : GoodCopy(queue[i])
    /\ \A c \in claimed : GoodCopy(c)
    /\ \A w \in Goroutines :
          /\ pc[w] \in {"begin", "load", "gate", "send"} => GoodCopy(copy[w])
          /\ pc[w] \in {"mark", "save", "release"} => UsedCopy(copy[w])

\* The same of a row, whose request is always there.
GoodRow(j) ==
    /\ row[j].attempts <= tries[j]
    /\ row[j].status = "failed" => row[j].attempts = MaxAttempts
    /\ row[j].status = "pending" => row[j].attempts < MaxAttempts
    /\ row[j].status # "none" => stage[j] = "stored"

RowsGood == \A j \in Jobs : GoodRow(j)

\* Only jobs that were received are on their way to be marked.
DoneReceived ==
    /\ \A i \in 1..Len(doneCh) : doneCh[i] \in received
    /\ ids \subseteq received
    /\ \A w \in Goroutines : pc[w] = "mark" => Job(w) \in received

\* A stored job is owed, failed or received; an accepted one is stored.
StoredKept ==
    Durable =>
        \A j \in Jobs :
            /\ stage[j] = "stored" =>
                  row[j].status \in {"pending", "failed"} \/ j \in received
            /\ j \in accepted => stage[j] = "stored"

\* processing names the job of every goroutine that holds one, and nothing else.
Exclusive ==
    /\ \A w \in Goroutines : Busy(w) => Job(w) \in processing
    /\ \A j \in processing : \E w \in Goroutines : Busy(w) /\ Job(w) = j
    /\ \A v, w \in Goroutines : v # w /\ Busy(v) /\ Busy(w) => Job(v) # Job(w)

IInv ==
    TypeOK /\ CopiesGood /\ RowsGood /\ DoneReceived /\ StoredKept /\ Exclusive

-----------------------------------------------------------------------------
(* Types *)

LEMMA CapturedType ==
    ASSUME NEW j \in Jobs
    PROVE  Captured(j) \in Copies
  BY DeliveryAssumption DEF Captured, Copies

LEMMA LeasedType ==
    ASSUME TypeOK, NEW j \in Jobs
    PROVE  Leased(j) \in Copies
  BY DEF TypeOK, StoreType, Leased, Copies, Rows

LEMMA MarkedType ==
    ASSUME TypeOK, NEW S
    PROVE  Marked(S) \in [Jobs -> Rows]
<1> SUFFICES ASSUME NEW j \in Jobs PROVE Marked(S)[j] \in Rows
  BY DEF Marked
<1>1. row[j] \in Rows
  BY DEF TypeOK, StoreType
<1>2. NoRow \in Rows /\ [status |-> "delivered", attempts |-> row[j].attempts,
      due |-> FALSE] \in Rows
  BY <1>1, DeliveryAssumption DEF Rows, NoRow
<1> QED
  BY <1>1, <1>2 DEF Marked

LEMMA FaultType ==
    ASSUME TypeOK, Works \/ Fails \/ Fault
    PROVE  faults' \in 0..MaxFaults
  BY DeliveryAssumption DEF TypeOK, ControlType, Works, Fails, Fault

LEMMA ForgetType ==
    ASSUME TypeOK, NEW S \in SUBSET Jobs, Forget(S)
    PROVE  forgotten' \subseteq Jobs
  BY DEF Forget, TypeOK, ControlType

LEMMA JobType ==
    ASSUME TypeOK, NEW w \in Goroutines, pc[w] # "idle"
    PROVE  copy[w] \in Copies /\ Job(w) \in Jobs
  BY DEF TypeOK, WorkerType, Copies, Job

LEMMA OutcomeType ==
    ASSUME NEW c \in Copies, c.attempts < MaxAttempts
    PROVE  Outcome(c, Attempted(c)) \in Copies
  BY DeliveryAssumption DEF Outcome, Attempted, Exhausted, Copies

LEMMA TypeInit == Init => TypeOK
  BY DeliveryAssumption
     DEF Init, TypeOK, StoreType, QueueType, WorkerType, FlusherType, ControlType,
         Rows, NoRow

-----------------------------------------------------------------------------
(* What the steps have in common *)

\* The copies in the queue, as one predicate.
QueueGood == \A i \in 1..Len(queue) : GoodCopy(queue[i])

\* A copy appended to the queue, or dropped, leaves a queue of good copies.
LEMMA AppendGood ==
    ASSUME IInv, NEW c, GoodCopy(c), UNCHANGED tries, Len(queue) < QueueCap,
           queue' = Append(queue, c)
    PROVE  queue' \in Seq(Copies) /\ Len(queue') <= QueueCap /\ QueueGood'
<1>1. queue \in Seq(Copies) /\ c \in Copies
  BY DEF IInv, TypeOK, QueueType, GoodCopy
<1>2. /\ queue' \in Seq(Copies) /\ Len(queue') = Len(queue) + 1
      /\ \A i \in 1..Len(queue) : queue'[i] = queue[i]
      /\ queue'[Len(queue) + 1] = c
  BY <1>1, AppendProperties
<1>3. ASSUME NEW i \in 1..Len(queue') PROVE GoodCopy(queue[i])'
  <2>1. Len(queue) \in Nat
    BY <1>1, LenProperties
  <2>2. CASE i = Len(queue) + 1
    BY <1>2, <2>2 DEF GoodCopy
  <2>3. CASE i \in 1..Len(queue)
    BY <1>2, <2>3 DEF IInv, CopiesGood, GoodCopy
  <2> QED BY <1>2, <2>1, <2>2, <2>3
<1>4. Len(queue') <= QueueCap
  BY <1>1, <1>2, LenProperties, DeliveryAssumption
<1> QED BY <1>2, <1>3, <1>4 DEF QueueGood

LEMMA PushGood ==
    ASSUME IInv, NEW c, GoodCopy(c), Push(c), UNCHANGED tries
    PROVE  queue' \in Seq(Copies) /\ Len(queue') <= QueueCap /\ QueueGood'
<1>1. CASE Len(queue) < QueueCap
  BY <1>1, AppendGood DEF Push
<1>2. CASE ~(Len(queue) < QueueCap)
  BY <1>2 DEF Push, IInv, TypeOK, QueueType, CopiesGood, QueueGood, GoodCopy
<1> QED BY <1>1, <1>2

LEMMA CapturedGood ==
    ASSUME IInv, NEW j \in Jobs
    PROVE  GoodCopy(Captured(j))
<1>1. tries[j] \in 0..MaxAttempts
  BY DEF IInv, TypeOK, ControlType
<1>2. Captured(j).attempts = 0 /\ Captured(j).job = j /\ Captured(j).status = "pending"
  BY DEF Captured
<1> QED BY <1>1, <1>2, CapturedType, DeliveryAssumption DEF GoodCopy

LEMMA LeasedGood ==
    ASSUME IInv, NEW j \in Jobs, row[j].status = "pending"
    PROVE  GoodCopy(Leased(j))
<1>1. GoodRow(j) /\ row[j].attempts \in Nat
  BY DeliveryAssumption DEF IInv, RowsGood, TypeOK, StoreType, Rows
<1>2. /\ Leased(j).attempts = row[j].attempts
      /\ Leased(j).job = j
      /\ Leased(j).status = "pending"
  BY DEF Leased
<1> QED BY <1>1, <1>2, LeasedType, DeliveryAssumption DEF GoodCopy, GoodRow, IInv

\* Marking delivered jobs disturbs no promise: they were received.
LEMMA MarkedGood ==
    ASSUME IInv, NEW S, S \cap Jobs \subseteq received, row' = Marked(S),
           UNCHANGED <<stage, accepted, received, tries>>
    PROVE  StoreType' /\ RowsGood' /\ StoredKept'
<1>1. StoreType'
  BY MarkedType DEF IInv, TypeOK, StoreType
<1>2. ASSUME NEW j \in Jobs
      PROVE  \/ row'[j] = row[j]
             \/ /\ j \in received
                /\ row'[j] = NoRow
             \/ /\ j \in received /\ row[j].status # "none"
                /\ row'[j] = [status |-> "delivered", attempts |-> row[j].attempts,
                              due |-> FALSE]
  BY DEF Marked
<1>3. RowsGood'
  <2> SUFFICES ASSUME NEW j \in Jobs PROVE GoodRow(j)'
    BY DEF RowsGood
  <2>1. GoodRow(j) /\ tries[j] \in 0..MaxAttempts /\ row[j] \in Rows
    BY DEF IInv, RowsGood, TypeOK, ControlType, StoreType
  <2>2. CASE row'[j] = row[j]
    BY <2>1, <2>2 DEF GoodRow
  <2>3. CASE row'[j] = NoRow
    BY <2>1, <2>3, DeliveryAssumption DEF GoodRow, NoRow
  <2>4. CASE /\ row[j].status # "none"
             /\ row'[j] = [status |-> "delivered", attempts |-> row[j].attempts,
                           due |-> FALSE]
    BY <2>1, <2>4 DEF GoodRow
  <2> QED BY <1>2, <2>2, <2>3, <2>4
<1>4. StoredKept'
  BY <1>2 DEF IInv, StoredKept
<1> QED BY <1>1, <1>3, <1>4

\* A goroutine inside processJob that moves on with the same copy.
LEMMA MoveGood ==
    ASSUME IInv, NEW w \in Goroutines, Busy(w),
           NEW label \in {"gate", "send", "mark", "save", "release"}, GoTo(w, label),
           label \in {"gate", "send"} => pc[w] \in {"load", "gate"},
           label = "mark" => Job(w) \in received',
           received \subseteq received',
           UNCHANGED <<queue, claimed, processing, copy, tries>>
    PROVE  /\ WorkerType' /\ CopiesGood' /\ Exclusive'
           /\ \A v \in Goroutines : pc'[v] = "mark" => Job(v)' \in received'
<1>1. WorkerType'
  BY DEF IInv, TypeOK, WorkerType, GoTo, Busy
<1>2. \A v \in Goroutines : pc'[v] = IF v = w THEN label ELSE pc[v]
  BY DEF IInv, TypeOK, WorkerType, GoTo
<1>3. CopiesGood'
  <2>1. \A v \in Goroutines : pc[v] # "idle" => UsedCopy(copy[v])
    BY DeliveryAssumption DEF IInv, TypeOK, WorkerType, CopiesGood, GoodCopy, UsedCopy,
         Copies
  <2> QED BY <1>2, <2>1 DEF IInv, CopiesGood, GoodCopy, UsedCopy, Busy
<1>4. \A v \in Goroutines : Busy(v)' <=> Busy(v)
  BY <1>2 DEF Busy
<1>5. Exclusive'
  BY <1>4 DEF IInv, Exclusive, Job
<1>6. \A v \in Goroutines : pc'[v] = "mark" => Job(v)' \in received'
  BY <1>2 DEF IInv, DoneReceived, Job
<1> QED BY <1>1, <1>3, <1>5, <1>6

\* A goroutine that starts on a good copy, or leaves.
LEMMA StartGood ==
    ASSUME IInv, NEW w \in Goroutines, pc[w] = "idle", NEW c, GoodCopy(c),
           GoTo(w, "begin"), copy' = [copy EXCEPT ![w] = c],
           UNCHANGED <<processing, tries, received>>
    PROVE  /\ WorkerType' /\ Exclusive'
           /\ \A v \in Goroutines :
                 /\ pc'[v] \in {"begin", "load", "gate", "send"} => GoodCopy(copy[v])'
                 /\ pc'[v] \in {"mark", "save", "release"} => UsedCopy(copy[v])'
                 /\ pc'[v] = "mark" => Job(v)' \in received'
<1>1. \A v \in Goroutines : /\ pc'[v] = IF v = w THEN "begin" ELSE pc[v]
                            /\ copy'[v] = IF v = w THEN c ELSE copy[v]
  BY DEF IInv, TypeOK, WorkerType, GoTo
<1>2. WorkerType'
  BY <1>1 DEF IInv, TypeOK, WorkerType, GoTo, GoodCopy
<1>3. \A v \in Goroutines : Busy(v)' <=> Busy(v)
  BY <1>1 DEF Busy
<1>4. \A v \in Goroutines : Busy(v) => Job(v)' = Job(v)
  BY <1>1 DEF Busy, Job
<1>5. Exclusive'
  BY <1>3, <1>4 DEF IInv, Exclusive
<1>6. \A v \in Goroutines :
         /\ pc'[v] \in {"begin", "load", "gate", "send"} => GoodCopy(copy[v])'
         /\ pc'[v] \in {"mark", "save", "release"} => UsedCopy(copy[v])'
  BY <1>1 DEF IInv, CopiesGood, GoodCopy, UsedCopy
<1>7. \A v \in Goroutines : pc'[v] = "mark" => Job(v)' \in received'
  BY <1>1 DEF IInv, DoneReceived, Job
<1> QED BY <1>2, <1>5, <1>6, <1>7

LEMMA LeaveGood ==
    ASSUME IInv, NEW w \in Goroutines, pc[w] # "idle", Drop(w),
           processing' = processing \ (IF Busy(w) THEN {Job(w)} ELSE {}),
           UNCHANGED <<queue, claimed, tries, received>>
    PROVE  /\ WorkerType' /\ CopiesGood' /\ Exclusive'
           /\ \A v \in Goroutines : pc'[v] = "mark" => Job(v)' \in received'
<1>1. \A v \in Goroutines : /\ pc'[v] = IF v = w THEN "idle" ELSE pc[v]
                            /\ copy'[v] = IF v = w THEN NoCopy ELSE copy[v]
  BY DEF IInv, TypeOK, WorkerType, Drop
<1>2. WorkerType'
  BY <1>1 DEF IInv, TypeOK, WorkerType, Drop
<1>3. CopiesGood'
  BY <1>1 DEF IInv, CopiesGood, GoodCopy, UsedCopy
<1>4. \A v \in Goroutines : Busy(v)' <=> v # w /\ Busy(v)
  BY <1>1 DEF Busy
<1>5. \A v \in Goroutines : v # w => Job(v)' = Job(v)
  BY <1>1 DEF Job
<1>6. Exclusive'
  BY <1>4, <1>5 DEF IInv, Exclusive
<1>7. \A v \in Goroutines : pc'[v] = "mark" => Job(v)' \in received'
  BY <1>1, <1>5 DEF IInv, DoneReceived
<1> QED BY <1>2, <1>3, <1>6, <1>7

-----------------------------------------------------------------------------
(* Steps *)

LEMMA CaptureStep ==
    ASSUME IInv, NEW j \in Jobs, Capture(j)
    PROVE  IInv'
<1>1. WorkerType' /\ FlusherType' /\ DoneReceived' /\ Exclusive'
  BY DEF IInv, TypeOK, Busy, DoneReceived, Exclusive, FlusherType, Job,
       WorkerType,
         Capture, store, sweeper, worker, flusher, history
<1>2. StoreType'
  BY DeliveryAssumption
     DEF IInv, TypeOK, StoreType, Rows, NoRow, Postponed, Capture, GoTo, Drop,
         Works, Fails, Fault, store, sweeper, worker, flusher, history
<1>3. QueueType' /\ QueueGood'
  BY PushGood, CapturedGood
     DEF Capture, IInv, TypeOK, QueueType, QueueGood, CopiesGood, GoodCopy,
         sweeper, history
<1>4. ControlType'
  BY ForgetType DEF IInv, TypeOK, ControlType, Capture, Push, Captured
<1>5. CopiesGood'
  BY <1>3 DEF Capture, IInv, CopiesGood, QueueGood, GoodCopy, UsedCopy, sweeper, worker,
       history
<1>6. RowsGood'
  BY DeliveryAssumption
     DEF IInv, TypeOK, RowsGood, GoodRow, Capture, GoTo, Drop,
         Works, Fails, Fault, store, sweeper, worker, flusher, history
<1>7. StoredKept'
  BY DeliveryAssumption
     DEF IInv, TypeOK, StoredKept, Capture, GoTo, Drop,
         Works, Fails, Fault, store, sweeper, worker, flusher, history
<1> QED BY <1>1, <1>2, <1>3, <1>4, <1>5, <1>6, <1>7 DEF IInv, TypeOK

LEMMA StoreItemStep ==
    ASSUME IInv, NEW j \in Jobs, StoreItem(j)
    PROVE  IInv'
<1>1. QueueType' /\ WorkerType' /\ FlusherType' /\ ControlType' /\ CopiesGood' /\
      DoneReceived' /\ Exclusive'
  BY DEF IInv, TypeOK, Busy, ControlType, CopiesGood, DoneReceived, Exclusive,
       FlusherType, GoodCopy, Job, QueueType, UsedCopy, WorkerType,
         StoreItem, store, sweeper, worker, flusher, history
<1>2. StoreType'
  BY DeliveryAssumption
     DEF IInv, TypeOK, StoreType, Rows, NoRow, Postponed, StoreItem, GoTo, Drop,
         Works, Fails, Fault, store, sweeper, worker, flusher, history
<1>3. RowsGood'
  <2> SUFFICES ASSUME NEW i \in Jobs PROVE GoodRow(i)'
    BY DEF RowsGood
  <2>1. GoodRow(i) /\ tries[i] \in 0..MaxAttempts
    BY DEF IInv, RowsGood, TypeOK, ControlType
  <2>2. CASE i # j
    BY <2>1, <2>2 DEF StoreItem, GoodRow, IInv, TypeOK, StoreType, history
  <2>3. CASE i = j
    <3>1. row'[j] = IF Durable THEN Postponed(0) ELSE row[j]
      BY DEF StoreItem, IInv, TypeOK, StoreType, Postponed
    <3> QED BY <2>1, <2>3, <3>1, DeliveryAssumption
         DEF StoreItem, GoodRow, Postponed, IInv, TypeOK, StoreType, history
  <2> QED BY <2>2, <2>3
<1>4. StoredKept'
  BY DEF IInv, TypeOK, StoreType, StoredKept, RowsGood, GoodRow, StoreItem, Postponed,
       history
<1> QED BY <1>1, <1>2, <1>3, <1>4 DEF IInv, TypeOK

LEMMA LoseItemStep ==
    ASSUME IInv, NEW j \in Jobs, LoseItem(j)
    PROVE  IInv'
<1>1. QueueType' /\ WorkerType' /\ FlusherType' /\ CopiesGood' /\ DoneReceived' /\
      Exclusive'
  BY DEF IInv, TypeOK, Busy, CopiesGood, DoneReceived, Exclusive, FlusherType, GoodCopy,
       Job, QueueType, UsedCopy, WorkerType,
         LoseItem, store, sweeper, worker, flusher, history
<1>2. StoreType'
  BY DeliveryAssumption
     DEF IInv, TypeOK, StoreType, Rows, NoRow, Postponed, LoseItem, GoTo, Drop,
         Works, Fails, Fault, store, sweeper, worker, flusher, history
<1>3. ControlType'
  BY FaultType, DeliveryAssumption
     DEF IInv, TypeOK, ControlType, LoseItem, GoTo, Drop,
         Works, Fails, Fault, store, sweeper, worker, flusher, history
<1>4. RowsGood'
  BY DeliveryAssumption
     DEF IInv, TypeOK, RowsGood, GoodRow, LoseItem, GoTo, Drop,
         Works, Fails, Fault, store, sweeper, worker, flusher, history
<1>5. StoredKept'
  BY DeliveryAssumption
     DEF IInv, TypeOK, StoredKept, LoseItem, GoTo, Drop,
         Works, Fails, Fault, store, sweeper, worker, flusher, history
<1> QED BY <1>1, <1>2, <1>3, <1>4, <1>5 DEF IInv, TypeOK

LEMMA AcceptStep ==
    ASSUME IInv, NEW j \in Jobs, Accept(j)
    PROVE  IInv'
<1>1. StoreType' /\ WorkerType' /\ FlusherType' /\ RowsGood' /\ DoneReceived' /\ Exclusive'
  BY DEF IInv, TypeOK, Busy, DoneReceived, Exclusive, FlusherType, GoodRow, Job, RowsGood, StoreType, WorkerType,
         Accept, store, sweeper, worker, flusher, history
<1>2. QueueType' /\ QueueGood'
  BY PushGood, CapturedGood
     DEF Accept, IInv, TypeOK, QueueType, QueueGood, CopiesGood, GoodCopy,
         sweeper, history
<1>3. ControlType'
  BY ForgetType DEF IInv, TypeOK, ControlType, Accept, Push, Captured
<1>4. CopiesGood'
  BY <1>2 DEF Accept, IInv, CopiesGood, QueueGood, GoodCopy, UsedCopy, sweeper, worker,
       history
<1>5. StoredKept'
  BY DEF IInv, StoredKept, Accept, Committed, store, history
<1> QED BY <1>1, <1>2, <1>3, <1>4, <1>5 DEF IInv, TypeOK

LEMMA GiveUpWaitingStep ==
    ASSUME IInv, NEW j \in Jobs, GiveUpWaiting(j)
    PROVE  IInv'
<1>1. StoreType' /\ QueueType' /\ WorkerType' /\ FlusherType' /\ CopiesGood' /\
      RowsGood' /\ DoneReceived' /\ StoredKept' /\ Exclusive'
  BY DEF IInv, TypeOK, Busy, CopiesGood, DoneReceived, Exclusive, FlusherType, GoodCopy,
       GoodRow, Job, QueueType, RowsGood, StoreType, StoredKept, UsedCopy,
       WorkerType,
         GiveUpWaiting, store, sweeper, worker, flusher, history
<1>2. ControlType'
  BY DeliveryAssumption
     DEF IInv, TypeOK, ControlType, GiveUpWaiting, GoTo, Drop,
         Works, Fails, Fault, store, sweeper, worker, flusher, history
<1> QED BY <1>1, <1>2 DEF IInv, TypeOK

LEMMA ComeDueStep ==
    ASSUME IInv, NEW j \in Jobs, ComeDue(j)
    PROVE  IInv'
<1>1. QueueType' /\ WorkerType' /\ FlusherType' /\ ControlType' /\ CopiesGood' /\
      DoneReceived' /\ Exclusive'
  BY DEF IInv, TypeOK, Busy, ControlType, CopiesGood, DoneReceived, Exclusive,
       FlusherType, GoodCopy, Job, QueueType, UsedCopy, WorkerType,
         ComeDue, store, sweeper, worker, flusher, history
<1>2. StoreType'
  BY DeliveryAssumption
     DEF IInv, TypeOK, StoreType, Rows, NoRow, Postponed, ComeDue, GoTo, Drop,
         Works, Fails, Fault, store, sweeper, worker, flusher, history
<1>3. RowsGood'
  <2> SUFFICES ASSUME NEW i \in Jobs PROVE GoodRow(i)'
    BY DEF RowsGood
  <2>1. GoodRow(i) /\ tries[i] \in 0..MaxAttempts
    BY DEF IInv, RowsGood, TypeOK, ControlType
  <2>2. CASE i # j
    BY <2>1, <2>2 DEF ComeDue, GoodRow, IInv, TypeOK, StoreType, history
  <2>3. CASE i = j
    <3>1. row'[j] = [status |-> "pending", attempts |-> row[j].attempts, due |-> TRUE]
      BY DEF ComeDue, IInv, TypeOK, StoreType, Postponed
    <3> QED BY <2>1, <2>3, <3>1, DeliveryAssumption
         DEF ComeDue, GoodRow, Postponed, IInv, TypeOK, StoreType, history
  <2> QED BY <2>2, <2>3
<1>4. StoredKept'
  BY DEF IInv, TypeOK, StoreType, StoredKept, RowsGood, GoodRow, ComeDue, Postponed, history
<1> QED BY <1>1, <1>2, <1>3, <1>4 DEF IInv, TypeOK

LEMMA ClaimStep ==
    ASSUME IInv, NEW S \in SUBSET Jobs, Claim(S)
    PROVE  IInv'
<1>1. WorkerType' /\ FlusherType' /\ DoneReceived' /\ Exclusive'
  BY DEF IInv, TypeOK, Busy, DoneReceived, Exclusive, FlusherType, Job,
       WorkerType,
         Claim, store, sweeper, worker, flusher, history
<1>2. StoreType'
  BY DeliveryAssumption
     DEF IInv, TypeOK, StoreType, Rows, NoRow, Postponed, Claim, GoTo, Drop,
         Works, Fails, Fault, store, sweeper, worker, flusher, history
<1>3. QueueType'
  BY LeasedType DEF Claim, Claimable, IInv, TypeOK, QueueType
<1>4. ControlType'
  BY FaultType, DeliveryAssumption
     DEF IInv, TypeOK, ControlType, Claim, GoTo, Drop,
         Works, Fails, Fault, store, sweeper, worker, flusher, history
<1>5. CopiesGood'
  <2>1. \A c \in claimed' : GoodCopy(c)
    BY LeasedGood DEF Claim, Claimable
  <2> QED BY <2>1 DEF Claim, IInv, CopiesGood, GoodCopy, UsedCopy, worker, history
<1>6. \A i \in Jobs :
         \/ row'[i] = row[i]
         \/ row[i].status = "pending" /\ row'[i] = Postponed(row[i].attempts)
  BY DEF Claim, Claimable
<1>7. RowsGood'
  BY <1>6 DEF Claim, IInv, RowsGood, GoodRow, Postponed, history
<1>8. StoredKept'
  BY <1>6 DEF Claim, IInv, StoredKept, Postponed, history
<1> QED BY <1>1, <1>2, <1>3, <1>4, <1>5, <1>6, <1>7, <1>8 DEF IInv, TypeOK

LEMMA DispatchStep ==
    ASSUME IInv, NEW c \in claimed, Dispatch(c)
    PROVE  IInv'
<1>1. StoreType' /\ FlusherType' /\ ControlType' /\ RowsGood' /\ StoredKept'
  BY DEF IInv, TypeOK, ControlType, FlusherType, GoodRow, RowsGood, StoreType, StoredKept,
         Dispatch, store, sweeper, worker, flusher, history
<1>2. QueueType'
  BY AppendGood DEF Dispatch, IInv, TypeOK, QueueType, CopiesGood, history
<1>3. (\A i \in 1..Len(queue) : GoodCopy(queue[i]))' /\ (\A d \in claimed : GoodCopy(d))'
  BY AppendGood DEF Dispatch, IInv, CopiesGood, QueueGood, GoodCopy, history
<1>4. ASSUME UNCHANGED <<pc, copy>>
      PROVE  WorkerType' /\ CopiesGood' /\ DoneReceived' /\ Exclusive'
  BY <1>2, <1>3, <1>4 DEF Dispatch, IInv, TypeOK, WorkerType, CopiesGood, GoodCopy,
       UsedCopy,
         DoneReceived, Exclusive, Busy, Job, flusher, history
<1>5. ASSUME NEW w \in Overflow, pc[w] = "idle", pc' = [pc EXCEPT ![w] = "begin"],
             copy' = [copy EXCEPT ![w] = c]
      PROVE  WorkerType' /\ CopiesGood' /\ DoneReceived' /\ Exclusive'
  <2>1. w \in Goroutines /\ GoTo(w, "begin") /\ GoodCopy(c)
    BY <1>5 DEF Goroutines, GoTo, IInv, CopiesGood
  <2> QED
    BY <1>3, <1>5, <2>1, StartGood
       DEF Dispatch, IInv, CopiesGood, DoneReceived, flusher, history
<1>6. WorkerType' /\ CopiesGood' /\ DoneReceived' /\ Exclusive'
  BY <1>4, <1>5 DEF Dispatch
<1> QED BY <1>1, <1>2, <1>3, <1>4, <1>5, <1>6 DEF IInv, TypeOK

LEMMA SweeperStopStep ==
    ASSUME IInv, SweeperStop
    PROVE  IInv'
<1>1. StoreType' /\ WorkerType' /\ FlusherType' /\ ControlType' /\ RowsGood' /\
      DoneReceived' /\ StoredKept' /\ Exclusive'
  BY DEF IInv, TypeOK, Busy, ControlType, DoneReceived, Exclusive, FlusherType, GoodRow,
       Job, RowsGood, StoreType, StoredKept, WorkerType,
         SweeperStop, store, sweeper, worker, flusher, history
<1>2. QueueType'
  BY DeliveryAssumption
     DEF IInv, TypeOK, QueueType, SweeperStop, GoTo, Drop,
         Works, Fails, Fault, store, sweeper, worker, flusher, history
<1>3. CopiesGood'
  BY DeliveryAssumption
     DEF IInv, TypeOK, CopiesGood, GoodCopy, UsedCopy, SweeperStop, GoTo, Drop,
         Works, Fails, Fault, store, sweeper, worker, flusher, history
<1> QED BY <1>1, <1>2, <1>3 DEF IInv, TypeOK

LEMMA TakeStep ==
    ASSUME IInv, NEW w \in Goroutines, Take(w)
    PROVE  IInv'
<1>1. StoreType' /\ FlusherType' /\ ControlType' /\ RowsGood' /\ StoredKept'
  BY DEF IInv, TypeOK, ControlType, FlusherType, GoodRow, RowsGood, StoreType, StoredKept,
         Take, store, sweeper, worker, flusher, history
<1>2. GoodCopy(Head(queue)) /\ QueueType'
      /\ (\A i \in 1..Len(queue) : GoodCopy(queue[i]))'
  <2>1. queue \in Seq(Copies) /\ queue # <<>> /\ queue' = Tail(queue)
    BY DEF Take, IInv, TypeOK, QueueType
  <2>2. /\ Tail(queue) \in Seq(Copies) /\ Len(Tail(queue)) = Len(queue) - 1
        /\ \A i \in 1..Len(Tail(queue)) : Tail(queue)[i] = queue[i + 1]
    BY <2>1, HeadTailProperties
  <2>3. Len(queue) \in Nat \ {0} /\ Head(queue) = queue[1]
    BY <2>1, EmptySeq
  <2>4. GoodCopy(Head(queue))
    BY <2>3 DEF IInv, CopiesGood
  <2>5. \A i \in 1..Len(queue') : GoodCopy(queue'[i])
    BY <2>1, <2>2, <2>3 DEF IInv, CopiesGood
  <2>6. (\A i \in 1..Len(queue) : GoodCopy(queue[i]))'
    BY <2>5 DEF Take, GoodCopy, history
  <2>7. QueueType'
    BY <2>1, <2>2, <2>3, DeliveryAssumption DEF Take, IInv, TypeOK, QueueType
  <2> QED BY <2>4, <2>6, <2>7
<1>3. WorkerType' /\ CopiesGood' /\ DoneReceived' /\ Exclusive'
  BY <1>2, StartGood
     DEF Take, IInv, CopiesGood, GoodCopy, DoneReceived, flusher, history
<1> QED BY <1>1, <1>2, <1>3 DEF IInv, TypeOK

LEMMA BeginStep ==
    ASSUME IInv, NEW w \in Goroutines, Begin(w)
    PROVE  IInv'
<1>1. StoreType' /\ QueueType' /\ FlusherType' /\ ControlType' /\ RowsGood' /\ StoredKept'
  BY DEF IInv, TypeOK, ControlType, FlusherType, GoodRow, QueueType, RowsGood, StoreType,
       StoredKept,
         Begin, store, sweeper, worker, flusher, history
<1>2. ASSUME Drop(w), UNCHANGED processing
      PROVE  WorkerType' /\ CopiesGood' /\ DoneReceived' /\ Exclusive'
  BY <1>2, LeaveGood DEF Begin, Busy, IInv, DoneReceived, flusher, history
<1>3. ASSUME Job(w) \notin processing, processing' = processing \cup {Job(w)},
             GoTo(w, "load"), UNCHANGED copy
      PROVE  WorkerType' /\ CopiesGood' /\ DoneReceived' /\ Exclusive'
  <2>1. Job(w) \in Jobs /\ pc[w] = "begin"
    BY JobType DEF Begin, IInv
  <2>2. \A v \in Goroutines : pc'[v] = IF v = w THEN "load" ELSE pc[v]
    BY <1>3 DEF IInv, TypeOK, WorkerType, GoTo
  <2>3. WorkerType'
    BY <1>3, <2>1 DEF IInv, TypeOK, WorkerType, GoTo
  <2>4. CopiesGood'
    BY <1>3, <2>1, <2>2 DEF Begin, IInv, CopiesGood, GoodCopy, UsedCopy, history
  <2>5. DoneReceived'
    BY <1>3, <2>1, <2>2 DEF Begin, IInv, DoneReceived, Job, flusher, history
  <2>6. \A v \in Goroutines : Busy(v)' <=> v = w \/ Busy(v)
    BY <2>1, <2>2 DEF Busy
  <2>7. \A v \in Goroutines : Job(v)' = Job(v)
    BY <1>3 DEF Job
  <2>8. Exclusive'
    BY <1>3, <2>6, <2>7 DEF IInv, Exclusive
  <2> QED BY <2>3, <2>4, <2>5, <2>8
<1>4. WorkerType' /\ CopiesGood' /\ DoneReceived' /\ Exclusive'
  BY <1>2, <1>3 DEF Begin, Loaded
<1> QED BY <1>1, <1>2, <1>3, <1>4 DEF IInv, TypeOK

LEMMA LoadStep ==
    ASSUME IInv, NEW w \in Goroutines, Load(w)
    PROVE  IInv'
<1>1. StoreType' /\ QueueType' /\ FlusherType' /\ RowsGood' /\ StoredKept'
  BY DEF IInv, TypeOK, FlusherType, GoodRow, QueueType, RowsGood, StoreType, StoredKept,
         Load, Transformed, store, sweeper, worker, flusher, history
<1>2. WorkerType' /\ CopiesGood' /\ DoneReceived' /\ Exclusive'
  <2>1. PICK label \in {"gate", "release"} : GoTo(w, label)
    BY DEF Load, Transformed
  <2>2. Busy(w) /\ pc[w] \in {"load", "gate"}
    BY DEF Load, Transformed, Busy
  <2> QED
    BY <2>1, <2>2, MoveGood
       DEF Load, Transformed, IInv, DoneReceived, flusher, history
<1>3. ControlType'
  <2>1. Job(w) \in Jobs
    BY JobType DEF Load, IInv
  <2>2. forgotten' \subseteq Jobs
    BY <2>1, ForgetType DEF Load, Transformed, IInv, TypeOK, ControlType
  <2>3. faults' \in 0..MaxFaults
    BY FaultType DEF Load, Transformed, IInv, TypeOK, ControlType
  <2> QED BY <2>2, <2>3 DEF Load, IInv, TypeOK, ControlType
<1> QED BY <1>1, <1>2, <1>3 DEF IInv, TypeOK

LEMMA GateStep ==
    ASSUME IInv, NEW w \in Goroutines, Gate(w)
    PROVE  IInv'
<1>1. StoreType' /\ QueueType' /\ FlusherType' /\ RowsGood' /\ StoredKept'
  BY DEF IInv, TypeOK, FlusherType, GoodRow, QueueType, RowsGood, StoreType, StoredKept,
         Gate, store, sweeper, worker, flusher, history
<1>2. WorkerType' /\ CopiesGood' /\ DoneReceived' /\ Exclusive'
  <2>1. PICK label \in {"send", "save"} : GoTo(w, label)
    BY DEF Gate, Refused
  <2>2. Busy(w) /\ pc[w] \in {"load", "gate"}
    BY DEF Gate, Busy
  <2> QED
    BY <2>1, <2>2, MoveGood
       DEF Gate, IInv, DoneReceived, flusher, history
<1>3. ControlType'
  BY FaultType, DeliveryAssumption
     DEF IInv, TypeOK, ControlType, Gate, Refused, GoTo, Drop,
         Works, Fails, Fault, store, sweeper, worker, flusher, history
<1> QED BY <1>1, <1>2, <1>3 DEF IInv, TypeOK

LEMMA SendStep ==
    ASSUME IInv, NEW w \in Goroutines, Send(w)
    PROVE  IInv'
<1>1. StoreType' /\ QueueType' /\ FlusherType'
  BY DEF IInv, TypeOK, FlusherType, QueueType, StoreType,
         Send, store, sweeper, worker, flusher, history
<1>2. ASSUME received' = received \cup {Job(w)}, GoTo(w, "mark"),
             UNCHANGED <<copy, tries>>
      PROVE  WorkerType' /\ CopiesGood' /\ DoneReceived' /\ Exclusive'
             /\ ControlType' /\ RowsGood'
  BY <1>2, MoveGood, JobType
     DEF Send, Busy, IInv, TypeOK, ControlType, RowsGood, GoodRow, DoneReceived, flusher,
          store
<1>3. ASSUME tries' = [tries EXCEPT ![Job(w)] = IF @ < MaxAttempts THEN @ + 1 ELSE @],
             copy' = [copy EXCEPT ![w] = Outcome(@, Attempted(@))],
             GoTo(w, "save"), UNCHANGED received
      PROVE  WorkerType' /\ CopiesGood' /\ DoneReceived' /\ Exclusive'
             /\ ControlType' /\ RowsGood'
  <2> DEFINE j == Job(w)
             n == copy[w].attempts + 1
  <2> PICK c : c = Outcome(copy[w], n)
    OBVIOUS
  <2>1. /\ pc[w] = "send" /\ j \in Jobs /\ copy[w] \in Copies /\ GoodCopy(copy[w])
        /\ tries[j] \in 0..MaxAttempts
    BY JobType DEF Send, IInv, CopiesGood, TypeOK, ControlType
  <2>2. /\ \A i \in Jobs : /\ tries'[i] \in 0..MaxAttempts
                           /\ tries[i] <= tries'[i]
        /\ n <= tries'[j]
    <3>1. n \in Nat /\ n <= MaxAttempts /\ copy[w].attempts <= tries[j]
      BY <2>1, DeliveryAssumption DEF GoodCopy, Copies, Job
    <3>2. \A i \in Jobs : tries'[i] = IF i = j /\ tries[i] < MaxAttempts
                                     THEN tries[i] + 1 ELSE tries[i]
      BY <1>3 DEF IInv, TypeOK, ControlType
    <3>3. \A i \in Jobs : tries[i] \in 0..MaxAttempts
      BY DEF IInv, TypeOK, ControlType
    <3>4. \A i \in Jobs : tries'[i] \in 0..MaxAttempts /\ tries[i] <= tries'[i]
      BY <3>2, <3>3, DeliveryAssumption
    <3>5. j \in Jobs /\ copy[w].attempts \in Nat
      BY <2>1 DEF Copies
    <3> HIDE DEF j
    <3>6. tries'[j] = IF tries[j] < MaxAttempts THEN tries[j] + 1 ELSE tries[j]
      BY <3>2, <3>5
    <3>7. n <= tries'[j]
      BY <3>1, <3>3, <3>5, <3>6, DeliveryAssumption
    <3> QED BY <3>4, <3>7
  <2>3. ControlType'
    BY <1>3, <2>1, DeliveryAssumption DEF Send, IInv, TypeOK, ControlType
  <2>4. c \in Copies /\ UsedCopy(c)'
    BY <2>1, <2>2, OutcomeType, DeliveryAssumption
       DEF UsedCopy, GoodCopy, Outcome, Exhausted, Attempted, Copies, Job
  <2>5. \A v \in Goroutines : /\ pc'[v] = IF v = w THEN "save" ELSE pc[v]
                              /\ copy'[v] = IF v = w THEN c ELSE copy[v]
    BY <1>3 DEF IInv, TypeOK, WorkerType, GoTo, Attempted
  <2>6. Job(w)' = j /\ \A v \in Goroutines : Job(v)' = Job(v)
    BY <2>5 DEF Job, Outcome
  <2>7. WorkerType'
    <3>1. copy' = [copy EXCEPT ![w] = c]
      BY <1>3 DEF Attempted
    <3> QED BY <1>3, <2>4, <2>5, <3>1 DEF Send, IInv, TypeOK, WorkerType, GoTo
  <2>8. \A d \in Copies : /\ GoodCopy(d) => GoodCopy(d)'
                          /\ UsedCopy(d) => UsedCopy(d)'
    <3>1. \A d \in Copies : d.attempts \in Nat /\ tries[d.job] <= tries'[d.job]
                            /\ tries[d.job] \in Nat /\ tries'[d.job] \in Nat
      BY <2>2, DeliveryAssumption DEF Copies, IInv, TypeOK, ControlType
    <3> QED BY <3>1 DEF GoodCopy, UsedCopy
  <2>9. CopiesGood'
    <3>1. (\A i \in 1..Len(queue) : GoodCopy(queue[i]))' /\
          (\A d \in claimed : GoodCopy(d))'
      BY <2>8 DEF Send, IInv, CopiesGood, GoodCopy
    <3>2. ASSUME NEW v \in Goroutines, v # w
          PROVE  /\ pc'[v] \in {"begin", "load", "gate", "send"} => GoodCopy(copy[v])'
                 /\ pc'[v] \in {"mark", "save", "release"} => UsedCopy(copy[v])'
      <4>1. copy'[v] = copy[v] /\ pc'[v] = pc[v]
        BY <2>5, <3>2
      <4>2. pc[v] # "idle" => copy[v] \in Copies
        BY DEF IInv, TypeOK, WorkerType
      <4>3. /\ pc[v] \in {"begin", "load", "gate", "send"} => GoodCopy(copy[v])
            /\ pc[v] \in {"mark", "save", "release"} => UsedCopy(copy[v])
        BY DEF IInv, CopiesGood
      <4> QED BY <4>1, <4>2, <4>3, <2>8 DEF GoodCopy, UsedCopy
    <3>3. pc'[w] = "save" /\ copy'[w] = c /\ UsedCopy(copy[w])'
      BY <2>4, <2>5 DEF UsedCopy
    <3> QED BY <3>1, <3>2, <3>3 DEF CopiesGood
  <2>10. DoneReceived'
    BY <1>3, <2>5, <2>6 DEF Send, IInv, DoneReceived, flusher
  <2>11. Exclusive'
    <3>1. \A v \in Goroutines : Busy(v)' <=> Busy(v)
      BY <2>1, <2>5 DEF Busy
    <3> QED BY <2>6, <3>1 DEF Send, IInv, Exclusive
  <2>12. RowsGood'
    <3>1. \A i \in Jobs : row[i].attempts \in Nat /\ tries[i] \in Nat
      BY DeliveryAssumption DEF IInv, TypeOK, StoreType, ControlType, Rows
    <3> QED BY <2>2, <3>1 DEF Send, IInv, RowsGood, GoodRow, store
  <2> QED BY <2>3, <2>7, <2>9, <2>10, <2>11, <2>12
<1>4. WorkerType' /\ CopiesGood' /\ DoneReceived' /\ Exclusive' /\ ControlType' /\ RowsGood'
  BY <1>2, <1>3 DEF Send
<1>5. StoredKept'
  BY DEF Send, IInv, StoredKept, store
<1> QED BY <1>1, <1>2, <1>3, <1>4, <1>5 DEF IInv, TypeOK

LEMMA MarkStep ==
    ASSUME IInv, NEW w \in Goroutines, Mark(w)
    PROVE  IInv'
<1>1. QueueType'
  BY DEF IInv, TypeOK, QueueType,
         Mark, store, sweeper, worker, flusher, history
<1>2. StoreType' /\ RowsGood' /\ StoredKept'
  <2>1. CASE row' = Marked({Job(w)})
    BY <2>1, MarkedGood DEF Mark, IInv, DoneReceived, history
  <2>2. CASE UNCHANGED row
    BY <2>2 DEF Mark, IInv, TypeOK, StoreType, RowsGood, GoodRow, StoredKept, history
  <2> QED BY <2>1, <2>2 DEF Mark
<1>3. WorkerType' /\ CopiesGood' /\ DoneReceived' /\ Exclusive'
  <2>1. Busy(w) /\ Job(w) \in received
    BY DEF Mark, Busy, IInv, DoneReceived
  <2>2. /\ WorkerType' /\ CopiesGood' /\ Exclusive'
        /\ \A v \in Goroutines : pc'[v] = "mark" => Job(v)' \in received'
    BY <2>1, MoveGood DEF Mark, history
  <2>3. \A i \in 1..Len(doneCh') : doneCh'[i] \in received
    <3>1. CASE doneCh' = Append(doneCh, Job(w))
      BY <2>1, <3>1, JobType, AppendProperties, LenProperties
         DEF Mark, IInv, TypeOK, FlusherType, DoneReceived
    <3> QED BY <3>1 DEF Mark, IInv, DoneReceived
  <2> QED BY <2>2, <2>3 DEF Mark, IInv, DoneReceived, history
<1>4. FlusherType'
  <2>1. Job(w) \in Jobs
    BY JobType DEF Mark, IInv
  <2>2. CASE Len(doneCh) < DoneCap /\ doneCh' = Append(doneCh, Job(w))
    BY <2>1, <2>2, AppendProperties, LenProperties, DeliveryAssumption
       DEF Mark, IInv, TypeOK, FlusherType
  <2>3. CASE UNCHANGED doneCh
    BY <2>3 DEF Mark, IInv, TypeOK, FlusherType
  <2> QED BY <2>2, <2>3 DEF Mark
<1>5. ControlType'
  BY FaultType, DeliveryAssumption
     DEF IInv, TypeOK, ControlType, Mark, GoTo, Drop,
         Works, Fails, Fault, store, sweeper, worker, flusher, history
<1> QED BY <1>1, <1>2, <1>3, <1>4, <1>5 DEF IInv, TypeOK

LEMMA SaveStep ==
    ASSUME IInv, NEW w \in Goroutines, Save(w)
    PROVE  IInv'
<1>1. QueueType' /\ FlusherType'
  BY DEF IInv, TypeOK, FlusherType, QueueType,
         Save, store, sweeper, worker, flusher, history
<1>2. StoreType' /\ RowsGood' /\ StoredKept'
  <2>1. CASE UNCHANGED row
    BY <2>1 DEF Save, IInv, TypeOK, StoreType, RowsGood, GoodRow, StoredKept, history
  <2>2. CASE /\ stage[Job(w)] = "stored"
             /\ row' = [row EXCEPT ![Job(w)] = [status |-> copy[w].status,
                                               attempts |-> copy[w].attempts,
                                                    due |-> FALSE]]
    <3>1. UsedCopy(copy[w]) /\ Job(w) \in Jobs
      BY JobType DEF Save, IInv, CopiesGood
    <3>2. /\ copy[w].status \in {"pending", "failed"} /\ copy[w].attempts \in 0..MaxAttempts
          /\ copy[w].status = "failed" <=> copy[w].attempts = MaxAttempts
          /\ copy[w].attempts <= tries[Job(w)]
      BY <3>1 DEF UsedCopy, Copies, Job
    <3>3. \A j \in Jobs : row'[j] = IF j = Job(w) THEN [status |-> copy[w].status,
                                      attempts |-> copy[w].attempts,
                                           due |-> FALSE] ELSE row[j]
      BY <2>2 DEF IInv, TypeOK, StoreType
    <3>4. StoreType'
      BY <2>2, <3>1, <3>2 DEF Save, IInv, TypeOK, StoreType, Rows
    <3>5. RowsGood'
      BY <2>2, <3>2, <3>3, DeliveryAssumption
         DEF Save, IInv, RowsGood, GoodRow, history
    <3>6. StoredKept'
      BY <3>2, <3>3 DEF Save, IInv, StoredKept, history
    <3> QED BY <3>4, <3>5, <3>6
  <2> QED BY <2>1, <2>2 DEF Save, Referenced
<1>3. WorkerType' /\ CopiesGood' /\ DoneReceived' /\ Exclusive'
  BY MoveGood DEF Save, Busy, IInv, DoneReceived, flusher, history
<1>4. ControlType'
  <2>1. Job(w) \in Jobs
    BY JobType DEF Save, IInv
  <2>2. forgotten' \subseteq Jobs
    BY <2>1, ForgetType DEF Save, IInv, TypeOK, ControlType
  <2>3. faults' \in 0..MaxFaults
    BY FaultType DEF Save, IInv, TypeOK
  <2> QED BY <2>2, <2>3 DEF Save, IInv, TypeOK, ControlType
<1> QED BY <1>1, <1>2, <1>3, <1>4 DEF IInv, TypeOK

LEMMA ReleaseStep ==
    ASSUME IInv, NEW w \in Goroutines, Release(w)
    PROVE  IInv'
<1>1. StoreType' /\ QueueType' /\ FlusherType' /\ ControlType' /\ RowsGood' /\ StoredKept'
  BY DEF IInv, TypeOK, ControlType, FlusherType, GoodRow, QueueType, RowsGood, StoreType,
       StoredKept,
         Release, store, sweeper, worker, flusher, history
<1>2. WorkerType' /\ CopiesGood' /\ DoneReceived' /\ Exclusive'
  BY LeaveGood DEF Release, Busy, IInv, DoneReceived, flusher, history
<1> QED BY <1>1, <1>2 DEF IInv, TypeOK

LEMMA CollectStep ==
    ASSUME IInv, Collect
    PROVE  IInv'
<1>1. StoreType' /\ QueueType' /\ WorkerType' /\ ControlType' /\ CopiesGood' /\
      RowsGood' /\ StoredKept' /\ Exclusive'
  BY DEF IInv, TypeOK, Busy, ControlType, CopiesGood, Exclusive, GoodCopy, GoodRow, Job, QueueType, RowsGood, StoreType, StoredKept, UsedCopy, WorkerType,
         Collect, store, sweeper, worker, flusher, history
<1>2. FlusherType'
  BY DeliveryAssumption
     DEF IInv, TypeOK, FlusherType, Collect, GoTo, Drop,
         Works, Fails, Fault, store, sweeper, worker, flusher, history
<1>3. DoneReceived'
  BY DeliveryAssumption
     DEF IInv, TypeOK, DoneReceived, Job, Collect, GoTo, Drop,
         Works, Fails, Fault, store, sweeper, worker, flusher, history
<1> QED BY <1>1, <1>2, <1>3 DEF IInv, TypeOK

LEMMA FlushStep ==
    ASSUME IInv, Flush
    PROVE  IInv'
<1>1. QueueType' /\ WorkerType' /\ CopiesGood' /\ Exclusive'
  BY DEF IInv, TypeOK, Busy, CopiesGood, Exclusive, GoodCopy, Job, QueueType,
       UsedCopy, WorkerType,
         Flush, store, sweeper, worker, flusher, history
<1>2. StoreType' /\ RowsGood' /\ StoredKept'
  <2>1. CASE row' = Marked(ids)
    BY <2>1, MarkedGood DEF Flush, IInv, DoneReceived, history
  <2>2. CASE UNCHANGED row
    BY <2>2 DEF Flush, IInv, TypeOK, StoreType, RowsGood, GoodRow, StoredKept, history
  <2> QED BY <2>1, <2>2 DEF Flush
<1>3. FlusherType'
  BY DeliveryAssumption
     DEF IInv, TypeOK, FlusherType, Flush, GoTo, Drop,
         Works, Fails, Fault, store, sweeper, worker, flusher, history
<1>4. ControlType'
  BY FaultType, DeliveryAssumption
     DEF IInv, TypeOK, ControlType, Flush, GoTo, Drop,
         Works, Fails, Fault, store, sweeper, worker, flusher, history
<1>5. DoneReceived'
  BY DeliveryAssumption
     DEF IInv, TypeOK, DoneReceived, Job, Flush, GoTo, Drop,
         Works, Fails, Fault, store, sweeper, worker, flusher, history
<1> QED BY <1>1, <1>2, <1>3, <1>4, <1>5 DEF IInv, TypeOK

LEMMA ShutdownStep ==
    ASSUME IInv, Shutdown
    PROVE  IInv'
<1>1. StoreType' /\ QueueType' /\ WorkerType' /\ FlusherType' /\ CopiesGood' /\
      RowsGood' /\ DoneReceived' /\ StoredKept' /\ Exclusive'
  BY DEF IInv, TypeOK, Busy, CopiesGood, DoneReceived, Exclusive, FlusherType, GoodCopy,
       GoodRow, Job, QueueType, RowsGood, StoreType, StoredKept, UsedCopy,
       WorkerType,
         Shutdown, store, sweeper, worker, flusher, history
<1>2. ControlType'
  BY FaultType, DeliveryAssumption
     DEF IInv, TypeOK, ControlType, Shutdown, GoTo, Drop,
         Works, Fails, Fault, store, sweeper, worker, flusher, history
<1> QED BY <1>1, <1>2 DEF IInv, TypeOK

LEMMA RestartStep ==
    ASSUME IInv, Restart
    PROVE  IInv'
<1>1. StoreType'
  BY DeliveryAssumption
     DEF IInv, TypeOK, StoreType, Rows, NoRow, Postponed, Restart, GoTo, Drop,
         Works, Fails, Fault, store, sweeper, worker, flusher, history
<1>2. QueueType'
  BY DeliveryAssumption
     DEF IInv, TypeOK, QueueType, Restart, GoTo, Drop,
         Works, Fails, Fault, store, sweeper, worker, flusher, history
<1>3. WorkerType'
  BY DeliveryAssumption
     DEF IInv, TypeOK, WorkerType, Restart, GoTo, Drop,
         Works, Fails, Fault, store, sweeper, worker, flusher, history
<1>4. FlusherType'
  BY DeliveryAssumption
     DEF IInv, TypeOK, FlusherType, Restart, GoTo, Drop,
         Works, Fails, Fault, store, sweeper, worker, flusher, history
<1>5. ControlType'
  BY FaultType, ForgetType DEF IInv, TypeOK, ControlType, Restart
<1>6. CopiesGood'
  BY DeliveryAssumption
     DEF IInv, TypeOK, CopiesGood, GoodCopy, UsedCopy, Restart, GoTo, Drop,
         Works, Fails, Fault, store, sweeper, worker, flusher, history
<1>7. RowsGood'
  BY DeliveryAssumption
     DEF IInv, TypeOK, RowsGood, GoodRow, Restart, GoTo, Drop,
         Works, Fails, Fault, store, sweeper, worker, flusher, history
<1>8. DoneReceived'
  BY DeliveryAssumption
     DEF IInv, TypeOK, DoneReceived, Job, Restart, GoTo, Drop,
         Works, Fails, Fault, store, sweeper, worker, flusher, history
<1>9. StoredKept'
  BY DeliveryAssumption
     DEF IInv, TypeOK, StoredKept, Restart, GoTo, Drop,
         Works, Fails, Fault, store, sweeper, worker, flusher, history
<1>10. Exclusive'
  BY DeliveryAssumption
     DEF IInv, TypeOK, Exclusive, Busy, Job, Restart, GoTo, Drop,
         Works, Fails, Fault, store, sweeper, worker, flusher, history
<1> QED BY <1>1, <1>2, <1>3, <1>4, <1>5, <1>6, <1>7, <1>8, <1>9, <1>10 DEF IInv, TypeOK

LEMMA NextKeepsIInv == IInv /\ [Next]_vars => IInv'
<1> SUFFICES ASSUME IInv, [Next]_vars PROVE IInv' OBVIOUS
<1>1. ASSUME NEW j \in Jobs, Capture(j) PROVE IInv'
  BY <1>1, CaptureStep
<1>2. ASSUME NEW j \in Jobs, StoreItem(j) PROVE IInv'
  BY <1>2, StoreItemStep
<1>3. ASSUME NEW j \in Jobs, LoseItem(j) PROVE IInv'
  BY <1>3, LoseItemStep
<1>4. ASSUME NEW j \in Jobs, Accept(j) PROVE IInv'
  BY <1>4, AcceptStep
<1>5. ASSUME NEW j \in Jobs, GiveUpWaiting(j) PROVE IInv'
  BY <1>5, GiveUpWaitingStep
<1>6. ASSUME NEW j \in Jobs, ComeDue(j) PROVE IInv'
  BY <1>6, ComeDueStep
<1>7. ASSUME NEW S \in SUBSET Jobs, Claim(S) PROVE IInv'
  BY <1>7, ClaimStep
<1>8. ASSUME NEW c \in claimed, Dispatch(c) PROVE IInv'
  BY <1>8, DispatchStep
<1>9. ASSUME SweeperStop PROVE IInv'
  BY <1>9, SweeperStopStep
<1>10. ASSUME NEW w \in Goroutines, Take(w) PROVE IInv'
  BY <1>10, TakeStep
<1>11. ASSUME NEW w \in Goroutines, Begin(w) PROVE IInv'
  BY <1>11, BeginStep
<1>12. ASSUME NEW w \in Goroutines, Load(w) PROVE IInv'
  BY <1>12, LoadStep
<1>13. ASSUME NEW w \in Goroutines, Gate(w) PROVE IInv'
  BY <1>13, GateStep
<1>14. ASSUME NEW w \in Goroutines, Send(w) PROVE IInv'
  BY <1>14, SendStep
<1>15. ASSUME NEW w \in Goroutines, Mark(w) PROVE IInv'
  BY <1>15, MarkStep
<1>16. ASSUME NEW w \in Goroutines, Save(w) PROVE IInv'
  BY <1>16, SaveStep
<1>17. ASSUME NEW w \in Goroutines, Release(w) PROVE IInv'
  BY <1>17, ReleaseStep
<1>18. ASSUME Collect PROVE IInv'
  BY <1>18, CollectStep
<1>19. ASSUME Flush PROVE IInv'
  BY <1>19, FlushStep
<1>20. ASSUME Shutdown PROVE IInv'
  BY <1>20, ShutdownStep
<1>21. ASSUME Restart PROVE IInv'
  BY <1>21, RestartStep
<1>22. CASE UNCHANGED vars
  BY <1>22 DEF vars, IInv, TypeOK, StoreType, QueueType, WorkerType, FlusherType,
       ControlType,
         CopiesGood, GoodCopy, UsedCopy, RowsGood, GoodRow, DoneReceived, StoredKept,
         Exclusive, Busy, Job
<1> QED
  BY <1>1, <1>2, <1>3, <1>4, <1>5, <1>6, <1>7, <1>8, <1>9, <1>10, <1>11,
     <1>12, <1>13, <1>14, <1>15, <1>16, <1>17, <1>18, <1>19, <1>20, <1>21,
          <1>22 DEF Next, Work

LEMMA InitIInv == Init => IInv
  BY TypeInit, DeliveryAssumption
     DEF Init, IInv, CopiesGood, RowsGood, GoodRow, NoRow, DoneReceived, StoredKept,
         Exclusive, Busy

-----------------------------------------------------------------------------
(* Theorems *)

THEOREM Invariance == Spec => []IInv
<1> QED BY InitIInv, NextKeepsIInv, PTL DEF Spec

\* Queues, rows, workers and flusher are of their types in both modes.
THEOREM TypeCorrect == Spec => []TypeOK
<1>1. IInv => TypeOK BY DEF IInv
<1> QED BY Invariance, <1>1, PTL

\* ACK_MODE=durable: no acknowledged webhook is ever forgotten
\* (FAILURE_MODES.md:10-12), whatever crashes, errors, leases and copies do.
THEOREM NothingAckedIsLost ==
    ASSUME Durable
    PROVE  Spec => []NoAckedLoss
<1>1. IInv => NoAckedLoss
  BY DEF IInv, StoredKept, NoAckedLoss, TypeOK, ControlType
<1> QED BY Invariance, <1>1, PTL

\* A job is given up after MaxAttempts failed calls and no fewer
\* (forwarder.go:302-310).
THEOREM HonestFailure == Spec => []GivenUpHonestly
<1>1. IInv => GivenUpHonestly
  BY DeliveryAssumption
     DEF IInv, RowsGood, GoodRow, GivenUpHonestly, TypeOK, ControlType
<1> QED BY Invariance, <1>1, PTL

\* No two goroutines process the same job (forwarder.go:211-215).
THEOREM MutualExclusion == Spec => []OneAtATime
<1>1. IInv => OneAtATime
  BY DEF IInv, Exclusive, OneAtATime
<1> QED BY Invariance, <1>1, PTL

-----------------------------------------------------------------------------
(***************************************************************************)
(* What fast mode may lose.  A job that is received, has a row or was      *)
(* counted as lost stays so; every other accepted one has a copy in hand.  *)
(* Copies that are not in hand are of booked jobs: those the sweeper made, *)
(* and those a goroutine is done with.                                     *)
(***************************************************************************)
Booked(j) == j \in received \/ row[j].status # "none" \/ j \in forgotten

Queued(j) == \E i \in 1..Len(queue) : queue[i].job = j
Held(j) ==
    \E w \in Goroutines :
        pc[w] \in {"begin", "load", "gate", "send", "save"} /\ Job(w) = j

AcceptedBooked == \A j \in accepted : Booked(j) \/ Queued(j) \/ Held(j)

LeasedBooked ==
    /\ \A i \in 1..Len(queue) : ~queue[i].inMem => Booked(queue[i].job)
    /\ \A c \in claimed : Booked(c.job)
    /\ \A w \in Goroutines :
          pc[w] \in {"begin", "load"} /\ ~copy[w].inMem => Booked(Job(w))

DoneBooked == \A w \in Goroutines : pc[w] \in {"mark", "release"} => Booked(Job(w))

FastKept == ~Durable => AcceptedBooked /\ LeasedBooked /\ DoneBooked

\* The books are never shortened: only a job that was received loses its row.
LEMMA BookedForever ==
    ASSUME IInv, [Next]_vars, NEW j \in Jobs, Booked(j)
    PROVE  Booked(j)'
<1>1. /\ row \in [Jobs -> Rows] /\ ids \subseteq received
      /\ \A w \in Goroutines : pc[w] = "mark" => Job(w) \in received
  BY DEF IInv, TypeOK, StoreType, DoneReceived
<1>2. received \subseteq received'
  BY DEF Next, vars, Work, Capture, StoreItem, LoseItem, Accept, GiveUpWaiting, ComeDue,
         Claim, Dispatch, SweeperStop, Take, Begin, Load, Gate, Send, Mark, Save, Release,
         Collect, Flush, Shutdown, Restart, history
<1>3. forgotten \subseteq forgotten'
  BY DEF Next, vars, Work, Capture, Push, StoreItem, LoseItem, Accept, GiveUpWaiting,
         ComeDue, Claim, Dispatch, SweeperStop, Take, Begin, Load, Transformed, Gate, Send,
         Mark, Save, Release, Collect, Flush, Shutdown, Restart, Forget, history
<1>4. ASSUME NEW S, S \subseteq received, row' = Marked(S), j \notin received
      PROVE  row'[j] = row[j]
  BY <1>4 DEF Marked
<1>5. ASSUME j \notin received, row[j].status # "none" PROVE row'[j].status # "none"
  <2>1. ASSUME NEW w \in Goroutines, Mark(w) PROVE row'[j].status # "none"
    BY <1>1, <1>4, <1>5, <2>1 DEF Mark
  <2>2. CASE Flush
    BY <1>1, <1>4, <1>5, <2>2 DEF Flush
  <2>3. ASSUME NEW w \in Goroutines, Save(w) PROVE row'[j].status # "none"
    <3>1. copy[w].status # "none" /\ Job(w) \in Jobs
      BY <2>3, JobType DEF Save, IInv, Copies
    <3> QED BY <1>1, <1>5, <2>3, <3>1 DEF Save
  <2>4. ASSUME NEW i \in Jobs, StoreItem(i) \/ ComeDue(i) PROVE row'[j].status # "none"
    BY <1>1, <1>5, <2>4 DEF StoreItem, ComeDue, Postponed
  <2>5. ASSUME NEW S \in SUBSET Jobs, Claim(S) PROVE row'[j].status # "none"
    BY <1>1, <1>5, <2>5 DEF Claim, Postponed
  <2>6. CASE UNCHANGED row
    BY <1>5, <2>6
  <2> QED
    BY <2>1, <2>2, <2>3, <2>4, <2>5, <2>6
       DEF Next, vars, Work, Capture, LoseItem, Accept, GiveUpWaiting, Dispatch,
           SweeperStop, Take, Begin, Load, Gate, Send, Release, Collect, Shutdown, Restart,
           store
<1> QED BY <1>2, <1>3, <1>5 DEF Booked

\* A copy appended to the queue takes nothing away from it.
LEMMA AppendQueued ==
    ASSUME IInv, NEW c \in Copies, queue' = Append(queue, c)
    PROVE  /\ \A j : Queued(j) => Queued(j)'
           /\ Queued(c.job)'
           /\ \A i \in 1..Len(queue') :
                 queue'[i] = c \/ \E k \in 1..Len(queue) : queue'[i] = queue[k]
<1>1. queue \in Seq(Copies)
  BY DEF IInv, TypeOK, QueueType
<1>2. /\ Len(queue) \in Nat /\ Len(queue') = Len(queue) + 1
      /\ \A i \in 1..Len(queue) : queue'[i] = queue[i]
      /\ queue'[Len(queue) + 1] = c
  BY <1>1, AppendProperties, LenProperties
<1> QED BY <1>2 DEF Queued

\* Steps of handlers, sweeper and clock that hold no copy back.
LEMMA QuietKeeps ==
    ASSUME IInv, FastKept, [Next]_vars, ~Durable,
           UNCHANGED <<queue, pc, copy, accepted>>, \A c \in claimed' : Booked(c.job)'
    PROVE  FastKept'
<1>1. /\ accepted \subseteq Jobs /\ queue \in Seq(Copies)
      /\ \A w \in Goroutines : pc[w] # "idle" => Job(w) \in Jobs
  BY JobType DEF IInv, TypeOK, ControlType, QueueType
<1>2. \A i \in 1..Len(queue) : queue[i].job \in Jobs
  BY DEF IInv, CopiesGood, GoodCopy, Copies
<1>3. AcceptedBooked'
  BY <1>1, BookedForever DEF FastKept, AcceptedBooked, Queued, Held, Job
<1>4. LeasedBooked'
  BY <1>1, <1>2, BookedForever DEF FastKept, LeasedBooked, Job
<1>5. DoneBooked'
  BY <1>1, BookedForever DEF FastKept, DoneBooked, Job
<1> QED BY <1>3, <1>4, <1>5 DEF FastKept

\* A handler that answers pushes a copy, or the job is counted as lost.
LEMMA PushKeeps ==
    ASSUME IInv, FastKept, [Next]_vars, ~Durable, NEW j \in Jobs, Push(Captured(j)),
           accepted' = accepted \cup {j}, UNCHANGED <<claimed, pc, copy, row, received>>
    PROVE  FastKept'
<1>1. /\ accepted \subseteq Jobs /\ claimed \subseteq Copies
      /\ \A w \in Goroutines : pc[w] # "idle" => Job(w) \in Jobs
  BY JobType DEF IInv, TypeOK, ControlType, QueueType
<1>2. \A i \in 1..Len(queue) : queue[i].job \in Jobs
  BY DEF IInv, CopiesGood, GoodCopy, Copies
<1>3. Captured(j) \in Copies /\ Captured(j).job = j /\ Captured(j).inMem
  BY CapturedType DEF Captured
<1>4. /\ \A i : Queued(i) => Queued(i)'
      /\ Queued(j)' \/ Booked(j)'
      /\ \A i \in 1..Len(queue') :
            queue'[i] = Captured(j) \/ \E k \in 1..Len(queue) : queue'[i] = queue[k]
  <2>1. CASE queue' = Append(queue, Captured(j))
    BY <1>3, <2>1, AppendQueued
  <2>2. CASE Forget({j}) /\ UNCHANGED queue
    BY <2>2 DEF Forget, Booked, Queued
  <2> QED BY <1>3, <2>1, <2>2 DEF Push
<1>5. AcceptedBooked'
  BY <1>1, <1>4, BookedForever DEF FastKept, AcceptedBooked, Held, Job
<1>6. LeasedBooked'
  <2>1. (\A i \in 1..Len(queue) : ~queue[i].inMem => Booked(queue[i].job))'
    <3>1. \A k \in 1..Len(queue) : ~queue[k].inMem => Booked(queue[k].job)
      BY DEF FastKept, LeasedBooked
    <3>2. \A k \in 1..Len(queue) :
             Booked(queue[k].job) => queue[k].job \in received' \/ queue[k].job \in forgotten'
                                     \/ row'[queue[k].job].status # "none"
      BY <1>2, BookedForever DEF Booked
    <3> QED BY <1>3, <1>4, <3>1, <3>2 DEF Booked
  <2>2. \A c \in claimed : c.job \in Jobs
    BY <1>1 DEF Copies
  <2>3. (\A v \in Goroutines :
           pc[v] \in {"begin", "load"} /\ ~copy[v].inMem => Booked(Job(v)))'
    BY <1>1, BookedForever DEF FastKept, LeasedBooked, Job
  <2> QED BY <1>1, <2>1, <2>2, <2>3, BookedForever DEF FastKept, LeasedBooked
<1>7. DoneBooked'
  BY <1>1, BookedForever DEF FastKept, DoneBooked, Job
<1> QED BY <1>5, <1>6, <1>7 DEF FastKept

\* A goroutine that goes on with its copy keeps it in hand until the job is booked.
LEMMA MoveKeeps ==
    ASSUME IInv, FastKept, [Next]_vars, ~Durable, NEW w \in Goroutines, pc[w] # "idle",
           NEW label \in {"load", "gate", "send", "mark", "save", "release"},
           GoTo(w, label), label = "load" => pc[w] = "begin",
           label \in {"mark", "release"} => Booked(Job(w))',
           \A v \in Goroutines : copy'[v].job = copy[v].job /\ copy'[v].inMem = copy[v].inMem,
           UNCHANGED <<queue, claimed, accepted>>
    PROVE  FastKept'
<1>1. /\ accepted \subseteq Jobs /\ claimed \subseteq Copies
      /\ \A v \in Goroutines : pc[v] # "idle" => Job(v) \in Jobs
  BY JobType DEF IInv, TypeOK, ControlType, QueueType
<1>2. \A i \in 1..Len(queue) : queue[i].job \in Jobs
  BY DEF IInv, CopiesGood, GoodCopy, Copies
<1>3. \A v \in Goroutines : /\ pc'[v] = IF v = w THEN label ELSE pc[v]
                            /\ Job(v)' = Job(v) /\ copy'[v].inMem = copy[v].inMem
  BY DEF IInv, TypeOK, WorkerType, GoTo, Job
<1>4. DoneBooked'
  BY <1>1, <1>3, BookedForever DEF FastKept, DoneBooked, Booked
<1>5. LeasedBooked'
  <2>1. \A c \in claimed : c.job \in Jobs
    BY <1>1 DEF Copies
  <2>2. \A v \in Goroutines :
           pc'[v] \in {"begin", "load"} /\ ~copy'[v].inMem => Booked(Job(v))
    BY <1>3 DEF FastKept, LeasedBooked
  <2>3. \A v \in Goroutines :
           pc'[v] \in {"begin", "load"} /\ ~copy'[v].inMem => Booked(Job(v))'
    BY <1>1, <1>3, <2>2, BookedForever DEF Booked
  <2> QED BY <1>2, <2>1, <2>3, BookedForever DEF FastKept, LeasedBooked
<1>6. AcceptedBooked'
  <2>1. ASSUME NEW j \in accepted, ~Booked(j)', Held(j) PROVE Held(j)'
    <3>1. PICK v \in Goroutines :
             pc[v] \in {"begin", "load", "gate", "send", "save"} /\ Job(v) = j
      BY <2>1 DEF Held
    <3>2. v = w => label \notin {"mark", "release"}
      BY <1>3, <2>1, <3>1 DEF Booked
    <3> QED BY <1>3, <3>1, <3>2 DEF Held
  <2> QED BY <1>1, <2>1, BookedForever DEF FastKept, AcceptedBooked, Queued
<1> QED BY <1>4, <1>5, <1>6 DEF FastKept

\* One that leaves has a booked job, or another goroutine has it in hand.
LEMMA LeaveKeeps ==
    ASSUME IInv, FastKept, [Next]_vars, ~Durable, NEW w \in Goroutines, pc[w] # "idle",
           Drop(w), UNCHANGED <<queue, claimed, accepted>>,
           \/ Booked(Job(w))
           \/ \E v \in Goroutines :
                 /\ v # w /\ Job(v) = Job(w)
                 /\ pc[v] \in {"begin", "load", "gate", "send", "save"}
    PROVE  FastKept'
<1>1. /\ accepted \subseteq Jobs /\ claimed \subseteq Copies
      /\ \A v \in Goroutines : pc[v] # "idle" => Job(v) \in Jobs
  BY JobType DEF IInv, TypeOK, ControlType, QueueType
<1>2. \A i \in 1..Len(queue) : queue[i].job \in Jobs
  BY DEF IInv, CopiesGood, GoodCopy, Copies
<1>3. \A v \in Goroutines : /\ pc'[v] = IF v = w THEN "idle" ELSE pc[v]
                            /\ v # w => copy'[v] = copy[v] /\ Job(v)' = Job(v)
  BY DEF IInv, TypeOK, WorkerType, Drop, Job
<1>4. DoneBooked'
  BY <1>1, <1>3, BookedForever DEF FastKept, DoneBooked, Booked
<1>5. LeasedBooked'
  <2>1. \A c \in claimed : c.job \in Jobs
    BY <1>1 DEF Copies
  <2>2. \A v \in Goroutines :
           pc'[v] \in {"begin", "load"} /\ ~copy'[v].inMem => Booked(Job(v))'
    BY <1>1, <1>3, BookedForever DEF FastKept, LeasedBooked, Booked
  <2> QED BY <1>2, <2>1, <2>2, BookedForever DEF FastKept, LeasedBooked
<1>6. AcceptedBooked'
  <2>1. ASSUME NEW j \in accepted, ~Booked(j), Held(j) PROVE Held(j)'
    <3>1. PICK v \in Goroutines :
             pc[v] \in {"begin", "load", "gate", "send", "save"} /\ Job(v) = j
      BY <2>1 DEF Held
    <3>2. PICK u \in Goroutines :
             /\ u # w /\ Job(u) = j
             /\ pc[u] \in {"begin", "load", "gate", "send", "save"}
      BY <2>1, <3>1
    <3> QED BY <1>3, <3>2 DEF Held
  <2> QED BY <1>1, <2>1, BookedForever DEF FastKept, AcceptedBooked, Queued
<1> QED BY <1>4, <1>5, <1>6 DEF FastKept

\* A copy that changes hands: from the sweeper or the queue to a goroutine.
LEMMA HandOverKeeps ==
    ASSUME IInv, FastKept, [Next]_vars, ~Durable, NEW w \in Goroutines, pc[w] = "idle",
           NEW c \in Copies, GoTo(w, "begin"), copy' = [copy EXCEPT ![w] = c],
           ~c.inMem => Booked(c.job),
           \A i \in 1..Len(queue') : \E k \in 1..Len(queue) : queue'[i] = queue[k],
           \A j : Queued(j) => Queued(j)' \/ c.job = j,
           claimed' \subseteq claimed, UNCHANGED accepted
    PROVE  FastKept'
<1>1. /\ accepted \subseteq Jobs /\ claimed \subseteq Copies
      /\ \A v \in Goroutines : pc[v] # "idle" => Job(v) \in Jobs
      /\ c.job \in Jobs
  BY JobType DEF IInv, TypeOK, ControlType, QueueType, Copies
<1>2. \A i \in 1..Len(queue) : queue[i].job \in Jobs
  BY DEF IInv, CopiesGood, GoodCopy, Copies
<1>3. \A v \in Goroutines : /\ pc'[v] = IF v = w THEN "begin" ELSE pc[v]
                            /\ copy'[v] = IF v = w THEN c ELSE copy[v]
  BY DEF IInv, TypeOK, WorkerType, GoTo
<1>4. DoneBooked'
  BY <1>1, <1>3, BookedForever DEF FastKept, DoneBooked, Booked, Job
<1>5. LeasedBooked'
  <2>1. \A d \in claimed : d.job \in Jobs
    BY <1>1 DEF Copies
  <2>2. (\A i \in 1..Len(queue) : ~queue[i].inMem => Booked(queue[i].job))'
    <3>1. \A k \in 1..Len(queue) :
             ~queue[k].inMem => \/ queue[k].job \in received'
                                \/ queue[k].job \in forgotten'
                                \/ row'[queue[k].job].status # "none"
      BY <1>2, BookedForever DEF FastKept, LeasedBooked, Booked
    <3> QED BY <3>1 DEF Booked
  <2>3. (\A v \in Goroutines :
           pc[v] \in {"begin", "load"} /\ ~copy[v].inMem => Booked(Job(v)))'
    <3>1. ASSUME NEW v \in Goroutines, v # w, pc'[v] \in {"begin", "load"}, ~copy'[v].inMem
          PROVE  Booked(Job(v))'
      <4>1. Job(v)' = Job(v) /\ Job(v) \in Jobs /\ Booked(Job(v))
        BY <1>1, <1>3, <3>1 DEF Job, FastKept, LeasedBooked
      <4>2. Job(v) \in received' \/ Job(v) \in forgotten' \/ row'[Job(v)].status # "none"
        BY <4>1, BookedForever DEF Booked
      <4> QED BY <4>1, <4>2 DEF Booked
    <3>2. ASSUME ~copy'[w].inMem PROVE Booked(Job(w))'
      <4>1. Job(w)' = c.job /\ Booked(c.job)
        BY <1>3, <3>2 DEF Job
      <4>2. c.job \in received' \/ c.job \in forgotten' \/ row'[c.job].status # "none"
        BY <1>1, <4>1, BookedForever DEF Booked
      <4> QED BY <4>1, <4>2 DEF Booked
    <3> QED BY <3>1, <3>2
  <2>4. (\A d \in claimed : Booked(d.job))'
    BY <2>1, BookedForever DEF FastKept, LeasedBooked
  <2> QED BY <2>2, <2>3, <2>4 DEF LeasedBooked
<1>6. AcceptedBooked'
  <2>1. Held(c.job)'
    BY <1>3 DEF Held, Job
  <2>2. ASSUME NEW j \in accepted, Held(j) PROVE Held(j)'
    <3>1. PICK v \in Goroutines :
             pc[v] \in {"begin", "load", "gate", "send", "save"} /\ Job(v) = j
      BY <2>2 DEF Held
    <3>2. v # w
      BY <3>1
    <3> QED BY <1>3, <3>1, <3>2 DEF Held, Job
  <2> QED BY <1>1, <2>1, <2>2, BookedForever DEF FastKept, AcceptedBooked
<1> QED BY <1>4, <1>5, <1>6 DEF FastKept

LEMMA DispatchKeeps ==
    ASSUME IInv, FastKept, ~Durable, NEW c \in claimed, Dispatch(c)
    PROVE  FastKept'
<1>0. [Next]_vars
  BY DEF Next
<1>1. c \in Copies /\ Booked(c.job) /\ claimed' \subseteq claimed
  BY DEF IInv, TypeOK, QueueType, FastKept, LeasedBooked, Dispatch
<1>2. CASE queue' = Append(queue, c) /\ UNCHANGED <<pc, copy>>
  <2>1. /\ \A j : Queued(j) => Queued(j)'
        /\ \A i \in 1..Len(queue') :
              queue'[i] = c \/ \E k \in 1..Len(queue) : queue'[i] = queue[k]
    BY <1>1, <1>2, AppendQueued
  <2>2. UNCHANGED <<received, row, forgotten, accepted>>
    BY DEF Dispatch, store, history
  <2> QED BY <1>1, <1>2, <2>1, <2>2
        DEF FastKept, AcceptedBooked, LeasedBooked, DoneBooked, Booked, Held, Job
<1>3. ASSUME NEW w \in Overflow, pc[w] = "idle", pc' = [pc EXCEPT ![w] = "begin"],
             copy' = [copy EXCEPT ![w] = c], UNCHANGED queue
      PROVE  FastKept'
  <2>1. w \in Goroutines /\ GoTo(w, "begin") /\ UNCHANGED accepted
    BY <1>3 DEF Goroutines, GoTo, Dispatch
  <2>2. \A j : Queued(j) => Queued(j)'
    BY <1>3 DEF Queued
  <2> QED BY <1>0, <1>1, <1>3, <2>1, <2>2, HandOverKeeps
<1> QED BY <1>2, <1>3 DEF Dispatch

LEMMA TakeKeeps ==
    ASSUME IInv, FastKept, ~Durable, NEW w \in Goroutines, Take(w)
    PROVE  FastKept'
<1>0. [Next]_vars
  BY DEF Next, Work
<1>1. queue \in Seq(Copies) /\ queue # <<>> /\ queue' = Tail(queue)
  BY DEF Take, IInv, TypeOK, QueueType
<1>2. /\ Len(queue') = Len(queue) - 1 /\ \A i \in 1..Len(queue') : queue'[i] = queue[i + 1]
      /\ Len(queue) \in Nat \ {0} /\ Head(queue) = queue[1] /\ Head(queue) \in Copies
  BY <1>1, HeadTailProperties, EmptySeq
<1>3. \A j : Queued(j) => Queued(j)' \/ Head(queue).job = j
  <2> SUFFICES ASSUME NEW j, NEW k \in 1..Len(queue), queue[k].job = j
               PROVE  Queued(j)' \/ Head(queue).job = j
    BY DEF Queued
  <2>1. CASE k = 1
    BY <1>2, <2>1
  <2>2. CASE k # 1
    <3>1. k - 1 \in 1..Len(queue') /\ queue'[k - 1] = queue[k]
      BY <1>2, <2>2
    <3> QED BY <3>1 DEF Queued
  <2> QED BY <2>1, <2>2
<1>4. ~Head(queue).inMem => Booked(Head(queue).job)
  BY <1>2 DEF FastKept, LeasedBooked
<1>5. \A i \in 1..Len(queue') : \E k \in 1..Len(queue) : queue'[i] = queue[k]
  BY <1>2
<1>6. /\ pc[w] = "idle" /\ GoTo(w, "begin") /\ copy' = [copy EXCEPT ![w] = Head(queue)]
      /\ UNCHANGED <<claimed, accepted>>
  BY DEF Take
<1> QED BY <1>0, <1>2, <1>3, <1>4, <1>5, <1>6, HandOverKeeps

\* A second copy of a job in process is thrown away: the first one is in hand, or
\* the job is booked.
LEMMA BeginKeeps ==
    ASSUME IInv, FastKept, ~Durable, NEW w \in Goroutines, Begin(w)
    PROVE  FastKept'
<1>0. [Next]_vars /\ pc[w] = "begin" /\ UNCHANGED <<queue, claimed, accepted>>
  BY DEF Next, Work, Begin
<1>1. CASE Job(w) \in processing /\ Drop(w)
  <2>1. PICK v \in Goroutines : Busy(v) /\ Job(v) = Job(w)
    BY <1>1 DEF IInv, Exclusive
  <2>2. v # w /\ pc[v] \in {"load", "gate", "send", "mark", "save", "release"}
    BY <1>0, <2>1 DEF Busy, IInv, TypeOK, WorkerType
  <2>3. CASE pc[v] \in {"mark", "release"}
    BY <1>0, <1>1, <2>1, <2>3, LeaveKeeps DEF FastKept, DoneBooked
  <2>4. CASE pc[v] \in {"load", "gate", "send", "save"}
    BY <1>0, <1>1, <2>1, <2>2, <2>4, LeaveKeeps
  <2> QED BY <2>2, <2>3, <2>4
<1>2. CASE GoTo(w, "load") /\ UNCHANGED copy
  BY <1>0, <1>2, MoveKeeps
<1> QED BY <1>1, <1>2 DEF Begin, Loaded

\* A script that fails loses a job that has no row; a request or an endpoint that
\* cannot be read loses nothing, for the copies that read them have one.
LEMMA LoadKeeps ==
    ASSUME IInv, FastKept, ~Durable, NEW w \in Goroutines, Load(w)
    PROVE  FastKept'
<1>0. /\ [Next]_vars /\ pc[w] = "load" /\ Job(w) \in Jobs
      /\ UNCHANGED <<queue, claimed, accepted, copy>>
  BY JobType DEF Next, Work, Load, IInv
<1>1. CASE GoTo(w, "gate")
  BY <1>0, <1>1, MoveKeeps
<1>2. ASSUME GoTo(w, "release"), Booked(Job(w))' PROVE FastKept'
  BY <1>0, <1>2, MoveKeeps
<1>3. CASE GoTo(w, "release") /\ Forget({Job(w)})
  <2>1. Booked(Job(w))'
    BY <1>0, <1>3 DEF Forget, Booked, Load, Job, store
  <2> QED BY <1>2, <1>3, <2>1
<1>4. CASE GoTo(w, "release") /\ ~copy[w].inMem
  <2>1. Booked(Job(w))
    BY <1>0, <1>4 DEF FastKept, LeasedBooked
  <2>2. Booked(Job(w))'
    BY <1>0, <2>1, BookedForever DEF Booked, Job
  <2> QED BY <1>2, <1>4, <2>2
<1> QED BY <1>1, <1>3, <1>4 DEF Load, Transformed

LEMMA GateKeeps ==
    ASSUME IInv, FastKept, ~Durable, NEW w \in Goroutines, Gate(w)
    PROVE  FastKept'
  BY MoveKeeps DEF Next, Work, Gate, Refused

LEMMA SendKeeps ==
    ASSUME IInv, FastKept, ~Durable, NEW w \in Goroutines, Send(w)
    PROVE  FastKept'
<1>0. [Next]_vars /\ pc[w] = "send" /\ UNCHANGED <<queue, claimed, accepted>>
  BY DEF Next, Work, Send
<1>1. CASE received' = received \cup {Job(w)} /\ GoTo(w, "mark") /\ UNCHANGED copy
  <2>1. Booked(Job(w))'
    BY <1>1 DEF Booked, Job
  <2> QED BY <1>0, <1>1, <2>1, MoveKeeps
<1>2. CASE copy' = [copy EXCEPT ![w] = Outcome(@, Attempted(@))] /\ GoTo(w, "save")
  <2>1. \A v \in Goroutines : copy'[v].job = copy[v].job /\ copy'[v].inMem = copy[v].inMem
    BY <1>2 DEF Outcome, IInv, TypeOK, WorkerType
  <2> QED BY <1>0, <1>2, <2>1, MoveKeeps
<1> QED BY <1>1, <1>2 DEF Send

LEMMA MarkKeeps ==
    ASSUME IInv, FastKept, ~Durable, NEW w \in Goroutines, Mark(w)
    PROVE  FastKept'
<1>1. Job(w) \in received /\ UNCHANGED <<copy, received>>
  BY DEF Mark, IInv, DoneReceived, history
<1>2. Booked(Job(w))'
  BY <1>1 DEF Booked, Job
<1> QED BY <1>1, <1>2, MoveKeeps DEF Next, Work, Mark

LEMMA SaveKeeps ==
    ASSUME IInv, FastKept, ~Durable, NEW w \in Goroutines, Save(w)
    PROVE  FastKept'
<1>0. Job(w) \in Jobs /\ copy[w] \in Copies /\ row \in [Jobs -> Rows] /\ UNCHANGED copy
  BY JobType DEF Save, IInv, TypeOK, StoreType
<1>1. CASE row' = [row EXCEPT ![Job(w)] = [status |-> copy[w].status,
                                         attempts |-> copy[w].attempts, due |-> FALSE]]
  <2>1. row'[Job(w)].status = copy[w].status /\ copy[w].status # "none"
    BY <1>0, <1>1 DEF Copies
  <2>2. Booked(Job(w))'
    BY <1>0, <2>1 DEF Booked, Job
  <2> QED BY <1>0, <2>2, MoveKeeps DEF Next, Work, Save
<1>2. CASE Forget({Job(w)}) /\ UNCHANGED row
  <2>1. Booked(Job(w))'
    BY <1>0, <1>2 DEF Booked, Forget, Job
  <2> QED BY <1>0, <2>1, MoveKeeps DEF Next, Work, Save
<1> QED BY <1>1, <1>2 DEF Save

LEMMA ReleaseKeeps ==
    ASSUME IInv, FastKept, ~Durable, NEW w \in Goroutines, Release(w)
    PROVE  FastKept'
<1>1. Booked(Job(w))
  BY DEF Release, FastKept, DoneBooked
<1> QED BY <1>1, LeaveKeeps DEF Next, Work, Release

\* The end of the process counts every job that was in hand only.
LEMMA RestartKeeps ==
    ASSUME IInv, FastKept, ~Durable, Restart
    PROVE  FastKept'
<1>1. \A j : InHand(j) <=> Queued(j) \/ Held(j)
  BY DEF InHand, Queued, Held
<1>2. accepted \subseteq Jobs /\ UNCHANGED <<accepted, row, received>>
  BY DEF Restart, IInv, TypeOK, ControlType
<1>3. AcceptedBooked'
  BY <1>1, <1>2 DEF Restart, Forget, FastKept, AcceptedBooked, Booked
<1> QED BY <1>3 DEF Restart, FastKept, LeasedBooked, DoneBooked

LEMMA NextKeepsFast == IInv /\ FastKept /\ [Next]_vars => FastKept'
<1> SUFFICES ASSUME IInv, FastKept, [Next]_vars, ~Durable PROVE FastKept'
  BY DEF FastKept
<1>1. ASSUME NEW c \in claimed, Dispatch(c) PROVE FastKept'
  BY <1>1, DispatchKeeps
<1>2. ASSUME NEW w \in Goroutines, Work(w) PROVE FastKept'
  BY <1>2, TakeKeeps, BeginKeeps, LoadKeeps, GateKeeps, SendKeeps, MarkKeeps, SaveKeeps,
     ReleaseKeeps DEF Work
<1>3. CASE Restart
  BY <1>3, RestartKeeps
<1>4. ASSUME NEW j \in Jobs, Capture(j) \/ Accept(j) PROVE FastKept'
  BY <1>4, PushKeeps DEF Capture, Accept, sweeper, worker, store
<1>5. \A c \in claimed : c.job \in Jobs /\ Booked(c.job)
  BY DEF FastKept, LeasedBooked, IInv, TypeOK, QueueType, Copies
<1>6. \A c \in claimed : Booked(c.job)'
  BY <1>5, BookedForever
<1>7. ASSUME NEW S \in SUBSET Jobs, Claim(S) PROVE FastKept'
  <2>1. \A c \in claimed' : \E j \in Jobs : c.job = j /\ row[j].status = "pending"
    BY <1>7 DEF Claim, Claimable, Leased
  <2>2. \A j \in Jobs : row[j].status = "pending" => Booked(j)'
    BY BookedForever DEF Booked
  <2>3. \A c \in claimed' : Booked(c.job)'
    BY <2>1, <2>2 DEF Booked
  <2> QED BY <1>7, <2>3, QuietKeeps DEF Claim, worker
<1>8. CASE SweeperStop
  BY <1>8, QuietKeeps DEF SweeperStop, worker
<1>9. CASE UNCHANGED <<queue, claimed, pc, copy, accepted>>
  BY <1>6, <1>9, QuietKeeps
<1> QED
  BY <1>1, <1>2, <1>3, <1>4, <1>7, <1>8, <1>9
     DEF Next, vars, StoreItem, LoseItem, GiveUpWaiting, ComeDue, Collect, Flush, Shutdown,
         sweeper, worker

\* ACK_MODE=fast (README.md:42): an acknowledged webhook vanishes by a full queue, a
\* script that fails, a first row that is not stored, or the end of the process, and
\* by nothing else, whatever the queue, the sweeper, the breaker and the copies do.
THEOREM FastLossesAreKnown == Spec => []FastLossKnown
<1>1. Init => FastKept
  BY DEF Init, FastKept, AcceptedBooked, LeasedBooked, DoneBooked
<1>2. FastKept => FastLossKnown
  BY DEF FastKept, AcceptedBooked, FastLossKnown, Booked, Queued, Held, InHand
<1> QED BY <1>1, <1>2, NextKeepsFast, Invariance, PTL DEF Spec
=============================================================================
