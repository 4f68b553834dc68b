-------------------------- MODULE DeliveryRefines --------------------------
(***************************************************************************)
(* Delivery implements AtLeastOnce and Acknowledgment in both modes: the   *)
(* rows of the delivery_jobs table change only as the contract's books may *)
(* and the sender is told no more than Acknowledgment allows.              *)
(***************************************************************************)
EXTENDS DeliveryProofs

Owed == {j \in Jobs : row[j].status = "pending"}
Failed == {j \in Jobs : row[j].status = "failed"}

-----------------------------------------------------------------------------
\* Every copy in memory belongs to a job that is stored.
CopiesStored ==
    Durable =>
        /\ \A i \in 1..Len(queue) : stage[queue[i].job] = "stored"
        /\ \A c \in claimed : stage[c.job] = "stored"
        /\ \A w \in Goroutines : pc[w] # "idle" => stage[Job(w)] = "stored"

RInv == IInv /\ CopiesStored

\* A stored job stays stored.
LEMMA StoredForever ==
    ASSUME IInv, [Next]_vars, NEW j \in Jobs, stage[j] = "stored"
    PROVE  stage'[j] = "stored"
<1>1. stage \in [Jobs -> {"new", "ingest", "stored", "lost"}]
  BY DEF IInv, TypeOK, StoreType
<1> QED
  BY <1>1 DEF Next, vars, Work, Capture, StoreItem, LoseItem, Accept, GiveUpWaiting,
       ComeDue,
     Claim, Dispatch, SweeperStop, Take, Begin, Load, Transformed, Gate, Send, Mark,
          Save, Release,
     Collect, Flush, Shutdown, Restart, store

\* Where the copies of the next state come from.
LEMMA QueueOrigin ==
    ASSUME IInv, NEW c \in Copies, queue' = Append(queue, c),
           NEW i \in 1..Len(queue')
    PROVE  queue'[i] = c \/ \E k \in 1..Len(queue) : queue'[i] = queue[k]
<1>1. queue \in Seq(Copies)
  BY DEF IInv, TypeOK, QueueType
<1> QED
  BY <1>1, AppendProperties, LenProperties

LEMMA QueueStoredStep ==
    ASSUME RInv, [Next]_vars, Durable
    PROVE  \A i \in 1..Len(queue') : stage[queue'[i].job] = "stored"
<1>1. /\ \A i \in 1..Len(queue) : stage[queue[i].job] = "stored"
      /\ queue \in Seq(Copies)
  BY DEF RInv, CopiesStored, IInv, TypeOK, QueueType
<1>2. ASSUME NEW c \in Copies, stage[c.job] = "stored", queue' = Append(queue, c)
      PROVE  \A i \in 1..Len(queue') : stage[queue'[i].job] = "stored"
  BY <1>1, <1>2, QueueOrigin DEF RInv
<1>3. CASE UNCHANGED queue
  BY <1>1, <1>3
<1>4. ASSUME NEW j \in Jobs, Accept(j)
      PROVE  \A i \in 1..Len(queue') : stage[queue'[i].job] = "stored"
  <2>1. Captured(j) \in Copies /\ Captured(j).job = j /\ stage[j] = "stored"
    BY <1>4, CapturedType DEF Accept, Committed, Captured
  <2> QED BY <1>2, <1>3, <1>4, <2>1 DEF Accept, Push
<1>5. ASSUME NEW c \in claimed, Dispatch(c)
      PROVE  \A i \in 1..Len(queue') : stage[queue'[i].job] = "stored"
  <2>1. c \in Copies /\ stage[c.job] = "stored"
    BY DEF RInv, CopiesStored, IInv, TypeOK, QueueType
  <2> QED BY <1>2, <1>3, <1>5, <2>1 DEF Dispatch
<1>6. ASSUME NEW w \in Goroutines, Take(w)
      PROVE  \A i \in 1..Len(queue') : stage[queue'[i].job] = "stored"
  <2>1. queue # <<>> /\ queue' = Tail(queue)
    BY <1>6 DEF Take
  <2>2. /\ Len(Tail(queue)) = Len(queue) - 1 /\ Len(queue) \in Nat
        /\ \A i \in 1..Len(Tail(queue)) : Tail(queue)[i] = queue[i + 1]
    BY <1>1, <2>1, HeadTailProperties, LenProperties
  <2> QED BY <1>1, <2>1, <2>2
<1>7. CASE Restart
  BY <1>7 DEF Restart
<1> QED
  BY <1>3, <1>4, <1>5, <1>6, <1>7
     DEF Next, vars, Work, Capture, StoreItem, LoseItem, GiveUpWaiting, ComeDue, Claim,
         SweeperStop, Begin, Load, Transformed, Gate, Send, Mark, Save, Release, Collect,
              Flush, Shutdown

LEMMA ClaimedStoredStep ==
    ASSUME RInv, [Next]_vars, Durable
    PROVE  \A c \in claimed' : stage[c.job] = "stored"
<1>1. \A c \in claimed : stage[c.job] = "stored"
  BY DEF RInv, CopiesStored
<1>2. CASE claimed' \subseteq claimed
  BY <1>1, <1>2
<1>3. ASSUME NEW S \in SUBSET Jobs, Claim(S)
      PROVE  \A c \in claimed' : stage[c.job] = "stored"
  <2>1. \A j \in S : Leased(j).job = j /\ stage[j] = "stored"
    BY <1>3 DEF Claim, Claimable, Leased, RInv, IInv, RowsGood, GoodRow
  <2> QED BY <1>2, <1>3, <2>1 DEF Claim
<1> QED
  BY <1>2, <1>3
     DEF Next, vars, Work, Capture, StoreItem, LoseItem, Accept, GiveUpWaiting, ComeDue,
         Dispatch, SweeperStop, Take, Begin, Load, Transformed, Gate, Send, Mark, Save,
              Release, Collect,
         Flush, Shutdown, Restart, sweeper

LEMMA HeldStoredStep ==
    ASSUME RInv, [Next]_vars, Durable, NEW v \in Goroutines, pc'[v] # "idle"
    PROVE  stage[copy'[v].job] = "stored"
<1>1. pc[v] # "idle" => stage[copy[v].job] = "stored"
  BY DEF RInv, CopiesStored, Job
<1>2. pc = [u \in Goroutines |-> pc[u]] /\ copy \in [Goroutines -> Copies \cup {NoCopy}]
  BY DEF RInv, IInv, TypeOK, WorkerType
<1>3. CASE pc[v] # "idle" /\ copy'[v] = copy[v]
  BY <1>1, <1>3
<1>4. CASE UNCHANGED <<pc, copy>>
  BY <1>1, <1>4
<1>5. ASSUME NEW c \in claimed, Dispatch(c)
      PROVE  stage[copy'[v].job] = "stored"
  <2>1. stage[c.job] = "stored"
    BY DEF RInv, CopiesStored
  <2>2. ASSUME NEW o \in Overflow, pc[o] = "idle", pc' = [pc EXCEPT ![o] = "begin"],
               copy' = [copy EXCEPT ![o] = c]
        PROVE  stage[copy'[v].job] = "stored"
    BY <1>1, <1>2, <2>1, <2>2 DEF Goroutines
  <2> QED BY <1>4, <1>5, <2>2 DEF Dispatch
<1>6. ASSUME NEW w \in Goroutines, Take(w)
      PROVE  stage[copy'[v].job] = "stored"
  <2>1. queue \in Seq(Copies) /\ queue # <<>>
    BY <1>6 DEF Take, RInv, IInv, TypeOK, QueueType
  <2>2. Head(queue) = queue[1] /\ Len(queue) \in Nat \ {0}
    BY <2>1, EmptySeq
  <2>3. stage[Head(queue).job] = "stored"
    BY <2>2 DEF RInv, CopiesStored
  <2> QED BY <1>1, <1>2, <1>6, <2>3 DEF Take, GoTo
<1>7. ASSUME NEW w \in Goroutines, Send(w)
      PROVE  stage[copy'[v].job] = "stored"
  <2>1. pc[w] = "send" /\ \A u \in Goroutines : u # w => pc'[u] = pc[u]
    BY <1>2, <1>7 DEF Send, GoTo
  <2>2. copy'[v].job = copy[v].job
    BY <1>2, <1>7 DEF Send, Outcome
  <2> QED BY <1>1, <2>1, <2>2
<1>8. ASSUME NEW w \in Goroutines,
             Begin(w) \/ Load(w) \/ Gate(w) \/ Mark(w) \/ Save(w) \/ Release(w)
      PROVE  stage[copy'[v].job] = "stored"
  <2>1. pc[w] # "idle" /\ \A u \in Goroutines : u # w => pc'[u] = pc[u] /\ copy'[u] = copy[u]
    BY <1>2, <1>8 DEF Begin, Load, Transformed, Gate, Refused, Mark, Save, Release, GoTo, Drop
  <2>2. CASE Drop(w)
    BY <1>1, <1>2, <2>1, <2>2 DEF Drop
  <2>3. CASE UNCHANGED copy
    BY <1>1, <2>1, <2>3
  <2> QED BY <1>8, <2>2, <2>3 DEF Begin, Load, Transformed, Gate, Refused, Mark, Save, Release
<1>9. CASE Restart
  BY <1>9 DEF Restart
<1> QED
  BY <1>4, <1>5, <1>6, <1>7, <1>8, <1>9
     DEF Next, vars, Work, Capture, StoreItem, LoseItem, Accept, GiveUpWaiting, ComeDue,
          Claim,
         SweeperStop, Collect, Flush, Shutdown, worker

LEMMA CopiesStoredStep == RInv /\ [Next]_vars => CopiesStored'
<1> SUFFICES ASSUME RInv, [Next]_vars, Durable PROVE CopiesStored'
  BY DEF CopiesStored
<1>1. IInv'
  BY NextKeepsIInv DEF RInv
<1>2. /\ \A i \in 1..Len(queue') : queue'[i] \in Copies
      /\ \A c \in claimed' : c \in Copies
      /\ \A w \in Goroutines : pc'[w] # "idle" => copy'[w] \in Copies
  BY <1>1 DEF IInv, CopiesGood, GoodCopy, TypeOK, QueueType, WorkerType
<1>3. \A c \in Copies : stage[c.job] = "stored" => stage'[c.job] = "stored"
  BY StoredForever DEF RInv, Copies
<1> QED
  BY <1>2, <1>3, QueueStoredStep, ClaimedStoredStep, HeldStoredStep DEF CopiesStored, Job

LEMMA RInvariance == Spec => []RInv
<1>1. Init => RInv
  BY InitIInv DEF Init, RInv, CopiesStored
<1>2. RInv /\ [Next]_vars => RInv'
  BY NextKeepsIInv, CopiesStoredStep DEF RInv
<1> QED BY <1>1, <1>2, PTL DEF Spec

-----------------------------------------------------------------------------
(* Every step is a step of the contract, or none of its business. *)

LEMMA SettleStep ==
    ASSUME IInv, NEW S \in SUBSET Jobs, S \subseteq received, row' = Marked(S),
           UNCHANGED <<accepted, received, tries>>
    PROVE  Contract!Settle(S)
<1>1. \A j \in Jobs :
         row'[j].status = IF j \notin S THEN row[j].status
                          ELSE IF ~KeepDelivered \/ row[j].status = "none" THEN "none"
                          ELSE "delivered"
  BY DEF Marked, NoRow
<1> QED BY <1>1 DEF Contract!Settle

LEMMA SaveRefines ==
    ASSUME RInv, NEW w \in Goroutines, Save(w)
    PROVE  [Contract!Next]_Contract!vars
<1>1. /\ Job(w) \in Jobs /\ copy[w] \in Copies /\ UsedCopy(copy[w])
      /\ row \in [Jobs -> Rows] /\ tries[Job(w)] \in 0..MaxAttempts
  BY JobType DEF Save, RInv, IInv, CopiesGood, TypeOK, StoreType, ControlType
<1>2. CASE UNCHANGED row
  BY <1>2 DEF Save, Contract!vars, history
<1>3. CASE row' = [row EXCEPT ![Job(w)] = [status |-> copy[w].status,
                                         attempts |-> copy[w].attempts, due |-> FALSE]]
  <2>1. \A j \in Jobs :
           row'[j].status = IF j = Job(w) THEN copy[w].status ELSE row[j].status
    BY <1>1, <1>3
  <2>2. CASE copy[w].status = "pending"
    BY <1>1, <2>1, <2>2 DEF Save, Contract!Owe, Contract!Next, history
  <2>3. CASE copy[w].status = "failed"
    <3>1. tries[Job(w)] = MaxAttempts
      BY <1>1, <2>3, DeliveryAssumption DEF UsedCopy, Job
    <3> QED BY <1>1, <2>1, <2>3, <3>1 DEF Save, Contract!GiveUp, Contract!Next, history
  <2> QED BY <1>1, <2>2, <2>3 DEF Copies
<1> QED BY <1>2, <1>3 DEF Save

LEMMA SendRefines ==
    ASSUME RInv, NEW w \in Goroutines, Send(w)
    PROVE  [Contract!Next]_Contract!vars
<1>1. Job(w) \in Jobs /\ (Durable => stage[Job(w)] = "stored")
  BY JobType DEF Send, RInv, IInv, CopiesStored
<1>2. Durable => Job(w) \in Owed \cup Failed \cup received
  BY <1>1 DEF RInv, IInv, StoredKept, Owed, Failed
<1>3. CASE received' = received \cup {Job(w)} /\ UNCHANGED tries
  BY <1>1, <1>2, <1>3
     DEF Send, Contract!Receive, Contract!Known, Contract!Next, Owed, Failed, store
<1>4. CASE tries' = [tries EXCEPT ![Job(w)] = IF @ < MaxAttempts THEN @ + 1 ELSE @]
           /\ UNCHANGED received
  BY <1>1, <1>4 DEF Send, Contract!Miss, Contract!Next, store
<1> QED BY <1>3, <1>4 DEF Send

LEMMA StepRefines ==
    ASSUME RInv, [Next]_vars
    PROVE  [Contract!Next]_Contract!vars
<1>1. ASSUME NEW j \in Jobs, StoreItem(j) PROVE [Contract!Next]_Contract!vars
  <2>1. CASE Durable
    <3>1. \A i \in Jobs : row'[i].status = IF i = j THEN "pending" ELSE row[i].status
      BY <1>1, <2>1 DEF StoreItem, Postponed, RInv, IInv, TypeOK, StoreType
    <3> QED BY <1>1, <3>1 DEF StoreItem, Contract!Owe, Contract!Next, history
  <2>2. CASE ~Durable
    BY <1>1, <2>2 DEF StoreItem, Contract!vars, history
  <2> QED BY <2>1, <2>2
<1>2. ASSUME NEW j \in Jobs, Accept(j) PROVE [Contract!Next]_Contract!vars
  <2>1. Durable => j \in Owed \cup Failed \cup received
    BY <1>2 DEF Accept, Committed, RInv, IInv, StoredKept, Owed, Failed
  <2> QED
    BY <1>2, <2>1
       DEF Accept, Contract!Accept, Contract!Known, Contract!Next, Owed, Failed, store,
           history
<1>3. ASSUME NEW j \in Jobs, ComeDue(j) PROVE [Contract!Next]_Contract!vars
  <2>1. \A i \in Jobs : row'[i].status = row[i].status
    BY <1>3 DEF ComeDue, Postponed, RInv, IInv, TypeOK, StoreType
  <2> QED BY <1>3, <2>1 DEF ComeDue, Contract!vars, history
<1>4. ASSUME NEW S \in SUBSET Jobs, Claim(S) PROVE [Contract!Next]_Contract!vars
  <2>1. \A i \in Jobs : row'[i].status = row[i].status
    BY <1>4 DEF Claim, Claimable, Postponed
  <2> QED BY <1>4, <2>1 DEF Claim, Contract!vars, history
<1>5. ASSUME NEW w \in Goroutines, Send(w) PROVE [Contract!Next]_Contract!vars
  BY <1>5, SendRefines
<1>6. ASSUME NEW w \in Goroutines, Save(w) PROVE [Contract!Next]_Contract!vars
  BY <1>6, SaveRefines
<1>7. ASSUME NEW w \in Goroutines, Mark(w) PROVE [Contract!Next]_Contract!vars
  <2>1. Job(w) \in Jobs /\ Job(w) \in received
    BY <1>7, JobType DEF Mark, RInv, IInv, DoneReceived
  <2>2. CASE row' = Marked({Job(w)})
    BY <1>7, <2>1, <2>2, SettleStep DEF Mark, RInv, Contract!Next, history
  <2> QED BY <1>7, <2>2 DEF Mark, Contract!vars, history
<1>8. CASE Flush
  <2>1. ids \subseteq Jobs /\ ids \subseteq received
    BY DEF RInv, IInv, DoneReceived, TypeOK, FlusherType
  <2>2. CASE row' = Marked(ids)
    BY <1>8, <2>1, <2>2, SettleStep DEF Flush, RInv, Contract!Next, history
  <2> QED BY <1>8, <2>2 DEF Flush, Contract!vars, history
<1>9. ASSUME NEW j \in Jobs, Capture(j) PROVE [Contract!Next]_Contract!vars
  BY <1>9 DEF Capture, Contract!Accept, Contract!Next, Contract!vars, history
<1>10. CASE UNCHANGED <<row, accepted, received, tries>>
  BY <1>10 DEF Contract!vars
<1> QED
  BY <1>1, <1>2, <1>3, <1>4, <1>5, <1>6, <1>7, <1>8, <1>9, <1>10
     DEF Next, vars, Work, LoseItem, GiveUpWaiting, Dispatch, SweeperStop, Take,
         Begin, Load, Transformed, Gate, Release, Collect, Shutdown, Restart, store, history

-----------------------------------------------------------------------------
(* What the sender is told *)

\* Nobody waits for an answer that was given, fast mode keeps nobody waiting, and a
\* request that has not come has no answer.
Unanswered ==
    /\ waiting \cap accepted = {}
    /\ ~Durable => waiting = {}
    /\ \A j \in Jobs : stage[j] = "new" => j \notin waiting \cup accepted

Said == [j \in Jobs |-> IF j \in accepted THEN "ok" ELSE "nothing"]
Kept == {j \in Jobs : stage[j] = "stored"}

LEMMA NextKeepsUnanswered == IInv /\ Unanswered /\ [Next]_vars => Unanswered'
<1> SUFFICES ASSUME IInv, Unanswered, [Next]_vars PROVE Unanswered' OBVIOUS
<1>0. stage \in [Jobs -> {"new", "ingest", "stored", "lost"}]
  BY DEF IInv, TypeOK, StoreType
<1>1. ASSUME NEW j \in Jobs,
             \/ Capture(j) \/ StoreItem(j) \/ LoseItem(j) \/ Accept(j) \/ GiveUpWaiting(j)
      PROVE  Unanswered'
  BY <1>0, <1>1
     DEF Unanswered, Capture, StoreItem, LoseItem, Accept, GiveUpWaiting, Committed, store
<1>2. CASE Restart
  BY <1>0, <1>2 DEF Unanswered, Restart
<1>3. CASE UNCHANGED <<stage, waiting, accepted>>
  BY <1>3 DEF Unanswered
<1> QED
  BY <1>1, <1>2, <1>3
     DEF Next, vars, Work, ComeDue, Claim, Dispatch, SweeperStop, Take, Begin, Load, Gate,
         Send, Mark, Save, Release, Collect, Flush, Shutdown, store

LEMMA StepTells ==
    ASSUME IInv, Unanswered, [Next]_vars
    PROVE  [Sender!Next]_Sender!vars
<1>0. stage \in [Jobs -> {"new", "ingest", "stored", "lost"}]
  BY DEF IInv, TypeOK, StoreType
<1>1. ASSUME NEW j \in Jobs, Capture(j) PROVE [Sender!Next]_Sender!vars
  <2>1. Kept' = Kept
    BY <1>0, <1>1 DEF Capture, Kept
  <2>2. CASE Durable
    BY <1>1, <2>1, <2>2 DEF Capture, Kept, Sender!vars
  <2>3. CASE ~Durable
    <3>1. accepted' = accepted \cup {j} /\ j \notin accepted
      BY <1>1, <2>3 DEF Capture, Unanswered
    <3>2. Said[j] = "nothing" /\ Said' = [Said EXCEPT ![j] = "ok"]
      BY <3>1 DEF Said
    <3> QED
      BY <2>1, <2>3, <3>2 DEF Kept, Said, Sender!Accept, Sender!Tell, Sender!Next
  <2> QED BY <2>2, <2>3
<1>2. ASSUME NEW j \in Jobs, StoreItem(j) PROVE [Sender!Next]_Sender!vars
  <2>1. Kept' = Kept \cup {j} /\ j \notin Kept /\ UNCHANGED accepted
    BY <1>0, <1>2 DEF StoreItem, Kept
  <2>2. Said[j] = "nothing" \/ (Said[j] = "ok" /\ ~Durable)
    BY <1>2 DEF StoreItem, Said, IInv, StoredKept
  <2>3. Sender!Commit({j})
    BY <2>1, <2>2 DEF Kept, Said, Sender!Commit
  <2> QED BY <2>3 DEF Sender!Next
<1>3. ASSUME NEW j \in Jobs, Accept(j) PROVE [Sender!Next]_Sender!vars
  <2>1. /\ accepted' = accepted \cup {j} /\ j \notin accepted
        /\ UNCHANGED stage /\ j \in Kept
    BY <1>3 DEF Accept, Committed, Unanswered, Kept, store
  <2>2. Said[j] = "nothing" /\ Said' = [Said EXCEPT ![j] = "ok"]
    BY <2>1 DEF Said
  <2> QED
    BY <2>1, <2>2 DEF Kept, Said, Sender!Accept, Sender!Tell, Sender!Next
<1>4. CASE Kept' = Kept /\ UNCHANGED accepted
  BY <1>4 DEF Kept, Sender!vars
<1>5. ASSUME NEW j \in Jobs, LoseItem(j) PROVE Kept' = Kept /\ UNCHANGED accepted
  BY <1>0, <1>5 DEF LoseItem, Kept
<1>6. CASE Restart
  BY <1>0, <1>4, <1>6 DEF Restart, Kept
<1>7. CASE UNCHANGED <<stage, accepted>>
  BY <1>4, <1>7 DEF Kept
<1> QED
  BY <1>1, <1>2, <1>3, <1>4, <1>5, <1>6, <1>7
     DEF Next, vars, Work, GiveUpWaiting, ComeDue, Claim, Dispatch, SweeperStop, Take,
         Begin, Load, Gate, Send, Mark, Save, Release, Collect, Flush, Shutdown, store

\* In both modes the system keeps the at-least-once contract (README.md:44-48,
\* FAILURE_MODES.md:7-12) and tells its senders no more than it may.
THEOREM Refinement == Spec => ImplementsContract
<1>1. Init => Contract!Init /\ Sender!Init
  BY DEF Init, Contract!Init, Sender!Init, NoRow
<1>2. RInv /\ [Next]_vars => [Contract!Next]_Contract!vars
  BY StepRefines
<1>3. Init => Unanswered
  BY DEF Init, Unanswered
<1>4. IInv /\ Unanswered /\ [Next]_vars => [Sender!Next]_Sender!vars
  BY StepTells
<1> QED
  BY <1>1, <1>2, <1>3, <1>4, RInvariance, Invariance, NextKeepsUnanswered, PTL
     DEF Spec, ImplementsContract, Contract!Spec, Sender!Spec

-----------------------------------------------------------------------------
(* What the contract is worth *)

\* AtLeastOnce, which knows nothing of queues, copies, leases and crashes, is
\* enough for its promises.
THEOREM ContractKeepsItsWord ==
    Contract!Spec => /\ [](Contract!NothingForgotten /\ Contract!HonestFailures)
                     /\ Contract!NothingDropped
<1> DEFINE Word == /\ Contract!NothingForgotten /\ Contract!HonestFailures
                   /\ tries \in [Jobs -> 0..MaxAttempts]
<1>1. Contract!Init => Word
  BY DeliveryAssumption
     DEF Contract!Init, Contract!NothingForgotten, Contract!HonestFailures
<1>2. [Contract!Next]_(Contract!vars) =>
         (Contract!Known \subseteq Contract!Known')
  BY DEF Contract!Next, Contract!vars, Contract!Owe, Contract!Accept, Contract!Receive,
         Contract!Miss, Contract!GiveUp, Contract!Settle, Contract!Known
<1>3. Word /\ [Contract!Next]_(Contract!vars) => Word'
  <2> SUFFICES ASSUME Word, [Contract!Next]_(Contract!vars) PROVE Word' OBVIOUS
  <2> USE DEF Contract!NothingForgotten, Contract!HonestFailures
  <2>1. CASE UNCHANGED Contract!vars
    BY <2>1 DEF Contract!vars, Contract!Known
  <2>2. ASSUME NEW j \in Jobs, Contract!Owe(j) \/ Contract!Accept(j) \/ Contract!Receive(j)
        PROVE  Word'
    BY <2>2 DEF Contract!Owe, Contract!Accept, Contract!Receive, Contract!Known
  <2>3. ASSUME NEW j \in Jobs, Contract!Miss(j) PROVE Word'
    <3>1. tries' \in [Jobs -> 0..MaxAttempts]
      BY <2>3, DeliveryAssumption DEF Contract!Miss
    <3>2. \A i \in Jobs : tries[i] = MaxAttempts => tries'[i] = MaxAttempts
      BY <2>3, DeliveryAssumption DEF Contract!Miss
    <3> QED BY <2>3, <3>1, <3>2 DEF Contract!Miss, Contract!Known
  <2>4. ASSUME NEW j \in Jobs, Contract!GiveUp(j) PROVE Word'
    BY <2>4 DEF Contract!GiveUp, Contract!Known
  <2>5. ASSUME NEW S \in SUBSET Jobs, Contract!Settle(S) PROVE Word'
    BY <2>5 DEF Contract!Settle, Contract!Known
  <2> QED BY <2>1, <2>2, <2>3, <2>4, <2>5 DEF Contract!Next
<1> QED BY <1>1, <1>2, <1>3, PTL DEF Contract!Spec, Contract!NothingDropped

\* From its first row on a job stays in the books of the store until it was received,
\* in both modes and through any number of faults.
THEOREM NothingIsDropped == Spec => Contract!NothingDropped
  BY Refinement, ContractKeepsItsWord, PTL DEF ImplementsContract
=============================================================================
