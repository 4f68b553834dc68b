---------------------------- MODULE IngestProofs ----------------------------
(***************************************************************************)
(* For any number of handlers, channels and endpoints, any capacity and    *)
(* batch size, any transactions that fail, any deletions and shutdown: an  *)
(* answer that came through a result channel nobody else has put back      *)
(* tells the truth, nobody is left without one, and a sender sees no more  *)
(* than Acknowledgment allows.                                             *)
(***************************************************************************)
EXTENDS Ingest, TLAPS

\* Items that are on their way to a batch or to their notification.
Pending == InCh \cup Items

\* An item is in one place only.
Once ==
    /\ \A i, k \in 1..Len(ingestCh) : ingestCh[i] = ingestCh[k] => i = k
    /\ \A i, k \in 1..Len(batch) : batch[i] = batch[k] => i = k
    /\ \A i \in 1..Len(ingestCh), k \in 1..Len(batch) : ingestCh[i] # batch[k]

Phases ==
    /\ wpc = "select" => batch = <<>>
    /\ \A h \in Pending : pc[h] \notin {"idle", "blocked"}
    /\ ~Durable => \A h \in Handlers : pc[h] \notin {"wait", "e500"}

\* A handler that has a channel shares it neither with another one nor with the
\* pool, be the channel clean or not.
Ownership ==
    Durable =>
        /\ \A h \in Handlers : Waits(h) => ch[h] \in Chans \ (pool \cup fresh)
        /\ \A g, h \in Handlers : g # h /\ Waits(g) /\ Waits(h) => ch[g] # ch[h]
        /\ pool \cap fresh = {}

Clean(c) == c \in Chans \ orphaned

\* A clean channel is empty unless it holds the answer its handler waits for.
CellsClean ==
    /\ \A c \in pool \cup fresh : Clean(c) => cell[c] = "empty"
    /\ Durable => \A h \in Handlers :
                     pc[h] = "blocked" /\ Clean(ch[h]) => cell[ch[h]] = "empty"
    /\ Durable => \A h \in Pending :
                     Clean(ch[h]) => pc[h] = "wait" /\ cell[ch[h]] = "empty"

\* What the worker is about to tell, and what it has told, is what happened.
GoodNews ==
    /\ wpc = "notify" /\ verdict = "ok" => Items \subseteq committed
    /\ Durable => \A h \in Handlers :
                     pc[h] = "wait" /\ Clean(ch[h]) /\ cell[ch[h]] = "ok"
                        => h \in committed

BadNews ==
    faults = 0 =>
        /\ InCh \cap committed = {}
        /\ wpc # "notify" \/ verdict = "err" => Items \cap committed = {}
        /\ \A h \in Handlers :
              /\ pc[h] \in {"idle", "blocked"} => h \notin committed
              /\ pc[h] = "wait" /\ Clean(ch[h]) /\ cell[ch[h]] = "err"
                    => h \notin committed

\* Who has answered has a channel of the pool's, if any (durable mode).
Channelled ==
    Durable => \A h \in Handlers : pc[h] # "idle" => ch[h] \in Chans

IInv ==
    /\ TypeOK /\ Once /\ Phases /\ Ownership /\ CellsClean /\ GoodNews /\ BadNews
    /\ Channelled /\ AckedIsCommitted /\ RefusedIsNotStored

-----------------------------------------------------------------------------
(* Where the items are *)

\* An item that is enqueued joins the others at the end.
LEMMA EnqueueItems ==
    ASSUME TypeOK, Once, NEW h \in Handlers, h \notin Pending,
           ingestCh' = Append(ingestCh, h), UNCHANGED batch, HasRoom
    PROVE  /\ ingestCh' \in Seq(Handlers) /\ Len(ingestCh') <= IngestCap
           /\ InCh' = InCh \cup {h} /\ Items' = Items
           /\ Once'
<1>1. ingestCh \in Seq(Handlers) /\ batch \in Seq(Handlers)
  BY DEF TypeOK, WorkerType
<1>2. /\ ingestCh' \in Seq(Handlers) /\ Len(ingestCh') = Len(ingestCh) + 1
      /\ \A i \in 1..Len(ingestCh) : ingestCh'[i] = ingestCh[i]
      /\ ingestCh'[Len(ingestCh) + 1] = h
  BY <1>1
<1>3. Len(ingestCh') <= IngestCap
  BY <1>1, <1>2, IngestAssumption DEF HasRoom
<1>4. InCh' = InCh \cup {h}
  BY <1>1, <1>2 DEF InCh
<1>5. Items' = Items
  BY DEF Items
<1>6. \A i \in 1..Len(ingestCh) : ingestCh[i] # h
  BY DEF Pending, InCh
<1>7. \A i \in 1..Len(batch) : batch[i] # h
  BY DEF Pending, Items
<1>8. Once'
  BY <1>1, <1>2, <1>6, <1>7 DEF Once
<1> QED BY <1>2, <1>3, <1>4, <1>5, <1>8

\* The item the worker picks leaves the channel for the batch.
LEMMA PickItems ==
    ASSUME TypeOK, Once, ingestCh # <<>>, Pick, Len(batch) < BatchMax
    PROVE  /\ ingestCh' \in Seq(Handlers) /\ Len(ingestCh') <= IngestCap
           /\ batch' \in Seq(Handlers) /\ Len(batch') <= BatchMax
           /\ InCh' \subseteq InCh /\ Pending' = Pending
           /\ Items' \subseteq Items \cup InCh
           /\ Once'
<1> DEFINE n == Len(ingestCh)
           m == Len(batch)
<1>1. ingestCh \in Seq(Handlers) /\ batch \in Seq(Handlers) /\ n \in Nat /\ m \in Nat /\ n >= 1
  BY DEF TypeOK, WorkerType
<1>2. /\ ingestCh' \in Seq(Handlers) /\ Len(ingestCh') = n - 1
      /\ \A i \in 1..(n - 1) : ingestCh'[i] = ingestCh[i + 1]
  BY <1>1 DEF Pick
<1>3. /\ batch' \in Seq(Handlers) /\ Len(batch') = m + 1
      /\ \A i \in 1..m : batch'[i] = batch[i]
      /\ batch'[m + 1] = ingestCh[1]
  BY <1>1 DEF Pick
<1>4. Len(ingestCh') <= IngestCap /\ Len(batch') <= BatchMax
  BY <1>1, <1>2, <1>3, IngestAssumption DEF TypeOK, WorkerType
<1> HIDE DEF n, m
<1>5. \A x : x \in InCh <=> \E i \in 1..n : ingestCh[i] = x
  BY DEF InCh, n
<1>6. \A x : x \in InCh' <=> \E i \in 1..(n - 1) : ingestCh[i + 1] = x
  BY <1>2 DEF InCh
<1>7. Items' = Items \cup {ingestCh[1]}
  BY <1>1, <1>3 DEF Items, m
<1>8. InCh' \subseteq InCh /\ InCh = InCh' \cup {ingestCh[1]}
  <2>1. \A i \in 1..(n - 1) : i + 1 \in 1..n
    BY <1>1
  <2>2. \A i \in 1..n : i = 1 \/ (i - 1 \in 1..(n - 1) /\ (i - 1) + 1 = i)
    BY <1>1
  <2>3. 1 \in 1..n
    BY <1>1
  <2> QED BY <1>5, <1>6, <2>1, <2>2, <2>3
<1>9. Once'
  <2>1. \A i \in 1..(n - 1) : i + 1 \in 1..n /\ i + 1 # 1
    BY <1>1
  <2>2. \A i, k \in 1..Len(ingestCh') : ingestCh'[i] = ingestCh'[k] => i = k
    BY <1>1, <1>2, <2>1 DEF Once, n
  <2>3. \A i, k \in 1..Len(batch') : batch'[i] = batch'[k] => i = k
    BY <1>1, <1>3 DEF Once, n, m
  <2>4. \A i \in 1..Len(ingestCh'), k \in 1..Len(batch') : ingestCh'[i] # batch'[k]
    BY <1>1, <1>2, <1>3, <2>1 DEF Once, n, m
  <2> QED BY <2>2, <2>3, <2>4 DEF Once
<1> QED BY <1>2, <1>3, <1>4, <1>7, <1>8, <1>9 DEF Pending

\* The item whose handler was told is nowhere any more.
LEMMA NotifyItems ==
    ASSUME TypeOK, Once, batch # <<>>, batch' = Tail(batch), UNCHANGED ingestCh
    PROVE  /\ batch' \in Seq(Handlers) /\ Len(batch') <= BatchMax
           /\ Head(batch) \in Items /\ Head(batch) \in Handlers
           /\ InCh' = InCh /\ Items' \subseteq Items
           /\ Head(batch) \notin Pending'
           /\ Once'
<1> DEFINE m == Len(batch)
<1>1. batch \in Seq(Handlers) /\ ingestCh \in Seq(Handlers) /\ m \in Nat /\ m >= 1
  BY DEF TypeOK, WorkerType
<1>2. /\ batch' \in Seq(Handlers) /\ Len(batch') = m - 1
      /\ \A i \in 1..(m - 1) : batch'[i] = batch[i + 1]
  BY <1>1
<1>3. Len(batch') <= BatchMax
  BY <1>1, <1>2, IngestAssumption DEF TypeOK, WorkerType
<1>4. Head(batch) = batch[1] /\ batch[1] \in Handlers /\ 1 \in 1..Len(batch)
  BY <1>1
<1>5. \A i \in 1..(m - 1) : i + 1 \in 1..Len(batch) /\ i + 1 # 1
  BY <1>1
<1> HIDE DEF m
<1>6. Head(batch) \in Items
  BY <1>4 DEF Items
<1>7. InCh' = InCh
  BY DEF InCh
<1>8. Items' \subseteq Items
  BY <1>2, <1>5 DEF Items
<1>9. Head(batch) \notin InCh
  BY <1>4 DEF Once, InCh
<1>10. Head(batch) \notin Items'
  BY <1>2, <1>4, <1>5 DEF Once, Items
<1>11. Once'
  <2>1. \A i, k \in 1..Len(batch') : batch'[i] = batch'[k] => i = k
    BY <1>1, <1>2, <1>5 DEF Once, m
  <2>2. \A i \in 1..Len(ingestCh'), k \in 1..Len(batch') : ingestCh'[i] # batch'[k]
    BY <1>2, <1>5 DEF Once, m
  <2> QED BY <2>1, <2>2 DEF Once
<1> QED BY <1>2, <1>3, <1>4, <1>6, <1>7, <1>8, <1>9, <1>10, <1>11 DEF Pending

\* A step that moves no item.
LEMMA SameItems ==
    ASSUME UNCHANGED <<ingestCh, batch>>
    PROVE  InCh' = InCh /\ Items' = Items /\ Pending' = Pending /\ (Once => Once')
  BY DEF InCh, Items, Pending, Once

LEMMA ItemsAreHandlers ==
    ASSUME TypeOK
    PROVE  InCh \subseteq Handlers /\ Items \subseteq Handlers /\ Pending \subseteq Handlers
  BY DEF TypeOK, WorkerType, InCh, Items, Pending

-----------------------------------------------------------------------------
(* The steps of a handler *)

LEMMA InitIInv == Init => IInv
<1> SUFFICES ASSUME Init PROVE IInv OBVIOUS
<1>1. TypeOK
  BY IngestAssumption DEF Init, TypeOK, HandlerType, ChannelType, WorkerType, WorldType,
       Answers
<1>2. InCh = {} /\ Items = {} /\ Pending = {} /\ Once
  BY DEF Init, InCh, Items, Pending, Once
<1>3. Phases /\ Ownership /\ CellsClean /\ Channelled
  BY <1>2 DEF Init, Phases, Ownership, CellsClean, Channelled, Waits
<1>4. GoodNews /\ BadNews /\ AckedIsCommitted /\ RefusedIsNotStored
  BY <1>2 DEF Init, GoodNews, BadNews, AckedIsCommitted, RefusedIsNotStored
<1> QED BY <1>1, <1>2, <1>3, <1>4 DEF IInv

LEMMA EnterKeepsIInv ==
    ASSUME IInv, NEW h \in Handlers, Enter(h)
    PROVE  IInv'
<1> USE DEF handlers, channels, worker, world, books
<1>0. TypeOK /\ Once /\ pc[h] = "idle" /\ h \notin Pending
  BY DEF IInv, Enter, Phases
<1>1. /\ ingestCh' \in Seq(Handlers) /\ Len(ingestCh') <= IngestCap
      /\ InCh' \subseteq InCh \cup {h} /\ Items' = Items /\ Once'
      /\ Pending' \subseteq Pending \cup {h}
      /\ pc'[h] = "blocked" => Pending' = Pending
      /\ pc' = [pc EXCEPT ![h] = pc'[h]]
      /\ pc'[h] \in IF Durable THEN {"blocked", "wait"} ELSE {"blocked", "acked"}
  <2>1. CASE HasRoom /\ ingestCh' = Append(ingestCh, h) /\ pc' = [pc EXCEPT ![h] = Enqueued]
    BY <1>0, <2>1, EnqueueItems
       DEF Enter, Pending, Enqueued, TypeOK, HandlerType
  <2>2. CASE pc' = [pc EXCEPT ![h] = "blocked"] /\ UNCHANGED ingestCh
    BY <1>0, <2>2, SameItems
       DEF Enter, TypeOK, HandlerType, WorkerType
  <2> QED BY <2>1, <2>2 DEF Enter, Send
<1>2. /\ Durable => \E c \in pool \cup fresh :
                      /\ ch' = [ch EXCEPT ![h] = c]
                      /\ pool' = pool \ {c} \/ UNCHANGED pool
                      /\ fresh' = fresh \ {c} \/ UNCHANGED fresh
                      /\ c \notin pool' \cup fresh'
      /\ ~Durable => UNCHANGED <<ch, pool, fresh>>
      /\ UNCHANGED <<cell, worker, world, committed, orphaned>>
      /\ sunk' \in {sunk, sunk \cup {h}}
  BY <1>0 DEF Enter, Send, Get, IInv, Ownership
<1>3. /\ \A g \in Handlers : g # h => pc'[g] = pc[g] /\ ch'[g] = ch[g]
      /\ Durable => /\ ch'[h] \in pool \cup fresh
                     /\ ch'[h] \notin pool' \cup fresh'
                     /\ pool' \cup fresh' \subseteq pool \cup fresh
  BY <1>0, <1>1, <1>2 DEF TypeOK, HandlerType
<1>4. TypeOK'
  <2>1. pc' \in [Handlers -> {"idle", "blocked", "wait", "acked", "e500", "e503"}]
    BY <1>0, <1>1 DEF TypeOK, HandlerType
  <2>2. ch' \in [Handlers -> Chans \cup {"none"}] /\ pool' \subseteq Chans /\ fresh' \subseteq Chans
    BY <1>0, <1>2 DEF TypeOK, HandlerType, ChannelType
  <2>3. WorkerType' /\ WorldType'
    BY <1>0, <1>1, <1>2 DEF TypeOK, WorkerType, WorldType
  <2> QED
    BY <1>0, <1>2, <2>1, <2>2, <2>3 DEF TypeOK, HandlerType, ChannelType
<1>5. Pending' \subseteq Handlers /\ Pending \subseteq Handlers
  BY <1>0, <1>4, ItemsAreHandlers DEF Pending, InCh, Items, TypeOK, WorkerType
<1>6. Phases'
  BY <1>0, <1>1, <1>2, <1>3, <1>5 DEF IInv, Phases
<1>7. Ownership'
  BY <1>0, <1>1, <1>2, <1>3 DEF IInv, Ownership, Waits, TypeOK, HandlerType, ChannelType
<1>8. CellsClean'
  BY <1>0, <1>1, <1>2, <1>3, <1>5 DEF IInv, CellsClean, Clean, Phases
<1>9. GoodNews'
  BY <1>0, <1>1, <1>2, <1>3 DEF IInv, GoodNews, CellsClean, Clean
<1>10. BadNews'
  BY <1>0, <1>1, <1>2, <1>3 DEF IInv, BadNews, CellsClean, Clean
<1>11. Channelled'
  BY <1>0, <1>2, <1>3, <1>4 DEF IInv, Channelled, TypeOK, HandlerType, ChannelType
<1>12. AckedIsCommitted' /\ RefusedIsNotStored'
  BY <1>0, <1>1, <1>2, <1>3 DEF IInv, AckedIsCommitted, RefusedIsNotStored
<1> QED
  BY <1>1, <1>4, <1>6, <1>7, <1>8, <1>9, <1>10, <1>11, <1>12 DEF IInv

LEMMA EnqueueKeepsIInv ==
    ASSUME IInv, NEW h \in Handlers, Enqueue(h)
    PROVE  IInv'
<1> USE DEF handlers, channels, worker, world, books
<1>0. TypeOK /\ Once /\ pc[h] = "blocked" /\ h \notin Pending
  BY DEF IInv, Enqueue, Phases
<1>1. /\ ingestCh' \in Seq(Handlers) /\ Len(ingestCh') <= IngestCap
      /\ InCh' = InCh \cup {h} /\ Items' = Items /\ Once'
      /\ Pending' = Pending \cup {h}
  BY <1>0, EnqueueItems DEF Enqueue, Send, Pending
<1>2. /\ pc'[h] = IF Durable THEN "wait" ELSE "acked"
      /\ pc' = [pc EXCEPT ![h] = pc'[h]]
      /\ \A g \in Handlers : g # h => pc'[g] = pc[g]
      /\ UNCHANGED <<ch, fresh, channels, worker, world, committed, orphaned>>
      /\ sunk' \in {sunk, sunk \cup {h}}
  BY <1>0 DEF Enqueue, Send, Enqueued, TypeOK, HandlerType
<1>3. TypeOK'
  <2>1. pc' \in [Handlers -> {"idle", "blocked", "wait", "acked", "e500", "e503"}]
    BY <1>0, <1>2 DEF TypeOK, HandlerType
  <2> QED
    BY <1>0, <1>1, <1>2, <2>1 DEF TypeOK, HandlerType, ChannelType, WorkerType, WorldType
<1>4. Pending \subseteq Handlers
  BY <1>0, ItemsAreHandlers
<1>5. Phases'
  BY <1>0, <1>1, <1>2, <1>4 DEF IInv, Phases
<1>6. Ownership'
  BY <1>0, <1>2 DEF IInv, Ownership, Waits
<1>7. CellsClean'
  BY <1>0, <1>1, <1>2, <1>4 DEF IInv, CellsClean, Clean
<1>8. GoodNews' /\ BadNews'
  BY <1>0, <1>1, <1>2 DEF IInv, GoodNews, BadNews, CellsClean, Clean
<1>9. Channelled' /\ AckedIsCommitted' /\ RefusedIsNotStored'
  BY <1>0, <1>2 DEF IInv, Channelled, AckedIsCommitted, RefusedIsNotStored
<1> QED
  BY <1>1, <1>3, <1>5, <1>6, <1>7, <1>8, <1>9 DEF IInv

\* A handler that leaves: refused for want of room, answered, or given up by its
\* sender.
LEMMA LeaveKeepsIInv ==
    ASSUME IInv, NEW h \in Handlers, Overloaded(h) \/ Answered(h) \/ HangUp(h)
    PROVE  IInv'
<1> USE DEF handlers, channels, worker, world, books
<1>0. TypeOK /\ Once /\ Waits(h) /\ (pc[h] = "blocked" \/ Durable)
  BY DEF IInv, Overloaded, Answered, HangUp, Waits, Phases
<1>1. InCh' = InCh /\ Items' = Items /\ Pending' = Pending /\ Once'
  BY <1>0, SameItems DEF Overloaded, Answered, HangUp
<1>2. /\ pc'[h] \in {"acked", "e500", "e503"}
      /\ pc' = [pc EXCEPT ![h] = pc'[h]]
      /\ \A g \in Handlers : g # h => pc'[g] = pc[g]
      /\ UNCHANGED <<ch, fresh, ingestCh, worker, world, books>>
  BY <1>0 DEF Overloaded, Answered, HangUp, TypeOK, HandlerType
<1>3. /\ pool' = IF Durable THEN pool \cup {ch[h]} ELSE pool
      /\ ~Durable => cell' = cell /\ orphaned' = orphaned
      /\ Durable => ch[h] \in Chans /\ ch[h] \notin pool \cup fresh
      /\ orphaned \subseteq orphaned' /\ orphaned' \subseteq orphaned \cup {ch[h]}
      /\ \A c \in Chans : c # ch[h] => cell'[c] = cell[c]
  BY <1>0 DEF Overloaded, Answered, HangUp, PutBack, IInv, Ownership, TypeOK,
       ChannelType, Waits
<1>4. \A g \in Handlers : Durable /\ g # h /\ Waits(g) => ch[g] # ch[h]
  BY <1>0 DEF IInv, Ownership
<1>5. ch[h] \in Chans /\ ch[h] \notin orphaned' /\ Durable =>
         /\ h \notin Pending
         /\ cell'[ch[h]] = "empty"
         /\ pc'[h] = "acked" => h \in committed
         /\ pc'[h] = "e500" /\ faults = 0 => h \notin committed
  <2>1. CASE Overloaded(h)
    BY <1>0, <2>1 DEF Overloaded, IInv, Phases, CellsClean, Clean, TypeOK, HandlerType
  <2>2. CASE Answered(h)
    <3>1. cell[ch[h]] \in {"empty", "ok", "err"} \/ ch[h] \notin Chans
      BY <1>0 DEF TypeOK, ChannelType, Answers
    <3> QED
      BY <1>0, <2>2, <3>1
         DEF Answered, Succeeded, IInv, CellsClean, Clean, GoodNews, BadNews, TypeOK,
             HandlerType, ChannelType
  <2>3. CASE HangUp(h)
    BY <2>3 DEF HangUp
  <2> QED BY <2>1, <2>2, <2>3
<1>6. TypeOK'
  <2>1. pc' \in [Handlers -> {"idle", "blocked", "wait", "acked", "e500", "e503"}]
    BY <1>0, <1>2 DEF TypeOK, HandlerType
  <2>2. cell' \in [Chans -> {"empty"} \cup Answers]
    BY <1>0 DEF Overloaded, Answered, HangUp, TypeOK, ChannelType
  <2>3. pool' \subseteq Chans /\ orphaned' \subseteq Chans
    BY <1>0, <1>3 DEF TypeOK, ChannelType, HandlerType
  <2> QED
    BY <1>0, <1>2, <2>1, <2>2, <2>3
       DEF TypeOK, HandlerType, ChannelType, WorkerType, WorldType
<1>7. Pending \subseteq Handlers /\ Items \subseteq Handlers
  BY <1>0, ItemsAreHandlers
<1>8. Phases'
  <2>1. ~Durable => pc'[h] # "e500"
    BY <1>0 DEF Overloaded, Answered, HangUp, TypeOK, HandlerType, IInv, Phases
  <2> QED
    BY <1>1, <1>2, <1>7, <2>1 DEF IInv, Phases
<1>9. Ownership'
  BY <1>0, <1>2, <1>3, <1>4 DEF IInv, Ownership, Waits
<1>10. CellsClean'
  <2>1. \A c \in (pool \cup fresh)' : Clean(c)' => cell'[c] = "empty"
    BY <1>2, <1>3, <1>5 DEF IInv, CellsClean, Clean
  <2>2. ASSUME Durable, NEW g \in Handlers, pc'[g] = "blocked", Clean(ch[g])'
        PROVE  cell'[ch[g]] = "empty"
    BY <1>2, <1>3, <1>4, <2>2 DEF IInv, CellsClean, Clean, Waits
  <2>3. ASSUME Durable, NEW g \in Pending, Clean(ch[g])'
        PROVE  pc'[g] = "wait" /\ cell'[ch[g]] = "empty"
    BY <1>2, <1>3, <1>4, <1>5, <1>7, <2>3 DEF IInv, CellsClean, Clean, Waits
  <2> QED
    BY <1>1, <1>2, <2>1, <2>2, <2>3 DEF CellsClean, Clean
<1>11. GoodNews' /\ BadNews'
  <2>1. ASSUME Durable, NEW g \in Handlers, pc'[g] = "wait", Clean(ch[g])'
        PROVE  pc[g] = "wait" /\ Clean(ch[g]) /\ cell'[ch[g]] = cell[ch[g]]
    BY <1>2, <1>3, <1>4, <2>1 DEF Clean, Waits
  <2>2. \A g \in Handlers :
          /\ pc'[g] \in {"idle", "blocked"} => pc'[g] = pc[g]
          /\ pc'[g] = "wait" => Durable
    BY <1>2 DEF IInv, Phases
  <2>3. GoodNews'
    BY <1>1, <1>2, <2>1 DEF IInv, GoodNews
  <2>4. BadNews'
    BY <1>1, <1>2, <2>1, <2>2 DEF IInv, BadNews
  <2> QED BY <2>3, <2>4
<1>12. Channelled'
  BY <1>0, <1>2 DEF IInv, Channelled, Waits
<1>13. AckedIsCommitted'
  BY <1>0, <1>2, <1>3, <1>5 DEF IInv, AckedIsCommitted
<1>14. RefusedIsNotStored'
  <2>1. pc'[h] = "e500" => Durable
    BY <1>0 DEF Overloaded, Answered, HangUp, TypeOK, HandlerType, IInv, Phases
  <2> QED
    BY <1>0, <1>2, <1>3, <1>5, <2>1 DEF IInv, RefusedIsNotStored
<1> QED
  BY <1>1, <1>6, <1>8, <1>9, <1>10, <1>11, <1>12, <1>13, <1>14 DEF IInv

-----------------------------------------------------------------------------
(* The steps of the worker and of the process *)

\* A step that changes neither handlers nor channels nor the store keeps the parts
\* of the invariant about them.
LEMMA HandlersKept ==
    ASSUME IInv, Pending' \subseteq Pending,
           UNCHANGED <<pc, ch, fresh, orphaned, cell, pool, committed>>,
                faults' \in {faults}
    PROVE  /\ Ownership' /\ CellsClean' /\ Channelled'
           /\ AckedIsCommitted' /\ RefusedIsNotStored'
  BY DEF IInv, Ownership, CellsClean, Clean, Waits, Channelled, AckedIsCommitted,
         RefusedIsNotStored

LEMMA PickKeepsIInv ==
    ASSUME IInv, First \/ More
    PROVE  IInv'
<1> USE DEF handlers, channels, worker, world, books
<1>0. TypeOK /\ Once /\ ingestCh # <<>> /\ Len(batch) < BatchMax /\ Pick
  BY IngestAssumption DEF IInv, Phases, First, More, BatchFull, Limit, TypeOK, WorkerType
<1>1. /\ ingestCh' \in Seq(Handlers) /\ Len(ingestCh') <= IngestCap
      /\ batch' \in Seq(Handlers) /\ Len(batch') <= BatchMax
      /\ InCh' \subseteq InCh /\ Pending' = Pending
      /\ Items' \subseteq Items \cup InCh
      /\ Once'
  BY <1>0, PickItems
<1>2. /\ wpc' = "drain" /\ wpc \in {"select", "drain"}
      /\ UNCHANGED <<handlers, channels, verdict, final, world, books>>
  BY DEF First, More
<1>3. TypeOK'
  BY <1>0, <1>1, <1>2 DEF TypeOK, HandlerType, ChannelType, WorkerType, WorldType
<1>4. Phases' /\ GoodNews' /\ BadNews'
  BY <1>1, <1>2 DEF IInv, Phases, GoodNews, BadNews, Clean
<1> QED
  BY <1>1, <1>2, <1>3, <1>4, HandlersKept DEF IInv

LEMMA FlushKeepsIInv ==
    ASSUME IInv, Flush
    PROVE  IInv'
<1> USE DEF handlers, channels, worker, world, books
<1>0. TypeOK /\ Once /\ wpc = "flush" /\ wpc' = "notify"
  BY DEF IInv, Flush
<1>1. InCh' = InCh /\ Items' = Items /\ Pending' = Pending /\ Once'
  BY <1>0, SameItems DEF Flush
<1>2. Items \subseteq Handlers /\ InCh \subseteq Handlers
  BY <1>0, ItemsAreHandlers
<1>3. /\ \/ committed' = committed \cup Items /\ (verdict' = "ok" \/ faults' # 0)
         \/ committed' = committed /\ verdict' = "err"
      /\ faults' \in 0..MaxFaults /\ (faults' = 0 => faults = 0)
      /\ verdict' \in Answers
      /\ sunk' \in {sunk, sunk \cup Items}
  <2>1. faults \in 0..MaxFaults /\ MaxFaults \in Nat
    BY <1>0, IngestAssumption DEF TypeOK, WorldType
  <2>2. CASE verdict' = "ok" /\ committed' = Stored(TRUE) /\ UNCHANGED <<faults, sunk>>
    BY <2>1, <2>2 DEF Stored, Answers
  <2>3. CASE verdict' = "err" /\ committed' = Stored(FALSE)
           /\ UNCHANGED faults /\ sunk' = sunk \cup Items
    BY <2>1, <2>3 DEF Stored, Answers
  <2>4. ASSUME verdict' = "err", faults < MaxFaults, faults' = faults + 1,
               NEW ok, committed' = Stored(ok), sunk' = sunk \cup Items
        PROVE  <1>3!:
    BY <2>1, <2>4 DEF Stored, Answers
  <2> QED BY <2>2, <2>3, <2>4 DEF Flush
<1>4. TypeOK'
  BY <1>0, <1>2, <1>3 DEF Flush, TypeOK, HandlerType, ChannelType, WorkerType, WorldType
<1>5. UNCHANGED <<pc, ch, fresh, orphaned, cell, pool>>
  BY DEF Flush
<1>6. Phases' /\ Ownership' /\ CellsClean' /\ Channelled'
  BY <1>0, <1>1, <1>5
     DEF IInv, Phases, Ownership, CellsClean, Clean, Waits, Channelled
<1>7. GoodNews'
  BY <1>0, <1>1, <1>3, <1>5 DEF IInv, GoodNews, Clean
<1>8. InCh \cap Items = {}
  BY DEF IInv, Once, InCh, Items
<1>9. \A h \in Items : /\ pc[h] \notin {"idle", "blocked"}
                       /\ Durable /\ Clean(ch[h]) => pc[h] = "wait" /\ cell[ch[h]] = "empty"
                       /\ pc[h] = "wait" \/ pc[h] = "e500" => Durable
  BY <1>2 DEF IInv, Phases, CellsClean, Pending
<1>10. BadNews'
  BY <1>0, <1>1, <1>3, <1>5, <1>8, <1>9 DEF IInv, BadNews, Clean
<1>11. AckedIsCommitted'
  BY <1>3, <1>5 DEF IInv, AckedIsCommitted
<1>12. RefusedIsNotStored'
  BY <1>2, <1>3, <1>5, <1>9 DEF IInv, RefusedIsNotStored, Clean, Channelled
<1> QED
  BY <1>1, <1>4, <1>6, <1>7, <1>10, <1>11, <1>12 DEF IInv

LEMMA NotifyKeepsIInv ==
    ASSUME IInv, Notify
    PROVE  IInv'
<1> USE DEF handlers, channels, worker, world, books
<1> DEFINE k == Head(batch)
<1>0. TypeOK /\ Once /\ wpc = "notify" /\ wpc' = "notify" /\ batch # <<>>
  BY DEF IInv, Notify
<1>1. /\ batch' \in Seq(Handlers) /\ Len(batch') <= BatchMax
      /\ k \in Items /\ k \in Handlers
      /\ InCh' = InCh /\ Items' \subseteq Items
      /\ k \notin Pending' /\ Pending' \subseteq Pending
      /\ Once'
  BY <1>0, NotifyItems DEF Notify, Pending
<1>2. UNCHANGED <<handlers, pool, ingestCh, wpc, verdict, final, world, books>>
  BY DEF Notify
<1>3. /\ Durable => cell' = [cell EXCEPT ![ch[k]] = verdict]
      /\ ~Durable => cell' = cell
  BY DEF Notify, Answer
<1> HIDE DEF k
<1>4. Pending \subseteq Handlers /\ verdict \in Answers
  BY <1>0, ItemsAreHandlers DEF TypeOK, WorkerType
<1>5. ASSUME Durable, Clean(ch[k])
      PROVE  /\ pc[k] = "wait" /\ ch[k] \notin pool \cup fresh
             /\ \A h \in Handlers : h # k /\ Waits(h) => ch[h] # ch[k]
             /\ verdict = "ok" => k \in committed
             /\ verdict = "err" /\ faults = 0 => k \notin committed
  BY <1>0, <1>1, <1>5
     DEF IInv, CellsClean, Pending, Ownership, Waits, GoodNews, BadNews
<1>6. TypeOK'
  BY <1>0, <1>1, <1>2, <1>3, <1>4
     DEF TypeOK, HandlerType, ChannelType, WorkerType, WorldType
<1>7. ASSUME Durable, NEW c, Clean(c), c # ch[k]
      PROVE  cell'[c] = cell[c]
  BY <1>0, <1>3, <1>7 DEF Clean, TypeOK, ChannelType
<1>8. Durable /\ Clean(ch[k]) => cell'[ch[k]] = verdict
  BY <1>0, <1>3 DEF Clean, TypeOK, ChannelType
<1>9. Phases' /\ Ownership' /\ Channelled'
  BY <1>0, <1>1, <1>2 DEF IInv, Phases, Ownership, Waits, Channelled
<1>10. CellsClean'
  <2>1. \A c \in pool \cup fresh : Clean(c) => cell'[c] = "empty"
    BY <1>3, <1>5, <1>7 DEF IInv, CellsClean
  <2>2. ASSUME Durable, NEW h \in Handlers, pc[h] = "blocked", Clean(ch[h])
        PROVE  cell'[ch[h]] = "empty"
    BY <1>1, <1>5, <1>7, <2>2 DEF IInv, CellsClean, Waits
  <2>3. ASSUME Durable, NEW h \in Pending', Clean(ch[h])
        PROVE  pc[h] = "wait" /\ cell'[ch[h]] = "empty"
    BY <1>1, <1>4, <1>5, <1>7, <2>3 DEF IInv, CellsClean, Waits
  <2> QED
    BY <1>2, <2>1, <2>2, <2>3 DEF CellsClean, Clean
<1>11. ASSUME Durable, NEW h \in Handlers, pc[h] = "wait", Clean(ch[h])
       PROVE  /\ cell'[ch[h]] = "ok" => h \in committed
              /\ cell'[ch[h]] = "err" /\ faults = 0 => h \notin committed
  <2>1. CASE h = k
    BY <1>5, <1>8, <1>11, <2>1
  <2>2. CASE h # k
    <3>1. ch[h] # ch[k]
      BY <1>5, <1>11, <2>2 DEF Waits
    <3> QED
      BY <1>7, <1>11, <3>1 DEF IInv, GoodNews, BadNews
  <2> QED BY <2>1, <2>2
<1>12. GoodNews' /\ BadNews'
  <2>1. \A h \in Handlers : pc[h] = "wait" => Durable
    BY DEF IInv, Phases
  <2> QED
    BY <1>0, <1>1, <1>2, <1>11, <2>1 DEF IInv, GoodNews, BadNews, Clean
<1>13. AckedIsCommitted' /\ RefusedIsNotStored'
  BY <1>2 DEF IInv, AckedIsCommitted, RefusedIsNotStored
<1> QED
  BY <1>1, <1>6, <1>9, <1>10, <1>12, <1>13 DEF IInv

\* The steps that only move the worker, or the process, on.
LEMMA MoveOnKeepsIInv ==
    ASSUME IInv,
           \/ BeginFinal \/ Enough \/ Flushed \/ Stop \/ Exit
           \/ \E e \in Deletable : DeleteEndpoint(e)
           \/ UNCHANGED vars
    PROVE  IInv'
<1> USE DEF handlers, channels, worker, world, books
<1>1. UNCHANGED <<pc, ch, fresh, orphaned, cell, pool, ingestCh, batch, verdict,
      books, faults>>
  BY DEF BeginFinal, Enough, Flushed, Stop, Exit, DeleteEndpoint, vars
<1>2. InCh' = InCh /\ Items' = Items /\ Pending' = Pending /\ Once'
  BY <1>1, SameItems DEF IInv
<1>3. /\ wpc' = "notify" <=> (wpc = "notify" /\ ~Flushed)
      /\ Flushed => Items = {}
      /\ wpc' = "select" => batch = <<>>
  BY DEF IInv, TypeOK, WorkerType, Phases, Items, BeginFinal, AtStop, Enough, Flushed, Stop, Exit,
         DeleteEndpoint, vars
<1>4. TypeOK'
  <2>1. wpc' \in {"select", "drain", "flush", "notify", "stopped"} /\ final' \in {"no",
        "more", "last"}
    BY DEF IInv, TypeOK, WorkerType, BeginFinal, AtStop, Enough, Flushed, Stop, Exit,
           DeleteEndpoint, vars
  <2>2. life' \in {"serving", "cancelled", "exited"} /\ endpoints' \subseteq Endpoints
    BY DEF IInv, TypeOK, WorldType, BeginFinal, Enough, Flushed, Stop, Exit,
           DeleteEndpoint, vars
  <2> QED
    BY <1>1, <2>1, <2>2
       DEF IInv, TypeOK, HandlerType, ChannelType, WorkerType, WorldType
<1>5. Phases' /\ GoodNews' /\ BadNews'
  BY <1>1, <1>2, <1>3 DEF IInv, Phases, GoodNews, BadNews, Clean
<1> QED
  BY <1>1, <1>2, <1>4, <1>5, HandlersKept DEF IInv

LEMMA NextKeepsIInv == IInv /\ [Next]_vars => IInv'
<1> SUFFICES ASSUME IInv, [Next]_vars PROVE IInv' OBVIOUS
<1>1. ASSUME NEW h \in Handlers, Handle(h) PROVE IInv'
  BY <1>1, EnterKeepsIInv, EnqueueKeepsIInv, LeaveKeepsIInv DEF Handle
<1>2. CASE Worker
  BY <1>2, PickKeepsIInv, FlushKeepsIInv, NotifyKeepsIInv, MoveOnKeepsIInv DEF Worker
<1>3. CASE (\E e \in Deletable : DeleteEndpoint(e)) \/ Stop \/ Exit \/ UNCHANGED vars
  BY <1>3, MoveOnKeepsIInv
<1> QED
  BY <1>1, <1>2, <1>3 DEF Next

-----------------------------------------------------------------------------
\* The inductive invariant holds in every reachable state (internal/api/handler.go,
\* CaptureWebhook, with batchWorker and flushBatch of both stores).
THEOREM Invariance == Spec => []IInv
  BY InitIInv, NextKeepsIInv, PTL DEF Spec

\* Every variable keeps its type, whatever the capacities.
THEOREM TypeCorrect == Spec => []TypeOK
<1>1. IInv => TypeOK
  BY DEF IInv
<1> QED BY <1>1, Invariance, PTL

\* A 200 of durable mode that came through a channel nobody put back early stands
\* for a committed request (README.md:41).
THEOREM AckedStaysCommitted == Spec => []AckedIsCommitted
<1>1. IInv => AckedIsCommitted
  BY DEF IInv
<1> QED BY <1>1, Invariance, PTL

\* A 500 stands for a request that is not stored, unless a transaction failed in a
\* way that leaves its outcome unknown: all of a batch is committed or nothing.
THEOREM RefusedStaysOut == Spec => []RefusedIsNotStored
<1>1. IInv => RefusedIsNotStored
  BY DEF IInv
<1> QED BY <1>1, Invariance, PTL

-----------------------------------------------------------------------------
(* Nobody is stranded *)

\* A handler that waits has its answer or an item in the pipeline; the worker stops
\* only at the end of the final drain, which only a cancelled server begins.
Attended ==
    /\ \A h \in Handlers :
          pc[h] = "wait" /\ Clean(ch[h]) => cell[ch[h]] # "empty" \/ h \in Pending
    /\ wpc = "drain" /\ batch = <<>> => final = "more"
    /\ wpc = "stopped" => final # "no"
    /\ final # "no" => life # "serving"

LEMMA AttendedByHandler ==
    ASSUME IInv, Attended, NEW h \in Handlers, Handle(h)
    PROVE  Attended'
<1> USE DEF handlers, channels, worker, world, books
<1>0. TypeOK /\ Once
  BY DEF IInv
<1>1. UNCHANGED <<batch, wpc, final, life>> /\ orphaned \subseteq orphaned'
  BY DEF Handle, Enter, Enqueue, Send, Overloaded, Answered, HangUp
<1>2. ASSUME NEW g \in Handlers, pc'[g] = "wait", Clean(ch[g])'
      PROVE  cell'[ch'[g]] # "empty" \/ g \in Pending'
  <2>1. CASE Enter(h)
    <3>1. /\ g # h => ch'[g] = ch[g] /\ pc'[g] = pc[g]
          /\ g = h => HasRoom /\ ingestCh' = Append(ingestCh, h)
          /\ cell' = cell
      BY <1>0, <1>2, <2>1 DEF Enter, Send, Get, TypeOK, HandlerType
    <3>2. Pending \subseteq Pending' /\ (g = h => h \in Pending')
      <4>1. h \notin Pending
        BY <2>1 DEF IInv, Phases, Enter
      <4>2. CASE HasRoom /\ ingestCh' = Append(ingestCh, h)
        BY <1>0, <1>1, <4>1, <4>2, EnqueueItems DEF Pending
      <4>3. CASE ingestCh' = ingestCh
        BY <1>1, <3>1, <4>3 DEF Pending, InCh, Items, HasRoom, Enter, TypeOK, WorkerType
      <4> QED BY <2>1, <4>2, <4>3 DEF Enter, Send
    <3> QED BY <1>1, <1>2, <3>1, <3>2 DEF Attended, Clean
  <2>2. CASE Enqueue(h)
    <3>1. h \notin Pending
      BY <2>2 DEF IInv, Phases, Enqueue
    <3>2. Pending' = Pending \cup {h}
      BY <1>0, <1>1, <2>2, <3>1, EnqueueItems DEF Enqueue, Send, Pending
    <3>3. /\ g # h => pc'[g] = pc[g]
          /\ UNCHANGED <<ch, cell>>
      BY <1>0, <2>2 DEF Enqueue, Send, TypeOK, HandlerType
    <3> QED BY <1>1, <1>2, <3>2, <3>3 DEF Attended, Clean
  <2>3. CASE Overloaded(h) \/ Answered(h) \/ HangUp(h)
    <3>1. /\ g # h /\ pc[g] = "wait" /\ ch' = ch
          /\ Pending' = Pending
      BY <1>0, <1>1, <1>2, <2>3, SameItems
         DEF Overloaded, Answered, HangUp, TypeOK, HandlerType
    <3>2. cell'[ch[g]] = cell[ch[g]]
      <4>1. CASE Answered(h)
        <5>1. Durable
          BY <4>1 DEF Answered, IInv, Phases
        <5>2. ch[g] # ch[h] /\ ch[g] \in Chans
          BY <3>1, <4>1, <5>1 DEF Answered, IInv, Ownership, Waits
        <5> QED BY <1>0, <4>1, <5>2 DEF Answered, TypeOK, ChannelType
      <4>2. CASE Overloaded(h) \/ HangUp(h)
        BY <4>2 DEF Overloaded, HangUp
      <4> QED BY <2>3, <4>1, <4>2
    <3> QED BY <1>1, <1>2, <3>1, <3>2 DEF Attended, Clean
  <2> QED BY <2>1, <2>2, <2>3 DEF Handle
<1> QED BY <1>1, <1>2 DEF Attended

LEMMA AttendedByWorker ==
    ASSUME IInv, Attended, Worker
    PROVE  Attended'
<1> USE DEF handlers, channels, worker, world, books
<1>0. TypeOK /\ Once
  BY DEF IInv
<1>1. UNCHANGED <<pc, ch, orphaned, life>>
  BY DEF Worker, First, BeginFinal, More, Enough, Flush, Notify, Flushed
<1>2. ASSUME NEW g \in Handlers, pc[g] = "wait", Clean(ch[g])
      PROVE  cell'[ch[g]] # "empty" \/ g \in Pending'
  <2>1. CASE First \/ More
    <3>1. ingestCh # <<>> /\ Len(batch) < BatchMax /\ Pick /\ cell' = cell
      BY <1>0, <2>1, IngestAssumption
         DEF IInv, Phases, First, More, BatchFull, Limit, TypeOK, WorkerType
    <3> QED BY <1>0, <1>2, <3>1, PickItems DEF Attended
  <2>2. CASE BeginFinal \/ Enough \/ Flush \/ Flushed
    BY <1>2, <2>2, SameItems DEF BeginFinal, Enough, Flush, Flushed, Attended
  <2>3. CASE Notify
    <3>1. Durable /\ ch[g] \in Chans /\ verdict \in Answers
      BY <1>0, <1>2 DEF IInv, Phases, Clean, TypeOK, WorkerType
    <3>2. cell' = [cell EXCEPT ![ch[Head(batch)]] = verdict] /\ cell \in [Chans -> {"empty"} \cup Answers]
      BY <1>0, <2>3, <3>1 DEF Notify, Answer, TypeOK, ChannelType
    <3>3. CASE g = Head(batch)
      BY <3>1, <3>2, <3>3 DEF Answers
    <3>4. CASE g # Head(batch)
      <4>1. \A x \in Items : x = Head(batch) \/ x \in Items'
        <5>1. batch \in Seq(Handlers) /\ batch # <<>> /\ batch' = Tail(batch)
          BY <1>0, <2>3 DEF Notify, TypeOK, WorkerType
        <5>2. /\ Len(batch) \in Nat /\ Len(batch') = Len(batch) - 1 /\ batch[1] = Head(batch)
              /\ \A i \in 1..Len(batch') : batch'[i] = batch[i + 1]
          BY <5>1
        <5>3. \A i \in 1..Len(batch) : i = 1 \/ (i - 1 \in 1..Len(batch') /\ (i - 1) + 1 = i)
          BY <5>2
        <5>4. \A x : x \in Items <=> \E i \in 1..Len(batch) : batch[i] = x
          BY DEF Items
        <5>5. \A x : x \in Items' <=> \E i \in 1..Len(batch') : batch[i + 1] = x
          BY <5>2 DEF Items
        <5> QED BY <5>2, <5>3, <5>4, <5>5
      <4>2. InCh' = InCh
        BY <2>3 DEF Notify, InCh
      <4>3. g \in Pending => g \in Pending'
        BY <3>4, <4>1, <4>2 DEF Pending
      <4>4. cell[ch[g]] # "empty" => cell'[ch[g]] # "empty"
        BY <3>1, <3>2 DEF Answers
      <4> QED BY <1>2, <4>3, <4>4 DEF Attended
    <3> QED BY <3>3, <3>4
  <2> QED BY <2>1, <2>2, <2>3 DEF Worker
<1>3. /\ wpc' = "drain" /\ batch' = <<>> => final' = "more"
      /\ wpc' = "stopped" => final' # "no"
      /\ final' # "no" => life # "serving"
  <2>1. CASE First \/ More
    <3>1. batch' # <<>>
      BY <1>0, <2>1 DEF First, More, Pick, TypeOK, WorkerType
    <3> QED BY <2>1, <3>1 DEF First, More, Attended
  <2>2. CASE BeginFinal
    BY <2>2 DEF BeginFinal, AtStop, Cancelled
  <2>3. CASE Enough
    BY <2>3 DEF Enough, Attended
  <2>4. CASE Flush \/ Notify
    BY <2>4 DEF Flush, Notify, Attended
  <2>5. CASE Flushed
    BY <1>0, <2>5 DEF Flushed, Attended, TypeOK, WorkerType
  <2> QED BY <2>1, <2>2, <2>3, <2>4, <2>5 DEF Worker
<1> QED BY <1>1, <1>2, <1>3 DEF Attended, Clean

LEMMA NextKeepsAttended == IInv /\ Attended /\ [Next]_vars => Attended'
<1> SUFFICES ASSUME IInv, Attended, [Next]_vars PROVE Attended' OBVIOUS
<1>1. CASE (\E h \in Handlers : Handle(h)) \/ Worker
  BY <1>1, AttendedByHandler, AttendedByWorker
<1>2. CASE (\E e \in Deletable : DeleteEndpoint(e)) \/ Stop \/ Exit \/ UNCHANGED vars
  BY <1>2, SameItems
     DEF Attended, Clean, DeleteEndpoint, Stop, Exit, vars, handlers, channels, worker
<1> QED BY <1>1, <1>2 DEF Next

LEMMA AttendedIsNobodyStranded == IInv /\ Attended => NobodyStranded
<1> SUFFICES ASSUME IInv, Attended PROVE NobodyStranded OBVIOUS
<1>1. ASSUME NEW h \in Handlers, pc[h] = "wait", ch[h] \notin orphaned
      PROVE  cell[ch[h]] # "empty" \/ h \in InCh \cup Items
  <2>1. ch[h] \in Chans
    BY <1>1 DEF IInv, Phases, Ownership, Waits
  <2> QED BY <1>1, <2>1 DEF Attended, Clean, Pending
<1>2. ASSUME Durable, batch # <<>>, ch[Head(batch)] \notin orphaned
      PROVE  cell[ch[Head(batch)]] = "empty"
  <2>1. Head(batch) \in Items /\ Head(batch) \in Handlers
    BY <1>2 DEF IInv, TypeOK, WorkerType, Items
  <2>2. ch[Head(batch)] \in Chans
    BY <1>2, <2>1 DEF IInv, Phases, Channelled, Pending
  <2> QED BY <1>2, <2>1, <2>2 DEF IInv, CellsClean, Clean, Pending
<1>3. wpc = "stopped" => life # "serving"
  BY DEF Attended
<1> QED BY <1>1, <1>2, <1>3 DEF NobodyStranded

\* Whoever hangs up, whatever fails and whenever the server stops, a handler that
\* waits on a channel of its own is answered or on its way to be, the worker does
\* not block on such a channel and does not stop before the server (store.go:426,
\* sqlite.go:523-598): what EveryWaiterAnswered needs besides fairness.
THEOREM NobodyIsStranded == Spec => []NobodyStranded
<1>1. Init => Attended
  BY DEF Init, Attended
<1> QED
  BY <1>1, Invariance, NextKeepsAttended, AttendedIsNobodyStranded, PTL DEF Spec

-----------------------------------------------------------------------------
(* Where the items of fast mode go *)

\* What fast mode has acknowledged is on its way, stored, or sunk; the worker has
\* decided about what it holds while it notifies, and leaves nothing when it stops but
\* what came after its last look.
Kept ==
    /\ ~Durable => \A h \in Handlers : pc[h] = "acked" => h \in Pending \cup committed \cup sunk
    /\ wpc = "notify" => Items \subseteq committed \cup sunk
    /\ final = "last" => InCh \subseteq sunk
    /\ wpc = "stopped" => batch = <<>> /\ final = "last"

LEMMA KeptByHandler ==
    ASSUME IInv, Kept, NEW h \in Handlers, Handle(h)
    PROVE  Kept'
<1> USE DEF handlers, channels, worker, world, books
<1>0. TypeOK /\ Once
  BY DEF IInv
<1>1. UNCHANGED <<batch, wpc, final, committed>> /\ Items' = Items
  BY DEF Handle, Enter, Enqueue, Overloaded, Answered, HangUp, Items
<1>2. CASE Send(h) /\ (Enter(h) \/ Enqueue(h))
  <2>1. h \notin Pending
    BY <1>2 DEF IInv, Phases, Enter, Enqueue
  <2>2. InCh' = InCh \cup {h}
    BY <1>0, <1>1, <1>2, <2>1, EnqueueItems DEF Send
  <2>3. sunk' = IF final = "last" THEN sunk \cup {h} ELSE sunk
    BY <1>2 DEF Send
  <2>4. \A g \in Handlers : g # h => pc'[g] = pc[g]
    BY <1>0, <1>2 DEF Send, TypeOK, HandlerType
  <2> QED BY <1>1, <2>2, <2>3, <2>4 DEF Kept, Pending
<1>3. CASE UNCHANGED <<ingestCh, sunk>> /\ (Enter(h) \/ Overloaded(h) \/ Answered(h) \/ HangUp(h))
  <2>1. InCh' = InCh
    BY <1>3 DEF InCh
  <2>2. \A g \in Handlers : pc'[g] = "acked" => pc[g] = "acked" \/ Durable
    BY <1>0, <1>3
       DEF Enter, Send, Enqueued, Overloaded, Answered, HangUp, IInv, Phases, TypeOK, HandlerType
  <2> QED BY <1>1, <1>3, <2>1, <2>2 DEF Kept, Pending
<1> QED BY <1>2, <1>3 DEF Handle, Enter, Enqueue, Overloaded, Answered, HangUp

LEMMA KeptByWorker ==
    ASSUME IInv, Attended, Kept, Worker
    PROVE  Kept'
<1> USE DEF handlers, channels, worker, world, books
<1>0. TypeOK /\ Once
  BY DEF IInv
<1>1. CASE First \/ More
  <2>1. ingestCh # <<>> /\ Len(batch) < BatchMax /\ Pick
    BY <1>0, <1>1, IngestAssumption
       DEF IInv, Phases, First, More, BatchFull, Limit, TypeOK, WorkerType
  <2>2. InCh' \subseteq InCh /\ Pending' = Pending
    BY <1>0, <2>1, PickItems
  <2> QED BY <1>1, <2>2 DEF First, More, Kept
<1>2. CASE BeginFinal
  BY <1>2, SameItems DEF BeginFinal, AtStop, Kept
<1>3. CASE Enough
  <2>1. batch = <<>> => ~BatchFull /\ final = "more"
    BY <1>3, IngestAssumption DEF Enough, BatchFull, Limit, Attended
  <2>2. final' = "last" /\ final # "last" => InCh' = {}
    BY <1>3 DEF Enough, InCh
  <2> QED BY <1>3, <2>1, <2>2, SameItems DEF Enough, Kept
<1>4. CASE Flush
  <2>1. Items \subseteq committed' \cup sunk' /\ committed \subseteq committed' /\ sunk \subseteq sunk'
    BY <1>4 DEF Flush, Stored
  <2> QED BY <1>4, <2>1, SameItems DEF Flush, Kept
<1>5. CASE Notify
  <2>1. InCh' = InCh /\ Items' \subseteq Items
    BY <1>0, <1>5, NotifyItems DEF Notify
  <2>2. Items \subseteq committed \cup sunk
    BY <1>5 DEF Notify, Kept
  <2> QED BY <1>5, <2>1, <2>2 DEF Notify, Kept, Pending
<1>6. CASE Flushed
  <2>1. Items' = Items /\ InCh' = InCh /\ Pending' = Pending
    BY <1>6, SameItems DEF Flushed
  <2>2. wpc' = "stopped" => final = "last"
    BY <1>0, <1>6 DEF Flushed, TypeOK, WorkerType
  <2> QED BY <1>6, <2>1, <2>2 DEF Flushed, Kept
<1> QED BY <1>1, <1>2, <1>3, <1>4, <1>5, <1>6 DEF Worker

LEMMA NextKeepsKept == IInv /\ Attended /\ Kept /\ [Next]_vars => Kept'
<1> SUFFICES ASSUME IInv, Attended, Kept, [Next]_vars PROVE Kept' OBVIOUS
<1>1. CASE (\E h \in Handlers : Handle(h)) \/ Worker
  BY <1>1, KeptByHandler, KeptByWorker
<1>2. CASE (\E e \in Deletable : DeleteEndpoint(e)) \/ Stop \/ Exit \/ UNCHANGED vars
  BY <1>2, SameItems
     DEF Kept, DeleteEndpoint, Stop, Exit, vars, handlers, channels, worker, world, books
<1> QED BY <1>1, <1>2 DEF Next

\* The safety half of AckedIsStored.
AckedIsAccountedFor ==
    ~Durable =>
        \A h \in Handlers : pc[h] = "acked" =>
            \/ h \in committed \cup sunk
            \/ wpc # "stopped" /\ h \in InCh \cup Items

\* In fast mode, whatever fails and whenever the server stops, an acknowledged request
\* is stored or still in the hands of the worker, but for those whose transaction
\* reported an error and those that were enqueued behind the final drain
\* (handler.go:298-328, store.go:293-338, sqlite.go:388-432).
THEOREM NothingVanishes == Spec => []AckedIsAccountedFor
<1>1. Init => Attended /\ Kept
  BY DEF Init, Attended, Kept
<1>2. IInv /\ Kept => AckedIsAccountedFor
  <2> SUFFICES ASSUME IInv, Kept, ~Durable, NEW h \in Handlers, pc[h] = "acked"
               PROVE  h \in committed \cup sunk \/ (wpc # "stopped" /\ h \in InCh \cup Items)
    BY DEF AckedIsAccountedFor
  <2>1. wpc = "stopped" => Items = {} /\ InCh \subseteq sunk
    BY DEF Kept, Items
  <2> QED BY <2>1 DEF Kept, Pending
<1> QED
  BY <1>1, <1>2, Invariance, NextKeepsAttended, NextKeepsKept, PTL DEF Spec

-----------------------------------------------------------------------------
(* The refinement of Acknowledgment *)

\* Nothing is stored twice or too early: what is on its way to a transaction is not
\* committed, nor is the request of a handler that still looks for room.  Fast mode
\* has answered for what is on its way, and puts no channel back.
NotYet ==
    /\ InCh \cap committed = {}
    /\ wpc \in {"select", "drain", "flush"} => Items \cap committed = {}
    /\ \A h \in Handlers : pc[h] \in {"idle", "blocked"} => h \notin committed
    /\ ~Durable => orphaned = {} /\ \A h \in Pending : pc[h] = "acked"

LEMMA NextKeepsNotYet == IInv /\ NotYet /\ [Next]_vars => NotYet'
<1> SUFFICES ASSUME IInv, NotYet, [Next]_vars PROVE NotYet' OBVIOUS
<1> USE DEF handlers, channels, worker, world, books
<1>0. TypeOK /\ Once /\ Pending \subseteq Handlers /\ Items \subseteq Handlers
  BY ItemsAreHandlers DEF IInv
<1>1. ASSUME NEW h \in Handlers, Handle(h) PROVE NotYet'
  <2>1. UNCHANGED <<batch, wpc, committed>> /\ Items' = Items
    BY <1>1 DEF Handle, Enter, Enqueue, Send, Overloaded, Answered, HangUp, Items
  <2>2. CASE Enter(h) \/ Enqueue(h)
    <3>1. h \notin Pending /\ pc[h] \in {"idle", "blocked"}
      BY <2>2 DEF IInv, Phases, Enter, Enqueue
    <3>2. \/ InCh' = InCh \cup {h} /\ pc' = [pc EXCEPT ![h] = Enqueued]
          \/ InCh' = InCh /\ pc' = [pc EXCEPT ![h] = "blocked"]
      BY <1>0, <2>1, <2>2, <3>1, EnqueueItems, SameItems DEF Enter, Enqueue, Send
    <3>3. orphaned' = orphaned
      BY <2>2 DEF Enter, Enqueue
    <3> QED
      BY <1>0, <2>1, <3>1, <3>2, <3>3
         DEF NotYet, Pending, Enqueued, TypeOK, HandlerType
  <2>3. CASE Overloaded(h) \/ Answered(h) \/ HangUp(h)
    <3>1. InCh' = InCh
      BY <2>3 DEF Overloaded, Answered, HangUp, InCh
    <3>2. /\ \A g \in Handlers : pc'[g] = pc[g] \/ (g = h /\ pc'[g] \in {"acked", "e500", "e503"})
          /\ ~Durable => Overloaded(h)
      BY <1>0, <2>3
         DEF Overloaded, Answered, HangUp, IInv, Phases, TypeOK, HandlerType
    <3>3. ~Durable => orphaned' = orphaned /\ h \notin Pending
      BY <3>2 DEF Overloaded, IInv, Phases
    <3> QED
      BY <1>0, <2>1, <3>1, <3>2, <3>3 DEF NotYet, Pending
  <2> QED BY <1>1, <2>2, <2>3 DEF Handle
<1>2. CASE First \/ More
  <2>1. ingestCh # <<>> /\ Len(batch) < BatchMax /\ Pick
    BY <1>0, <1>2, IngestAssumption
       DEF IInv, Phases, First, More, BatchFull, Limit, TypeOK, WorkerType
  <2>2. InCh' \subseteq InCh /\ Pending' = Pending /\ Items' \subseteq Items \cup InCh
    BY <1>0, <2>1, PickItems
  <2>3. UNCHANGED <<pc, orphaned, committed>> /\ wpc \in {"select", "drain"}
    BY <1>2 DEF First, More
  <2> QED BY <2>2, <2>3 DEF NotYet
<1>3. CASE Flush
  <2>1. InCh' = InCh /\ Items' = Items /\ Pending' = Pending
    BY <1>3, SameItems DEF Flush
  <2>2. committed' \subseteq committed \cup Items
    BY <1>3 DEF Flush, Stored
  <2>3. InCh \cap Items = {}
    BY DEF IInv, Once, InCh, Items
  <2>4. \A h \in Items : pc[h] \notin {"idle", "blocked"}
    BY DEF IInv, Phases, Pending
  <2> QED
    BY <1>3, <2>1, <2>2, <2>3, <2>4 DEF NotYet, Flush
<1>4. CASE Notify
  <2>1. InCh' = InCh /\ Items' \subseteq Items
    BY <1>0, <1>4, NotifyItems DEF Notify
  <2> QED BY <1>4, <2>1 DEF NotYet, Notify, Pending
<1>5. CASE Flushed
  <2>1. InCh' = InCh /\ Items' = {}
    BY <1>5 DEF Flushed, InCh, Items
  <2> QED BY <1>5, <2>1 DEF NotYet, Flushed, Pending
<1>6. CASE BeginFinal \/ Enough
  BY <1>6, SameItems DEF NotYet, BeginFinal, Enough
<1>7. CASE (\E e \in Deletable : DeleteEndpoint(e)) \/ Stop \/ Exit \/ UNCHANGED vars
  BY <1>7, SameItems DEF NotYet, DeleteEndpoint, Stop, Exit, vars
<1> QED
  BY <1>1, <1>2, <1>3, <1>4, <1>5, <1>6, <1>7 DEF Next, Worker

\* What the handlers have answered, as the contract sees it.
Replies == [h \in Handlers |-> Told(h)]

\* A handler that leaves tells its sender one thing, and nobody else is told.
LEMMA OneIsTold ==
    ASSUME TypeOK, NEW h \in Handlers, NEW x \in {"blocked", "wait", "acked", "e500", "e503"},
           pc[h] \in {"idle", "blocked", "wait"}, pc' = [pc EXCEPT ![h] = x]
    PROVE  /\ Replies[h] = "nothing"
           /\ Replies' = [Replies EXCEPT ![h] = CASE x = "acked" -> "ok"
                                                    [] x = "e500" -> "error"
                                                    [] x = "e503" -> "busy"
                                                    [] OTHER -> "nothing"]
<1>1. /\ pc'[h] = x
      /\ \A g \in Handlers : g # h => pc'[g] = pc[g]
  BY DEF TypeOK, HandlerType
<1>2. \A g \in Handlers : g # h => Told(g)' = Told(g)
  BY <1>1 DEF Told
<1>3. Told(h) = "nothing"
  BY DEF Told
<1>4. Told(h)' = CASE x = "acked" -> "ok" [] x = "e500" -> "error"
                   [] x = "e503" -> "busy" [] OTHER -> "nothing"
  BY <1>1 DEF Told
<1> QED BY <1>2, <1>3, <1>4 DEF Replies

LEMMA HandlerImplements ==
    ASSUME IInv, NotYet, NEW h \in Handlers, Handle(h)
    PROVE  [Contract!Next]_(Contract!vars)
<1> USE DEF handlers, channels, worker, world, books
<1>0. TypeOK /\ UNCHANGED <<committed, faults>>
  BY DEF IInv, Handle, Enter, Enqueue, Overloaded, Answered, HangUp
<1>1. SUFFICES \/ Contract!Accept(h) \/ Contract!Refuse(h) \/ Contract!TurnAway(h)
               \/ Contract!HangUp(h) \/ UNCHANGED Contract!vars
  BY DEF Contract!Next
<1>2. CASE Enter(h) \/ Enqueue(h)
  <2>1. PICK x \in {"blocked", "wait", "acked"} :
           pc' = [pc EXCEPT ![h] = x] /\ (x = "acked" => ~Durable)
    BY <1>2 DEF Enter, Enqueue, Send, Enqueued
  <2>2. UNCHANGED orphaned /\ pc[h] \in {"idle", "blocked"}
    BY <1>2 DEF Enter, Enqueue
  <2>3. CASE x = "acked"
    BY <1>0, <2>1, <2>2, <2>3, OneIsTold DEF Replies, Contract!Accept, Contract!Tell
  <2>4. CASE x # "acked"
    <3>1. Replies' = [Replies EXCEPT ![h] = "nothing"] /\ Replies[h] = "nothing"
      BY <1>0, <2>1, <2>2, <2>4, OneIsTold
    <3>2. Replies' = Replies
      BY <3>1 DEF Replies
    <3> QED BY <1>0, <2>2, <3>2 DEF Replies, Contract!vars
  <2> QED BY <2>3, <2>4
<1>3. CASE Overloaded(h)
  <2>1. UNCHANGED orphaned /\ h \notin committed /\ pc[h] = "blocked"
    BY <1>3 DEF Overloaded, NotYet
  <2> QED
    BY <1>0, <1>3, <2>1, OneIsTold
       DEF Overloaded, Replies, Contract!TurnAway, Contract!Tell
<1>4. CASE Answered(h)
  <2>1. Durable /\ pc[h] = "wait" /\ UNCHANGED orphaned
    BY <1>4 DEF Answered, IInv, Phases
  <2>2. cell[ch[h]] \in Answers /\ ch[h] \in Chans
    BY <1>0, <1>4, <2>1 DEF Answered, IInv, Ownership, Waits, TypeOK, ChannelType
  <2>3. CASE Succeeded(ch[h])
    <3>1. h \in committed \/ orphaned # {}
      BY <2>1, <2>2, <2>3 DEF Succeeded, IInv, GoodNews, Clean
    <3>2. pc' = [pc EXCEPT ![h] = "acked"]
      BY <1>4, <2>3 DEF Answered
    <3> QED
      BY <1>0, <2>1, <3>1, <3>2, OneIsTold DEF Replies, Contract!Accept, Contract!Tell
  <2>4. CASE ~Succeeded(ch[h])
    <3>1. h \notin committed \/ orphaned # {} \/ faults # 0
      BY <2>1, <2>2, <2>4 DEF Succeeded, Answers, IInv, BadNews, Clean
    <3>2. pc' = [pc EXCEPT ![h] = "e500"]
      BY <1>4, <2>4 DEF Answered
    <3> QED
      BY <1>0, <2>1, <3>1, <3>2, OneIsTold DEF Replies, Contract!Refuse, Contract!Tell
  <2> QED BY <2>3, <2>4
<1>5. CASE HangUp(h)
  <2>1. Durable /\ pc[h] = "wait" /\ orphaned' # {} /\ pc' = [pc EXCEPT ![h] = "e503"]
    BY <1>5 DEF HangUp, IInv, Phases
  <2> QED
    BY <1>0, <2>1, OneIsTold DEF Replies, Contract!HangUp, Contract!Tell
<1> QED BY <1>2, <1>3, <1>4, <1>5 DEF Handle

LEMMA FlushImplements ==
    ASSUME IInv, NotYet, Flush
    PROVE  [Contract!Next]_(Contract!vars)
<1> USE DEF handlers, channels, worker, world, books
<1>0. TypeOK /\ Items \subseteq Handlers
  BY ItemsAreHandlers DEF IInv
<1>1. UNCHANGED <<pc, orphaned>> /\ wpc = "flush"
  BY DEF Flush
<1>2. Replies' = Replies
  BY <1>1 DEF Replies, Told
<1>3. \/ committed' = committed \cup Items
      \/ committed' = committed
  BY DEF Flush, Stored
<1>4. faults' = faults \/ faults' # 0
  <2>1. faults \in Nat
    BY <1>0, IngestAssumption DEF TypeOK, WorldType
  <2>2. faults' = faults \/ faults' = faults + 1
    BY Zenon DEF Flush
  <2> QED BY <2>1, <2>2
<1>5. \A h \in Items :
         Replies[h] = "nothing" \/ (Replies[h] = "ok" /\ ~Durable) \/ orphaned # {}
  <2>1. ASSUME NEW h \in Items, Durable, orphaned = {} PROVE pc[h] = "wait"
    BY <1>0, <2>1 DEF IInv, Phases, Channelled, CellsClean, Clean, Pending
  <2>2. ASSUME NEW h \in Items, ~Durable PROVE pc[h] = "acked"
    BY <2>2 DEF NotYet, Pending
  <2> QED BY <1>0, <2>1, <2>2 DEF Replies, Told
<1>6. CASE committed' = committed \cup Items
  <2>1. Items \cap committed = {}
    BY <1>1 DEF NotYet
  <2>2. Contract!Commit(Items)
    BY <1>1, <1>2, <1>4, <1>5, <1>6, <2>1 DEF Contract!Commit, Replies
  <2> QED BY <1>0, <2>2 DEF Contract!Next
<1>7. CASE committed' = committed
  <2>1. Contract!Commit({})
    BY <1>1, <1>2, <1>4, <1>7 DEF Contract!Commit, Replies
  <2> QED BY <2>1 DEF Contract!Next
<1> QED BY <1>3, <1>6, <1>7

LEMMA StepImplements ==
    IInv /\ NotYet /\ [Next]_vars => [Contract!Next]_(Contract!vars)
<1> SUFFICES ASSUME IInv, NotYet, [Next]_vars PROVE [Contract!Next]_(Contract!vars)
  OBVIOUS
<1>1. CASE (\E h \in Handlers : Handle(h)) \/ Flush
  BY <1>1, HandlerImplements, FlushImplements
<1>2. CASE \/ First \/ BeginFinal \/ More \/ Enough \/ Notify \/ Flushed \/ Stop \/ Exit
           \/ (\E e \in Deletable : DeleteEndpoint(e)) \/ UNCHANGED vars
  <2>1. UNCHANGED <<pc, orphaned, committed, faults>>
    BY <1>2
       DEF First, BeginFinal, More, Enough, Notify, Flushed, Stop, Exit, DeleteEndpoint,
           vars, handlers, channels, worker, world, books
  <2> QED BY <2>1 DEF Contract!vars, Told
<1> QED BY <1>1, <1>2 DEF Next, Worker

\* In both modes, for any constants: what a sender is told and what is stored change
\* only as Acknowledgment allows (CaptureWebhook, batchWorker, flushBatch).
THEOREM Implements == Spec => ImplementsAcknowledgment
<1>1. Init => NotYet
  BY DEF Init, NotYet, InCh, Items, Pending
<1>2. Init => Contract!Init
  <2> SUFFICES ASSUME Init PROVE Contract!Init OBVIOUS
  <2>1. committed = {} /\ orphaned = {} /\ faults = 0 /\ \A h \in Handlers : Told(h) = "nothing"
    BY DEF Init, Told
  <2> QED BY <2>1 DEF Contract!Init
<1> QED
  BY <1>1, <1>2, Invariance, NextKeepsNotYet, StepImplements, PTL
     DEF Spec, ImplementsAcknowledgment, Contract!Spec

-----------------------------------------------------------------------------
(* What the contract is worth *)

\* The contract of Acknowledgment, which names neither channel nor worker, is enough
\* to know that an answer is true; what README.md:41-42 promises holds of
\* everything that keeps it.
THEOREM ContractIsTruthful == Contract!Spec => []Contract!Truthful
<1>1. Contract!Init => Contract!Truthful
  BY DEF Contract!Init, Contract!Truthful
<1>2. Contract!Truthful /\ [Contract!Next]_(Contract!vars) => Contract!Truthful'
  <2> SUFFICES ASSUME Contract!Truthful, [Contract!Next]_(Contract!vars), (orphaned = {})'
               PROVE  Contract!Truthful'
    BY DEF Contract!Truthful
  <2>1. CASE UNCHANGED Contract!vars
    BY <2>1 DEF Contract!vars, Contract!Truthful
  <2>2. ASSUME NEW B \in SUBSET Handlers, Contract!Commit(B) PROVE Contract!Truthful'
    BY <2>2 DEF Contract!Commit, Contract!Truthful
  <2>3. ASSUME NEW h \in Handlers,
               Contract!Accept(h) \/ Contract!Refuse(h) \/ Contract!TurnAway(h)
        PROVE  Contract!Truthful'
    BY <2>3 DEF Contract!Accept, Contract!Refuse, Contract!TurnAway, Contract!Tell,
                Contract!Truthful
  <2>4. ASSUME NEW h \in Handlers, Contract!HangUp(h) PROVE Contract!Truthful'
    BY <2>4 DEF Contract!HangUp
  <2> QED BY <2>1, <2>2, <2>3, <2>4 DEF Contract!Next
<1> QED BY <1>1, <1>2, PTL DEF Contract!Spec

\* Hence the handlers of CaptureWebhook tell their senders the truth.
THEOREM SendersAreToldTheTruth == Spec => []Contract!Truthful
  BY Implements, ContractIsTruthful, PTL DEF ImplementsAcknowledgment
=============================================================================
