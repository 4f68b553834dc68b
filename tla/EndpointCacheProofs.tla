------------------------ MODULE EndpointCacheProofs ------------------------
(***************************************************************************)
(* For any number of handlers, versions and fields, and any minute and lag *)
(* that CacheAssumption allows: how stale an endpoint may be that a capture*)
(* uses, that the cache is exact without overlaps, and that edits are kept *)
(* without overlaps.                                                       *)
(***************************************************************************)
EXTENDS EndpointCache, TLAPS

-----------------------------------------------------------------------------
(***************************************************************************)
(* The helpers.                                                            *)
(***************************************************************************)
LEMMA AtType ==
    ASSUME NEW label \in {"idle", "evict", "read", "fill",
                          "merge", "reread", "refresh", "uncache"},
           NEW v \in 0..MaxWrites, NEW c \in [Fields -> 0..MaxWrites]
    PROVE  At(label, v, c) \in Procs
  BY CacheAssumption DEF At, Procs

LEMMA NothingType == Nothing \in [Fields -> 0..MaxWrites]
  BY CacheAssumption DEF Nothing

\* A handler that goes on with nothing in hand.
LEMMA GoToEffect ==
    ASSUME TypeOK, NEW h \in Handlers,
           NEW label \in {"idle", "evict", "read", "fill",
                          "merge", "reread", "refresh", "uncache"},
           GoTo(h, label)
    PROVE  /\ proc' \in [Handlers -> Procs]
           /\ proc'[h].pc = label
           /\ \A g \in Handlers \ {h} : proc'[g] = proc[g]
<1>1. At(label, 0, Nothing) \in Procs
  BY AtType, NothingType, CacheAssumption
<1>2. At(label, 0, Nothing).pc = label
  BY DEF At
<1> QED
  BY <1>1, <1>2 DEF TypeOK, GoTo

\* A handler that has read the row.
LEMMA ReadRowEffect ==
    ASSUME TypeOK, NEW h \in Handlers, NEW label \in {"fill", "merge", "refresh"},
           NEW c \in [Fields -> 0..MaxWrites],
           ReadRow(h, label, c)
    PROVE  /\ proc' \in [Handlers -> Procs]
           /\ row # 0
           /\ proc'[h].pc = label /\ proc'[h].held = row /\ proc'[h].lag = 0
           /\ proc'[h].existing = c
           /\ \A g \in Handlers \ {h} : proc'[g] = proc[g]
<1>1. At(label, row, c) \in Procs
  BY AtType DEF TypeOK
<1>2. /\ At(label, row, c).pc = label /\ At(label, row, c).held = row
      /\ At(label, row, c).lag = 0 /\ At(label, row, c).existing = c
  BY DEF At
<1> QED
  BY <1>1, <1>2 DEF TypeOK, ReadRow

-----------------------------------------------------------------------------
(***************************************************************************)
(* Types.                                                                  *)
(***************************************************************************)
LEMMA InitType == Init => TypeOK
<1> SUFFICES ASSUME Init PROVE TypeOK
  OBVIOUS
<1>1. proc \in [Handlers -> Procs]
  BY AtType, NothingType, CacheAssumption DEF Init
<1>2. \A h \in Handlers : ~Caching(h)
  BY DEF Init, At, Caching
<1>3. gone \in [Versions -> 0..Horizon] /\ worst \in 0..Horizon
  BY CacheAssumption DEF Init, Horizon
<1>4. /\ content \in [Fields -> 0..MaxWrites]
      /\ latest \in [Fields -> 0..MaxWrites]
  BY NothingType DEF Init
<1>5. /\ row \in 0..MaxWrites /\ writes \in 0..MaxWrites
      /\ cached \in 0..MaxWrites /\ cachedFor \in 0..TTL
  BY CacheAssumption DEF Init
<1>6. overlapped \in BOOLEAN /\ disturbed \in BOOLEAN
  BY DEF Init
<1> QED
  BY <1>1, <1>2, <1>3, <1>4, <1>5, <1>6 DEF TypeOK

\* A step in which h goes on with nothing in hand keeps the type of proc, and so
\* does one in which it has read the row.
LEMMA HandType ==
    ASSUME TypeOK, NEW h \in Handlers,
           \/ \E label \in {"idle", "evict", "read", "merge", "reread", "uncache"} :
                 GoTo(h, label)
           \/ \E label \in {"fill", "merge", "refresh"},
                 c \in [Fields -> 0..MaxWrites] : ReadRow(h, label, c)
    PROVE  /\ proc' \in [Handlers -> Procs]
           /\ \A g \in Handlers : Caching(g)' => proc'[g].held # 0
<1>1. CASE \E label \in {"idle", "evict", "read", "merge", "reread", "uncache"} :
             GoTo(h, label)
  <2> PICK label \in {"idle", "evict", "read", "merge", "reread", "uncache"} :
        GoTo(h, label)
    BY <1>1
  <2> QED
    BY GoToEffect DEF TypeOK, Caching
<1>2. CASE \E label \in {"fill", "merge", "refresh"},
             c \in [Fields -> 0..MaxWrites] : ReadRow(h, label, c)
  <2> PICK label \in {"fill", "merge", "refresh"},
           c \in [Fields -> 0..MaxWrites] : ReadRow(h, label, c)
    BY <1>2
  <2> QED
    BY ReadRowEffect DEF TypeOK, Caching
<1> QED
  BY <1>1, <1>2

\* A capture that uses a version counts it.
LEMMA UseType ==
    ASSUME TypeOK, NEW v \in Versions, Use(v)
    PROVE  worst' \in 0..Horizon
  BY CacheAssumption DEF Use, TypeOK, Horizon

LEMMA CaptureType ==
    ASSUME TypeOK, NEW h \in Captures, Capture(h)
    PROVE  TypeOK'
<1> h \in Handlers
  BY DEF Handlers
<1> USE DEF db, cache, history
<1>1. CASE Hit(h)
  <2>1. cached \in Versions
    BY <1>1, CacheAssumption DEF Hit, Fresh, TypeOK, Versions
  <2>2. worst' \in 0..Horizon
    BY <1>1, <2>1, UseType DEF Hit
  <2> QED
    BY <1>1, <2>2 DEF Hit, TypeOK, Aged, Caching
<1>2. CASE Miss(h)
  <2>1. GoTo(h, "read") \/ GoTo(h, "evict")
    BY <1>2 DEF Miss
  <2> QED
    BY <1>2, <2>1, HandType DEF Miss, TypeOK, Caching
<1>3. CASE Evict(h)
  <2>1. cached' \in 0..MaxWrites /\ cachedFor' \in 0..TTL
    BY <1>3, CacheAssumption DEF Evict, Forget
  <2> QED
    BY <1>3, <2>1, HandType DEF Evict, TypeOK, Caching
<1>4. CASE Read(h)
  <2>1. GoTo(h, "idle") \/ ReadRow(h, "fill", Nothing)
    BY <1>4 DEF Read
  <2> QED
    BY <1>4, <2>1, HandType, NothingType DEF Read, TypeOK, Caching
<1>5. CASE Fill(h)
  <2>1. proc[h].held \in Versions
    BY <1>5, CacheAssumption DEF Fill, TypeOK, Procs, Caching, Versions
  <2>2. worst' \in 0..Horizon
    BY <1>5, <2>1, UseType DEF Fill
  <2>3. cached' \in 0..MaxWrites /\ cachedFor' \in 0..TTL
    BY <1>5, <2>1, CacheAssumption DEF Fill, Store, Versions
  <2> QED
    BY <1>5, <2>2, <2>3, HandType DEF Fill, TypeOK, Caching
<1> QED
  BY <1>1, <1>2, <1>3, <1>4, <1>5 DEF Capture

LEMMA EditType ==
    ASSUME TypeOK, NEW h \in Editors, Edit(h)
    PROVE  TypeOK'
<1> h \in Handlers
  BY DEF Handlers
<1> USE DEF db, cache, history
<1>1. CASE ReadExisting(h)
  <2>1. ReadRow(h, "merge", content) /\ content \in [Fields -> 0..MaxWrites]
    BY <1>1 DEF ReadExisting, TypeOK
  <2> QED
    BY <1>1, <2>1, HandType DEF ReadExisting, TypeOK, Caching
<1>2. CASE Refuse(h)
  BY <1>2, HandType DEF Refuse, TypeOK, Caching
<1>3. CASE ReRead(h)
  <2>1. GoTo(h, "idle") \/ ReadRow(h, "refresh", Nothing)
    BY <1>3 DEF ReRead
  <2>2. disturbed' \in BOOLEAN
    BY <1>3 DEF ReRead, TypeOK
  <2> QED
    BY <1>3, <2>1, <2>2, HandType, NothingType DEF ReRead, TypeOK, Caching
<1>4. CASE Refresh(h)
  <2>1. cached' \in 0..MaxWrites /\ cachedFor' \in 0..TTL
    BY <1>4, CacheAssumption DEF Refresh, Store, TypeOK, Procs
  <2> QED
    BY <1>4, <2>1, HandType DEF Refresh, TypeOK, Caching
<1>5. CASE DeleteRow(h)
  <2>1. GoTo(h, "idle") \/ GoTo(h, "uncache")
    BY <1>5 DEF DeleteRow, Broken
  <2>2. disturbed' \in BOOLEAN
    BY <1>5 DEF DeleteRow, Broken, TypeOK
  <2>3. row' \in 0..MaxWrites
    BY <1>5, CacheAssumption DEF DeleteRow
  <2> QED
    BY <1>5, <2>1, <2>2, <2>3, HandType DEF DeleteRow, TypeOK, Caching
<1>6. CASE Uncache(h)
  <2>1. cached' \in 0..MaxWrites /\ cachedFor' \in 0..TTL
    BY <1>6, CacheAssumption DEF Uncache, Forget
  <2> QED
    BY <1>6, <2>1, HandType DEF Uncache, TypeOK, Caching
<1>7. ASSUME NEW given \in SUBSET Fields, UpdateRow(h, given) PROVE TypeOK'
  <2>1. GoTo(h, "idle") \/ GoTo(h, "reread")
    BY <1>7 DEF UpdateRow, Broken
  <2>2. disturbed' \in BOOLEAN /\ overlapped' \in BOOLEAN
    BY <1>7 DEF UpdateRow, Broken, TypeOK
  <2>3. proc[h].existing \in [Fields -> 0..MaxWrites]
    BY DEF TypeOK, Procs
  <2>4. row' \in 0..MaxWrites /\ writes' \in 0..MaxWrites
    <3>1. writes \in 0..MaxWrites /\ row \in 0..MaxWrites
      BY DEF TypeOK
    <3>2. \/ row' = row /\ writes' = writes
          \/ row' = writes + 1 /\ writes' = writes + 1 /\ writes < MaxWrites
      BY <1>7 DEF UpdateRow
    <3> QED
      BY <3>1, <3>2, CacheAssumption
  <2>5. /\ content' \in [Fields -> 0..MaxWrites]
        /\ latest' \in [Fields -> 0..MaxWrites]
    <3>1. CASE row = 0
      BY <1>7, <3>1 DEF UpdateRow, TypeOK
    <3>2. CASE row # 0
      <4>1. writes + 1 \in 0..MaxWrites
        <5>1. writes < MaxWrites /\ writes \in 0..MaxWrites
          BY <1>7, <3>2 DEF UpdateRow, TypeOK
        <5> QED
          BY <5>1, CacheAssumption
      <4> QED
        BY <1>7, <2>3, <3>2, <4>1 DEF UpdateRow, TypeOK, Merge
    <3> QED
      BY <3>1, <3>2
  <2> QED
    BY <1>7, <2>1, <2>2, <2>4, <2>5, HandType DEF UpdateRow, TypeOK, Caching
<1> QED
  BY <1>1, <1>2, <1>3, <1>4, <1>5, <1>6, <1>7 DEF Edit

LEMMA TickType ==
    ASSUME TypeOK, Tick
    PROVE  TypeOK'
<1>1. ASSUME NEW h \in Handlers
      PROVE  /\ proc'[h] \in Procs
             /\ proc'[h].pc = proc[h].pc /\ proc'[h].held = proc[h].held
  <2>1. proc[h] \in Procs
    BY DEF TypeOK
  <2>2. CASE ~Caching(h)
    BY <2>1, <2>2 DEF Tick
  <2>3. CASE Caching(h)
    <3>1. proc[h].lag < Lag /\ proc[h].lag \in 0..Lag
      BY <2>1, <2>3 DEF Tick, Prompt, Procs
    <3>2. proc'[h] = [proc[h] EXCEPT !.lag = proc[h].lag + 1]
      BY <2>3 DEF Tick
    <3>3. proc[h].lag + 1 \in 0..Lag
      BY <3>1, CacheAssumption
    <3> QED
      BY <2>1, <3>2, <3>3 DEF Procs
  <2> QED
    BY <2>2, <2>3
<1>2. proc' \in [Handlers -> Procs]
  BY <1>1 DEF Tick
<1>3. \A h \in Handlers : Caching(h)' => proc'[h].held # 0
  BY <1>1 DEF TypeOK, Caching
<1>4. gone' \in [Versions -> 0..Horizon]
  BY CacheAssumption DEF Tick, TypeOK, Capped, Horizon
<1>5. cachedFor' \in 0..TTL
  BY CacheAssumption DEF Tick, TypeOK, Capped
<1> QED
  BY <1>2, <1>3, <1>4, <1>5 DEF Tick, TypeOK, db

LEMMA StepType == TypeOK /\ [Next]_vars => TypeOK'
<1> SUFFICES ASSUME TypeOK, [Next]_vars PROVE TypeOK'
  OBVIOUS
<1>1. CASE Create
  <2>1. /\ content' \in [Fields -> 0..MaxWrites]
        /\ latest' \in [Fields -> 0..MaxWrites]
        /\ row' \in 0..MaxWrites /\ writes' \in 0..MaxWrites
    BY <1>1, CacheAssumption DEF Create
  <2> QED
    BY <1>1, <2>1 DEF Create, TypeOK, Caching, cache
<1>2. CASE UNCHANGED vars
  BY <1>2 DEF vars, TypeOK, Caching
<1> QED
  BY <1>1, <1>2, CaptureType, EditType, TickType DEF Next

\* Every variable keeps its type: no version is made up and no age runs over.
THEOREM TypeCorrect == Spec => []TypeOK
  BY InitType, StepType, PTL DEF Spec

-----------------------------------------------------------------------------
(***************************************************************************)
(* Staleness.                                                              *)
(***************************************************************************)
\* Versions are numbered in the order of the writes, and only versions that
\* were replaced have been gone for any time.
Numbered ==
    /\ row <= writes
    /\ \A v \in Versions : v > writes \/ v = row => gone[v] = 0

\* A version in hand has been gone for no longer than it has been in hand.
HandBound ==
    \A h \in Handlers : Caching(h) =>
        proc[h].held <= writes /\ gone[proc[h].held] <= proc[h].lag

\* A version in the cache has been gone for no longer than it has been there and
\* a handler may take to put it there; past the minute nothing is said.
EntryBound ==
    cached # 0 =>
        /\ cached <= writes
        /\ cachedFor < TTL => gone[cached] <= cachedFor + Lag

StaleInv == Numbered /\ HandBound /\ EntryBound /\ StaleBound

LEMMA InitStale == Init => StaleInv
<1> SUFFICES ASSUME Init PROVE StaleInv
  OBVIOUS
<1>1. HandBound
  BY DEF Init, HandBound, Caching, At
<1>2. Numbered
  BY CacheAssumption DEF Init, Numbered, Versions
<1>3. EntryBound /\ StaleBound
  BY CacheAssumption DEF Init, EntryBound, StaleBound
<1> QED
  BY <1>1, <1>2, <1>3 DEF StaleInv

\* A version in hand is a version, and no older than Lag.
LEMMA InHand ==
    ASSUME TypeOK, StaleInv, NEW h \in Handlers, Caching(h)
    PROVE  /\ proc[h].held \in Versions
           /\ proc[h].held <= writes
           /\ gone[proc[h].held] \in Nat /\ gone[proc[h].held] <= Lag
<1>1. proc[h].held \in 1..MaxWrites /\ proc[h].lag \in 0..Lag
  BY CacheAssumption DEF TypeOK, Procs
<1>2. gone[proc[h].held] \in 0..Horizon
  BY <1>1 DEF TypeOK, Versions
<1> QED
  BY <1>1, <1>2, CacheAssumption DEF StaleInv, HandBound, Versions, Horizon

\* A handler's step keeps HandBound as long as versions do not age.
LEMMA HandStep ==
    ASSUME TypeOK, StaleInv, NEW h \in Handlers,
           gone' = gone, writes' \in Nat, writes <= writes',
           \/ \E label \in {"idle", "evict", "read", "merge", "reread", "uncache"} :
                 GoTo(h, label)
           \/ \E label \in {"fill", "merge", "refresh"},
                 c \in [Fields -> 0..MaxWrites] : ReadRow(h, label, c)
    PROVE  HandBound'
<1>1. ASSUME NEW g \in Handlers \ {h}, proc'[g] = proc[g], Caching(g)'
      PROVE  proc'[g].held <= writes' /\ gone'[proc'[g].held] <= proc'[g].lag
  <2>1. Caching(g)
    BY <1>1 DEF Caching
  <2>2. proc[g].held \in Versions /\ writes \in Nat
    BY <2>1, InHand DEF TypeOK
  <2> QED
    BY <1>1, <2>1, <2>2 DEF StaleInv, HandBound, Versions
<1>2. CASE \E label \in {"idle", "evict", "read", "merge", "reread", "uncache"} :
             GoTo(h, label)
  <2> PICK label \in {"idle", "evict", "read", "merge", "reread", "uncache"} :
        GoTo(h, label)
    BY <1>2
  <2>1. ~Caching(h)' /\ \A g \in Handlers \ {h} : proc'[g] = proc[g]
    BY GoToEffect DEF Caching
  <2> QED
    BY <1>1, <2>1 DEF HandBound
<1>3. CASE \E label \in {"fill", "merge", "refresh"},
             c \in [Fields -> 0..MaxWrites] : ReadRow(h, label, c)
  <2> PICK label \in {"fill", "merge", "refresh"},
           c \in [Fields -> 0..MaxWrites] : ReadRow(h, label, c)
    BY <1>3
  <2>1. /\ proc'[h].held = row /\ proc'[h].lag = 0 /\ row # 0
        /\ \A g \in Handlers \ {h} : proc'[g] = proc[g]
    BY ReadRowEffect
  <2>2. row \in Versions /\ row <= writes /\ gone[row] = 0
    BY <2>1, CacheAssumption DEF TypeOK, StaleInv, Numbered, Versions
  <2>3. proc'[h].held <= writes' /\ gone'[proc'[h].held] <= proc'[h].lag
    BY <2>1, <2>2 DEF TypeOK, Versions
  <2> QED
    BY <1>1, <2>1, <2>3 DEF HandBound
<1> QED
  BY <1>2, <1>3

\* A version from a hand makes a new entry.
LEMMA StoreStep ==
    ASSUME TypeOK, StaleInv, NEW h \in Handlers, Caching(h), Store(h),
           gone' = gone, writes' = writes
    PROVE  EntryBound'
<1>1. /\ proc[h].held \in Versions /\ proc[h].held <= writes
      /\ gone[proc[h].held] <= Lag
  BY InHand
<1> QED
  BY <1>1, CacheAssumption DEF Store, EntryBound

\* Using a version that is gone for less than a minute and Lag keeps StaleBound.
LEMMA UseStep ==
    ASSUME TypeOK, StaleInv, NEW v \in Versions, gone[v] < TTL + Lag, Use(v)
    PROVE  StaleBound'
  BY DEF Use, StaleInv, StaleBound

\* A step that makes a new version, deletes the row or changes nothing keeps the
\* numbering and the bound of the entry.
LEMMA RowStep ==
    ASSUME TypeOK, StaleInv, gone' = gone, UNCHANGED cache,
           \/ row' = row /\ writes' = writes
           \/ row' = 0 /\ writes' = writes
           \/ row' = writes + 1 /\ writes' = writes + 1
    PROVE  /\ Numbered' /\ EntryBound'
           /\ writes' \in Nat /\ writes <= writes'
<1>1. writes \in Nat /\ row \in Nat /\ cached \in Nat
  BY CacheAssumption DEF TypeOK
<1>2. writes' \in Nat /\ writes <= writes'
  BY <1>1
<1>3. Numbered'
  BY <1>1 DEF StaleInv, Numbered, Versions
<1>4. EntryBound'
  BY <1>1, <1>2 DEF StaleInv, EntryBound, cache
<1> QED
  BY <1>2, <1>3, <1>4

LEMMA CaptureStale ==
    ASSUME TypeOK, StaleInv, NEW h \in Captures, Capture(h)
    PROVE  StaleInv'
<1> h \in Handlers
  BY DEF Handlers
<1>1. /\ UNCHANGED <<row, writes, gone>>
      /\ writes \in Nat
  BY CacheAssumption DEF Capture, Hit, Miss, Evict, Read, Fill, db, history, TypeOK
<1>2. Numbered'
  BY <1>1 DEF StaleInv, Numbered
<1>3. CASE Hit(h)
  <2>1. /\ cached \in Versions
        /\ gone[cached] < TTL + Lag
    <3>1. cached \in Versions /\ cachedFor \in Nat /\ cachedFor < TTL
      BY <1>3, CacheAssumption DEF Hit, Fresh, TypeOK, Versions
    <3>2. gone[cached] \in Nat
      BY <3>1, CacheAssumption DEF TypeOK, Horizon
    <3> QED
      BY <1>3, <3>1, <3>2, CacheAssumption DEF Hit, Fresh, StaleInv, EntryBound
  <2>2. StaleBound'
    BY <1>3, <2>1, UseStep DEF Hit
  <2>3. EntryBound' /\ HandBound'
    BY <1>1, <1>3 DEF Hit, Aged, StaleInv, EntryBound, HandBound, Caching
  <2> QED
    BY <1>2, <2>2, <2>3 DEF StaleInv
<1>4. CASE Miss(h)
  <2>1. GoTo(h, "read") \/ GoTo(h, "evict")
    BY <1>4 DEF Miss
  <2>2. HandBound'
    BY <1>1, <2>1, HandStep
  <2>3. EntryBound' /\ StaleBound'
    BY <1>1, <1>4 DEF Miss, cache, history, StaleInv, EntryBound, StaleBound
  <2> QED
    BY <1>2, <2>2, <2>3 DEF StaleInv
<1>5. CASE Evict(h)
  <2>1. HandBound'
    BY <1>1, <1>5, HandStep DEF Evict
  <2>2. EntryBound' /\ StaleBound'
    BY <1>5 DEF Evict, Forget, history, StaleInv, EntryBound, StaleBound
  <2> QED
    BY <1>2, <2>1, <2>2 DEF StaleInv
<1>6. CASE Read(h)
  <2>1. GoTo(h, "idle") \/ ReadRow(h, "fill", Nothing)
    BY <1>6 DEF Read
  <2>2. HandBound'
    BY <1>1, <2>1, HandStep, NothingType
  <2>3. EntryBound' /\ StaleBound'
    BY <1>1, <1>6 DEF Read, cache, history, StaleInv, EntryBound, StaleBound
  <2> QED
    BY <1>2, <2>2, <2>3 DEF StaleInv
<1>7. CASE Fill(h)
  <2>1. Caching(h) /\ Store(h) /\ GoTo(h, "idle") /\ Use(proc[h].held)
    BY <1>7 DEF Fill, Caching
  <2>2. HandBound' /\ EntryBound'
    BY <1>1, <2>1, HandStep, StoreStep
  <2>3. proc[h].held \in Versions /\ gone[proc[h].held] < TTL + Lag
    BY <2>1, InHand, CacheAssumption
  <2>4. StaleBound'
    BY <2>1, <2>3, UseStep
  <2> QED
    BY <1>2, <2>2, <2>4 DEF StaleInv
<1> QED
  BY <1>3, <1>4, <1>5, <1>6, <1>7 DEF Capture

LEMMA EditStale ==
    ASSUME TypeOK, StaleInv, NEW h \in Editors, Edit(h)
    PROVE  StaleInv'
<1> h \in Handlers
  BY DEF Handlers
<1>1. StaleBound' /\ gone' = gone
  BY DEF Edit, ReadExisting, Refuse, ReRead, Refresh, DeleteRow, Uncache, UpdateRow,
         history, StaleInv, StaleBound
<1>2. \/ \E label \in {"idle", "evict", "read", "merge", "reread", "uncache"} :
           GoTo(h, label)
      \/ \E label \in {"fill", "merge", "refresh"},
           c \in [Fields -> 0..MaxWrites] : ReadRow(h, label, c)
  BY NothingType DEF Edit, ReadExisting, Refuse, ReRead, Refresh, DeleteRow, Uncache,
         UpdateRow, Broken, TypeOK
<1>3. \/ row' = row /\ writes' = writes
      \/ row' = 0 /\ writes' = writes
      \/ row' = writes + 1 /\ writes' = writes + 1
  BY DEF Edit, ReadExisting, Refuse, ReRead, Refresh, DeleteRow, Uncache, UpdateRow, db
<1>4. CASE Refresh(h)
  <2>1. Caching(h) /\ Store(h) /\ UNCHANGED <<row, writes>>
    BY <1>4 DEF Refresh, Caching, db
  <2>2. writes' \in Nat /\ writes <= writes'
    BY <2>1, CacheAssumption DEF TypeOK
  <2>3. Numbered'
    BY <1>1, <2>1 DEF StaleInv, Numbered
  <2> QED
    BY <1>1, <1>2, <2>1, <2>2, <2>3, HandStep, StoreStep DEF StaleInv
<1>5. CASE Uncache(h)
  <2>1. Forget /\ UNCHANGED <<row, writes>>
    BY <1>5 DEF Uncache, db
  <2>2. writes' \in Nat /\ writes <= writes'
    BY <2>1, CacheAssumption DEF TypeOK
  <2>3. Numbered' /\ EntryBound'
    BY <1>1, <2>1 DEF StaleInv, Numbered, EntryBound, Forget
  <2> QED
    BY <1>1, <1>2, <2>2, <2>3, HandStep DEF StaleInv
<1>6. CASE UNCHANGED cache
  BY <1>1, <1>2, <1>3, <1>6, RowStep, HandStep DEF StaleInv
<1> QED
  BY <1>4, <1>5, <1>6
  DEF Edit, ReadExisting, Refuse, ReRead, DeleteRow, UpdateRow

LEMMA TickStale ==
    ASSUME TypeOK, StaleInv, Tick
    PROVE  StaleInv'
<1>1. UNCHANGED <<row, writes, cached, worst>> /\ writes \in Nat /\ row \in Nat
  BY CacheAssumption DEF Tick, db, TypeOK
<1>2. ASSUME NEW v \in Versions
      PROVE  /\ gone[v] \in Nat /\ gone'[v] \in Nat /\ gone'[v] <= gone[v] + 1
             /\ v > writes \/ v = row => gone'[v] = gone[v]
  BY CacheAssumption DEF Tick, TypeOK, Versions, Horizon, Capped
<1>3. Numbered'
  BY <1>1, <1>2 DEF StaleInv, Numbered
<1>4. ASSUME NEW h \in Handlers, Caching(h)'
      PROVE  proc'[h].held <= writes' /\ gone'[proc'[h].held] <= proc'[h].lag
  <2>1. proc[h] \in Procs
    BY DEF TypeOK
  <2>2. Caching(h)
    BY <1>4 DEF Tick, Caching
  <2>3. proc'[h].held = proc[h].held /\ proc'[h].lag = proc[h].lag + 1
    BY <2>1, <2>2 DEF Tick, Procs
  <2>4. proc[h].held \in Versions /\ proc[h].held <= writes
    BY <2>2, InHand
  <2>5. gone[proc[h].held] <= proc[h].lag /\ proc[h].lag \in Nat
    BY <2>1, <2>2, CacheAssumption DEF StaleInv, HandBound, Procs
  <2>6. /\ gone[proc[h].held] \in Nat /\ gone'[proc[h].held] \in Nat
        /\ gone'[proc[h].held] <= gone[proc[h].held] + 1
    BY <1>2, <2>4
  <2> QED
    BY <1>1, <2>3, <2>4, <2>5, <2>6
<1>5. HandBound'
  BY <1>4 DEF HandBound
<1>6. EntryBound'
  <2> SUFFICES ASSUME cached # 0
               PROVE  /\ cached <= writes
                      /\ cachedFor' < TTL => gone'[cached] <= cachedFor' + Lag
    BY <1>1 DEF EntryBound
  <2>1. cached \in Versions /\ cachedFor \in 0..TTL
    BY CacheAssumption DEF TypeOK, Versions
  <2>2. cachedFor' < TTL => cachedFor < TTL /\ cachedFor' = cachedFor + 1
    BY <2>1, CacheAssumption DEF Tick, Capped
  <2>3. /\ gone[cached] \in Nat /\ gone'[cached] \in Nat
        /\ gone'[cached] <= gone[cached] + 1
    BY <1>2, <2>1
  <2>4. cachedFor < TTL => gone[cached] <= cachedFor + Lag
    BY DEF StaleInv, EntryBound
  <2>5. cached <= writes
    BY DEF StaleInv, EntryBound
  <2> QED
    BY <2>1, <2>2, <2>3, <2>4, <2>5, CacheAssumption
<1> QED
  BY <1>1, <1>3, <1>5, <1>6 DEF StaleInv, StaleBound

LEMMA StepStale == TypeOK /\ StaleInv /\ [Next]_vars => StaleInv'
<1> SUFFICES ASSUME TypeOK, StaleInv, [Next]_vars PROVE StaleInv'
  OBVIOUS
<1>1. CASE Create
  <2>1. \/ row' = writes + 1 /\ writes' = writes + 1
    BY <1>1 DEF Create
  <2>2. gone' = gone /\ UNCHANGED <<cache, proc, worst>>
    BY <1>1 DEF Create
  <2>3. Numbered' /\ EntryBound' /\ writes' \in Nat /\ writes <= writes'
    BY <2>1, <2>2, RowStep
  <2>4. HandBound'
    <3>1. \A h \in Handlers : Caching(h) => proc[h].held \in Nat /\ writes \in Nat
      BY InHand, CacheAssumption DEF Versions, TypeOK
    <3> QED
      BY <2>2, <2>3, <3>1 DEF StaleInv, HandBound, Caching
  <2> QED
    BY <2>2, <2>3, <2>4 DEF StaleInv, StaleBound
<1>2. CASE UNCHANGED vars
  BY <1>2 DEF vars, StaleInv, Numbered, HandBound, EntryBound, StaleBound, Caching
<1> QED
  BY <1>1, <1>2, CaptureStale, EditStale, TickStale DEF Next

\* No capture uses an endpoint that was replaced or deleted a minute and a
\* handler's lag ago or earlier: the code promises no more than that, and keeps
\* it whatever reads, stores and deletes overlap.
THEOREM StalenessIsBounded == Spec => []StaleBound
<1>1. TypeOK /\ StaleInv /\ [Next]_vars => TypeOK' /\ StaleInv'
  BY StepType, StepStale
<1>2. StaleInv => StaleBound
  BY DEF StaleInv
<1> QED
  BY InitType, InitStale, <1>1, <1>2, PTL DEF Spec

-----------------------------------------------------------------------------
(***************************************************************************)
(* Without overlaps the cache is exact.                                    *)
(***************************************************************************)
HandsCurrent == \A h \in Handlers : Caching(h) => proc[h].held = row

\* Whoever changed the row and has not come to the cache yet.
Behind ==
    \/ row # 0 /\ \E h \in Editors : proc[h].pc \in {"reread", "refresh"}
    \/ row = 0 /\ \E h \in Editors : proc[h].pc = "uncache"

EntryCurrent == cached \in {0, row} \/ Behind

ExactInv == ~disturbed => HandsCurrent /\ EntryCurrent

LEMMA InitExact == Init => ExactInv
  BY DEF Init, ExactInv, HandsCurrent, EntryCurrent, Caching, At

\* A handler that is not behind moves: whoever is stays so.
LEMMA StillBehind ==
    ASSUME TypeOK, NEW h \in Handlers, row' = row, Behind,
           h \in Captures \/ proc[h].pc \notin {"reread", "refresh", "uncache"},
           \A g \in Handlers \ {h} : proc'[g] = proc[g]
    PROVE  Behind'
<1>1. PICK g \in Editors :
        \/ row # 0 /\ proc[g].pc \in {"reread", "refresh"}
        \/ row = 0 /\ proc[g].pc = "uncache"
  BY DEF Behind
<1>2. g # h /\ g \in Handlers
  BY <1>1, CacheAssumption DEF Handlers
<1> QED
  BY <1>1, <1>2 DEF Behind

\* A handler that drops what it has, or reads the row, keeps HandsCurrent.
LEMMA HandsStep ==
    ASSUME TypeOK, HandsCurrent, row' = row, NEW h \in Handlers,
           \/ \E label \in {"idle", "evict", "read", "merge", "reread", "uncache"} :
                 GoTo(h, label)
           \/ \E label \in {"fill", "merge", "refresh"},
                 c \in [Fields -> 0..MaxWrites] : ReadRow(h, label, c)
    PROVE  HandsCurrent' /\ \A g \in Handlers \ {h} : proc'[g] = proc[g]
<1>1. CASE \E label \in {"idle", "evict", "read", "merge", "reread", "uncache"} :
             GoTo(h, label)
  <2> PICK label \in {"idle", "evict", "read", "merge", "reread", "uncache"} :
        GoTo(h, label)
    BY <1>1
  <2> QED
    BY GoToEffect DEF HandsCurrent, Caching
<1>2. CASE \E label \in {"fill", "merge", "refresh"},
             c \in [Fields -> 0..MaxWrites] : ReadRow(h, label, c)
  <2> PICK label \in {"fill", "merge", "refresh"},
           c \in [Fields -> 0..MaxWrites] : ReadRow(h, label, c)
    BY <1>2
  <2> QED
    BY ReadRowEffect DEF HandsCurrent, Caching
<1> QED
  BY <1>1, <1>2

LEMMA CaptureExact ==
    ASSUME TypeOK, ExactInv, NEW h \in Captures, Capture(h)
    PROVE  ExactInv'
<1> h \in Handlers
  BY DEF Handlers
<1>1. UNCHANGED <<row, disturbed>>
  BY DEF Capture, Hit, Miss, Evict, Read, Fill, db, history
<1> SUFFICES ASSUME ~disturbed, HandsCurrent, EntryCurrent
             PROVE  HandsCurrent' /\ EntryCurrent'
  BY <1>1 DEF ExactInv
<1>2. CASE Hit(h)
  BY <1>1, <1>2 DEF Hit, HandsCurrent, EntryCurrent, Behind, Caching
<1>3. CASE ~Hit(h)
  <2>1. \/ \E label \in {"idle", "evict", "read", "merge", "reread", "uncache"} :
             GoTo(h, label)
        \/ \E label \in {"fill", "merge", "refresh"},
             c \in [Fields -> 0..MaxWrites] : ReadRow(h, label, c)
    BY <1>3, NothingType DEF Capture, Miss, Evict, Read, Fill
  <2>2. HandsCurrent' /\ \A g \in Handlers \ {h} : proc'[g] = proc[g]
    BY <1>1, <2>1, HandsStep
  <2>3. Behind => Behind'
    BY <1>1, <2>2, StillBehind
  <2>4. cached' = cached \/ cached' = 0 \/ cached' = row
    BY <1>3 DEF Capture, Miss, Evict, Read, Fill, cache, Forget, Store, HandsCurrent,
           Caching
  <2> QED
    BY <1>1, <2>2, <2>3, <2>4 DEF EntryCurrent
<1> QED
  BY <1>2, <1>3

LEMMA EditExact ==
    ASSUME TypeOK, ExactInv, NEW h \in Editors, Edit(h)
    PROVE  ExactInv'
<1> h \in Handlers
  BY DEF Handlers
<1>1. disturbed => disturbed'
  BY DEF Edit, ReadExisting, Refuse, ReRead, Refresh, DeleteRow, Uncache, UpdateRow,
         Broken, history
<1> SUFFICES ASSUME ~disturbed', HandsCurrent, EntryCurrent
             PROVE  HandsCurrent' /\ EntryCurrent'
  BY <1>1 DEF ExactInv
<1>2. CASE ReadExisting(h)
  <2>1. /\ UNCHANGED <<row, cached>> /\ proc[h].pc = "idle"
        /\ ReadRow(h, "merge", content) /\ content \in [Fields -> 0..MaxWrites]
    BY <1>2 DEF ReadExisting, db, cache, TypeOK
  <2> QED
    BY <2>1, HandsStep, StillBehind DEF EntryCurrent
<1>3. CASE Refuse(h)
  <2>1. UNCHANGED <<row, cached>> /\ proc[h].pc = "merge" /\ GoTo(h, "idle")
    BY <1>3 DEF Refuse, db, cache
  <2> QED
    BY <2>1, HandsStep, StillBehind DEF EntryCurrent
<1>4. CASE ReRead(h)
  <2>1. UNCHANGED <<row, cached>> /\ proc[h].pc = "reread"
    BY <1>4 DEF ReRead, db, cache
  <2>2. CASE ReadRow(h, "refresh", Nothing)
    <3>1. proc'[h].pc = "refresh" /\ row' # 0
      BY <2>1, <2>2, ReadRowEffect, NothingType
    <3>2. HandsCurrent'
      BY <2>1, <2>2, HandsStep, NothingType
    <3> QED
      BY <3>1, <3>2 DEF EntryCurrent, Behind
  <2>3. CASE GoTo(h, "idle") /\ row = 0
    <3>1. HandsCurrent' /\ \A g \in Handlers \ {h} : proc'[g] = proc[g]
      BY <2>1, <2>3, HandsStep
    <3>2. ASSUME NEW g \in Editors, proc[g].pc = "uncache" PROVE proc'[g].pc = "uncache"
      BY <2>1, <3>1, <3>2 DEF Handlers
    <3> QED
      BY <2>1, <2>3, <3>1, <3>2 DEF EntryCurrent, Behind
  <2> QED
    BY <1>4, <2>2, <2>3 DEF ReRead
<1>5. CASE Refresh(h)
  <2>1. row' = row /\ cached' = row /\ GoTo(h, "idle")
    BY <1>5 DEF Refresh, db, Store, HandsCurrent, Caching
  <2> QED
    BY <2>1, HandsStep DEF EntryCurrent
<1>6. CASE DeleteRow(h)
  <2>1. row' = 0 /\ cached' = cached /\ proc[h].pc = "idle"
    BY <1>6 DEF DeleteRow, cache
  <2>2. CASE row = 0 /\ (GoTo(h, "idle") \/ GoTo(h, "uncache"))
    BY <2>1, <2>2, HandsStep, StillBehind DEF EntryCurrent
  <2>3. CASE GoTo(h, "uncache") /\ ~Undercut(h)
    <3>1. proc'[h].pc = "uncache" /\ \A g \in Handlers \ {h} : proc'[g] = proc[g]
      BY <2>3, GoToEffect
    <3> QED
      BY <2>1, <2>3, <3>1 DEF HandsCurrent, EntryCurrent, Behind, Undercut, Caching
  <2> QED
    BY <1>6, <2>2, <2>3 DEF DeleteRow, Broken
<1>7. CASE Uncache(h)
  <2>1. row' = row /\ cached' = 0 /\ GoTo(h, "idle")
    BY <1>7 DEF Uncache, db, Forget
  <2> QED
    BY <2>1, HandsStep DEF EntryCurrent
<1>8. ASSUME NEW given \in SUBSET Fields, UpdateRow(h, given)
      PROVE  HandsCurrent' /\ EntryCurrent'
  <2>1. cached' = cached /\ proc[h].pc = "merge"
    BY <1>8 DEF UpdateRow, cache
  <2>2. CASE row = 0
    <3>1. row' = row /\ (GoTo(h, "idle") \/ GoTo(h, "reread"))
      BY <1>8, <2>2 DEF UpdateRow, Broken, db
    <3> QED
      BY <2>1, <3>1, HandsStep, StillBehind DEF EntryCurrent
  <2>3. CASE row # 0
    <3>1. row' # 0 /\ GoTo(h, "reread") /\ ~Undercut(h)
      <4>1. row' = writes + 1 /\ Broken(h, TRUE, "reread")
        BY <1>8, <2>3 DEF UpdateRow
      <4>2. row' # 0
        BY <4>1, CacheAssumption DEF TypeOK
      <4> QED
        BY <4>1, <4>2 DEF Broken
    <3>2. proc'[h].pc = "reread" /\ \A g \in Handlers \ {h} : proc'[g] = proc[g]
      BY <3>1, GoToEffect
    <3> QED
      BY <3>1, <3>2 DEF HandsCurrent, EntryCurrent, Behind, Undercut, Caching
  <2> QED
    BY <2>2, <2>3
<1> QED
  BY <1>2, <1>3, <1>4, <1>5, <1>6, <1>7, <1>8 DEF Edit

LEMMA StepExact == TypeOK /\ StaleInv /\ ExactInv /\ [Next]_vars => ExactInv'
<1> SUFFICES ASSUME TypeOK, StaleInv, ExactInv, [Next]_vars PROVE ExactInv'
  OBVIOUS
<1>1. CASE Create
  <2>1. cached = 0
    BY <1>1, CacheAssumption DEF Create, StaleInv, EntryBound, TypeOK
  <2>2. \A h \in Handlers : ~Caching(h)
    BY <1>1, InHand DEF Create, Versions
  <2> QED
    BY <1>1, <2>1, <2>2 DEF Create, ExactInv, HandsCurrent, EntryCurrent, Caching, cache
<1>2. CASE Tick
  <2>1. /\ UNCHANGED <<row, cached, disturbed>>
        /\ \A h \in Handlers : proc'[h].pc = proc[h].pc /\ proc'[h].held = proc[h].held
    BY <1>2 DEF Tick, db, TypeOK, Procs
  <2> QED
    BY <2>1 DEF ExactInv, HandsCurrent, EntryCurrent, Behind, Caching, Handlers
<1>3. CASE UNCHANGED vars
  BY <1>3 DEF vars, ExactInv, HandsCurrent, EntryCurrent, Behind, Caching
<1> QED
  BY <1>1, <1>2, <1>3, CaptureExact, EditExact DEF Next

\* As long as no change of the row fell between another handler's read and its
\* store, and no error hid one, the cache says what the row says once everybody
\* who changed it has come to the cache.
THEOREM ExactWithoutOverlap == Spec => []SequentialExact
<1>1. ExactInv => SequentialExact
  BY DEF ExactInv, SequentialExact, EntryCurrent, Behind
<1>2. TypeOK /\ StaleInv /\ ExactInv /\ [Next]_vars => TypeOK' /\ StaleInv' /\ ExactInv'
  BY StepType, StepStale, StepExact
<1> QED
  BY InitType, InitStale, InitExact, <1>1, <1>2, PTL DEF Spec

-----------------------------------------------------------------------------
(***************************************************************************)
(* Without overlaps no edit is lost.                                       *)
(***************************************************************************)
\* A PUT that merges has read a version, and knows its content if it is the row's.
Merging ==
    \A h \in Handlers : proc[h].pc = "merge" =>
        proc[h].held # 0 /\ proc[h].held <= writes
MergesCurrent ==
    \A h \in Handlers : proc[h].pc = "merge" /\ proc[h].held = row =>
        proc[h].existing = content

EditsInv == Merging /\ MergesCurrent /\ EditsKept

LEMMA InitEdits == Init => EditsInv
  BY DEF Init, EditsInv, Merging, MergesCurrent, EditsKept, At

\* A handler that moves on or reads the row, which stays what it is.
LEMMA MergeStep ==
    ASSUME TypeOK, Numbered, Merging, MergesCurrent, NEW h \in Handlers,
           UNCHANGED <<row, content, writes>>,
           \/ \E label \in {"idle", "evict", "read", "fill", "reread", "refresh",
                            "uncache"} : GoTo(h, label)
           \/ \E label \in {"fill", "refresh"} : ReadRow(h, label, Nothing)
           \/ ReadRow(h, "merge", content)
    PROVE  Merging' /\ MergesCurrent'
<1>1. \/ proc'[h].pc # "merge"
      \/ proc'[h].held = row /\ row # 0 /\ proc'[h].existing = content
  BY GoToEffect, ReadRowEffect, NothingType DEF TypeOK
<1>2. \A g \in Handlers \ {h} : proc'[g] = proc[g]
  BY GoToEffect, ReadRowEffect, NothingType DEF TypeOK
<1> QED
  BY <1>1, <1>2 DEF Merging, MergesCurrent, Numbered

\* A handler that changes the row: to no row, or to a new version.
LEMMA ChangeStep ==
    ASSUME TypeOK, Merging, NEW h \in Handlers,
           NEW label \in {"idle", "reread", "uncache"}, GoTo(h, label),
           \/ row' = 0 /\ writes' = writes
           \/ row' = writes + 1 /\ writes' = writes + 1
    PROVE  Merging' /\ MergesCurrent'
<1>1. proc'[h].pc # "merge" /\ \A g \in Handlers \ {h} : proc'[g] = proc[g]
  BY GoToEffect
<1>2. \A g \in Handlers : proc[g].held \in Nat /\ writes \in Nat
  BY CacheAssumption DEF TypeOK, Procs
<1>3. ASSUME NEW g \in Handlers, proc'[g].pc = "merge"
      PROVE  proc'[g].held # 0 /\ proc'[g].held <= writes' /\ proc'[g].held # row'
  <2>1. proc'[g] = proc[g] /\ proc[g].pc = "merge"
    BY <1>1, <1>3
  <2> QED
    BY <1>2, <2>1 DEF Merging
<1> QED
  BY <1>3 DEF Merging, MergesCurrent

LEMMA EditEdits ==
    ASSUME TypeOK, Numbered, EditsInv, NEW h \in Editors, Edit(h)
    PROVE  EditsInv'
<1> h \in Handlers
  BY DEF Handlers
<1> USE DEF EditsInv
<1>1. CASE ReadExisting(h) \/ Refuse(h) \/ ReRead(h) \/ Refresh(h) \/ Uncache(h)
  <2>1. UNCHANGED <<row, content, writes, latest, overlapped>>
    BY <1>1 DEF ReadExisting, Refuse, ReRead, Refresh, Uncache, db, history
  <2>2. \/ \E label \in {"idle", "evict", "read", "fill", "reread", "refresh",
                         "uncache"} : GoTo(h, label)
        \/ \E label \in {"fill", "refresh"} : ReadRow(h, label, Nothing)
        \/ ReadRow(h, "merge", content)
    BY <1>1 DEF ReadExisting, Refuse, ReRead, Refresh, Uncache
  <2> QED
    BY <2>1, <2>2, MergeStep DEF EditsKept
<1>2. CASE DeleteRow(h)
  <2>1. /\ row' = 0 /\ writes' = writes
        /\ \E label \in {"idle", "uncache"} : GoTo(h, label)
    BY <1>2 DEF DeleteRow, Broken
  <2> QED
    BY <2>1, ChangeStep DEF EditsKept
<1>3. ASSUME NEW given \in SUBSET Fields, UpdateRow(h, given) PROVE EditsInv'
  <2>1. \E label \in {"idle", "reread"} : GoTo(h, label)
    BY <1>3 DEF UpdateRow, Broken
  <2>2. CASE row = 0
    <3>1. UNCHANGED <<row, content, writes, latest, overlapped>>
      BY <1>3, <2>2 DEF UpdateRow, db
    <3> QED
      BY <2>1, <3>1, MergeStep DEF EditsKept
  <2>3. CASE row # 0
    <3>1. /\ row' = writes + 1 /\ writes' = writes + 1
          /\ content' = Merge(proc[h].existing, given, writes + 1)
          /\ latest' = [f \in Fields |-> IF f \in given THEN writes + 1 ELSE latest[f]]
          /\ ~overlapped' => ~overlapped /\ proc[h].held = row
          /\ proc[h].pc = "merge"
      BY <1>3, <2>3 DEF UpdateRow
    <3>2. Merging' /\ MergesCurrent'
      BY <2>1, <3>1, ChangeStep
    <3>3. ~overlapped' => content' = latest'
      <4> SUFFICES ASSUME ~overlapped' PROVE content' = latest'
        OBVIOUS
      <4>1. proc[h].existing = latest
        BY <2>3, <3>1 DEF MergesCurrent, EditsKept
      <4> QED
        BY <3>1, <4>1 DEF Merge
    <3> QED
      BY <3>2, <3>3 DEF EditsKept
  <2> QED
    BY <2>2, <2>3
<1> QED
  BY <1>1, <1>2, <1>3 DEF Edit

LEMMA StepEdits == TypeOK /\ StaleInv /\ EditsInv /\ [Next]_vars => EditsInv'
<1> SUFFICES ASSUME TypeOK, StaleInv, EditsInv, [Next]_vars PROVE EditsInv'
  OBVIOUS
<1> Numbered
  BY DEF StaleInv
<1> USE DEF EditsInv
<1>1. ASSUME NEW h \in Captures, Capture(h) PROVE EditsInv'
  <2>1. UNCHANGED <<row, content, writes, latest, overlapped>>
    BY <1>1 DEF Capture, Hit, Miss, Evict, Read, Fill, db, history
  <2>2. CASE UNCHANGED proc
    BY <2>1, <2>2 DEF Merging, MergesCurrent, EditsKept
  <2>3. CASE \/ \E label \in {"idle", "evict", "read", "fill", "reread", "refresh",
                             "uncache"} : GoTo(h, label)
             \/ \E label \in {"fill", "refresh"} : ReadRow(h, label, Nothing)
    BY <2>1, <2>3, MergeStep DEF EditsKept, Handlers
  <2> QED
    BY <1>1, <2>2, <2>3 DEF Capture, Hit, Miss, Evict, Read, Fill
<1>2. CASE Create
  <2>1. \A h \in Handlers : proc[h].pc # "merge"
    BY <1>2, CacheAssumption DEF Create, Merging, TypeOK, Procs
  <2> QED
    BY <1>2, <2>1 DEF Create, Merging, MergesCurrent, EditsKept
<1>3. CASE Tick
  <2>1. /\ UNCHANGED <<row, content, writes, latest, overlapped>>
        /\ \A h \in Handlers : /\ proc'[h].pc = proc[h].pc
                                /\ proc'[h].held = proc[h].held
                                /\ proc'[h].existing = proc[h].existing
    BY <1>3 DEF Tick, db, TypeOK, Procs
  <2> QED
    BY <2>1 DEF Merging, MergesCurrent, EditsKept
<1>4. CASE UNCHANGED vars
  BY <1>4 DEF vars, Merging, MergesCurrent, EditsKept
<1> QED
  BY <1>1, <1>2, <1>3, <1>4, EditEdits DEF Next

\* Updates that do not overlap keep what each other asked for, whatever fields
\* their bodies leave out.
THEOREM EditsAreKept == Spec => []EditsKept
<1>1. TypeOK /\ StaleInv /\ EditsInv /\ [Next]_vars => TypeOK' /\ StaleInv' /\ EditsInv'
  BY StepType, StepStale, StepEdits
<1>2. EditsInv => EditsKept
  BY DEF EditsInv
<1> QED
  BY InitType, InitStale, InitEdits, <1>1, <1>2, PTL DEF Spec
=============================================================================
