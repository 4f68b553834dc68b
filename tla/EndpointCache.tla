---------------------------- MODULE EndpointCache ----------------------------
(***************************************************************************)
(* One endpoint, its row and its entry in epCache (internal/api/handler.go *)
(* and the endpoint operations of internal/store).  Captures look the      *)
(* endpoint up in the cache and fill it from the store; PUT reads the row, *)
(* merges what the body gives, writes all of it back, reads it again and   *)
(* caches that; DELETE removes the row and then the entry.  None of them   *)
(* excludes another.  Endpoints do not share anything here, so one is all. *)
(*                                                                         *)
(* A version of the row is the number of the write that made it; the value *)
(* of a field is the number of the write that asked for it.                *)
(***************************************************************************)
EXTENDS Integers

CONSTANTS
    Captures,   \* handlers of POST /hooks/{id}
    Editors,    \* handlers of PUT and DELETE /endpoints/{id}
    Fields,     \* the columns a PUT may give
    TTL,        \* time.Minute, in ticks
    Lag,        \* ticks from reading a row to caching it, at most
    MaxWrites   \* bound: versions of the row

ASSUME CacheAssumption ==
    /\ Captures \cap Editors = {}
    /\ TTL \in Nat \ {0} /\ Lag \in Nat /\ MaxWrites \in Nat

VARIABLES
    row,        \* the version in the store, 0 when there is no row
    content,    \* content[f]: the write the row's f is from
    writes,     \* versions made so far
    cached,     \* the version in epCache, 0 when there is no entry
    cachedFor,  \* ticks since cachedAt, exact up to TTL
    proc,       \* a handler's place and locals: held, the version it has read,
                \* lag, the ticks since, and existing, the content a PUT has read
    gone,       \* history: ticks since a version was replaced, exact up to Horizon
    worst,      \* history: the largest gone[v] of a version v that a capture used
    latest,     \* history: the last write that asked for f
    overlapped, \* history: a PUT wrote over a version it had not read
    disturbed   \* history: a row changed under a handler about to cache the old
                \* one, or a change was followed by an error

db == <<row, content, writes>>
cache == <<cached, cachedFor>>
history == <<gone, worst, latest, overlapped, disturbed>>
vars == <<row, content, writes, cached, cachedFor, proc,
          gone, worst, latest, overlapped, disturbed>>

Handlers == Captures \cup Editors
Versions == 1..MaxWrites
Horizon == TTL + Lag
Capped(n, max) == IF n < max THEN n ELSE max

Nothing == [f \in Fields |-> 0]

\* A handler at label that has just read the version v and the content c.
At(label, v, c) == [pc |-> label, held |-> v, lag |-> 0, existing |-> c]

\* A handler that has a version in hand and will cache it.
Caching(h) == proc[h].pc \in {"fill", "refresh"}

Procs ==
    [pc : {"idle", "evict", "read", "fill", "merge", "reread", "refresh", "uncache"},
     held : 0..MaxWrites, lag : 0..Lag, existing : [Fields -> 0..MaxWrites]]

TypeOK ==
    /\ row \in 0..MaxWrites /\ writes \in 0..MaxWrites
    /\ content \in [Fields -> 0..MaxWrites]
    /\ cached \in 0..MaxWrites /\ cachedFor \in 0..TTL
    /\ proc \in [Handlers -> Procs]
    /\ \A h \in Handlers : Caching(h) => proc[h].held # 0
    /\ gone \in [Versions -> 0..Horizon] /\ worst \in 0..Horizon
    /\ latest \in [Fields -> 0..MaxWrites]
    /\ overlapped \in BOOLEAN /\ disturbed \in BOOLEAN

Init ==
    /\ row = 0 /\ content = Nothing /\ writes = 0
    /\ cached = 0 /\ cachedFor = 0
    /\ proc = [h \in Handlers |-> At("idle", 0, Nothing)]
    /\ gone = [v \in Versions |-> 0] /\ worst = 0
    /\ latest = Nothing
    /\ overlapped = FALSE /\ disturbed = FALSE

GoTo(h, label) == proc' = [proc EXCEPT ![h] = At(label, 0, Nothing)]

\* Mutant of ReadRow: the error of GetEndpoint is ignored.
ReadAnything(h, label, c) == proc' = [proc EXCEPT ![h] = At(label, row, c)]
\* GetEndpoint finds the row.
ReadRow(h, label, c) ==
    /\ row # 0
    /\ proc' = [proc EXCEPT ![h] = At(label, row, c)]

\* epCache.Store and epCache.Delete.
Store(h) == cached' = proc[h].held /\ cachedFor' = 0
Forget == cached' = 0 /\ cachedFor' = 0

-----------------------------------------------------------------------------
(***************************************************************************)
(* CaptureWebhook up to the endpoint it goes on with.                      *)
(***************************************************************************)
Use(v) == worst' = IF gone[v] > worst THEN gone[v] ELSE worst

\* Mutant of Fresh: an entry is used for one tick too long.
FreshTooLong == cached # 0 /\ cachedFor <= TTL
Fresh == cached # 0 /\ cachedFor < TTL

\* Mutant of Aged: using an entry renews it.
Renewed == 0
Aged == cachedFor

\* The entry is there and younger than a minute.
Hit(h) ==
    /\ proc[h].pc = "idle"
    /\ Fresh
    /\ Use(cached)
    /\ cachedFor' = Aged
    /\ UNCHANGED <<db, cached, proc, gone, latest, overlapped, disturbed>>

\* No entry, or an old one, which is deleted before the row is read.
Miss(h) ==
    /\ proc[h].pc = "idle"
    /\ ~Fresh
    /\ GoTo(h, IF cached = 0 THEN "read" ELSE "evict")
    /\ UNCHANGED <<db, cache, history>>

\* epCache.Delete: whatever is there by now.
Evict(h) ==
    /\ proc[h].pc = "evict"
    /\ Forget
    /\ GoTo(h, "read")
    /\ UNCHANGED <<db, history>>

\* GetEndpoint; without an answer the sender gets 404.
Read(h) ==
    /\ proc[h].pc = "read"
    /\ ReadRow(h, "fill", Nothing) \/ GoTo(h, "idle")
    /\ UNCHANGED <<db, cache, history>>

Fill(h) ==
    /\ proc[h].pc = "fill"
    /\ Store(h)
    /\ Use(proc[h].held)
    /\ GoTo(h, "idle")
    /\ UNCHANGED <<db, gone, latest, overlapped, disturbed>>

Capture(h) == Hit(h) \/ Miss(h) \/ Evict(h) \/ Read(h) \/ Fill(h)

-----------------------------------------------------------------------------
(***************************************************************************)
(* CreateEndpoint, UpdateEndpoint and DeleteEndpoint.                      *)
(***************************************************************************)
Create ==
    /\ writes = 0 /\ MaxWrites > 0
    /\ writes' = 1 /\ row' = 1
    /\ content' = [f \in Fields |-> 1] /\ latest' = content'
    /\ UNCHANGED <<cache, proc, gone, worst, overlapped, disturbed>>

\* The row is about to change under a handler that will cache what it was.
Undercut(h) == \E g \in Handlers \ {h} : Caching(g)

\* The statement is done and its answer is an error: the handler leaves.
Broken(h, changed, next) ==
    \/ GoTo(h, next) /\ disturbed' = (disturbed \/ (changed /\ Undercut(h)))
    \/ GoTo(h, "idle") /\ disturbed' = (disturbed \/ changed)

ReadExisting(h) ==
    /\ proc[h].pc = "idle"
    /\ ReadRow(h, "merge", content)
    /\ UNCHANGED <<db, cache, history>>

\* A body that cannot be decoded, or one that empties the name or the URL; or
\* the store does not execute the update.
Refuse(h) ==
    /\ proc[h].pc = "merge"
    /\ GoTo(h, "idle")
    /\ UNCHANGED <<db, cache, history>>

\* Mutant of Merge: an omitted field is taken for an empty one.
MergeAll(old, given, n) == [f \in Fields |-> n]
Merge(old, given, n) == [f \in Fields |-> IF f \in given THEN n ELSE old[f]]

\* All columns are written, the ones the body does not give as they were read.
\* The update of a row that is gone updates none.
UpdateRow(h, given) ==
    /\ proc[h].pc = "merge"
    /\ \/ /\ row = 0
          /\ Broken(h, FALSE, "reread")
          /\ UNCHANGED <<db, latest, overlapped>>
       \/ /\ row # 0 /\ writes < MaxWrites
          /\ Broken(h, TRUE, "reread")
          /\ writes' = writes + 1
          /\ row' = writes + 1
          /\ content' = Merge(proc[h].existing, given, writes + 1)
          /\ latest' = [f \in Fields |-> IF f \in given THEN writes + 1 ELSE latest[f]]
          /\ overlapped' = (overlapped \/ proc[h].held # row)
    /\ UNCHANGED <<cache, gone, worst>>

\* The GetEndpoint of Store.UpdateEndpoint: it may see a later update, and an
\* error leaves the cache as it was.
ReRead(h) ==
    /\ proc[h].pc = "reread"
    /\ \/ ReadRow(h, "refresh", Nothing) /\ UNCHANGED disturbed
       \/ GoTo(h, "idle") /\ disturbed' = (disturbed \/ row # 0)
    /\ UNCHANGED <<db, cache, gone, worst, latest, overlapped>>

\* Mutant of Refresh: the update does not touch the cache.
RefreshNothing(h) ==
    /\ proc[h].pc = "refresh"
    /\ GoTo(h, "idle")
    /\ UNCHANGED <<db, cache, history>>
Refresh(h) ==
    /\ proc[h].pc = "refresh"
    /\ Store(h)
    /\ GoTo(h, "idle")
    /\ UNCHANGED <<db, history>>

DeleteRow(h) ==
    /\ proc[h].pc = "idle"
    /\ Broken(h, row # 0, "uncache")
    /\ row' = 0
    /\ UNCHANGED <<content, writes, cache, gone, worst, latest,
                   overlapped>>

Uncache(h) ==
    /\ proc[h].pc = "uncache"
    /\ Forget
    /\ GoTo(h, "idle")
    /\ UNCHANGED <<db, history>>

Edit(h) ==
    \/ ReadExisting(h) \/ Refuse(h) \/ ReRead(h) \/ Refresh(h)
    \/ DeleteRow(h) \/ Uncache(h)
    \/ \E given \in SUBSET Fields : UpdateRow(h, given)

\* An assumption about handlers that no code enforces: from GetEndpoint to
\* epCache.Store they take Lag ticks.
Prompt(h) == Caching(h) => proc[h].lag < Lag

Tick ==
    /\ \A h \in Handlers : Prompt(h)
    /\ proc' = [h \in Handlers |->
                   IF Caching(h) THEN [proc[h] EXCEPT !.lag = @ + 1] ELSE proc[h]]
    /\ cachedFor' = IF cached = 0 THEN 0 ELSE Capped(cachedFor + 1, TTL)
    /\ gone' = [v \in Versions |-> IF v <= writes /\ v # row
                                   THEN Capped(gone[v] + 1, Horizon) ELSE gone[v]]
    /\ UNCHANGED <<db, cached, worst, latest, overlapped, disturbed>>

Next ==
    \/ \E h \in Captures : Capture(h)
    \/ \E h \in Editors : Edit(h)
    \/ Create
    \/ Tick

Spec == Init /\ [][Next]_vars

\* Handlers run on once they have a request, and time passes.
Fairness ==
    /\ \A h \in Captures : WF_vars(Evict(h) \/ Read(h) \/ Fill(h))
    /\ \A h \in Editors : WF_vars(proc[h].pc # "idle" /\ Edit(h))
    /\ WF_vars(Tick)

FairSpec == Spec /\ Fairness

-----------------------------------------------------------------------------
(***************************************************************************)
(* Properties.                                                             *)
(***************************************************************************)
\* No capture uses an endpoint that was replaced or deleted more than a minute
\* and a handler's lag ago, whatever the order in which handlers read the row and
\* stored the entry (handler.go:225-246, 171-174, 191).
StaleBound == worst < TTL + Lag

\* The cache is wrong only through an overlap or an error: else, when no PUT or
\* DELETE is between its write and its cache operation, the entry is what the row
\* is, and a deleted endpoint has none (handler.go:164-174, 186-191).
SequentialExact ==
    ~disturbed => \/ cached \in {0, row}
                  \/ \E h \in Editors : proc[h].pc \in {"reread", "refresh", "uncache"}

\* An update that asked for a field keeps it until another update asks for it,
\* unless two updates overlapped, each writing all columns (handler.go:131-164).
EditsKept == ~overlapped /\ row # 0 => content = latest

\* Once deleted an endpoint is refused for good at last, however many captures
\* keep using its entry (handler.go:228-232).
DeletedIsRefused == (writes > 0 /\ row = 0) ~> [](~Fresh)
=============================================================================
