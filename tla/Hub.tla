---------------------------------- MODULE Hub ----------------------------------
(***************************************************************************)
(* The websocket hub (internal/api/ws.go): dashboards watch an endpoint,   *)
(* captures broadcast what they accept, and every message is written to    *)
(* every connection by a goroutine of its own.                             *)
(*                                                                         *)
(* The connection (gorilla/websocket) is modelled from how the code uses   *)
(* it: one writer at a time.  A writer that finds the flag of another one  *)
(* when it begins, or its own gone when it ends, panics, and a panic in a  *)
(* goroutine ends the process.                                             *)
(***************************************************************************)
EXTENDS Functions

CONSTANTS
    Endpoints,
    Conns,      \* websocket connections
    EndpointOf, \* the endpoint a connection watches
    Messages,   \* captured requests
    Target      \* the endpoint a message is about

ASSUME HubAssumption ==
    /\ EndpointOf \in [Conns -> Endpoints]
    /\ Target \in [Messages -> Endpoints]

VARIABLES
    clients,    \* the hub's map; an endpoint nobody watches has no entry
    pc,         \* pc[c]: where ServeWS is
    peer,       \* peer[c]: the dashboard reads, "stalled" or is "down"
    closed,     \* connections closed by us
    write,      \* write[c][m]: how far the goroutine is that writes m to c
    flag,       \* connections whose isWriting says that a write is on its way
    crashed,    \* the process is dead
    sent,       \* history: messages broadcast so far
    owed,       \* history: owed[m]: the connections that were served then
    overlapped  \* history: a broadcast began before the writes of an earlier one
                \* about the same endpoint were over

vars == <<clients, pc, peer, closed, write, flag, crashed, sent, owed, overlapped>>

Active == {"started", "writing"}

TypeOK ==
    /\ DOMAIN clients \subseteq Endpoints
    /\ \A e \in DOMAIN clients : clients[e] \in SUBSET Conns /\ clients[e] # {}
    /\ pc \in [Conns -> {"new", "upgraded", "serving", "leaving", "closing", "gone"}]
    /\ peer \in [Conns -> {"up", "stalled", "down"}]
    /\ closed \subseteq Conns /\ flag \subseteq Conns
    /\ write \in [Conns -> [Messages -> Active \cup {"none", "written", "failed"}]]
    /\ crashed \in BOOLEAN
    /\ sent \subseteq Messages
    /\ owed \in [Messages -> SUBSET Conns]
    /\ overlapped \in BOOLEAN

Init ==
    /\ clients = [e \in {} |-> {}]
    /\ pc = [c \in Conns |-> "new"] /\ peer = [c \in Conns |-> "up"]
    /\ closed = {} /\ flag = {}
    /\ write = [c \in Conns |-> [m \in Messages |-> "none"]]
    /\ crashed = FALSE
    /\ sent = {} /\ owed = [m \in Messages |-> {}] /\ overlapped = FALSE

GoTo(c, label) == pc' = [pc EXCEPT ![c] = label]

\* The connections the hub has for e.
Registered(e) == IF e \in DOMAIN clients THEN clients[e] ELSE {}

-----------------------------------------------------------------------------
(***************************************************************************)
(* ServeWS.                                                                *)
(***************************************************************************)
\* GetEndpoint and Upgrade; without the one or the other there is no connection.
Upgrade(c) ==
    /\ pc[c] = "new"
    /\ GoTo(c, "upgraded") \/ GoTo(c, "gone")
    /\ UNCHANGED <<clients, peer, closed, write, flag, sent, owed, overlapped>>

Register(c) ==
    /\ pc[c] = "upgraded"
    /\ clients' = LET e == EndpointOf[c] IN
                  [x \in DOMAIN clients \cup {e} |->
                      IF x = e THEN Registered(e) \cup {c} ELSE clients[x]]
    /\ GoTo(c, "serving")
    /\ UNCHANGED <<peer, closed, write, flag, sent, owed, overlapped>>

\* Mutant of ReadFails: the loop goes on after an error.
NeverFails(c) == FALSE
ReadFails(c) == peer[c] = "down" \/ c \in closed

\* The read loop ends.
ReadError(c) ==
    /\ pc[c] = "serving" /\ ReadFails(c)
    /\ GoTo(c, "leaving")
    /\ UNCHANGED <<clients, peer, closed, write, flag, sent, owed, overlapped>>

\* Mutants of Unregister: the entry goes with its first connection; it stays when
\* it is empty.
UnregisterAll(c) ==
    clients' = Restrict(clients, DOMAIN clients \ {EndpointOf[c]})
UnregisterOne(c) ==
    clients' = [e \in DOMAIN clients |-> clients[e] \ {c}]
Unregister(c) ==
    LET e == EndpointOf[c]
        left == Registered(e) \ {c} IN
    clients' = IF left = {} THEN Restrict(clients, DOMAIN clients \ {e})
                            ELSE [clients EXCEPT ![e] = left]

Leave(c) ==
    /\ pc[c] = "leaving"
    /\ Unregister(c)
    /\ GoTo(c, "closing")
    /\ UNCHANGED <<peer, closed, write, flag, sent, owed, overlapped>>

Close(c) ==
    /\ pc[c] = "closing"
    /\ closed' = closed \cup {c}
    /\ GoTo(c, "gone")
    /\ UNCHANGED <<clients, peer, write, flag, sent, owed, overlapped>>

ServeWS(c) ==
    (Upgrade(c) \/ Register(c) \/ ReadError(c) \/ Leave(c) \/ Close(c)) /\ UNCHANGED crashed

-----------------------------------------------------------------------------
(***************************************************************************)
(* Broadcast and its goroutines.                                           *)
(***************************************************************************)
\* Mutants of Watchers: all connections; one of them.
Everybody(e) == UNION {clients[x] : x \in DOMAIN clients}
OneOf(e) == IF Registered(e) = {} THEN {} ELSE {CHOOSE c \in Registered(e) : TRUE}
Watchers(e) == Registered(e)

Broadcast(m) ==
    /\ m \notin sent /\ sent' = sent \cup {m}
    /\ write' = [c \in Conns |-> IF c \in Watchers(Target[m])
                                 THEN [write[c] EXCEPT ![m] = "started"] ELSE write[c]]
    /\ owed' = [owed EXCEPT ![m] =
                   {c \in Conns : pc[c] = "serving" /\ EndpointOf[c] = Target[m]}]
    /\ overlapped' = \/ overlapped
                     \/ \E c \in Conns, n \in sent :
                           Target[n] = Target[m] /\ write[c][n] \in Active
    /\ UNCHANGED <<clients, pc, peer, closed, flag, crashed>>

Writing(c, m, how) == write' = [write EXCEPT ![c][m] = how]

\* A panic of the library, which nobody recovers.
Panic == crashed' = TRUE /\ UNCHANGED <<write, flag, closed>>

\* WriteMessage begins.  The flag is not synchronised: a writer that could find it
\* may miss it, and both go on.
Begin(c, m) ==
    /\ write[c][m] = "started"
    /\ \/ /\ Writing(c, m, "writing")
          /\ flag' = flag \cup {c}
          /\ UNCHANGED <<closed, crashed>>
       \/ c \in flag /\ Panic
    /\ UNCHANGED <<clients, pc, peer, sent, owed, overlapped>>

\* It ends: the bytes are in a buffer, or with the dashboard.
Written(c, m) ==
    /\ write[c][m] = "writing" /\ c \notin closed
    /\ \/ /\ Writing(c, m, "written")
          /\ flag' = flag \ {c}
          /\ UNCHANGED <<closed, crashed>>
       \/ c \notin flag /\ Panic
    /\ UNCHANGED <<clients, pc, peer, sent, owed, overlapped>>

\* It fails, and the goroutine closes the connection.
Failed(c, m) ==
    /\ write[c][m] = "writing" /\ ReadFails(c)
    /\ \/ /\ Writing(c, m, "failed")
          /\ flag' = flag \ {c} /\ closed' = closed \cup {c}
          /\ UNCHANGED crashed
       \/ c \notin flag /\ Panic
    /\ UNCHANGED <<clients, pc, peer, sent, owed, overlapped>>

\* A goroutine goes on, unless its write waits for a dashboard that does not read.
Goroutine(c, m) ==
    \/ Begin(c, m)
    \/ (peer[c] # "stalled" \/ c \in closed) /\ (Written(c, m) \/ Failed(c, m))

\* The dashboard stops to read, reads again, or goes.
Peer(c) ==
    /\ pc[c] \notin {"new", "gone"} /\ peer[c] # "down"
    /\ \E state \in {"up", "stalled", "down"} \ {peer[c]} :
          peer' = [peer EXCEPT ![c] = state]
    /\ UNCHANGED <<clients, pc, closed, write, flag, crashed, sent, owed, overlapped>>

Next ==
    /\ ~crashed
    /\ \/ \E c \in Conns : ServeWS(c) \/ Peer(c)
       \/ \E m \in Messages : Broadcast(m)
       \/ \E c \in Conns, m \in Messages : Goroutine(c, m) \/ Written(c, m)

Spec == Init /\ [][Next]_vars

\* Goroutines run on, with the process: some handler that can and some writer that
\* can, which is less than the scheduler gives and enough, as each has an end.
Fairness ==
    /\ WF_vars(~crashed /\ \E c \in Conns : ServeWS(c))
    /\ WF_vars(~crashed /\ \E c \in Conns, m \in Messages : Goroutine(c, m))

FairSpec == Spec /\ Fairness

-----------------------------------------------------------------------------
(***************************************************************************)
(* Properties.                                                             *)
(***************************************************************************)
\* The hub has exactly the connections that are served, or about to leave, each
\* with its endpoint, whichever others come and go meanwhile (ws.go:33-51,
\* 100-110).
WatchersExact ==
    \A e \in Endpoints :
        Registered(e) =
            {c \in Conns : pc[c] \in {"serving", "leaving"} /\ EndpointOf[c] = e}

\* The process is only brought down by two broadcasts about one endpoint that
\* overlap; then it may be, for nothing else keeps their writes apart
\* (ws.go:68-76).
DiesByOverlap == crashed => overlapped

\* A message that was broadcast while a dashboard was served and reading is still on
\* its way to it.
Due(c, m) ==
    /\ c \in owed[m] /\ write[c][m] # "written"
    /\ ~crashed /\ c \notin closed /\ peer[c] = "up"

\* Every dashboard that is served and goes on reading gets every message about its
\* endpoint, however slow the others are, unless the process dies (ws.go:68-76).
EveryWatcherServed ==
    \A c \in Conns :
        (\E m \in Messages : Due(c, m)) ~> (\A m \in Messages : ~Due(c, m))

\* A connection whose peer is gone, or that a failed write closed, is taken out of
\* the hub ("will be cleaned up by ServeWS", ws.go:72).
ClosedIsCleanedUp ==
    \A c \in Conns :
        (c \in Registered(EndpointOf[c]) /\ (peer[c] = "down" \/ c \in closed))
            ~> (crashed \/ c \notin Registered(EndpointOf[c]))
=============================================================================
