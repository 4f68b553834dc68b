------------------------------- MODULE HubProofs -------------------------------
(***************************************************************************)
(* For any number of connections, endpoints and messages: the hub's map is *)
(* exact, and only overlapping broadcasts about one endpoint can bring the *)
(* process down.                                                           *)
(***************************************************************************)
EXTENDS Hub, TLAPS

-----------------------------------------------------------------------------
(***************************************************************************)
(* The map.                                                                *)
(***************************************************************************)
\* What a registration makes of it.
LEMMA RegisterEffect ==
    ASSUME TypeOK, NEW c \in Conns, Register(c)
    PROVE  /\ DOMAIN clients' \subseteq Endpoints
           /\ \A e \in DOMAIN clients' : clients'[e] \in SUBSET Conns /\ clients'[e] # {}
           /\ \A e \in Endpoints :
                 Registered(e)' = IF e = EndpointOf[c] THEN Registered(e) \cup {c}
                                  ELSE Registered(e)
<1>1. EndpointOf[c] \in Endpoints
  BY HubAssumption
<1> QED
  BY <1>1 DEF TypeOK, Register, Registered

\* What a departure makes of it: an entry that would be empty goes.
LEMMA UnregisterEffect ==
    ASSUME TypeOK, NEW c \in Conns, Unregister(c)
    PROVE  /\ DOMAIN clients' \subseteq Endpoints
           /\ \A e \in DOMAIN clients' : clients'[e] \in SUBSET Conns /\ clients'[e] # {}
           /\ \A e \in Endpoints :
                 Registered(e)' = IF e = EndpointOf[c] THEN Registered(e) \ {c}
                                  ELSE Registered(e)
<1> DEFINE e == EndpointOf[c]
           left == Registered(e) \ {c}
<1>1. CASE left = {}
  <2>1. clients' = [x \in DOMAIN clients \ {e} |-> clients[x]]
    BY <1>1 DEF Unregister, Restrict
  <2> QED
    BY <1>1, <2>1 DEF TypeOK, Registered
<1>2. CASE left # {}
  <2>1. clients' = [clients EXCEPT ![e] = left] /\ e \in DOMAIN clients
    BY <1>2 DEF Unregister, Registered
  <2>2. DOMAIN clients' = DOMAIN clients
    BY <2>1
  <2>3. /\ clients'[e] = left
        /\ \A x \in DOMAIN clients \ {e} : clients'[x] = clients[x]
    BY <2>1
  <2> QED
    BY <1>2, <2>1, <2>2, <2>3 DEF TypeOK, Registered
<1> QED
  BY <1>1, <1>2

-----------------------------------------------------------------------------
(***************************************************************************)
(* Types.                                                                  *)
(***************************************************************************)
LEMMA InitEffect ==
    ASSUME Init
    PROVE  TypeOK /\ WatchersExact
<1>1. DOMAIN clients = {}
  BY DEF Init
<1>2. /\ pc \in [Conns -> {"new", "upgraded", "serving", "leaving", "closing", "gone"}]
      /\ \A c \in Conns : pc[c] = "new"
  BY DEF Init
<1>3. write \in [Conns -> [Messages -> Active \cup {"none", "written", "failed"}]]
  BY DEF Init, Active
<1>4. TypeOK
  BY <1>1, <1>2, <1>3 DEF Init, TypeOK
<1>5. WatchersExact
  BY <1>1, <1>2 DEF WatchersExact, Registered
<1> QED
  BY <1>4, <1>5

LEMMA ServeType == ASSUME TypeOK, NEW c \in Conns, ServeWS(c) PROVE TypeOK'
<1> USE DEF ServeWS
<1>1. CASE Upgrade(c)
  BY <1>1 DEF TypeOK, Upgrade, GoTo
<1>2. CASE Register(c)
  BY <1>2, RegisterEffect DEF TypeOK, Register, GoTo
<1>3. CASE ReadError(c)
  BY <1>3 DEF TypeOK, ReadError, GoTo
<1>4. CASE Leave(c)
  <2>1. Unregister(c)
    BY <1>4 DEF Leave
  <2> QED
    BY <1>4, <2>1, UnregisterEffect DEF TypeOK, Leave, GoTo
<1>5. CASE Close(c)
  BY <1>5 DEF TypeOK, Close, GoTo
<1> QED
  BY <1>1, <1>2, <1>3, <1>4, <1>5

LEMMA BroadcastType == ASSUME TypeOK, NEW m \in Messages, Broadcast(m) PROVE TypeOK'
<1>1. write' \in [Conns -> [Messages -> Active \cup {"none", "written", "failed"}]]
  <2> SUFFICES ASSUME NEW c \in Conns
               PROVE  write'[c] \in [Messages -> Active \cup {"none", "written", "failed"}]
    BY DEF Broadcast
  <2>1. write[c] \in [Messages -> Active \cup {"none", "written", "failed"}]
    BY DEF TypeOK
  <2>2. write'[c] = IF c \in Watchers(Target[m])
                    THEN [write[c] EXCEPT ![m] = "started"] ELSE write[c]
    BY DEF Broadcast
  <2> QED
    BY <2>1, <2>2 DEF Active
<1>2. owed' \in [Messages -> SUBSET Conns]
  BY DEF TypeOK, Broadcast
<1>3. overlapped' \in BOOLEAN
  BY DEF TypeOK, Broadcast
<1> QED
  BY <1>1, <1>2, <1>3 DEF TypeOK, Broadcast

LEMMA WritingEffect ==
    ASSUME TypeOK, NEW c \in Conns, NEW m \in Messages,
           NEW how \in {"writing", "written", "failed"}, Writing(c, m, how)
    PROVE  /\ write' \in [Conns -> [Messages -> Active \cup {"none", "written", "failed"}]]
           /\ write'[c][m] = how
           /\ \A d \in Conns, n \in Messages :
                 d # c \/ n # m => write'[d][n] = write[d][n]
<1>1. write[c] \in [Messages -> Active \cup {"none", "written", "failed"}]
  BY DEF TypeOK
<1>2. write' = [write EXCEPT ![c] = [write[c] EXCEPT ![m] = how]]
  BY DEF Writing
<1>3. [write[c] EXCEPT ![m] = how] \in [Messages -> Active \cup {"none", "written", "failed"}]
  BY <1>1 DEF Active
<1> QED
  BY <1>1, <1>2, <1>3 DEF TypeOK

LEMMA GoroutineType ==
    ASSUME TypeOK, NEW c \in Conns, NEW m \in Messages,
           Begin(c, m) \/ Written(c, m) \/ Failed(c, m)
    PROVE  TypeOK'
<1>1. CASE Begin(c, m)
  BY <1>1, WritingEffect DEF TypeOK, Begin, Panic
<1>2. CASE Written(c, m)
  BY <1>2, WritingEffect DEF TypeOK, Written, Panic
<1>3. CASE Failed(c, m)
  BY <1>3, WritingEffect DEF TypeOK, Failed, Panic
<1> QED
  BY <1>1, <1>2, <1>3

LEMMA NextType == TypeOK /\ [Next]_vars => TypeOK'
<1>1. ASSUME TypeOK, UNCHANGED vars PROVE TypeOK'
  BY <1>1 DEF TypeOK, vars
<1>2. ASSUME TypeOK, NEW c \in Conns, Peer(c) PROVE TypeOK'
  BY <1>2 DEF TypeOK, Peer
<1> QED
  BY <1>1, <1>2, ServeType, BroadcastType, GoroutineType DEF Next, Goroutine

\* Every reachable state has its types, and the hub keeps no entry without a
\* connection (ws.go:48-50).
THEOREM TypeCorrect == Spec => []TypeOK
<1>1. Init => TypeOK
  BY InitEffect
<1> QED
  BY <1>1, NextType, PTL DEF Spec

-----------------------------------------------------------------------------
(***************************************************************************)
(* The hub is exact.                                                       *)
(***************************************************************************)
WInv == TypeOK /\ WatchersExact

LEMMA NextExact == WInv /\ [Next]_vars => WInv'
<1> SUFFICES ASSUME WInv, [Next]_vars PROVE WatchersExact'
  BY NextType DEF WInv
<1> USE DEF WInv
<1>1. ASSUME NEW c \in Conns, Register(c) PROVE WatchersExact'
  <2>1. pc[c] = "upgraded" /\ pc' = [pc EXCEPT ![c] = "serving"]
    BY <1>1 DEF Register, GoTo
  <2> QED
    BY <1>1, <2>1, RegisterEffect DEF TypeOK, WatchersExact
<1>2. ASSUME NEW c \in Conns, Leave(c) PROVE WatchersExact'
  <2>1. pc[c] = "leaving" /\ pc' = [pc EXCEPT ![c] = "closing"] /\ Unregister(c)
    BY <1>2 DEF Leave, GoTo
  <2> QED
    BY <2>1, UnregisterEffect DEF TypeOK, WatchersExact
<1>3. ASSUME NEW c \in Conns, Upgrade(c) \/ ReadError(c) \/ Close(c)
      PROVE  WatchersExact'
  <2>1. UNCHANGED clients
    BY <1>3 DEF Upgrade, ReadError, Close
  <2>2. \A d \in Conns : pc'[d] \in {"serving", "leaving"}
                           <=> pc[d] \in {"serving", "leaving"}
    BY <1>3 DEF TypeOK, Upgrade, ReadError, Close, GoTo
  <2> QED
    BY <2>1, <2>2 DEF WatchersExact, Registered
<1>4. CASE UNCHANGED <<clients, pc>>
  BY <1>4 DEF WatchersExact, Registered
<1>5. \/ \E c \in Conns : \/ Register(c) \/ Leave(c)
                          \/ Upgrade(c) \/ ReadError(c) \/ Close(c)
      \/ UNCHANGED <<clients, pc>>
  BY DEF Next, vars, ServeWS, Peer, Broadcast, Goroutine, Begin, Written, Failed
<1> QED
  BY <1>1, <1>2, <1>3, <1>4, <1>5

\* The hub has exactly the connections that are served or about to leave, whichever
\* others come and go meanwhile (ws.go:33-51, 100-110).
THEOREM HubIsExact == Spec => []WatchersExact
<1>1. Init => WInv
  BY InitEffect DEF WInv
<1>2. WInv => WatchersExact
  BY DEF WInv
<1> QED
  BY <1>1, <1>2, NextExact, PTL DEF Spec

-----------------------------------------------------------------------------
(***************************************************************************)
(* Overlaps.  Writes that are on their way to one connection are about its *)
(* endpoint, and there is one at a time unless broadcasts overlapped.      *)
(***************************************************************************)
OwnTarget ==
    \A c \in Conns, m \in Messages :
        write[c][m] # "none" => m \in sent /\ Target[m] = EndpointOf[c]

OneWriter ==
    overlapped \/ \A c \in Conns, m, n \in Messages :
        write[c][m] \in Active /\ write[c][n] \in Active => m = n

\* The flag of a connection says whether it is being written to, until writes
\* overlap.
FlagExact ==
    overlapped \/ \A c \in Conns :
        c \in flag <=> \E n \in Messages : write[c][n] = "writing"

DInv ==
    TypeOK /\ WatchersExact /\ OwnTarget /\ OneWriter /\ FlagExact /\ DiesByOverlap

LEMMA BroadcastDies ==
    ASSUME DInv, NEW m \in Messages, Broadcast(m)
    PROVE  OwnTarget' /\ OneWriter' /\ FlagExact' /\ DiesByOverlap'
<1> USE DEF DInv
<1>1. \A c \in Conns : c \in Watchers(Target[m]) => EndpointOf[c] = Target[m]
  BY HubAssumption DEF WatchersExact, Watchers
<1>2. /\ \A c \in Conns, n \in Messages : n # m => write'[c][n] = write[c][n]
      /\ \A c \in Conns : \/ write'[c][m] = write[c][m]
                          \/ write'[c][m] = "started" /\ c \in Watchers(Target[m])
  BY DEF TypeOK, Broadcast
<1>3. sent' = sent \cup {m} /\ m \notin sent
  BY DEF Broadcast
<1>4. OwnTarget'
  BY <1>1, <1>2, <1>3 DEF OwnTarget
<1>5. OneWriter'
  <2> SUFFICES ASSUME ~overlapped', NEW c \in Conns, NEW k \in Messages, NEW n \in Messages,
                      write'[c][k] \in Active, write'[c][n] \in Active, k # n
               PROVE  FALSE
    BY DEF OneWriter
  <2>1. /\ ~overlapped
        /\ \A d \in Conns, i \in sent : Target[i] = Target[m] => write[d][i] \notin Active
    BY DEF Broadcast
  <2>2. CASE k # m /\ n # m
    BY <1>2, <2>1, <2>2 DEF OneWriter
  <2>3. \A i \in Messages : i # m /\ write'[c][i] \in Active =>
                               write'[c][m] \notin Active
    <3> SUFFICES ASSUME NEW i \in Messages, i # m, write'[c][i] \in Active,
                        write'[c][m] \in Active
                 PROVE  FALSE
      OBVIOUS
    <3>1. write[c][i] \in Active /\ i \in sent /\ Target[i] = EndpointOf[c]
      BY <1>2 DEF OwnTarget, Active
    <3>2. EndpointOf[c] = Target[m]
      BY <1>4 DEF OwnTarget, Active
    <3> QED
      BY <2>1, <3>1, <3>2
  <2> QED
    BY <2>2, <2>3
<1>6. DiesByOverlap'
  BY DEF Broadcast, DiesByOverlap
<1>7. FlagExact'
  <2> SUFFICES ASSUME ~overlapped', NEW c \in Conns
               PROVE  c \in flag' <=> \E n \in Messages : write'[c][n] = "writing"
    BY DEF FlagExact
  <2>1. ~overlapped /\ flag' = flag
    BY DEF Broadcast
  <2>2. write[c][m] # "writing"
    BY DEF OwnTarget, Broadcast
  <2>3. \A n \in Messages : write'[c][n] = "writing" <=> write[c][n] = "writing"
    BY <1>2, <2>2
  <2> QED
    BY <2>1, <2>3 DEF FlagExact
<1> QED
  BY <1>4, <1>5, <1>6, <1>7

LEMMA GoroutineDies ==
    ASSUME DInv, NEW c \in Conns, NEW m \in Messages,
           Begin(c, m) \/ Written(c, m) \/ Failed(c, m)
    PROVE  OwnTarget' /\ OneWriter' /\ FlagExact' /\ DiesByOverlap'
<1> USE DEF DInv
<1>1. UNCHANGED <<sent, overlapped>>
  BY DEF Begin, Written, Failed
<1>2. \/ UNCHANGED write
      \/ /\ \A d \in Conns, n \in Messages :
               d # c \/ n # m => write'[d][n] = write[d][n]
         /\ write[c][m] \in Active
  BY WritingEffect DEF Begin, Written, Failed, Panic, Active
<1>3. OwnTarget'
  BY <1>1, <1>2 DEF OwnTarget, Active
<1>4. OneWriter'
  BY <1>1, <1>2 DEF OneWriter
<1>5. DiesByOverlap'
  <2>1. CASE UNCHANGED crashed
    BY <1>1, <2>1 DEF DiesByOverlap
  <2>2. CASE ~UNCHANGED crashed
    <3>1. \/ write[c][m] = "started" /\ c \in flag
          \/ write[c][m] = "writing" /\ c \notin flag
      BY <2>2 DEF Begin, Written, Failed, Panic
    <3> QED
      BY <1>1, <3>1 DEF OneWriter, FlagExact, DiesByOverlap, Active
  <2> QED
    BY <2>1, <2>2
<1>6. FlagExact'
  <2> SUFFICES ASSUME ~overlapped PROVE FlagExact'
    BY <1>1 DEF FlagExact
  <2>1. \A d \in Conns : d # c =>
           /\ d \in flag' <=> d \in flag
           /\ \A n \in Messages : write'[d][n] = write[d][n]
    BY <1>2 DEF Begin, Written, Failed, Panic
  <2>2. \A n \in Messages : n # m => write[c][n] # "writing"
    BY DEF OneWriter, Active, Begin, Written, Failed
  <2>3. c \in flag' <=> \E n \in Messages : write'[c][n] = "writing"
    <3>1. CASE UNCHANGED <<write, flag>>
      BY <3>1 DEF FlagExact
    <3>2. CASE Writing(c, m, "writing") /\ c \in flag'
      BY <3>2, WritingEffect
    <3>3. ASSUME NEW how \in {"written", "failed"}, Writing(c, m, how), c \notin flag'
          PROVE  c \in flag' <=> \E n \in Messages : write'[c][n] = "writing"
      BY <2>2, <3>3, WritingEffect
    <3> QED
      BY <3>1, <3>2, <3>3 DEF Begin, Written, Failed, Panic
  <2> QED
    BY <2>1, <2>3 DEF FlagExact
<1> QED
  BY <1>3, <1>4, <1>5, <1>6

LEMMA NextDies == DInv /\ [Next]_vars => DInv'
<1> SUFFICES ASSUME DInv, [Next]_vars PROVE DInv'
  OBVIOUS
<1>1. TypeOK' /\ WatchersExact'
  BY NextType, NextExact DEF DInv, WInv
<1>2. CASE UNCHANGED <<write, flag, sent, overlapped, crashed>>
  BY <1>1, <1>2 DEF DInv, OwnTarget, OneWriter, FlagExact, DiesByOverlap
<1>3. \/ \E m \in Messages : Broadcast(m)
      \/ \E c \in Conns, m \in Messages : Begin(c, m) \/ Written(c, m) \/ Failed(c, m)
      \/ UNCHANGED <<write, flag, sent, overlapped, crashed>>
  BY DEF Next, vars, ServeWS, Upgrade, Register, ReadError, Leave, Close, Peer, Goroutine
<1> QED
  BY <1>1, <1>2, <1>3, BroadcastDies, GoroutineDies DEF DInv

LEMMA InitDies == Init => DInv
<1> SUFFICES ASSUME Init PROVE DInv
  OBVIOUS
<1>1. TypeOK /\ WatchersExact
  BY InitEffect
<1>2. OwnTarget /\ OneWriter /\ FlagExact /\ DiesByOverlap
  BY DEF Init, OwnTarget, OneWriter, FlagExact, DiesByOverlap, Active
<1> QED
  BY <1>1, <1>2 DEF DInv

\* Nothing but two broadcasts about one endpoint, the later begun before the writes
\* of the earlier were over, can bring the process down through the hub
\* (ws.go:68-76).
THEOREM DiesOnlyByOverlap == Spec => []DiesByOverlap
<1>1. DInv => DiesByOverlap
  BY DEF DInv
<1> QED
  BY <1>1, InitDies, NextDies, PTL DEF Spec

-----------------------------------------------------------------------------
(***************************************************************************)
(* Nobody is left out.                                                     *)
(***************************************************************************)
\* Who was served when a message was broadcast has a writer for it, whatever happens
\* to the map meanwhile, no writer has the wrong endpoint, and one that failed has
\* closed its connection.
NobodyLeftOut ==
    \A c \in Conns, m \in Messages :
        /\ c \in owed[m] => write[c][m] # "none"
        /\ write[c][m] # "none" => Target[m] = EndpointOf[c]
        /\ write[c][m] = "failed" => c \in closed

LEMMA BroadcastReaches ==
    ASSUME DInv, NobodyLeftOut, NEW m \in Messages, Broadcast(m)
    PROVE  NobodyLeftOut'
<1> USE DEF DInv
<1>1. OwnTarget' /\ closed' = closed
  BY BroadcastDies DEF Broadcast
<1>2. \A n \in Messages : n # m => owed'[n] = owed[n]
  BY DEF TypeOK, Broadcast
<1>3. \A c \in owed'[m] : c \in Watchers(Target[m])
  <2>1. owed'[m] = {c \in Conns : pc[c] = "serving" /\ EndpointOf[c] = Target[m]}
    BY DEF TypeOK, Broadcast
  <2>2. Target[m] \in Endpoints
    BY HubAssumption
  <2> QED
    BY <2>1, <2>2 DEF WatchersExact, Watchers
<1>4. \A c \in Conns, n \in Messages :
         write'[c][n] = IF n = m /\ c \in Watchers(Target[m]) THEN "started"
                                                              ELSE write[c][n]
  BY DEF TypeOK, Broadcast
<1> SUFFICES ASSUME NEW c \in Conns, NEW n \in Messages
             PROVE  /\ c \in owed'[n] => write'[c][n] # "none"
                    /\ write'[c][n] # "none" => Target[n] = EndpointOf[c]
                    /\ write'[c][n] = "failed" => c \in closed'
  BY DEF NobodyLeftOut
<1>5. c \in owed'[n] => write'[c][n] # "none"
  BY <1>2, <1>3, <1>4 DEF NobodyLeftOut
<1>6. write'[c][n] # "none" => Target[n] = EndpointOf[c]
  BY <1>1 DEF OwnTarget
<1>7. write'[c][n] = "failed" => c \in closed'
  BY <1>1, <1>4 DEF NobodyLeftOut
<1> QED
  BY <1>5, <1>6, <1>7

LEMMA GoroutineServes ==
    ASSUME TypeOK, NobodyLeftOut, NEW c \in Conns, NEW m \in Messages,
           Begin(c, m) \/ Written(c, m) \/ Failed(c, m)
    PROVE  NobodyLeftOut'
<1>1. owed' = owed /\ closed \subseteq closed'
  BY DEF Begin, Written, Failed, Panic
<1>2. \/ UNCHANGED write
      \/ /\ \A d \in Conns, n \in Messages :
               d # c \/ n # m => write'[d][n] = write[d][n]
         /\ write[c][m] # "none" /\ write'[c][m] # "none"
         /\ write'[c][m] = "failed" => c \in closed'
  BY WritingEffect DEF Begin, Written, Failed, Panic
<1> QED
  BY <1>1, <1>2 DEF NobodyLeftOut

LEMMA NextServes == DInv /\ NobodyLeftOut /\ [Next]_vars => NobodyLeftOut'
<1> SUFFICES ASSUME DInv, NobodyLeftOut, [Next]_vars PROVE NobodyLeftOut'
  OBVIOUS
<1>1. \/ \E m \in Messages : Broadcast(m)
      \/ \E c \in Conns, m \in Messages : Begin(c, m) \/ Written(c, m) \/ Failed(c, m)
      \/ UNCHANGED <<write, owed>> /\ closed \subseteq closed'
  BY DEF Next, vars, ServeWS, Upgrade, Register, ReadError, Leave, Close, Peer, Goroutine
<1>2. CASE UNCHANGED <<write, owed>> /\ closed \subseteq closed'
  BY <1>2 DEF NobodyLeftOut
<1> QED
  BY <1>1, <1>2, BroadcastReaches, GoroutineServes DEF DInv

\* The safety half of EveryWatcherServed: a dashboard that was served when a message
\* about its endpoint was broadcast has it, or a goroutine that is still to write it,
\* or a closed connection; and none has another endpoint's message (ws.go:54-77).
THEOREM NobodyIsLeftOut == Spec => []NobodyLeftOut
<1>1. Init => DInv /\ NobodyLeftOut
  BY InitDies DEF Init, NobodyLeftOut
<1> QED
  BY <1>1, NextDies, NextServes, PTL DEF Spec
=============================================================================
