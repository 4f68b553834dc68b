-------------------------- MODULE TransformerProofs --------------------------
(***************************************************************************)
(* For any number of calls and machines, and any scripts: what a call      *)
(* returns is made of its own payload by its own script but for what       *)
(* scripts before it left in the machine, a quick call interrupts nobody,  *)
(* a late interrupt costs one script at most, and none runs unguarded.     *)
(***************************************************************************)
EXTENDS Transformer, TLAPS

-----------------------------------------------------------------------------
(***************************************************************************)
(* Types.                                                                  *)
(***************************************************************************)
LEMMA ReachType ==
    ASSUME TypeOK, NEW t \in Calls, vm[t] \in VMs
    PROVE  Caller(t) \in Calls /\ Reach(t) \subseteq Calls \cup {None}
<1>1. Caller(t) \in Calls
  BY DEF TypeOK, Caller
<1>2. payload[vm[t]] \in Calls \cup {None} /\ kept[vm[t]] \subseteq Calls \cup {None}
  BY DEF TypeOK
<1> QED
  BY <1>1, <1>2 DEF Reach

LEMMA LeaveType ==
    ASSUME TypeOK, NEW t \in Calls, vm[t] \in VMs, Leave(t)
    PROVE  /\ transform' \in [VMs -> Calls \cup {None}]
           /\ kept' \in [VMs -> SUBSET (Calls \cup {None})]
<1>1. transform' \in [VMs -> Calls \cup {None}]
  BY DEF TypeOK, Leave, Assign
<1>2. CASE kept' = kept
  BY <1>1, <1>2 DEF TypeOK
<1>3. CASE kept' = [kept EXCEPT ![vm[t]] = kept[vm[t]] \cup Reach(t)]
  <2>1. kept[vm[t]] \cup Reach(t) \in SUBSET (Calls \cup {None})
    BY ReachType DEF TypeOK
  <2> QED
    BY <1>1, <1>3, <2>1 DEF TypeOK
<1> QED
  BY <1>2, <1>3 DEF Leave, Keep

LEMMA CallType == ASSUME TypeOK, NEW t \in Calls, Transform(t) PROVE TypeOK'
<1> USE TransformerAssumption
<1>1. CASE Get(t)
  <2>1. CASE t \in Broken
    BY <1>1, <2>1 DEF TypeOK, Get, GoTo, Busy, machine
  <2>2. CASE t \notin Broken
    BY <1>1, <2>2 DEF TypeOK, Get, GoTo, Busy, machine
  <2> QED
    BY <2>1, <2>2
<1>2. CASE Start(t)
  <2>1. t \in Busy /\ vm[t] \in VMs
    BY <1>2 DEF TypeOK, Start, Busy
  <2>2. Busy' = Busy
    BY <1>2 DEF TypeOK, Start, GoTo, Busy
  <2> QED
    BY <1>2, <2>1, <2>2 DEF TypeOK, Start, GoTo, AfterFunc
<1>3. CASE Return(t)
  <2>1. t \in Busy /\ vm[t] \in VMs
    BY <1>3 DEF TypeOK, Return, Busy
  <2>2. Busy' = Busy
    BY <1>3 DEF TypeOK, Return, GoTo, Busy
  <2>3. Caller(t) \in Calls /\ Reach(t) \subseteq Calls \cup {None}
    BY <2>1, ReachType
  <2>4. out' \in [Calls -> Results \cup {None}]
    <3>1. \A u \in Reach(t) : [payload |-> u, by |-> Caller(t)] \in Results
      BY <2>3 DEF Results
    <3> QED
      BY <1>3, <3>1 DEF TypeOK, Return
  <2>5. transform' \in [VMs -> Calls \cup {None}] /\ kept' \in [VMs -> SUBSET (Calls \cup {None})]
    BY <1>3, <2>1, LeaveType DEF Return
  <2> QED
    BY <1>3, <2>2, <2>4, <2>5 DEF TypeOK, Return, GoTo
<1>4. CASE Abort(t)
  <2>1. t \in Busy /\ vm[t] \in VMs
    BY <1>4 DEF TypeOK, Abort, Busy
  <2>2. Busy' = Busy
    BY <1>4 DEF TypeOK, Abort, GoTo, Busy
  <2>3. transform' \in [VMs -> Calls \cup {None}] /\ kept' \in [VMs -> SUBSET (Calls \cup {None})]
    BY <1>4, <2>1, LeaveType DEF Abort
  <2> QED
    BY <1>4, <2>1, <2>2, <2>3 DEF TypeOK, Abort, GoTo
<1>5. CASE StopTimer(t)
  <2>1. Busy' = Busy
    BY <1>5 DEF TypeOK, StopTimer, GoTo, Busy
  <2>2. timer' \in [Calls -> {"off", "armed", "fired", "over"}]
    BY <1>5 DEF TypeOK, StopTimer, Stop
  <2> QED
    BY <1>5, <2>1, <2>2 DEF TypeOK, StopTimer, GoTo, machine
<1>6. CASE Put(t)
  BY <1>6 DEF TypeOK, Put, GoTo, Busy, Cleared
<1> QED
  BY <1>1, <1>2, <1>3, <1>4, <1>5, <1>6 DEF Transform

LEMMA TimerType == ASSUME TypeOK, NEW t \in Calls, Timer(t) PROVE TypeOK'
<1>1. CASE Expire(t)
  BY <1>1 DEF TypeOK, Expire, Busy, machine
<1>2. CASE Interrupt(t)
  BY <1>2 DEF TypeOK, Interrupt, Busy, Afterwards
<1> QED
  BY <1>1, <1>2 DEF Timer

LEMMA CollectType == ASSUME TypeOK, NEW v \in VMs, Collect(v) PROVE TypeOK'
<1>1. Busy' = Busy
  BY DEF Collect, Busy
<1>2. \A t \in Busy : vm'[t] # None
  BY DEF TypeOK, Collect, Available, Busy
<1> QED
  BY <1>1, <1>2 DEF TypeOK, Collect

LEMMA NextType == TypeOK /\ [Next]_vars => TypeOK'
<1>1. ASSUME TypeOK, UNCHANGED vars PROVE TypeOK'
  BY <1>1 DEF TypeOK, vars, machine, Busy
<1> QED
  BY <1>1, CallType, TimerType, CollectType DEF Next

\* Every reachable state has its types, and a call that works has a machine.
THEOREM TypeCorrect == Spec => []TypeOK
<1>1. Init => TypeOK
  BY TransformerAssumption DEF Init, TypeOK, Busy
<1> QED
  BY <1>1, NextType, PTL DEF Spec

-----------------------------------------------------------------------------
(***************************************************************************)
(* Payloads.  No two calls have one machine; a call that runs has its      *)
(* payload in its machine; and what a machine keeps is of calls that have  *)
(* run on it, assigned a function or saved something.                      *)
(***************************************************************************)
Exclusive == \A t, u \in Busy : vm[t] = vm[u] => t = u
Loaded == \A t \in Calls : pc[t] = "run" => payload[vm[t]] = t
Unassigned == \A t \in Calls : pc[t] = "new" => vm[t] = None
NoneYet == \A t \in Calls : pc[t] \in {"new", "got", "run"} => out[t] = None

\* The calls whose script is over and whose machine was v.
Past(v) == {u \in Calls : pc[u] \in {"ran", "stopped", "done"} /\ vm[u] = v}

Assigned == \A v \in VMs : transform[v] # None => transform[v] \in Assigning \cap Past(v)
Saved == \A v \in VMs : kept[v] # {} => kept[v] \subseteq Past(v) /\ Past(v) \cap Saving # {}

OthersOut == \A t \in Calls : pc[t] = "ran" /\ out[t] # None =>
    /\ out[t].by # t => Inherits(t) /\ out[t].by \in Before(t) \cap Assigning
    /\ out[t].payload # t => (Inherits(t) \/ Finds(t)) /\ out[t].payload \in Before(t)
PoolEmpty == \A v \in VMs : Available(v) => payload[v] = None

Isolated ==
    /\ Exclusive /\ Loaded /\ Unassigned /\ NoneYet
    /\ Assigned /\ Saved /\ OthersOut /\ PoolEmpty
OInv == TypeOK /\ Isolated

\* A step of a call that keeps its machine and runs no script.
LEMMA MachinesKept ==
    ASSUME TypeOK, Isolated, NEW t \in Calls, UNCHANGED <<vm, out, transform, kept>>,
           pc[t] \notin {"new", "run"}, pc'[t] \notin {"new", "ran"},
           pc[t] \in {"ran", "stopped", "done"} => pc'[t] \in {"ran", "stopped", "done"},
           \A u \in Calls \ {t} : pc'[u] = pc[u],
           Busy' \subseteq Busy
    PROVE  Exclusive' /\ Unassigned' /\ NoneYet' /\ Assigned' /\ Saved' /\ OthersOut'
<1> USE DEF Isolated
<1>1. Exclusive' /\ Unassigned' /\ NoneYet'
  BY DEF Exclusive, Unassigned, NoneYet, TypeOK
<1>2. \A v \in VMs : Past(v) \subseteq Past(v)'
  BY DEF Past
<1>3. Assigned' /\ Saved'
  BY <1>2 DEF Assigned, Saved
<1>4. OthersOut'
  BY DEF OthersOut, Inherits, Finds, Before
<1> QED
  BY <1>1, <1>3, <1>4

LEMMA InitOwn == Init => OInv
<1> SUFFICES ASSUME Init PROVE OInv
  OBVIOUS
<1>1. TypeOK
  BY TransformerAssumption DEF Init, TypeOK, Busy
<1>2. Isolated
  BY DEF Init, Isolated, Exclusive, Loaded, Unassigned, NoneYet, Assigned, Saved, OthersOut, PoolEmpty, Busy
<1> QED
  BY <1>1, <1>2 DEF OInv

LEMMA GetOwn == ASSUME OInv, NEW t \in Calls, Get(t) PROVE Isolated'
<1> USE DEF OInv, Isolated
<1>1. /\ UNCHANGED <<timer, out, payload, transform, kept, interrupt, cause>>
      /\ pc[t] = "new" /\ vm[t] = None
  BY DEF Get, machine, Unassigned
<1>2. \A u \in Calls \ {t} : pc'[u] = pc[u] /\ vm'[u] = vm[u]
  BY DEF Get, GoTo, TypeOK
<1>3. \A v \in VMs : Past(v) \subseteq Past(v)'
  BY <1>1, <1>2, TransformerAssumption DEF Past
<1>4. Assigned' /\ Saved'
  BY <1>1, <1>3 DEF Assigned, Saved
<1>5. pc'[t] \in {"got", "done"}
  BY DEF Get, GoTo, TypeOK
<1>6. OthersOut'
  <2> SUFFICES ASSUME NEW u \in Calls, pc'[u] = "ran" PROVE Before(u) \subseteq Before(u)'
    BY <1>1, <1>2, <1>5 DEF OthersOut, Inherits, Finds
  <2>1. u # t /\ pc[u] = "ran" /\ vm'[u] = vm[u] /\ vm[u] # None
    BY <1>2, <1>5 DEF TypeOK, Busy
  <2> QED
    BY <1>1, <1>2, <2>1 DEF Before
<1>7. Unassigned' /\ NoneYet'
  BY <1>1, <1>2, <1>5 DEF Unassigned, NoneYet
<1>8. CASE t \in Broken
  <2>1. Busy' = Busy /\ UNCHANGED vm
    BY <1>8 DEF Get, GoTo, Busy, TypeOK
  <2>2. Loaded'
    BY <1>1, <1>8, <2>1 DEF Get, GoTo, Loaded, TypeOK
  <2>3. PoolEmpty' /\ Exclusive'
    BY <1>1, <2>1 DEF PoolEmpty, Available, Exclusive
  <2> QED
    BY <1>4, <1>6, <1>7, <2>2, <2>3
<1>9. CASE t \notin Broken
  <2>1. PICK v \in VMs : Available(v) /\ vm' = [vm EXCEPT ![t] = v] /\ GoTo(t, "got")
    BY <1>9 DEF Get
  <2>2. Busy' = Busy \cup {t} /\ t \notin Busy
    BY <2>1 DEF Get, GoTo, Busy, TypeOK
  <2>3. vm'[t] = v
    BY <2>1 DEF TypeOK
  <2>4. Exclusive'
    BY <1>2, <2>1, <2>2, <2>3 DEF Exclusive, Available, Busy
  <2>5. Loaded'
    BY <1>1, <1>2, <1>5 DEF Loaded
  <2>6. PoolEmpty'
    BY <1>1, <1>2, <2>2, <2>3 DEF PoolEmpty, Available, Busy
  <2> QED
    BY <1>4, <1>6, <1>7, <2>4, <2>5, <2>6
<1> QED
  BY <1>8, <1>9

LEMMA StartOwn == ASSUME OInv, NEW t \in Calls, Start(t) PROVE Isolated'
<1> USE DEF OInv, Isolated
<1>1. /\ t \in Busy /\ vm[t] \in VMs /\ UNCHANGED <<vm, out, transform, kept>>
      /\ pc[t] = "got" /\ pc'[t] \in {"run", "stopped"}
      /\ \A u \in Calls \ {t} : pc'[u] = pc[u]
  BY TransformerAssumption DEF TypeOK, Start, GoTo, Busy
<1>2. Busy' = Busy
  BY <1>1 DEF Busy
<1>3. Exclusive' /\ Unassigned' /\ NoneYet' /\ Assigned' /\ Saved' /\ OthersOut'
  BY <1>1, <1>2, MachinesKept
<1>4. \A v \in VMs \ {vm[t]} : payload'[v] = payload[v]
  BY DEF TypeOK, Start
<1>5. Loaded'
  BY <1>1, <1>4 DEF TypeOK, Start, GoTo, Loaded, Exclusive, Busy
<1>6. PoolEmpty'
  BY <1>1, <1>2, <1>4 DEF PoolEmpty, Available
<1> QED
  BY <1>3, <1>5, <1>6

\* What a script has in reach when it runs, and what it leaves.
LEMMA RunReach ==
    ASSUME OInv, NEW t \in Calls, pc[t] = "run"
    PROVE  /\ vm[t] \in VMs /\ t \in Busy
           /\ Past(vm[t]) \subseteq Before(t)
           /\ Caller(t) # t => Caller(t) \in Assigning \cap Past(vm[t]) /\ Inherits(t)
           /\ \A u \in Reach(t) : u # t => /\ u \in Past(vm[t])
                                           /\ Inherits(t) \/ Finds(t)
<1> USE DEF OInv, Isolated
<1>1. vm[t] \in VMs /\ t \in Busy
  BY TransformerAssumption DEF TypeOK, Busy
<1>2. Past(vm[t]) \subseteq Before(t)
  BY DEF Past, Before
<1>3. Caller(t) # t => Caller(t) \in Assigning \cap Past(vm[t]) /\ Inherits(t)
  BY <1>1, <1>2 DEF Caller, Assigned, Inherits
<1>4. payload[vm[t]] = t
  BY DEF Loaded
<1>5. ASSUME NEW u \in Reach(t), u # t
      PROVE  u \in Past(vm[t]) /\ (Inherits(t) \/ Finds(t))
  <2>1. CASE u = Caller(t)
    BY <1>3, <1>5, <2>1
  <2>2. CASE u \in kept[vm[t]] /\ Runs(t) \cap Using # {}
    <3>1. u \in Past(vm[t]) /\ Past(vm[t]) \cap Saving # {}
      BY <1>1, <2>2 DEF Saved
    <3>2. Caller(t) # t \/ t \in Using
      BY <2>2 DEF Runs
    <3> QED
      BY <1>2, <1>3, <3>1, <3>2 DEF Finds
  <2> QED
    BY <1>4, <1>5, <2>1, <2>2 DEF Reach
<1> QED
  BY <1>1, <1>2, <1>3, <1>5

LEMMA LeaveOwn ==
    ASSUME OInv, NEW t \in Calls, pc[t] = "run", GoTo(t, "ran"), Leave(t), UNCHANGED vm
    PROVE  Assigned' /\ Saved'
<1> USE DEF OInv, Isolated
<1> DEFINE v == vm[t]
<1>1. v \in VMs
  BY RunReach
<1>2. /\ \A w \in VMs : Past(w) \subseteq Past(w)'
      /\ t \in Past(v)'
  BY DEF GoTo, Past, TypeOK
<1>3. Assigned'
  BY <1>1, <1>2 DEF Leave, Assign, Assigned, TypeOK
<1>4. CASE kept' = kept
  BY <1>2, <1>3, <1>4 DEF Saved
<1>5. CASE Keep(t)
  <2>1. \A w \in VMs \ {v} : kept'[w] = kept[w]
    BY <1>5 DEF Keep, TypeOK
  <2>2. kept'[v] = kept[v] \cup Reach(t)
    BY <1>1, <1>5 DEF Keep, TypeOK
  <2>3. kept'[v] \subseteq Past(v)'
    BY <1>1, <1>2, <2>2, RunReach DEF Saved
  <2>4. Past(v)' \cap Saving # {}
    BY <1>2, <1>5, RunReach DEF Keep, Runs
  <2> QED
    BY <1>2, <1>3, <2>1, <2>3, <2>4 DEF Saved
<1> QED
  BY <1>3, <1>4, <1>5 DEF Leave

LEMMA RunOwn == ASSUME OInv, NEW t \in Calls, Return(t) \/ Abort(t) PROVE Isolated'
<1> USE DEF OInv, Isolated
<1>1. /\ pc[t] = "run" /\ GoTo(t, "ran") /\ Leave(t) /\ UNCHANGED <<vm, payload>>
      /\ \/ UNCHANGED out
         \/ \E u \in Reach(t) : out' = [out EXCEPT ![t] = [payload |-> u, by |-> Caller(t)]]
  BY DEF Return, Abort
<1>2. vm[t] \in VMs /\ t \in Busy
  BY <1>1, RunReach
<1>3. Busy' = Busy
  BY <1>1 DEF TypeOK, GoTo, Busy
<1>4. Exclusive' /\ PoolEmpty'
  BY <1>1, <1>3 DEF Exclusive, PoolEmpty, Available
<1>5. Loaded' /\ Unassigned' /\ NoneYet'
  BY <1>1 DEF TypeOK, GoTo, Loaded, Unassigned, NoneYet
<1>6. Assigned' /\ Saved'
  BY <1>1, LeaveOwn
<1>7. \A u \in Calls \ {t} : out'[u] = out[u] /\ pc'[u] = pc[u]
  BY <1>1 DEF TypeOK, GoTo
<1>8. \A u \in Calls : /\ Before(u)' = Before(u)
                       /\ Inherits(u)' <=> Inherits(u)
                       /\ Finds(u)' <=> Finds(u)
  BY <1>1 DEF Before, Inherits, Finds
<1>9. out[t] = None
  BY <1>1 DEF NoneYet
<1>10. ASSUME out'[t] # None
       PROVE  /\ out'[t].by # t => Inherits(t) /\ out'[t].by \in Before(t) \cap Assigning
              /\ out'[t].payload # t => /\ Inherits(t) \/ Finds(t)
                                        /\ out'[t].payload \in Before(t)
  <2>1. PICK u \in Reach(t) : out' = [out EXCEPT ![t] = [payload |-> u, by |-> Caller(t)]]
    BY <1>1, <1>9, <1>10
  <2>2. out'[t].payload = u /\ out'[t].by = Caller(t)
    BY <2>1 DEF TypeOK
  <2> QED
    BY <1>1, <2>2, RunReach
<1>11. OthersOut'
  BY <1>7, <1>8, <1>10 DEF OthersOut
<1> QED
  BY <1>4, <1>5, <1>6, <1>11

LEMMA StopOwn == ASSUME OInv, NEW t \in Calls, StopTimer(t) PROVE Isolated'
<1> USE DEF OInv, Isolated
<1>1. /\ UNCHANGED <<vm, out, payload, transform, kept>>
      /\ pc[t] = "ran" /\ pc'[t] = "stopped" /\ \A u \in Calls \ {t} : pc'[u] = pc[u]
  BY DEF StopTimer, GoTo, machine, TypeOK
<1>2. Busy' = Busy
  BY <1>1 DEF Busy
<1>3. Exclusive' /\ Unassigned' /\ NoneYet' /\ Assigned' /\ Saved' /\ OthersOut'
  BY <1>1, <1>2, MachinesKept
<1>4. Loaded' /\ PoolEmpty'
  BY <1>1, <1>2 DEF Loaded, PoolEmpty, Available
<1> QED
  BY <1>3, <1>4

LEMMA PutOwn == ASSUME OInv, NEW t \in Calls, Put(t) PROVE Isolated'
<1> USE DEF OInv, Isolated
<1>1. /\ t \in Busy /\ vm[t] \in VMs /\ UNCHANGED <<vm, out, transform, kept>>
      /\ pc[t] = "stopped" /\ pc'[t] = "done" /\ \A u \in Calls \ {t} : pc'[u] = pc[u]
  BY TransformerAssumption DEF TypeOK, Put, GoTo, Busy
<1>2. Busy' = Busy \ {t}
  BY <1>1 DEF Busy
<1>3. Exclusive' /\ Unassigned' /\ NoneYet' /\ Assigned' /\ Saved' /\ OthersOut'
  BY <1>1, <1>2, MachinesKept
<1>4. payload'[vm[t]] = None /\ \A v \in VMs \ {vm[t]} : payload'[v] = payload[v]
  BY <1>1 DEF TypeOK, Put, Cleared
<1>5. Loaded'
  BY <1>1, <1>4 DEF TypeOK, Put, GoTo, Loaded, Exclusive, Busy
<1>6. PoolEmpty'
  BY <1>1, <1>2, <1>4 DEF PoolEmpty, Available
<1> QED
  BY <1>3, <1>5, <1>6

LEMMA PoolOwn ==
    ASSUME OInv, \/ \E t \in Calls : Timer(t)
                 \/ \E v \in VMs : Collect(v)
                 \/ UNCHANGED vars
    PROVE  Isolated'
<1> USE DEF OInv, Isolated
<1>1. CASE (\E t \in Calls : Timer(t)) \/ UNCHANGED vars
  <2>1. UNCHANGED <<pc, vm, out, payload, transform, kept>>
    BY <1>1 DEF Timer, Expire, Interrupt, machine, vars
  <2> QED
    BY <2>1 DEF Exclusive, Loaded, Unassigned, NoneYet, Assigned, Saved, OthersOut, PoolEmpty,
                Past, Before, Inherits, Finds, Busy, Available
<1>2. ASSUME NEW v \in VMs, Collect(v) PROVE Isolated'
  <2>1. Busy' = Busy /\ UNCHANGED <<pc, out>>
    BY <1>2 DEF Collect, Busy
  <2>2. \A t \in Calls : /\ vm[t] # v => vm'[t] = vm[t]
                         /\ vm[t] = v => vm'[t] = None
    BY <1>2 DEF Collect
  <2>3. \A t \in Busy : vm'[t] = vm[t] /\ vm[t] # v /\ vm[t] # None
    BY <1>2, <2>2 DEF Collect, Available, TypeOK, Busy
  <2>4. /\ payload'[v] = None /\ transform'[v] = None /\ kept'[v] = {}
        /\ \A w \in VMs \ {v} : /\ payload'[w] = payload[w] /\ transform'[w] = transform[w]
                                /\ kept'[w] = kept[w]
    BY <1>2 DEF Collect, TypeOK
  <2>5. Exclusive' /\ Unassigned' /\ NoneYet'
    BY <2>1, <2>2, <2>3 DEF Exclusive, Unassigned, NoneYet
  <2>6. \A w \in VMs \ {v} : Past(w)' = Past(w)
    BY <2>1, <2>2, TransformerAssumption DEF Past
  <2>7. Assigned' /\ Saved'
    BY <2>4, <2>6 DEF Assigned, Saved
  <2>8. Loaded'
    BY <2>1, <2>3, <2>4 DEF Loaded, Busy, TypeOK
  <2>9. PoolEmpty'
    BY <2>1, <2>3, <2>4 DEF PoolEmpty, Available
  <2>10. \A t \in Busy : Before(t)' = Before(t)
    BY <2>2, <2>3 DEF Before
  <2>11. OthersOut'
    BY <2>1, <2>10 DEF OthersOut, Inherits, Finds, Busy
  <2> QED
    BY <2>5, <2>7, <2>8, <2>9, <2>11
<1> QED
  BY <1>1, <1>2

LEMMA NextOwn == OInv /\ [Next]_vars => OInv'
<1> SUFFICES ASSUME OInv, [Next]_vars PROVE OInv'
  OBVIOUS
<1>1. TypeOK'
  BY NextType DEF OInv
<1>2. Isolated'
  BY GetOwn, StartOwn, RunOwn, StopOwn, PutOwn, PoolOwn DEF Next, Transform
<1> QED
  BY <1>1, <1>2 DEF OInv

\* Whatever machines calls share one after another, a result is made of the call's
\* own payload by its own script but for what the scripts before it on the machine
\* assigned or saved; and a machine that waits in the pool holds no payload
\* (transformer.go:28-36, 62-73).
THEOREM ResultsAreOwn == Spec => []OwnResult
<1>1. OInv => OwnResult
  BY DEF OInv, Isolated, OthersOut, PoolEmpty, OwnResult
<1> QED
  BY <1>1, InitOwn, NextOwn, PTL DEF Spec

-----------------------------------------------------------------------------
(***************************************************************************)
(* Interrupts.  Only the timers of slow calls fire, and each interrupt is  *)
(* in one place: to come, in a machine, or used up by a script.            *)
(***************************************************************************)
\* Where a timer is while its call goes on.
Timed ==
    \A t \in Calls :
        /\ pc[t] \in {"new", "got"} => timer[t] = "off"
        /\ timer[t] = "armed" => pc[t] \in {"run", "ran"}
        /\ timer[t] \in {"fired", "over"} => t \in Slow

\* An interrupt is that of a callback that is over, in one machine at most, and
\* not there any more when it has ended a script.
Placed ==
    /\ \A v \in VMs : interrupt[v] # None => timer[interrupt[v]] = "over"
    /\ \A v, w \in VMs : interrupt[v] # None /\ interrupt[v] = interrupt[w] => v = w
    /\ \A t \in Calls : cause[t] # None => timer[cause[t]] = "over"
    /\ \A t \in Calls, v \in VMs : cause[t] # None => interrupt[v] # cause[t]
    /\ \A t \in Calls : pc[t] \in {"new", "got", "run"} => cause[t] = None

\* A timer ends one script at most.
OneScriptEach ==
    \A t, u \in Calls : cause[t] # None /\ cause[t] = cause[u] => t = u

IInv == TypeOK /\ Timed /\ Placed /\ OneScriptEach

LEMMA InitInterrupts == Init => IInv
<1> SUFFICES ASSUME Init PROVE IInv
  OBVIOUS
<1>1. TypeOK
  BY TransformerAssumption DEF Init, TypeOK, Busy
<1>2. Timed /\ Placed /\ OneScriptEach
  BY DEF Init, Timed, Placed, OneScriptEach
<1> QED
  BY <1>1, <1>2 DEF IInv

LEMMA QuietInterrupts ==
    ASSUME IInv, NEW t \in Calls,
           Get(t) \/ Start(t) \/ Return(t) \/ StopTimer(t) \/ Put(t) \/ Expire(t)
    PROVE  Timed' /\ Placed' /\ OneScriptEach'
<1> USE DEF IInv
<1>1. UNCHANGED <<interrupt, cause>>
  BY DEF Get, Start, Return, StopTimer, Put, Expire, machine
<1>2. /\ \A u \in Calls \ {t} : pc'[u] = pc[u] /\ timer'[u] = timer[u]
      /\ timer[t] = "over" => timer'[t] = "over"
      /\ pc'[t] \in {"new", "got", "run"} => pc[t] \in {"new", "got", "run"}
  BY DEF Get, Start, Return, StopTimer, Put, Expire, GoTo, Stop, AfterFunc, Timed, TypeOK
<1>3. Timed'
  <2>1. CASE Get(t) \/ Start(t)
    BY <1>2, <2>1 DEF Get, Start, GoTo, AfterFunc, Timed, TypeOK
  <2>2. CASE Return(t) \/ StopTimer(t) \/ Put(t)
    BY <1>2, <2>2 DEF Return, StopTimer, Put, GoTo, Stop, Timed, TypeOK
  <2>3. CASE Expire(t)
    BY <1>2, <2>3 DEF Expire, Timed, TypeOK
  <2> QED
    BY <2>1, <2>2, <2>3
<1>4. \A u \in Calls : timer[u] = "over" => timer'[u] = "over"
  BY <1>2
<1>5. Placed'
  BY <1>1, <1>2, <1>4 DEF Placed, TypeOK
<1> QED
  BY <1>1, <1>3, <1>5 DEF OneScriptEach

LEMMA AbortInterrupts ==
    ASSUME IInv, NEW t \in Calls, Abort(t)
    PROVE  Timed' /\ Placed' /\ OneScriptEach'
<1> USE DEF IInv
<1> DEFINE u == interrupt[vm[t]]
<1>1. vm[t] \in VMs /\ u \in Calls /\ UNCHANGED timer
  BY DEF Abort, TypeOK, Busy
<1>2. /\ cause'[t] = u /\ \A s \in Calls \ {t} : cause'[s] = cause[s]
      /\ interrupt'[vm[t]] = None
      /\ \A v \in VMs \ {vm[t]} : interrupt'[v] = interrupt[v]
      /\ pc'[t] = "ran" /\ \A s \in Calls \ {t} : pc'[s] = pc[s]
  BY <1>1 DEF Abort, GoTo, TypeOK
<1>3. \A s \in Calls : cause[s] # u
  BY <1>1, TransformerAssumption DEF Placed
<1>4. \A v \in VMs \ {vm[t]} : interrupt[v] # u
  BY <1>1, TransformerAssumption DEF Placed
<1>5. Timed'
  BY <1>1, <1>2 DEF Abort, Timed
<1>6. Placed'
  BY <1>1, <1>2, <1>4 DEF Placed
<1>7. OneScriptEach'
  BY <1>2, <1>3 DEF OneScriptEach
<1> QED
  BY <1>5, <1>6, <1>7

LEMMA CallbackInterrupts ==
    ASSUME IInv, NEW t \in Calls, Interrupt(t)
    PROVE  Timed' /\ Placed' /\ OneScriptEach'
<1> USE DEF IInv
<1>1. UNCHANGED <<pc, cause>> /\ timer[t] = "fired"
  BY DEF Interrupt
<1>2. timer'[t] = "over" /\ \A u \in Calls \ {t} : timer'[u] = timer[u]
  BY DEF Interrupt, Afterwards, TypeOK
<1>3. Timed'
  BY <1>1, <1>2 DEF Timed
<1>4. \A v \in VMs : interrupt[v] # t
  BY <1>1, TransformerAssumption DEF Placed
<1>5. \A s \in Calls : cause[s] # t
  BY <1>1, TransformerAssumption DEF Placed
<1>6. \A v \in VMs : \/ interrupt'[v] = interrupt[v]
                     \/ interrupt'[v] = t /\ v = vm[t]
  BY DEF Interrupt, TypeOK
<1>7. Placed'
  BY <1>1, <1>2, <1>4, <1>5, <1>6 DEF Placed, TypeOK
<1> QED
  BY <1>1, <1>3, <1>7 DEF OneScriptEach

LEMMA CollectInterrupts ==
    ASSUME IInv, NEW v \in VMs, Collect(v)
    PROVE  Timed' /\ Placed' /\ OneScriptEach'
<1>1. UNCHANGED <<pc, timer, cause>>
  BY DEF Collect
<1>2. interrupt'[v] = None /\ \A w \in VMs \ {v} : interrupt'[w] = interrupt[w]
  BY DEF Collect, TypeOK, IInv
<1> QED
  BY <1>1, <1>2 DEF IInv, Timed, Placed, OneScriptEach

LEMMA NextInterrupts == IInv /\ [Next]_vars => IInv'
<1> SUFFICES ASSUME IInv, [Next]_vars PROVE IInv'
  OBVIOUS
<1>1. TypeOK'
  BY NextType DEF IInv
<1>2. CASE Next
  BY <1>1, <1>2, QuietInterrupts, AbortInterrupts, CallbackInterrupts, CollectInterrupts
  DEF Next, Transform, Timer, IInv
<1>3. CASE UNCHANGED vars
  BY <1>1, <1>3 DEF IInv, Timed, Placed, OneScriptEach, vars, machine
<1> QED
  BY <1>2, <1>3

\* A script is ended by the timer of a slow call only, and such a timer ends one
\* script at most: stopping the timer before the machine goes back protects the
\* others from quick calls, and a late interrupt does not poison the machine for
\* those that come after (transformer.go:64-67, 76-82).
THEOREM InterruptsAreFair == Spec => []FairInterrupts
<1>1. IInv => FairInterrupts
  BY DEF IInv, TypeOK, Timed, Placed, OneScriptEach, FairInterrupts
<1> QED
  BY <1>1, InitInterrupts, NextInterrupts, PTL DEF Spec

-----------------------------------------------------------------------------
(***************************************************************************)
(* The guard.  A call that runs has a machine of its own, so nobody else   *)
(* takes the interrupt of its timer away.                                  *)
(***************************************************************************)
GInv == OInv /\ IInv /\ GuardStands

LEMMA NextGuard == GInv /\ [Next]_vars => GuardStands'
<1> SUFFICES ASSUME GInv, [Next]_vars, NEW t \in Calls, pc'[t] = "run"
             PROVE  timer'[t] \in {"armed", "fired"} \/ interrupt'[vm'[t]] # None
  BY DEF GuardStands
<1> USE DEF GInv, OInv, Isolated
<1>1. pc[t] = "run" => /\ t \in Busy /\ vm[t] \in VMs
                       /\ timer[t] \in {"armed", "fired"} \/ interrupt[vm[t]] # None
  BY DEF TypeOK, Busy, GuardStands
<1>2. ASSUME NEW u \in Calls, Get(u) \/ Start(u) \/ Return(u) \/ StopTimer(u) \/ Put(u)
      PROVE  timer'[t] \in {"armed", "fired"} \/ interrupt'[vm'[t]] # None
  <2>1. CASE u = t
    <3>1. Start(t) /\ t \notin BadJSON
      BY <1>2, <2>1 DEF Get, Start, Return, StopTimer, Put, GoTo, TypeOK
    <3> QED
      BY <3>1 DEF Start, AfterFunc, TypeOK
  <2>2. CASE u # t
    <3>1. pc[t] = "run" /\ vm'[t] = vm[t] /\ timer'[t] = timer[t] /\ interrupt' = interrupt
      BY <1>2, <2>2
         DEF Get, Start, Return, StopTimer, Put, GoTo, AfterFunc, Stop, machine, TypeOK
    <3> QED
      BY <1>1, <3>1
  <2> QED
    BY <2>1, <2>2
<1>3. ASSUME NEW u \in Calls, Abort(u)
      PROVE  timer'[t] \in {"armed", "fired"} \/ interrupt'[vm'[t]] # None
  <2>1. u # t /\ pc[t] = "run" /\ UNCHANGED <<vm, timer>>
    BY <1>3 DEF Abort, GoTo, TypeOK
  <2>2. vm[u] # vm[t]
    BY <1>1, <1>3, <2>1 DEF Abort, Busy, Exclusive
  <2>3. interrupt'[vm[t]] = interrupt[vm[t]]
    BY <1>1, <1>3, <2>1, <2>2 DEF Abort, TypeOK
  <2> QED
    BY <1>1, <2>1, <2>3
<1>4. ASSUME NEW u \in Calls, Expire(u) \/ Interrupt(u)
      PROVE  timer'[t] \in {"armed", "fired"} \/ interrupt'[vm'[t]] # None
  <2>1. pc[t] = "run" /\ UNCHANGED vm
    BY <1>4 DEF Expire, Interrupt
  <2>2. interrupt[vm[t]] # None => interrupt'[vm[t]] # None
    BY <1>1, <1>4, <2>1, TransformerAssumption DEF Expire, Interrupt, machine, TypeOK
  <2>3. CASE timer'[t] = timer[t]
    BY <1>1, <2>1, <2>2, <2>3
  <2>4. CASE u = t
    <3>1. CASE Expire(t)
      BY <3>1 DEF Expire, TypeOK
    <3>2. CASE Interrupt(t)
      BY <1>1, <2>1, <3>2, TransformerAssumption DEF Interrupt, TypeOK
    <3> QED
      BY <1>4, <2>4, <3>1, <3>2
  <2> QED
    BY <1>4, <2>3, <2>4 DEF Expire, Interrupt, TypeOK
<1>5. ASSUME NEW v \in VMs, Collect(v)
      PROVE  timer'[t] \in {"armed", "fired"} \/ interrupt'[vm'[t]] # None
  <2>1. pc[t] = "run" /\ UNCHANGED timer
    BY <1>5 DEF Collect
  <2>2. vm[t] # v /\ vm'[t] = vm[t]
    BY <1>1, <1>5, <2>1 DEF Collect, Available
  <2>3. interrupt'[vm[t]] = interrupt[vm[t]]
    BY <1>1, <1>5, <2>1, <2>2 DEF Collect, TypeOK
  <2> QED
    BY <1>1, <2>1, <2>2, <2>3
<1>6. CASE UNCHANGED vars
  BY <1>1, <1>6 DEF vars, machine
<1> QED
  BY <1>2, <1>3, <1>4, <1>5, <1>6 DEF Next, Transform, Timer

\* Whoever uses the machines before, after or beside it, a script that runs is
\* guarded: what EveryCallEnds needs besides fairness (transformer.go:76-79,
\* README.md:190).
THEOREM NoScriptUnguarded == Spec => []GuardStands
<1>1. Init => GInv
  BY InitOwn, InitInterrupts DEF Init, GInv, GuardStands
<1>2. GInv /\ [Next]_vars => GInv'
  BY NextOwn, NextInterrupts, NextGuard DEF GInv
<1>3. GInv => GuardStands
  BY DEF GInv
<1> QED
  BY <1>1, <1>2, <1>3, PTL DEF Spec
=============================================================================
