------------------------------ MODULE Transformer ------------------------------
(***************************************************************************)
(* Transform (internal/transformer/transformer.go): calls that take a      *)
(* machine from a shared pool, run a script on it under a timer of 50ms    *)
(* that interrupts the machine, and put it back.  Stopping the timer does  *)
(* not wait for a callback that has begun, and an interrupt of a machine   *)
(* that runs nothing waits there for its next script.                      *)
(*                                                                         *)
(* The machine (goja) and the pool (sync.Pool) are modelled from how the   *)
(* code uses them.  There is no clock: Slow says which calls their timer   *)
(* may catch up with.  Of what a script does, the model has what outlives  *)
(* it: the wrapper makes payload a parameter, and Transform clears the     *)
(* global of that name, but whatever else a script assigns without         *)
(* declaring it stays in the machine, with the call's payload in its       *)
(* reach.  An interrupt ends JavaScript code; a native function of goja    *)
(* that never returns is outside of the model.                             *)
(***************************************************************************)

CONSTANTS
    Calls,      \* calls of Transform, each with a script and a payload of its own
    VMs,        \* goja runtimes
    Broken,     \* calls whose script does not compile
    BadJSON,    \* calls whose payload is no JSON object
    Declaring,  \* calls whose script declares a function transform, or returns itself
    Assigning,  \* calls whose script assigns transform without declaring it
    Saving,     \* calls whose script leaves other globals in the machine
    Using,      \* calls whose script uses such globals
    Slow,       \* calls that may take 50ms from AfterFunc to Stop, be it in their own
                \* script or in a function they find
    Endless,    \* calls that never end by themselves, be it in the one or the other
    None        \* no machine, call, payload or function

ASSUME TransformerAssumption ==
    /\ None \notin Calls \cup VMs
    /\ Endless \subseteq Slow
    /\ Declaring \cap Assigning = {}

VARIABLES
    pc,         \* pc[t]: where the call is
    vm,         \* vm[t]: the machine of the call, of its timer too
    timer,      \* timer[t]: "off", "armed", "fired" (the callback has begun), "over"
    out,        \* out[t]: what the call returns, None for an error
    payload,    \* payload[v]: the call whose payload the machine has
    transform,  \* transform[v]: the call whose script left the machine a global
                \* function of that name
    kept,       \* kept[v]: the calls whose payload is in reach of other globals
    interrupt,  \* interrupt[v]: the call whose timer asked the machine to stop
    cause       \* history: cause[t]: the call whose timer ended t's script

machine == <<payload, transform, kept, interrupt>>
vars == <<pc, vm, timer, out, machine, cause>>

Results == [payload : Calls \cup {None}, by : Calls]

\* The calls that are between vmPool.Get and vmPool.Put.
Busy == {t \in Calls : pc[t] \in {"got", "run", "ran", "stopped"}}

TypeOK ==
    /\ pc \in [Calls -> {"new", "got", "run", "ran", "stopped", "done"}]
    /\ vm \in [Calls -> VMs \cup {None}]
    /\ timer \in [Calls -> {"off", "armed", "fired", "over"}]
    /\ out \in [Calls -> Results \cup {None}]
    /\ payload \in [VMs -> Calls \cup {None}]
    /\ transform \in [VMs -> Calls \cup {None}]
    /\ kept \in [VMs -> SUBSET (Calls \cup {None})]
    /\ interrupt \in [VMs -> Calls \cup {None}]
    /\ cause \in [Calls -> Calls \cup {None}]
    /\ \A t \in Busy : vm[t] # None

Init ==
    /\ pc = [t \in Calls |-> "new"] /\ vm = [t \in Calls |-> None]
    /\ timer = [t \in Calls |-> "off"] /\ out = [t \in Calls |-> None]
    /\ payload = [v \in VMs |-> None] /\ transform = [v \in VMs |-> None]
    /\ kept = [v \in VMs |-> {}] /\ interrupt = [v \in VMs |-> None]
    /\ cause = [t \in Calls |-> None]

GoTo(t, label) == pc' = [pc EXCEPT ![t] = label]

-----------------------------------------------------------------------------
(***************************************************************************)
(* A call.                                                                 *)
(***************************************************************************)
\* Mutant of Available: one machine for all.
Shared(v) == TRUE
\* A machine in the pool, or one that is not made yet.
Available(v) == \A t \in Busy : vm[t] # v

\* getCompiledScript, whose program is the script's whether it is in the cache or
\* not, and vmPool.Get.
Get(t) ==
    /\ pc[t] = "new"
    /\ IF t \in Broken
       THEN GoTo(t, "done") /\ UNCHANGED vm
       ELSE \E v \in VMs : Available(v) /\ vm' = [vm EXCEPT ![t] = v] /\ GoTo(t, "got")
    /\ UNCHANGED <<timer, out, machine, cause>>

\* Mutant of AfterFunc: no timer.
Unguarded(t) == timer
AfterFunc(t) == [timer EXCEPT ![t] = "armed"]

\* The machine gets the payload and the timer is set, but for a bad payload.
Start(t) ==
    /\ pc[t] = "got"
    /\ IF t \in BadJSON
       THEN GoTo(t, "stopped") /\ UNCHANGED <<timer, payload>>
       ELSE /\ GoTo(t, "run")
            /\ payload' = [payload EXCEPT ![vm[t]] = t]
            /\ timer' = AfterFunc(t)
    /\ UNCHANGED <<vm, out, transform, kept, interrupt, cause>>

\* The function the wrapper calls at its end: the script's own one, else what an
\* earlier script left in the machine; without any the payload is returned as the
\* script made it.
Caller(t) ==
    IF t \in Declaring \cup Assigning \/ transform[vm[t]] = None
    THEN t ELSE transform[vm[t]]

\* The scripts whose code runs: the call's own one, and the one whose function it
\* calls.
Runs(t) == {t, Caller(t)}

\* The payloads that code can make a result of, or keep: the call's own, that of the
\* call whose wrapper the function was made in, and what other globals lead to.
Reach(t) ==
    {payload[vm[t]], Caller(t)}
        \cup (IF Runs(t) \cap Using = {} THEN {} ELSE kept[vm[t]])

\* What the script leaves in the machine, all of it or what it came to.
Assign(t) == t \in Assigning /\ transform' = [transform EXCEPT ![vm[t]] = t]
Keep(t) ==
    /\ Runs(t) \cap Saving # {}
    /\ kept' = [kept EXCEPT ![vm[t]] = @ \cup Reach(t)]
Leave(t) == (Assign(t) \/ UNCHANGED transform) /\ (Keep(t) \/ UNCHANGED kept)

\* RunProgram ends: with a value that is marshalled, or with an error.
Return(t) ==
    /\ pc[t] = "run" /\ t \notin Endless
    /\ GoTo(t, "ran")
    /\ Leave(t)
    /\ \/ /\ t \in Assigning => transform'[vm[t]] = t
          /\ \E u \in Reach(t) : out' = [out EXCEPT ![t] = [payload |-> u, by |-> Caller(t)]]
       \/ UNCHANGED out
    /\ UNCHANGED <<vm, timer, payload, interrupt, cause>>

\* RunProgram sees the interrupt and leaves, which clears it.
Abort(t) ==
    /\ pc[t] = "run" /\ interrupt[vm[t]] # None
    /\ GoTo(t, "ran")
    /\ cause' = [cause EXCEPT ![t] = interrupt[vm[t]]]
    /\ interrupt' = [interrupt EXCEPT ![vm[t]] = None]
    /\ Leave(t)
    /\ UNCHANGED <<vm, timer, out, payload>>

\* Mutant of Stop: the timer is not stopped.
Forgotten(t) == timer
\* timer.Stop has no effect on a callback that has begun.
Stop(t) == [timer EXCEPT ![t] = IF @ = "armed" THEN "off" ELSE @]

StopTimer(t) ==
    /\ pc[t] = "ran"
    /\ timer' = Stop(t)
    /\ GoTo(t, "stopped")
    /\ UNCHANGED <<vm, out, machine, cause>>

\* Mutant of Cleared: the machine goes back as it is.
Uncleared(v) == payload[v]
Cleared(v) == None

\* The machine goes back without the global payload, and with all that is kept.
Put(t) ==
    /\ pc[t] = "stopped"
    /\ payload' = [payload EXCEPT ![vm[t]] = Cleared(vm[t])]
    /\ GoTo(t, "done")
    /\ UNCHANGED <<vm, timer, out, transform, kept, interrupt, cause>>

-----------------------------------------------------------------------------
(***************************************************************************)
(* Timers and the pool.                                                    *)
(***************************************************************************)
\* The time is up, during the call unless the call is quick.
Expire(t) ==
    /\ timer[t] = "armed" /\ (t \in Slow \/ pc[t] = "done")
    /\ timer' = [timer EXCEPT ![t] = "fired"]
    /\ UNCHANGED <<pc, vm, out, machine, cause>>

Afterwards == "over"

\* The callback calls vm.Interrupt, wherever the machine is by now.
Interrupt(t) ==
    /\ timer[t] = "fired"
    /\ timer' = [timer EXCEPT ![t] = Afterwards]
    /\ IF vm[t] # None THEN interrupt' = [interrupt EXCEPT ![vm[t]] = t]
                       ELSE UNCHANGED interrupt
    /\ UNCHANGED <<pc, vm, out, payload, transform, kept, cause>>

\* The pool lets go of a machine; a timer that refers to it can do no harm.
Collect(v) ==
    /\ Available(v)
    /\ vm' = [t \in Calls |-> IF vm[t] = v THEN None ELSE vm[t]]
    /\ payload' = [payload EXCEPT ![v] = None]
    /\ transform' = [transform EXCEPT ![v] = None]
    /\ kept' = [kept EXCEPT ![v] = {}]
    /\ interrupt' = [interrupt EXCEPT ![v] = None]
    /\ UNCHANGED <<pc, timer, out, cause>>

Transform(t) == Get(t) \/ Start(t) \/ Return(t) \/ Abort(t) \/ StopTimer(t) \/ Put(t)
Timer(t) == Expire(t) \/ Interrupt(t)

Next ==
    \/ \E t \in Calls : Transform(t) \/ Timer(t)
    \/ \E v \in VMs : Collect(v)

Spec == Init /\ [][Next]_vars

\* Goroutines run on, timers fire.
Fairness == \A t \in Calls : WF_vars(Transform(t)) /\ WF_vars(Timer(t))

FairSpec == Spec /\ Fairness

-----------------------------------------------------------------------------
(***************************************************************************)
(* Properties.                                                             *)
(***************************************************************************)
\* The calls that had t's machine before t.
Before(t) == {u \in Calls \ {t} : vm[u] = vm[t]}

\* t's script may be run through a function another one assigned, and t's script may
\* find what another one saved.
Inherits(t) == t \notin Declaring \cup Assigning /\ Before(t) \cap Assigning # {}
Finds(t) == t \in Using /\ Before(t) \cap Saving # {}

\* What a call returns is made of its own payload by its own script, whichever calls
\* use the machines meanwhile, but for two ways (transformer.go:28-36, 62-73): an
\* inline script is run through the function that an earlier script on its machine
\* assigned, which also brings that call's payload; and a script that uses globals
\* may find what an earlier one on its machine saved.  It is never made of what a call
\* on another machine has, and a machine that nobody uses has no global payload.
OwnResult ==
    /\ \A t \in Calls : pc[t] = "ran" /\ out[t] # None =>
          /\ out[t].by # t => Inherits(t) /\ out[t].by \in Before(t) \cap Assigning
          /\ out[t].payload # t => (Inherits(t) \/ Finds(t)) /\ out[t].payload \in Before(t)
    /\ \A v \in VMs : Available(v) => payload[v] = None

\* A script is only ever ended by the timer of a call that took its 50ms, its own
\* or that of an earlier user of the machine, so that where all are quick nothing
\* is interrupted; and a late interrupt costs at most one script, it does not
\* poison the machine (transformer.go:64-67, 76-82).
FairInterrupts ==
    \A t \in Calls : cause[t] # None =>
        /\ cause[t] \in Slow
        /\ \A u \in Calls : cause[u] = cause[t] => u = t

\* No script runs unguarded (README.md:190): the timer that is to end it ticks, or
\* its callback is under way, or its machine has the interrupt.  Neither another
\* call nor the pool takes the interrupt away before the script has seen it.
GuardStands ==
    \A t \in Calls : pc[t] = "run" =>
        timer[t] \in {"armed", "fired"} \/ interrupt[vm[t]] # None

\* Every call comes to its end, also with a script that does not, and leaves no
\* timer behind that is still to fire (README.md:190).
EveryCallEnds ==
    \A t \in Calls :
        pc[t] # "new" ~> (pc[t] = "done" /\ timer[t] \in {"off", "over"})
=============================================================================
