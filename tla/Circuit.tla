------------------------------ MODULE Circuit ------------------------------
(***************************************************************************)
(* The circuit breaker of one target URL (internal/forwarder/circuit.go)   *)
(* as the goroutines running processJob use it: Allow before the call,     *)
(* RecordSuccess or RecordFailure after it.  The breakers of different     *)
(* targets share nothing (sync.Map keyed by URL), so one is enough.        *)
(*                                                                         *)
(* The mutex makes each method one step; the call between two of them is   *)
(* not, and calls admitted earlier may report into any later state.  Time  *)
(* passes in ticks.  A call ends within ClientTimeout ticks, because       *)
(* deliver uses an http.Client with a Timeout that also covers the body.   *)
(***************************************************************************)
EXTENDS Integers, FiniteSets

CONSTANTS
    Workers,        \* goroutines that may call the target
    cbThreshold,    \* failures in a row that trip the breaker
    cbCooldown,     \* ticks of the first cooldown
    cbMaxCooldown,  \* ticks of the longest cooldown
    ClientTimeout   \* ticks a call may last

\* 10s <= 30s <= 5min <= 16 * 30s in the code.
ASSUME TimesAssumption ==
    /\ cbThreshold \in Nat \ {0}
    /\ cbCooldown \in Nat /\ cbMaxCooldown \in Nat /\ ClientTimeout \in Nat
    /\ ClientTimeout <= cbCooldown
    /\ cbCooldown <= cbMaxCooldown
    /\ cbMaxCooldown <= 16 * cbCooldown

VARIABLES
    state,         \* "closed", "open" or "halfOpen"
    failures,      \* consecutive failures, exact up to cbThreshold
    tripCount,     \* trips since the breaker was last closed, exact up to TripCap
    sinceFailure,  \* ticks since lastFailure, exact up to Forever
    age,           \* age[w]: how long w's call has been running, or Idle
    quiet          \* history: ticks since a call was last admitted, up to Forever

vars == <<state, failures, tripCount, sinceFailure, age, quiet>>

Idle == -1
TripCap == 5                   \* from five trips on every cooldown is the longest one
Forever == cbMaxCooldown + 1   \* every clock comparison is decided by then

AtMost(n, cap) == IF n > cap THEN cap ELSE n

InFlight == {w \in Workers : age[w] # Idle}

(***************************************************************************)
(* cbCooldown doubled once per trip after the first, never above the cap.  *)
(***************************************************************************)
Doublings == <<1, 2, 4, 8, 16>>
Cooldown(n) == AtMost(cbCooldown * Doublings[AtMost(n, TripCap)], cbMaxCooldown)

Types ==
    /\ state \in {"closed", "open", "halfOpen"}
    /\ failures \in 0..cbThreshold
    /\ tripCount \in 0..TripCap
    /\ sinceFailure \in 0..Forever
    /\ age \in [Workers -> Idle..ClientTimeout]
    /\ quiet \in 0..Forever

\* failures, tripCount and state move together under every order of late
\* results: a closed breaker is below the threshold and has forgotten its
\* trips, one that is not closed has reached it and tripped.
CountersAgree ==
    IF state = "closed"
    THEN failures < cbThreshold /\ tripCount = 0
    ELSE failures = cbThreshold /\ tripCount >= 1

\* The types, and counters that are in step with the state.
TypeOK == Types /\ CountersAgree

\* A breaker is created closed; its zero lastFailure lies far in the past.
Init ==
    /\ state = "closed"
    /\ failures = 0
    /\ tripCount = 0
    /\ sinceFailure = Forever
    /\ age = [w \in Workers |-> Idle]
    /\ quiet = Forever

-----------------------------------------------------------------------------
(***************************************************************************)
(* Allow.  A refusal changes nothing: the worker saves its job and leaves. *)
(***************************************************************************)
StartCall(w) ==
    /\ age[w] = Idle
    /\ age' = [age EXCEPT ![w] = 0]
    /\ quiet' = 0

\* Mutant of Healthy: the half-open case of the switch is missing.
NotOpen == state # "open"
Healthy == state = "closed"

Allow(w) ==
    /\ Healthy
    /\ StartCall(w)
    /\ UNCHANGED <<state, failures, tripCount, sinceFailure>>

\* Mutant of CooledDown: the cooldown does not grow with the trips.
CooledDownFlat == sinceFailure > cbCooldown
CooledDown == sinceFailure > Cooldown(tripCount)

Probe(w) ==
    /\ state = "open"
    /\ CooledDown
    /\ state' = "halfOpen"
    /\ StartCall(w)
    /\ UNCHANGED <<failures, tripCount, sinceFailure>>

EndCall(w) ==
    /\ age[w] # Idle
    /\ age' = [age EXCEPT ![w] = Idle]
    /\ UNCHANGED quiet

RecordSuccess(w) ==
    /\ EndCall(w)
    /\ failures' = 0
    /\ tripCount' = 0
    /\ state' = "closed"
    /\ UNCHANGED sinceFailure

\* Mutant of Reopen: a failed probe is counted like any other failure.
NoReopen == FALSE
Reopen == state = "halfOpen"
\* Mutant of Trip: off by one.
TripLate == state = "closed" /\ failures + 1 > cbThreshold
Trip == state = "closed" /\ failures + 1 >= cbThreshold

RecordFailure(w) ==
    /\ EndCall(w)
    /\ failures' = AtMost(failures + 1, cbThreshold)
    /\ sinceFailure' = 0
    /\ \/ /\ Reopen
          /\ state' = "open"
          /\ tripCount' = AtMost(tripCount + 1, TripCap)
       \/ /\ Trip
          /\ state' = "open"
          /\ tripCount' = 1
       \/ /\ ~Reopen /\ ~Trip
          /\ UNCHANGED <<state, tripCount>>

\* The client's timeout ends a call before it outlives ClientTimeout.
InTime(w) == age[w] < ClientTimeout

Tick ==
    /\ \A w \in Workers : InTime(w)
    /\ sinceFailure' = AtMost(sinceFailure + 1, Forever)
    /\ quiet' = AtMost(quiet + 1, Forever)
    /\ age' = [w \in Workers |-> IF age[w] = Idle THEN Idle ELSE age[w] + 1]
    /\ UNCHANGED <<state, failures, tripCount>>

Next ==
    \/ \E w \in Workers :
          Allow(w) \/ Probe(w) \/ RecordSuccess(w) \/ RecordFailure(w)
    \/ Tick

Spec == Init /\ [][Next]_vars

(***************************************************************************)
(* Time passes, a call comes back (its client times out), and somebody     *)
(* keeps asking: a refused job is saved as pending and the sweeper brings  *)
(* it back every time its date has passed.                                 *)
(***************************************************************************)
Fairness ==
    /\ WF_vars(Tick)
    /\ \A w \in Workers : WF_vars(RecordSuccess(w) \/ RecordFailure(w))
    /\ WF_vars(\E w \in Workers : Probe(w))

FairSpec == Spec /\ Fairness

-----------------------------------------------------------------------------
\* While the breaker is half open exactly one call to the target is running,
\* the probe: "already have a probe in flight" (circuit.go:71).  Nothing counts
\* the calls; it holds because every call admitted before the breaker tripped
\* has ended by the time a cooldown is over.
SingleProbe ==
    state = "halfOpen" =>
        \E w \in InFlight : \A v \in InFlight : v = w

\* No hammering of a dead target (forwarder.go:34): a probe starts only when
\* no call at all was started for longer than the current cooldown.
ProbeAfterSilence ==
    [][state = "open" /\ state' = "halfOpen" => quiet > Cooldown(tripCount)]_vars

\* A target that stops failing is served again: if from some point on no call
\* fails, the breaker is closed from some point on, however long it was open
\* and whatever calls were running when the target came back.
Recovers ==
    <>[][~ \E w \in Workers : RecordFailure(w)]_vars => <>[](state = "closed")

=============================================================================
