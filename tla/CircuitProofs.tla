--------------------------- MODULE CircuitProofs ---------------------------
(***************************************************************************)
(* For every number of workers and every threshold, cooldown and timeout   *)
(* that TimesAssumption allows: the breaker's type and counters, a single  *)
(* probe while it is half open, and silence before every probe.            *)
(***************************************************************************)
EXTENDS Circuit, TLAPS

\* While the breaker is open, every call still running is at least as old as
\* the last failure, and so is the silence: nothing was admitted since.
OpenIsQuiet ==
    state = "open" =>
        /\ \A w \in InFlight : age[w] >= sinceFailure
        /\ quiet >= sinceFailure

IInv == Types /\ CountersAgree /\ OpenIsQuiet /\ SingleProbe

\* No cooldown is shorter than the first one.
LEMMA CooldownBounds ==
    ASSUME NEW n \in 1..TripCap
    PROVE  /\ Cooldown(n) \in Nat
           /\ cbCooldown <= Cooldown(n) /\ Cooldown(n) <= cbMaxCooldown
<1>1. n \in {1, 2, 3, 4, 5}
  BY DEF TripCap
<1>2. AtMost(n, TripCap) = n
  BY DEF AtMost, TripCap
<1>3. Doublings[n] \in {1, 2, 4, 8, 16}
  BY <1>1 DEF Doublings
<1>4. PICK d \in {1, 2, 4, 8, 16} : Doublings[n] = d
  BY <1>3
<1>5. cbCooldown * d \in Nat /\ cbCooldown * d >= cbCooldown
  <2>1. CASE d = 1 BY <2>1, TimesAssumption
  <2>2. CASE d = 2 BY <2>2, TimesAssumption
  <2>3. CASE d = 4 BY <2>3, TimesAssumption
  <2>4. CASE d = 8 BY <2>4, TimesAssumption
  <2>5. CASE d = 16 BY <2>5, TimesAssumption
  <2> QED BY <1>4, <2>1, <2>2, <2>3, <2>4, <2>5
<1>6. Cooldown(n) = AtMost(cbCooldown * d, cbMaxCooldown)
  BY <1>2, <1>4 DEF Cooldown
<1> HIDE DEF Cooldown
<1> QED
  BY <1>5, <1>6, TimesAssumption DEF AtMost

\* When a cooldown is over no call is running.
LEMMA CooledDownIsIdle ==
    ASSUME IInv, state = "open", CooledDown
    PROVE  InFlight = {}
<1>1. tripCount \in 1..TripCap
  BY DEF IInv, Types, CountersAgree
<1>2. cbCooldown <= Cooldown(tripCount) /\ Cooldown(tripCount) \in Nat
  BY <1>1, CooldownBounds
<1>3. sinceFailure > ClientTimeout
  BY <1>2, TimesAssumption DEF CooledDown, IInv, Types
<1>4. \A w \in InFlight : age[w] >= sinceFailure /\ age[w] <= ClientTimeout
  BY DEF IInv, OpenIsQuiet, Types, InFlight
<1> QED
  BY <1>3, <1>4, TimesAssumption DEF IInv, Types, InFlight, Idle

LEMMA InitIInv == Init => IInv
  BY TimesAssumption
     DEF Init, IInv, Types, CountersAgree, OpenIsQuiet, SingleProbe,
         InFlight, Idle, Forever, TripCap

LEMMA AllowKeepsIInv ==
    ASSUME IInv, NEW w \in Workers, Allow(w)
    PROVE  IInv'
  BY TimesAssumption
     DEF IInv, Allow, Healthy, StartCall, Types, CountersAgree, OpenIsQuiet,
         SingleProbe, InFlight, Idle, Forever, TripCap

LEMMA ProbeKeepsIInv ==
    ASSUME IInv, NEW w \in Workers, Probe(w)
    PROVE  IInv'
<1>1. InFlight = {}
  BY CooledDownIsIdle DEF Probe
<1>2. Types'
  BY TimesAssumption DEF IInv, Types, Probe, StartCall, Idle, Forever
<1>3. CountersAgree' /\ OpenIsQuiet'
  BY DEF IInv, CountersAgree, OpenIsQuiet, Probe
<1>4. SingleProbe'
  <2>1. InFlight' = {w}
    BY <1>1 DEF Probe, StartCall, InFlight, IInv, Types, Idle
  <2> QED BY <2>1 DEF SingleProbe
<1> QED BY <1>2, <1>3, <1>4 DEF IInv

LEMMA SuccessKeepsIInv ==
    ASSUME IInv, NEW w \in Workers, RecordSuccess(w)
    PROVE  IInv'
  BY TimesAssumption
     DEF IInv, RecordSuccess, EndCall, Types, CountersAgree, OpenIsQuiet,
         SingleProbe, InFlight, Idle, TripCap

LEMMA FailureKeepsIInv ==
    ASSUME IInv, NEW w \in Workers, RecordFailure(w)
    PROVE  IInv'
<1>1. Types'
  BY TimesAssumption
     DEF IInv, Types, RecordFailure, EndCall, Reopen, Trip, AtMost, Idle,
         Forever, TripCap
<1>2. CountersAgree'
  BY TimesAssumption
     DEF IInv, Types, CountersAgree, RecordFailure, Reopen, Trip, AtMost, TripCap
<1>3. OpenIsQuiet'
  BY <1>1, TimesAssumption
     DEF OpenIsQuiet, Types, RecordFailure, EndCall, InFlight, Idle, IInv
<1>4. SingleProbe'
  BY DEF IInv, Types, SingleProbe, RecordFailure, Reopen, Trip
<1> QED BY <1>1, <1>2, <1>3, <1>4 DEF IInv

LEMMA TickKeepsIInv ==
    ASSUME IInv, Tick
    PROVE  IInv'
<1>1. Types'
  BY TimesAssumption DEF IInv, Types, Tick, InTime, AtMost, Idle, Forever
<1>2. InFlight' = InFlight
  BY DEF IInv, Types, Tick, InFlight, Idle
<1>3. OpenIsQuiet'
  BY <1>1, <1>2, TimesAssumption
     DEF IInv, Types, OpenIsQuiet, Tick, InFlight, AtMost, Idle, Forever
<1>4. CountersAgree' /\ SingleProbe'
  BY <1>2 DEF IInv, CountersAgree, SingleProbe, Tick
<1> QED BY <1>1, <1>3, <1>4 DEF IInv

LEMMA NextKeepsIInv == IInv /\ [Next]_vars => IInv'
<1> SUFFICES ASSUME IInv, [Next]_vars PROVE IInv' OBVIOUS
<1>1. CASE UNCHANGED vars
  BY <1>1 DEF vars, IInv, Types, CountersAgree, OpenIsQuiet, SingleProbe, InFlight
<1>2. ASSUME NEW w \in Workers, Allow(w) PROVE IInv'
  BY <1>2, AllowKeepsIInv
<1>3. ASSUME NEW w \in Workers, Probe(w) PROVE IInv'
  BY <1>3, ProbeKeepsIInv
<1>4. ASSUME NEW w \in Workers, RecordSuccess(w) PROVE IInv'
  BY <1>4, SuccessKeepsIInv
<1>5. ASSUME NEW w \in Workers, RecordFailure(w) PROVE IInv'
  BY <1>5, FailureKeepsIInv
<1>6. CASE Tick
  BY <1>6, TickKeepsIInv
<1> QED
  BY <1>1, <1>2, <1>3, <1>4, <1>5, <1>6 DEF Next

THEOREM Invariance == Spec => []IInv
<1> QED BY InitIInv, NextKeepsIInv, PTL DEF Spec

\* The state of the breaker is always of its type, and its counters are in step
\* with it (circuit.go:25, 77-106).
THEOREM TypeCorrect == Spec => []TypeOK
<1>1. IInv => TypeOK BY DEF IInv, TypeOK
<1> QED BY Invariance, <1>1, PTL

\* A half-open breaker has exactly one call in flight (circuit.go:70).
THEOREM ProbeIsSingle == Spec => []SingleProbe
<1>1. IInv => SingleProbe BY DEF IInv
<1> QED BY Invariance, <1>1, PTL

\* failures, tripCount and state agree under every order of results
\* (circuit.go:77-106).
THEOREM CountersAlwaysAgree == Spec => []CountersAgree
<1>1. IInv => CountersAgree BY DEF IInv
<1> QED BY Invariance, <1>1, PTL

\* No probe starts before the target was left alone for a whole cooldown
\* (circuit.go:56-69).
THEOREM ProbesAreSilent == Spec => ProbeAfterSilence
<1> DEFINE Silence ==
        state = "open" /\ state' = "halfOpen" => quiet > Cooldown(tripCount)
<1>1. ASSUME IInv, [Next]_vars PROVE Silence
  <2> SUFFICES ASSUME state = "open", state' = "halfOpen"
               PROVE  quiet > Cooldown(tripCount)
    OBVIOUS
  <2>1. PICK w \in Workers : Probe(w)
    BY <1>1 DEF Next, vars, Allow, RecordSuccess, RecordFailure, Reopen, Trip, Tick
  <2>2. sinceFailure > Cooldown(tripCount) /\ quiet >= sinceFailure
    BY <1>1, <2>1 DEF Probe, CooledDown, IInv, OpenIsQuiet
  <2>3. tripCount \in 1..TripCap
    BY <1>1 DEF IInv, Types, CountersAgree
  <2>4. Cooldown(tripCount) \in Nat
    BY <2>3, CooldownBounds
  <2> QED BY <1>1, <2>2, <2>4, TimesAssumption DEF IInv, Types, Forever
<1>2. IInv /\ [Next]_vars => [Silence]_vars
  BY <1>1
<1> QED BY <1>2, Invariance, PTL DEF Spec, ProbeAfterSilence
=============================================================================
