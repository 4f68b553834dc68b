----------------------------- MODULE MCCircuit -----------------------------
(***************************************************************************)
(* Instance of Circuit for TLC, and the doubling loop of Allow as it is    *)
(* written, against which the closed form Cooldown is checked.             *)
(***************************************************************************)
EXTENDS Circuit, TLC

CONSTANTS w1, w2, w3

\* for i := 1; i < tripCount && cooldown < cbMaxCooldown; i++ { cooldown *= 2 }
RECURSIVE Double(_, _, _)
Double(i, n, cooldown) ==
    IF i < n /\ cooldown < cbMaxCooldown
    THEN Double(i + 1, n, 2 * cooldown)
    ELSE cooldown

\* The closed form is what the loop computes, for every count up to twice the
\* cap (in the model counts stop at TripCap).
ASSUME \A n \in 1..2 * TripCap :
          Cooldown(n) = AtMost(Double(1, n, cbCooldown), cbMaxCooldown)
=============================================================================
