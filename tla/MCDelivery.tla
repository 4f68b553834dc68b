----------------------------- MODULE MCDelivery -----------------------------
(***************************************************************************)
(* Instances of Delivery for TLC, and what the schedule of its retries is. *)
(***************************************************************************)
EXTENDS Delivery, Backoff, TLC

CONSTANTS j1, j2, p1, p2, o1

Symmetry == Permutations({j1, j2}) \cup Permutations({p1, p2})

\* The loop computes the capped powers, never less for a later attempt; with the six
\* attempts of forwarder.go:23 the cap of half an hour is never reached, and a job
\* whose calls are made when due is settled within half an hour.
ASSUME BackoffIsCapped ==
    /\ \A n \in 1..14 : Base[n] = Schedule(n)
    /\ \A n \in 1..14 : CalculateNextAttempt(n) \subseteq CalculateNextAttempt(n + 1)
    /\ \A n \in 1..5 : Base[n] < MaxBackoff
    /\ Longest(6) < MaxBackoff
=============================================================================
