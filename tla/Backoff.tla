-------------------------------- MODULE Backoff --------------------------------
(***************************************************************************)
(* The retry schedule (internal/forwarder/retry.go), in seconds.           *)
(***************************************************************************)
EXTENDS Naturals

LOCAL INSTANCE FiniteSetsExt

InitialBackoff == 4
MaxBackoff == 30 * 60

\* base after the loop, for a job that has failed attempts times.
Base[attempts \in Nat] ==
    IF attempts <= 1 THEN InitialBackoff
    ELSE Min({Base[attempts - 1] * InitialBackoff, MaxBackoff})

\* The seconds until the next attempt: full jitter.
CalculateNextAttempt(attempts) == 0..Base[attempts]

\* What the loop is meant to compute: the powers, up to the cap.
Schedule(attempts) == Min({InitialBackoff ^ attempts, MaxBackoff})

\* The longest time from the first attempt to the last of n, but for the calls and
\* for what the sweeper and an open circuit add.
Longest(n) == MapThenSumSet(LAMBDA i : Base[i], 1..n - 1)
=============================================================================
