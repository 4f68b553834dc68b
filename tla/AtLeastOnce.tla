---------------------------- MODULE AtLeastOnce ----------------------------
(***************************************************************************)
(* What delivery promises, without queues, copies, leases or crashes.  A   *)
(* job is owed once the store has it, and leaves the store's books in two  *)
(* ways only: the target received it, or MaxAttempts calls failed.  It may *)
(* be received any number of times and it may be owed again after that     *)
(* (the duplicates of FAILURE_MODES.md section 4); it is never forgotten.  *)
(* Durable mode acknowledges and attempts only what is in the books; fast  *)
(* mode may be early with both, and owes a job from its first row on.      *)
(***************************************************************************)
EXTENDS Naturals

CONSTANTS
    Jobs, MaxAttempts,
    Durable    \* ACK_MODE=durable

VARIABLES
    owed,      \* jobs a later attempt will be made for
    failed,    \* jobs given up
    accepted,  \* jobs acknowledged to their sender
    received,  \* jobs the target answered 2xx for
    tries      \* failed calls per job, exact up to MaxAttempts

vars == <<owed, failed, accepted, received, tries>>

Init ==
    /\ owed = {} /\ failed = {} /\ accepted = {} /\ received = {}
    /\ tries = [j \in Jobs |-> 0]

\* The store takes the job, or takes it back.
Owe(j) ==
    /\ owed' = owed \cup {j}
    /\ failed' = failed \ {j}
    /\ UNCHANGED <<accepted, received, tries>>

Known == owed \cup failed \cup received

\* Only what is in the books is acknowledged.
Accept(j) ==
    /\ Durable => j \in Known
    /\ accepted' = accepted \cup {j}
    /\ UNCHANGED <<owed, failed, received, tries>>

Receive(j) ==
    /\ Durable => j \in Known
    /\ received' = received \cup {j}
    /\ UNCHANGED <<owed, failed, accepted, tries>>

Miss(j) ==
    /\ tries' = [tries EXCEPT ![j] = IF @ < MaxAttempts THEN @ + 1 ELSE @]
    /\ UNCHANGED <<owed, failed, accepted, received>>

GiveUp(j) ==
    /\ tries[j] = MaxAttempts
    /\ owed' = owed \ {j}
    /\ failed' = failed \cup {j}
    /\ UNCHANGED <<accepted, received, tries>>

Settle(S) ==
    /\ S \subseteq received
    /\ owed' = owed \ S
    /\ failed' = failed \ S
    /\ UNCHANGED <<accepted, received, tries>>

Next ==
    \/ \E j \in Jobs : Owe(j) \/ Accept(j) \/ Receive(j) \/ Miss(j) \/ GiveUp(j)
    \/ \E S \in SUBSET Jobs : Settle(S)

Spec == Init /\ [][Next]_vars

\* The promise of durable mode (README.md:41, FAILURE_MODES.md:10-12).
NothingForgotten == Durable => accepted \subseteq Known

\* A job is given up only after MaxAttempts calls have failed.
HonestFailures == \A j \in failed : tries[j] = MaxAttempts

\* In both modes: what has been in the books once stays there or was received.
NothingDropped == [][Known \subseteq Known']_vars
=============================================================================
