--------------------------- MODULE Acknowledgment ---------------------------
(***************************************************************************)
(* What a sender may conclude from the answer to a request, without        *)
(* channels, batches or workers.  In durable mode 200 says that the        *)
(* request is stored; 500 and 503 say that it is not and never will be, so *)
(* that sending it again makes no duplicate.  Two things take that         *)
(* certainty away: a sender that hangs up while its answer is due, and a   *)
(* transaction whose outcome is unknown.  In fast mode 200 says nothing.   *)
(***************************************************************************)
CONSTANTS
    Requests,
    Durable    \* ACK_MODE=durable

VARIABLES
    stored,    \* requests that are committed
    told,      \* told[r]: "nothing", "ok" (200), "error" (500) or "busy" (503)
    doubt,     \* a sender has hung up while its answer was due
    unsure     \* a transaction failed in a way that leaves its outcome unknown

vars == <<stored, told, doubt, unsure>>

Init ==
    /\ stored = {} /\ told = [r \in Requests |-> "nothing"]
    /\ doubt = FALSE /\ unsure = FALSE

\* One transaction takes all of its requests, each for the first time, and none
\* whose sender was told that it is not there.
Commit(B) ==
    /\ B \cap stored = {}
    /\ \A r \in B : told[r] = "nothing" \/ (told[r] = "ok" /\ ~Durable) \/ doubt
    /\ stored' = stored \cup B
    /\ unsure' \in {unsure, TRUE}
    /\ UNCHANGED <<told, doubt>>

Tell(r, answer) ==
    /\ told[r] = "nothing"
    /\ told' = [told EXCEPT ![r] = answer]
    /\ UNCHANGED <<stored, unsure>>

Accept(r) ==
    /\ Durable => r \in stored \/ doubt
    /\ Tell(r, "ok")
    /\ UNCHANGED doubt

Refuse(r) ==
    /\ Durable
    /\ r \notin stored \/ doubt \/ unsure
    /\ Tell(r, "error")
    /\ UNCHANGED doubt

\* No room for the request.
TurnAway(r) ==
    /\ r \notin stored
    /\ Tell(r, "busy")
    /\ UNCHANGED doubt

\* The handler leaves, and the request goes its way.
HangUp(r) ==
    /\ Durable
    /\ Tell(r, "busy")
    /\ doubt' = TRUE

Next ==
    \/ \E B \in SUBSET Requests : Commit(B)
    \/ \E r \in Requests : Accept(r) \/ Refuse(r) \/ TurnAway(r) \/ HangUp(r)

Spec == Init /\ [][Next]_vars

\* README.md:41-42.  As long as nobody hung up an answer of durable mode is true,
\* and 503 is in both modes; a 500 may be wrong when an outcome is unknown.
Truthful ==
    ~doubt =>
        \A r \in Requests :
            /\ Durable /\ told[r] = "ok" => r \in stored
            /\ told[r] = "error" /\ ~unsure => r \notin stored
            /\ told[r] = "busy" => r \notin stored
=============================================================================
