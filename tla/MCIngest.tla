------------------------------ MODULE MCIngest ------------------------------
(* Instances of Ingest for TLC. *)
EXTENDS Ingest, TLC

CONSTANTS h1, h2, h3, h4, c1, c2, c3, c4, e1, e2

\* One endpoint, or another one for the last handler.
OneEndpoint == [h \in Handlers |-> e1]
Split3 == [h \in Handlers |-> IF h = h3 THEN e2 ELSE e1]
Split4 == [h \in Handlers |-> IF h = h4 THEN e2 ELSE e1]

\* Result channels are alike.
ChanSymmetry == Permutations(Chans)
=============================================================================
