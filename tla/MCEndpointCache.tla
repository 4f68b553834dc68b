--------------------------- MODULE MCEndpointCache ---------------------------
(***************************************************************************)
(* EndpointCache for TLC.                                                  *)
(***************************************************************************)
EXTENDS EndpointCache, TLC

Symmetry == Permutations(Captures) \cup Permutations(Editors)
=============================================================================
