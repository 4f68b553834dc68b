-------------------------------- MODULE MCHub --------------------------------
(***************************************************************************)
(* Hub for TLC.                                                            *)
(***************************************************************************)
EXTENDS Hub, TLC

CONSTANTS c1, c2, m1, m2, m3, e1, e2

\* Two dashboards on one endpoint, two messages about it and one about another.
Watching == (c1 :> e1) @@ (c2 :> e1)
About == (m1 :> e1) @@ (m2 :> e1) @@ (m3 :> e2)
=============================================================================
