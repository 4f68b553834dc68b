---------------------------- MODULE MCTransformer ----------------------------
(***************************************************************************)
(* Transformer for TLC.                                                    *)
(***************************************************************************)
EXTENDS Transformer
=============================================================================
