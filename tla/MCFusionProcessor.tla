-------------------------- MODULE MCFusionProcessor --------------------------
(***************************************************************************)
(* FusionProcessor on a small instance: two client streams that share the  *)
(* plan store.  Streams, kinds and tensors are interchangeable, which      *)
(* TLC may use because this run checks safety only.                        *)
(***************************************************************************)
EXTENDS FusionProcessor, TLC

Symmetry ==
    Permutations(Streams) \cup Permutations(Kinds) \cup Permutations(Tensors)
=============================================================================
