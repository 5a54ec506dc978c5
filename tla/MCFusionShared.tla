---------------------------- MODULE MCFusionShared ----------------------------
(* A small instance of FusionSharedTensors: the two threads can be swapped, *)
(* since a stream has at most one other stream to wait for.                 *)
EXTENDS FusionSharedTensors, TLC

Symmetry == Permutations(Threads)
=============================================================================
