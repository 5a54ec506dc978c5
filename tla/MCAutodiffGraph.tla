--------------------------- MODULE MCAutodiffGraph ---------------------------
(***************************************************************************)
(* AutodiffGraph with several interchangeable threads, for runs that check *)
(* safety only.                                                            *)
(***************************************************************************)
EXTENDS AutodiffGraph, TLC

Symmetry == Permutations(Threads)
=============================================================================
