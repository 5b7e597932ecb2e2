----------------------------- MODULE MCCondvar -----------------------------
(***************************************************************************)
(* Instances of Condvar for TLC.                                           *)
(***************************************************************************)
EXTENDS Condvar

Symmetry == Permutations(Threads)
=============================================================================
