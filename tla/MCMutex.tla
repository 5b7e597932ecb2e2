------------------------------ MODULE MCMutex ------------------------------
(***************************************************************************)
(* Instances of Mutex for TLC.                                             *)
(***************************************************************************)
EXTENDS MutexInv

Symmetry == Permutations(Threads)
=============================================================================
