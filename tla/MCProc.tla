------------------------------- MODULE MCProc -------------------------------
(***************************************************************************)
(* Instances of Proc for TLC.                                              *)
(***************************************************************************)
EXTENDS Proc

\* wait4 for any child, for the children in the same group or for one child.
AnyPid == {-1}
SomePids == {-1, 0, 2}
=============================================================================
