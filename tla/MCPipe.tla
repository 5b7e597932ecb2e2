------------------------------- MODULE MCPipe -------------------------------
(***************************************************************************)
(* Instances of Pipe for TLC.                                              *)
(***************************************************************************)
EXTENDS Pipe

\* A write that always fits in an empty pipe of two bytes and one that never
\* does.
ShortAndLong == {<<1>>, <<2, 3, 4>>}
=============================================================================
