------------------------------ MODULE MCPhysmem ------------------------------
(***************************************************************************)
(* Instances of Physmem for TLC.                                           *)
(***************************************************************************)
EXTENDS Physmem

Seg(first, start, npages, used) ==
  [first |-> first, start |-> start, npages |-> npages, used |-> used]

\* Memory below the kernel, which starts at page 1 as the boards plug it from
\* PAGESIZE on, the kernel, and the memory above it.
AroundKernel == <<Seg(0, 1, 5, FALSE), Seg(5, 6, 2, TRUE), Seg(7, 8, 2, FALSE)>>

\* Two of the largest blocks side by side.
Large == <<Seg(0, 8, 8, FALSE)>>
=============================================================================
