------------------------------- MODULE MCVmm -------------------------------
(***************************************************************************)
(* A small memory for Vmm.  Tables have two entries, so that the pages of  *)
(* the heap need several tables at each level; the boot map is the kernel  *)
(* image (page 0) and a direct map of two frames (pages 2 and 3).          *)
(***************************************************************************)
EXTENDS Vmm

MCUsable == 1 .. NBits - 1
MCBootMap == <<[page |-> 0, frame |-> 0], [page |-> 2, frame |-> 0], [page |-> 3, frame |-> 1]>>
============================================================================
