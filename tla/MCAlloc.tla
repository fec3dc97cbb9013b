------------------------------ MODULE MCAlloc ------------------------------
(***************************************************************************)
(* Two size classes on pages of 64 bytes for Alloc, so that objects of     *)
(* both and pages are few.                                                 *)
(***************************************************************************)
EXTENDS Alloc

(* With the eight classes of the kernel each block fits as well. *)
ASSUME KernelSizesFit ==
  \A size \in 0 .. 1020 :
    LET k == alloc_get_bin(size + 4)
    IN  k \in 0 .. 7 /\ size + 4 <= obj_size(k)
=============================================================================
