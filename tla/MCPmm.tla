------------------------------- MODULE MCPmm -------------------------------
(***************************************************************************)
(* A small memory for Pmm: thirteen frames, of which 0 (firmware), 1 (the  *)
(* bitmap itself), 5 and 10 (reserved holes) are never usable.             *)
(***************************************************************************)
EXTENDS Pmm

MCUsable == {2, 3, 4, 6, 7, 8, 9, 11, 12}
============================================================================
