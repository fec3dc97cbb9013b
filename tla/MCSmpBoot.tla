----------------------------- MODULE MCSmpBoot -----------------------------
(***************************************************************************)
(* Every machine of up to three CPUs, in every order of the boot loader's  *)
(* list and with every bootstrap CPU: TLC takes them from the initial      *)
(* states.                                                                 *)
(***************************************************************************)
EXTENDS SmpBoot
=============================================================================
