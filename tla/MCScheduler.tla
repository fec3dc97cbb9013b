---------------------------- MODULE MCScheduler ----------------------------
(***************************************************************************)
(* Every machine with up to three CPUs: TLC takes the LAPIC ids and the    *)
(* bootstrap CPU from the initial states.  Three threads of kmain make the *)
(* queues of two APs differ in length.                                     *)
(***************************************************************************)
EXTENDS Scheduler
============================================================================
