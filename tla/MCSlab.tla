------------------------------ MODULE MCSlab ------------------------------
(***************************************************************************)
(* Small caches for SlabCache; the sizes are in the configurations.        *)
(*                                                                         *)
(* The runs with frees identify states that differ only in what no later   *)
(* step or invariant of the run reads: the slots of free_objs above        *)
(* free_count, which are written before they are read again, and the       *)
(* number of outstanding objects.  The stale slots of a magazine stay in   *)
(* the view, since a short refill counts them in.                          *)
(***************************************************************************)
EXTENDS SlabCache

MCPool == [s \in Slab |-> [i \in 1 .. free_count[s] |-> free_objs[s][i]]]
MCView == <<lists, MCPool, free_count, mags, lock, nslabs, cpu, fault, own, held, short>>
============================================================================
