----------------------------- MODULE ObjectPool -----------------------------
(***************************************************************************)
(* What an allocator of objects promises its callers: an object that is    *)
(* handed out is one that no caller has.                                   *)
(***************************************************************************)
EXTENDS Naturals

CONSTANT Object

VARIABLES held,        \* the objects callers have
          outstanding  \* how many of the calls that got one have not given it back

vars == <<held, outstanding>>

Init == held = {} /\ outstanding = 0

Alloc(o) == o \notin held /\ held' = held \union {o} /\ outstanding' = outstanding + 1
Free(o)  == o \in held /\ held' = held \ {o} /\ outstanding' = outstanding - 1

Next == \E o \in Object : Alloc(o) \/ Free(o)

Spec == Init /\ [][Next]_vars
============================================================================
