-------------------------------- MODULE Pmm --------------------------------
(***************************************************************************)
(* The physical page-frame allocator, kernel/src/mm/pmm.c.                 *)
(*                                                                         *)
(* One bit per frame says whether the frame is taken.  pmm_alloc walks the *)
(* bits upwards from the hint pmm_last_free to the first clear bit, takes  *)
(* that frame and leaves the hint on it; pmm_free clears one bit and does  *)
(* NOT move the hint.  Neither function looks at the size of the bitmap,   *)
(* so a walk that finds no clear bit reads past its end: from then on the  *)
(* program hands out memory that does not exist, and the module says only  *)
(* that this happened (pmm_overrun).                                       *)
(*                                                                         *)
(* held is a history variable: the frames the callers own.  The module is  *)
(* at once the component and the contract its users are held to: Spec of   *)
(* module Vmm implements Spec here with held replaced by the frames the    *)
(* virtual memory manager can account for.                                 *)
(***************************************************************************)
EXTENDS Integers

CONSTANTS
  NBits,      \* bits in the bitmap, 8 * pmm_bitmap_size
  Usable,     \* the frames whose bit pmm_init cleared
  FirstFree   \* pmm_last_free as pmm_init leaves it

ASSUME NBitsAssumption == NBits \in Nat \ {0}

Frame == 0 .. NBits - 1

(* pmm_init sets the hint to the base of the first usable entry, and the   *)
(* boot loader lists the entries in ascending order.                       *)
ASSUME UsableAssumption ==
  /\ Usable \subseteq Frame
  /\ FirstFree \in Frame
  /\ \A f \in Usable : FirstFree <= f

VARIABLES pmm_bitmap, pmm_last_free, pmm_overrun, held

pmmVars == <<pmm_bitmap, pmm_last_free, pmm_overrun>>
vars == <<pmmVars, held>>

----------------------------------------------------------------------------
(* Mutant: the walk starts at the first frame, not at the hint. *)
Mutant_StopsAt(f) ==
  /\ pmm_bitmap[f] = 0
  /\ \A g \in 0 .. f - 1 : pmm_bitmap[g] = 1

(* The walk `while (pmm_bitmap_get(idx) != 0) idx++' from the hint stops at f. *)
StopsAt(f) ==
  /\ f \in pmm_last_free .. NBits - 1
  /\ pmm_bitmap[f] = 0
  /\ \A g \in pmm_last_free .. f - 1 : pmm_bitmap[g] = 1

(* Mutant: the clearing loop of pmm_init runs one page too far. *)
Mutant_pmm_init ==
  /\ pmm_bitmap = [f \in Frame |-> IF f \in Usable \/ f - 1 \in Usable THEN 0 ELSE 1]
  /\ pmm_last_free = FirstFree
  /\ pmm_overrun = FALSE

pmm_init ==
  /\ pmm_bitmap = [f \in Frame |-> IF f \in Usable THEN 0 ELSE 1]
  /\ pmm_last_free = FirstFree
  /\ pmm_overrun = FALSE

(* Mutant: pmm_alloc does not store the index it stopped at. *)
Mutant_pmm_alloc(f) ==
  /\ ~pmm_overrun
  /\ StopsAt(f)
  /\ pmm_bitmap' = [pmm_bitmap EXCEPT ![f] = 1]
  /\ UNCHANGED <<pmm_last_free, pmm_overrun>>

(* Mutant: pmm_alloc leaves the hint one past the frame it returns. *)
Mutant_pmm_alloc_past(f) ==
  /\ ~pmm_overrun
  /\ StopsAt(f)
  /\ pmm_last_free' = f + 1
  /\ pmm_bitmap' = [pmm_bitmap EXCEPT ![f] = 1]
  /\ UNCHANGED pmm_overrun

pmm_alloc(f) ==
  /\ ~pmm_overrun
  /\ StopsAt(f)
  /\ pmm_last_free' = f
  /\ pmm_bitmap' = [pmm_bitmap EXCEPT ![f] = 1]
  /\ UNCHANGED pmm_overrun

(* No clear bit at or above the hint: the walk leaves the bitmap. *)
pmm_alloc_overrun ==
  /\ ~pmm_overrun
  /\ \A f \in pmm_last_free .. NBits - 1 : pmm_bitmap[f] = 1
  /\ pmm_overrun' = TRUE
  /\ UNCHANGED <<pmm_bitmap, pmm_last_free>>

pmm_free(f) ==
  /\ ~pmm_overrun
  /\ pmm_bitmap' = [pmm_bitmap EXCEPT ![f] = 0]
  /\ UNCHANGED <<pmm_last_free, pmm_overrun>>

----------------------------------------------------------------------------
Init == pmm_init /\ held = {}

Alloc(f) == pmm_alloc(f) /\ held' = held \union {f}
Overrun  == pmm_alloc_overrun /\ UNCHANGED held
Free(f)  == f \in held /\ pmm_free(f) /\ held' = held \ {f}

Next ==
  \/ \E f \in Frame : Alloc(f)
  \/ Overrun
  \/ \E f \in Frame : Free(f)

Spec == Init /\ [][Next]_vars

----------------------------------------------------------------------------
(* The parts of the allocator's state have the types they have in pmm.c. *)
TypeOK ==
  /\ pmm_bitmap \in [Frame -> {0, 1}]
  /\ pmm_last_free \in Frame
  /\ pmm_overrun \in BOOLEAN
  /\ held \subseteq Frame

(* No frame leaks out of the bitmap and none is taken twice: through any   *)
(* sequence of pmm_alloc and pmm_free the taken bits of usable frames are  *)
(* exactly the frames callers own, and no unusable frame is ever owned.    *)
BitmapIsHeld ==
  /\ held \subseteq Usable
  /\ \A f \in Usable : pmm_bitmap[f] = 1 <=> f \in held

(* The hint is an upper bound of everything ever handed out: no frame      *)
(* above pmm_last_free is owned (so the frames above it are untouched).    *)
HintBoundsHeld == \A f \in held : f <= pmm_last_free

(* The bits pmm_init left set are never cleared.  With the other parts it  *)
(* makes BitmapIsHeld inductive: pmm_alloc looks at bits, not at Usable.   *)
UnusableTaken == \A f \in Frame \ Usable : pmm_bitmap[f] = 1

IInv == TypeOK /\ BitmapIsHeld /\ HintBoundsHeld /\ UnusableTaken

(* A frame that pmm_free puts back below the hint: no later walk looks     *)
(* at its bit.                                                             *)
Lost == {f \in Frame : f < pmm_last_free /\ pmm_bitmap[f] = 0}

(* What pmm_free returns below the hint is gone for good: the set of lost  *)
(* frames never shrinks, whatever is allocated or freed afterwards.        *)
LostForever == [][Lost \subseteq Lost']_vars
============================================================================
