----------------------------- MODULE PmmProofs -----------------------------
(***************************************************************************)
(* Proofs about the page-frame allocator, for every bitmap size and every  *)
(* set of usable frames.                                                   *)
(***************************************************************************)
EXTENDS Pmm, TLAPS

(* The invariant holds of the bitmap pmm_init builds. *)
LEMMA InitIInv == Init => IInv
<1> SUFFICES ASSUME Init PROVE IInv
  OBVIOUS
<1>1. TypeOK
  BY NBitsAssumption, UsableAssumption DEF Init, pmm_init, TypeOK
<1>2. BitmapIsHeld
  BY UsableAssumption DEF Init, pmm_init, BitmapIsHeld
<1>3. HintBoundsHeld
  BY DEF Init, HintBoundsHeld
<1>4. UnusableTaken
  BY DEF Init, pmm_init, UnusableTaken
<1>5. QED
  BY <1>1, <1>2, <1>3, <1>4 DEF IInv

(* pmm_alloc keeps the invariant. *)
LEMMA AllocIInv ==
  ASSUME IInv, NEW f \in Frame, Alloc(f)
  PROVE  IInv'
<1> USE DEF Alloc, pmm_alloc, StopsAt, IInv
<1>1. f \in Usable
  BY DEF UnusableTaken
<1>2. TypeOK'
  BY DEF TypeOK
<1>3. BitmapIsHeld'
  BY <1>1, UsableAssumption DEF TypeOK, BitmapIsHeld
<1>4. HintBoundsHeld'
  BY DEF HintBoundsHeld, TypeOK, Frame
<1>5. UnusableTaken'
  BY <1>1 DEF UnusableTaken, TypeOK
<1>6. QED
  BY <1>2, <1>3, <1>4, <1>5

(* pmm_free keeps the invariant. *)
LEMMA FreeIInv ==
  ASSUME IInv, NEW f \in Frame, Free(f)
  PROVE  IInv'
<1> USE DEF Free, pmm_free, IInv
<1>1. TypeOK'
  BY DEF TypeOK
<1>2. BitmapIsHeld'
  BY UsableAssumption DEF TypeOK, BitmapIsHeld
<1>3. HintBoundsHeld'
  BY DEF HintBoundsHeld
<1>4. UnusableTaken'
  BY DEF UnusableTaken, BitmapIsHeld, TypeOK
<1>5. QED
  BY <1>1, <1>2, <1>3, <1>4

(* Every step keeps the invariant. *)
LEMMA NextIInv == IInv /\ [Next]_vars => IInv'
<1> SUFFICES ASSUME IInv, [Next]_vars PROVE IInv'
  OBVIOUS
<1>1. CASE \E f \in Frame : Alloc(f)
  BY <1>1, AllocIInv
<1>2. CASE Overrun
  BY <1>2 DEF Overrun, pmm_alloc_overrun, IInv, TypeOK, BitmapIsHeld,
              HintBoundsHeld, UnusableTaken
<1>3. CASE \E f \in Frame : Free(f)
  BY <1>3, FreeIInv
<1>4. CASE UNCHANGED vars
  BY <1>4 DEF vars, pmmVars, IInv, TypeOK, BitmapIsHeld, HintBoundsHeld, UnusableTaken
<1>5. QED
  BY <1>1, <1>2, <1>3, <1>4 DEF Next

(* The inductive invariant holds in every reachable state. *)
THEOREM Invariance == Spec => []IInv
  BY InitIInv, NextIInv, PTL DEF Spec

(* Type correctness of the allocator. *)
THEOREM TypeCorrect == Spec => []TypeOK
<1>1. IInv => TypeOK
  BY DEF IInv
<1>2. QED
  BY <1>1, Invariance, PTL

(* For every memory: the taken bits of usable frames are exactly the       *)
(* frames the callers of pmm_alloc own.                                    *)
THEOREM BitmapExact == Spec => []BitmapIsHeld
<1>1. IInv => BitmapIsHeld
  BY DEF IInv
<1>2. QED
  BY <1>1, Invariance, PTL

(* For every memory: nothing above the hint is ever owned. *)
THEOREM HintIsBound == Spec => []HintBoundsHeld
<1>1. IInv => HintBoundsHeld
  BY DEF IInv
<1>2. QED
  BY <1>1, Invariance, PTL

(* For every memory: a frame freed below the hint is never handed out      *)
(* again, by any later sequence of pmm_alloc and pmm_free.                 *)
THEOREM LeakIsPermanent == Spec => LostForever
<1>1. TypeOK /\ [Next]_vars => [Lost \subseteq Lost']_vars
  <2> SUFFICES ASSUME TypeOK, Next PROVE Lost \subseteq Lost'
    OBVIOUS
  <2>1. ASSUME NEW f \in Frame, Alloc(f) PROVE Lost \subseteq Lost'
    BY <2>1 DEF Alloc, pmm_alloc, StopsAt, Lost, TypeOK, Frame
  <2>2. CASE Overrun
    BY <2>2 DEF Overrun, pmm_alloc_overrun, Lost
  <2>3. ASSUME NEW f \in Frame, Free(f) PROVE Lost \subseteq Lost'
    BY <2>3 DEF Free, pmm_free, Lost, TypeOK
  <2>4. QED
    BY <2>1, <2>2, <2>3 DEF Next
<1>2. QED
  BY <1>1, TypeCorrect, PTL DEF Spec, LostForever
============================================================================
