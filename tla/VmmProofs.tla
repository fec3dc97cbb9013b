----------------------------- MODULE VmmProofs -----------------------------
(***************************************************************************)
(* Proofs about the virtual memory manager, for every memory, every boot   *)
(* map and every size of the heap.                                         *)
(***************************************************************************)
EXTENDS Vmm, TLAPS, FiniteSetTheorems

(* The ring and the operation in progress have the types of the C structs. *)
RingType == regions \in Seq(RegionType) /\ op \in OpType

IInv == RingType /\ RegionsDisjoint

(* The fields of a region are numbers. *)
LEMMA RegionFields ==
  ASSUME NEW r \in RegionType
  PROVE  r.base \in Nat /\ r.pages \in Nat /\ End(r) \in Nat
BY DEF RegionType, End

(* What a concatenation is: its type, its length and its elements. *)
LEMMA Concatenation ==
  ASSUME NEW S, NEW s \in Seq(S), NEW b \in Seq(S), NEW t, t = s \o b
  PROVE  /\ t \in Seq(S)
         /\ Len(t) = Len(s) + Len(b)
         /\ \A j \in 1 .. Len(s) : t[j] = s[j]
         /\ \A j \in Len(s) + 1 .. Len(s) + Len(b) : t[j] = b[j - Len(s)]
<1>1. t \in Seq(S)
  OBVIOUS
<1>2. Len(t) = Len(s) + Len(b)
  OBVIOUS
<1>3. \A j \in 1 .. Len(s) : t[j] = s[j]
  OBVIOUS
<1>4. \A j \in Len(s) + 1 .. Len(s) + Len(b) : t[j] = b[j - Len(s)]
  OBVIOUS
<1>5. QED
  BY <1>1, <1>2, <1>3, <1>4

(* t is s with e inserted after position k. *)
Inserted(t, s, k, e) ==
  /\ Len(t) = Len(s) + 1
  /\ \A j \in 1 .. Len(t) : t[j] = IF j <= k THEN s[j]
                                   ELSE IF j = k + 1 THEN e ELSE s[j - 1]

(* Inserting after position k: what is where in the longer sequence. *)
LEMMA InsertAfter ==
  ASSUME NEW S, NEW s \in Seq(S), NEW k \in 1 .. Len(s), NEW e \in S
  PROVE  /\ InsertAt(s, k + 1, e) \in Seq(S)
         /\ Inserted(InsertAt(s, k + 1, e), s, k, e)
<1> DEFINE t     == InsertAt(s, k + 1, e)
           front == SubSeq(s, 1, k)
           back  == SubSeq(s, k + 1, Len(s))
<1>1. front \in Seq(S) /\ Len(front) = k /\ \A j \in 1 .. k : front[j] = s[j]
  OBVIOUS
<1>2. back \in Seq(S) /\ Len(back) = Len(s) - k
      /\ \A j \in 1 .. Len(s) - k : back[j] = s[k + j]
  OBVIOUS
<1>3. t = (front \o <<e>>) \o back
  <2>1. (k + 1) - 1 = k
    OBVIOUS
  <2>2. QED
    BY <2>1 DEF InsertAt
<1> HIDE DEF t, front, back
<1> DEFINE longer == front \o <<e>>
<1>4. /\ longer \in Seq(S) /\ Len(longer) = k + 1
      /\ \A j \in 1 .. k + 1 : longer[j] = IF j <= k THEN s[j] ELSE e
  BY <1>1
<1>5. t = longer \o back
  BY <1>3
<1> HIDE DEF longer
<1>6. /\ t \in Seq(S) /\ Len(t) = Len(longer) + Len(back)
      /\ \A j \in 1 .. Len(longer) : t[j] = longer[j]
      /\ \A j \in Len(longer) + 1 .. Len(longer) + Len(back) : t[j] = back[j - Len(longer)]
  <2>1. longer \in Seq(S) /\ back \in Seq(S)
    BY <1>2, <1>4
  <2>2. QED
    BY ONLY <1>5, <2>1, Concatenation
<1>7. Len(t) = Len(s) + 1
  BY <1>2, <1>4, <1>6
<1>8. ASSUME NEW j \in 1 .. Len(t)
      PROVE  t[j] = IF j <= k THEN s[j] ELSE IF j = k + 1 THEN e ELSE s[j - 1]
  <2>1. CASE j <= k + 1
    BY <1>4, <1>6, <2>1
  <2>2. CASE ~(j <= k + 1)
    <3>0. j \in Len(longer) + 1 .. Len(longer) + Len(back)
      BY <1>2, <1>4, <1>7, <2>2
    <3>1. t[j] = back[j - (k + 1)]
      BY <1>4, <1>6, <3>0
    <3>2. j - (k + 1) \in 1 .. Len(s) - k /\ k + (j - (k + 1)) = j - 1
      BY <1>7, <2>2
    <3>3. t[j] = s[j - 1]
      BY <1>2, <3>1, <3>2
    <3>4. QED
      BY <2>2, <3>3
  <2>3. QED
    BY <2>1, <2>2
<1>9. Inserted(t, s, k, e)
  BY <1>7, <1>8 DEF Inserted
<1>10. QED
  BY <1>6, <1>9 DEF t

(* Removing position k: what is where in the shorter sequence. *)
LEMMA RemoveOne ==
  ASSUME NEW S, NEW s \in Seq(S), NEW k \in 1 .. Len(s), NEW t, t = RemoveAt(s, k)
  PROVE  /\ t \in Seq(S)
         /\ Len(t) = Len(s) - 1
         /\ \A j \in 1 .. Len(t) : t[j] = IF j < k THEN s[j] ELSE s[j + 1]
<1> DEFINE front == SubSeq(s, 1, k - 1)
           back  == SubSeq(s, k + 1, Len(s))
<1>1. front \in Seq(S) /\ Len(front) = k - 1 /\ \A j \in 1 .. k - 1 : front[j] = s[j]
  OBVIOUS
<1>2. back \in Seq(S) /\ Len(back) = Len(s) - k
      /\ \A j \in 1 .. Len(s) - k : back[j] = s[k + j]
  OBVIOUS
<1>3. t = front \o back
  BY DEF RemoveAt
<1> HIDE DEF front, back
<1>4. t \in Seq(S) /\ Len(t) = Len(s) - 1
  BY <1>1, <1>2, <1>3
<1>5. ASSUME NEW j \in 1 .. Len(t)
      PROVE  t[j] = IF j < k THEN s[j] ELSE s[j + 1]
  <2>1. CASE j < k
    BY <1>1, <1>2, <1>3, <2>1
  <2>2. CASE ~(j < k)
    <3>1. t[j] = back[j - (k - 1)]
      BY <1>1, <1>2, <1>3, <1>4, <2>2
    <3>2. j - (k - 1) \in 1 .. Len(s) - k /\ k + (j - (k - 1)) = j + 1
      BY <1>4, <2>2
    <3>3. QED
      BY <1>2, <2>2, <3>1, <3>2
  <2>3. QED
    BY <2>1, <2>2
<1>6. QED
  BY <1>4, <1>5

(* The ring is empty before vmm_init. *)
LEMMA InitIInv == Init => IInv
  BY DEF Init, IInv, RingType, OpType, Steps, Callers, RegionsDisjoint, Idle, Start

(* The next page of the boot map is a well-typed operation. *)
LEMMA BootMappingType == ASSUME NEW i \in Nat \ {0} PROVE BootMapping(i) \in OpType
<1>1. CASE i > Len(BootMap)
  BY <1>1 DEF BootMapping, OpType, Steps, Callers, Idle, Start
<1>2. CASE ~(i > Len(BootMap))
  <2>1. i \in 1 .. Len(BootMap)
    BY <1>2, HeapAssumption
  <2>2. BootMap[i] \in BootEntry
    BY <2>1, HeapAssumption
  <2>3. BootMap[i].frame \in Nat
    BY <2>2 DEF BootEntry
  <2>4. QED
    BY <1>2, <2>3 DEF BootMapping, OpType, Steps, Callers
<1>3. QED
  BY <1>1, <1>2

(* The operation keeps its type when mmu_map completes. *)
LEMMA AfterMapType == ASSUME op \in OpType PROVE AfterMap \in OpType
<1>1. BootMapping(op.i + 1) \in OpType
  BY BootMappingType DEF OpType
<1>2. GoTo("data", op.i + 1, op.phys) \in OpType
  BY DEF OpType, Steps, Callers, GoTo
<1>3. AfterAlloc \in OpType
  BY DEF AfterAlloc, OpType, Steps, Callers, GoTo, Idle, Start
<1>4. QED
  BY <1>1, <1>2, <1>3 DEF AfterMap

(* vmm_setup_vma makes a ring of one region. *)
LEMMA SetupIInv ==
  ASSUME IInv, NEW f \in P!Frame, vmm_setup_vma(f)
  PROVE  IInv'
<1>1. Region(HeapBase, 1, f) \in RegionType
  BY HeapAssumption DEF Region, RegionType, P!Frame
<1>2. regions' \in Seq(RegionType) /\ Len(regions') = 1
  BY <1>1 DEF vmm_setup_vma
<1>3. op' \in OpType
  BY BootMappingType DEF vmm_setup_vma
<1>4. RegionsDisjoint'
  BY <1>2 DEF RegionsDisjoint
<1>5. QED
  BY <1>2, <1>3, <1>4 DEF IInv, RingType

(* vmm_insert puts the new region between its predecessor and the hole. *)
LEMMA InsertIInv ==
  ASSUME IInv, NEW f \in P!Frame, vmm_insert(f)
  PROVE  IInv'
<1> USE DEF IInv, RingType
<1>0. regions \in Seq(RegionType)
  OBVIOUS
<1>d. \A a, b \in 1 .. Len(regions) : a < b => End(regions[a]) <= regions[b].base
  BY DEF RegionsDisjoint
<1>1. PICK k \in DOMAIN regions :
        /\ SearchStopsAt(k, op.pages)
        /\ regions' = InsertAt(regions, k + 1, Region(End(regions[k]), op.pages, f))
        /\ op' = Start("data", op.then, End(regions[k]), op.pages)
  BY DEF vmm_insert
<1> DEFINE e == Region(End(regions[k]), op.pages, f)
<1>2. k \in 1 .. Len(regions) /\ regions[k] \in RegionType /\ op.pages \in Nat
  BY DEF OpType, Steps, Callers
<1>3. e \in RegionType /\ End(regions[k]) \in Nat
  BY <1>2 DEF RegionType, Region, End, P!Frame
<1>4. op' \in OpType
  BY <1>1, <1>2, <1>3 DEF OpType, Steps, Callers, Start
<1>5. /\ regions' \in Seq(RegionType)
      /\ Len(regions') = Len(regions) + 1
      /\ \A j \in 1 .. Len(regions') :
           regions'[j] = IF j <= k THEN regions[j]
                         ELSE IF j = k + 1 THEN e ELSE regions[j - 1]
  <2>0. k \in 1 .. Len(regions) /\ e \in RegionType
    BY <1>2, <1>3
  <2> HIDE DEF e
  <2>1. regions' = InsertAt(regions, k + 1, e)
    BY <1>1 DEF e
  <2>2. QED
    <3>1. regions' \in Seq(RegionType) /\ Inserted(regions', regions, k, e)
      BY <1>0, <2>0, <2>1, InsertAfter, Zenon
    <3>2. QED
      BY <3>1 DEF Inserted
<1>6. \A j \in 1 .. Len(regions) :
        regions[j].base \in Nat /\ regions[j].pages \in Nat /\ End(regions[j]) \in Nat
  <2> SUFFICES ASSUME NEW j \in 1 .. Len(regions)
               PROVE  regions[j].base \in Nat /\ regions[j].pages \in Nat /\ End(regions[j]) \in Nat
    OBVIOUS
  <2>1. regions[j] \in RegionType
    OBVIOUS
  <2>2. QED
    BY <2>1, RegionFields, Zenon
<1>e. e.base = End(regions[k]) /\ e.pages = op.pages /\ End(e) = e.base + op.pages
  BY DEF Region, End
<1> HIDE DEF e
<1>7. \A j \in 1 .. k : End(regions[j]) <= e.base
  <2> SUFFICES ASSUME NEW j \in 1 .. k PROVE End(regions[j]) <= End(regions[k])
    BY <1>e
  <2>1. CASE j < k
    <3>1. End(regions[j]) <= regions[k].base
      BY <1>2, <2>1 DEF RegionsDisjoint
    <3>2. regions[k].base <= End(regions[k])
      BY <1>2, <1>6 DEF End
    <3>3. QED
      BY <1>2, <1>6, <3>1, <3>2
  <2>2. CASE j = k
    BY <1>3, <2>2
  <2>3. QED
    BY <1>2, <2>1, <2>2
<1>8. \A j \in k + 1 .. Len(regions) : End(e) <= regions[j].base
  <2> SUFFICES ASSUME NEW j \in k + 1 .. Len(regions) PROVE End(e) <= regions[j].base
    OBVIOUS
  <2>1. k + 1 \in 1 .. Len(regions) /\ j \in 1 .. Len(regions)
    BY <1>2
  <2>2. FitsAfter(k, op.pages)
    BY <1>1, <1>2, <2>1 DEF SearchStopsAt
  <2>3. End(e) <= regions[k + 1].base
    BY <1>2, <1>3, <1>6, <1>e, <2>1, <2>2 DEF FitsAfter
  <2>4. CASE j = k + 1
    BY <2>3, <2>4
  <2>5. CASE j > k + 1
    <3>1. End(regions[k + 1]) <= regions[j].base
      BY <2>1, <2>5 DEF RegionsDisjoint
    <3>2. regions[k + 1].base <= End(regions[k + 1])
      BY <1>6, <2>1 DEF End
    <3>3. End(e) \in Nat
      BY <1>2, <1>3, <1>e
    <3>4. QED
      BY <1>6, <2>1, <2>3, <3>1, <3>2, <3>3
  <2>6. QED
    BY <2>4, <2>5
<1>9. RegionsDisjoint'
  <2> SUFFICES ASSUME NEW i \in 1 .. Len(regions'), NEW j \in 1 .. Len(regions'), i < j
               PROVE  End(regions'[i]) <= regions'[j].base
    BY <1>5 DEF RegionsDisjoint, End
  <2>1. CASE j <= k
    <3>1. regions'[i] = regions[i] /\ regions'[j] = regions[j]
      BY <1>2, <1>5, <2>1
    <3>2. QED
      BY <1>2, <1>d, <2>1, <3>1
  <2>2. CASE j = k + 1
    BY <1>2, <1>5, <1>7, <2>2
  <2>3. CASE j > k + 1 /\ i <= k
    <3>1. regions'[i] = regions[i] /\ regions'[j] = regions[j - 1]
      BY <1>2, <1>5, <2>3
    <3>2. i \in 1 .. Len(regions) /\ j - 1 \in 1 .. Len(regions) /\ i < j - 1
      BY <1>2, <1>5, <2>3
    <3>3. QED
      BY <1>d, <3>1, <3>2
  <2>4. CASE j > k + 1 /\ i = k + 1
    <3>1. regions'[i] = e /\ regions'[j] = regions[j - 1]
      BY <1>2, <1>5, <2>4
    <3>2. j - 1 \in k + 1 .. Len(regions)
      BY <1>2, <1>5, <2>4
    <3>3. QED
      BY <1>8, <3>1, <3>2
  <2>5. CASE j > k + 1 /\ i > k + 1
    <3>1. regions'[i] = regions[i - 1] /\ regions'[j] = regions[j - 1]
      BY <1>2, <1>5, <2>5
    <3>2. i - 1 \in 1 .. Len(regions) /\ j - 1 \in 1 .. Len(regions) /\ i - 1 < j - 1
      BY <1>2, <1>5, <2>5
    <3>3. QED
      BY <1>d, <3>1, <3>2
  <2>6. QED
    BY <1>2, <2>1, <2>2, <2>3, <2>4, <2>5
<1>10. QED
  BY <1>4, <1>5, <1>9

(* Taking a region out of the ring leaves the others in order. *)
LEMMA UnlinkIInv ==
  ASSUME IInv, vmm_unlink
  PROVE  IInv'
<1> USE DEF IInv, RingType
<1>d. \A a, b \in 1 .. Len(regions) : a < b => End(regions[a]) <= regions[b].base
  BY DEF RegionsDisjoint
<1>1. PICK k \in 2 .. Len(regions) : regions' = RemoveAt(regions, k)
  BY DEF vmm_unlink
<1>2. /\ regions' \in Seq(RegionType)
      /\ Len(regions') = Len(regions) - 1
      /\ \A j \in 1 .. Len(regions') : regions'[j] = IF j < k THEN regions[j] ELSE regions[j + 1]
  <2>1. k \in 1 .. Len(regions)
    OBVIOUS
  <2>2. QED
    BY <1>1, <2>1, RemoveOne
<1>3. op' \in OpType
  BY DEF vmm_unlink, OpType, Steps, Callers, Idle, Start, GoTo
<1>4. RegionsDisjoint'
  <2> SUFFICES ASSUME NEW i \in 1 .. Len(regions'), NEW j \in 1 .. Len(regions'), i < j
               PROVE  End(regions'[i]) <= regions'[j].base
    BY <1>2 DEF RegionsDisjoint, End
  <2>1. CASE j < k
    BY <1>2, <2>1, <1>d
  <2>2. CASE i < k /\ k <= j
    BY <1>2, <2>2, <1>d
  <2>3. CASE k <= i
    <3>1. regions'[i] = regions[i + 1] /\ regions'[j] = regions[j + 1]
      BY <1>2, <2>3
    <3>2. i + 1 \in 1 .. Len(regions) /\ j + 1 \in 1 .. Len(regions) /\ i + 1 < j + 1
      BY <1>2
    <3>3. QED
      BY <3>1, <3>2, <1>d
  <2>4. QED
    BY <2>1, <2>2, <2>3
<1>5. QED
  BY <1>2, <1>3, <1>4

(* The other steps leave the ring alone. *)
LEMMA OtherIInv ==
  ASSUME IInv, UNCHANGED regions, op' \in OpType
  PROVE  IInv'
  BY DEF IInv, RingType, RegionsDisjoint, End

(* Every step keeps the ring sorted and disjoint. *)
LEMMA NextIInv == IInv /\ [Next]_vars => IInv'
<1> SUFFICES ASSUME IInv, [Next]_vars PROVE IInv'
  OBVIOUS
<1>0. op \in OpType /\ regions \in Seq(RegionType)
  BY DEF IInv, RingType
<1>1. ASSUME NEW f \in P!Frame, vmm_init_frame(f) PROVE IInv'
  BY <1>0, <1>1, OtherIInv DEF vmm_init_frame
<1>2. ASSUME NEW f \in P!Frame, vmm_setup_vma(f) PROVE IInv'
  BY <1>2, SetupIInv
<1>3. ASSUME NEW f \in P!Frame, mmu_new_level(f) PROVE IInv'
  BY <1>0, <1>3, OtherIInv DEF mmu_new_level
<1>4. ASSUME NEW f \in P!Frame, vmm_insert(f) PROVE IInv'
  BY <1>4, InsertIInv
<1>5. ASSUME NEW f \in P!Frame, vmm_alloc_page(f) PROVE IInv'
  <2>1. op' \in OpType
    BY <1>0, <1>5 DEF vmm_alloc_page, OpType, Steps, Callers, GoTo, P!Frame
  <2>2. QED
    BY <1>5, <2>1, OtherIInv DEF vmm_alloc_page, vmmVars
<1>6. ASSUME NEW f \in P!Frame, vmm_copy_top(f) PROVE IInv'
  BY <1>6, OtherIInv DEF vmm_copy_top, Idle, Start, OpType, Steps, Callers
<1>7. CASE mmu_map
  BY <1>0, <1>7, AfterMapType, OtherIInv DEF mmu_map
<1>8. CASE vmm_free_page
  <2>1. op' \in OpType
    BY <1>0, <1>8 DEF vmm_free_page, OpType, Steps, Callers, Idle, Start, GoTo
  <2>2. QED
    BY <1>8, <2>1, OtherIInv DEF vmm_free_page, vmmVars
<1>9. CASE vmm_unlink
  BY <1>9, UnlinkIInv
<1>10. CASE Overrun
  BY <1>0, <1>10, OtherIInv DEF Overrun, vmmVars
<1>11. ASSUME NEW pages \in Nat, NEW then \in Callers, vmm_alloc(pages, then) PROVE IInv'
  BY <1>11, OtherIInv DEF vmm_alloc, vmmVars, OpType, Steps, Callers, Idle, Start, GoTo
<1>12. CASE vmm_new_pagemap
  <2>1. vmm_alloc(1, "pagemap") /\ "pagemap" \in Callers
    BY <1>12 DEF vmm_new_pagemap, Callers
  <2>2. QED
    BY <1>11, <2>1
<1>13. ASSUME NEW k \in DOMAIN regions, vmm_free(k) PROVE IInv'
  <2>0. regions[k] \in RegionType
    BY <1>0
  <2>1. op' \in OpType
    BY <2>0, <1>13 DEF vmm_free, OpType, Steps, Callers, RegionType, Start
  <2>2. QED
    BY <1>13, <2>1, OtherIInv DEF vmm_free, vmmVars
<1>14. CASE UNCHANGED vars
  BY <1>0, <1>14, OtherIInv DEF vars, vmmVars
<1>15. ASSUME NEW pages \in 1 .. MaxPages, vmm_alloc(pages, "idle") PROVE IInv'
  <2>1. pages \in Nat /\ "idle" \in Callers
    BY DEF Callers
  <2>2. QED
    BY <1>11, <1>15, <2>1
<1>16. QED
  BY <1>1, <1>2, <1>3, <1>4, <1>5, <1>6, <1>7, <1>8, <1>9, <1>10, <1>12, <1>13,
     <1>14, <1>15 DEF Next, Continue

(* For every memory and heap: no sequence of vmm_alloc and vmm_free, with  *)
(* its first-fit search over the holes, hands out a page twice or leaves   *)
(* the ring out of order.                                                  *)
THEOREM AddressSpaceDisjoint == Spec => []RegionsDisjoint
<1>1. IInv => RegionsDisjoint
  BY DEF IInv
<1>2. QED
  BY <1>1, InitIInv, NextIInv, PTL DEF Spec

----------------------------------------------------------------------------
(* The frames.  The rest of the module proves that the manager uses the    *)
(* frame allocator as its contract, Pmm, demands; PP is that contract with *)
(* what was proved about it.                                               *)

PP == INSTANCE PmmProofs WITH held <- Owned

(* Frames and counts of the right kind, and a ring that stays in the heap. *)
Shape ==
  /\ boot \subseteq P!Frame /\ IsFiniteSet(boot) /\ Cardinality(boot) <= 2
  /\ \A k \in DOMAIN tables : tables[k] \in P!Frame
  /\ \A p \in pagemaps : p.frame \in P!Frame
  /\ InFlight \subseteq P!Frame
  /\ \A k \in DOMAIN regions :
       HeapBase <= regions[k].base /\ regions[k].pages > 0 /\ End(regions[k]) <= HeapLimit

(* The running operation works on one region of the ring. *)
OnRegion == \E k \in 2 .. Len(regions) : regions[k].base = op.base /\ regions[k].pages = op.pages

(* What each point of an operation knows. *)
Progress ==
  /\ op.at = "init" => op.then = "boot" /\ regions = <<>> /\ op.i = 0
  /\ op.at # "init" => Len(regions) >= 1
  /\ op.then = "boot" => /\ op.at \in {"init", "map"} /\ Len(regions) <= 1 /\ pagemaps = {}
                         /\ op.at = "map" => op.i \in DOMAIN BootMap
  /\ op.then # "boot" => op.i <= op.pages
  /\ op.at = "region" =>
       /\ op.pages > 0 /\ op.i = 0
       /\ \A k \in DOMAIN regions :
            SearchStopsAt(k, op.pages) => End(regions[k]) + op.pages <= HeapLimit
  /\ op.at \in {"data", "map"} /\ op.then # "boot" => op.i < op.pages /\ OnRegion
  /\ op.at = "free" => op.then = "idle" /\ OnRegion

(* Every page that counts as filled is mapped, down to level 0. *)
Mapped == \A v \in HeapPages : v \in DOMAIN ptes /\ MissingLevels(v) = {} /\ ptes[v] \in P!Frame

(* No frame has two uses. *)
OneUse ==
  /\ \A u, v \in HeapPages : ptes[u] = ptes[v] => u = v
  /\ \A j, k \in DOMAIN regions : regions[j].frame = regions[k].frame => j = k
  /\ DataFrames \intersect (boot \union TableFrames \union RegionFrames \union TopFrames \union InFlight) = {}
  /\ RegionFrames \intersect (boot \union TableFrames \union TopFrames \union InFlight) = {}
  /\ InFlight \intersect (boot \union TableFrames \union TopFrames) = {}

(* There is no pagemap before the heap has its top-level entry. *)
HeapTop == <<3, HeapBase \div Span[3]>>
TopShared ==
  /\ KernelHalfShared
  /\ pagemaps # {} \/ op.at = "top" => HeapTop \in DOMAIN tables

VmmInv == IInv /\ Shape /\ Progress /\ Mapped /\ OneUse /\ TopShared /\ PP!IInv

(* A step of the manager is a step of the allocator or none. *)
PmmStep == [P!Next]_(P!vars)

(* pmm_alloc returns a frame that no part of the manager has. *)
LEMMA FreshFrame ==
  ASSUME PP!IInv, NEW f \in P!Frame, P!pmm_alloc(f)
  PROVE  f \notin Owned
<1>1. pmm_bitmap[f] = 0
  BY DEF P!pmm_alloc, P!StopsAt
<1>2. f \in Usable
  BY <1>1 DEF PP!IInv, PP!UnusableTaken, PP!Frame, P!Frame
<1> QED
  BY <1>1, <1>2 DEF PP!IInv, PP!BitmapIsHeld

(* Taking a frame that then is someone's. *)
LEMMA PmmTakes ==
  ASSUME PP!IInv, NEW f \in P!Frame, P!pmm_alloc(f), Owned' = Owned \union {f}
  PROVE  PP!IInv' /\ PmmStep
<1>1. PP!Alloc(f)
  BY DEF PP!Alloc, PP!pmm_alloc, P!pmm_alloc, P!StopsAt, PP!StopsAt
<1>2. P!Alloc(f)
  BY DEF P!Alloc
<1>3. PP!IInv'
  BY <1>1, PP!AllocIInv, MemoryAssumption DEF PP!Frame, P!Frame
<1> QED
  BY <1>2, <1>3 DEF P!Next, PmmStep

(* Giving back a frame that was someone's and now is nobody's. *)
LEMMA PmmGives ==
  ASSUME PP!IInv, NEW f \in P!Frame, P!pmm_free(f), f \in Owned, Owned' = Owned \ {f}
  PROVE  PP!IInv' /\ PmmStep
<1>1. PP!Free(f)
  BY DEF PP!Free, PP!pmm_free, P!pmm_free
<1>2. P!Free(f)
  BY DEF P!Free
<1>3. PP!IInv'
  BY <1>1, PP!FreeIInv, MemoryAssumption DEF PP!Frame, P!Frame
<1> QED
  BY <1>2, <1>3 DEF P!Next, PmmStep

(* Steps that do not touch the allocator. *)
LEMMA PmmIdle ==
  ASSUME PP!IInv, UNCHANGED pmmVars, Owned' = Owned
  PROVE  PP!IInv' /\ PmmStep
<1>1. UNCHANGED P!vars /\ UNCHANGED PP!vars
  BY DEF P!vars, PP!vars, P!pmmVars, PP!pmmVars, pmmVars
<1>2. PP!IInv'
  BY <1>1, PP!NextIInv, MemoryAssumption DEF PP!Frame, P!Frame
<1> QED
  BY <1>1, <1>2 DEF PmmStep

(* A walk that leaves the bitmap. *)
LEMMA PmmOverruns ==
  ASSUME PP!IInv, P!pmm_alloc_overrun, Owned' = Owned
  PROVE  PP!IInv' /\ PmmStep
<1>1. PP!Overrun /\ P!Overrun
  BY DEF PP!Overrun, PP!pmm_alloc_overrun, P!pmm_alloc_overrun, P!Overrun
<1>2. PP!IInv'
  BY <1>1, PP!NextIInv, MemoryAssumption DEF PP!Frame, P!Frame, PP!Next
<1> QED
  BY <1>1, <1>2 DEF P!Next, PmmStep

(* Two regions with a page in common are one. *)
LEMMA OneRegion ==
  ASSUME IInv, NEW j \in DOMAIN regions, NEW k \in DOMAIN regions, NEW v,
         v \in regions[j].base .. End(regions[j]) - 1,
         v \in regions[k].base .. End(regions[k]) - 1
  PROVE  j = k
<1>1. regions[j] \in RegionType /\ regions[k] \in RegionType /\ j \in Nat /\ k \in Nat
  BY DEF IInv, RingType
<1>2. /\ regions[j].base \in Nat /\ End(regions[j]) \in Nat
      /\ regions[k].base \in Nat /\ End(regions[k]) \in Nat
  BY <1>1, RegionFields, Zenon
<1>3. ~(j < k)
  BY <1>2 DEF IInv, RegionsDisjoint
<1>4. ~(k < j)
  BY <1>2 DEF IInv, RegionsDisjoint
<1> QED
  BY <1>1, <1>3, <1>4

(* Nor do two regions begin at the same page. *)
LEMMA OneBase ==
  ASSUME IInv, Shape, NEW j \in DOMAIN regions, NEW k \in DOMAIN regions,
         regions[j].base = regions[k].base
  PROVE  j = k
<1>1. regions[j] \in RegionType /\ regions[k] \in RegionType
  BY DEF IInv, RingType
<1>2. /\ regions[j].base \in Nat /\ regions[j].pages \in Nat
      /\ regions[k].base \in Nat /\ regions[k].pages \in Nat
  BY <1>1, RegionFields, Zenon
<1>3. /\ regions[j].base \in regions[j].base .. End(regions[j]) - 1
      /\ regions[j].base \in regions[k].base .. End(regions[k]) - 1
  BY <1>2 DEF Shape, End
<1> QED
  BY <1>3, OneRegion

(* The invariant before vmm_init. *)
LEMMA InitVmmInv == Init => VmmInv /\ P!Init
<1> SUFFICES ASSUME Init PROVE VmmInv /\ P!Init
  OBVIOUS
<1>1. /\ boot = {} /\ regions = <<>> /\ tables = <<>> /\ pagemaps = {}
      /\ op = Start("init", "boot", 0, 0)
  BY DEF Init
<1>2. HeapPages = {} /\ TableFrames = {} /\ RegionFrames = {} /\ DataFrames = {}
      /\ InFlight = {} /\ TopFrames = {}
  BY <1>1 DEF HeapPages, TableFrames, RegionFrames, DataFrames, InFlight, TopFrames, Start
<1>3. Owned = {}
  BY <1>1, <1>2 DEF Owned
<1>4. P!Init
  BY <1>3 DEF Init, P!Init
<1>5. PP!IInv
  <2>1. PP!Init
    BY <1>4 DEF P!Init, PP!Init, P!pmm_init, PP!pmm_init, P!Frame, PP!Frame
  <2> QED
    BY <2>1, PP!InitIInv, MemoryAssumption DEF PP!Frame, P!Frame
<1>6. Shape
  BY <1>1, <1>2, FS_EmptySet DEF Shape
<1>7. Progress
  BY <1>1 DEF Progress, Start
<1>8. Mapped /\ OneUse
  BY <1>1, <1>2 DEF Mapped, OneUse
<1>9. TopShared
  BY <1>1 DEF TopShared, KernelHalfShared, Start
<1> QED
  BY <1>4, <1>5, <1>6, <1>7, <1>8, <1>9, InitIInv DEF VmmInv

(* The heap is the pages of its regions that are filled. *)
LEMMA HeapPagesAre ==
  \A v : v \in HeapPages <=> \E k \in 2 .. Len(regions) : v \in FilledPages(regions[k])
BY DEF HeapPages

(* While no operation fills or empties a region, all its pages are filled. *)
LEMMA RestingRegions ==
  ASSUME IInv, UNCHANGED regions, op.at \notin {"data", "map", "free"},
         op'.at \notin {"data", "map", "free"} \/ (op'.at = "free" /\ op'.i = 0)
  PROVE  HeapPages' = HeapPages
<1>1. ASSUME NEW k \in 2 .. Len(regions) PROVE FilledPages(regions[k])' = FilledPages(regions[k])
  <2>0. regions[k] \in RegionType
    BY DEF IInv, RingType
  <2>1. regions[k].base \in Nat
    BY <2>0, RegionFields
  <2>2. FilledPages(regions[k]) = regions[k].base .. End(regions[k]) - 1
    BY DEF FilledPages
  <2>3. FilledPages(regions[k])' = regions[k].base .. End(regions[k]) - 1
    BY <2>1 DEF FilledPages, End
  <2> QED
    BY <2>2, <2>3
<1> QED
  BY <1>1 DEF HeapPages

(* What Progress says of the ring holds while the ring and the operation    *)
(* stay as they are.                                                       *)
LEMMA ProgressKept ==
  ASSUME Progress, UNCHANGED <<regions, pagemaps, op>>
  PROVE  Progress'
BY DEF Progress, OnRegion, SearchStopsAt, FitsAfter, End

(* The same for what concerns the heap's pages. *)
LEMMA HeapKept ==
  ASSUME UNCHANGED <<regions, ptes, op>>
  PROVE  /\ HeapPages' = HeapPages /\ RegionFrames' = RegionFrames
         /\ DataFrames' = DataFrames /\ InFlight' = InFlight
<1>1. HeapPages' = HeapPages
  BY DEF HeapPages, FilledPages, End
<1> QED
  BY <1>1 DEF RegionFrames, DataFrames, InFlight

(* vmm_init takes a frame for the pagemap and one for its top level. *)
LEMMA InitFrameStep ==
  ASSUME VmmInv, NEW f \in P!Frame, vmm_init_frame(f)
  PROVE  VmmInv' /\ PmmStep
<1> USE DEF VmmInv
<1>1. /\ P!pmm_alloc(f) /\ boot' = boot \union {f} /\ Cardinality(boot) < 2
      /\ UNCHANGED <<regions, tables, ptes, pagemaps, op>>
  BY DEF vmm_init_frame
<1>2. /\ HeapPages' = HeapPages /\ RegionFrames' = RegionFrames
      /\ DataFrames' = DataFrames /\ InFlight' = InFlight
  BY <1>1, HeapKept
<1>3. TableFrames' = TableFrames /\ TopFrames' = TopFrames
  BY <1>1 DEF TableFrames, TopFrames
<1>4. Owned' = Owned \union {f}
  BY <1>1, <1>2, <1>3 DEF Owned
<1>5. f \notin Owned
  BY <1>1, FreshFrame
<1>6. IInv'
  BY <1>1, OtherIInv DEF IInv, RingType
<1>7. Shape'
  <2>1. IsFiniteSet(boot \union {f}) /\ Cardinality(boot \union {f}) <= 2
    BY <1>1, FS_AddElement, FS_CardinalityType DEF Shape
  <2> QED
    BY <1>1, <1>2, <2>1 DEF Shape, End
<1>8. Progress'
  BY <1>1, ProgressKept
<1>9. Mapped'
  BY <1>1, <1>2 DEF Mapped, MissingLevels, TableKey
<1>10. OneUse'
  BY <1>1, <1>2, <1>3, <1>5 DEF OneUse, Owned
<1>11. TopShared'
  BY <1>1 DEF TopShared, KernelHalfShared, TopEntries
<1> QED
  BY <1>1, <1>4, <1>6, <1>7, <1>8, <1>9, <1>10, <1>11, PmmTakes

(* vmm_setup_vma makes the head of the ring; it is not a region of anyone. *)
LEMMA SetupStep ==
  ASSUME VmmInv, NEW f \in P!Frame, vmm_setup_vma(f)
  PROVE  VmmInv' /\ PmmStep
<1> USE DEF VmmInv
<1>1. /\ P!pmm_alloc(f) /\ regions' = <<Region(HeapBase, 1, f)>> /\ op' = BootMapping(1)
      /\ op.at = "init" /\ UNCHANGED <<boot, tables, ptes, pagemaps>>
  BY DEF vmm_setup_vma
<1>2. regions = <<>> /\ pagemaps = {}
  BY <1>1 DEF Progress
<1>3. op'.at # "init" /\ op'.at \in {"map", "idle"} /\ (op'.at = "map" => op'.then = "boot" /\ op'.i = 1)
      /\ (op'.at = "map" => 1 \in DOMAIN BootMap) /\ (op'.at = "idle" => op' = Idle)
  BY <1>1, HeapAssumption DEF BootMapping, Idle, Start
<1>4. HeapPages = {} /\ HeapPages' = {}
  BY <1>1, <1>2 DEF HeapPages
<1>5. RegionFrames = {} /\ RegionFrames' = {f}
  BY <1>1, <1>2 DEF RegionFrames, Region
<1>6. /\ DataFrames = {} /\ DataFrames' = {} /\ InFlight = {} /\ InFlight' = {}
      /\ TableFrames' = TableFrames /\ TopFrames' = TopFrames
  BY <1>1, <1>3, <1>4 DEF DataFrames, InFlight, TableFrames, TopFrames
<1>7. Owned' = Owned \union {f}
  BY <1>1, <1>5, <1>6 DEF Owned
<1>8. f \notin Owned
  BY <1>1, FreshFrame
<1>9. IInv'
  BY SetupIInv
<1>10. Shape'
  BY <1>1, <1>6, HeapAssumption, OneTopLevelEntry DEF Shape, Region, End
<1>11. Progress'
  BY <1>1, <1>2, <1>3, HeapAssumption DEF Progress, Idle, Start
<1>12. Mapped' /\ OneUse'
  BY <1>1, <1>4, <1>5, <1>6, <1>8 DEF Mapped, OneUse, Owned, Region
<1>13. TopShared'
  BY <1>1, <1>2, <1>3 DEF TopShared, KernelHalfShared
<1> QED
  BY <1>1, <1>7, <1>9, <1>10, <1>11, <1>12, <1>13, PmmTakes

(* All pages of the heap lie under one entry of the top level. *)
LEMMA HeapPageTop ==
  ASSUME NEW v \in HeapBase .. HeapLimit - 1
  PROVE  v \div Span[3] = HeapBase \div Span[3]
<1> DEFINE d == Span[3]
<1>1. Radix * Radix \in Nat \ {0}
  BY HeapAssumption
<1>2. d \in Nat \ {0}
  BY <1>1, HeapAssumption DEF Span
<1>3. HeapBase \in Nat /\ HeapLimit - 1 \in Nat /\ v \in Nat
  BY HeapAssumption
<1>4. (HeapLimit - 1) \div d = HeapBase \div d
  BY OneTopLevelEntry
<1> HIDE DEF d
<1>5. HeapBase \div d <= v \div d
  BY <1>2, <1>3
<1>6. v \div d <= (HeapLimit - 1) \div d
  BY <1>2, <1>3
<1>7. HeapBase \div d \in Int /\ v \div d \in Int
  BY <1>2, <1>3
<1> QED
  BY <1>4, <1>5, <1>6, <1>7 DEF d

(* The page that an operation on the heap maps lies in its region, and so  *)
(* under the heap's entry of the top level.                                *)
LEMMA MappedTop ==
  ASSUME IInv, Shape, Progress, op.at = "map", op.then # "boot"
  PROVE  /\ MappedPage = op.base + op.i /\ MappedPage \in HeapBase .. HeapLimit - 1
         /\ TableKey(MappedPage, 3) = HeapTop
<1>1. PICK k \in 2 .. Len(regions) : regions[k].base = op.base /\ regions[k].pages = op.pages
  BY DEF Progress, OnRegion
<1>2. op.base \in Nat /\ op.i \in Nat /\ op.pages \in Nat /\ op.i < op.pages
  BY DEF IInv, RingType, OpType, Progress
<1>3. HeapBase <= op.base /\ op.base + op.pages <= HeapLimit
  BY <1>1 DEF Shape, End
<1>4. MappedPage = op.base + op.i /\ MappedPage \in HeapBase .. HeapLimit - 1
  BY <1>2, <1>3, HeapAssumption DEF MappedPage
<1>5. MappedPage \div Span[3] = HeapBase \div Span[3]
  BY <1>4, HeapPageTop
<1> QED
  BY <1>4, <1>5 DEF TableKey, HeapTop

(* A table level that is missing is a level; the deepest is one of them. *)
LEMMA DeepestMissing ==
  ASSUME NEW v, MissingLevels(v) # {}
  PROVE  /\ Max(MissingLevels(v)) \in 1 .. 3
         /\ TableKey(v, Max(MissingLevels(v))) \notin DOMAIN tables
<1> DEFINE M == MissingLevels(v)
<1>1. M \subseteq 1 .. 3 /\ \A level \in M : TableKey(v, level) \notin DOMAIN tables
  BY DEF MissingLevels
<1>2. \E x \in M : \A y \in M : x >= y
  BY <1>1
<1>3. Max(M) \in M
  <2> HIDE DEF M
  <2> QED BY <1>2 DEF Max
<1> QED
  BY <1>1, <1>3

(* mmu_map adds the level that the walk misses. *)
LEMMA NewLevelStep ==
  ASSUME VmmInv, NEW f \in P!Frame, mmu_new_level(f)
  PROVE  VmmInv' /\ PmmStep
<1> USE DEF VmmInv
<1> DEFINE key == TableKey(MappedPage, Max(MissingLevels(MappedPage)))
<1>1. /\ P!pmm_alloc(f) /\ tables' = Entered(tables, key, f) /\ MissingLevels(MappedPage) # {}
      /\ op.at = "map" /\ UNCHANGED <<boot, regions, ptes, pagemaps, op>>
  BY DEF mmu_new_level
<1>2. key \notin DOMAIN tables
  BY <1>1, DeepestMissing
<1>3. /\ DOMAIN tables' = {key} \union DOMAIN tables /\ tables'[key] = f
      /\ \A k \in DOMAIN tables : tables'[k] = tables[k]
  <2> HIDE DEF key
  <2> QED BY <1>1, <1>2 DEF Entered
<1>4. /\ HeapPages' = HeapPages /\ RegionFrames' = RegionFrames
      /\ DataFrames' = DataFrames /\ InFlight' = InFlight /\ TopFrames' = TopFrames
  BY <1>1, HeapKept DEF TopFrames
<1>5. TableFrames' = TableFrames \union {f}
  BY <1>3 DEF TableFrames
<1>6. Owned' = Owned \union {f}
  BY <1>1, <1>4, <1>5 DEF Owned
<1>7. f \notin Owned
  BY <1>1, FreshFrame
<1>8. IInv'
  BY <1>1, OtherIInv DEF IInv, RingType
<1>9. Shape'
  BY <1>1, <1>3, <1>4 DEF Shape, End
<1>10. Progress'
  BY <1>1, ProgressKept
<1>11. Mapped'
  BY <1>1, <1>3, <1>4 DEF Mapped, MissingLevels, TableKey
<1>12. OneUse'
  BY <1>1, <1>4, <1>5, <1>7 DEF OneUse, Owned
<1>13. TopShared'
  <2>1. CASE pagemaps = {}
    BY <1>1, <2>1 DEF TopShared, KernelHalfShared
  <2>2. CASE pagemaps # {}
    <3>1. HeapTop \in DOMAIN tables
      BY <2>2 DEF TopShared
    <3>2. TableKey(MappedPage, 3) = HeapTop
      BY <1>1, <2>2, MappedTop DEF Progress
    <3>3. Max(MissingLevels(MappedPage)) # 3
      BY <1>2, <3>1, <3>2
    <3>4. key[1] # 3
      BY <3>3 DEF TableKey
    <3>5. TopEntries' = TopEntries
      BY <1>3, <3>4 DEF TopEntries
    <3> QED
      BY <1>1, <1>3, <3>1, <3>5 DEF TopShared, KernelHalfShared, TopEntries
  <2> QED
    BY <2>1, <2>2
<1> QED
  BY <1>1, <1>6, <1>8, <1>9, <1>10, <1>11, <1>12, <1>13, PmmTakes

(* The filled pages of a region are pages of it. *)
LEMMA FilledWithin ==
  ASSUME IInv, Shape, Progress, NEW k \in 2 .. Len(regions)
  PROVE  FilledPages(regions[k]) \subseteq regions[k].base .. End(regions[k]) - 1
<1>1. regions[k] \in RegionType /\ op \in OpType /\ k \in DOMAIN regions
  BY DEF IInv, RingType
<1>2. /\ regions[k].base \in Nat /\ regions[k].pages \in Nat /\ End(regions[k]) \in Nat
      /\ op.i \in Nat /\ op.pages \in Nat
  BY <1>1, RegionFields DEF OpType
<1>3. CASE op.base # regions[k].base
  BY <1>3 DEF FilledPages
<1>4. CASE op.base = regions[k].base /\ op.at \in {"data", "map"}
  <2>1. op.then # "boot"
    BY DEF Progress
  <2>2. PICK j \in 2 .. Len(regions) : regions[j].base = op.base /\ regions[j].pages = op.pages
    BY <1>4, <2>1 DEF Progress, OnRegion
  <2>3. j = k
    BY <1>1, <1>4, <2>2, OneBase DEF IInv, RingType
  <2>4. op.i < regions[k].pages
    BY <1>4, <2>1, <2>2, <2>3 DEF Progress
  <2>5. FilledPages(regions[k]) = regions[k].base .. regions[k].base + op.i - 1
    BY <1>4 DEF FilledPages
  <2> QED
    BY <1>2, <2>4, <2>5 DEF End
<1>5. CASE op.base = regions[k].base /\ op.at = "free"
  <2>1. FilledPages(regions[k]) = regions[k].base + op.i .. End(regions[k]) - 1
    BY <1>5 DEF FilledPages
  <2> QED
    BY <1>2, <2>1
<1>6. CASE op.at \notin {"data", "map", "free"}
  BY <1>6 DEF FilledPages
<1> QED
  BY <1>3, <1>4, <1>5, <1>6

(* mmu_map sets the entry of a page of the boot map. *)
LEMMA MapBootStep ==
  ASSUME VmmInv, mmu_map, op.then = "boot"
  PROVE  VmmInv' /\ PmmStep
<1> USE DEF VmmInv
<1>1. /\ op.at = "map" /\ ptes' = Entered(ptes, MappedPage, op.phys)
      /\ op' = BootMapping(op.i + 1)
      /\ UNCHANGED <<pmmVars, boot, regions, tables, pagemaps>>
  BY DEF mmu_map, AfterMap
<1>2. op.i \in 1 .. Len(BootMap) /\ op \in OpType
  BY <1>1, HeapAssumption DEF Progress, IInv, RingType
<1>3. \/ op' = Idle
      \/ op'.at = "map" /\ op'.then = "boot" /\ op'.i \in DOMAIN BootMap
  BY <1>1, <1>2, HeapAssumption DEF BootMapping
<1>4. op' \in OpType
  BY <1>1, <1>2, BootMappingType
<1>5. HeapPages = {} /\ HeapPages' = {}
  BY <1>1 DEF HeapPages, Progress
<1>6. /\ DataFrames = {} /\ DataFrames' = {} /\ InFlight = {} /\ InFlight' = {}
      /\ RegionFrames' = RegionFrames /\ TableFrames' = TableFrames /\ TopFrames' = TopFrames
  BY <1>1, <1>3, <1>5 DEF DataFrames, InFlight, RegionFrames, TableFrames, TopFrames, Idle, Start
<1>7. Owned' = Owned
  BY <1>1, <1>6 DEF Owned
<1>8. IInv'
  BY <1>1, <1>4, OtherIInv
<1>9. Shape'
  BY <1>1, <1>6 DEF Shape, End
<1>10. Progress'
  BY <1>1, <1>3, HeapAssumption DEF Progress, Idle, Start
<1>11. Mapped' /\ OneUse'
  BY <1>1, <1>5, <1>6 DEF Mapped, OneUse
<1>12. TopShared'
  BY <1>1, <1>3 DEF TopShared, KernelHalfShared, TopEntries, Progress, Idle, Start
<1> QED
  BY <1>1, <1>7, <1>8, <1>9, <1>10, <1>11, <1>12, PmmIdle

(* After the last page vmm_alloc is done, or vmm_new_pagemap goes on. *)
LEMMA AfterMapIs ==
  ASSUME op.then # "boot"
  PROVE  \/ op.i + 1 < op.pages /\ AfterMap = GoTo("data", op.i + 1, op.phys)
         \/ ~(op.i + 1 < op.pages) /\ AfterMap = GoTo("top", op.i, op.phys)
         \/ ~(op.i + 1 < op.pages) /\ AfterMap = Idle
BY DEF AfterMap, AfterAlloc

(* mmu_map on the heap fills one more page. *)
LEMMA MapFills ==
  ASSUME VmmInv, mmu_map, op.then # "boot"
  PROVE  HeapPages' = HeapPages \union {MappedPage} /\ MappedPage \notin HeapPages
<1> USE DEF VmmInv
<1>1. op.at = "map" /\ op' = AfterMap /\ UNCHANGED regions
  BY DEF mmu_map
<1>2. PICK k \in 2 .. Len(regions) : regions[k].base = op.base /\ regions[k].pages = op.pages
  BY <1>1 DEF Progress, OnRegion
<1>3. /\ op.base \in Nat /\ op.i \in Nat /\ op.pages \in Nat /\ op.i < op.pages
      /\ MappedPage = op.base + op.i
  BY <1>1 DEF IInv, RingType, OpType, Progress, MappedPage
<1>4. ASSUME NEW j \in 2 .. Len(regions), j # k
      PROVE  FilledPages(regions[j])' = FilledPages(regions[j])
  <2>1. j \in DOMAIN regions /\ k \in DOMAIN regions
    BY DEF IInv, RingType
  <2>2. regions[j].base # op.base
    BY <1>2, <1>4, <2>1, OneBase
  <2>3. op'.base = op.base \/ op'.at = "idle"
    BY <1>1, AfterMapIs DEF GoTo, Idle, Start
  <2> QED
    BY <1>1, <2>2, <2>3 DEF FilledPages, End
<1>5. FilledPages(regions[k]) = op.base .. op.base + op.i - 1
  BY <1>1, <1>2 DEF FilledPages
<1>6. FilledPages(regions[k])' = op.base .. op.base + op.i
  <2>1. CASE op.i + 1 < op.pages /\ op' = GoTo("data", op.i + 1, op.phys)
    BY <1>1, <1>2, <1>3, <2>1 DEF FilledPages, GoTo, End
  <2>2. CASE ~(op.i + 1 < op.pages) /\ op'.at \in {"top", "idle"}
    <3>1. FilledPages(regions[k])' = regions[k].base .. End(regions[k]) - 1
      BY <1>1, <2>2 DEF FilledPages, End
    <3> QED
      BY <1>2, <1>3, <2>2, <3>1 DEF End
  <2> QED
    BY <1>1, <2>1, <2>2, AfterMapIs DEF GoTo, Idle, Start
<1>7. FilledPages(regions[k])' = FilledPages(regions[k]) \union {MappedPage}
  BY <1>3, <1>5, <1>6
<1>8. HeapPages' = HeapPages \union {MappedPage}
  <2>1. \A v : v \in HeapPages' <=> \E j \in 2 .. Len(regions) : v \in FilledPages(regions[j])'
    BY <1>1 DEF HeapPages
  <2>2. \A v : v \in HeapPages' <=> v \in HeapPages \/ v = MappedPage
    BY <1>4, <1>7, <2>1, HeapPagesAre
  <2> QED
    BY <2>2
<1>9. MappedPage \notin HeapPages
  <2> SUFFICES ASSUME NEW j \in 2 .. Len(regions), MappedPage \in FilledPages(regions[j]) PROVE FALSE
    BY HeapPagesAre
  <2>1. MappedPage \in regions[j].base .. End(regions[j]) - 1
    BY FilledWithin
  <2>2. MappedPage \in regions[k].base .. End(regions[k]) - 1
    BY <1>2, <1>3 DEF End
  <2>3. j = k
    BY <2>1, <2>2, OneRegion DEF IInv, RingType
  <2> QED
    BY <1>3, <1>5, <2>3
<1> QED
  BY <1>8, <1>9

(* The frame of a new page goes from the hands of vmm_alloc to the page.   *)
LEMMA MapHeapStep ==
  ASSUME VmmInv, mmu_map, op.then # "boot"
  PROVE  VmmInv' /\ PmmStep
<1> USE DEF VmmInv
<1>1. /\ op.at = "map" /\ ptes' = Entered(ptes, MappedPage, op.phys) /\ op' = AfterMap
      /\ MissingLevels(MappedPage) = {}
      /\ UNCHANGED <<pmmVars, boot, regions, tables, pagemaps>>
  BY DEF mmu_map
<1>2. HeapPages' = HeapPages \union {MappedPage} /\ MappedPage \notin HeapPages
  BY MapFills
<1>3. /\ DOMAIN ptes' = DOMAIN ptes \union {MappedPage} /\ ptes'[MappedPage] = op.phys
      /\ \A v \in HeapPages : ptes'[v] = ptes[v]
  BY <1>1, <1>2 DEF Entered, Mapped
<1>4. op'.at \in {"data", "top", "idle"} /\ (op'.at # "idle" => op'.then = op.then)
      /\ (op'.at = "idle" => op' = Idle)
  BY <1>1, AfterMapIs DEF GoTo, Idle, Start
<1>5. InFlight = {op.phys} /\ InFlight' = {}
  BY <1>1, <1>4 DEF InFlight
<1>6. DataFrames' = DataFrames \union {op.phys}
  BY <1>2, <1>3 DEF DataFrames, Mapped
<1>7. RegionFrames' = RegionFrames /\ TableFrames' = TableFrames /\ TopFrames' = TopFrames
  BY <1>1 DEF RegionFrames, TableFrames, TopFrames
<1>8. Owned' = Owned
  BY <1>1, <1>5, <1>6, <1>7 DEF Owned
<1>9. op' \in OpType
  BY <1>1, AfterMapType DEF IInv, RingType
<1>10. IInv'
  BY <1>1, <1>9, OtherIInv
<1>11. Shape'
  BY <1>1, <1>5 DEF Shape, End
<1>12. Progress'
  <2>1. op.i \in Nat /\ op.pages \in Nat /\ op.i < op.pages /\ OnRegion
    BY <1>1 DEF Progress, IInv, RingType, OpType
  <2>2. CASE op' = GoTo("data", op.i + 1, op.phys) /\ op.i + 1 < op.pages
    BY <1>1, <2>1, <2>2 DEF Progress, GoTo, OnRegion
  <2>3. CASE op' = GoTo("top", op.i, op.phys)
    BY <1>1, <2>1, <2>3 DEF Progress, GoTo
  <2>4. CASE op' = Idle
    BY <1>1, <2>4 DEF Progress, Idle, Start
  <2> QED
    BY <1>1, <2>2, <2>3, <2>4, AfterMapIs
<1>13. Mapped'
  BY <1>1, <1>2, <1>3, <1>5 DEF Mapped, MissingLevels, TableKey, Shape
<1>14. OneUse'
  BY <1>1, <1>2, <1>3, <1>5, <1>6, <1>7 DEF OneUse, DataFrames, Mapped
<1>15. TopShared'
  <2>1. TableKey(MappedPage, 3) \in DOMAIN tables
    BY <1>1 DEF MissingLevels
  <2>2. HeapTop \in DOMAIN tables
    BY <1>1, <2>1, MappedTop
  <2> QED
    BY <1>1, <2>2 DEF TopShared, KernelHalfShared, TopEntries
<1> QED
  BY <1>1, <1>8, <1>10, <1>11, <1>12, <1>13, <1>14, <1>15, PmmIdle

(* A step that only begins an operation, with no frame in hand. *)
LEMMA BeginStep ==
  ASSUME VmmInv, UNCHANGED <<pmmVars, vmmVars>>, op.at = "idle",
         op' \in OpType, op'.i = 0, Progress',
         op'.at = "region" \/ op'.at = "free"
  PROVE  VmmInv' /\ PmmStep
<1> USE DEF VmmInv
<1>1. UNCHANGED <<boot, regions, tables, ptes, pagemaps>>
  BY DEF vmmVars
<1>2. HeapPages' = HeapPages
  BY <1>1, RestingRegions
<1>3. InFlight = {} /\ InFlight' = {}
  BY DEF InFlight
<1>4. /\ DataFrames' = DataFrames /\ RegionFrames' = RegionFrames
      /\ TableFrames' = TableFrames /\ TopFrames' = TopFrames
  BY <1>1, <1>2 DEF DataFrames, RegionFrames, TableFrames, TopFrames
<1>5. Owned' = Owned
  BY <1>1, <1>3, <1>4 DEF Owned
<1>6. IInv'
  BY <1>1, OtherIInv
<1>7. Shape'
  BY <1>1, <1>3 DEF Shape, End
<1>8. Mapped'
  BY <1>1, <1>2 DEF Mapped, MissingLevels, TableKey
<1>9. OneUse'
  BY <1>1, <1>2, <1>3, <1>4 DEF OneUse
<1>10. TopShared'
  BY <1>1 DEF TopShared, KernelHalfShared, TopEntries
<1> QED
  BY <1>5, <1>6, <1>7, <1>8, <1>9, <1>10, PmmIdle

(* vmm_alloc begins when the place that its search finds is in the heap.   *)
LEMMA AllocStep ==
  ASSUME VmmInv, NEW pages \in Nat \ {0}, NEW then \in {"idle", "pagemap"}, vmm_alloc(pages, then)
  PROVE  VmmInv' /\ PmmStep
<1>1. /\ op.at = "idle" /\ op' = Start("region", then, 0, pages) /\ UNCHANGED <<pmmVars, vmmVars>>
      /\ UNCHANGED <<regions, pagemaps>>
      /\ \A k \in DOMAIN regions :
           SearchStopsAt(k, pages) => End(regions[k]) + pages <= HeapLimit
  BY DEF vmm_alloc, vmmVars
<1>2. op' \in OpType /\ op'.i = 0 /\ op'.at = "region"
  BY <1>1 DEF Start, OpType, Steps, Callers
<1>3. Progress'
  <2>1. \A k \in DOMAIN regions :
          SearchStopsAt(k, op.pages)' => End(regions'[k]) + op'.pages <= HeapLimit
    BY <1>1 DEF Start, SearchStopsAt, FitsAfter, End
  <2> QED
    BY <1>1, <2>1 DEF VmmInv, Progress, Start
<1> QED
  BY <1>1, <1>2, <1>3, BeginStep

(* vmm_free begins on a region that is not the head. *)
LEMMA FreeStep ==
  ASSUME VmmInv, NEW k \in DOMAIN regions, vmm_free(k)
  PROVE  VmmInv' /\ PmmStep
<1>1. /\ op.at = "idle" /\ op' = Start("free", "idle", regions[k].base, regions[k].pages)
      /\ UNCHANGED <<pmmVars, vmmVars>> /\ UNCHANGED <<regions, pagemaps>>
      /\ k \in 2 .. Len(regions)
  BY DEF vmm_free, vmmVars
<1>2. regions[k] \in RegionType
  BY DEF VmmInv, IInv, RingType
<1>3. op' \in OpType /\ op'.i = 0 /\ op'.at = "free"
  BY <1>1, <1>2 DEF Start, OpType, Steps, Callers, RegionType
<1>4. regions[k].base \in Nat /\ regions[k].pages \in Nat
  BY <1>2 DEF RegionType
<1>5. Progress'
  BY <1>1, <1>4 DEF VmmInv, Progress, Start, OnRegion
<1> QED
  BY <1>1, <1>3, <1>5, BeginStep

(* vmm_alloc takes the frame of its next page. *)
LEMMA AllocPageStep ==
  ASSUME VmmInv, NEW f \in P!Frame, vmm_alloc_page(f)
  PROVE  VmmInv' /\ PmmStep
<1> USE DEF VmmInv
<1>1. /\ op.at = "data" /\ P!pmm_alloc(f) /\ op' = GoTo("map", op.i, f)
      /\ UNCHANGED <<boot, regions, tables, ptes, pagemaps>>
  BY DEF vmm_alloc_page, vmmVars
<1>2. op' \in OpType
  BY <1>1 DEF IInv, RingType, OpType, Steps, Callers, GoTo, P!Frame
<1>3. op.then # "boot"
  BY <1>1 DEF Progress
<1>4. HeapPages' = HeapPages
  BY <1>1 DEF HeapPages, FilledPages, GoTo, End
<1>5. InFlight = {} /\ InFlight' = {f}
  BY <1>1, <1>3 DEF InFlight, GoTo
<1>6. /\ DataFrames' = DataFrames /\ RegionFrames' = RegionFrames
      /\ TableFrames' = TableFrames /\ TopFrames' = TopFrames
  BY <1>1, <1>4 DEF DataFrames, RegionFrames, TableFrames, TopFrames
<1>7. Owned' = Owned \union {f}
  BY <1>1, <1>5, <1>6 DEF Owned
<1>8. f \notin Owned
  BY <1>1, FreshFrame
<1>9. IInv'
  BY <1>1, <1>2, OtherIInv
<1>10. Shape'
  BY <1>1, <1>5 DEF Shape, End
<1>11. Progress'
  BY <1>1, <1>3 DEF Progress, GoTo, OnRegion
<1>12. Mapped'
  BY <1>1, <1>4 DEF Mapped, MissingLevels, TableKey
<1>13. OneUse'
  BY <1>1, <1>4, <1>5, <1>6, <1>8 DEF OneUse, Owned
<1>14. TopShared'
  BY <1>1 DEF TopShared, KernelHalfShared, TopEntries, GoTo
<1> QED
  BY <1>1, <1>7, <1>9, <1>10, <1>11, <1>12, <1>13, <1>14, PmmTakes

(* vmm_new_pagemap takes its top level and copies the kernel's. *)
LEMMA CopyTopStep ==
  ASSUME VmmInv, NEW f \in P!Frame, vmm_copy_top(f)
  PROVE  VmmInv' /\ PmmStep
<1> USE DEF VmmInv
<1> DEFINE p == [frame |-> f, base |-> op.base, entries |-> [k \in TopEntries |-> tables[k]]]
<1>1. /\ op.at = "top" /\ P!pmm_alloc(f) /\ pagemaps' = pagemaps \union {p} /\ op' = Idle
      /\ UNCHANGED <<boot, regions, tables, ptes>>
  BY DEF vmm_copy_top
<1>2. op' \in OpType /\ op'.at = "idle"
  BY <1>1 DEF Idle, Start, OpType, Steps, Callers
<1>3. HeapPages' = HeapPages
  BY <1>1, <1>2, RestingRegions
<1>4. InFlight = {} /\ InFlight' = {}
  BY <1>1, <1>2 DEF InFlight
<1>5. /\ DataFrames' = DataFrames /\ RegionFrames' = RegionFrames /\ TableFrames' = TableFrames
      /\ TopFrames' = TopFrames \union {f}
  <2>1. DataFrames' = DataFrames /\ RegionFrames' = RegionFrames /\ TableFrames' = TableFrames
    BY <1>1, <1>3 DEF DataFrames, RegionFrames, TableFrames
  <2>2. p.frame = f
    OBVIOUS
  <2> HIDE DEF p
  <2>3. TopFrames' = TopFrames \union {f}
    BY <1>1, <2>2 DEF TopFrames
  <2> QED
    BY <2>1, <2>3
<1>6. Owned' = Owned \union {f}
  BY <1>1, <1>4, <1>5 DEF Owned
<1>7. f \notin Owned
  BY <1>1, FreshFrame
<1>8. IInv'
  BY <1>1, <1>2, OtherIInv
<1>9. Shape'
  BY <1>1, <1>4 DEF Shape, End
<1>10. Progress'
  BY <1>1 DEF Progress, Idle, Start
<1>11. Mapped'
  BY <1>1, <1>3 DEF Mapped, MissingLevels, TableKey
<1>12. OneUse'
  BY <1>1, <1>3, <1>4, <1>5, <1>7 DEF OneUse, Owned
<1>13. TopShared'
  BY <1>1 DEF TopShared, KernelHalfShared, TopEntries
<1> QED
  BY <1>1, <1>6, <1>8, <1>9, <1>10, <1>11, <1>12, <1>13, PmmTakes

(* The region that vmm_insert adds has no page yet, and begins where no    *)
(* other does.                                                             *)
LEMMA InsertKeepsPages ==
  ASSUME VmmInv, NEW f \in P!Frame, vmm_insert(f)
  PROVE  /\ HeapPages' = HeapPages /\ RegionFrames' = RegionFrames \union {f}
         /\ \A j, k \in DOMAIN regions' : regions'[j].frame = regions'[k].frame => j = k
         /\ op'.at = "data" /\ op'.then = op.then /\ op'.i = 0 /\ op'.pages = op.pages
         /\ OnRegion'
         /\ \A j \in DOMAIN regions' :
              HeapBase <= regions'[j].base /\ regions'[j].pages > 0 /\ End(regions'[j]) <= HeapLimit
<1> USE DEF VmmInv
<1>1. PICK k \in DOMAIN regions :
        /\ SearchStopsAt(k, op.pages)
        /\ regions' = InsertAt(regions, k + 1, Region(End(regions[k]), op.pages, f))
        /\ op' = Start("data", op.then, End(regions[k]), op.pages)
  BY DEF vmm_insert
<1> DEFINE e == Region(End(regions[k]), op.pages, f)
<1>2. op.at = "region" /\ op.pages \in Nat /\ op.pages > 0 /\ regions \in Seq(RegionType)
  BY DEF vmm_insert, IInv, RingType, OpType, Progress
<1>3. k \in 1 .. Len(regions) /\ \A j \in 1 .. Len(regions) : regions[j] \in RegionType
  BY <1>2
<1>4. \A j \in 1 .. Len(regions) :
        regions[j].base \in Nat /\ regions[j].pages \in Nat /\ End(regions[j]) \in Nat
  BY <1>3, RegionFields, Zenon
<1>5. /\ e.base = End(regions[k]) /\ e.pages = op.pages /\ e.frame = f
      /\ End(e) = e.base + op.pages /\ e \in RegionType /\ e.base \in Nat
  BY <1>2, <1>3, <1>4 DEF Region, End, RegionType, P!Frame
<1>6. /\ op'.at = "data" /\ op'.then = op.then /\ op'.i = 0 /\ op'.pages = op.pages
      /\ op'.base = e.base
  BY <1>1, <1>5 DEF Start
<1>7. Inserted(regions', regions, k, e)
  <2> HIDE DEF e
  <2>1. regions' = InsertAt(regions, k + 1, e)
    BY <1>1 DEF e
  <2> QED
    BY <1>2, <1>3, <1>5, <2>1, InsertAfter, Zenon
<1>8. IInv'
  BY InsertIInv
<1> HIDE DEF e
<1>9. /\ DOMAIN regions' = 1 .. Len(regions) + 1 /\ DOMAIN regions = 1 .. Len(regions)
      /\ Len(regions') = Len(regions) + 1
      /\ \A j \in 1 .. Len(regions) + 1 :
           regions'[j] = IF j <= k THEN regions[j] ELSE IF j = k + 1 THEN e ELSE regions[j - 1]
  BY <1>2, <1>7, <1>8 DEF Inserted, IInv, RingType
<1>10. regions'[k + 1] = e /\ k + 1 \in 2 .. Len(regions')
  BY <1>3, <1>9
<1>11. \A a, b \in 1 .. Len(regions) + 1 : a < b => End(regions'[a]) <= regions'[b].base
  BY <1>8, <1>9 DEF IInv, RegionsDisjoint, End
<1>12. \A j \in 1 .. Len(regions) : regions[j].base # e.base
  <2> SUFFICES ASSUME NEW j \in 1 .. Len(regions) PROVE regions[j].base # e.base
    OBVIOUS
  <2>1. regions[j].pages > 0 /\ regions[j].base \in Nat /\ regions[j].pages \in Nat
    BY <1>4, <1>9 DEF Shape
  <2>2. CASE j <= k
    <3>1. regions'[j] = regions[j] /\ j < k + 1
      BY <1>3, <1>9, <2>2
    <3>2. End(regions[j]) <= e.base
      BY <1>3, <1>10, <1>11, <3>1
    <3> QED
      BY <1>5, <2>1, <3>2 DEF End
  <2>3. CASE j > k
    <3>1. regions'[j + 1] = regions[j] /\ k + 1 < j + 1
      BY <1>3, <1>9, <2>3
    <3>2. End(regions'[k + 1]) <= regions'[j + 1].base
      BY <1>3, <1>11, <3>1
    <3>3. End(e) <= regions[j].base
      BY <1>10, <3>1, <3>2
    <3> QED
      BY <1>2, <1>5, <2>1, <3>3
  <2> QED
    BY <1>3, <2>2, <2>3
<1>13. ASSUME NEW j \in 1 .. Len(regions)
       PROVE  regions[j].base .. End(regions[j]) - 1 = FilledPages(regions[j])
  BY <1>2 DEF FilledPages
<1>14. ASSUME NEW a \in DOMAIN regions', NEW j \in 1 .. Len(regions), regions'[a] = regions[j]
       PROVE  FilledPages(regions[a])' = FilledPages(regions[j])
  <2>1. regions[j].base # op'.base
    BY <1>6, <1>12
  <2>2. FilledPages(regions[a])' = regions[j].base .. End(regions[j]) - 1
    BY <1>14, <2>1 DEF FilledPages, End
  <2> QED
    BY <1>13, <2>2
<1>15. FilledPages(regions[k + 1])' = {}
  <2>1. FilledPages(regions[k + 1])' = e.base .. e.base + 0 - 1
    BY <1>6, <1>10 DEF FilledPages
  <2> QED
    BY <1>5, <2>1
<1>16. HeapPages' = HeapPages
  <2>1. \A v : v \in HeapPages' <=> \E a \in 2 .. Len(regions') : v \in FilledPages(regions[a])'
    BY DEF HeapPages
  <2>2. ASSUME NEW v, v \in HeapPages' PROVE v \in HeapPages
    <3>1. PICK a \in 2 .. Len(regions') : v \in FilledPages(regions[a])'
      BY <2>1, <2>2
    <3>2. a # k + 1
      BY <1>15, <3>1
    <3>3. CASE a <= k
      <4>1. regions'[a] = regions[a] /\ a \in 2 .. Len(regions) /\ a \in DOMAIN regions'
        BY <1>3, <1>9, <3>3
      <4>2. v \in FilledPages(regions[a])
        BY <1>14, <3>1, <4>1
      <4> QED
        BY <4>1, <4>2, HeapPagesAre
    <3>4. CASE a > k + 1
      <4>1. regions'[a] = regions[a - 1] /\ a - 1 \in 2 .. Len(regions) /\ a \in DOMAIN regions'
        BY <1>3, <1>9, <3>4
      <4>2. v \in FilledPages(regions[a - 1])
        BY <1>14, <3>1, <4>1
      <4> QED
        BY <4>1, <4>2, HeapPagesAre
    <3> QED
      BY <1>3, <3>2, <3>3, <3>4
  <2>3. ASSUME NEW v, v \in HeapPages PROVE v \in HeapPages'
    <3>1. PICK j \in 2 .. Len(regions) : v \in FilledPages(regions[j])
      BY <2>3, HeapPagesAre
    <3>2. PICK a \in {j, j + 1} : regions'[a] = regions[j] /\ a \in 2 .. Len(regions')
      <4>1. CASE j <= k
        BY <1>3, <1>9, <4>1
      <4>2. CASE j > k
        BY <1>3, <1>9, <4>2
      <4> QED
        BY <1>3, <4>1, <4>2
    <3>3. v \in FilledPages(regions[a])'
      BY <1>9, <1>14, <3>1, <3>2
    <3> QED
      BY <2>1, <3>2, <3>3
  <2> QED
    BY <2>2, <2>3
<1>17. RegionFrames' = RegionFrames \union {f}
  <2>1. ASSUME NEW a \in DOMAIN regions' PROVE regions'[a].frame \in RegionFrames \union {f}
    <3>1. a \in 1 .. Len(regions) + 1 /\ k \in Nat /\ Len(regions) \in Nat
      BY <1>2, <1>3, <1>9
    <3>2. CASE a = k + 1
      BY <1>5, <1>10, <3>2
    <3>3. ASSUME a # k + 1 PROVE \E j \in DOMAIN regions : regions'[a] = regions[j]
      <4>1. CASE a <= k
        <5>1. a \in DOMAIN regions
          BY <1>3, <1>9, <3>1, <4>1
        <5> QED
          BY <1>9, <3>1, <4>1, <5>1
      <4>2. CASE a > k
        <5>1. a - 1 \in DOMAIN regions
          BY <1>3, <1>9, <3>1, <3>3, <4>2
        <5>2. regions'[a] = regions[a - 1]
          BY <1>9, <3>1, <3>3, <4>2
        <5> QED
          BY <5>1, <5>2
      <4> QED
        BY <3>1, <4>1, <4>2
    <3> QED
      BY <3>2, <3>3 DEF RegionFrames
  <2>2. ASSUME NEW j \in DOMAIN regions PROVE \E a \in DOMAIN regions' : regions'[a].frame = regions[j].frame
    <3>1. CASE j <= k
      BY <1>9, <3>1
    <3>2. CASE j > k
      <4>1. regions'[j + 1] = regions[j] /\ j + 1 \in DOMAIN regions'
        BY <1>3, <1>9, <3>2
      <4> QED
        BY <4>1
    <3> QED
      BY <1>3, <1>9, <3>1, <3>2
  <2>3. f \in RegionFrames'
    BY <1>5, <1>9, <1>10 DEF RegionFrames
  <2> QED
    BY <2>1, <2>2, <2>3 DEF RegionFrames
<1>18. ASSUME NEW a \in DOMAIN regions', NEW b \in DOMAIN regions',
              regions'[a].frame = regions'[b].frame, a # b
       PROVE  FALSE
  <2> DEFINE old(x) == IF x <= k THEN x ELSE x - 1
  <2>1. \A j \in DOMAIN regions : regions[j].frame # f
    BY FreshFrame DEF RegionFrames, Owned, vmm_insert
  <2>2. \A x \in DOMAIN regions' : x # k + 1 => old(x) \in DOMAIN regions /\ regions'[x] = regions[old(x)]
    BY <1>3, <1>9
  <2>3. a # k + 1 /\ b # k + 1
    BY <1>5, <1>10, <1>18, <2>1, <2>2
  <2>4. old(a) # old(b)
    BY <1>3, <1>9, <1>18, <2>3
  <2> HIDE DEF old
  <2> QED
    BY <1>18, <2>2, <2>3, <2>4 DEF OneUse
<1>19. OnRegion'
  BY <1>5, <1>6, <1>10 DEF OnRegion
<1>20. ASSUME NEW j \in DOMAIN regions'
       PROVE  HeapBase <= regions'[j].base /\ regions'[j].pages > 0 /\ End(regions'[j]) <= HeapLimit
  <2>1. CASE j = k + 1
    <3>1. End(e) <= HeapLimit
      BY <1>1, <1>2, <1>5 DEF Progress
    <3>2. HeapBase <= regions[k].base /\ regions[k].base <= End(regions[k])
      BY <1>3, <1>4, <1>9 DEF Shape, End
    <3> QED
      BY <1>2, <1>3, <1>4, <1>5, <1>10, <2>1, <3>1, <3>2, HeapAssumption
  <2>2. CASE j # k + 1
    <3>1. \E i \in DOMAIN regions : regions'[j] = regions[i]
      BY <1>3, <1>9, <2>2
    <3> QED
      BY <3>1 DEF Shape
  <2> QED
    BY <2>1, <2>2
<1> QED
  BY <1>6, <1>16, <1>17, <1>18, <1>19, <1>20

(* vmm_insert adds a region to the ring. *)
LEMMA InsertStep ==
  ASSUME VmmInv, NEW f \in P!Frame, vmm_insert(f)
  PROVE  VmmInv' /\ PmmStep
<1> USE DEF VmmInv
<1>1. op.at = "region" /\ P!pmm_alloc(f) /\ UNCHANGED <<boot, tables, ptes, pagemaps>>
  BY DEF vmm_insert
<1>2. /\ HeapPages' = HeapPages /\ RegionFrames' = RegionFrames \union {f}
      /\ \A j, k \in DOMAIN regions' : regions'[j].frame = regions'[k].frame => j = k
      /\ op'.at = "data" /\ op'.then = op.then /\ op'.i = 0 /\ op'.pages = op.pages
      /\ OnRegion'
      /\ \A j \in DOMAIN regions' :
           HeapBase <= regions'[j].base /\ regions'[j].pages > 0 /\ End(regions'[j]) <= HeapLimit
  BY InsertKeepsPages
<1>3. InFlight = {} /\ InFlight' = {}
  BY <1>1, <1>2 DEF InFlight
<1>4. DataFrames' = DataFrames /\ TableFrames' = TableFrames /\ TopFrames' = TopFrames
  BY <1>1, <1>2 DEF DataFrames, TableFrames, TopFrames
<1>5. Owned' = Owned \union {f}
  BY <1>1, <1>2, <1>3, <1>4 DEF Owned
<1>6. f \notin Owned
  BY <1>1, FreshFrame
<1>7. IInv'
  BY InsertIInv
<1>8. Shape'
  BY <1>1, <1>2, <1>3 DEF Shape, End
<1>9. Progress'
  <2>1. Len(regions') >= 1 /\ op.pages > 0 /\ op.then # "boot" /\ op.pages \in Nat
    BY <1>1, <1>2, <1>7 DEF Progress, OnRegion, IInv, RingType, OpType
  <2> QED
    BY <1>1, <1>2, <2>1 DEF Progress
<1>10. Mapped'
  BY <1>1, <1>2 DEF Mapped, MissingLevels, TableKey
<1>11. OneUse'
  BY <1>1, <1>2, <1>3, <1>4, <1>6 DEF OneUse, Owned
<1>12. TopShared'
  BY <1>1, <1>2 DEF TopShared, KernelHalfShared, TopEntries
<1> QED
  BY <1>1, <1>5, <1>7, <1>8, <1>9, <1>10, <1>11, <1>12, PmmTakes

(* What vmm_free has not emptied yet of its region, and after its turn. *)
LEMMA FilledWhenFreeing ==
  ASSUME NEW r, op.at = "free", r.base = op.base, r.pages = op.pages
  PROVE  FilledPages(r) = op.base + op.i .. (op.base + op.pages) - 1
<1>1. FilledPages(r) = r.base + op.i .. End(r) - 1
  BY DEF FilledPages
<1>2. r.base + op.i = op.base + op.i /\ End(r) - 1 = (op.base + op.pages) - 1
  BY Zenon DEF End
<1> QED
  BY <1>1, <1>2, Zenon

LEMMA FilledAfterTurn ==
  ASSUME NEW k, UNCHANGED regions, op' = GoTo("free", op.i + 1, 0),
         regions[k].base = op.base, regions[k].pages = op.pages
  PROVE  FilledPages(regions[k])' = op.base + (op.i + 1) .. (op.base + op.pages) - 1
<1>1. op'.at = "free" /\ op'.base = regions[k].base /\ op'.i = op.i + 1
  BY DEF GoTo
<1>2. FilledPages(regions[k])' = regions[k].base + op'.i .. End(regions[k]) - 1
  BY <1>1 DEF FilledPages, End
<1>3. /\ regions[k].base + op'.i = op.base + (op.i + 1)
      /\ End(regions[k]) - 1 = (op.base + op.pages) - 1
  BY <1>1, Zenon DEF End
<1> QED
  BY <1>2, <1>3, Zenon

(* The page that vmm_free is at is mapped: it never gives up half way. *)
LEMMA FreeFinds ==
  ASSUME VmmInv, op.at = "free", op.i < op.pages
  PROVE  /\ op.base + op.i \in HeapPages
         /\ mmu_get_page(op.base + op.i) = {ptes[op.base + op.i]}
<1> USE DEF VmmInv
<1>1. PICK k \in 2 .. Len(regions) : regions[k].base = op.base /\ regions[k].pages = op.pages
  BY DEF Progress, OnRegion
<1>2. op.base \in Nat /\ op.i \in Nat /\ op.pages \in Nat
  BY DEF IInv, RingType, OpType
<1>3. FilledPages(regions[k]) = op.base + op.i .. (op.base + op.pages) - 1
  BY <1>1, FilledWhenFreeing
<1>4. op.base + op.i \in HeapPages
  BY <1>2, <1>3, HeapPagesAre
<1> QED
  BY <1>4 DEF Mapped, mmu_get_page

(* One turn of vmm_free empties one page. *)
LEMMA FreeEmpties ==
  ASSUME VmmInv, vmm_free_page
  PROVE  /\ P!pmm_free(ptes[op.base + op.i]) /\ op' = GoTo("free", op.i + 1, 0)
         /\ HeapPages' = HeapPages \ {op.base + op.i}
<1> USE DEF VmmInv
<1>1. op.at = "free" /\ op.i < op.pages /\ UNCHANGED regions
  BY DEF vmm_free_page, vmmVars
<1>2. mmu_get_page(op.base + op.i) = {ptes[op.base + op.i]}
  BY <1>1, FreeFinds
<1>3. P!pmm_free(ptes[op.base + op.i]) /\ op' = GoTo("free", op.i + 1, 0)
  BY <1>2 DEF vmm_free_page
<1>4. PICK k \in 2 .. Len(regions) : regions[k].base = op.base /\ regions[k].pages = op.pages
  BY <1>1 DEF Progress, OnRegion
<1>5. op.base \in Nat /\ op.i \in Nat /\ op.pages \in Nat
  BY DEF IInv, RingType, OpType
<1>6. ASSUME NEW j \in 2 .. Len(regions), j # k
      PROVE  /\ FilledPages(regions[j])' = FilledPages(regions[j])
             /\ op.base + op.i \notin FilledPages(regions[j])
  <2>1. j \in DOMAIN regions /\ k \in DOMAIN regions
    BY DEF IInv, RingType
  <2>2. regions[j].base # op.base
    BY <1>4, <1>6, <2>1, OneBase
  <2>3. FilledPages(regions[j])' = FilledPages(regions[j])
    BY <1>1, <1>3, <2>2 DEF FilledPages, End, GoTo
  <2>4. op.base + op.i \in regions[k].base .. End(regions[k]) - 1
    BY <1>1, <1>4, <1>5 DEF End
  <2>5. op.base + op.i \notin regions[j].base .. End(regions[j]) - 1
    BY <1>6, <2>1, <2>4, OneRegion
  <2> QED
    BY <2>3, <2>5, FilledWithin
<1>7. FilledPages(regions[k]) = op.base + op.i .. (op.base + op.pages) - 1
  BY <1>1, <1>4, FilledWhenFreeing
<1>8. FilledPages(regions[k])' = op.base + (op.i + 1) .. (op.base + op.pages) - 1
  BY <1>1, <1>3, <1>4, FilledAfterTurn
<1>9. FilledPages(regions[k])' = FilledPages(regions[k]) \ {op.base + op.i}
  BY <1>5, <1>7, <1>8
<1>10. \A v : v \in HeapPages' <=> v \in HeapPages /\ v # op.base + op.i
  <2>1. \A v : v \in HeapPages' <=> \E j \in 2 .. Len(regions) : v \in FilledPages(regions[j])'
    BY <1>1 DEF HeapPages
  <2> QED
    BY <1>6, <1>9, <2>1, HeapPagesAre
<1> QED
  BY <1>3, <1>10

(* vmm_free gives back a frame that was the page's only. *)
LEMMA FreePageStep ==
  ASSUME VmmInv, vmm_free_page
  PROVE  VmmInv' /\ PmmStep
<1> USE DEF VmmInv
<1> DEFINE v == op.base + op.i
           f == ptes[v]
<1>1. /\ op.at = "free" /\ op.i < op.pages
      /\ UNCHANGED <<boot, regions, tables, ptes, pagemaps>>
  BY DEF vmm_free_page, vmmVars
<1>2. v \in HeapPages
  BY <1>1, FreeFinds
<1>3. P!pmm_free(f) /\ op' = GoTo("free", op.i + 1, 0) /\ HeapPages' = HeapPages \ {v}
  BY FreeEmpties
<1>4. f \in P!Frame /\ f \in DataFrames
  BY <1>2 DEF Mapped, DataFrames
<1> HIDE DEF v, f
<1>5. DataFrames' = DataFrames \ {f}
  BY <1>1, <1>2, <1>3 DEF DataFrames, OneUse, Mapped, f
<1>6. InFlight = {} /\ InFlight' = {}
  BY <1>1, <1>3 DEF InFlight, GoTo
<1>7. RegionFrames' = RegionFrames /\ TableFrames' = TableFrames /\ TopFrames' = TopFrames
  BY <1>1 DEF RegionFrames, TableFrames, TopFrames
<1>8. f \in Owned /\ Owned' = Owned \ {f}
  BY <1>1, <1>4, <1>5, <1>6, <1>7 DEF Owned, OneUse
<1>9. op' \in OpType
  BY <1>3 DEF IInv, RingType, OpType, Steps, Callers, GoTo
<1>10. IInv'
  BY <1>1, <1>9, OtherIInv
<1>11. Shape'
  BY <1>1, <1>6 DEF Shape, End
<1>12. Progress'
  <2>1. op.then = "idle" /\ op.i \in Nat /\ op.pages \in Nat
    BY <1>1 DEF Progress, IInv, RingType, OpType
  <2> QED
    BY <1>1, <1>3, <2>1 DEF Progress, GoTo, OnRegion
<1>13. Mapped'
  BY <1>1, <1>3 DEF Mapped, MissingLevels, TableKey
<1>14. OneUse'
  BY <1>1, <1>3, <1>5, <1>6, <1>7 DEF OneUse
<1>15. TopShared'
  BY <1>1, <1>3 DEF TopShared, KernelHalfShared, TopEntries, GoTo
<1> QED
  BY <1>3, <1>4, <1>8, <1>10, <1>11, <1>12, <1>13, <1>14, <1>15, PmmGives

(* When all pages of its region are free, vmm_free takes it out of the     *)
(* ring: an empty region goes, and its record's frame with it.             *)
LEMMA UnlinkKeepsPages ==
  ASSUME VmmInv, vmm_unlink
  PROVE  \E f \in P!Frame :
           /\ P!pmm_free(f) /\ f \in RegionFrames /\ RegionFrames' = RegionFrames \ {f}
           /\ HeapPages' = HeapPages /\ Len(regions') >= 1
           /\ \A j, k \in DOMAIN regions' : regions'[j].frame = regions'[k].frame => j = k
           /\ \A j \in DOMAIN regions' :
                HeapBase <= regions'[j].base /\ regions'[j].pages > 0 /\ End(regions'[j]) <= HeapLimit
<1> USE DEF VmmInv
<1>1. PICK k \in 2 .. Len(regions) :
        /\ regions[k].base = op.base /\ P!pmm_free(regions[k].frame)
        /\ regions' = RemoveAt(regions, k)
  BY DEF vmm_unlink
<1>2. op.at = "free" /\ op.i = op.pages /\ op' = Idle
  BY DEF vmm_unlink
<1>3. regions \in Seq(RegionType) /\ k \in 1 .. Len(regions) /\ DOMAIN regions = 1 .. Len(regions)
  BY DEF IInv, RingType
<1>4. /\ regions' \in Seq(RegionType) /\ Len(regions') = Len(regions) - 1
      /\ \A j \in 1 .. Len(regions') : regions'[j] = IF j < k THEN regions[j] ELSE regions[j + 1]
  <2>1. regions \in Seq(RegionType) /\ k \in 1 .. Len(regions) /\ regions' = RemoveAt(regions, k)
    BY <1>1, <1>3
  <2> QED
    BY ONLY <2>1, RemoveOne
<1>5. DOMAIN regions' = 1 .. Len(regions) - 1 /\ Len(regions) \in Nat
  BY <1>3, <1>4
<1> DEFINE f == regions[k].frame
           old(a) == IF a < k THEN a ELSE a + 1
<1>6. \A a \in DOMAIN regions' : old(a) \in DOMAIN regions /\ old(a) # k /\ regions'[a] = regions[old(a)]
  BY <1>3, <1>4, <1>5
<1>7. \A j \in DOMAIN regions : j # k => \E a \in DOMAIN regions' : old(a) = j
  <2> SUFFICES ASSUME NEW j \in DOMAIN regions, j # k PROVE \E a \in DOMAIN regions' : old(a) = j
    OBVIOUS
  <2>1. CASE j < k
    <3>1. j \in DOMAIN regions' /\ old(j) = j
      BY <1>1, <1>3, <1>5, <2>1
    <3> QED
      BY <3>1
  <2>2. CASE j > k
    <3>1. j - 1 \in DOMAIN regions' /\ old(j - 1) = j
      BY <1>1, <1>3, <1>5, <2>2
    <3> QED
      BY <3>1
  <2> QED
    BY <1>3, <2>1, <2>2
<1>8. \A a, b \in DOMAIN regions' : old(a) = old(b) => a = b
  BY <1>3, <1>5
<1>9. \A a \in DOMAIN regions' : a \in 2 .. Len(regions') <=> old(a) \in 2 .. Len(regions)
  BY <1>1, <1>3, <1>4, <1>5
<1> HIDE DEF old
<1>10. f \in P!Frame /\ f \in RegionFrames
  <2>1. regions[k] \in RegionType
    BY <1>3
  <2> QED
    BY <1>3, <2>1 DEF RegionType, RegionFrames, P!Frame
<1>11. RegionFrames' = RegionFrames \ {f}
  <2>1. ASSUME NEW a \in DOMAIN regions' PROVE regions'[a].frame \in RegionFrames \ {f}
    <3>1. regions[old(a)].frame \in RegionFrames
      BY <1>6 DEF RegionFrames
    <3>2. regions[old(a)].frame # f
      BY <1>3, <1>6 DEF OneUse
    <3> QED
      BY <1>6, <3>1, <3>2
  <2>2. ASSUME NEW j \in DOMAIN regions, regions[j].frame # f
        PROVE  \E a \in DOMAIN regions' : regions'[a].frame = regions[j].frame
    <3>1. PICK a \in DOMAIN regions' : old(a) = j
      BY <1>7, <2>2
    <3> QED
      BY <1>6, <3>1
  <2> QED
    BY <2>1, <2>2 DEF RegionFrames
<1>12. ASSUME NEW a \in DOMAIN regions', NEW b \in DOMAIN regions',
              regions'[a].frame = regions'[b].frame
       PROVE  a = b
  <2>1. old(a) = old(b)
    BY <1>6, <1>12 DEF OneUse
  <2> QED
    BY <1>8, <2>1
<1>13. ASSUME NEW a \in DOMAIN regions'
       PROVE  HeapBase <= regions'[a].base /\ regions'[a].pages > 0 /\ End(regions'[a]) <= HeapLimit
  BY <1>6 DEF Shape
<1>14. FilledPages(regions[k]) = {}
  <2>1. PICK j \in 2 .. Len(regions) : regions[j].base = op.base /\ regions[j].pages = op.pages
    BY <1>2 DEF Progress, OnRegion
  <2>2. j = k
    BY <1>1, <1>3, <2>1, OneBase
  <2>3. FilledPages(regions[k]) = op.base + op.i .. (op.base + op.pages) - 1
    BY <1>2, <2>1, <2>2, FilledWhenFreeing
  <2>4. op.base \in Nat /\ op.pages \in Nat
    BY DEF IInv, RingType, OpType
  <2> QED
    BY <1>2, <2>3, <2>4
<1>15. ASSUME NEW a \in DOMAIN regions', a \in 2 .. Len(regions')
       PROVE  FilledPages(regions[a])' = FilledPages(regions[old(a)])
  <2>1. regions[old(a)].base # op.base
    BY <1>1, <1>3, <1>6, OneBase
  <2>2. FilledPages(regions[old(a)]) = regions[old(a)].base .. End(regions[old(a)]) - 1
    BY <2>1 DEF FilledPages
  <2>3. FilledPages(regions[a])' = regions'[a].base .. End(regions'[a]) - 1
    BY <1>2 DEF FilledPages, Idle, Start, End
  <2> QED
    BY <1>6, <2>2, <2>3
<1>16. HeapPages' = HeapPages
  <2>1. \A v : v \in HeapPages' <=> \E a \in 2 .. Len(regions') : v \in FilledPages(regions[a])'
    BY DEF HeapPages
  <2>2. 2 .. Len(regions') \subseteq DOMAIN regions'
    BY <1>4, <1>5
  <2>3. ASSUME NEW v, v \in HeapPages' PROVE v \in HeapPages
    <3>1. PICK a \in 2 .. Len(regions') : v \in FilledPages(regions[a])'
      BY <2>1, <2>3
    <3>2. v \in FilledPages(regions[old(a)]) /\ old(a) \in 2 .. Len(regions)
      BY <1>9, <1>15, <2>2, <3>1
    <3> QED
      BY <3>2, HeapPagesAre
  <2>4. ASSUME NEW v, v \in HeapPages PROVE v \in HeapPages'
    <3>1. PICK j \in 2 .. Len(regions) : v \in FilledPages(regions[j])
      BY <2>4, HeapPagesAre
    <3>2. j # k /\ j \in DOMAIN regions
      BY <1>3, <1>14, <3>1
    <3>3. PICK a \in DOMAIN regions' : old(a) = j
      BY <1>7, <3>2
    <3>4. a \in 2 .. Len(regions') /\ v \in FilledPages(regions[a])'
      BY <1>9, <1>15, <3>1, <3>3
    <3> QED
      BY <2>1, <3>4
  <2> QED
    BY <2>3, <2>4
<1>17. Len(regions') >= 1
  BY <1>1, <1>4, <1>5
<1> QED
  BY <1>1, <1>10, <1>11, <1>12, <1>13, <1>16, <1>17

LEMMA UnlinkStep ==
  ASSUME VmmInv, vmm_unlink
  PROVE  VmmInv' /\ PmmStep
<1> USE DEF VmmInv
<1>1. op.at = "free" /\ op' = Idle /\ UNCHANGED <<boot, tables, ptes, pagemaps>>
  BY DEF vmm_unlink
<1>2. PICK f \in P!Frame :
        /\ P!pmm_free(f) /\ f \in RegionFrames /\ RegionFrames' = RegionFrames \ {f}
        /\ HeapPages' = HeapPages /\ Len(regions') >= 1
        /\ \A j, k \in DOMAIN regions' : regions'[j].frame = regions'[k].frame => j = k
        /\ \A j \in DOMAIN regions' :
             HeapBase <= regions'[j].base /\ regions'[j].pages > 0 /\ End(regions'[j]) <= HeapLimit
  BY UnlinkKeepsPages
<1>3. InFlight = {} /\ InFlight' = {}
  BY <1>1 DEF InFlight, Idle, Start
<1>4. DataFrames' = DataFrames /\ TableFrames' = TableFrames /\ TopFrames' = TopFrames
  BY <1>1, <1>2 DEF DataFrames, TableFrames, TopFrames
<1>5. f \in Owned /\ Owned' = Owned \ {f}
  BY <1>1, <1>2, <1>3, <1>4 DEF Owned, OneUse
<1>6. IInv'
  BY UnlinkIInv
<1>7. Shape'
  BY <1>1, <1>2, <1>3 DEF Shape, End
<1>8. Progress'
  BY <1>1, <1>2 DEF Progress, Idle, Start
<1>9. Mapped'
  BY <1>1, <1>2 DEF Mapped, MissingLevels, TableKey
<1>10. OneUse'
  BY <1>1, <1>2, <1>3, <1>4 DEF OneUse
<1>11. TopShared'
  BY <1>1 DEF TopShared, KernelHalfShared, TopEntries, Idle, Start
<1> QED
  BY <1>2, <1>5, <1>6, <1>7, <1>8, <1>9, <1>10, <1>11, PmmGives

(* A step that changes nothing of the manager's own. *)
LEMMA StillStep ==
  ASSUME VmmInv, UNCHANGED <<vmmVars, op>>
  PROVE  Owned' = Owned /\ (PP!IInv' => VmmInv')
<1> USE DEF VmmInv
<1>1. UNCHANGED <<boot, regions, tables, ptes, pagemaps, op>>
  BY DEF vmmVars
<1>2. /\ HeapPages' = HeapPages /\ RegionFrames' = RegionFrames
      /\ DataFrames' = DataFrames /\ InFlight' = InFlight
      /\ TableFrames' = TableFrames /\ TopFrames' = TopFrames
  BY <1>1, HeapKept DEF TableFrames, TopFrames
<1>3. Owned' = Owned
  BY <1>1, <1>2 DEF Owned
<1>4. IInv'
  BY <1>1, OtherIInv DEF IInv, RingType
<1>5. Shape' /\ Mapped' /\ OneUse' /\ TopShared'
  BY <1>1, <1>2 DEF Shape, End, Mapped, MissingLevels, TableKey, OneUse, TopShared,
                    KernelHalfShared, TopEntries
<1>6. Progress'
  BY <1>1, ProgressKept
<1> QED
  BY <1>3, <1>4, <1>5, <1>6

(* Every step keeps the invariant, and is a legal step of the allocator.   *)
LEMMA NextVmmInv == VmmInv /\ [Next]_vars => VmmInv' /\ PmmStep
<1> SUFFICES ASSUME VmmInv, [Next]_vars PROVE VmmInv' /\ PmmStep
  OBVIOUS
<1>1. ASSUME NEW f \in P!Frame, vmm_init_frame(f) PROVE VmmInv' /\ PmmStep
  BY <1>1, InitFrameStep
<1>2. ASSUME NEW f \in P!Frame, vmm_setup_vma(f) PROVE VmmInv' /\ PmmStep
  BY <1>2, SetupStep
<1>3. ASSUME NEW f \in P!Frame, mmu_new_level(f) PROVE VmmInv' /\ PmmStep
  BY <1>3, NewLevelStep
<1>4. ASSUME NEW f \in P!Frame, vmm_insert(f) PROVE VmmInv' /\ PmmStep
  BY <1>4, InsertStep
<1>5. ASSUME NEW f \in P!Frame, vmm_alloc_page(f) PROVE VmmInv' /\ PmmStep
  BY <1>5, AllocPageStep
<1>6. ASSUME NEW f \in P!Frame, vmm_copy_top(f) PROVE VmmInv' /\ PmmStep
  BY <1>6, CopyTopStep
<1>7. CASE mmu_map
  BY <1>7, MapBootStep, MapHeapStep
<1>8. CASE vmm_free_page
  BY <1>8, FreePageStep
<1>9. CASE vmm_unlink
  BY <1>9, UnlinkStep
<1>10. CASE Overrun
  <2>1. P!pmm_alloc_overrun /\ Owned' = Owned /\ (PP!IInv' => VmmInv')
    BY <1>10, StillStep DEF Overrun
  <2> QED
    BY <2>1, PmmOverruns DEF VmmInv
<1>11. ASSUME NEW pages \in 1 .. MaxPages, vmm_alloc(pages, "idle") PROVE VmmInv' /\ PmmStep
  <2>1. pages \in Nat \ {0}
    BY HeapAssumption
  <2> QED
    BY <1>11, <2>1, AllocStep
<1>12. CASE vmm_new_pagemap
  <2>1. vmm_alloc(1, "pagemap")
    BY <1>12 DEF vmm_new_pagemap
  <2> QED
    BY <2>1, AllocStep
<1>13. ASSUME NEW k \in DOMAIN regions, vmm_free(k) PROVE VmmInv' /\ PmmStep
  BY <1>13, FreeStep
<1>14. CASE UNCHANGED vars
  <2>1. UNCHANGED pmmVars /\ UNCHANGED <<vmmVars, op>>
    BY <1>14 DEF vars
  <2>2. Owned' = Owned /\ (PP!IInv' => VmmInv')
    BY <2>1, StillStep
  <2> QED
    BY <2>1, <2>2, PmmIdle DEF VmmInv
<1> QED
  BY <1>1, <1>2, <1>3, <1>4, <1>5, <1>6, <1>7, <1>8, <1>9, <1>10, <1>11, <1>12, <1>13, <1>14
     DEF Next, Continue

LEMMA VmmInvHolds == Spec => []VmmInv
  BY InitVmmInv, NextVmmInv, PTL DEF Spec

(* For every memory, boot map and heap: the state keeps its shape.  The    *)
(* frames are frames, a region lies in the heap and is never empty, and no *)
(* operation runs past its last page.                                      *)
THEOREM TypeCorrect == Spec => []TypeOK
<1>1. VmmInv => TypeOK
  <2> SUFFICES ASSUME VmmInv PROVE TypeOK
    OBVIOUS
  <2>1. op.i <= (IF op.then = "boot" THEN Len(BootMap) ELSE op.pages)
    <3>1. CASE op.then = "boot"
      BY <3>1, HeapAssumption DEF VmmInv, Progress
    <3>2. CASE op.then # "boot"
      BY <3>2 DEF VmmInv, Progress
    <3> QED
      BY <3>1, <3>2
  <2>2. ASSUME NEW k \in DOMAIN regions PROVE regions[k].frame \in P!Frame
    <3>1. regions[k] \in RegionType
      BY DEF VmmInv, IInv, RingType
    <3> QED
      BY <3>1 DEF RegionType, P!Frame
  <2> QED
    BY <2>1, <2>2 DEF VmmInv, IInv, RingType, Shape, Mapped, TypeOK
<1> QED
  BY <1>1, VmmInvHolds, PTL

(* For every memory, boot map and heap: a frame has one use.  Two pages of *)
(* the heap never share one, whatever was freed and mapped again over the  *)
(* entries that vmm_free leaves behind, and no page is backed by a page    *)
(* table, a region record or a frame that pmm_alloc could hand out.        *)
THEOREM FramesStayExclusive == Spec => []FramesExclusive
<1>1. VmmInv => FramesExclusive
  <2> SUFFICES ASSUME VmmInv PROVE FramesExclusive
    OBVIOUS
  <2>1. \A f \in DataFrames : pmm_bitmap[f] = 1
    <3> SUFFICES ASSUME NEW f \in DataFrames PROVE pmm_bitmap[f] = 1
      OBVIOUS
    <3>1. f \in Owned /\ f \in P!Frame
      BY DEF Owned, DataFrames, VmmInv, Mapped
    <3> QED
      BY <3>1 DEF VmmInv, PP!IInv, PP!BitmapIsHeld, PP!UnusableTaken, PP!TypeOK, PP!Frame, P!Frame
  <2> QED
    BY <2>1 DEF VmmInv, OneUse, FramesExclusive
<1> QED
  BY <1>1, VmmInvHolds, PTL

(* For every memory, boot map and heap: vmm_free is never at a page that   *)
(* its walk does not find, so it never leaves a region half freed.         *)
THEOREM FreeNeverStrands == Spec => []FreeFindsEveryPage
<1>1. VmmInv => FreeFindsEveryPage
  BY FreeFinds DEF FreeFindsEveryPage
<1> QED
  BY <1>1, VmmInvHolds, PTL

(* For every memory, boot map and heap: every pagemap has the top-level    *)
(* entries of the kernel's, however much is mapped after it was made.      *)
THEOREM KernelHalfStaysShared == Spec => []KernelHalfShared
<1>1. VmmInv => KernelHalfShared
  BY DEF VmmInv, TopShared
<1> QED
  BY <1>1, VmmInvHolds, PTL

(* The manager implements the users of the frame allocator that Pmm        *)
(* assumes: every step of vmm.c and mmu.c is a pmm_alloc of a frame nobody *)
(* had, a pmm_free of a frame that one part of the manager had, a walk off *)
(* the bitmap, or nothing to the allocator.  What is proved of Pmm, its    *)
(* users included, therefore holds here.                                   *)
THEOREM AllocatorUsedWell == Spec => UsesPmm
  BY InitVmmInv, NextVmmInv, PTL DEF Spec, PmmStep, UsesPmm, P!Spec
============================================================================
