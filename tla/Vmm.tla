-------------------------------- MODULE Vmm --------------------------------
(***************************************************************************)
(* The virtual memory manager (kernel/src/mm/vmm.c) with the page tables   *)
(* it builds (kernel/src/arch/x86_64/mmu.c), on top of the page-frame      *)
(* allocator of module Pmm, every call of which is one step here.          *)
(*                                                                         *)
(* Addresses are page numbers.  The ring of vm_region_t is the sequence    *)
(* regions, the head first.  A page table is identified by its level and   *)
(* the part of the address space it serves; tables maps the tables that    *)
(* exist to the frames that hold them, and ptes maps the pages whose       *)
(* level-0 entry is set to the frame it names.  vmm_free does not clear an *)
(* entry and nothing frees a table, so neither function ever shrinks.      *)
(*                                                                         *)
(* One CPU runs the operations one after the other (kmain).                *)
(***************************************************************************)
EXTENDS Naturals, Sequences, FiniteSets, SequencesExt

CONSTANTS
  NBits, Usable, FirstFree,   \* the memory, see Pmm
  Radix,      \* entries of a page table: 512
  BootMap,    \* the pages vmm_init maps, in its order: records [page, frame]
  HeapBase,   \* the page of the head region, HIGHER_HALF(0x100000000000)
  HeapLimit,  \* bound: regions end at or below this page
  MaxPages,   \* bound: pages of one vmm_alloc
  MaxPagemaps \* bound: calls of vmm_new_pagemap

ASSUME MemoryAssumption ==
  /\ NBits \in Nat \ {0} /\ Usable \subseteq 0 .. NBits - 1
  /\ FirstFree \in 0 .. NBits - 1 /\ \A f \in Usable : FirstFree <= f

BootEntry == [page : Nat, frame : Nat]

ASSUME HeapAssumption ==
  /\ Radix \in Nat \ {0, 1}
  /\ HeapBase \in Nat /\ HeapLimit \in Nat /\ MaxPages \in Nat /\ MaxPagemaps \in Nat
  /\ BootMap \in Seq(BootEntry)
  /\ \A i \in DOMAIN BootMap : BootMap[i].page < HeapBase

(* The pages that an entry of a table of level 1, 2 or 3 spans. *)
Span == <<Radix, Radix * Radix, Radix * Radix * Radix>>

(* A top-level entry spans 512 GiB, and the heap stays within its first.   *)
ASSUME OneTopLevelEntry ==
  HeapLimit > HeapBase /\ (HeapLimit - 1) \div Span[3] = HeapBase \div Span[3]

VARIABLES
  pmm_bitmap, pmm_last_free, pmm_overrun,   \* Pmm's state
  boot,       \* frames of kernel_pagemap and of its top-level table
  regions,    \* the ring, from vm_region_head: [base, pages, frame]
  tables,     \* <<level, index>> -> frame
  ptes,       \* page -> frame
  pagemaps,   \* top-level tables of vmm_new_pagemap: [frame, entries]
  op          \* where the running operation is

pmmVars == <<pmm_bitmap, pmm_last_free, pmm_overrun>>
vmmVars == <<boot, regions, tables, ptes, pagemaps>>
vars == <<pmmVars, vmmVars, op>>

----------------------------------------------------------------------------
(* The operation in progress.  at is its next step: "init" (vmm_init takes *)
(* its first frames), "region" (vmm_alloc is about to place its region),   *)
(* "data" (it is about to take the frame of page base + i), "map" (mmu_map *)
(* walks, to set an entry to phys), "top" (vmm_new_pagemap is about to     *)
(* take its top level), "free" (vmm_free is at page base + i) or "idle".   *)
(* then names the caller: vmm_init ("boot"), vmm_new_pagemap ("pagemap")   *)
(* or anyone else.                                                         *)
Start(at, then, base, pages) ==
  [at |-> at, then |-> then, base |-> base, pages |-> pages, i |-> 0, phys |-> 0]
GoTo(at, i, phys) ==
  [at |-> at, then |-> op.then, base |-> op.base, pages |-> op.pages, i |-> i, phys |-> phys]
Idle == Start("idle", "idle", 0, 0)

Steps   == {"init", "region", "data", "map", "top", "free", "idle"}
Callers == {"boot", "pagemap", "idle"}
OpType  == [at : Steps, then : Callers, base : Nat, pages : Nat, i : Nat, phys : Nat]

RegionType == [base : Nat, pages : Nat, frame : 0 .. NBits - 1]
Region(base, pages, f) == [base |-> base, pages |-> pages, frame |-> f]
End(r) == r.base + r.pages

(* mmu_map and mmu_get_page go from the top level to level 0 through the   *)
(* tables of levels 3, 2 and 1 entries: <<level, index>> is the table that *)
(* an entry of that level points to.                                       *)
TableKey(v, level) == <<level, v \div Span[level]>>
MissingLevels(v) == {level \in 1 .. 3 : TableKey(v, level) \notin DOMAIN tables}
Entered(entries, key, frame) ==
  [k \in DOMAIN entries \union {key} |-> IF k = key THEN frame ELSE entries[k]]
TopEntries == {k \in DOMAIN tables : k[1] = 3}

(* The pages of a region that have a frame: those that vmm_alloc has       *)
(* filled so far, or that vmm_free has not emptied yet.                    *)
FilledPages(r) ==
  IF op.base # r.base THEN r.base .. End(r) - 1
  ELSE CASE op.at \in {"data", "map"} -> r.base .. r.base + op.i - 1
         [] op.at = "free"            -> r.base + op.i .. End(r) - 1
         [] OTHER                     -> r.base .. End(r) - 1
HeapPages == UNION {FilledPages(regions[k]) : k \in 2 .. Len(regions)}

(* The frames each part of the manager has taken and not given back. *)
TableFrames  == {tables[k] : k \in DOMAIN tables}
RegionFrames == {regions[k].frame : k \in DOMAIN regions}
DataFrames   == {ptes[v] : v \in HeapPages \intersect DOMAIN ptes}
InFlight     == IF op.at = "map" /\ op.then # "boot" THEN {op.phys} ELSE {}
TopFrames    == {p.frame : p \in pagemaps}
Owned == UNION {boot, TableFrames, RegionFrames, DataFrames, InFlight, TopFrames}

P == INSTANCE Pmm WITH held <- Owned

----------------------------------------------------------------------------
(* vmm_init *)

Init ==
  /\ P!pmm_init
  /\ boot = {} /\ regions = <<>> /\ pagemaps = {}
  /\ tables = <<>> /\ ptes = <<>>
  /\ op = Start("init", "boot", 0, 0)

BootMapping(i) ==
  IF i > Len(BootMap) THEN Idle
  ELSE [at |-> "map", then |-> "boot", base |-> 0, pages |-> 0,
        i |-> i, phys |-> BootMap[i].frame]

vmm_init_frame(f) ==
  /\ op.at = "init" /\ Cardinality(boot) < 2
  /\ P!pmm_alloc(f)
  /\ boot' = boot \union {f}
  /\ UNCHANGED <<regions, tables, ptes, pagemaps, op>>

(* Mutant: the head region is set up without a page. *)
Mutant_vmm_setup_vma(f) ==
  /\ op.at = "init" /\ Cardinality(boot) = 2
  /\ P!pmm_alloc(f)
  /\ regions' = <<Region(HeapBase, 0, f)>>
  /\ op' = BootMapping(1)
  /\ UNCHANGED <<boot, tables, ptes, pagemaps>>

vmm_setup_vma(f) ==
  /\ op.at = "init" /\ Cardinality(boot) = 2
  /\ P!pmm_alloc(f)
  /\ regions' = <<Region(HeapBase, 1, f)>>
  /\ op' = BootMapping(1)
  /\ UNCHANGED <<boot, tables, ptes, pagemaps>>

----------------------------------------------------------------------------
(* mmu_map *)

MappedPage == IF op.then = "boot" THEN BootMap[op.i].page ELSE op.base + op.i

AfterAlloc == IF op.then = "pagemap" THEN GoTo("top", op.i, op.phys) ELSE Idle
(* Mutant: the loop of vmm_alloc stops a page early. *)
Mutant_AfterMap ==
  IF op.then = "boot" THEN BootMapping(op.i + 1)
  ELSE IF op.i + 2 < op.pages THEN GoTo("data", op.i + 1, op.phys)
  ELSE AfterAlloc

(* Mutant: vmm_init's loop does not step its address. *)
Mutant_AfterMap_stuck ==
  IF op.then = "boot" THEN BootMapping(op.i)
  ELSE IF op.i + 1 < op.pages THEN GoTo("data", op.i + 1, op.phys)
  ELSE AfterAlloc

AfterMap ==
  IF op.then = "boot" THEN BootMapping(op.i + 1)
  ELSE IF op.i + 1 < op.pages THEN GoTo("data", op.i + 1, op.phys)
  ELSE AfterAlloc

(* The walk finds no table at its deepest missing level and makes one, all *)
(* of its entries clear.                                                   *)
mmu_new_level(f) ==
  /\ op.at = "map" /\ MissingLevels(MappedPage) # {}
  /\ P!pmm_alloc(f)
  /\ tables' = Entered(tables, TableKey(MappedPage, Max(MissingLevels(MappedPage))), f)
  /\ UNCHANGED <<boot, regions, ptes, pagemaps, op>>

(* The walk is complete: the level-0 entry is set. *)
mmu_map ==
  /\ op.at = "map" /\ MissingLevels(MappedPage) = {}
  /\ ptes' = Entered(ptes, MappedPage, op.phys)
  /\ op' = AfterMap
  /\ UNCHANGED <<pmmVars, boot, regions, tables, pagemaps>>

----------------------------------------------------------------------------
(* vmm_alloc *)

(* Mutant: a hole one page too small is taken to fit. *)
Mutant_FitsAfter(k, pages) == regions[k + 1].base - End(regions[k]) + 1 >= pages

(* The search stops at the first region that a large enough hole follows,  *)
(* and at the last one when there is no such hole.                         *)
FitsAfter(k, pages) == regions[k + 1].base - End(regions[k]) >= pages
SearchStopsAt(k, pages) ==
  /\ k \in DOMAIN regions
  /\ k < Len(regions) => FitsAfter(k, pages)
  /\ \A j \in 1 .. k - 1 : ~FitsAfter(j, pages)

vmm_alloc(pages, then) ==
  /\ op.at = "idle"
  /\ \A k \in DOMAIN regions :
       SearchStopsAt(k, pages) => End(regions[k]) + pages <= HeapLimit
  /\ op' = Start("region", then, 0, pages)
  /\ UNCHANGED <<pmmVars, vmmVars>>

(* vmm_new_region and vmm_insert: the new region follows the one that the  *)
(* search stopped at.                                                      *)
vmm_insert(f) ==
  /\ op.at = "region"
  /\ P!pmm_alloc(f)
  /\ \E k \in DOMAIN regions :
       /\ SearchStopsAt(k, op.pages)
       /\ regions' = InsertAt(regions, k + 1, Region(End(regions[k]), op.pages, f))
       /\ op' = Start("data", op.then, End(regions[k]), op.pages)
  /\ UNCHANGED <<boot, tables, ptes, pagemaps>>

(* Mutant: one frame is taken for all the pages. *)
Mutant_vmm_alloc_page(f) ==
  /\ op.at = "data"
  /\ IF op.i = 0 THEN P!pmm_alloc(f) ELSE f = op.phys /\ UNCHANGED pmmVars
  /\ op' = GoTo("map", op.i, f)
  /\ UNCHANGED vmmVars

vmm_alloc_page(f) ==
  /\ op.at = "data"
  /\ P!pmm_alloc(f)
  /\ op' = GoTo("map", op.i, f)
  /\ UNCHANGED vmmVars

(* vmm_new_pagemap allocates the pagemap_t, which takes a page of the heap *)
(* before the first slab exists, and then copies the kernel half of the    *)
(* kernel's top level as it is at that moment.                             *)
vmm_new_pagemap == Cardinality(pagemaps) < MaxPagemaps /\ vmm_alloc(1, "pagemap")

(* Mutant: the copy leaves out the first entry. *)
Mutant_vmm_copy_top(f) ==
  /\ op.at = "top"
  /\ P!pmm_alloc(f)
  /\ pagemaps' = pagemaps \union
       {[frame |-> f, base |-> op.base,
         entries |-> [k \in {e \in TopEntries : e[2] > 0} |-> tables[k]]]}
  /\ op' = Idle
  /\ UNCHANGED <<boot, regions, tables, ptes>>

vmm_copy_top(f) ==
  /\ op.at = "top"
  /\ P!pmm_alloc(f)
  /\ pagemaps' = pagemaps \union
       {[frame |-> f, base |-> op.base, entries |-> [k \in TopEntries |-> tables[k]]]}
  /\ op' = Idle
  /\ UNCHANGED <<boot, regions, tables, ptes>>

----------------------------------------------------------------------------
(* vmm_free.  A pointer that is no region's base is ignored; the page of a *)
(* pagemap_t is never freed.                                               *)
vmm_free(k) ==
  /\ op.at = "idle"
  /\ k \in 2 .. Len(regions) /\ regions[k].base \notin {p.base : p \in pagemaps}
  /\ op' = Start("free", "idle", regions[k].base, regions[k].pages)
  /\ UNCHANGED <<pmmVars, vmmVars>>

mmu_get_page(v) ==
  IF MissingLevels(v) = {} /\ v \in DOMAIN ptes THEN {ptes[v]} ELSE {}

(* One turn of the loop: give the page's frame back, or give up on a page  *)
(* that has none.                                                          *)
vmm_free_page ==
  LET page == mmu_get_page(op.base + op.i)
  IN  /\ op.at = "free" /\ op.i < op.pages
      /\ IF page = {} THEN op' = Idle /\ UNCHANGED pmmVars
         ELSE /\ \A f \in page : P!pmm_free(f)
              /\ op' = GoTo("free", op.i + 1, 0)
      /\ UNCHANGED vmmVars

(* Mutant: the region is unlinked but its record is not freed. *)
Mutant_vmm_unlink ==
  /\ op.at = "free" /\ op.i = op.pages
  /\ \E k \in 2 .. Len(regions) :
       /\ regions[k].base = op.base
       /\ regions' = RemoveAt(regions, k)
  /\ op' = Idle
  /\ UNCHANGED <<pmmVars, boot, tables, ptes, pagemaps>>

vmm_unlink ==
  /\ op.at = "free" /\ op.i = op.pages
  /\ \E k \in 2 .. Len(regions) :
       /\ regions[k].base = op.base
       /\ P!pmm_free(regions[k].frame)
       /\ regions' = RemoveAt(regions, k)
  /\ op' = Idle
  /\ UNCHANGED <<boot, tables, ptes, pagemaps>>

----------------------------------------------------------------------------
(* A pmm_alloc that finds no free frame, in any of the callers. *)
Allocating ==
  \/ op.at \in {"init", "region", "data", "top"}
  \/ op.at = "map" /\ MissingLevels(MappedPage) # {}

Overrun == Allocating /\ P!pmm_alloc_overrun /\ UNCHANGED <<vmmVars, op>>

(* The next step of the operation in progress. *)
Continue ==
  \/ \E f \in P!Frame :
       \/ vmm_init_frame(f) \/ vmm_setup_vma(f) \/ mmu_new_level(f)
       \/ vmm_insert(f) \/ vmm_alloc_page(f) \/ vmm_copy_top(f)
  \/ mmu_map \/ vmm_free_page \/ vmm_unlink \/ Overrun

Next ==
  \/ Continue
  \/ \E pages \in 1 .. MaxPages : vmm_alloc(pages, "idle")
  \/ vmm_new_pagemap
  \/ \E k \in DOMAIN regions : vmm_free(k)

(* The CPU goes on executing the operation it is in. *)
Spec == Init /\ [][Next]_vars /\ WF_vars(Continue)

----------------------------------------------------------------------------
(* The shape of the manager's state. *)
TypeOK ==
  /\ boot \subseteq P!Frame /\ Cardinality(boot) <= 2
  /\ \A k \in DOMAIN regions :
       /\ regions[k].frame \in P!Frame
       /\ HeapBase <= regions[k].base /\ regions[k].pages > 0 /\ End(regions[k]) <= HeapLimit
  /\ \A k \in DOMAIN tables : tables[k] \in P!Frame
  /\ \A v \in HeapPages : v \in DOMAIN ptes => ptes[v] \in P!Frame
  /\ op \in OpType
  /\ op.i <= (IF op.then = "boot" THEN Len(BootMap) ELSE op.pages)

(* Every step of vmm.c and mmu.c is a legal use of the frame allocator:    *)
(* a frame taken is one that nobody held and a frame given back is one     *)
(* that was held, by exactly one part of the manager; nothing else ever    *)
(* appears in or drops out of the books (no leak, no double free).         *)
UsesPmm == P!Spec

(* The ring is sorted and no two regions share a page, whatever is freed   *)
(* and fitted into the holes (vmm_alloc, vmm_insert, vmm_free).            *)
RegionsDisjoint ==
  \A j, k \in DOMAIN regions : j < k => End(regions[j]) <= regions[k].base

(* A frame has one use: no two pages of the heap are backed by the same    *)
(* frame, and none by a frame that is a page table, a region record or a   *)
(* frame that the allocator considers free.                                *)
FramesExclusive ==
  /\ \A u, v \in HeapPages \intersect DOMAIN ptes : ptes[u] = ptes[v] => u = v
  /\ DataFrames \intersect (boot \union TableFrames \union RegionFrames \union TopFrames) = {}
  /\ \A f \in DataFrames : pmm_bitmap[f] = 1

(* vmm_free finds the mapping of every page of the region it frees: the    *)
(* error path "Trying to free a non-existent page", which would strand a   *)
(* half-freed region, is never taken.                                      *)
FreeFindsEveryPage ==
  op.at = "free" /\ op.i < op.pages => mmu_get_page(op.base + op.i) # {}

(* A thread's pagemap shares all of the kernel half: the top-level entries *)
(* vmm_new_pagemap copied are the ones the kernel's pagemap has now.       *)
KernelHalfShared ==
  \A p \in pagemaps : p.entries = [k \in TopEntries |-> tables[k]]

(* Every vmm_alloc, vmm_free and vmm_new_pagemap returns, unless memory    *)
(* runs out under it.                                                      *)
OperationsFinish == op.at # "idle" ~> (op.at = "idle" \/ pmm_overrun)
============================================================================
