------------------------------- MODULE Alloc -------------------------------
(***************************************************************************)
(* Allocation by size, kernel/src/mm/alloc.c, with the size header that    *)
(* free reads to find out where a block came from.                         *)
(*                                                                         *)
(* alloc takes an object of a size class from the slab allocator, or whole *)
(* pages from the virtual memory manager.  Both are here as what they      *)
(* promise when called from one CPU: a cache hands out some object of its  *)
(* slabs that it has, or makes a slab first (ObjectPool says the same);    *)
(* vmm_alloc takes the lowest hole that is large enough, and vmm_free gives*)
(* a region back, or does nothing with an address that begins none.        *)
(* Addresses are bytes from the start of the heap.                         *)
(***************************************************************************)
EXTENDS Naturals, FiniteSets, FiniteSetsExt

CONSTANTS
  PAGE_SIZE, SLAB_PAGE_COUNT,
  NBINS,      \* size classes: 8
  Sizes,      \* sizes that callers ask for
  MaxPages,   \* bound: pages of the heap
  MaxSlabs,   \* bound: slabs of a class
  MaxObjects, \* bound: objects of a slab that are handed out
  MaxBlocks   \* bound: blocks that callers have

ASSUME AllocAssumption ==
  /\ PAGE_SIZE \in Nat /\ SLAB_PAGE_COUNT \in Nat \ {0} /\ NBINS \in 1 .. 28
  /\ Sizes \subseteq Nat /\ {MaxPages, MaxSlabs, MaxObjects, MaxBlocks} \subseteq Nat
  \* A page holds an object of the largest class and the pointer at its end.
  /\ PAGE_SIZE >= 8 * 2 ^ (NBINS - 1) + 12

VARIABLES
  regions,  \* of the heap: [base, pages]
  nbins,    \* caches that alloc_init has made
  slabs,    \* the buffers of the slabs of each class
  cached,   \* the objects that each cache can hand out
  blocks,   \* what callers have: [ptr, size, header, from]; from is history
  dropped   \* history: the objects of the largest class that were freed

vars == <<regions, nbins, slabs, cached, blocks, dropped>>

Bin == 0 .. NBINS - 1
Largest == NBINS - 1
PAGES == NBINS            \* from, of a block that is no object

(* 1024 with eight classes *)
Limit == 8 * 2 ^ (NBINS - 1)

(* The header is part of an object. *)
obj_size(k) == 8 * 2 ^ k + 4

(* Mutant: rounds down. *)
Mutant_DIV_ROUND_UP(n, d) == n \div d
DIV_ROUND_UP(n, d) == (n + d - 1) \div d

(* 64 less the leading zeros of a 64-bit number. *)
Bits(n) == CHOOSE b \in 0 .. 30 : n < 2 ^ b /\ (b > 0 => n >= 2 ^ (b - 1))

alloc_get_bin(size) == IF size <= 8 THEN 0 ELSE Bits(size - 1) - 3

alloc_initialized == nbins = NBINS

(* SLAB_OBJ: whole objects on each page, in front of its last eight bytes. *)
objs_per_page(k) == (PAGE_SIZE - 8) \div obj_size(k)
SLAB_OBJ(k, buffer, i) ==
  buffer + (i \div objs_per_page(k)) * PAGE_SIZE + (i % objs_per_page(k)) * obj_size(k)
Objects(k, buffer) ==
  {SLAB_OBJ(k, buffer, i) : i \in {j \in 0 .. objs_per_page(k) * SLAB_PAGE_COUNT - 1 : j < MaxObjects}}

----------------------------------------------------------------------------
(* What the virtual memory manager promises. *)
End(r) == r.base + r.pages * PAGE_SIZE
Fits(base, pages) ==
  \A r \in regions : End(r) <= base \/ base + pages * PAGE_SIZE <= r.base
Holes(pages) ==
  {base \in {0} \union {End(r) : r \in regions} :
     Fits(base, pages) /\ base + pages * PAGE_SIZE <= MaxPages * PAGE_SIZE}

CanAlloc(pages) == Holes(pages) # {}
NewBase(pages) == Min(Holes(pages))
vmm_alloc(pages) ==
  /\ CanAlloc(pages)
  /\ regions' = regions \union {[base |-> NewBase(pages), pages |-> pages]}
vmm_free(ptr) == regions' = {r \in regions : r.base # ptr}

----------------------------------------------------------------------------
Init ==
  /\ regions = {} /\ nbins = 0
  /\ slabs = [k \in Bin |-> {}] /\ cached = [k \in Bin |-> {}]
  /\ blocks = {} /\ dropped = {}

(* One turn of the loop: a cache and its first slab.  What slab_create_slab*)
(* itself allocates for the cache is an AllocPages in between.             *)
alloc_init ==
  /\ ~alloc_initialized
  /\ vmm_alloc(SLAB_PAGE_COUNT)
  /\ LET buffer == NewBase(SLAB_PAGE_COUNT)
     IN  /\ slabs' = [slabs EXCEPT ![nbins] = {buffer}]
         /\ cached' = [cached EXCEPT ![nbins] = Objects(nbins, buffer)]
  /\ nbins' = nbins + 1
  /\ UNCHANGED <<blocks, dropped>>

Room == Cardinality(blocks) < MaxBlocks
Give(ptr, size, header, from) ==
  blocks' = blocks \union {[ptr |-> ptr + 4, size |-> size, header |-> header, from |-> from]}

AllocPages(size) ==
  LET pages == DIV_ROUND_UP(size + 4, PAGE_SIZE)
  IN  /\ Room /\ (size + 4 > Limit \/ ~alloc_initialized)
      /\ vmm_alloc(pages)
      /\ Give(NewBase(pages), size, pages * PAGE_SIZE, PAGES)
      /\ UNCHANGED <<nbins, slabs, cached, dropped>>

AllocObject(size) ==
  LET k == alloc_get_bin(size + 4)
  IN  /\ Room /\ size + 4 <= Limit /\ alloc_initialized
      /\ \E o \in cached[k] :
           /\ cached' = [cached EXCEPT ![k] = @ \ {o}]
           /\ Give(o, size, obj_size(k), k)
      /\ UNCHANGED <<regions, nbins, slabs, dropped>>

(* The cache makes a slab first. *)
AllocFromNewSlab(size) ==
  LET k == alloc_get_bin(size + 4)
      buffer == NewBase(SLAB_PAGE_COUNT)
  IN  /\ Room /\ size + 4 <= Limit /\ alloc_initialized /\ Cardinality(slabs[k]) < MaxSlabs
      /\ vmm_alloc(SLAB_PAGE_COUNT)
      /\ slabs' = [slabs EXCEPT ![k] = @ \union {buffer}]
      /\ \E o \in Objects(k, buffer) :
           /\ cached' = [cached EXCEPT ![k] = (@ \union Objects(k, buffer)) \ {o}]
           /\ Give(o, size, obj_size(k), k)
      /\ UNCHANGED <<nbins, dropped>>

(* Mutant: the header is taken for part of the block. *)
Mutant_off_ptr(b) == b.ptr
off_ptr(b) == b.ptr - 4

(* Mutant: half the limit. *)
Mutant_IsPages(b) == 2 * b.header > Limit
IsPages(b) == b.header > Limit

free(b) ==
  /\ IF IsPages(b) THEN vmm_free(off_ptr(b)) /\ UNCHANGED cached
     ELSE /\ cached' = [cached EXCEPT ![b.from] = @ \union {off_ptr(b)}]
          /\ UNCHANGED regions
  /\ blocks' = blocks \ {b}
  /\ dropped' = IF b.from = Largest THEN dropped \union {off_ptr(b)} ELSE dropped
  /\ UNCHANGED <<nbins, slabs>>

(* Two blocks share a byte, their headers included. *)
Overlap(b, c) == b.ptr - 4 < c.ptr + c.size /\ c.ptr - 4 < b.ptr + b.size
Apart == \A b, c \in blocks : b # c => ~Overlap(b, c)

(* The first object of a slab of the largest class lies where its buffer   *)
(* begins: once it was freed, the buffer is free memory, and the model ends. *)
Intact == \A buffer \in slabs[Largest] : buffer \notin dropped

Next ==
  /\ Intact
  /\ \/ alloc_init
     \/ \E size \in Sizes : AllocPages(size) \/ AllocObject(size) \/ AllocFromNewSlab(size)
     \/ \E b \in blocks : free(b)

Spec == Init /\ [][Next]_vars

----------------------------------------------------------------------------
(* The shape of the state: caches hold objects of their slabs. *)
TypeOK ==
  /\ \A r \in regions : r.base % PAGE_SIZE = 0 /\ End(r) <= MaxPages * PAGE_SIZE
  /\ nbins \in 0 .. NBINS
  /\ \A k \in Bin : cached[k] \subseteq UNION {Objects(k, buffer) : buffer \in slabs[k]}
  /\ \A b \in blocks : b.size \in Sizes /\ b.from \in Bin \union {PAGES}

(* What a caller asked for and its header fit into the object or the pages *)
(* it got, and never reach the pointer to the slab at the end of a page.   *)
BlocksFit ==
  \A b \in blocks :
    IF b.from = PAGES THEN b.size + 4 <= b.header
    ELSE /\ b.size + 4 <= obj_size(b.from)
         /\ (off_ptr(b) % PAGE_SIZE) + 4 + b.size <= PAGE_SIZE - 8

(* An object of a slab is with its cache or with one caller, but those of  *)
(* the largest class are gone for good once they are freed: their header,  *)
(* 1028, is taken for whole pages.                                         *)
OnlyLargestIsLost ==
  Intact =>
    \A k \in Bin :
      LET all  == UNION {Objects(k, buffer) : buffer \in slabs[k]}
          held == {off_ptr(b) : b \in {c \in blocks : c.from = k}}
      IN  /\ cached[k] \intersect held = {}
          /\ all \ (cached[k] \union held) = (IF k = Largest THEN dropped ELSE {})

(* The memory of a slab is given away under its objects in one way only:   *)
(* the first object of a slab of the largest class is freed.  Before that  *)
(* slabs keep their pages, and callers never share memory.                 *)
SlabsKeepTheirPages ==
  Intact =>
    /\ Apart
    /\ \A k \in Bin : \A buffer \in slabs[k] :
         [base |-> buffer, pages |-> SLAB_PAGE_COUNT] \in regions

(* The heap is accounted for: every block fits where it lies, and no       *)
(* sequence of calls loses or gives away memory but by freeing objects of  *)
(* the largest class.                                                      *)
HeapSound == TypeOK /\ BlocksFit /\ OnlyLargestIsLost /\ SlabsKeepTheirPages
=============================================================================
