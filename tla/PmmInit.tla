------------------------------ MODULE PmmInit ------------------------------
(***************************************************************************)
(* How pmm_init, kernel/src/mm/pmm.c, makes the bitmap of module Pmm from  *)
(* the memory map of the boot loader: three loops over the entries, one    *)
(* turn a step.  The first sizes the bitmap, the second places it, the     *)
(* third clears the bits of the usable pages and sets the hint.            *)
(*                                                                         *)
(* Bases and lengths are in pages (usable entries are page-aligned, and    *)
(* the map is sorted).  free is the set of the bits that are clear.        *)
(***************************************************************************)
EXTENDS Naturals, Sequences

CONSTANTS
  PAGE_SIZE,   \* bytes of a page: 4096
  Maps         \* the memory maps that the boot loader may pass

NONE == 0
End(e) == e.base + e.length

(* A map is sorted, and its entries do not overlap. *)
MapEntry == [base : Nat, length : Nat \ {0}, usable : BOOLEAN]
Sorted(map) == \A j, k \in DOMAIN map : j < k => End(map[j]) <= map[k].base

ASSUME PmmInitAssumption ==
  /\ PAGE_SIZE \in Nat \ {0}
  /\ \A map \in Maps : map # <<>> /\ map \in Seq(MapEntry) /\ Sorted(map)

VARIABLES
  memmap,           \* the entries: [base, length, usable]
  init_at, init_i,  \* where pmm_init is, and the index of its loop
  pmm_bitmap_size,  \* in pages of memory until the first loop ends, then in bytes
  bitmap_entry,     \* the index of the entry the bitmap is in
  free,
  pmm_last_free

pmm_init_vars == <<memmap, init_at, init_i, pmm_bitmap_size, bitmap_entry, free, pmm_last_free>>

BitmapPages == pmm_bitmap_size \div PAGE_SIZE

PmmInitInit ==
  /\ memmap \in Maps
  /\ init_at = "sum" /\ init_i = 1
  /\ pmm_bitmap_size = 0 /\ bitmap_entry = NONE /\ free = {} /\ pmm_last_free = 0

----------------------------------------------------------------------------
AddUp ==
  /\ init_at = "sum" /\ init_i <= Len(memmap)
  /\ pmm_bitmap_size' = pmm_bitmap_size + memmap[init_i].length
  /\ init_i' = init_i + 1
  /\ UNCHANGED <<memmap, init_at, bitmap_entry, free, pmm_last_free>>

(* One bit for each page, in whole bytes, in whole pages. *)
(* Mutant: rounded down. *)
Mutant_ALIGN_DOWN(x) == (x \div PAGE_SIZE) * PAGE_SIZE
(* Mutant: not rounded to pages. *)
Mutant_ALIGN_UP(x) == x
ALIGN_UP(x) == ((x + (PAGE_SIZE - 1)) \div PAGE_SIZE) * PAGE_SIZE

Size ==
  /\ init_at = "sum" /\ init_i > Len(memmap)
  /\ pmm_bitmap_size' = ALIGN_UP(pmm_bitmap_size \div 8)
  /\ init_at' = "place" /\ init_i' = 1
  /\ UNCHANGED <<memmap, bitmap_entry, free, pmm_last_free>>

Fits(e) == e.usable /\ e.length >= BitmapPages

(* The first usable entry that is large enough takes the bitmap; without   *)
(* one the assertion after the loop fails.                                 *)
Place ==
  /\ init_at = "place"
  /\ IF init_i > Len(memmap)
     THEN init_at' = "assert" /\ UNCHANGED <<init_i, bitmap_entry>>
     ELSE IF Fits(memmap[init_i])
     THEN init_at' = "clear" /\ init_i' = 1 /\ bitmap_entry' = init_i
     ELSE init_i' = init_i + 1 /\ UNCHANGED <<init_at, bitmap_entry>>
  /\ UNCHANGED <<memmap, pmm_bitmap_size, free, pmm_last_free>>

(* What is left of entry k beside the bitmap.                              *)
(* Mutant: the length is not shortened. *)
Mutant_Rest(k) ==
  IF k = bitmap_entry THEN [base |-> memmap[k].base + BitmapPages, length |-> memmap[k].length]
  ELSE [base |-> memmap[k].base, length |-> memmap[k].length]

Rest(k) ==
  LET taken == IF k = bitmap_entry THEN BitmapPages ELSE 0
  IN  [base |-> memmap[k].base + taken, length |-> memmap[k].length - taken]

(* Mutant: the hint follows the entries. *)
Mutant_Hint(base) == base
Hint(base) == IF pmm_last_free = 0 THEN base ELSE pmm_last_free

Clear ==
  /\ init_at = "clear" /\ init_i <= Len(memmap)
  /\ IF memmap[init_i].usable
     THEN /\ pmm_last_free' = Hint(Rest(init_i).base)
          /\ free' = free \union (Rest(init_i).base .. End(Rest(init_i)) - 1)
     ELSE UNCHANGED <<free, pmm_last_free>>
  /\ init_i' = init_i + 1
  /\ UNCHANGED <<memmap, init_at, pmm_bitmap_size, bitmap_entry>>

Done ==
  /\ init_at = "clear" /\ init_i > Len(memmap)
  /\ init_at' = "done"
  /\ UNCHANGED <<memmap, init_i, pmm_bitmap_size, bitmap_entry, free, pmm_last_free>>

PmmInitNext == AddUp \/ Size \/ Place \/ Clear \/ Done
PmmInitSpec == PmmInitInit /\ [][PmmInitNext]_pmm_init_vars

----------------------------------------------------------------------------
Bits == 8 * pmm_bitmap_size
Pages(k) == memmap[k].base .. End(memmap[k]) - 1
UsablePages == UNION {Pages(k) : k \in {k \in DOMAIN memmap : memmap[k].usable}}
PagesOfBitmap == memmap[bitmap_entry].base .. memmap[bitmap_entry].base + BitmapPages - 1

(* The shape of the state. *)
PmmInitTypeOK ==
  /\ init_at \in {"sum", "place", "assert", "clear", "done"} /\ init_i \in 1 .. Len(memmap) + 1
  /\ bitmap_entry \in 0 .. Len(memmap) /\ pmm_bitmap_size \in Nat /\ pmm_last_free \in Nat
  /\ init_at \in {"clear", "done"} => bitmap_entry # NONE /\ pmm_bitmap_size % PAGE_SIZE = 0

(* What pmm_init leaves free is what the map calls usable, without the     *)
(* pages under the bitmap itself.                                          *)
FreeIsUsable == init_at = "done" => free = UsablePages \ PagesOfBitmap

(* No page below the hint is free, which pmm_alloc relies on to find all   *)
(* of them; the exception is a map whose memory is usable from page 0,     *)
(* which the code takes for a hint that is not set.                        *)
HintBelowFree ==
  init_at = "done" => \/ \A f \in free : pmm_last_free <= f
                      \/ 0 \in free

(* A usable page has no bit, and its bit is cleared in the memory after    *)
(* the bitmap, only if the map has a gap (the size is the sum of the       *)
(* lengths, the number of a bit is an address) or if the number of pages   *)
(* is up to 7 more than a page of bits or several hold.                    *)
Contiguous ==
  /\ memmap[1].base = 0
  /\ \A k \in 1 .. Len(memmap) - 1 : memmap[k + 1].base = End(memmap[k])
Residue == End(memmap[Len(memmap)]) % (8 * PAGE_SIZE)
UncoveredCauses ==
  init_at = "done" => \/ \A f \in free : f < Bits
                      \/ ~Contiguous
                      \/ Residue \in 1 .. 7

(* What pmm_init leaves is what pmm_alloc takes for granted: the usable    *)
(* frames, and nothing else, are free, from the hint on, and each has a    *)
(* bit but on the maps that UncoveredCauses names.                         *)
LeavesUsable == PmmInitTypeOK /\ FreeIsUsable /\ HintBelowFree /\ UncoveredCauses
=============================================================================
