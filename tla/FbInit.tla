------------------------------- MODULE FbInit -------------------------------
(***************************************************************************)
(* How flanterm_fb_init (kernel/src/lib/flanterm/backends/fb.c) sizes the  *)
(* terminal to the frame buffer and takes its memory.                      *)
(*                                                                         *)
(* The kernel draws before it has an allocator: the terminal's structures  *)
(* come one after the other from a static pool of fixed size.  A mode is   *)
(* what the boot loader tells of the frame buffer: width and height in     *)
(* pixels, and the size of the red, green and blue masks.                  *)
(***************************************************************************)
EXTENDS Integers, Sequences

CONSTANT PoolAddress  \* of the static pool, modulo 16

ASSUME PoolAssumption == PoolAddress \in 0 .. 15

FLANTERM_FB_BUMP_ALLOC_POOL_SIZE == 873000
FLANTERM_FB_WIDTH_LIMIT == 1920
FLANTERM_FB_HEIGHT_LIMIT == 1200
FLANTERM_FB_FONT_GLYPHS == 256
font_width == 8
font_height == 14
font_spacing == 1

(* A pool: the offset of the next block, whether it was aligned, and the   *)
(* blocks that were taken; ok says whether the last request got one.       *)
Pool == [ptr |-> 0, base_offset_added |-> FALSE, blocks |-> <<>>, ok |-> TRUE]

Aligned(pool) ==
  IF pool.base_offset_added \/ PoolAddress = 0 THEN pool.ptr ELSE pool.ptr + (16 - PoolAddress)
Rounded(s) == s + ((-s) % 16)

(* Mutant: takes a block that ends behind the pool. *)
Mutant_bump_alloc(pool, s) ==
  [ptr |-> Aligned(pool) + Rounded(s), base_offset_added |-> TRUE,
   blocks |-> Append(pool.blocks, [at |-> Aligned(pool), size |-> s]), ok |-> TRUE]

bump_alloc(pool, s) ==
  LET at == Aligned(pool)
      next_ptr == at + Rounded(s)
  IN  IF next_ptr > FLANTERM_FB_BUMP_ALLOC_POOL_SIZE
      THEN [ptr |-> at, base_offset_added |-> TRUE, blocks |-> pool.blocks, ok |-> FALSE]
      ELSE [ptr |-> next_ptr, base_offset_added |-> TRUE,
            blocks |-> Append(pool.blocks, [at |-> at, size |-> s]), ok |-> TRUE]

----------------------------------------------------------------------------
(* The size of a glyph is chosen before the size of the terminal is limited. *)
font_scale(mode) ==
  IF mode.width >= 5120 /\ mode.height >= 2880 THEN 4
  ELSE IF mode.width >= 2560 /\ mode.height >= 1440 THEN 2 ELSE 1
glyph_width(mode) == (font_width + font_spacing) * font_scale(mode)
glyph_height(mode) == font_height * font_scale(mode)

Limit(n, limit) == IF n > limit THEN limit ELSE n
width(mode) == Limit(mode.width, FLANTERM_FB_WIDTH_LIMIT)
height(mode) == Limit(mode.height, FLANTERM_FB_HEIGHT_LIMIT)
cols(mode) == width(mode) \div glyph_width(mode)
rows(mode) == height(mode) \div glyph_height(mode)

(* The limited terminal is in the middle of the frame buffer, and its rows *)
(* and columns in the middle of the terminal.  The first pixel of a cell.  *)
plot_x(mode, x) ==
  (mode.width \div 2) - (width(mode) \div 2) + ((width(mode) % glyph_width(mode)) \div 2) + x * glyph_width(mode)
plot_y(mode, y) ==
  (mode.height \div 2) - (height(mode) \div 2) + ((height(mode) % glyph_height(mode)) \div 2) + y * glyph_height(mode)

----------------------------------------------------------------------------
(* The context, the font as bits and as booleans, the grid, the queue and  *)
(* the map.  The sizes of the structures are those of the x86-64 ABI.      *)
flanterm_fb_context == 800
flanterm_fb_char == 12
flanterm_fb_queue_item == 32
pointer == 8

Requests(mode) ==
  LET n == rows(mode) * cols(mode)
  IN  <<flanterm_fb_context,
        (font_width * font_height * FLANTERM_FB_FONT_GLYPHS) \div 8,
        FLANTERM_FB_FONT_GLYPHS * font_height * (font_width + font_spacing),
        n * flanterm_fb_char, n * flanterm_fb_queue_item, n * pointer>>

(* The first request that fails ends the initialisation. *)
Taken(mode) ==
  LET after[k \in 0 .. 6] ==
        IF k = 0 THEN Pool
        ELSE IF after[k - 1].ok THEN bump_alloc(after[k - 1], Requests(mode)[k]) ELSE after[k - 1]
  IN  after[6]

MasksFit(mode) == mode.red >= 8 /\ mode.red = mode.green /\ mode.red = mode.blue
Initialises(mode) == MasksFit(mode) /\ Taken(mode).ok
=============================================================================
