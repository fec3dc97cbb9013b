------------------------------- MODULE FbTerm -------------------------------
(***************************************************************************)
(* The frame-buffer backend of the terminal that kprintf writes to,        *)
(* kernel/src/lib/flanterm/backends/fb.c.                                  *)
(*                                                                         *)
(* ctx is the terminal's context.  Three of its parts say what is in a     *)
(* cell: grid, what was drawn last; queue, the characters that wait to be  *)
(* drawn; map, which names the queue item of a cell (0 for none).  screen  *)
(* is the frame buffer itself, a character and its colours for each cell   *)
(* in place of their pixels.  Each function of the source is an operator   *)
(* that takes the context and returns the one it leaves; module Flanterm   *)
(* calls them.  Numbers wrap in the source: what it computes below zero is *)
(* negative here, and (int)x < 0 is x < 0 for values below 2^31.           *)
(***************************************************************************)
EXTENDS Integers, Sequences

(* A colour is a kind and a number.  TRANSPARENT is 0xffffffff. *)
TRANSPARENT == <<"transparent", 0>>
default_bg == <<"default_bg", 0>>
default_fg == <<"default_fg", 0>>
default_bg_bright == <<"default_bg_bright", 0>>
default_fg_bright == <<"default_fg_bright", 0>>
ansi_colours(n) == <<"ansi", n>>
ansi_bright_colours(n) == <<"ansi_bright", n>>
rgb(n) == <<"rgb", n>>

(* What a context is: struct flanterm_context and struct flanterm_fb_context, *)
(* for n columns and m rows.                                               *)
Colour ==
  {"transparent", "default_bg", "default_fg", "default_bg_bright", "default_fg_bright",
   "ansi", "ansi_bright", "rgb"} \X Int
Cell == [c : Int, fg : Colour, bg : Colour]
SavedState == [x : Nat, y : Nat, fg : Colour, bg : Colour]
SavedAttributes ==
  [bold : BOOLEAN, bg_bold : BOOLEAN, reverse_video : BOOLEAN, current_charset : 1 .. 2,
   current_primary : Int, current_bg : Int]
Context(n, m) ==
  [cols : {n}, rows : {m}, grid : [0 .. m * n - 1 -> Cell], map : [0 .. m * n - 1 -> Nat],
   queue : Seq([i : 0 .. m * n - 1, c : Cell]), screen : [0 .. m * n - 1 -> Cell],
   cursor_x : Nat, cursor_y : Nat, old_cursor_x : Nat, old_cursor_y : Nat,
   text_fg : Colour, text_bg : Colour, saved_state : SavedState,
   autoflush : BOOLEAN, cursor_enabled : BOOLEAN, scroll_enabled : BOOLEAN,
   bold : BOOLEAN, bg_bold : BOOLEAN, reverse_video : BOOLEAN, insert_mode : BOOLEAN,
   charsets : [1 .. 2 -> {"default", "dec_special"}], current_charset : 1 .. 2, saved_cursor : Nat \X Nat,
   current_primary : Int, current_bg : Int, top : Nat, bottom : Nat, onlcr : BOOLEAN,
   saved_attributes : SavedAttributes]

Cells(ctx) == 0 .. ctx.rows * ctx.cols - 1
Char(ctx, c) == [c |-> c, fg |-> ctx.text_fg, bg |-> ctx.text_bg]
Blank == 32

(* What the cell holds once everything that waits is drawn. *)
Content(ctx, i) == IF ctx.map[i] = 0 THEN ctx.grid[i] ELSE ctx.queue[ctx.map[i]].c

(* The n turns of a loop; turn k makes Op(ctx, k) of the context. *)
Turns(ctx, n, Op(_, _)) ==
  LET turns == IF n > 0 THEN n ELSE 0
      after[k \in 0 .. turns] == IF k = 0 THEN ctx ELSE Op(after[k - 1], k)
  IN  after[turns]

----------------------------------------------------------------------------
(* Drawing: without a canvas a transparent colour shows the background. *)
Shown(ch) ==
  LET Opaque(colour) == IF colour = TRANSPARENT THEN default_bg ELSE colour
  IN  [c |-> ch.c, fg |-> Opaque(ch.fg), bg |-> Opaque(ch.bg)]

plot_char(ctx, ch, x, y) ==
  IF x >= ctx.cols \/ y >= ctx.rows THEN ctx
  ELSE [ctx EXCEPT !.screen[y * ctx.cols + x] = Shown(ch)]

(* Mutant: a character that is queued already is queued again. *)
Mutant_push_to_queue(ctx, ch, x, y) ==
  LET i == y * ctx.cols + x
  IN  IF x >= ctx.cols \/ y >= ctx.rows \/ Content(ctx, i) = ch THEN ctx
      ELSE [ctx EXCEPT !.queue = Append(@, [i |-> i, c |-> ch]), !.map[i] = Len(ctx.queue) + 1]

(* Mutant: compares with the grid although a character waits. *)
Mutant_push_to_queue_grid(ctx, ch, x, y) ==
  LET i == y * ctx.cols + x
  IN  IF x >= ctx.cols \/ y >= ctx.rows \/ ctx.grid[i] = ch THEN ctx
      ELSE IF ctx.map[i] # 0 THEN [ctx EXCEPT !.queue[ctx.map[i]].c = ch]
      ELSE [ctx EXCEPT !.queue = Append(@, [i |-> i, c |-> ch]), !.map[i] = Len(ctx.queue) + 1]

push_to_queue(ctx, ch, x, y) ==
  LET i == y * ctx.cols + x
  IN  IF x >= ctx.cols \/ y >= ctx.rows THEN ctx
      ELSE IF ctx.map[i] # 0 THEN [ctx EXCEPT !.queue[ctx.map[i]].c = ch]
      ELSE IF ctx.grid[i] = ch THEN ctx
      ELSE [ctx EXCEPT !.queue = Append(@, [i |-> i, c |-> ch]), !.map[i] = Len(ctx.queue) + 1]

ClearRow(ctx, y) ==
  Turns(ctx, ctx.cols, LAMBDA t, k : push_to_queue(t, Char(t, Blank), k - 1, y))

(* From the last cell but one row backwards, so that no cell is overwritten *)
(* before it is copied; margins of one row give an empty walk.             *)
(* Mutant: the walk goes forwards. *)
Mutant_revscroll(ctx) ==
  LET lowest == ctx.top * ctx.cols
      n == (ctx.bottom - 1) * ctx.cols - lowest
      Move(t, k) == LET i == lowest + k - 1
                    IN  push_to_queue(t, Content(t, i), (i + t.cols) % t.cols, (i + t.cols) \div t.cols)
  IN  ClearRow(Turns(ctx, n, Move), ctx.top)

revscroll(ctx) ==
  LET highest == (ctx.bottom - 1) * ctx.cols - 1
      n == highest - ctx.top * ctx.cols + 1
      Move(t, k) == LET i == highest - k + 1
                    IN  push_to_queue(t, Content(t, i), (i + t.cols) % t.cols, (i + t.cols) \div t.cols)
  IN  ClearRow(Turns(ctx, n, Move), ctx.top)

scroll(ctx) ==
  LET from == (ctx.top + 1) * ctx.cols
      n == ctx.bottom * ctx.cols - from
      Move(t, k) == LET i == from + k - 1
                    IN  push_to_queue(t, Content(t, i), (i - t.cols) % t.cols, (i - t.cols) \div t.cols)
  IN  ClearRow(Turns(ctx, n, Move), ctx.bottom - 1)

clear(ctx, move) ==
  LET Erase(t, k) == push_to_queue(t, Char(t, Blank), (k - 1) % t.cols, (k - 1) \div t.cols)
      erased == Turns(ctx, ctx.rows * ctx.cols, Erase)
  IN  IF move THEN [erased EXCEPT !.cursor_x = 0, !.cursor_y = 0] ELSE erased

----------------------------------------------------------------------------
(* The cursor.  cursor_x is the number of columns after the last one: the  *)
(* next character begins a new row.                                        *)
Clamp(v, n) == IF v < 0 THEN 0 ELSE IF v >= n THEN n - 1 ELSE v

set_cursor_pos(ctx, x, y) ==
  [ctx EXCEPT !.cursor_x = Clamp(x, ctx.cols), !.cursor_y = Clamp(y, ctx.rows)]
X(ctx) == Clamp(ctx.cursor_x, ctx.cols)
Y(ctx) == Clamp(ctx.cursor_y, ctx.rows)

move_character(ctx, new_x, new_y, old_x, old_y) ==
  IF old_x >= ctx.cols \/ old_y >= ctx.rows \/ new_x >= ctx.cols \/ new_y >= ctx.rows THEN ctx
  ELSE push_to_queue(ctx, Content(ctx, old_x + old_y * ctx.cols), new_x, new_y)

(* The row is compared with the number of columns. *)
NextRow(ctx) ==
  LET y == ctx.cursor_y + 1
      wrapped == IF y = ctx.bottom THEN scroll([ctx EXCEPT !.cursor_x = 0])
                 ELSE [ctx EXCEPT !.cursor_x = 0, !.cursor_y = y]
  IN  [wrapped EXCEPT !.cursor_y = IF @ >= ctx.cols THEN ctx.cols - 1 ELSE @]

(* Mutant: wraps before the last column. *)
Mutant_Wraps(ctx) ==
  ctx.cursor_x + 1 >= ctx.cols /\ (ctx.cursor_y < ctx.bottom - 1 \/ ctx.scroll_enabled)
Wraps(ctx) ==
  ctx.cursor_x >= ctx.cols /\ (ctx.cursor_y < ctx.bottom - 1 \/ ctx.scroll_enabled)

raw_putchar(ctx, c) ==
  LET at == IF Wraps(ctx) THEN NextRow(ctx) ELSE ctx
  IN  [push_to_queue(at, Char(at, c), at.cursor_x, at.cursor_y) EXCEPT !.cursor_x = @ + 1]

----------------------------------------------------------------------------
(* Colours.  Reverse video swaps the two text colours. *)
swap_palette(ctx) == [ctx EXCEPT !.text_fg = ctx.text_bg, !.text_bg = ctx.text_fg]

save_state(ctx) ==
  [ctx EXCEPT !.saved_state = [x |-> ctx.cursor_x, y |-> ctx.cursor_y, fg |-> ctx.text_fg, bg |-> ctx.text_bg]]
restore_state(ctx) ==
  [ctx EXCEPT !.cursor_x = ctx.saved_state.x, !.cursor_y = ctx.saved_state.y,
              !.text_fg = ctx.saved_state.fg, !.text_bg = ctx.saved_state.bg]

----------------------------------------------------------------------------
(* Showing what waits. *)
Reversed(ch) == [c |-> ch.c, fg |-> ch.bg, bg |-> ch.fg]
OnScreen(ctx, x, y) == x < ctx.cols /\ y < ctx.rows

(* The character under the cursor is drawn reversed, and if it waits it is *)
(* done: its queue item stays, without an entry in map.                    *)
draw_cursor(ctx) ==
  LET i == ctx.cursor_x + ctx.cursor_y * ctx.cols
  IN  IF ~OnScreen(ctx, ctx.cursor_x, ctx.cursor_y) THEN ctx
      ELSE [plot_char(ctx, Reversed(Content(ctx, i)), ctx.cursor_x, ctx.cursor_y)
              EXCEPT !.grid[i] = Content(ctx, i), !.map[i] = 0]

DrawItem(ctx, k) ==
  LET q == ctx.queue[k]
  IN  IF ctx.map[q.i] = 0 THEN ctx
      ELSE [plot_char(ctx, q.c, q.i % ctx.cols, q.i \div ctx.cols) EXCEPT !.grid[q.i] = q.c, !.map[q.i] = 0]

(* The cell the cursor left is drawn again. *)
(* Mutant: not when the cursor is switched off where it stands. *)
Mutant_EraseOldCursor(ctx) ==
  LET i == ctx.old_cursor_x + ctx.old_cursor_y * ctx.cols
      Moved == ctx.old_cursor_x # ctx.cursor_x \/ ctx.old_cursor_y # ctx.cursor_y
  IN  IF Moved /\ OnScreen(ctx, ctx.old_cursor_x, ctx.old_cursor_y)
      THEN plot_char(ctx, ctx.grid[i], ctx.old_cursor_x, ctx.old_cursor_y)
      ELSE ctx

EraseOldCursor(ctx) ==
  LET i == ctx.old_cursor_x + ctx.old_cursor_y * ctx.cols
      Moved == ctx.old_cursor_x # ctx.cursor_x \/ ctx.old_cursor_y # ctx.cursor_y
  IN  IF (Moved \/ ~ctx.cursor_enabled) /\ OnScreen(ctx, ctx.old_cursor_x, ctx.old_cursor_y)
      THEN plot_char(ctx, ctx.grid[i], ctx.old_cursor_x, ctx.old_cursor_y)
      ELSE ctx

double_buffer_flush(ctx) ==
  LET pointed == IF ctx.cursor_enabled THEN draw_cursor(ctx) ELSE ctx
      drawn == EraseOldCursor(Turns(pointed, Len(ctx.queue), DrawItem))
  IN  [drawn EXCEPT !.old_cursor_x = ctx.cursor_x, !.old_cursor_y = ctx.cursor_y, !.queue = <<>>]

(* Draws the grid, not what waits, and remembers no old cursor. *)
full_refresh(ctx) ==
  LET drawn == [ctx EXCEPT !.screen = [i \in Cells(ctx) |-> Shown(ctx.grid[i])]]
  IN  IF ctx.cursor_enabled THEN draw_cursor(drawn) ELSE drawn
=============================================================================
