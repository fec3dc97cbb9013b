------------------------------ MODULE Flanterm ------------------------------
(***************************************************************************)
(* The terminal that kprintf writes to, kernel/src/lib/flanterm/flanterm.c,*)
(* on the frame-buffer backend of modules FbInit and FbTerm.               *)
(*                                                                         *)
(* flanterm_write takes its bytes one by one through flanterm_putchar: a   *)
(* machine that decodes UTF-8, follows escape sequences and moves the      *)
(* cursor, scrolls, erases and colours.  One action here is what one byte  *)
(* does.  After the last byte the write draws what waits.  Bytes are       *)
(* numbers: 27 is ESC.                                                     *)
(*                                                                         *)
(* Nothing locks the terminal.  The threads here share a CPU, and the      *)
(* timer may take it from one between two bytes of its text.  The kernel   *)
(* sets no callback, so the sequences that only report to one change       *)
(* nothing.                                                                *)
(***************************************************************************)
EXTENDS FbTerm, FbInit, Unicode, FiniteSets

CONSTANTS
  FLANTERM_MAX_ESC_VALUES,  \* 16
  tab_size,                 \* 8
  NULL,
  Threads,                  \* that write
  Modes,                    \* of the frame buffer: see FbInit
  Texts,                    \* for each thread what it may write: sequences of bytes
  LogLines,                 \* those of the texts that leave the colours as they found them
  MaxCells,                 \* bound: cells of a screen that is written to
  MaxCalls,                 \* bound: calls of threads
  MaxSwitches               \* bound: times the timer takes the CPU

ASSUME FlantermAssumption ==
  /\ FLANTERM_MAX_ESC_VALUES \in Nat \ {0, 1} /\ tab_size \in Nat \ {0}
  /\ MaxCells \in Nat /\ MaxCalls \in Nat /\ MaxSwitches \in Nat /\ DOMAIN Texts = Threads
  /\ Modes \subseteq [width : Nat, height : Nat, red : Nat, green : Nat, blue : Nat] /\ NULL \notin Modes
  /\ \A m \in Modes : NULL \notin Context(cols(m), rows(m))
  \* The frame buffer has room for a column and two rows.
  /\ \A m \in Modes : m.width >= font_width + font_spacing /\ m.height >= 2 * font_height

(* What the kernel logs: ASCII with sequences that set colours, the last   *)
(* of which resets them, as ESC [ 0 m of LOG_INFO and its kind does.       *)
Sequence(text, j, e) ==
  /\ j + 1 < e /\ text[j] = 27 /\ text[j + 1] = 91 /\ text[e] = 109
  /\ \A i \in j + 2 .. e - 1 : text[i] \in (48 .. 57) \cup {59}
Resets(text, j, e) == Sequence(text, j, e) /\ (e = j + 2 \/ (e = j + 3 /\ text[j + 2] = 48))
LogLine(text) ==
  /\ text \in Seq(0 .. 127)
  /\ \A j \in DOMAIN text : text[j] = 27 =>
       /\ \E e \in DOMAIN text : Sequence(text, j, e)
       /\ \E i, e \in DOMAIN text : i >= j /\ Resets(text, i, e)

ASSUME LogLinesAssumption == \A text \in LogLines : LogLine(text)

VARIABLES
  mode,     \* of the frame buffer; NULL before framebuffer_early_init
  ctx,      \* the context but for its parser: see FbTerm; NULL if there is none
  parser,   \* where the machine is in an escape sequence or a code point
  input,    \* for each thread the bytes its write has still to take
  busy,     \* the threads that are in a write
  turn,     \* the thread that has the CPU
  halted,   \* a write has followed the null pointer
  calls,    \* number of calls so far
  switches, \* number of switches so far
  history   \* what has happened that explains a flaw: see History

vars == <<mode, ctx, parser, input, busy, turn, halted, calls, switches, history>>

NONE == -1  \* (size_t)-1
Values == 0 .. FLANTERM_MAX_ESC_VALUES - 1

Ground ==
  [escape |-> FALSE, control_sequence |-> FALSE, osc |-> FALSE, osc_escape |-> FALSE,
   discard_next |-> FALSE, csi_unhandled |-> FALSE, dec_private |-> FALSE, rrr |-> FALSE,
   escape_offset |-> 0, esc_values |-> [k \in Values |-> 0], esc_values_i |-> 0,
   unicode_remaining |-> 0, code_point |-> 0, g_select |-> 0]

flanterm_context_reinit(t) ==
  [t EXCEPT !.autoflush = TRUE, !.cursor_enabled = TRUE, !.scroll_enabled = TRUE,
            !.bold = FALSE, !.bg_bold = FALSE, !.reverse_video = FALSE, !.insert_mode = FALSE,
            !.charsets = <<"default", "dec_special">>, !.current_charset = 1,
            !.saved_cursor = <<0, 0>>, !.current_primary = NONE, !.current_bg = NONE,
            !.top = 0, !.bottom = t.rows, !.onlcr = TRUE]

(* What flanterm_fb_init leaves: memset to 0, then the backend's fields. *)
Zeroed(n, m) ==
  [cols |-> n, rows |-> m,
   grid |-> [i \in 0 .. n * m - 1 |-> [c |-> Blank, fg |-> default_fg, bg |-> TRANSPARENT]],
   map |-> [i \in 0 .. n * m - 1 |-> 0], queue |-> <<>>,
   screen |-> [i \in 0 .. n * m - 1 |-> [c |-> Blank, fg |-> default_bg, bg |-> default_bg]],
   cursor_x |-> 0, cursor_y |-> 0, old_cursor_x |-> 0, old_cursor_y |-> 0,
   text_fg |-> default_fg, text_bg |-> TRANSPARENT,
   saved_state |-> [x |-> 0, y |-> 0, fg |-> rgb(0), bg |-> rgb(0)],
   autoflush |-> FALSE, cursor_enabled |-> FALSE, scroll_enabled |-> FALSE,
   bold |-> FALSE, bg_bold |-> FALSE, reverse_video |-> FALSE, insert_mode |-> FALSE,
   charsets |-> <<"default", "default">>, current_charset |-> 1, saved_cursor |-> <<0, 0>>,
   current_primary |-> 0, current_bg |-> 0, top |-> 0, bottom |-> 0, onlcr |-> FALSE,
   saved_attributes |-> [bold |-> FALSE, bg_bold |-> FALSE, reverse_video |-> FALSE,
                         current_charset |-> 1, current_primary |-> 0, current_bg |-> 0]]

flanterm_fb_init(m) ==
  IF Initialises(m) THEN full_refresh(flanterm_context_reinit(Zeroed(cols(m), rows(m)))) ELSE NULL

(* History: off, a sequence has left scrolling off; refreshed, a refresh   *)
(* came while something waited; torn, the CPU was taken in the middle of a *)
(* sequence; below, a row wrapped below the margin; plain, only log lines  *)
(* were written; strays, what has set text colours that the attributes do  *)
(* not tell, now and in the saved state.                                   *)
History == [off |-> FALSE, refreshed |-> FALSE, torn |-> FALSE, plain |-> TRUE, below |-> FALSE,
            strays |-> {}, saved_strays |-> {"unsaved"}]

Init ==
  /\ mode = NULL /\ ctx = NULL
  /\ parser = Ground
  /\ input = [p \in Threads |-> <<>>] /\ busy = {} /\ turn \in Threads
  /\ halted = FALSE /\ calls = 0 /\ switches = 0 /\ history = History

----------------------------------------------------------------------------
(* Select Graphic Rendition.  Two colours have roles, fg and bg; in reverse*)
(* video the text colours hold each other's.                               *)
SetFg(t, colour) == [t EXCEPT !.text_fg = colour]
SetBg(t, colour) == [t EXCEPT !.text_bg = colour]

(* Bold and blink: a number of the palette, or the default of the colour   *)
(* that is set.  In reverse video it is the other one's default.           *)
Weight(t, role, number, bright) ==
  LET fg == (role = "fg") # t.reverse_video
      colour == IF number # NONE
                THEN IF bright THEN ansi_bright_colours(number) ELSE ansi_colours(number)
                ELSE IF fg THEN IF bright THEN default_fg_bright ELSE default_fg
                ELSE IF bright THEN default_bg_bright ELSE TRANSPARENT
  IN  IF fg THEN SetFg(t, colour) ELSE SetBg(t, colour)

(* Mutant: in reverse video the wrong one is set. *)
Mutant_Paint(t, role, number, bright) ==
  LET colour == IF bright THEN ansi_bright_colours(number) ELSE ansi_colours(number)
  IN  IF role = "fg" THEN SetFg(t, colour) ELSE SetBg(t, colour)

Paint(t, role, number, bright) ==
  LET colour == IF bright THEN ansi_bright_colours(number) ELSE ansi_colours(number)
  IN  IF (role = "fg") # t.reverse_video THEN SetFg(t, colour) ELSE SetBg(t, colour)

Reverse(t, on) ==
  IF t.reverse_video = on THEN t ELSE [swap_palette(t) EXCEPT !.reverse_video = on]

(* Mutant: the attributes are reset, the colours are not. *)
Mutant_Reset(t) ==
  [Reverse(t, FALSE) EXCEPT !.bold = FALSE, !.bg_bold = FALSE, !.current_primary = NONE, !.current_bg = NONE]

Reset(t) ==
  LET plain == Reverse(t, FALSE)
  IN  [plain EXCEPT !.bold = FALSE, !.bg_bold = FALSE, !.current_primary = NONE, !.current_bg = NONE,
                    !.text_fg = default_fg, !.text_bg = TRANSPARENT]

(* Swaps around it, so that the right one is set. *)
Default(t, role) ==
  LET swapped == IF t.reverse_video THEN swap_palette(t) ELSE t
      set == IF role = "fg" THEN SetFg(swapped, IF t.bold THEN default_fg_bright ELSE default_fg)
             ELSE SetBg(swapped, IF t.bg_bold THEN default_bg_bright ELSE TRANSPARENT)
  IN  IF t.reverse_video THEN swap_palette(set) ELSE set

SgrCode(t, v) ==
  CASE v = 0 -> Reset(t)
    [] v = 1 -> Weight([t EXCEPT !.bold = TRUE], "fg", t.current_primary, TRUE)
    [] v = 5 -> Weight([t EXCEPT !.bg_bold = TRUE], "bg", t.current_bg, TRUE)
    [] v = 22 -> Weight([t EXCEPT !.bold = FALSE], "fg", t.current_primary, FALSE)
    [] v = 25 -> Weight([t EXCEPT !.bg_bold = FALSE], "bg", t.current_bg, FALSE)
    [] v \in 30 .. 37 -> Paint([t EXCEPT !.current_primary = v - 30], "fg", v - 30, t.bold)
    [] v \in 40 .. 47 -> Paint([t EXCEPT !.current_bg = v - 40], "bg", v - 40, t.bg_bold)
    [] v \in 90 .. 97 -> Paint([t EXCEPT !.current_primary = v - 90], "fg", v - 90, TRUE)
    [] v \in 100 .. 107 -> Paint([t EXCEPT !.current_bg = v - 100], "bg", v - 100, TRUE)
    [] v = 39 -> Default([t EXCEPT !.current_primary = NONE], "fg")
    [] v = 49 -> Default([t EXCEPT !.current_bg = NONE], "bg")
    [] v = 7 -> Reverse(t, TRUE)
    [] v = 27 -> Reverse(t, FALSE)
    [] OTHER -> t

(* A cube of six levels and a ramp of greys. *)
col256(n) ==
  LET level == <<0, 95, 135, 175, 215, 255>>
      of(r, g, b) == rgb(65536 * r + 256 * g + b)
      grey == 8 + 10 * (n - 216)
  IN  IF n < 216 THEN of(level[(n \div 36) + 1], level[((n \div 6) % 6) + 1], level[(n % 6) + 1])
      ELSE of(grey, grey, grey)

(* Codes 38 and 48 take the colour from the values behind them.  They set  *)
(* a text colour whether video is reversed or not.                         *)
Extended(t, fg, values, i, n) ==
  LET Set(colour) == IF fg THEN SetFg(t, colour) ELSE SetBg(t, colour)
      col == values[i + 2]
      out == [ctx |-> t, next |-> n]
  IN  IF i + 1 >= n THEN out
      ELSE IF values[i + 1] = 2 THEN
        IF i + 4 >= n THEN out
        ELSE [ctx |-> Set(rgb(65536 * values[i + 2] + 256 * values[i + 3] + values[i + 4])), next |-> i + 5]
      ELSE IF values[i + 1] = 5 THEN
        IF i + 2 >= n THEN out
        ELSE [ctx |-> IF col < 8 THEN Set(ansi_colours(col))
                      ELSE IF col < 16 THEN Set(ansi_bright_colours(col - 8))
                      ELSE IF col < 256 THEN Set(col256(col - 16)) ELSE t,
              next |-> i + 3]
      ELSE [ctx |-> t, next |-> i + 2]

sgr(t, values, n) ==
  LET After[k \in 0 .. n] ==  \* of k turns: the context and the next value
        IF k = 0 THEN [ctx |-> IF n = 0 THEN Reset(t) ELSE t, next |-> 0]
        ELSE LET was == After[k - 1]
             IN  IF was.next >= n THEN was
                 ELSE IF values[was.next] \in {38, 48}
                 THEN Extended(was.ctx, values[was.next] = 38, values, was.next, n)
                 ELSE [ctx |-> SgrCode(was.ctx, values[was.next]), next |-> was.next + 1]
  IN  After[n].ctx

----------------------------------------------------------------------------
(* The way of a byte c through flanterm_putchar and the functions it       *)
(* calls, as guards; and the parser that each of them leaves to the next.  *)
ESC == 27
c == Head(input[turn])

Cancels == parser.discard_next \/ c \in {24, 26}
Continues == ~Cancels /\ parser.unicode_remaining # 0 /\ c \in 128 .. 191
Decoded == ~Cancels /\ ~Continues
Fresh == [parser EXCEPT !.unicode_remaining = 0, !.code_point = 0]
Leads == Decoded /\ c \in 192 .. 247
Single == Decoded /\ c \notin 192 .. 247

(* escape_offset: only whether it is 2 matters, so it stops at 3. *)
InEscape == Single /\ parser.escape
Counted == [Fresh EXCEPT !.escape_offset = IF @ < 3 THEN @ + 1 ELSE @]

(* "ESC \" ends an operating system command; after any other byte the ESC  *)
(* has begun a new sequence.                                               *)
InOsc == InEscape /\ parser.osc /\ (parser.osc_escape => c = 92)
NoOsc == [Counted EXCEPT !.osc = FALSE, !.osc_escape = FALSE]
Code == InEscape /\ ~InOsc /\ ~parser.control_sequence

InCsi == InEscape /\ ~InOsc /\ parser.control_sequence
SecondByte == NoOsc.escape_offset = 2
IsDigit == c \in 48 .. 57
IsParameter == (SecondByte /\ c = 63) \/ IsDigit \/ c = 59
Final == InCsi /\ ~(SecondByte /\ c = 91) /\ ~IsParameter

(* Any byte but a parameter ends the value that is being read and gives    *)
(* the values not given their default.                                     *)
Filled ==
  LET n == NoOsc.esc_values_i + (IF NoOsc.rrr THEN 1 ELSE 0)
      esc_default == IF c \in {74, 75, 113} THEN 0 ELSE 1
  IN  [NoOsc EXCEPT !.rrr = FALSE, !.esc_values_i = n,
                    !.esc_values = [k \in Values |-> IF k < n THEN NoOsc.esc_values[k] ELSE esc_default]]
Value(k) == Filled.esc_values[k]

(* After a sequence the values are those of Ground: the next one sets them *)
(* before it reads them.  dec_private is not among them.                   *)
Ended == [Ground EXCEPT !.dec_private = parser.dec_private]

Plain == Single /\ ~parser.escape /\ parser.g_select = 0

(* The final bytes of the commands. *)
Commands ==
  {65, 66, 67, 68, 69, 70, 71, 72, 74, 75, 76, 77, 80, 88, 93, 96, 97, 99, 100, 101,
   102, 104, 108, 109, 110, 113, 114, 115, 117, 64}
Runs(codes) == Final /\ ~parser.dec_private /\ ~parser.csi_unhandled /\ c \in codes
Skips == Final /\ ~parser.dec_private /\ (parser.csi_unhandled \/ c \notin Commands)

(* What a byte adds to the history.  A weight in reverse video, and a      *)
(* colour of the extended palettes, are not told by the attributes; a last *)
(* code 0 puts all right.                                                  *)
Strays ==
  LET n == Filled.esc_values_i
      Before(k) == IF k = 0 THEN ctx ELSE sgr(ctx, Filled.esc_values, k)
      extended == \E k \in 0 .. n - 1 : Value(k) \in {38, 48}
      weighted == \E k \in 0 .. n - 1 : Value(k) \in {1, 5, 22, 25} /\ Before(k).reverse_video
  IN  IF Runs({109}) /\ ~extended /\ (n = 0 \/ Value(n - 1) = 0) THEN {}
      ELSE IF Runs({109})
      THEN history.strays \cup (IF extended THEN {"extended"} ELSE {}) \cup (IF weighted THEN {"weight"} ELSE {})
      ELSE IF Code /\ c = 99 THEN history.strays \cup {"reinit"}
      ELSE IF Code /\ c = 56 THEN history.saved_strays ELSE history.strays

TakeByte ==
  /\ input[turn] # <<>> /\ input' = [input EXCEPT ![turn] = Tail(@)]
  /\ UNCHANGED <<mode, busy, turn, halted, calls, switches>>
Leave(t, p) ==
  /\ ctx' = t /\ parser' = p
  /\ history' = [history EXCEPT !.off = @ \/ Skips, !.strays = Strays,
                                !.below = @ \/ (ctx.bottom < ctx.rows /\ t.cursor_y >= ctx.rows),
                                !.saved_strays = IF Code /\ c = 55 THEN history.strays ELSE @]

----------------------------------------------------------------------------
(* Bytes that cancel, code points, operating system commands.              *)
Cancel == TakeByte /\ Cancels /\ Leave(ctx, Ended)

Lead ==
  /\ TakeByte /\ Leads
  /\ LET n == IF c < 224 THEN 1 ELSE IF c < 240 THEN 2 ELSE 3
     IN  Leave(ctx, [Fresh EXCEPT !.unicode_remaining = n,
                                  !.code_point = (c % (2 ^ (6 - n))) * (64 ^ n)])

(* The width of a character without a glyph is taken by a block and spaces. *)
Glyph(t, code_point) ==
  LET cc == unicode_to_cp437(code_point)
  IN  IF cc # -1 THEN raw_putchar(t, cc)
      ELSE Turns(t, mk_wcwidth(code_point), LAMBDA u, k : raw_putchar(u, IF k = 1 THEN 254 ELSE Blank))

Continuation ==
  /\ TakeByte /\ Continues
  /\ LET n == parser.unicode_remaining - 1
         code_point == parser.code_point + (c % 64) * (64 ^ n)
     IN  IF n # 0 THEN Leave(ctx, [parser EXCEPT !.unicode_remaining = n, !.code_point = code_point])
         ELSE Leave(Glyph(ctx, code_point), [parser EXCEPT !.unicode_remaining = 0, !.code_point = 0])

OscByte ==
  /\ TakeByte /\ InOsc
  /\ IF parser.osc_escape \/ c = 7 THEN Leave(ctx, Ended)
     ELSE Leave(ctx, [Counted EXCEPT !.osc_escape = c = ESC])

----------------------------------------------------------------------------
(* Sequences of two bytes. *)
BeginOsc == TakeByte /\ Code /\ c = 93 /\ Leave(ctx, [NoOsc EXCEPT !.osc = TRUE])
BeginCsi ==
  /\ TakeByte /\ Code /\ c = 91
  /\ Leave(ctx, [NoOsc EXCEPT !.control_sequence = TRUE, !.esc_values_i = 0, !.rrr = FALSE,
                              !.csi_unhandled = FALSE, !.esc_values = [k \in Values |-> 0]])

SaveState ==
  LET saved == [bold |-> ctx.bold, bg_bold |-> ctx.bg_bold, reverse_video |-> ctx.reverse_video,
                current_charset |-> ctx.current_charset, current_primary |-> ctx.current_primary,
                current_bg |-> ctx.current_bg]
  IN  TakeByte /\ Code /\ c = 55 /\ Leave([save_state(ctx) EXCEPT !.saved_attributes = saved], Ended)

RestoreState ==
  LET saved == ctx.saved_attributes
  IN  /\ TakeByte /\ Code /\ c = 56
      /\ Leave([restore_state(ctx) EXCEPT
                  !.bold = saved.bold, !.bg_bold = saved.bg_bold, !.reverse_video = saved.reverse_video,
                  !.current_charset = saved.current_charset, !.current_primary = saved.current_primary,
                  !.current_bg = saved.current_bg], Ended)

(* The text colours stay what they were. *)
Reinit == TakeByte /\ Code /\ c = 99 /\ Leave(clear(flanterm_context_reinit(ctx), TRUE), Ground)

(* Mutant: scrolls a row too early. *)
Mutant_Index(t, x) ==
  IF Y(t) >= t.bottom - 2 THEN set_cursor_pos(scroll(t), x, Y(t)) ELSE set_cursor_pos(t, x, Y(t) + 1)
Index(t, x) ==
  IF Y(t) = t.bottom - 1 THEN set_cursor_pos(scroll(t), x, Y(t)) ELSE set_cursor_pos(t, x, Y(t) + 1)
ReverseIndex(t) ==
  IF Y(t) = t.top THEN set_cursor_pos(revscroll(t), 0, Y(t)) ELSE set_cursor_pos(t, 0, Y(t) - 1)

Down == TakeByte /\ Code /\ c \in {68, 69} /\ Leave(Index(ctx, IF c = 69 THEN 0 ELSE X(ctx)), Ended)
Up == TakeByte /\ Code /\ c = 77 /\ Leave(ReverseIndex(ctx), Ended)
SelectSet == TakeByte /\ Code /\ c \in {40, 41} /\ Leave(ctx, [Ended EXCEPT !.g_select = c - 39])
OtherCode ==
  TakeByte /\ Code /\ c \notin {93, 91, 55, 56, 99, 68, 69, 77, 40, 41} /\ Leave(ctx, Ended)

----------------------------------------------------------------------------
(* The parameters of a control sequence. *)
BadCsi == TakeByte /\ InCsi /\ SecondByte /\ c = 91 /\ Leave(ctx, [Ended EXCEPT !.discard_next = TRUE])

Parameter ==
  LET i == NoOsc.esc_values_i
      full == i = FLANTERM_MAX_ESC_VALUES
  IN  /\ TakeByte /\ InCsi /\ IsParameter
      /\ Leave(ctx,
           IF SecondByte /\ c = 63 THEN [NoOsc EXCEPT !.dec_private = TRUE]
           ELSE IF IsDigit
           THEN IF full THEN NoOsc ELSE [NoOsc EXCEPT !.rrr = TRUE, !.esc_values[i] = 10 * @ + (c - 48)]
           ELSE IF NoOsc.rrr THEN [NoOsc EXCEPT !.rrr = FALSE, !.esc_values_i = i + 1]
           ELSE IF full THEN NoOsc ELSE [NoOsc EXCEPT !.esc_values[i] = 0, !.esc_values_i = i + 1])

(* Only number 25, the cursor, changes anything. *)
DecPrivate ==
  /\ TakeByte /\ Final /\ parser.dec_private
  /\ Leave(IF Filled.esc_values_i > 0 /\ c \in {104, 108} /\ Value(0) = 25
           THEN [ctx EXCEPT !.cursor_enabled = c = 104] ELSE ctx, Ground)

(* The commands run with scrolling switched off.  A byte that ends none is *)
(* unhandled: the next of 0x40 to 0x7e ends the sequence, and scrolling    *)
(* stays off.  So it does after an ESC.                                    *)
Still == [ctx EXCEPT !.scroll_enabled = FALSE]
Mutant_Finish(codes, t) == TakeByte /\ Runs(codes) /\ Leave(t, Ended)
Finish(codes, t) ==
  TakeByte /\ Runs(codes) /\ Leave([t EXCEPT !.scroll_enabled = ctx.scroll_enabled], Ended)

Skip ==
  /\ TakeByte /\ Skips
  /\ Leave(Still, IF ~parser.csi_unhandled THEN [Filled EXCEPT !.csi_unhandled = c # ESC]
                  ELSE IF c \in 64 .. 126 THEN Ended ELSE Filled)

----------------------------------------------------------------------------
(* Moving the cursor.  A move that meets a margin stays inside of it.      *)
Meets(t, low, high) == \E margin \in {t.top, t.bottom} : margin \in low .. high

CursorUp ==
  LET y == Y(ctx)
      dest == IF Value(0) > y THEN 0 ELSE y - Value(0)
      inside == IF Meets(ctx, dest, y) /\ dest < ctx.top THEN ctx.top ELSE dest
  IN  Finish({65, 70}, set_cursor_pos(Still, IF c = 70 THEN 0 ELSE X(ctx), inside))

CursorDown ==
  LET y == Y(ctx)
      dest == IF y + Value(0) > ctx.rows - 1 THEN ctx.rows - 1 ELSE y + Value(0)
      inside == IF Meets(ctx, y, dest) /\ dest >= ctx.bottom THEN ctx.bottom - 1 ELSE dest
  IN  Finish({66, 69, 101}, set_cursor_pos(Still, IF c = 69 THEN 0 ELSE X(ctx), inside))

CursorRight == Finish({67, 97}, set_cursor_pos(Still, X(ctx) + Value(0), Y(ctx)))
CursorLeft == Finish({68}, set_cursor_pos(Still, X(ctx) - Value(0), Y(ctx)))

(* The row or column 0 is the last: 0 - 1 is a large number. *)
Ordinal(v, n) == IF v = 0 \/ v > n THEN n - 1 ELSE v - 1
CursorRow == Finish({100}, set_cursor_pos(Still, X(ctx), Ordinal(Value(0), ctx.rows)))
CursorColumn == Finish({71, 96}, set_cursor_pos(Still, Ordinal(Value(0), ctx.cols), Y(ctx)))
CursorTo == Finish({72, 102}, set_cursor_pos(Still, Value(1) - 1, Value(0) - 1))

SaveCursor == Finish({115}, [Still EXCEPT !.saved_cursor = <<X(ctx), Y(ctx)>>])
RestoreCursor == Finish({117}, set_cursor_pos(Still, ctx.saved_cursor[1], ctx.saved_cursor[2]))

(* Margins that hold fewer than two rows are not taken. *)
Margins ==
  LET At(k) == IF Value(k) = 0 THEN 1 ELSE Value(k)
      top == IF Filled.esc_values_i > 0 THEN At(0) - 1 ELSE 0
      bottom == IF Filled.esc_values_i > 1 THEN At(1) ELSE ctx.rows
      bad == top >= ctx.rows \/ bottom > ctx.rows \/ top >= bottom - 1
  IN  Finish({114}, set_cursor_pos([Still EXCEPT !.top = IF bad THEN 0 ELSE top,
                                                 !.bottom = IF bad THEN ctx.rows ELSE bottom], 0, 0))

----------------------------------------------------------------------------
(* Moving and erasing text. *)
Least(m, n) == IF m < n THEN m ELSE n
Scrolled(t, n) == Turns(t, Least(n, t.rows), LAMBDA u, k : scroll(u))
Revscrolled(t, n) == Turns(t, Least(n, t.rows), LAMBDA u, k : revscroll(u))
Spaces(t, n) == Turns(t, n, LAMBDA u, k : raw_putchar(u, Blank))
Back(t) == set_cursor_pos(t, X(ctx), Y(ctx))

(* The whole region moves up, wherever in it the cursor is. *)
DeleteLines == Finish({77}, Scrolled(Still, Value(0)))

(* Mutant: the margin stays where the cursor was. *)
Mutant_InsertLines == Finish({76}, Revscrolled([Still EXCEPT !.top = Y(ctx)], Value(0)))
InsertLines ==
  Finish({76}, [Revscrolled([Still EXCEPT !.top = Y(ctx)], Value(0)) EXCEPT !.top = ctx.top])

(* Blanks are written from the cursor to the last cell, or from the first  *)
(* to the cursor.  With scrolling off they stop at the bottom margin.      *)
EraseDisplay ==
  LET x == X(ctx)
      y == Y(ctx)
      rest == (ctx.rows - (y + 1)) * ctx.cols + ctx.cols - x
  IN  Finish({74},
        CASE Value(0) = 0 -> Back(Spaces(Still, rest))
          [] Value(0) = 1 -> Back(Spaces(set_cursor_pos(Still, 0, 0), y * ctx.cols + x + 1))
          [] Value(0) \in {2, 3} -> clear(Still, FALSE)
          [] OTHER -> Still)

(* Part 1 ends before the cursor, and leaves the cursor where it ended. *)
EraseLine ==
  LET x == X(ctx)
      start == set_cursor_pos(Still, 0, Y(ctx))
  IN  Finish({75},
        CASE Value(0) = 0 -> Back(Spaces(Still, ctx.cols - x))
          [] Value(0) = 1 -> Spaces(start, x)
          [] Value(0) = 2 -> Back(Spaces(start, ctx.cols))
          [] OTHER -> Still)

(* From the last column back to the cursor; each cell left is blanked. *)
InsertBlanks ==
  LET y == Y(ctx)
      Shift(t, k) ==
        LET i == t.cols - k
        IN  raw_putchar(set_cursor_pos(move_character(t, i + Value(0), y, i, y), i, y), Blank)
  IN  Finish({64}, Back(Turns(Still, ctx.cols - X(ctx), Shift)))

(* The blanks start at column cols - n, also where that is left of the     *)
(* cursor.                                                                 *)
DeleteCharacters ==
  LET x == X(ctx)
      y == Y(ctx)
      n == Value(0)
      Shift(t, k) == move_character(t, x + k - 1, y, x + k - 1 + n, y)
      shifted == Turns(Still, ctx.cols - (x + n), Shift)
  IN  Finish({80}, Back(Spaces(set_cursor_pos(shifted, ctx.cols - n, y), Least(n, ctx.cols))))

EraseCharacters == Finish({88}, Back(Spaces(Still, Least(Value(0), ctx.cols))))

Rendition == Finish({109}, sgr(Still, Filled.esc_values, Filled.esc_values_i))
InsertMode ==
  Finish({104, 108}, IF Filled.esc_values_i > 0 /\ Value(0) = 4 THEN [Still EXCEPT !.insert_mode = c = 104]
                     ELSE Still)
(* Reports to a callback. *)
Report == Finish({93, 99, 110, 113}, Still)

----------------------------------------------------------------------------
(* Bytes outside of sequences. *)
Charset ==
  /\ TakeByte /\ Single /\ ~parser.escape /\ parser.g_select # 0
  /\ Leave([ctx EXCEPT !.charsets[parser.g_select] =
              IF c = 66 THEN "default" ELSE IF c = 48 THEN "dec_special" ELSE @],
           [Fresh EXCEPT !.g_select = 0])

Ignored == TakeByte /\ Plain /\ c \in {0, 127, 7} /\ Leave(ctx, Fresh)
Escape == TakeByte /\ Plain /\ c = ESC /\ Leave(ctx, [Fresh EXCEPT !.escape_offset = 0, !.escape = TRUE])

(* Compares the number of the tab stop with the number of columns. *)
Tab ==
  LET stop == (X(ctx) \div tab_size) + 1
  IN  TakeByte /\ Plain /\ c = 9
      /\ Leave(set_cursor_pos(ctx, IF stop >= ctx.cols THEN ctx.cols - 1 ELSE stop * tab_size, Y(ctx)), Fresh)

LineFeed ==
  TakeByte /\ Plain /\ c \in 10 .. 12 /\ Leave(Index(ctx, IF ctx.onlcr THEN 0 ELSE X(ctx)), Fresh)
Backspace == TakeByte /\ Plain /\ c = 8 /\ Leave(set_cursor_pos(ctx, X(ctx) - 1, Y(ctx)), Fresh)
CarriageReturn == TakeByte /\ Plain /\ c = 13 /\ Leave(set_cursor_pos(ctx, 0, Y(ctx)), Fresh)
Shift == TakeByte /\ Plain /\ c \in {14, 15} /\ Leave([ctx EXCEPT !.current_charset = 16 - c], Fresh)

(* Line drawing: pairs of a byte and its glyph.  A set is numbered from 0, *)
(* its place in charsets from 1.                                           *)
DecSpecial ==
  {<<96, 4>>, <<48, 219>>, <<45, 24>>, <<44, 27>>, <<46, 25>>, <<97, 177>>, <<102, 248>>,
   <<103, 241>>, <<104, 176>>, <<106, 217>>, <<107, 191>>, <<108, 218>>, <<109, 192>>, <<110, 197>>,
   <<113, 196>>, <<115, 95>>, <<116, 195>>, <<117, 180>>, <<118, 193>>, <<119, 194>>, <<120, 179>>,
   <<121, 243>>, <<122, 242>>, <<126, 250>>, <<95, 255>>, <<43, 26>>, <<123, 227>>, <<125, 156>>}

GlyphOf(t, byte) ==
  IF t.charsets[t.current_charset] = "dec_special" /\ \E p \in DecSpecial : p[1] = byte
  THEN (CHOOSE p \in DecSpecial : p[1] = byte)[2]
  ELSE IF byte \in 32 .. 126 THEN byte ELSE 254

(* In insert mode the rest of the row moves right first. *)
Inserted(t) ==
  LET Move(u, k) == move_character(u, u.cols - k + 1, Y(t), u.cols - k, Y(t))
  IN  IF t.insert_mode THEN Turns(t, t.cols - X(t), Move) ELSE t

Printed ==
  /\ TakeByte /\ Plain /\ c \notin (7 .. 15) \cup {0, ESC, 127}
  /\ Leave(raw_putchar(Inserted(ctx), GlyphOf(ctx, c)), Fresh)

----------------------------------------------------------------------------
(* What threads call, with the CPU. *)
framebuffer_early_init(m) ==
  /\ mode = NULL /\ mode' = m
  /\ ctx' = flanterm_fb_init(m)
  /\ UNCHANGED <<parser, input, busy, turn, halted, calls, switches, history>>

Call ==
  /\ mode # NULL /\ ~halted /\ turn \notin busy
  /\ ctx # NULL => ctx.rows * ctx.cols <= MaxCells
  /\ calls < MaxCalls /\ calls' = calls + 1
  /\ UNCHANGED <<mode, turn, switches>>

kprintf(text) ==
  /\ Call
  /\ IF ctx = NULL THEN halted' = TRUE /\ UNCHANGED <<input, busy>>
     ELSE /\ input' = [input EXCEPT ![turn] = text] /\ busy' = busy \cup {turn}
          /\ UNCHANGED halted
  /\ history' = [history EXCEPT !.plain = @ /\ text \in LogLines]
  /\ UNCHANGED <<ctx, parser>>

Flushed(t) == IF t.autoflush THEN double_buffer_flush(t) ELSE t
EndWrite ==
  /\ turn \in busy /\ input[turn] = <<>> /\ busy' = busy \ {turn}
  /\ ctx' = Flushed(ctx)
  /\ UNCHANGED <<mode, parser, input, turn, halted, calls, switches, history>>

Change(t) == Call /\ ctx # NULL /\ ctx' = t /\ UNCHANGED <<parser, input, busy, halted>>
flanterm_flush == Change(double_buffer_flush(ctx)) /\ UNCHANGED history
flanterm_full_refresh ==
  /\ Change(full_refresh(ctx))
  /\ history' = [history EXCEPT !.refreshed =
                   @ \/ ctx.queue # <<>> \/ ctx.cursor_x # ctx.old_cursor_x \/ ctx.cursor_y # ctx.old_cursor_y]
flanterm_set_autoflush(state) == Change([ctx EXCEPT !.autoflush = state]) /\ UNCHANGED history
flanterm_set_oob_output(onlcr) == Change([ctx EXCEPT !.onlcr = onlcr]) /\ UNCHANGED history

(* The timer; a thread that may call nothing more is not waited for. *)
Preempt ==
  /\ mode # NULL /\ ~halted /\ switches < MaxSwitches /\ switches' = switches + 1
  /\ turn' \in Threads \ {turn} /\ (turn' \in busy \/ calls < MaxCalls)
  /\ history' = [history EXCEPT !.torn = @ \/ parser # [Ground EXCEPT !.dec_private = parser.dec_private]]
  /\ UNCHANGED <<mode, ctx, parser, input, busy, halted, calls>>

PutChar ==
  \/ Cancel \/ Lead \/ Continuation \/ OscByte
  \/ BeginOsc \/ BeginCsi \/ SaveState \/ RestoreState \/ Reinit \/ Down \/ Up \/ SelectSet \/ OtherCode
  \/ BadCsi \/ Parameter \/ DecPrivate \/ Skip
  \/ CursorUp \/ CursorDown \/ CursorRight \/ CursorLeft \/ CursorRow \/ CursorColumn \/ CursorTo
  \/ SaveCursor \/ RestoreCursor \/ Margins
  \/ DeleteLines \/ InsertLines \/ EraseDisplay \/ EraseLine \/ InsertBlanks \/ DeleteCharacters
  \/ EraseCharacters \/ Rendition \/ InsertMode \/ Report
  \/ Charset \/ Ignored \/ Escape \/ Tab \/ LineFeed \/ Backspace \/ CarriageReturn \/ Shift \/ Printed

Next ==
  \/ \E m \in Modes : framebuffer_early_init(m)
  \/ \E text \in Texts[turn] : kprintf(text)
  \/ PutChar \/ EndWrite \/ Preempt
  \/ flanterm_flush \/ flanterm_full_refresh
  \/ \E on \in BOOLEAN : flanterm_set_autoflush(on) \/ flanterm_set_oob_output(on)
Spec == Init /\ [][Next]_vars

----------------------------------------------------------------------------
(* Properties. *)

(* The context is sound between any two bytes.  An entry of map names the  *)
(* one item of the queue for its cell, so the queue never outgrows the     *)
(* memory of one item per cell; text and margins keep to the screen.  The  *)
(* cursor leaves it only where scrolling was left off, or a row wraps      *)
(* below the margin, where raw_putchar compares the row with the number of *)
(* columns.  There is no terminal only if the pool is too small for it.    *)
OnePerCell(t) ==
  /\ \A i \in Cells(t) : t.map[i] # 0 => t.map[i] \in DOMAIN t.queue /\ t.queue[t.map[i]].i = i
  /\ \A k \in DOMAIN t.queue : t.map[t.queue[k].i] = k \/ history.refreshed
TerminalSound ==
  /\ halted => mode # NULL /\ ~Initialises(mode)
  /\ ctx # NULL =>
       /\ OnePerCell(ctx)
       /\ ctx.top < ctx.bottom - 1 /\ ctx.bottom <= ctx.rows
       /\ ctx.cursor_x \in 0 .. ctx.cols \/ history.off
       /\ ctx.cursor_y \in 0 .. ctx.rows - 1 \/ (ctx.cursor_y < ctx.cols /\ history.below)
       /\ ctx.scroll_enabled \/ history.off

(* The blocks of the terminal lie in the pool, apart and aligned, and its  *)
(* cells on the frame buffer, whatever the mode.  No call changes either.  *)
MemorySound ==
  mode # NULL /\ calls = 0 /\ Initialises(mode) =>
    LET blocks == Taken(mode).blocks
        End(b) == b.at + b.size
        n == cols(mode) - 1
        m == rows(mode) - 1
    IN  /\ \A j, k \in DOMAIN blocks : j < k => End(blocks[j]) <= blocks[k].at
        /\ \A k \in DOMAIN blocks : End(blocks[k]) <= FLANTERM_FB_BUMP_ALLOC_POOL_SIZE
                                    /\ (PoolAddress + blocks[k].at) % 16 = 0
        /\ plot_x(mode, 0) >= 0 /\ plot_x(mode, n) + glyph_width(mode) <= mode.width
        /\ plot_y(mode, 0) >= 0 /\ plot_y(mode, m) + glyph_height(mode) <= mode.height

(* After a flush the screen shows the text, with the cell of the cursor    *)
(* reversed: no cell was forgotten, drawn too early or drawn over, and no  *)
(* old cursor is left.                                                     *)
Flushes == (turn \in busy /\ busy' # busy /\ ctx.autoflush) \/ flanterm_flush
ShowsText(t) ==
  LET cursor == IF t.cursor_enabled /\ OnScreen(t, t.cursor_x, t.cursor_y)
                THEN {t.cursor_x + t.cursor_y * t.cols} ELSE {}
  IN  \A i \in Cells(t) :
        /\ t.map[i] = 0
        /\ t.screen[i] = Shown(IF i \in cursor THEN Reversed(t.grid[i]) ELSE t.grid[i])
ScreenShowsText == [][Flushes /\ ~history.refreshed => ShowsText(ctx')]_vars

(* The colours of the text are those that the attributes tell, with the    *)
(* two swapped in reverse video, through any sequence of codes, saves and  *)
(* restores, but for the strays that History names.                        *)
RolesKept ==
  ctx # NULL /\ history.strays = {} =>
    LET fg == IF ctx.reverse_video THEN ctx.text_bg ELSE ctx.text_fg
        bg == IF ctx.reverse_video THEN ctx.text_fg ELSE ctx.text_bg
        Palette(n, bold) == {ansi_bright_colours(n)} \cup (IF bold THEN {} ELSE {ansi_colours(n)})
    IN  /\ fg \in IF ctx.current_primary = NONE THEN {IF ctx.bold THEN default_fg_bright ELSE default_fg}
                  ELSE Palette(ctx.current_primary, ctx.bold)
        /\ bg \in IF ctx.current_bg = NONE THEN {IF ctx.bg_bold THEN default_bg_bright ELSE TRANSPARENT}
                  ELSE Palette(ctx.current_bg, ctx.bg_bold)

(* Log lines leave the terminal as the next one needs it: out of any       *)
(* sequence, in the default colours, however the threads that write them   *)
(* take turns, unless the CPU is taken in the middle of a sequence.        *)
LogLeavesDefaults ==
  ctx # NULL /\ history.plain /\ ~history.torn /\ busy = {} =>
    parser = Ground /\ ctx.text_fg = default_fg /\ ctx.text_bg = TRANSPARENT

(* What one byte may do to the text: reference definitions over the whole  *)
(* text at once.  Moved(n) has the region n rows up, or -n rows down.      *)
Moved(t, top, n) ==
  [i \in Cells(t) |->
     LET from == (i \div t.cols) + n
     IN  IF (i \div t.cols) \notin top .. t.bottom - 1 THEN Content(t, i)
         ELSE IF from \in top .. t.bottom - 1 THEN Content(t, i + n * t.cols) ELSE Char(t, Blank)]
Row(t, y) == {i \in Cells(t) : i \div t.cols = y}

Feeds == (Plain /\ c \in 10 .. 12) \/ (Code /\ c \in {68, 69})
Puts == (Continues /\ parser.unicode_remaining = 1) \/ (Plain /\ c \notin (7 .. 15) \cup {0, ESC, 127})

(* By how many rows the byte may move which region. *)
Shifts ==
  LET y == Y(ctx)
  IN  IF Feeds THEN {IF y = ctx.bottom - 1 THEN 1 ELSE 0}
      ELSE IF Code /\ c = 77 THEN {IF y = ctx.top THEN -1 ELSE 0}
      ELSE IF Puts /\ ctx.cursor_x >= ctx.cols - 1 /\ y = ctx.bottom - 1 THEN {0, 1}
      ELSE IF Runs({77}) THEN {Least(Value(0), ctx.rows)}
      ELSE IF Runs({76}) THEN {-Least(Value(0), ctx.rows)} ELSE {0}
Top == IF Runs({76}) THEN Y(ctx) ELSE ctx.top

(* The cells the byte may change besides.  Erasures that start behind the  *)
(* last column start in the next row, and lines inserted below the region  *)
(* blank the row of the cursor.                                            *)
Touched ==
  LET here == X(ctx) + Y(ctx) * ctx.cols
      row == Row(ctx, Y(ctx))
  IN  IF Puts
      THEN Row(ctx', ctx'.cursor_y) \cup (IF ctx.insert_mode THEN row ELSE {})
           \cup (IF Continues THEN Row(ctx', ctx'.cursor_y - 1) ELSE {})
      ELSE IF Runs({74})
      THEN CASE Value(0) = 0 -> here .. ctx.rows * ctx.cols - 1
             [] Value(0) = 1 -> 0 .. here
             [] OTHER -> Cells(ctx)
      ELSE IF Runs({75})
      THEN CASE Value(0) = 0 -> IF ctx.cursor_x >= ctx.cols THEN Row(ctx, Y(ctx) + 1) ELSE row \ 0 .. here - 1
             [] Value(0) = 1 -> row \ here .. ctx.rows * ctx.cols
             [] OTHER -> row
      ELSE IF Runs({64, 80}) THEN row
      ELSE IF Runs({88}) THEN here .. here + Value(0)
      ELSE IF Runs({76}) /\ Y(ctx) >= ctx.bottom THEN row
      ELSE IF Code /\ c = 99 THEN Cells(ctx) ELSE {}

(* Of the cells a printed byte may change, it changes one; a character of  *)
(* two columns changes two.                                                *)
TextMoves ==
  [][input' # input /\ turn \in busy =>
       \E n \in Shifts :
         LET changed == {i \in Cells(ctx) : Content(ctx', i) # Moved(ctx, Top, n)[i]}
         IN  /\ changed \subseteq Touched
             /\ Puts /\ ~ctx.insert_mode => Cardinality(changed) <= IF Continues THEN 2 ELSE 1]_vars
=============================================================================
