----------------------------- MODULE MCFlanterm -----------------------------
(* A screen of four columns and three rows, a mode the pool is too small   *)
(* for, and one without 8 bits for a colour.  The texts are one for each   *)
(* command, and the log lines of the kernel cut to what they colour.       *)
EXTENDS Flanterm

ASSUME TableAssumption == \A ucs \in Ends : SearchFinds(ucs)

Mode(w, h) == [width |-> w, height |-> h, red |-> 8, green |-> 8, blue |-> 8]
MCModes == {Mode(38, 43), Mode(640, 480), Mode(1920, 1080), Mode(2560, 1440), Mode(5120, 2881),
            [Mode(38, 43) EXCEPT !.green = 6]}

Csi(params, final) == <<27, 91>> \o params \o <<final>>
Info == Csi(<<51, 50>>, 109) \o <<79, 75>> \o Csi(<<48>>, 109)   \* ESC[32mOKESC[0m
MCLogLines == {Info, <<65, 10>>, <<65, 66>>}

(* Twelve letters fill the screen. *)
Fill == [k \in 1 .. 12 |-> 64 + k]
Situations == {
  Fill,                                                                        \* behind the last column
  Fill \o Csi(<<50, 59, 50>>, 72),                                             \* in the middle
  Fill \o Csi(<<50, 59, 51>>, 114) \o Csi(<<51, 59, 52>>, 72),                 \* at the bottom of a region
  Fill \o Csi(<<49, 59, 50>>, 114) \o Csi(<<51, 59, 52>>, 72),                 \* below one
  Fill \o Csi(<<49, 59, 50>>, 114) \o Csi(<<51, 59, 52>>, 72) \o <<88, 89>>,   \* and wrapped
  Fill \o Csi(<<50>>, 72) \o <<88, 89, 90, 88>>,                               \* behind a column
  Fill \o Csi(<<50, 59, 50>>, 72) \o Csi(<<52>>, 104),                         \* in insert mode
  Fill \o <<27, 91, 105, 65>>,                                                 \* scrolling left off
  Csi(<<51, 49, 59, 55>>, 109) \o <<27, 55>>,                                  \* red, reversed, saved
  Csi(<<49, 59, 57, 49, 59, 53, 59, 52, 49>>, 109),                            \* bright
  Csi(<<55>>, 109) \o Csi(<<49>>, 109),                                        \* weight in reverse
  <<27, 91, 63, 24>>}                                                          \* cancelled

Each == {
  <<65, 66, 67, 68>>, <<10, 10>>, <<13, 8, 9>>, <<9, 9>>, <<27, 77>>, <<27, 69, 27, 68>>,
  <<27, 55, 27, 56>>, <<27, 56>>, <<27, 99>>, <<27, 41, 48>>, <<27, 40, 66, 113>>, <<14, 113, 15>>,
  <<27, 93, 65, 27, 92>>, <<27, 93, 7>>, <<27, 93, 27, 91, 65>>, <<27, 91, 91, 65>>, <<27, 65>>, <<24>>, <<127, 7>>,
  <<195, 132>>, <<228, 184, 173>>, <<195, 65>>, <<240, 144, 128, 128>>,
  Csi(<<>>, 65), Csi(<<>>, 66), Csi(<<50>>, 67), Csi(<<>>, 68), Csi(<<>>, 69), Csi(<<50>>, 70),
  Csi(<<51>>, 71), Csi(<<51, 59, 52>>, 72), Csi(<<51>>, 100), Csi(<<50, 59, 51>>, 114), Csi(<<49, 59, 50>>, 114),
  Csi(<<>>, 74), Csi(<<49>>, 74), Csi(<<50>>, 74), Csi(<<>>, 75), Csi(<<49>>, 75), Csi(<<50>>, 75),
  Csi(<<>>, 64), Csi(<<50>>, 80), Csi(<<50>>, 88), Csi(<<>>, 76), Csi(<<>>, 77), Csi(<<>>, 115), Csi(<<>>, 117),
  Csi(<<52>>, 104), Csi(<<53>>, 110), Csi(<<63, 50, 53>>, 108), <<27, 91, 105, 65>>, <<27, 91, 27, 109>>,
  Csi(<<49>>, 109), Csi(<<55>>, 109), Csi(<<57, 49, 59, 52, 49>>, 109), Csi(<<59, 59, 59>>, 109),
  Csi(<<51, 57, 59, 52, 57, 59, 50, 50>>, 109), Csi(<<51, 56, 59, 53, 59, 57>>, 109),
  Csi(<<52, 56, 59, 50, 59, 49, 59, 50, 59, 51>>, 109)}
MCTexts == <<MCLogLines \cup Situations \cup Each, MCLogLines>>
=============================================================================
