--------------------------- MODULE FlantermProofs ---------------------------
(***************************************************************************)
(* Proofs about the terminal, for every frame buffer that has room for a   *)
(* column and two rows, every text and any number of threads.              *)
(***************************************************************************)
EXTENDS Flanterm, TLAPS, NaturalsInduction, WellFoundedInduction

----------------------------------------------------------------------------
(* What the memory of the terminal is. *)

(* Every byte is taken from the thread that has the CPU. *)
LEMMA PutCharTakes == PutChar => TakeByte
BY DEF PutChar, Cancel, Lead, Continuation, OscByte, BeginOsc, BeginCsi, SaveState, RestoreState, Reinit,
       Down, Up, SelectSet, OtherCode, BadCsi, Parameter, DecPrivate, Skip, Finish,
       CursorUp, CursorDown, CursorRight, CursorLeft, CursorRow, CursorColumn, CursorTo,
       SaveCursor, RestoreCursor, Margins, DeleteLines, InsertLines, EraseDisplay, EraseLine,
       InsertBlanks, DeleteCharacters, EraseCharacters, Rendition, InsertMode, Report,
       Charset, Ignored, Escape, Tab, LineFeed, Backspace, CarriageReturn, Shift, Printed

(* The mode is one of those that the boot loader may tell, once. *)
ModeIs == mode \in Modes \cup {NULL}
LEMMA ModeHolds == Spec => []ModeIs
<1>1. Init => ModeIs
  BY DEF Init, ModeIs
<1>2. ModeIs /\ [Next]_vars => ModeIs'
  <2> SUFFICES ASSUME ModeIs, [Next]_vars PROVE ModeIs'
    OBVIOUS
  <2>1. CASE UNCHANGED vars
    BY <2>1 DEF ModeIs, vars
  <2>2. CASE PutChar
    BY <2>2, PutCharTakes DEF ModeIs, TakeByte
  <2>3. ASSUME NEW m \in Modes, framebuffer_early_init(m) PROVE ModeIs'
    BY <2>3 DEF ModeIs, framebuffer_early_init
  <2>4. CASE \E text \in Texts[turn] : kprintf(text)
    BY <2>4 DEF ModeIs, kprintf, Call
  <2>5. CASE EndWrite \/ Preempt
    BY <2>5 DEF ModeIs, EndWrite, Preempt
  <2>6. CASE flanterm_flush \/ flanterm_full_refresh
    BY <2>6 DEF ModeIs, flanterm_flush, flanterm_full_refresh, Change, Call
  <2>7. ASSUME NEW on \in BOOLEAN, flanterm_set_autoflush(on) \/ flanterm_set_oob_output(on) PROVE ModeIs'
    BY <2>7 DEF ModeIs, flanterm_set_autoflush, flanterm_set_oob_output, Change, Call
  <2> QED
    BY <2>1, <2>2, <2>3, <2>4, <2>5, <2>6, <2>7 DEF Next
<1> QED
  BY <1>1, <1>2, PTL DEF Spec

(* A pool whose blocks are apart, aligned and in front of the next one. *)
GoodPool(pool) ==
  /\ Aligned(pool) \in Nat /\ (PoolAddress + Aligned(pool)) % 16 = 0
  /\ pool.blocks \in Seq([at : Nat, size : Nat])
  /\ \A k \in 1 .. Len(pool.blocks) :
       /\ pool.blocks[k].at + pool.blocks[k].size <= Aligned(pool)
       /\ pool.blocks[k].at + pool.blocks[k].size <= FLANTERM_FB_BUMP_ALLOC_POOL_SIZE
       /\ (PoolAddress + pool.blocks[k].at) % 16 = 0
       /\ \A j \in 1 .. k - 1 : pool.blocks[j].at + pool.blocks[j].size <= pool.blocks[k].at

LEMMA PoolSize == FLANTERM_FB_BUMP_ALLOC_POOL_SIZE \in Nat
BY SMT DEF FLANTERM_FB_BUMP_ALLOC_POOL_SIZE

LEMMA PoolStarts == GoodPool(Pool) /\ Pool.ok
<1>1. PoolAddress \in 0 .. 15
  BY PoolAssumption
<1>2. Aligned(Pool) = IF PoolAddress = 0 THEN 0 ELSE 16 - PoolAddress
  BY <1>1 DEF Aligned, Pool
<1>3. Aligned(Pool) \in Nat /\ (PoolAddress + Aligned(Pool)) % 16 = 0
  BY <1>1, <1>2
<1>4. Pool.blocks = <<>> /\ Pool.ok = TRUE
  BY DEF Pool
<1>5. Pool.blocks \in Seq([at : Nat, size : Nat]) /\ 1 .. Len(Pool.blocks) = {}
  BY <1>4
<1>6. \A k \in 1 .. Len(Pool.blocks) : FALSE
  BY <1>5
<1> QED
  BY <1>3, <1>4, <1>5, <1>6 DEF GoodPool

LEMMA SumOfMultiples ==
  ASSUME NEW a \in Nat, NEW e \in Nat, NEW p \in 0 .. 15, (p + a) % 16 = 0, e % 16 = 0
  PROVE  (p + (a + e)) % 16 = 0
OBVIOUS

(* What is known of a block in front of an address. *)
Before(b, a) ==
  /\ b.at + b.size <= a /\ b.at + b.size <= FLANTERM_FB_BUMP_ALLOC_POOL_SIZE
  /\ (PoolAddress + b.at) % 16 = 0

LEMMA BumpAlloc ==
  ASSUME NEW pool, GoodPool(pool), NEW s \in Nat
  PROVE  GoodPool(bump_alloc(pool, s))
<1> DEFINE Block == [at : Nat, size : Nat]
           q == bump_alloc(pool, s)
<1>1. PICK a \in Nat : a = Aligned(pool) /\ (PoolAddress + a) % 16 = 0
  BY DEF GoodPool
<1>2. PICK e \in Nat : e = Rounded(s) /\ s <= e /\ e % 16 = 0
  <2>1. Rounded(s) \in Nat /\ s <= Rounded(s) /\ Rounded(s) % 16 = 0
    BY DEF Rounded
  <2> QED
    BY <2>1
<1>3. PICK bs \in Seq(Block), n \in Nat : bs = pool.blocks /\ n = Len(bs)
  BY DEF GoodPool
<1>4. ASSUME NEW k \in 1 .. n
      PROVE  /\ Before(bs[k], a) /\ bs[k].at \in Nat /\ bs[k].size \in Nat
             /\ \A j \in 1 .. k - 1 : bs[j].at + bs[j].size <= bs[k].at
  <2>1. bs[k] \in Block
    <3> HIDE DEF Block
    <3> QED
      BY <1>3
  <2> QED
    BY <1>1, <1>3, <2>1 DEF GoodPool, Before
<1>5. CASE a + e > FLANTERM_FB_BUMP_ALLOC_POOL_SIZE
  <2>1. q = [ptr |-> a, base_offset_added |-> TRUE, blocks |-> bs, ok |-> FALSE]
    BY <1>1, <1>2, <1>3, <1>5 DEF bump_alloc
  <2>2. Aligned(q) = a /\ q.blocks = bs /\ q.ok = FALSE
    BY <2>1 DEF Aligned
  <2> HIDE DEF q
  <2>3. GoodPool(q)
    BY <1>1, <1>3, <2>2 DEF GoodPool
  <2> QED
    BY <2>3 DEF q
<1>6. CASE ~(a + e > FLANTERM_FB_BUMP_ALLOC_POOL_SIZE)
  <2> DEFINE b == [at |-> a, size |-> s]
  <2>1. b \in Block /\ b.at = a /\ b.size = s
    OBVIOUS
  <2>2. q = [ptr |-> a + e, base_offset_added |-> TRUE, blocks |-> Append(bs, b), ok |-> TRUE]
    BY <1>1, <1>2, <1>3, <1>6 DEF bump_alloc
  <2>3. Aligned(q) = a + e /\ q.blocks = Append(bs, b) /\ q.ok = TRUE
    BY <2>2 DEF Aligned
  <2> HIDE DEF q, b
  <2>4. a + e \in Nat /\ (PoolAddress + (a + e)) % 16 = 0
    <3>1. PoolAddress \in 0 .. 15
      BY PoolAssumption
    <3>2. (PoolAddress + (a + e)) % 16 = 0
      BY <1>1, <1>2, <3>1, SumOfMultiples, Zenon
    <3> QED
      BY <3>2
  <2>5. /\ Len(q.blocks) = n + 1 /\ q.blocks \in Seq(Block) /\ q.blocks[n + 1] = b
        /\ \A k \in 1 .. n : q.blocks[k] = bs[k]
    <3> HIDE DEF Block
    <3> QED
      BY <1>3, <2>1, <2>3
  <2>6. Before(b, a + e)
    BY <1>1, <1>2, <1>6, <2>1, PoolSize DEF Before
  <2>7. ASSUME NEW k \in 1 .. n + 1
        PROVE  /\ Before(q.blocks[k], a + e)
               /\ \A j \in 1 .. k - 1 : q.blocks[j].at + q.blocks[j].size <= q.blocks[k].at
    <3>1. CASE k \in 1 .. n
      <4>1. \A j \in 1 .. k - 1 : q.blocks[j] = bs[j]
        BY <2>5, <3>1
      <4>2. Before(bs[k], a + e)
        BY <1>2, <1>4, <3>1 DEF Before
      <4> QED
        BY <1>4, <2>5, <3>1, <4>1, <4>2
    <3>2. CASE k = n + 1
      <4>1. \A j \in 1 .. k - 1 : q.blocks[j] = bs[j] /\ bs[j].at + bs[j].size <= a
        BY <1>4, <2>5, <3>2 DEF Before
      <4> QED
        BY <2>1, <2>5, <2>6, <3>2, <4>1
    <3> QED
      BY <3>1, <3>2
  <2>8. GoodPool(q)
    BY <2>3, <2>4, <2>5, <2>7 DEF GoodPool, Before
  <2> QED
    BY <2>8 DEF q
<1> QED
  BY <1>5, <1>6

(* The requests are met one after the other, until one is not. *)
Step(m, pool, k) == IF pool.ok THEN bump_alloc(pool, Requests(m)[k]) ELSE pool
Last(m) == Step(m, Step(m, Step(m, Step(m, Step(m, Step(m, Pool, 1), 2), 3), 4), 5), 6)
LEMMA TakenIs == ASSUME NEW m PROVE Taken(m) = Last(m)
<1> PICK p0, p1, p2, p3, p4, p5, p6 :
       /\ p0 = Pool /\ p1 = Step(m, p0, 1) /\ p2 = Step(m, p1, 2) /\ p3 = Step(m, p2, 3)
       /\ p4 = Step(m, p3, 4) /\ p5 = Step(m, p4, 5) /\ p6 = Step(m, p5, 6)
  OBVIOUS
<1> DEFINE Eq(f, k) == IF k = 0 THEN Pool
                       ELSE IF f[k - 1].ok THEN bump_alloc(f[k - 1], Requests(m)[k]) ELSE f[k - 1]
           g == [k \in 0 .. 6 |-> IF k = 0 THEN p0 ELSE IF k = 1 THEN p1 ELSE IF k = 2 THEN p2
                                  ELSE IF k = 3 THEN p3 ELSE IF k = 4 THEN p4 ELSE IF k = 5 THEN p5 ELSE p6]
           after == CHOOSE f : f = [k \in 0 .. 6 |-> Eq(f, k)]
<1>1. g[0] = p0 /\ g[1] = p1 /\ g[2] = p2 /\ g[3] = p3 /\ g[4] = p4 /\ g[5] = p5 /\ g[6] = p6
  OBVIOUS
<1>2. g = [k \in 0 .. 6 |-> Eq(g, k)]
  <2> SUFFICES ASSUME NEW k \in 0 .. 6 PROVE g[k] = Eq(g, k)
    OBVIOUS
  <2> HIDE DEF g
  <2>1. CASE k = 0
    BY <1>1, <2>1
  <2>2. CASE k = 1
    <3>1. k # 0 /\ k - 1 = 0 /\ Eq(g, k) = Step(m, g[k - 1], k)
      BY <2>2 DEF Step
    <3> QED
      BY <1>1, <2>2, <3>1
  <2>3. CASE k = 2
    <3>1. k # 0 /\ k - 1 = 1 /\ Eq(g, k) = Step(m, g[k - 1], k)
      BY <2>3 DEF Step
    <3> QED
      BY <1>1, <2>3, <3>1
  <2>4. CASE k = 3
    <3>1. k # 0 /\ k - 1 = 2 /\ Eq(g, k) = Step(m, g[k - 1], k)
      BY <2>4 DEF Step
    <3> QED
      BY <1>1, <2>4, <3>1
  <2>5. CASE k = 4
    <3>1. k # 0 /\ k - 1 = 3 /\ Eq(g, k) = Step(m, g[k - 1], k)
      BY <2>5 DEF Step
    <3> QED
      BY <1>1, <2>5, <3>1
  <2>6. CASE k = 5
    <3>1. k # 0 /\ k - 1 = 4 /\ Eq(g, k) = Step(m, g[k - 1], k)
      BY <2>6 DEF Step
    <3> QED
      BY <1>1, <2>6, <3>1
  <2>7. CASE k = 6
    <3>1. k # 0 /\ k - 1 = 5 /\ Eq(g, k) = Step(m, g[k - 1], k)
      BY <2>7 DEF Step
    <3> QED
      BY <1>1, <2>7, <3>1
  <2> QED
    BY <2>1, <2>2, <2>3, <2>4, <2>5, <2>6, <2>7
<1> HIDE DEF g
<1>3. after = [k \in 0 .. 6 |-> Eq(after, k)]
  BY <1>2
<1>4. Taken(m) = after[6]
  BY DEF Taken
<1> HIDE DEF after
<1>5. after[0] = p0 /\ \A k \in 1 .. 6 : after[k] = Step(m, after[k - 1], k)
  BY <1>3 DEF Step
<1>6. after[1] = p1
  <2>1. 1 \in 1 .. 6 /\ 1 - 1 = 0
    OBVIOUS
  <2>2. after[1] = Step(m, after[0], 1)
    BY <1>5, <2>1
  <2> QED
    BY <1>5, <2>2
<1>7. after[2] = p2
  <2>1. 2 \in 1 .. 6 /\ 2 - 1 = 1
    OBVIOUS
  <2>2. after[2] = Step(m, after[1], 2)
    BY <1>5, <2>1
  <2> QED
    BY <1>6, <2>2
<1>8. after[3] = p3
  <2>1. 3 \in 1 .. 6 /\ 3 - 1 = 2
    OBVIOUS
  <2>2. after[3] = Step(m, after[2], 3)
    BY <1>5, <2>1
  <2> QED
    BY <1>7, <2>2
<1>9. after[4] = p4
  <2>1. 4 \in 1 .. 6 /\ 4 - 1 = 3
    OBVIOUS
  <2>2. after[4] = Step(m, after[3], 4)
    BY <1>5, <2>1
  <2> QED
    BY <1>8, <2>2
<1>10. after[5] = p5
  <2>1. 5 \in 1 .. 6 /\ 5 - 1 = 4
    OBVIOUS
  <2>2. after[5] = Step(m, after[4], 5)
    BY <1>5, <2>1
  <2> QED
    BY <1>9, <2>2
<1>11. after[6] = p6
  <2>1. 6 \in 1 .. 6 /\ 6 - 1 = 5
    OBVIOUS
  <2>2. after[6] = Step(m, after[5], 6)
    BY <1>5, <2>1
  <2> QED
    BY <1>10, <2>2
<1> QED
  BY <1>4, <1>11 DEF Last

(* The size of the terminal. *)
LEMMA SizeIs ==
  ASSUME NEW m \in Modes
  PROVE  /\ m.width \in Nat /\ m.height \in Nat
         /\ cols(m) \in Nat \ {0} /\ rows(m) \in Nat \ {0, 1}
         /\ plot_x(m, 0) >= 0 /\ plot_x(m, cols(m) - 1) + glyph_width(m) <= m.width
         /\ plot_y(m, 0) >= 0 /\ plot_y(m, rows(m) - 1) + glyph_height(m) <= m.height
<1>1. /\ m.width \in Nat /\ m.height \in Nat /\ m.width >= 9 /\ m.height >= 28
  BY FlantermAssumption DEF font_width, font_spacing, font_height
<1>2. PICK w \in Nat, h \in Nat : w = m.width /\ h = m.height /\ w >= 9 /\ h >= 28
  BY <1>1
<1>3. PICK v \in Nat : v = width(m) /\ v = IF w > 1920 THEN 1920 ELSE w
  BY <1>2 DEF width, Limit, FLANTERM_FB_WIDTH_LIMIT
<1>4. PICK u \in Nat : u = height(m) /\ u = IF h > 1200 THEN 1200 ELSE h
  BY <1>2 DEF height, Limit, FLANTERM_FB_HEIGHT_LIMIT
<1>5. PICK s \in {1, 2, 4} : s = font_scale(m)
  BY DEF font_scale
<1>6. (s = 2 => w >= 2560 /\ h >= 1440) /\ (s = 4 => w >= 5120 /\ h >= 2880)
  BY <1>2, <1>5 DEF font_scale
<1>7. glyph_width(m) = 9 * s /\ glyph_height(m) = 14 * s
  BY <1>5 DEF glyph_width, glyph_height, font_width, font_spacing, font_height
<1>8. cols(m) = v \div (9 * s) /\ rows(m) = u \div (14 * s)
  BY <1>3, <1>4, <1>7 DEF cols, rows
<1>9. cols(m) \in Nat \ {0} /\ rows(m) \in Nat \ {0, 1}
  BY <1>2, <1>3, <1>4, <1>5, <1>6, <1>8
<1>10. /\ plot_x(m, 0) >= 0 /\ plot_x(m, cols(m) - 1) + glyph_width(m) <= w
  BY <1>2, <1>3, <1>5, <1>6, <1>7, <1>8, <1>9 DEF plot_x
<1>11. /\ plot_y(m, 0) >= 0 /\ plot_y(m, rows(m) - 1) + glyph_height(m) <= h
  BY <1>2, <1>4, <1>5, <1>6, <1>7, <1>8, <1>9 DEF plot_y
<1> QED
  BY <1>2, <1>9, <1>10, <1>11

(* Blocks that are taken from a good pool are good. *)
LEMMA TakenGood ==
  ASSUME NEW m \in Modes
  PROVE  GoodPool(Taken(m))
<1>1. /\ Requests(m)[1] \in Nat /\ Requests(m)[2] \in Nat /\ Requests(m)[3] \in Nat
      /\ Requests(m)[4] \in Nat /\ Requests(m)[5] \in Nat /\ Requests(m)[6] \in Nat
  <2>1. PICK n \in Nat : n = rows(m) * cols(m)
    BY SizeIs
  <2> QED
    BY <2>1 DEF Requests, flanterm_fb_context, font_width, font_height, FLANTERM_FB_FONT_GLYPHS,
                font_spacing, flanterm_fb_char, flanterm_fb_queue_item, pointer
<1>2. \A pool : \A k \in 1 .. 6 : GoodPool(pool) => GoodPool(Step(m, pool, k))
  <2> SUFFICES ASSUME NEW pool, NEW k \in 1 .. 6, GoodPool(pool) PROVE GoodPool(Step(m, pool, k))
    OBVIOUS
  <2>1. k = 1 \/ k = 2 \/ k = 3 \/ k = 4 \/ k = 5 \/ k = 6
    OBVIOUS
  <2>2. Requests(m)[k] \in Nat
    BY <1>1, <2>1
  <2> QED
    BY <2>2, BumpAlloc DEF Step
<1>3. 1 \in 1 .. 6 /\ 2 \in 1 .. 6 /\ 3 \in 1 .. 6 /\ 4 \in 1 .. 6 /\ 5 \in 1 .. 6 /\ 6 \in 1 .. 6
  OBVIOUS
<1> QED
  BY <1>2, <1>3, PoolStarts, TakenIs DEF Last

(* The terminal's blocks lie in the pool apart from each other, and its    *)
(* cells on the frame buffer (flanterm_fb_init, plot_char), in every mode. *)
THEOREM MemoryIsSound == Spec => []MemorySound
<1>1. ModeIs => MemorySound
  <2> SUFFICES ASSUME ModeIs, mode # NULL, Initialises(mode)
               PROVE  MemorySound
    BY DEF MemorySound
  <2>1. mode \in Modes
    BY DEF ModeIs
  <2>2. PICK bs : bs = Taken(mode).blocks
    OBVIOUS
  <2>3. GoodPool(Taken(mode))
    BY <2>1, TakenGood
  <2>4. DOMAIN bs = 1 .. Len(bs)
    BY <2>2, <2>3 DEF GoodPool
  <2>5. \A k \in DOMAIN bs :
          /\ bs[k].at + bs[k].size <= FLANTERM_FB_BUMP_ALLOC_POOL_SIZE
          /\ (PoolAddress + bs[k].at) % 16 = 0
          /\ \A j \in 1 .. k - 1 : bs[j].at + bs[j].size <= bs[k].at
    BY <2>2, <2>3, <2>4 DEF GoodPool
  <2>6. \A j, k \in DOMAIN bs : j < k => bs[j].at + bs[j].size <= bs[k].at
    <3> SUFFICES ASSUME NEW j \in DOMAIN bs, NEW k \in DOMAIN bs, j < k
                 PROVE  bs[j].at + bs[j].size <= bs[k].at
      OBVIOUS
    <3>1. Len(bs) \in Nat
      BY <2>2, <2>3 DEF GoodPool
    <3>2. j \in 1 .. k - 1
      BY <2>4, <3>1
    <3> QED
      BY <2>5, <3>2
  <2> QED
    BY <2>1, <2>2, <2>5, <2>6, SizeIs DEF MemorySound
<1> QED
  BY <1>1, ModeHolds, PTL

----------------------------------------------------------------------------
(* The turns of a loop. *)

(* A nonempty set of numbers has a least element. *)
LEMMA LeastOf ==
  ASSUME NEW T \in SUBSET Nat, T # {}
  PROVE  \E n \in T : \A m \in T : n <= m
<1> DEFINE R == OpToRel(<, Nat)
<1>1. IsWellFoundedOn(R, Nat)
  BY NatLessThanWellFounded
<1>2. \E n \in T : \A m \in T : <<m, n>> \notin R
  <2> HIDE DEF R
  <2> QED
    BY <1>1, WFMin
<1>3. \A m, n \in Nat : <<m, n>> \notin R => n <= m
  BY DEF OpToRel
<1> QED
  BY <1>2, <1>3

(* What holds before the first turn, and after a turn if it did before it, *)
(* holds after the last.                                                   *)
LEMMA Stays ==
  ASSUME NEW n \in Nat, NEW h, NEW S, h[0] \in S[0],
         \A k \in 1 .. n : h[k - 1] \in S[k - 1] => h[k] \in S[k]
  PROVE  \A k \in 0 .. n : h[k] \in S[k]
<1> DEFINE T == {k \in 0 .. n : h[k] \notin S[k]}
<1> SUFFICES ASSUME T # {} PROVE FALSE
  OBVIOUS
<1>1. T \in SUBSET Nat
  OBVIOUS
<1>2. PICK k \in T : \A j \in T : k <= j
  <2> HIDE DEF T
  <2> QED
    BY <1>1, LeastOf
<1>3. k \in 0 .. n /\ h[k] \notin S[k] /\ k # 0 /\ k - 1 \in 0 .. n /\ k \in 1 .. n
  BY <1>2
<1>4. h[k - 1] \in S[k - 1]
  <2>1. k - 1 \notin T
    BY <1>2, <1>3
  <2> QED
    BY <2>1, <1>3
<1> QED
  BY <1>3, <1>4

(* Turns of functions from a set to itself can be taken one after the other. *)
Taking(n, V, v, F, g) ==
  g \in [0 .. n -> V] /\ g[0] = v /\ \A k \in 1 .. n : g[k] = F[k][g[k - 1]]
LEMMA Loop ==
  ASSUME NEW n \in Nat, NEW V, NEW v \in V, NEW F \in [1 .. n -> [V -> V]]
  PROVE  \E g : Taking(n, V, v, F, g)
<1> DEFINE T == {k \in 0 .. n : ~\E g : Taking(k, V, v, F, g)}
<1> SUFFICES ASSUME ~\E g : Taking(n, V, v, F, g) PROVE FALSE
  OBVIOUS
<1>0. n \in T
  OBVIOUS
<1>1. PICK k \in T : \A j \in T : k <= j
  <2>1. T \in SUBSET Nat
    OBVIOUS
  <2> HIDE DEF T
  <2> QED
    BY <2>1, <1>0, LeastOf
<1>2. k # 0
  <2>1. Taking(0, V, v, F, [j \in 0 .. 0 |-> v])
    BY DEF Taking
  <2> QED
    BY <1>1, <2>1
<1>3. k \in 1 .. n /\ k - 1 \in 0 .. n /\ k - 1 \notin T
  BY <1>1, <1>2
<1>4. PICK g : Taking(k - 1, V, v, F, g)
  BY <1>3
<1> DEFINE w == F[k][g[k - 1]]
           h == [j \in 0 .. k |-> IF j = k THEN w ELSE g[j]]
<1>5. g \in [0 .. k - 1 -> V] /\ g[0] = v /\ \A j \in 1 .. k - 1 : g[j] = F[j][g[j - 1]]
  BY <1>4 DEF Taking
<1>6. g[k - 1] \in V /\ w \in V
  <2>1. g[k - 1] \in V
    BY <1>3, <1>5
  <2>2. F[k] \in [V -> V]
    BY <1>3
  <2> QED
    BY <2>1, <2>2
<1>7. h \in [0 .. k -> V] /\ h[0] = v
  BY <1>3, <1>5, <1>6
<1>8. ASSUME NEW j \in 1 .. k PROVE h[j] = F[j][h[j - 1]]
  <2> HIDE DEF w
  <2>1. h[j - 1] = g[j - 1]
    BY <1>3
  <2>2. CASE j = k
    BY <1>3, <2>1, <2>2 DEF w
  <2>3. CASE j # k
    <3>1. j \in 1 .. k - 1
      BY <1>3, <2>3
    <3> QED
      BY <1>3, <1>5, <2>1, <3>1
  <2> QED
    BY <2>2, <2>3
<1>9. Taking(k, V, v, F, h)
  <2> HIDE DEF h
  <2> QED
    BY <1>7, <1>8 DEF Taking
<1> QED
  BY <1>1, <1>9

----------------------------------------------------------------------------
(* Contexts. *)

(* An entry of map names an item of the queue, and r excuses the items     *)
(* without an entry.                                                       *)
OnePer(t, r) ==
  /\ \A i \in Cells(t) : t.map[i] # 0 => t.map[i] \in DOMAIN t.queue /\ t.queue[t.map[i]].i = i
  /\ \A k \in DOMAIN t.queue : t.map[t.queue[k].i] = k \/ r

(* What drawing leaves alone. *)
SameColours(t, u) ==
  /\ u.text_fg = t.text_fg /\ u.text_bg = t.text_bg /\ u.reverse_video = t.reverse_video
  /\ u.bold = t.bold /\ u.bg_bold = t.bg_bold
  /\ u.current_primary = t.current_primary /\ u.current_bg = t.current_bg
  /\ u.saved_attributes = t.saved_attributes
Holds(t, u) ==
  /\ u.cols = t.cols /\ u.rows = t.rows /\ u.cursor_enabled = t.cursor_enabled
  /\ u.top = t.top /\ u.bottom = t.bottom /\ u.scroll_enabled = t.scroll_enabled
  /\ u.saved_state = t.saved_state /\ SameColours(t, u)

(* What only a flush or a refresh changes: all that the screen shows.      *)
SameScene(t, u) ==
  /\ u.grid = t.grid /\ u.screen = t.screen
  /\ u.old_cursor_x = t.old_cursor_x /\ u.old_cursor_y = t.old_cursor_y
Keeps(t, u) == Holds(t, u) /\ SameScene(t, u)
SameCursor(t, u) == u.cursor_x = t.cursor_x /\ u.cursor_y = t.cursor_y

(* The contexts that drawing in the cells of t may leave. *)
Drawn(t, r) ==
  {u \in Context(t.cols, t.rows) : OnePer(u, r) /\ Keeps(t, u) /\ SameCursor(t, u)}

LEMMA Itself ==
  ASSUME NEW n \in Nat, NEW m \in Nat, NEW r, NEW t \in Context(n, m), OnePer(t, r)
  PROVE  t \in Drawn(t, r) /\ t.cols = n /\ t.rows = m
BY DEF Drawn, Context, Keeps, Holds, SameColours, SameScene, SameCursor

LEMMA DrawnAgain ==
  ASSUME NEW r, NEW t, NEW u \in Drawn(t, r), NEW v \in Drawn(u, r)
  PROVE  v \in Drawn(t, r)
BY DEF Drawn, Keeps, Holds, SameColours, SameScene, SameCursor

(* Products grow with their factors. *)
LEMMA TimesGrow ==
  ASSUME NEW a \in Nat, NEW b \in Nat, NEW m \in Nat
  PROVE  /\ a * m \in Nat /\ b * m \in Nat
         /\ a <= b => a * m <= b * m
         /\ a < b => a * m + m <= b * m
<1>1. a * m \in Nat /\ b * m \in Nat
  OBVIOUS
<1>2. ASSUME a <= b PROVE a * m <= b * m
  <2>1. b - a \in Nat /\ b = a + (b - a)
    BY <1>2
  <2>2. PICK d \in Nat : b = a + d
    BY <2>1
  <2>3. b * m = a * m + d * m /\ d * m \in Nat
    BY ONLY <2>2, a \in Nat, m \in Nat
  <2> QED
    BY <2>3, <1>1
<1>3. ASSUME a < b PROVE a * m + m <= b * m
  <2>1. b - a - 1 \in Nat /\ b = a + 1 + (b - a - 1)
    BY <1>3
  <2>2. PICK d \in Nat : b = a + 1 + d
    BY <2>1
  <2>3. b * m = a * m + m + d * m /\ d * m \in Nat
    BY ONLY <2>2, a \in Nat, m \in Nat
  <2> QED
    BY <2>3, <1>1
<1> QED
  BY <1>1, <1>2, <1>3

(* A column and a row make a cell. *)
LEMMA CellIs ==
  ASSUME NEW n \in Nat, NEW m \in Nat, NEW x \in Nat, NEW y \in Nat, x < n, y < m
  PROVE  y * n + x \in 0 .. m * n - 1 /\ x + y * n \in 0 .. m * n - 1
<1>1. /\ y * n \in Nat /\ m * n \in Nat /\ y * n + n <= m * n
  BY TimesGrow
<1>2. PICK p \in Nat, q \in Nat : p = y * n /\ q = m * n /\ p + n <= q
  BY <1>1
<1> QED
  BY <1>2

(* The items of a sequence. *)
LEMMA ItemIs ==
  ASSUME NEW S, NEW q \in Seq(S)
  PROVE  \A k \in DOMAIN q : q[k] \in S /\ k \in Nat /\ k # 0
OBVIOUS

(* Cells of the grid and of the queue. *)
LEMMA ContentIs ==
  ASSUME NEW n \in Nat, NEW m \in Nat, NEW r, NEW t \in Context(n, m), OnePer(t, r),
         NEW i \in 0 .. m * n - 1
  PROVE  Content(t, i) \in Cell
<1>1. /\ t.grid[i] \in Cell /\ t.map[i] \in Nat /\ t.cols = n /\ t.rows = m
      /\ t.queue \in Seq([i : 0 .. m * n - 1, c : Cell])
  BY DEF Context
<1>2. CASE t.map[i] # 0
  <2>1. i \in Cells(t)
    BY <1>1 DEF Cells
  <2>2. t.map[i] \in DOMAIN t.queue
    BY <1>2, <2>1 DEF OnePer
  <2>3. t.queue[t.map[i]] \in [i : 0 .. m * n - 1, c : Cell]
    BY <1>1, <2>2, ItemIs
  <2> QED
    BY <1>2, <2>3 DEF Content
<1> QED
  BY <1>1, <1>2 DEF Content

(* What a new queue and a new map leave. *)
With(t, q, f) == [t EXCEPT !.queue = q, !.map = f]
QueuedAs(t, u, q, f, n, m) ==
  /\ u \in Context(n, m) /\ Keeps(t, u) /\ SameCursor(t, u)
  /\ u.queue = q /\ u.map = f /\ u.cols = n /\ u.rows = m
LEMMA Queued ==
  ASSUME NEW n \in Nat, NEW m \in Nat, NEW t \in Context(n, m),
         NEW q \in Seq([i : 0 .. m * n - 1, c : Cell]), NEW f \in [0 .. m * n - 1 -> Nat]
  PROVE  QueuedAs(t, With(t, q, f), q, f, n, m)
BY DEF QueuedAs, Context, Keeps, Holds, SameColours, SameScene, SameCursor, With

LEMMA Push ==
  ASSUME NEW n \in Nat, NEW m \in Nat, NEW r, NEW t \in Context(n, m), OnePer(t, r),
         NEW ch \in Cell, NEW x \in Nat, NEW y \in Nat
  PROVE  push_to_queue(t, ch, x, y) \in Drawn(t, r)
<1> DEFINE Item == [i : 0 .. m * n - 1, c : Cell]
<1>1. t.cols = n /\ t.rows = m /\ t \in Drawn(t, r)
  BY Itself
<1>2. CASE x >= n \/ y >= m
  BY <1>1, <1>2 DEF push_to_queue
<1>3. CASE x < n /\ y < m
  <2>1. PICK i \in 0 .. m * n - 1 : i = y * n + x
    BY <1>3, CellIs
  <2>2. t.map \in [0 .. m * n - 1 -> Nat] /\ t.queue \in Seq(Item)
    BY DEF Context
  <2>3. i \in Cells(t) /\ Cells(t) = 0 .. m * n - 1
    BY <1>1, <2>1 DEF Cells
  <2>4. PICK q \in Seq(Item), f \in [0 .. m * n - 1 -> Nat] : q = t.queue /\ f = t.map
    BY <2>2
  <2>5. \A k \in DOMAIN q : q[k] \in Item /\ k \in Nat /\ k # 0
    BY <2>4, ItemIs
  <2>6. /\ \A j \in 0 .. m * n - 1 : f[j] # 0 => f[j] \in DOMAIN q /\ q[f[j]].i = j
        /\ \A k \in DOMAIN q : f[q[k].i] = k \/ r
    BY <2>3, <2>4 DEF OnePer
  <2>7. CASE f[i] # 0
    <3> DEFINE p == [q EXCEPT ![f[i]].c = ch]
               u == With(t, p, f)
    <3>1. f[i] \in DOMAIN q /\ [q[f[i]] EXCEPT !.c = ch] \in Item
      BY <2>5, <2>6, <2>7
    <3>2. p \in Seq(Item) /\ DOMAIN p = DOMAIN q
      <4> HIDE DEF Item
      <4> QED
        BY <3>1
    <3>3. \A k \in DOMAIN q : p[k].i = q[k].i
      BY <2>5
    <3> HIDE DEF p
    <3>4. QueuedAs(t, u, p, f, n, m)
      BY <3>2, Queued
    <3>5. push_to_queue(t, ch, x, y) = u
      <4>1. push_to_queue(t, ch, x, y) = [t EXCEPT !.queue[t.map[i]].c = ch]
        BY <1>1, <1>3, <2>1, <2>4, <2>7 DEF push_to_queue
      <4>2. [t EXCEPT !.queue[t.map[i]].c = ch] = With(t, p, f)
        BY <2>4 DEF Context, p, With
      <4> QED
        BY <4>1, <4>2
    <3> HIDE DEF u
    <3>6. OnePer(u, r)
      BY <2>6, <3>2, <3>3, <3>4 DEF OnePer, Cells, QueuedAs
    <3> QED
      BY <1>1, <3>4, <3>5, <3>6 DEF Drawn, QueuedAs
  <2>8. CASE f[i] = 0 /\ t.grid[i] = ch
    BY <1>1, <1>3, <2>1, <2>4, <2>8 DEF push_to_queue
  <2>9. CASE f[i] = 0 /\ t.grid[i] # ch
    <3> DEFINE item == [i |-> i, c |-> ch]
               p == Append(q, item)
               g == [f EXCEPT ![i] = Len(q) + 1]
               u == With(t, p, g)
    <3>1. item \in Item /\ item.i = i
      OBVIOUS
    <3>2. Len(q) \in Nat /\ DOMAIN q = 1 .. Len(q)
      BY <2>4
    <3>3. /\ p \in Seq(Item) /\ DOMAIN p = 1 .. Len(q) + 1
          /\ p[Len(q) + 1] = item /\ \A k \in 1 .. Len(q) : p[k] = q[k]
      <4> HIDE DEF Item, item
      <4> QED
        BY <2>4, <3>1
    <3>4. g \in [0 .. m * n - 1 -> Nat] /\ g[i] = Len(q) + 1
          /\ \A j \in 0 .. m * n - 1 : j # i => g[j] = f[j]
      BY <3>2
    <3>5. push_to_queue(t, ch, x, y) = u
      <4>1. push_to_queue(t, ch, x, y) = [t EXCEPT !.queue = Append(@, item), !.map[i] = Len(t.queue) + 1]
        BY <1>1, <1>3, <2>1, <2>4, <2>9 DEF push_to_queue, Content
      <4>2. [t EXCEPT !.queue = Append(@, item), !.map[i] = Len(t.queue) + 1]
              = With(t, p, g)
        <5> HIDE DEF item
        <5> QED
          BY <2>4 DEF Context, With
      <4> QED
        BY <4>1, <4>2
    <3> HIDE DEF item, p, g
    <3>6. QueuedAs(t, u, p, g, n, m)
      BY <3>3, <3>4, Queued
    <3> HIDE DEF u
    <3>7. \A j \in 0 .. m * n - 1 : g[j] # 0 => g[j] \in DOMAIN p /\ p[g[j]].i = j
      <4> SUFFICES ASSUME NEW j \in 0 .. m * n - 1, g[j] # 0
                   PROVE  g[j] \in DOMAIN p /\ p[g[j]].i = j
        OBVIOUS
      <4>1. CASE j = i
        <5>1. Len(q) + 1 \in DOMAIN p
          BY <3>2, <3>3
        <5> QED
          BY <3>1, <3>3, <3>4, <4>1, <5>1
      <4>2. CASE j # i
        <5>1. g[j] = f[j] /\ g[j] \in DOMAIN q /\ q[g[j]].i = j
          BY <2>6, <3>4, <4>2
        <5>2. g[j] \in DOMAIN p /\ p[g[j]] = q[g[j]]
          BY <3>2, <3>3, <5>1
        <5> QED
          BY <5>1, <5>2
      <4> QED
        BY <4>1, <4>2
    <3>8. \A k \in DOMAIN p : g[p[k].i] = k \/ r
      <4> SUFFICES ASSUME NEW k \in 1 .. Len(q) + 1 PROVE g[p[k].i] = k \/ r
        BY <3>3
      <4>1. CASE k = Len(q) + 1
        BY <3>1, <3>3, <3>4, <4>1
      <4>2. CASE k # Len(q) + 1
        <5>1. k \in DOMAIN q /\ p[k] = q[k]
          <6>1. k \in 1 .. Len(q)
            BY <3>2, <4>2
          <6> QED
            BY <6>1, <3>2, <3>3
        <5>2. q[k].i \in 0 .. m * n - 1 /\ k # 0 /\ (f[q[k].i] = k \/ r)
          BY <2>5, <2>6, <5>1
        <5> QED
          BY <2>9, <3>4, <5>1, <5>2
      <4> QED
        BY <4>1, <4>2
    <3>9. OnePer(u, r)
      BY <3>6, <3>7, <3>8 DEF OnePer, Cells, QueuedAs
    <3> QED
      BY <1>1, <3>5, <3>6, <3>9 DEF Drawn, QueuedAs
  <2> QED
    BY <2>7, <2>8, <2>9
<1> QED
  BY <1>2, <1>3

----------------------------------------------------------------------------
(* Scrolling and erasing. *)

(* Blank is a cell's. *)
LEMMA CharIs ==
  ASSUME NEW n \in Nat, NEW m \in Nat, NEW t \in Context(n, m), NEW code \in Int
  PROVE  Char(t, code) \in Cell /\ Blank \in Int
BY DEF Context, Char, Cell, Blank

LEMMA DrawnIs ==
  ASSUME NEW n \in Nat, NEW m \in Nat, NEW r, NEW t \in Context(n, m), NEW u \in Drawn(t, r)
  PROVE  u \in Context(n, m) /\ OnePer(u, r) /\ u.cols = n /\ u.rows = m
BY DEF Drawn, Context

LEMMA PushAgain ==
  ASSUME NEW n \in Nat, NEW m \in Nat, NEW r, NEW t \in Context(n, m), NEW u \in Drawn(t, r),
         NEW ch \in Cell, NEW x \in Nat, NEW y \in Nat
  PROVE  push_to_queue(u, ch, x, y) \in Drawn(t, r)
<1>1. u \in Context(n, m) /\ OnePer(u, r)
  BY DrawnIs
<1>2. push_to_queue(u, ch, x, y) \in Drawn(u, r)
  BY <1>1, Push
<1> QED
  BY <1>2, DrawnAgain

LEMMA RowCleared ==
  ASSUME NEW n \in Nat, NEW m \in Nat, NEW r, NEW t \in Context(n, m), OnePer(t, r), NEW y \in Nat
  PROVE  ClearRow(t, y) \in Drawn(t, r)
<1> DEFINE V == Drawn(t, r)
           Op(u, k) == push_to_queue(u, Char(u, Blank), k - 1, y)
           Eq(f) == [k \in 0 .. n |-> IF k = 0 THEN t ELSE Op(f[k - 1], k)]
           after == CHOOSE f : f = Eq(f)
           F == [k \in 1 .. n |-> [u \in V |-> Op(u, k)]]
<1>1. t \in V /\ t.cols = n
  BY Itself
<1>2. \A k \in 1 .. n : \A u \in V : Op(u, k) \in V
  <2> SUFFICES ASSUME NEW k \in 1 .. n, NEW u \in V PROVE Op(u, k) \in V
    OBVIOUS
  <2>1. u \in Context(n, m) /\ k - 1 \in Nat
    BY DrawnIs
  <2> QED
    BY <2>1, CharIs, PushAgain
<1>3. after = Eq(after)
  <2>1. PICK g : Taking(n, V, t, F, g)
    <3> HIDE DEF V, Op
    <3> QED
      BY <1>1, <1>2, Loop
  <2>2. ASSUME NEW k \in 0 .. n, k # 0 PROVE g[k] = Op(g[k - 1], k)
    <3>1. k \in 1 .. n /\ k - 1 \in 0 .. n
      BY <2>2
    <3>2. g[k - 1] \in V /\ g[k] = F[k][g[k - 1]]
      BY <2>1, <3>1 DEF Taking
    <3> HIDE DEF V, Op
    <3> QED
      BY <3>1, <3>2
  <2>3. g = Eq(g)
    <3> HIDE DEF V, Op
    <3> QED
      BY <2>1, <2>2 DEF Taking
  <2> HIDE DEF Eq
  <2> QED
    BY <2>3
<1>4. after[n] \in V
  <2> DEFINE S == [k \in 0 .. n |-> V]
  <2> HIDE DEF after, V, Op
  <2>1. after[0] \in S[0]
    BY <1>1, <1>3
  <2>2. \A k \in 1 .. n : after[k - 1] \in S[k - 1] => after[k] \in S[k]
    BY <1>2, <1>3
  <2>3. \A k \in 0 .. n : after[k] \in S[k]
    <3> HIDE DEF S
    <3> QED
      BY <2>1, <2>2, Stays
  <2> QED
    BY <2>3
<1>5. ClearRow(t, y) = after[n]
  <2>1. (IF n > 0 THEN n ELSE 0) = n
    OBVIOUS
  <2> QED
    BY <1>1, <2>1 DEF ClearRow, Turns
<1> QED
  BY <1>4, <1>5

(* Rows and columns of a cell. *)
LEMMA Divided ==
  ASSUME NEW a \in Nat, NEW n \in Nat \ {0}
  PROVE  a % n \in Nat /\ a \div n \in Nat
OBVIOUS

(* A loop that copies cells of the screen to others, up or down. *)
LEMMA CopyCell ==
  ASSUME NEW n \in Nat \ {0}, NEW m \in Nat, NEW r, NEW t \in Context(n, m), NEW u \in Drawn(t, r),
         NEW i \in 0 .. m * n - 1, NEW j \in Nat
  PROVE  push_to_queue(u, Content(u, i), j % u.cols, j \div u.cols) \in Drawn(t, r)
<1>1. u \in Context(n, m) /\ OnePer(u, r) /\ u.cols = n /\ n \in Nat
  BY DrawnIs
<1>2. Content(u, i) \in Cell
  BY <1>1, ContentIs
<1>3. j % n \in Nat /\ j \div n \in Nat
  BY Divided
<1> QED
  BY <1>1, <1>2, <1>3, PushAgain

LEMMA ScrollDraws ==
  ASSUME NEW n \in Nat \ {0}, NEW m \in Nat, NEW r, NEW t \in Context(n, m), OnePer(t, r),
         t.bottom \in 1 .. m
  PROVE  scroll(t) \in Drawn(t, r)
<1>0. PICK a \in Nat, b \in Nat : a = (t.top + 1) * n /\ b = t.bottom * n /\ n <= a /\ b <= m * n
  <2>1. t.top \in Nat /\ t.top + 1 \in Nat /\ 0 < t.top + 1 /\ t.bottom \in Nat /\ n \in Nat
    BY DEF Context
  <2>2. 0 * n + n <= (t.top + 1) * n /\ (t.top + 1) * n \in Nat
    BY <2>1, TimesGrow
  <2>3. t.bottom * n <= m * n /\ t.bottom * n \in Nat
    BY <2>1, TimesGrow
  <2> QED
    BY <2>1, <2>2, <2>3
<1>00. PICK N \in Nat : N = IF b - a > 0 THEN b - a ELSE 0
  <2>1. (IF b - a > 0 THEN b - a ELSE 0) \in Nat
    OBVIOUS
  <2> QED
    BY <2>1
<1> DEFINE V == Drawn(t, r)
           Op(u, k) == push_to_queue(u, Content(u, a + k - 1), ((a + k - 1) - u.cols) % u.cols,
                                     ((a + k - 1) - u.cols) \div u.cols)
           Eq(f) == [k \in 0 .. N |-> IF k = 0 THEN t ELSE Op(f[k - 1], k)]
           after == CHOOSE f : f = Eq(f)
           F == [k \in 1 .. N |-> [u \in V |-> Op(u, k)]]
<1>1. t \in V /\ t.cols = n
  BY Itself
<1>2. \A k \in 1 .. N : \A u \in V : Op(u, k) \in V
  <2> SUFFICES ASSUME NEW k \in 1 .. N, NEW u \in V PROVE Op(u, k) \in V
    OBVIOUS
  <2>1. u.cols = n /\ m * n \in Nat
    BY DrawnIs
  <2>2. PICK i \in 0 .. m * n - 1, j \in Nat : i = a + k - 1 /\ j = a + k - 1 - n
    BY <1>0, <1>00, <2>1
  <2>3. push_to_queue(u, Content(u, i), j % u.cols, j \div u.cols) \in V
    BY CopyCell
  <2> QED
    BY <2>1, <2>2, <2>3
<1>3. after = Eq(after)
  <2>1. PICK g : Taking(N, V, t, F, g)
    <3> HIDE DEF V, Op
    <3> QED
      BY <1>1, <1>2, Loop
  <2>2. ASSUME NEW k \in 0 .. N, k # 0 PROVE g[k] = Op(g[k - 1], k)
    <3>1. k \in 1 .. N /\ k - 1 \in 0 .. N
      BY <2>2
    <3>2. g[k - 1] \in V /\ g[k] = F[k][g[k - 1]]
      BY <2>1, <3>1 DEF Taking
    <3> HIDE DEF V, Op
    <3> QED
      BY <3>1, <3>2
  <2>3. g = Eq(g)
    <3> HIDE DEF V, Op
    <3> QED
      BY <2>1, <2>2 DEF Taking
  <2> HIDE DEF Eq
  <2> QED
    BY <2>3
<1>4. after[N] \in V
  <2> DEFINE S == [k \in 0 .. N |-> V]
  <2> HIDE DEF after, V, Op
  <2>1. after[0] \in S[0]
    BY <1>1, <1>3
  <2>2. \A k \in 1 .. N : after[k - 1] \in S[k - 1] => after[k] \in S[k]
    BY <1>2, <1>3
  <2>3. \A k \in 0 .. N : after[k] \in S[k]
    <3> HIDE DEF S
    <3> QED
      BY <2>1, <2>2, Stays
  <2> QED
    BY <2>3
<1> DEFINE moved == after[N]
<1>5. scroll(t) = ClearRow(moved, t.bottom - 1)
  BY <1>0, <1>00, <1>1 DEF scroll, Turns
<1> HIDE DEF moved
<1>6. moved \in Context(n, m) /\ OnePer(moved, r) /\ t.bottom - 1 \in Nat
  BY <1>4, DrawnIs DEF moved
<1>7. ClearRow(moved, t.bottom - 1) \in Drawn(moved, r)
  BY <1>6, RowCleared
<1>8. moved \in Drawn(t, r)
  BY <1>4 DEF moved
<1> QED
  BY <1>5, <1>7, <1>8, DrawnAgain

LEMMA RevscrollDraws ==
  ASSUME NEW n \in Nat \ {0}, NEW m \in Nat, NEW r, NEW t \in Context(n, m), OnePer(t, r),
         t.bottom \in 1 .. m
  PROVE  revscroll(t) \in Drawn(t, r)
<1>0. PICK a \in Nat, b \in Nat : a = t.top * n /\ b = (t.bottom - 1) * n /\ b <= m * n
  <2>1. t.top \in Nat /\ t.bottom - 1 \in Nat /\ t.bottom - 1 <= m /\ n \in Nat
    BY DEF Context
  <2>2. t.top * n \in Nat
    BY <2>1, TimesGrow
  <2>3. (t.bottom - 1) * n <= m * n /\ (t.bottom - 1) * n \in Nat
    BY <2>1, TimesGrow
  <2> QED
    BY <2>1, <2>2, <2>3
<1>00. PICK N \in Nat : N = IF (b - 1) - a + 1 > 0 THEN (b - 1) - a + 1 ELSE 0
  <2>1. (IF (b - 1) - a + 1 > 0 THEN (b - 1) - a + 1 ELSE 0) \in Nat
    OBVIOUS
  <2> QED
    BY <2>1
<1> DEFINE V == Drawn(t, r)
           Op(u, k) == push_to_queue(u, Content(u, (b - 1) - k + 1), (((b - 1) - k + 1) + u.cols) % u.cols,
                                     (((b - 1) - k + 1) + u.cols) \div u.cols)
           Eq(f) == [k \in 0 .. N |-> IF k = 0 THEN t ELSE Op(f[k - 1], k)]
           after == CHOOSE f : f = Eq(f)
           F == [k \in 1 .. N |-> [u \in V |-> Op(u, k)]]
<1>1. t \in V /\ t.cols = n
  BY Itself
<1>2. \A k \in 1 .. N : \A u \in V : Op(u, k) \in V
  <2> SUFFICES ASSUME NEW k \in 1 .. N, NEW u \in V PROVE Op(u, k) \in V
    OBVIOUS
  <2>1. u.cols = n /\ m * n \in Nat
    BY DrawnIs
  <2>2. PICK i \in 0 .. m * n - 1, j \in Nat : i = (b - 1) - k + 1 /\ j = ((b - 1) - k + 1) + n
    BY <1>0, <1>00, <2>1
  <2>3. push_to_queue(u, Content(u, i), j % u.cols, j \div u.cols) \in V
    BY CopyCell
  <2> QED
    BY <2>1, <2>2, <2>3
<1>3. after = Eq(after)
  <2>1. PICK g : Taking(N, V, t, F, g)
    <3> HIDE DEF V, Op
    <3> QED
      BY <1>1, <1>2, Loop
  <2>2. ASSUME NEW k \in 0 .. N, k # 0 PROVE g[k] = Op(g[k - 1], k)
    <3>1. k \in 1 .. N /\ k - 1 \in 0 .. N
      BY <2>2
    <3>2. g[k - 1] \in V /\ g[k] = F[k][g[k - 1]]
      BY <2>1, <3>1 DEF Taking
    <3> HIDE DEF V, Op
    <3> QED
      BY <3>1, <3>2
  <2>3. g = Eq(g)
    <3> HIDE DEF V, Op
    <3> QED
      BY <2>1, <2>2 DEF Taking
  <2> HIDE DEF Eq
  <2> QED
    BY <2>3
<1>4. after[N] \in V
  <2> DEFINE S == [k \in 0 .. N |-> V]
  <2> HIDE DEF after, V, Op
  <2>1. after[0] \in S[0]
    BY <1>1, <1>3
  <2>2. \A k \in 1 .. N : after[k - 1] \in S[k - 1] => after[k] \in S[k]
    BY <1>2, <1>3
  <2>3. \A k \in 0 .. N : after[k] \in S[k]
    <3> HIDE DEF S
    <3> QED
      BY <2>1, <2>2, Stays
  <2> QED
    BY <2>3
<1> DEFINE moved == after[N]
<1>5. revscroll(t) = ClearRow(moved, t.top)
  BY <1>0, <1>00, <1>1 DEF revscroll, Turns
<1> HIDE DEF moved
<1>6. moved \in Context(n, m) /\ OnePer(moved, r) /\ t.top \in Nat
  <2>1. t.top \in Nat
    BY DEF Context
  <2> QED
    BY <1>4, <2>1, DrawnIs DEF moved
<1>7. ClearRow(moved, t.top) \in Drawn(moved, r)
  BY <1>6, RowCleared
<1>8. moved \in Drawn(t, r)
  BY <1>4 DEF moved
<1> QED
  BY <1>5, <1>7, <1>8, DrawnAgain

LEMMA ClearDraws ==
  ASSUME NEW n \in Nat \ {0}, NEW m \in Nat, NEW r, NEW t \in Context(n, m), OnePer(t, r)
  PROVE  /\ clear(t, FALSE) \in Drawn(t, r)
         /\ clear(t, TRUE) \in {[u EXCEPT !.cursor_x = 0, !.cursor_y = 0] : u \in Drawn(t, r)}
<1>00. PICK N \in Nat : N = IF t.rows * t.cols > 0 THEN t.rows * t.cols ELSE 0
  BY DEF Context
<1> DEFINE V == Drawn(t, r)
           Op(u, k) == push_to_queue(u, Char(u, Blank), (k - 1) % u.cols, (k - 1) \div u.cols)
           Eq(f) == [k \in 0 .. N |-> IF k = 0 THEN t ELSE Op(f[k - 1], k)]
           after == CHOOSE f : f = Eq(f)
           F == [k \in 1 .. N |-> [u \in V |-> Op(u, k)]]
<1>1. t \in V /\ t.cols = n
  BY Itself
<1>2. \A k \in 1 .. N : \A u \in V : Op(u, k) \in V
  <2> SUFFICES ASSUME NEW k \in 1 .. N, NEW u \in V PROVE Op(u, k) \in V
    OBVIOUS
  <2>1. u \in Context(n, m) /\ u.cols = n /\ k - 1 \in Nat
    BY DrawnIs
  <2>2. (k - 1) % u.cols \in Nat /\ (k - 1) \div u.cols \in Nat
    BY <2>1, Divided
  <2> QED
    BY <2>1, <2>2, CharIs, PushAgain
<1>3. after = Eq(after)
  <2>1. PICK g : Taking(N, V, t, F, g)
    <3> HIDE DEF V, Op
    <3> QED
      BY <1>1, <1>2, Loop
  <2>2. ASSUME NEW k \in 0 .. N, k # 0 PROVE g[k] = Op(g[k - 1], k)
    <3>1. k \in 1 .. N /\ k - 1 \in 0 .. N
      BY <2>2
    <3>2. g[k - 1] \in V /\ g[k] = F[k][g[k - 1]]
      BY <2>1, <3>1 DEF Taking
    <3> HIDE DEF V, Op
    <3> QED
      BY <3>1, <3>2
  <2>3. g = Eq(g)
    <3> HIDE DEF V, Op
    <3> QED
      BY <2>1, <2>2 DEF Taking
  <2> HIDE DEF Eq
  <2> QED
    BY <2>3
<1>4. after[N] \in V
  <2> DEFINE S == [k \in 0 .. N |-> V]
  <2> HIDE DEF after, V, Op
  <2>1. after[0] \in S[0]
    BY <1>1, <1>3
  <2>2. \A k \in 1 .. N : after[k - 1] \in S[k - 1] => after[k] \in S[k]
    BY <1>2, <1>3
  <2>3. \A k \in 0 .. N : after[k] \in S[k]
    <3> HIDE DEF S
    <3> QED
      BY <2>1, <2>2, Stays
  <2> QED
    BY <2>3
<1>5. clear(t, FALSE) = after[N] /\ clear(t, TRUE) = [after[N] EXCEPT !.cursor_x = 0, !.cursor_y = 0]
  BY <1>00, <1>1 DEF clear, Turns
<1> HIDE DEF after
<1> QED
  BY <1>4, <1>5

----------------------------------------------------------------------------
(* The cursor. *)

(* The contexts that writing in the screen of t may leave: the row may lie *)
(* below the screen if b allows it, and with scrolling on the column is at *)
(* most the one behind the last, or o says why not.                        *)
Placed(u, b) == u.cursor_y < u.rows \/ (u.cursor_y < u.cols /\ b)
Typed(t, r, b, o) ==
  {u \in Context(t.cols, t.rows) :
     /\ OnePer(u, r) /\ Keeps(t, u) /\ Placed(u, b)
     /\ u.scroll_enabled => u.cursor_x <= u.cols \/ o}

(* What a new position leaves. *)
At(u, x, y) == [u EXCEPT !.cursor_x = x, !.cursor_y = y]
Positioned(u, v, x, y, n, m) ==
  /\ v \in Context(n, m) /\ Keeps(u, v) /\ v.cursor_x = x /\ v.cursor_y = y
  /\ v.queue = u.queue /\ v.map = u.map /\ v.cols = n /\ v.rows = m
LEMMA AtIs ==
  ASSUME NEW n \in Nat, NEW m \in Nat, NEW u \in Context(n, m), NEW x \in Nat, NEW y \in Nat
  PROVE  Positioned(u, At(u, x, y), x, y, n, m)
BY DEF Positioned, Context, Keeps, Holds, SameColours, SameScene, At

LEMMA PositionedSound ==
  ASSUME NEW n \in Nat, NEW m \in Nat, NEW r, NEW u \in Context(n, m), OnePer(u, r),
         NEW v, NEW x, NEW y, Positioned(u, v, x, y, n, m)
  PROVE  OnePer(v, r)
BY DEF Positioned, Context, OnePer, Cells

LEMMA KeepsAgain ==
  ASSUME NEW t, NEW u, NEW v, Keeps(t, u), Keeps(u, v)
  PROVE  Keeps(t, v)
BY DEF Keeps, Holds, SameColours, SameScene

LEMMA TypedIs ==
  ASSUME NEW n \in Nat, NEW m \in Nat, NEW r, NEW b, NEW o, NEW t \in Context(n, m), NEW u \in Typed(t, r, b, o)
  PROVE  /\ u \in Context(n, m) /\ OnePer(u, r) /\ Keeps(t, u) /\ Placed(u, b)
         /\ u.scroll_enabled => u.cursor_x <= n \/ o
         /\ u.cols = n /\ u.rows = m
         /\ u.cursor_x \in Nat /\ u.cursor_y \in Nat /\ u.scroll_enabled \in BOOLEAN
BY DEF Typed, Context

LEMMA TypedIf ==
  ASSUME NEW n \in Nat, NEW m \in Nat, NEW r, NEW b, NEW o, NEW t \in Context(n, m),
         NEW u \in Context(n, m), OnePer(u, r), Keeps(t, u), Placed(u, b),
         u.scroll_enabled => u.cursor_x <= n \/ o
  PROVE  u \in Typed(t, r, b, o)
BY DEF Typed, Context

(* The next row, in which the first column is the next. *)
NextIs(u, v, r, b, o) == v \in Typed(u, r, b, o) /\ v.cursor_x = 0
LEMMA NextRowIs ==
  ASSUME NEW n \in Nat \ {0}, NEW m \in Nat \ {0}, NEW r, NEW b, NEW o, NEW u \in Context(n, m), OnePer(u, r),
         u.bottom \in 1 .. m, u.bottom < m => b, Placed(u, b)
  PROVE  NextIs(u, NextRow(u), r, b, o)
<1>0. /\ n \in Nat /\ m \in Nat /\ u.cols = n /\ u.rows = m /\ u.cursor_y \in Nat /\ 0 \in Nat
      /\ u.cursor_y < m \/ (u.cursor_y < n /\ b)
  BY DEF Context, Placed
<1>1. PICK y \in Nat : y = u.cursor_y + 1
  BY <1>0
<1> DEFINE Within(k) == IF k >= n THEN n - 1 ELSE k
<1>2. CASE y = u.bottom
  <2> DEFINE v == At(u, 0, u.cursor_y)
             w == scroll(v)
             z == At(w, w.cursor_x, Within(w.cursor_y))
  <2>1. NextRow(u) = z
    <3>1. [u EXCEPT !.cursor_x = 0] = v
      BY DEF Context, At
    <3>2. NextRow(u) = [w EXCEPT !.cursor_y = IF @ >= n THEN n - 1 ELSE @]
      BY <1>0, <1>1, <1>2, <3>1 DEF NextRow
    <3>3. w \in Context(n, m)
      <4>1. Positioned(u, v, 0, u.cursor_y, n, m)
        BY <1>0, AtIs
      <4>2. v \in Context(n, m) /\ OnePer(v, r) /\ v.bottom \in 1 .. m
        BY <4>1, PositionedSound DEF Positioned, Keeps, Holds
      <4> HIDE DEF v
      <4> QED
        BY <4>2, ScrollDraws, DrawnIs
    <3> HIDE DEF w
    <3> QED
      BY <3>2, <3>3 DEF Context, At
  <2>2. Positioned(u, v, 0, u.cursor_y, n, m)
    BY <1>0, AtIs
  <2> HIDE DEF v
  <2>3. v \in Context(n, m) /\ OnePer(v, r) /\ v.bottom \in 1 .. m
    BY <2>2, PositionedSound DEF Positioned, Keeps, Holds
  <2>4. w \in Drawn(v, r)
    BY <2>3, ScrollDraws
  <2> HIDE DEF w
  <2>5. /\ w \in Context(n, m) /\ OnePer(w, r) /\ Keeps(v, w)
        /\ w.cursor_x = 0 /\ w.cursor_y = u.cursor_y
    BY <1>0, <2>2, <2>3, <2>4, DrawnIs DEF Drawn, SameCursor, Positioned
  <2>6. Within(w.cursor_y) \in Nat /\ w.cursor_x \in Nat /\ Within(w.cursor_y) < m
    BY <1>0, <1>1, <1>2, <2>5
  <2>7. Positioned(w, z, w.cursor_x, Within(w.cursor_y), n, m)
    BY <1>0, <2>5, <2>6, AtIs
  <2> HIDE DEF z, Within
  <2>8. OnePer(z, r) /\ Keeps(u, z)
    <3>1. Keeps(u, v) /\ Keeps(w, z)
      BY <2>2, <2>7 DEF Positioned
    <3> QED
      BY <1>0, <2>5, <2>7, <3>1, PositionedSound, KeepsAgain
  <2>9. z \in Context(n, m) /\ z.cursor_x = 0 /\ Placed(z, b)
    BY <1>0, <2>5, <2>6, <2>7 DEF Positioned, Placed
  <2> QED
    BY <1>0, <2>1, <2>8, <2>9, TypedIf DEF NextIs
<1>3. CASE y # u.bottom
  <2> DEFINE z == At(u, 0, Within(y))
  <2>1. NextRow(u) = z
    <3>1. NextRow(u) = [[u EXCEPT !.cursor_x = 0, !.cursor_y = y] EXCEPT !.cursor_y = IF @ >= n THEN n - 1 ELSE @]
      BY <1>0, <1>1, <1>3 DEF NextRow
    <3> QED
      BY <1>0, <3>1 DEF Context, At
  <2>2. /\ Within(y) \in Nat
        /\ Within(y) < m \/ (Within(y) < n /\ b)
    BY <1>0, <1>1, <1>3
  <2>3. Positioned(u, z, 0, Within(y), n, m)
    BY <1>0, <2>2, AtIs
  <2> HIDE DEF z, Within
  <2>4. OnePer(z, r)
    BY <1>0, <2>3, PositionedSound
  <2>5. z \in Context(n, m) /\ Keeps(u, z) /\ z.cursor_x = 0 /\ Placed(z, b)
    BY <1>0, <2>2, <2>3 DEF Positioned, Placed
  <2> QED
    BY <1>0, <2>1, <2>4, <2>5, TypedIf DEF NextIs
<1> QED
  BY <1>2, <1>3

(* A character, in the same row or the next. *)
Placeable(t, r, b, n, m) ==
  /\ t \in Context(n, m) /\ OnePer(t, r) /\ Placed(t, b)
  /\ t.bottom \in 1 .. m /\ (t.bottom < m => b)
LEMMA RawPutchar ==
  ASSUME NEW n \in Nat \ {0}, NEW m \in Nat \ {0}, NEW r, NEW b, NEW o, NEW u, Placeable(u, r, b, n, m),
         u.scroll_enabled => u.cursor_x <= n \/ o, NEW code \in Int
  PROVE  /\ raw_putchar(u, code) \in Typed(u, r, b, o)
         /\ u.cursor_x < n => raw_putchar(u, code).cursor_x = u.cursor_x + 1
<1>0. /\ n \in Nat /\ m \in Nat /\ u.cols = n /\ u.rows = m /\ u.cursor_y \in Nat /\ u.cursor_x \in Nat
      /\ u \in Context(n, m) /\ OnePer(u, r) /\ Placed(u, b) /\ u.scroll_enabled \in BOOLEAN
      /\ u.bottom \in 1 .. m
  BY DEF Context, Placeable
<1>1. PICK at : at = IF Wraps(u) THEN NextRow(u) ELSE u
  OBVIOUS
<1>2. /\ at \in Typed(u, r, b, o)
      /\ at.scroll_enabled => at.cursor_x < n
      /\ u.cursor_x < n => at.cursor_x = u.cursor_x
  <2>1. CASE Wraps(u)
    <3>1. NextIs(u, at, r, b, o)
      BY <1>0, <1>1, <2>1, NextRowIs DEF Placeable
    <3>2. ~(u.cursor_x < n)
      BY <1>0, <2>1 DEF Wraps
    <3> QED
      BY <1>0, <3>1, <3>2 DEF NextIs
  <2>2. CASE ~Wraps(u)
    <3>1. at = u
      BY <1>1, <2>2
    <3>2. u \in Typed(u, r, b, o)
      <4>1. Keeps(u, u)
        BY DEF Keeps, Holds, SameColours, SameScene
      <4> QED
        BY <1>0, <4>1, TypedIf
    <3>3. u.scroll_enabled => u.cursor_x < n
      BY <1>0, <2>2 DEF Wraps
    <3> QED
      BY <3>1, <3>2, <3>3
  <2> QED
    BY <2>1, <2>2
<1>3. /\ at \in Context(n, m) /\ OnePer(at, r) /\ Keeps(u, at) /\ Placed(at, b)
      /\ at.cursor_x \in Nat /\ at.cursor_y \in Nat
  BY <1>0, <1>2, TypedIs
<1>4. PICK p : p = push_to_queue(at, Char(at, code), at.cursor_x, at.cursor_y)
  OBVIOUS
<1>5. p \in Drawn(at, r)
  BY <1>0, <1>3, <1>4, CharIs, Push
<1>6. /\ p \in Context(n, m) /\ OnePer(p, r) /\ Keeps(at, p)
      /\ p.cursor_x = at.cursor_x /\ p.cursor_y = at.cursor_y
  BY <1>0, <1>3, <1>5, DrawnIs DEF Drawn, SameCursor
<1> DEFINE v == At(p, p.cursor_x + 1, p.cursor_y)
<1>7. raw_putchar(u, code) = v
  <2>1. raw_putchar(u, code) = [p EXCEPT !.cursor_x = @ + 1]
    BY <1>1, <1>4 DEF raw_putchar
  <2> QED
    BY <1>6, <2>1 DEF Context, At
<1>8. Positioned(p, v, p.cursor_x + 1, p.cursor_y, n, m)
  <2>1. p.cursor_x + 1 \in Nat /\ p.cursor_y \in Nat
    BY <1>3, <1>6
  <2> QED
    BY <1>0, <1>6, <2>1, AtIs
<1> HIDE DEF v
<1>9. OnePer(v, r) /\ Keeps(u, v)
  <2>1. Keeps(p, v)
    BY <1>8 DEF Positioned
  <2> QED
    BY <1>0, <1>3, <1>6, <1>8, <2>1, PositionedSound, KeepsAgain
<1>10. v \in Context(n, m) /\ Placed(v, b) /\ v.cursor_x = at.cursor_x + 1
  <2>1. at.cursor_y < m \/ (at.cursor_y < n /\ b)
    BY <1>3 DEF Placed, Context
  <2> QED
    BY <1>6, <1>8, <2>1 DEF Positioned, Placed
<1>11. v.scroll_enabled => v.cursor_x <= n \/ o
  <2>1. v.scroll_enabled = at.scroll_enabled
    BY <1>3, <1>9 DEF Keeps, Holds
  <2> QED
    BY <1>0, <1>2, <1>3, <1>10, <2>1
<1>12. v \in Typed(u, r, b, o)
  BY <1>0, <1>9, <1>10, <1>11, TypedIf
<1> QED
  BY <1>2, <1>7, <1>10, <1>12

LEMMA RawPutcharAgain ==
  ASSUME NEW n \in Nat \ {0}, NEW m \in Nat \ {0}, NEW r, NEW b, NEW o, NEW t, Placeable(t, r, b, n, m),
         NEW u \in Typed(t, r, b, o), NEW code \in Int
  PROVE  /\ raw_putchar(u, code) \in Typed(t, r, b, o)
         /\ u.cursor_x < n => raw_putchar(u, code).cursor_x = u.cursor_x + 1
<1>1. /\ n \in Nat /\ m \in Nat /\ t \in Context(n, m) /\ t.bottom \in 1 .. m /\ (t.bottom < m => b)
      /\ t.cols = n /\ t.rows = m
  BY DEF Placeable, Context
<1>2. /\ u \in Context(n, m) /\ OnePer(u, r) /\ Keeps(t, u) /\ Placed(u, b)
      /\ u.scroll_enabled => u.cursor_x <= n \/ o
  BY <1>1, TypedIs
<1>3. Placeable(u, r, b, n, m)
  BY <1>1, <1>2 DEF Placeable, Keeps, Holds
<1>4. /\ raw_putchar(u, code) \in Typed(u, r, b, o)
      /\ u.cursor_x < n => raw_putchar(u, code).cursor_x = u.cursor_x + 1
  BY <1>2, <1>3, RawPutchar
<1>5. raw_putchar(u, code) \in Typed(t, r, b, o)
  <2>1. PICK v : v = raw_putchar(u, code)
    OBVIOUS
  <2>2. /\ v \in Context(n, m) /\ OnePer(v, r) /\ Keeps(u, v) /\ Placed(v, b)
        /\ v.scroll_enabled => v.cursor_x <= n \/ o
    BY <1>1, <1>2, <1>4, <2>1, TypedIs
  <2>3. Keeps(t, v)
    BY <1>2, <2>2, KeepsAgain
  <2> QED
    BY <1>1, <2>1, <2>2, <2>3, TypedIf
<1> QED
  BY <1>4, <1>5

(* A position on the screen. *)
LEMMA ClampIs ==
  ASSUME NEW x \in Int, NEW n \in Nat \ {0}
  PROVE  Clamp(x, n) \in 0 .. n - 1
BY DEF Clamp

LEMMA SetCursor ==
  ASSUME NEW n \in Nat \ {0}, NEW m \in Nat \ {0}, NEW r, NEW b, NEW o, NEW u \in Context(n, m), OnePer(u, r),
         NEW x \in Int, NEW y \in Int
  PROVE  /\ set_cursor_pos(u, x, y) \in Typed(u, r, b, o)
         /\ set_cursor_pos(u, x, y).cursor_x = Clamp(x, n)
         /\ set_cursor_pos(u, x, y).cursor_y = Clamp(y, m)
<1>1. n \in Nat /\ m \in Nat /\ u.cols = n /\ u.rows = m
  BY DEF Context
<1>2. PICK i \in 0 .. n - 1, j \in 0 .. m - 1 : i = Clamp(x, n) /\ j = Clamp(y, m)
  BY ClampIs
<1> DEFINE v == At(u, i, j)
<1>3. set_cursor_pos(u, x, y) = v
  BY <1>1, <1>2 DEF set_cursor_pos, At
<1>4. Positioned(u, v, i, j, n, m)
  <2>1. i \in Nat /\ j \in Nat
    OBVIOUS
  <2> QED
    BY <1>1, <2>1, AtIs
<1> HIDE DEF v
<1>5. OnePer(v, r)
  BY <1>1, <1>4, PositionedSound
<1>6. v \in Context(n, m) /\ Keeps(u, v) /\ v.cursor_x = i /\ v.cursor_y = j /\ Placed(v, b)
  BY <1>4 DEF Positioned, Placed
<1>7. v \in Typed(u, r, b, o)
  BY <1>1, <1>5, <1>6, TypedIf
<1> QED
  BY <1>2, <1>3, <1>6, <1>7

LEMMA XYIs ==
  ASSUME NEW n \in Nat \ {0}, NEW m \in Nat \ {0}, NEW u \in Context(n, m)
  PROVE  X(u) \in 0 .. n - 1 /\ Y(u) \in 0 .. m - 1
<1>1. u.cols = n /\ u.rows = m /\ u.cursor_x \in Int /\ u.cursor_y \in Int
  BY DEF Context
<1> QED
  BY <1>1, ClampIs DEF X, Y

LEMMA MoveDraws ==
  ASSUME NEW n \in Nat \ {0}, NEW m \in Nat, NEW r, NEW u \in Context(n, m), OnePer(u, r),
         NEW new_x \in Nat, NEW new_y \in Nat, NEW old_x \in Nat, NEW old_y \in Nat
  PROVE  move_character(u, new_x, new_y, old_x, old_y) \in Drawn(u, r)
<1>1. n \in Nat /\ u.cols = n /\ u.rows = m /\ u \in Drawn(u, r)
  BY Itself
<1>2. CASE old_x < n /\ old_y < m
  <2>1. old_x + old_y * n \in 0 .. m * n - 1
    BY <1>1, <1>2, CellIs
  <2>2. Content(u, old_x + old_y * n) \in Cell
    BY <1>1, <2>1, ContentIs
  <2>3. push_to_queue(u, Content(u, old_x + old_y * n), new_x, new_y) \in Drawn(u, r)
    BY <1>1, <2>2, Push
  <2> QED
    BY <1>1, <2>3 DEF move_character
<1> QED
  BY <1>1, <1>2 DEF move_character

LEMMA DrawnTyped ==
  ASSUME NEW n \in Nat, NEW m \in Nat, NEW r, NEW b, NEW o, NEW t \in Context(n, m),
         NEW u \in Typed(t, r, b, o), NEW v \in Drawn(u, r)
  PROVE  v \in Typed(t, r, b, o)
<1>1. /\ u \in Context(n, m) /\ Keeps(t, u) /\ Placed(u, b)
      /\ u.scroll_enabled => u.cursor_x <= n \/ o
  BY TypedIs
<1>2. v \in Context(n, m) /\ OnePer(v, r) /\ Keeps(u, v) /\ SameCursor(u, v)
  BY <1>1, DrawnIs DEF Drawn
<1>3. Keeps(t, v)
  BY <1>1, <1>2, KeepsAgain
<1>4. Placed(v, b) /\ (v.scroll_enabled => v.cursor_x <= n \/ o)
  BY <1>1, <1>2 DEF Placed, SameCursor, Keeps, Holds
<1> QED
  BY <1>2, <1>3, <1>4, TypedIf

LEMMA TypedAgain ==
  ASSUME NEW n \in Nat, NEW m \in Nat, NEW r, NEW b, NEW o, NEW t \in Context(n, m), NEW u \in Context(n, m),
         Keeps(t, u), NEW v \in Typed(u, r, b, o)
  PROVE  v \in Typed(t, r, b, o)
<1>1. /\ v \in Context(n, m) /\ OnePer(v, r) /\ Keeps(u, v) /\ Placed(v, b)
      /\ v.scroll_enabled => v.cursor_x <= n \/ o
  BY TypedIs
<1>2. Keeps(t, v)
  BY <1>1, KeepsAgain
<1> QED
  BY <1>1, <1>2, TypedIf

(* A context is what is typed on it before the first character. *)
Ready(t, r, b, o, n, m) == Placeable(t, r, b, n, m) /\ (t.scroll_enabled => t.cursor_x <= n \/ o)
LEMMA ReadyIs ==
  ASSUME NEW n \in Nat \ {0}, NEW m \in Nat \ {0}, NEW r, NEW b, NEW o, NEW t, Ready(t, r, b, o, n, m)
  PROVE  /\ t \in Typed(t, r, b, o) /\ t \in Context(n, m) /\ OnePer(t, r) /\ t.cols = n /\ t.rows = m
         /\ n \in Nat /\ m \in Nat /\ t.bottom \in 1 .. m
<1>1. /\ n \in Nat /\ m \in Nat /\ t \in Context(n, m) /\ OnePer(t, r) /\ Placed(t, b)
      /\ t.bottom \in 1 .. m /\ (t.scroll_enabled => t.cursor_x <= n \/ o)
  BY DEF Ready, Placeable
<1>2. Keeps(t, t) /\ t.cols = n /\ t.rows = m
  BY <1>1 DEF Keeps, Holds, SameColours, SameScene, Context
<1> QED
  BY <1>1, <1>2, TypedIf

----------------------------------------------------------------------------
(* Glyphs and blanks. *)

LEMMA GlyphNumber ==
  ASSUME NEW code_point
  PROVE  unicode_to_cp437(code_point) \in Int
<1> DEFINE P(g) == Low[g] = code_point
           Q(g) == High[g - 126] = code_point
<1>1. (\E g \in 1 .. 31 : P(g)) => (CHOOSE g \in 1 .. 31 : P(g)) \in Int
  <2> HIDE DEF P
  <2>1. (\E g \in 1 .. 31 : P(g)) => (CHOOSE g \in 1 .. 31 : P(g)) \in 1 .. 31
    OBVIOUS
  <2> QED
    BY <2>1
<1>2. (\E g \in 127 .. 254 : Q(g)) => (CHOOSE g \in 127 .. 254 : Q(g)) \in Int
  <2> HIDE DEF Q
  <2>1. (\E g \in 127 .. 254 : Q(g)) => (CHOOSE g \in 127 .. 254 : Q(g)) \in 127 .. 254
    OBVIOUS
  <2> QED
    BY <2>1
<1> QED
  BY <1>1, <1>2 DEF unicode_to_cp437

LEMMA WidthIs ==
  ASSUME NEW ucs
  PROVE  mk_wcwidth(ucs) \in 0 .. 2
BY DEF mk_wcwidth

LEMMA GlyphTyped ==
  ASSUME NEW n \in Nat \ {0}, NEW m \in Nat \ {0}, NEW r, NEW b, NEW o, NEW t, Ready(t, r, b, o, n, m),
         NEW code_point
  PROVE  Glyph(t, code_point) \in Typed(t, r, b, o)
<1>00. PICK N \in Nat : N = IF mk_wcwidth(code_point) > 0 THEN mk_wcwidth(code_point) ELSE 0
  <2>1. (IF mk_wcwidth(code_point) > 0 THEN mk_wcwidth(code_point) ELSE 0) \in Nat
    BY WidthIs
  <2> QED
    BY <2>1
<1> DEFINE V == Typed(t, r, b, o)
           Op(u, k) == raw_putchar(u, IF k = 1 THEN 254 ELSE Blank)
           Eq(f) == [k \in 0 .. N |-> IF k = 0 THEN t ELSE Op(f[k - 1], k)]
           after == CHOOSE f : f = Eq(f)
           F == [k \in 1 .. N |-> [u \in V |-> Op(u, k)]]
<1>1. t \in V /\ Placeable(t, r, b, n, m)
  BY ReadyIs DEF Ready
<1>2. \A k \in 1 .. N : \A u \in V : Op(u, k) \in V
  <2> SUFFICES ASSUME NEW k \in 1 .. N, NEW u \in V PROVE Op(u, k) \in V
    OBVIOUS
  <2>1. (IF k = 1 THEN 254 ELSE Blank) \in Int
    BY DEF Blank
  <2> QED
    BY <1>1, <2>1, RawPutcharAgain
<1>3. after = Eq(after)
  <2>1. PICK g : Taking(N, V, t, F, g)
    <3> HIDE DEF V, Op
    <3> QED
      BY <1>1, <1>2, Loop
  <2>2. ASSUME NEW k \in 0 .. N, k # 0 PROVE g[k] = Op(g[k - 1], k)
    <3>1. k \in 1 .. N /\ k - 1 \in 0 .. N
      BY <2>2
    <3>2. g[k - 1] \in V /\ g[k] = F[k][g[k - 1]]
      BY <2>1, <3>1 DEF Taking
    <3> HIDE DEF V, Op
    <3> QED
      BY <3>1, <3>2
  <2>3. g = Eq(g)
    <3> HIDE DEF V, Op
    <3> QED
      BY <2>1, <2>2 DEF Taking
  <2> HIDE DEF Eq
  <2> QED
    BY <2>3
<1>4. after[N] \in V
  <2> DEFINE S == [k \in 0 .. N |-> V]
  <2> HIDE DEF after, V, Op
  <2>1. after[0] \in S[0]
    BY <1>1, <1>3
  <2>2. \A k \in 1 .. N : after[k - 1] \in S[k - 1] => after[k] \in S[k]
    BY <1>2, <1>3
  <2>3. \A k \in 0 .. N : after[k] \in S[k]
    <3> HIDE DEF S
    <3> QED
      BY <2>1, <2>2, Stays
  <2> QED
    BY <2>3
<1>5. CASE unicode_to_cp437(code_point) # -1
  <2>1. raw_putchar(t, unicode_to_cp437(code_point)) \in V
    BY <1>1, GlyphNumber, RawPutcharAgain
  <2> QED
    BY <1>5, <2>1 DEF Glyph
<1>6. CASE unicode_to_cp437(code_point) = -1
  <2>1. Glyph(t, code_point) = after[N]
    BY <1>00, <1>6 DEF Glyph, Turns
  <2> HIDE DEF after, V
  <2> QED
    BY <1>4, <2>1 DEF V
<1> QED
  BY <1>5, <1>6

(* Blanks: as long as they fit the row, each moves the cursor by a column. *)
LEMMA SpacesTyped ==
  ASSUME NEW n \in Nat \ {0}, NEW m \in Nat \ {0}, NEW r, NEW b, NEW o, NEW t, Ready(t, r, b, o, n, m),
         NEW s \in Int
  PROVE  /\ Spaces(t, s) \in Typed(t, r, b, o)
         /\ t.cursor_x = 0 /\ s \in 0 .. n => Spaces(t, s).cursor_x = s
<1>00. PICK N \in Nat : N = IF s > 0 THEN s ELSE 0
  <2>1. (IF s > 0 THEN s ELSE 0) \in Nat
    OBVIOUS
  <2> QED
    BY <2>1
<1> DEFINE V == Typed(t, r, b, o)
           Op(u, k) == raw_putchar(u, Blank)
           Eq(f) == [k \in 0 .. N |-> IF k = 0 THEN t ELSE Op(f[k - 1], k)]
           after == CHOOSE f : f = Eq(f)
           F == [k \in 1 .. N |-> [u \in V |-> Op(u, k)]]
<1>1. t \in V /\ Placeable(t, r, b, n, m)
  BY ReadyIs DEF Ready
<1>2. \A k \in 1 .. N : \A u \in V :
        Op(u, k) \in V /\ (u.cursor_x < n => Op(u, k).cursor_x = u.cursor_x + 1)
  <2>1. Blank \in Int
    BY DEF Blank
  <2> QED
    BY <1>1, <2>1, RawPutcharAgain
<1>3. after = Eq(after)
  <2>1. PICK g : Taking(N, V, t, F, g)
    <3> HIDE DEF V, Op
    <3> QED
      BY <1>1, <1>2, Loop
  <2>2. ASSUME NEW k \in 0 .. N, k # 0 PROVE g[k] = Op(g[k - 1], k)
    <3>1. k \in 1 .. N /\ k - 1 \in 0 .. N
      BY <2>2
    <3>2. g[k - 1] \in V /\ g[k] = F[k][g[k - 1]]
      BY <2>1, <3>1 DEF Taking
    <3> HIDE DEF V, Op
    <3> QED
      BY <3>1, <3>2
  <2>3. g = Eq(g)
    <3> HIDE DEF V, Op
    <3> QED
      BY <2>1, <2>2 DEF Taking
  <2> HIDE DEF Eq
  <2> QED
    BY <2>3
<1>4. after[N] \in V
  <2> DEFINE S == [k \in 0 .. N |-> V]
  <2> HIDE DEF after, V, Op
  <2>1. after[0] \in S[0]
    BY <1>1, <1>3
  <2>2. \A k \in 1 .. N : after[k - 1] \in S[k - 1] => after[k] \in S[k]
    BY <1>2, <1>3
  <2>3. \A k \in 0 .. N : after[k] \in S[k]
    <3> HIDE DEF S
    <3> QED
      BY <2>1, <2>2, Stays
  <2> QED
    BY <2>3
<1>5. Spaces(t, s) = after[N]
  BY <1>00 DEF Spaces, Turns
<1>6. ASSUME t.cursor_x = 0, s \in 0 .. n PROVE after[N].cursor_x = s
  <2> DEFINE S == [k \in 0 .. N |-> {u \in V : u.cursor_x = k}]
  <2> HIDE DEF after, V, Op
  <2>1. after[0] \in S[0]
    BY <1>1, <1>3, <1>6
  <2>2. \A k \in 1 .. N : after[k - 1] \in S[k - 1] => after[k] \in S[k]
    <3> SUFFICES ASSUME NEW k \in 1 .. N, after[k - 1] \in V, after[k - 1].cursor_x = k - 1
                 PROVE  after[k] \in V /\ after[k].cursor_x = k
      OBVIOUS
    <3>1. after[k] = Op(after[k - 1], k)
      BY <1>3
    <3>2. N <= n
      BY <1>00, <1>6
    <3>3. k - 1 < n /\ (k - 1) + 1 = k
      BY <3>2
    <3> QED
      BY <1>2, <3>1, <3>3
  <2>3. \A k \in 0 .. N : after[k] \in S[k]
    <3> HIDE DEF S
    <3> QED
      BY <2>1, <2>2, Stays
  <2>4. N = s
    BY <1>00, <1>6
  <2>5. after[N] \in S[N]
    <3> HIDE DEF S
    <3> QED
      BY <2>3
  <2> QED
    BY <2>4, <2>5
<1> HIDE DEF after
<1> QED
  BY <1>4, <1>5, <1>6

----------------------------------------------------------------------------
(* Rows and characters that move. *)

LEMMA ScrolledDraws ==
  ASSUME NEW n \in Nat \ {0}, NEW m \in Nat, NEW r, NEW t \in Context(n, m), OnePer(t, r),
         t.bottom \in 1 .. m, NEW s \in Nat
  PROVE  Scrolled(t, s) \in Drawn(t, r)
<1>0. t.cols = n /\ t.rows = m /\ t \in Drawn(t, r)
  BY Itself
<1>00. PICK N \in Nat : N = IF Least(s, t.rows) > 0 THEN Least(s, t.rows) ELSE 0
  <2>1. (IF Least(s, t.rows) > 0 THEN Least(s, t.rows) ELSE 0) \in Nat
    BY <1>0 DEF Least
  <2> QED
    BY <2>1
<1> DEFINE V == Drawn(t, r)
           Op(u, k) == scroll(u)
           Eq(f) == [k \in 0 .. N |-> IF k = 0 THEN t ELSE Op(f[k - 1], k)]
           after == CHOOSE f : f = Eq(f)
           F == [k \in 1 .. N |-> [u \in V |-> Op(u, k)]]
<1>1. t \in V
  BY <1>0
<1>2. \A k \in 1 .. N : \A u \in V : Op(u, k) \in V
  <2> SUFFICES ASSUME NEW u \in V PROVE scroll(u) \in V
    OBVIOUS
  <2>1. u \in Context(n, m) /\ OnePer(u, r)
    BY DrawnIs
  <2>2. u.bottom \in 1 .. m
    BY DEF Drawn, Keeps, Holds
  <2>3. scroll(u) \in Drawn(u, r)
    BY <2>1, <2>2, ScrollDraws
  <2> QED
    BY <2>3, DrawnAgain
<1>3. after = Eq(after)
  <2>1. PICK g : Taking(N, V, t, F, g)
    <3> HIDE DEF V, Op
    <3> QED
      BY <1>1, <1>2, Loop
  <2>2. ASSUME NEW k \in 0 .. N, k # 0 PROVE g[k] = Op(g[k - 1], k)
    <3>1. k \in 1 .. N /\ k - 1 \in 0 .. N
      BY <2>2
    <3>2. g[k - 1] \in V /\ g[k] = F[k][g[k - 1]]
      BY <2>1, <3>1 DEF Taking
    <3> HIDE DEF V, Op
    <3> QED
      BY <3>1, <3>2
  <2>3. g = Eq(g)
    <3> HIDE DEF V, Op
    <3> QED
      BY <2>1, <2>2 DEF Taking
  <2> HIDE DEF Eq
  <2> QED
    BY <2>3
<1>4. after[N] \in V
  <2> DEFINE S == [k \in 0 .. N |-> V]
  <2> HIDE DEF after, V, Op
  <2>1. after[0] \in S[0]
    BY <1>1, <1>3
  <2>2. \A k \in 1 .. N : after[k - 1] \in S[k - 1] => after[k] \in S[k]
    BY <1>2, <1>3
  <2>3. \A k \in 0 .. N : after[k] \in S[k]
    <3> HIDE DEF S
    <3> QED
      BY <2>1, <2>2, Stays
  <2> QED
    BY <2>3
<1>5. Scrolled(t, s) = after[N]
  BY <1>00 DEF Scrolled, Turns
<1> HIDE DEF after
<1> QED
  BY <1>4, <1>5

LEMMA RevscrolledDraws ==
  ASSUME NEW n \in Nat \ {0}, NEW m \in Nat, NEW r, NEW t \in Context(n, m), OnePer(t, r),
         t.bottom \in 1 .. m, NEW s \in Nat
  PROVE  Revscrolled(t, s) \in Drawn(t, r)
<1>0. t.cols = n /\ t.rows = m /\ t \in Drawn(t, r)
  BY Itself
<1>00. PICK N \in Nat : N = IF Least(s, t.rows) > 0 THEN Least(s, t.rows) ELSE 0
  <2>1. (IF Least(s, t.rows) > 0 THEN Least(s, t.rows) ELSE 0) \in Nat
    BY <1>0 DEF Least
  <2> QED
    BY <2>1
<1> DEFINE V == Drawn(t, r)
           Op(u, k) == revscroll(u)
           Eq(f) == [k \in 0 .. N |-> IF k = 0 THEN t ELSE Op(f[k - 1], k)]
           after == CHOOSE f : f = Eq(f)
           F == [k \in 1 .. N |-> [u \in V |-> Op(u, k)]]
<1>1. t \in V
  BY <1>0
<1>2. \A k \in 1 .. N : \A u \in V : Op(u, k) \in V
  <2> SUFFICES ASSUME NEW u \in V PROVE revscroll(u) \in V
    OBVIOUS
  <2>1. u \in Context(n, m) /\ OnePer(u, r)
    BY DrawnIs
  <2>2. u.bottom \in 1 .. m
    BY DEF Drawn, Keeps, Holds
  <2>3. revscroll(u) \in Drawn(u, r)
    BY <2>1, <2>2, RevscrollDraws
  <2> QED
    BY <2>3, DrawnAgain
<1>3. after = Eq(after)
  <2>1. PICK g : Taking(N, V, t, F, g)
    <3> HIDE DEF V, Op
    <3> QED
      BY <1>1, <1>2, Loop
  <2>2. ASSUME NEW k \in 0 .. N, k # 0 PROVE g[k] = Op(g[k - 1], k)
    <3>1. k \in 1 .. N /\ k - 1 \in 0 .. N
      BY <2>2
    <3>2. g[k - 1] \in V /\ g[k] = F[k][g[k - 1]]
      BY <2>1, <3>1 DEF Taking
    <3> HIDE DEF V, Op
    <3> QED
      BY <3>1, <3>2
  <2>3. g = Eq(g)
    <3> HIDE DEF V, Op
    <3> QED
      BY <2>1, <2>2 DEF Taking
  <2> HIDE DEF Eq
  <2> QED
    BY <2>3
<1>4. after[N] \in V
  <2> DEFINE S == [k \in 0 .. N |-> V]
  <2> HIDE DEF after, V, Op
  <2>1. after[0] \in S[0]
    BY <1>1, <1>3
  <2>2. \A k \in 1 .. N : after[k - 1] \in S[k - 1] => after[k] \in S[k]
    BY <1>2, <1>3
  <2>3. \A k \in 0 .. N : after[k] \in S[k]
    <3> HIDE DEF S
    <3> QED
      BY <2>1, <2>2, Stays
  <2> QED
    BY <2>3
<1>5. Revscrolled(t, s) = after[N]
  BY <1>00 DEF Revscrolled, Turns
<1> HIDE DEF after
<1> QED
  BY <1>4, <1>5

(* Insert mode. *)
LEMMA InsertedDraws ==
  ASSUME NEW n \in Nat \ {0}, NEW m \in Nat \ {0}, NEW r, NEW t \in Context(n, m), OnePer(t, r)
  PROVE  Inserted(t) \in Drawn(t, r)
<1>0. t.cols = n /\ t.rows = m /\ t \in Drawn(t, r) /\ X(t) \in 0 .. n - 1 /\ Y(t) \in 0 .. m - 1
  BY Itself, XYIs
<1>00. PICK N \in 0 .. n : N = IF t.cols - X(t) > 0 THEN t.cols - X(t) ELSE 0
  <2>1. (IF t.cols - X(t) > 0 THEN t.cols - X(t) ELSE 0) \in 0 .. n
    BY <1>0
  <2> QED
    BY <2>1
<1> DEFINE V == Drawn(t, r)
           Op(u, k) == move_character(u, (u.cols - k) + 1, Y(t), u.cols - k, Y(t))
           Eq(f) == [k \in 0 .. N |-> IF k = 0 THEN t ELSE Op(f[k - 1], k)]
           after == CHOOSE f : f = Eq(f)
           F == [k \in 1 .. N |-> [u \in V |-> Op(u, k)]]
<1>1. t \in V
  BY <1>0
<1>2. \A k \in 1 .. N : \A u \in V : Op(u, k) \in V
  <2> SUFFICES ASSUME NEW k \in 1 .. N, NEW u \in V PROVE Op(u, k) \in V
    OBVIOUS
  <2>1. u \in Context(n, m) /\ OnePer(u, r) /\ u.cols = n
    BY DrawnIs
  <2>2. (u.cols - k) + 1 \in Nat /\ u.cols - k \in Nat /\ Y(t) \in Nat
    BY <1>0, <2>1
  <2>3. Op(u, k) \in Drawn(u, r)
    BY <2>1, <2>2, MoveDraws
  <2> HIDE DEF Op
  <2> QED
    BY <2>3, DrawnAgain
<1>3. after = Eq(after)
  <2>1. PICK g : Taking(N, V, t, F, g)
    <3> HIDE DEF V, Op
    <3> QED
      BY <1>1, <1>2, Loop, N \in Nat
  <2>2. ASSUME NEW k \in 0 .. N, k # 0 PROVE g[k] = Op(g[k - 1], k)
    <3>1. k \in 1 .. N /\ k - 1 \in 0 .. N
      BY <2>2
    <3>2. g[k - 1] \in V /\ g[k] = F[k][g[k - 1]]
      BY <2>1, <3>1 DEF Taking
    <3> HIDE DEF V, Op
    <3> QED
      BY <3>1, <3>2
  <2>3. g = Eq(g)
    <3> HIDE DEF V, Op
    <3> QED
      BY <2>1, <2>2 DEF Taking
  <2> HIDE DEF Eq
  <2> QED
    BY <2>3
<1>4. after[N] \in V
  <2> DEFINE S == [k \in 0 .. N |-> V]
  <2> HIDE DEF after, V, Op
  <2>1. after[0] \in S[0]
    BY <1>1, <1>3
  <2>2. \A k \in 1 .. N : after[k - 1] \in S[k - 1] => after[k] \in S[k]
    BY <1>2, <1>3
  <2>3. \A k \in 0 .. N : after[k] \in S[k]
    <3> HIDE DEF S
    <3> QED
      BY <2>1, <2>2, Stays, N \in Nat
  <2> QED
    BY <2>3
<1>5. Inserted(t) = IF t.insert_mode THEN after[N] ELSE t
  BY <1>00 DEF Inserted, Turns
<1> HIDE DEF after
<1> QED
  BY <1>0, <1>4, <1>5

(* Inserted blanks: what is left on the screen before the cursor is put    *)
(* back.                                                                   *)
LEMMA BlanksTyped ==
  ASSUME NEW n \in Nat \ {0}, NEW m \in Nat \ {0}, NEW r, NEW b, NEW o, ctx \in Context(n, m),
         Ready(Still, r, b, o, n, m), Value(0) \in Nat, InsertBlanks
  PROVE  \E t \in Typed(Still, r, b, o) : Finish({64}, Back(t))
<1>0. /\ ctx.cols = n /\ Still.cols = n /\ X(ctx) \in 0 .. n - 1 /\ Y(ctx) \in 0 .. m - 1
      /\ Still \in Context(n, m)
  <2>1. ctx.cols = n
    BY DEF Context
  <2> QED
    BY <2>1, XYIs, ReadyIs
<1>00. PICK N \in Nat : N = (IF ctx.cols - X(ctx) > 0 THEN ctx.cols - X(ctx) ELSE 0) /\ N <= n
  <2>1. (IF ctx.cols - X(ctx) > 0 THEN ctx.cols - X(ctx) ELSE 0) \in 0 .. n
    BY <1>0
  <2> QED
    BY <2>1
<1> DEFINE V == Typed(Still, r, b, o)
           Op(u, k) ==
             raw_putchar(set_cursor_pos(move_character(u, (u.cols - k) + Value(0), Y(ctx), u.cols - k, Y(ctx)),
                                        u.cols - k, Y(ctx)), Blank)
           Eq(f) == [k \in 0 .. N |-> IF k = 0 THEN Still ELSE Op(f[k - 1], k)]
           after == CHOOSE f : f = Eq(f)
           F == [k \in 1 .. N |-> [u \in V |-> Op(u, k)]]
<1>1. Still \in V
  BY ReadyIs
<1>2. \A k \in 1 .. N : \A u \in V : Op(u, k) \in V
  <2> SUFFICES ASSUME NEW k \in 1 .. N, NEW u \in V PROVE Op(u, k) \in V
    OBVIOUS
  <2>1. /\ u \in Context(n, m) /\ OnePer(u, r) /\ u.cols = n /\ Keeps(Still, u)
        /\ n \in Nat /\ m \in Nat
    BY <1>0, TypedIs
  <2>2. (u.cols - k) + Value(0) \in Nat /\ u.cols - k \in Nat /\ Y(ctx) \in Nat
    <3>1. u.cols - k \in Nat
      BY <1>00, <2>1
    <3> QED
      BY <1>0, <3>1
  <2>3. PICK p : p = move_character(u, (u.cols - k) + Value(0), Y(ctx), u.cols - k, Y(ctx))
    OBVIOUS
  <2>4. p \in Drawn(u, r)
    BY <2>1, <2>2, <2>3, MoveDraws
  <2>5. p \in V
    BY <1>0, <2>1, <2>4, DrawnTyped
  <2>6. p \in Context(n, m) /\ OnePer(p, r) /\ Keeps(Still, p)
    BY <1>0, <2>1, <2>5, TypedIs
  <2>7. PICK q : q = set_cursor_pos(p, u.cols - k, Y(ctx))
    OBVIOUS
  <2>8. q \in Typed(p, r, b, o)
    BY <2>2, <2>6, <2>7, SetCursor
  <2>9. q \in V
    BY <1>0, <2>1, <2>6, <2>8, TypedAgain
  <2>10. raw_putchar(q, Blank) \in V
    BY <2>9, RawPutcharAgain DEF Blank, Ready
  <2> QED
    BY <2>3, <2>7, <2>10
<1>3. after = Eq(after)
  <2>1. PICK g : Taking(N, V, Still, F, g)
    <3> HIDE DEF V, Op
    <3> QED
      BY <1>1, <1>2, Loop
  <2>2. ASSUME NEW k \in 0 .. N, k # 0 PROVE g[k] = Op(g[k - 1], k)
    <3>1. k \in 1 .. N /\ k - 1 \in 0 .. N
      BY <2>2
    <3>2. g[k - 1] \in V /\ g[k] = F[k][g[k - 1]]
      BY <2>1, <3>1 DEF Taking
    <3> HIDE DEF V, Op
    <3> QED
      BY <3>1, <3>2
  <2>3. g = Eq(g)
    <3> HIDE DEF V, Op
    <3> QED
      BY <2>1, <2>2 DEF Taking
  <2> HIDE DEF Eq
  <2> QED
    BY <2>3
<1>4. after[N] \in V
  <2> DEFINE S == [k \in 0 .. N |-> V]
  <2> HIDE DEF after, V, Op
  <2>1. after[0] \in S[0]
    BY <1>1, <1>3
  <2>2. \A k \in 1 .. N : after[k - 1] \in S[k - 1] => after[k] \in S[k]
    BY <1>2, <1>3
  <2>3. \A k \in 0 .. N : after[k] \in S[k]
    <3> HIDE DEF S
    <3> QED
      BY <2>1, <2>2, Stays
  <2> QED
    BY <2>3
<1>5. Finish({64}, Back(after[N]))
  BY <1>00 DEF InsertBlanks, Turns
<1> HIDE DEF after
<1> QED
  BY <1>4, <1>5

(* Deleted characters: the rest of the row before blanks follow it. *)
LEMMA ShiftedDraws ==
  ASSUME NEW n \in Nat \ {0}, NEW m \in Nat \ {0}, NEW r, ctx \in Context(n, m), Still \in Context(n, m),
         OnePer(Still, r), Value(0) \in Nat, DeleteCharacters
  PROVE  \E t \in Drawn(Still, r) :
           Finish({80}, Back(Spaces(set_cursor_pos(t, ctx.cols - Value(0), Y(ctx)), Least(Value(0), ctx.cols))))
<1>0. /\ ctx.cols = n /\ Still.cols = n /\ X(ctx) \in 0 .. n - 1 /\ Y(ctx) \in 0 .. m - 1
      /\ Still \in Drawn(Still, r) /\ n \in Nat /\ m \in Nat
  <2>1. ctx.cols = n
    BY DEF Context
  <2> QED
    BY <2>1, XYIs, Itself
<1>00. PICK N \in Nat : N = IF ctx.cols - (X(ctx) + Value(0)) > 0 THEN ctx.cols - (X(ctx) + Value(0)) ELSE 0
  <2>1. (IF ctx.cols - (X(ctx) + Value(0)) > 0 THEN ctx.cols - (X(ctx) + Value(0)) ELSE 0) \in Nat
    BY <1>0
  <2> QED
    BY <2>1
<1> DEFINE V == Drawn(Still, r)
           Op(u, k) == move_character(u, X(ctx) + (k - 1), Y(ctx), X(ctx) + (k - 1) + Value(0), Y(ctx))
           Eq(f) == [k \in 0 .. N |-> IF k = 0 THEN Still ELSE Op(f[k - 1], k)]
           after == CHOOSE f : f = Eq(f)
           F == [k \in 1 .. N |-> [u \in V |-> Op(u, k)]]
<1>1. Still \in V
  BY <1>0
<1>2. \A k \in 1 .. N : \A u \in V : Op(u, k) \in V
  <2> SUFFICES ASSUME NEW k \in 1 .. N, NEW u \in V PROVE Op(u, k) \in V
    OBVIOUS
  <2>1. u \in Context(n, m) /\ OnePer(u, r)
    BY <1>0, DrawnIs
  <2>2. X(ctx) + (k - 1) \in Nat /\ X(ctx) + (k - 1) + Value(0) \in Nat /\ Y(ctx) \in Nat
    BY <1>0
  <2>3. Op(u, k) \in Drawn(u, r)
    BY <1>0, <2>1, <2>2, MoveDraws
  <2> HIDE DEF Op
  <2> QED
    BY <2>3, DrawnAgain
<1>3. after = Eq(after)
  <2>1. PICK g : Taking(N, V, Still, F, g)
    <3> HIDE DEF V, Op
    <3> QED
      BY <1>1, <1>2, Loop
  <2>2. ASSUME NEW k \in 0 .. N, k # 0 PROVE g[k] = Op(g[k - 1], k)
    <3>1. k \in 1 .. N /\ k - 1 \in 0 .. N
      BY <2>2
    <3>2. g[k - 1] \in V /\ g[k] = F[k][g[k - 1]]
      BY <2>1, <3>1 DEF Taking
    <3> HIDE DEF V, Op
    <3> QED
      BY <3>1, <3>2
  <2>3. g = Eq(g)
    <3> HIDE DEF V, Op
    <3> QED
      BY <2>1, <2>2 DEF Taking
  <2> HIDE DEF Eq
  <2> QED
    BY <2>3
<1>4. after[N] \in V
  <2> DEFINE S == [k \in 0 .. N |-> V]
  <2> HIDE DEF after, V, Op
  <2>1. after[0] \in S[0]
    BY <1>1, <1>3
  <2>2. \A k \in 1 .. N : after[k - 1] \in S[k - 1] => after[k] \in S[k]
    BY <1>2, <1>3
  <2>3. \A k \in 0 .. N : after[k] \in S[k]
    <3> HIDE DEF S
    <3> QED
      BY <2>1, <2>2, Stays
  <2> QED
    BY <2>3
<1>5. Finish({80}, Back(Spaces(set_cursor_pos(after[N], ctx.cols - Value(0), Y(ctx)), Least(Value(0), ctx.cols))))
  BY <1>00 DEF DeleteCharacters, Turns
<1> HIDE DEF after
<1> QED
  BY <1>4, <1>5

----------------------------------------------------------------------------
(* Showing what waits. *)

(* The contexts that a flush or a refresh of t may leave. *)
Redrawn(t, r) ==
  {u \in Context(t.cols, t.rows) : OnePer(u, r) /\ Holds(t, u) /\ SameCursor(t, u)}
LEMMA RedrawnIs ==
  ASSUME NEW n \in Nat, NEW m \in Nat, NEW r, NEW t \in Context(n, m), NEW u \in Redrawn(t, r)
  PROVE  u \in Context(n, m) /\ OnePer(u, r) /\ u.cols = n /\ u.rows = m /\ Holds(t, u) /\ SameCursor(t, u)
BY DEF Redrawn, Context
LEMMA HoldsAgain ==
  ASSUME NEW t, NEW u, NEW v, Holds(t, u), Holds(u, v)
  PROVE  Holds(t, v)
BY DEF Holds, SameColours

(* Characters on the frame buffer. *)
LEMMA ShownIs ==
  ASSUME NEW ch \in Cell
  PROVE  Shown(ch) \in Cell /\ Reversed(ch) \in Cell
<1>1. ch.c \in Int /\ ch.fg \in Colour /\ ch.bg \in Colour
  BY DEF Cell
<1>2. default_bg \in Colour
  BY DEF Colour, default_bg
<1> QED
  BY <1>1, <1>2 DEF Shown, Reversed, Cell

PlottedAs(u, v, n, m) == \E s \in [0 .. m * n - 1 -> Cell] : v = [u EXCEPT !.screen = s]
LEMMA Plotted ==
  ASSUME NEW n \in Nat, NEW m \in Nat, NEW u \in Context(n, m), NEW ch \in Cell, NEW x, NEW y
  PROVE  PlottedAs(u, plot_char(u, ch, x, y), n, m)
<1>1. Shown(ch) \in Cell
  BY ShownIs
<1>2. u.screen \in [0 .. m * n - 1 -> Cell]
  BY DEF Context
<1>3. CASE x >= u.cols \/ y >= u.rows
  <2>1. u = [u EXCEPT !.screen = u.screen]
    BY DEF Context
  <2> QED
    BY <1>2, <1>3, <2>1 DEF plot_char, PlottedAs
<1>4. CASE ~(x >= u.cols \/ y >= u.rows)
  <2>1. PICK s \in [0 .. m * n - 1 -> Cell] : s = [u.screen EXCEPT ![y * u.cols + x] = Shown(ch)]
    BY <1>1, <1>2
  <2>2. plot_char(u, ch, x, y) = [u EXCEPT !.screen = s]
    BY <1>4, <2>1 DEF plot_char
  <2> QED
    BY <2>1, <2>2 DEF PlottedAs
<1> QED
  BY <1>3, <1>4

(* What a new screen, grid and map leave. *)
Shows(u, s, g, f) == [u EXCEPT !.screen = s, !.grid = g, !.map = f]
ShowsAs(t, u, f, n, m) ==
  /\ u \in Context(n, m) /\ Holds(t, u) /\ SameCursor(t, u) /\ u.queue = t.queue /\ u.map = f
LEMMA Showing ==
  ASSUME NEW n \in Nat, NEW m \in Nat, NEW u \in Context(n, m), NEW s \in [0 .. m * n - 1 -> Cell],
         NEW g \in [0 .. m * n - 1 -> Cell], NEW f \in [0 .. m * n - 1 -> Nat]
  PROVE  ShowsAs(u, Shows(u, s, g, f), f, n, m)
BY DEF ShowsAs, Shows, Context, Holds, SameColours, SameCursor

(* The cell i of the grid is drawn and its entry in map taken. *)
LEMMA CellShown ==
  ASSUME NEW n \in Nat, NEW m \in Nat, NEW u \in Context(n, m), NEW ch \in Cell, NEW shown \in Cell,
         NEW x, NEW y, NEW i \in 0 .. m * n - 1, NEW v,
         v = [plot_char(u, shown, x, y) EXCEPT !.grid[i] = ch, !.map[i] = 0]
  PROVE  ShowsAs(u, v, [u.map EXCEPT ![i] = 0], n, m)
<1>1. PICK s \in [0 .. m * n - 1 -> Cell] : plot_char(u, shown, x, y) = [u EXCEPT !.screen = s]
  BY Plotted DEF PlottedAs
<1>2. u.grid \in [0 .. m * n - 1 -> Cell] /\ u.map \in [0 .. m * n - 1 -> Nat]
  BY DEF Context
<1>3. PICK g \in [0 .. m * n - 1 -> Cell], f \in [0 .. m * n - 1 -> Nat] :
        g = [u.grid EXCEPT ![i] = ch] /\ f = [u.map EXCEPT ![i] = 0]
  BY <1>2
<1>4. v = Shows(u, s, g, f)
  <2>1. PICK w : w = plot_char(u, shown, x, y)
    OBVIOUS
  <2>2. w = [u EXCEPT !.screen = s]
    BY <1>1, <2>1
  <2>3. w.grid = u.grid /\ w.map = u.map
    BY <2>2 DEF Context
  <2>4. v = [w EXCEPT !.grid = g, !.map = f]
    <3>1. v = [w EXCEPT !.grid[i] = ch, !.map[i] = 0]
      BY <2>1
    <3> QED
      BY <1>3, <2>2, <2>3, <3>1 DEF Context
  <2> QED
    BY <2>2, <2>4 DEF Shows, Context
<1>5. ShowsAs(u, v, f, n, m)
  BY <1>4, Showing
<1> QED
  BY <1>3, <1>5, Zenon

(* The contexts that the first k turns of a flush may leave. *)
Pending(t, k) ==
  {u \in Context(t.cols, t.rows) :
     /\ Holds(t, u) /\ SameCursor(t, u) /\ u.queue = t.queue
     /\ \A i \in Cells(t) :
          u.map[i] # 0 => u.map[i] \in DOMAIN t.queue /\ u.map[i] > k /\ t.queue[u.map[i]].i = i}

LEMMA PendingIs ==
  ASSUME NEW n \in Nat, NEW m \in Nat, NEW t \in Context(n, m), NEW k, NEW u \in Pending(t, k)
  PROVE  /\ u \in Context(n, m) /\ Holds(t, u) /\ SameCursor(t, u) /\ u.queue = t.queue
         /\ u.cols = n /\ u.rows = m /\ Cells(t) = 0 .. m * n - 1
         /\ \A i \in 0 .. m * n - 1 :
              u.map[i] # 0 => u.map[i] \in DOMAIN t.queue /\ u.map[i] > k /\ t.queue[u.map[i]].i = i
BY DEF Pending, Context, Cells

LEMMA PendingIf ==
  ASSUME NEW n \in Nat, NEW m \in Nat, NEW t \in Context(n, m), NEW k, NEW u \in Context(n, m),
         Holds(t, u), SameCursor(t, u), u.queue = t.queue,
         \A i \in 0 .. m * n - 1 :
           u.map[i] # 0 => u.map[i] \in DOMAIN t.queue /\ u.map[i] > k /\ t.queue[u.map[i]].i = i
  PROVE  u \in Pending(t, k)
<1>1. t.cols = n /\ t.rows = m
  BY DEF Context
<1>2. Cells(t) = 0 .. m * n - 1
  BY <1>1 DEF Cells
<1> QED
  BY <1>1, <1>2 DEF Pending

LEMMA PendingFirst ==
  ASSUME NEW n \in Nat, NEW m \in Nat, NEW r, NEW t \in Context(n, m), OnePer(t, r)
  PROVE  t \in Pending(t, 0) /\ draw_cursor(t) \in Pending(t, 0)
<1>1. t.cols = n /\ t.rows = m /\ t.map \in [0 .. m * n - 1 -> Nat]
  BY DEF Context
<1>2. Cells(t) = 0 .. m * n - 1
  BY <1>1 DEF Cells
<1>3. \A j \in 0 .. m * n - 1 :
        t.map[j] # 0 => t.map[j] \in DOMAIN t.queue /\ t.map[j] > 0 /\ t.queue[t.map[j]].i = j
  BY <1>1, <1>2 DEF OnePer
<1>4. t \in Pending(t, 0)
  <2>1. Holds(t, t) /\ SameCursor(t, t)
    BY DEF Holds, SameColours, SameCursor
  <2> QED
    BY <1>3, <2>1, PendingIf
<1>5. CASE ~OnScreen(t, t.cursor_x, t.cursor_y)
  BY <1>4, <1>5 DEF draw_cursor
<1>6. CASE OnScreen(t, t.cursor_x, t.cursor_y)
  <2>1. t.cursor_x \in Nat /\ t.cursor_y \in Nat /\ t.cursor_x < n /\ t.cursor_y < m
    BY <1>1, <1>6 DEF Context, OnScreen
  <2>2. PICK i \in 0 .. m * n - 1 : i = t.cursor_x + t.cursor_y * n
    BY <2>1, CellIs
  <2>3. PICK v : v = draw_cursor(t)
    OBVIOUS
  <2>4. v = [plot_char(t, Reversed(Content(t, i)), t.cursor_x, t.cursor_y)
               EXCEPT !.grid[i] = Content(t, i), !.map[i] = 0]
    BY <1>1, <1>6, <2>2, <2>3 DEF draw_cursor
  <2>5. Content(t, i) \in Cell
    BY ContentIs
  <2>6. Reversed(Content(t, i)) \in Cell
    BY <2>5, ShownIs
  <2>7. ShowsAs(t, v, [t.map EXCEPT ![i] = 0], n, m)
    BY <2>4, <2>5, <2>6, CellShown
  <2>8. \A j \in 0 .. m * n - 1 : v.map[j] = IF j = i THEN 0 ELSE t.map[j]
    BY <1>1, <2>7 DEF ShowsAs
  <2>9. v \in Pending(t, 0)
    <3>1. v \in Context(n, m) /\ Holds(t, v) /\ SameCursor(t, v) /\ v.queue = t.queue
      BY <2>7 DEF ShowsAs
    <3>2. \A j \in 0 .. m * n - 1 :
            v.map[j] # 0 => v.map[j] \in DOMAIN t.queue /\ v.map[j] > 0 /\ t.queue[v.map[j]].i = j
      BY <1>3, <2>8
    <3> QED
      BY <3>1, <3>2, PendingIf
  <2> QED
    BY <1>4, <2>3, <2>9
<1> QED
  BY <1>5, <1>6

(* After turn k no entry names the first k items. *)
LEMMA ItemShown ==
  ASSUME NEW n \in Nat, NEW m \in Nat, NEW t \in Context(n, m), NEW k \in DOMAIN t.queue, NEW j \in 0 .. k - 1,
         NEW u \in Pending(t, j)
  PROVE  /\ DrawItem(u, k) \in Pending(t, j)
         /\ j = k - 1 => DrawItem(u, k) \in Pending(t, k)
<1>1. t.queue \in Seq([i : 0 .. m * n - 1, c : Cell])
  BY DEF Context
<1>2. t.queue[k] \in [i : 0 .. m * n - 1, c : Cell] /\ k \in Nat /\ DOMAIN t.queue \subseteq Nat
  BY <1>1, ItemIs
<1>3. PICK q \in [i : 0 .. m * n - 1, c : Cell] : q = t.queue[k]
  BY <1>2
<1>4. q.i \in 0 .. m * n - 1 /\ q.c \in Cell
  BY <1>3
<1>5. /\ u \in Context(n, m) /\ Holds(t, u) /\ SameCursor(t, u) /\ u.queue = t.queue
      /\ u.cols = n /\ u.rows = m
      /\ \A i \in 0 .. m * n - 1 :
           u.map[i] # 0 => u.map[i] \in DOMAIN t.queue /\ u.map[i] > j /\ t.queue[u.map[i]].i = i
  BY PendingIs
<1>6. PICK v : v = DrawItem(u, k)
  OBVIOUS
<1>7. CASE u.map[q.i] = 0
  <2>1. v = u
    BY <1>3, <1>5, <1>6, <1>7 DEF DrawItem
  <2>2. ASSUME j = k - 1 PROVE u \in Pending(t, k)
    <3>1. \A i \in 0 .. m * n - 1 :
            u.map[i] # 0 => u.map[i] \in DOMAIN t.queue /\ u.map[i] > k /\ t.queue[u.map[i]].i = i
      <4> SUFFICES ASSUME NEW i \in 0 .. m * n - 1, u.map[i] # 0 PROVE u.map[i] > k
        BY <1>5
      <4>1. u.map[i] # k
        BY <1>3, <1>5, <1>7
      <4> QED
        BY <1>2, <1>5, <2>2, <4>1
    <3> QED
      BY <1>5, <3>1, PendingIf
  <2> QED
    BY <1>6, <2>1, <2>2
<1>8. CASE u.map[q.i] # 0
  <2>1. v = [plot_char(u, q.c, q.i % u.cols, q.i \div u.cols) EXCEPT !.grid[q.i] = q.c, !.map[q.i] = 0]
    BY <1>3, <1>5, <1>6, <1>8 DEF DrawItem
  <2>2. ShowsAs(u, v, [u.map EXCEPT ![q.i] = 0], n, m)
    BY <1>4, <1>5, <2>1, CellShown
  <2>3. u.map \in [0 .. m * n - 1 -> Nat]
    BY <1>5 DEF Context
  <2>4. \A i \in 0 .. m * n - 1 : v.map[i] = IF i = q.i THEN 0 ELSE u.map[i]
    BY <1>4, <2>2, <2>3 DEF ShowsAs
  <2>5. v \in Context(n, m) /\ Holds(t, v) /\ SameCursor(t, v) /\ v.queue = t.queue
    <3>1. v \in Context(n, m) /\ Holds(u, v) /\ SameCursor(u, v) /\ v.queue = u.queue
      BY <2>2 DEF ShowsAs
    <3> QED
      BY <1>5, <3>1, HoldsAgain DEF SameCursor
  <2>6. v \in Pending(t, j)
    <3>1. \A i \in 0 .. m * n - 1 :
            v.map[i] # 0 => v.map[i] \in DOMAIN t.queue /\ v.map[i] > j /\ t.queue[v.map[i]].i = i
      BY <1>5, <2>4
    <3> QED
      BY <2>5, <3>1, PendingIf
  <2>7. ASSUME j = k - 1 PROVE v \in Pending(t, k)
    <3>1. \A i \in 0 .. m * n - 1 :
            v.map[i] # 0 => v.map[i] \in DOMAIN t.queue /\ v.map[i] > k /\ t.queue[v.map[i]].i = i
      <4> SUFFICES ASSUME NEW i \in 0 .. m * n - 1, v.map[i] # 0
                   PROVE  v.map[i] \in DOMAIN t.queue /\ v.map[i] > k /\ t.queue[v.map[i]].i = i
        OBVIOUS
      <4>1. i # q.i /\ v.map[i] = u.map[i] /\ u.map[i] # 0
        BY <2>4
      <4>2. u.map[i] # k
        BY <1>3, <1>5, <4>1
      <4> QED
        BY <1>2, <1>5, <2>7, <4>1, <4>2
    <3> QED
      BY <2>5, <3>1, PendingIf
  <2> QED
    BY <1>6, <2>6, <2>7
<1> QED
  BY <1>7, <1>8

(* What the screen shows while a flush draws: under the cursor the         *)
(* character reversed, elsewhere the grid, but for the cell that the       *)
(* cursor has left.  With e it need not.                                   *)
UnderCursor(t, i) ==
  t.cursor_enabled /\ OnScreen(t, t.cursor_x, t.cursor_y) /\ i = t.cursor_x + t.cursor_y * t.cols
AtOld(t, i) ==
  OnScreen(t, t.old_cursor_x, t.old_cursor_y) /\ i = t.old_cursor_x + t.old_cursor_y * t.cols
SameOld(t, u) == u.old_cursor_x = t.old_cursor_x /\ u.old_cursor_y = t.old_cursor_y
Reads(t, u, i) ==
  /\ UnderCursor(t, i) => u.map[i] = 0 /\ u.screen[i] = Shown(Reversed(u.grid[i]))
  /\ ~UnderCursor(t, i) => u.screen[i] = Shown(u.grid[i]) \/ AtOld(t, i)
Pictured(t, k, e) ==
  {u \in Pending(t, k) : e \/ (SameOld(t, u) /\ \A i \in Cells(t) : Reads(t, u, i))}
Clear(t) == \A i \in Cells(t) : t.screen[i] = Shown(t.grid[i]) \/ AtOld(t, i)

(* The cell i is drawn and nothing else. *)
CellTaken(u, v, i, shown, ch, n, m) ==
  /\ \A j \in 0 .. m * n - 1 :
       /\ v.screen[j] = IF j = i THEN Shown(shown) ELSE u.screen[j]
       /\ v.grid[j] = IF j = i THEN ch ELSE u.grid[j]
       /\ v.map[j] = IF j = i THEN 0 ELSE u.map[j]
  /\ SameOld(u, v)
LEMMA CellPictured ==
  ASSUME NEW n \in Nat, NEW m \in Nat, NEW u \in Context(n, m), NEW ch \in Cell, NEW shown \in Cell,
         NEW i \in 0 .. m * n - 1, NEW w, w = [u EXCEPT !.screen[i] = Shown(shown)],
         NEW v, v = [w EXCEPT !.grid[i] = ch, !.map[i] = 0]
  PROVE  CellTaken(u, v, i, shown, ch, n, m)
<1>1. /\ u.cols = n /\ u.rows = m /\ u.screen \in [0 .. m * n - 1 -> Cell]
      /\ u.grid \in [0 .. m * n - 1 -> Cell] /\ u.map \in [0 .. m * n - 1 -> Nat]
  BY DEF Context
<1>5. /\ w.screen = [u.screen EXCEPT ![i] = Shown(shown)] /\ w.grid = u.grid /\ w.map = u.map /\ SameOld(u, w)
  BY DEF Context, SameOld
<1>6. /\ v.screen = w.screen /\ v.grid = [w.grid EXCEPT ![i] = ch] /\ v.map = [w.map EXCEPT ![i] = 0] /\ SameOld(w, v)
  BY DEF Context, SameOld
<1> QED
  BY <1>1, <1>5, <1>6 DEF CellTaken, SameOld

LEMMA PicturedIs ==
  ASSUME NEW n \in Nat, NEW m \in Nat, NEW t \in Context(n, m), NEW k, NEW e, NEW u \in Pictured(t, k, e)
  PROVE  /\ u \in Pending(t, k)
         /\ e \/ (SameOld(t, u) /\ \A i \in 0 .. m * n - 1 : Reads(t, u, i))
<1>1. Cells(t) = 0 .. m * n - 1
  BY DEF Cells, Context
<1> QED
  BY <1>1 DEF Pictured

LEMMA PicturedIf ==
  ASSUME NEW n \in Nat, NEW m \in Nat, NEW t \in Context(n, m), NEW k, NEW e, NEW u \in Pending(t, k),
         e \/ (SameOld(t, u) /\ \A i \in 0 .. m * n - 1 : Reads(t, u, i))
  PROVE  u \in Pictured(t, k, e)
<1>1. Cells(t) = 0 .. m * n - 1
  BY DEF Cells, Context
<1> QED
  BY <1>1 DEF Pictured

(* One column and row for a cell. *)
LEMMA PlaceIs ==
  ASSUME NEW n \in Nat, NEW x \in Nat, NEW y \in Nat, NEW p \in Nat, NEW q \in Nat, x < n, p < n,
         x + y * n = p + q * n
  PROVE  x = p /\ y = q
<1>1. y * n \in Nat /\ q * n \in Nat
  BY TimesGrow
<1>2. ~(y < q)
  <2> SUFFICES ASSUME y < q PROVE FALSE
    OBVIOUS
  <2>1. y * n + n <= q * n
    BY TimesGrow
  <2>2. PICK a \in Nat, b \in Nat : a = y * n /\ b = q * n
    BY <1>1
  <2> QED
    BY <2>1, <2>2
<1>3. ~(q < y)
  <2> SUFFICES ASSUME q < y PROVE FALSE
    OBVIOUS
  <2>1. q * n + n <= y * n
    BY TimesGrow
  <2>2. PICK a \in Nat, b \in Nat : a = y * n /\ b = q * n
    BY <1>1
  <2> QED
    BY <2>1, <2>2
<1>4. y = q
  BY <1>2, <1>3
<1>5. PICK a \in Nat : a = y * n
  BY <1>1
<1> QED
  BY <1>4, <1>5

LEMMA CellPlace ==
  ASSUME NEW n \in Nat, NEW m \in Nat, NEW i \in 0 .. m * n - 1
  PROVE  /\ i % n \in Nat /\ i \div n \in Nat /\ i % n < n /\ i \div n < m
         /\ i = (i \div n) * n + (i % n)
<1>1. m * n \in Nat
  BY TimesGrow
<1>2. n # 0
  <2> SUFFICES ASSUME n = 0 PROVE FALSE
    OBVIOUS
  <2>1. m * n = 0
    BY ONLY n = 0, m \in Nat
  <2> QED
    BY <2>1
<1>3. i \in Nat /\ i < m * n
  BY <1>1
<1>4. n \in Nat \ {0}
  BY <1>2
<1>5. i % n \in Nat /\ i \div n \in Nat
  BY <1>3, <1>4, Divided
<1>6. i % n < n /\ i = n * (i \div n) + (i % n)
  BY ONLY <1>3, <1>4
<1>7. PICK q \in Nat, p \in Nat : q = i \div n /\ p = i % n
  BY <1>5
<1>8. n * q = q * n
  BY ONLY n \in Nat, q \in Nat
<1>9. ~(m <= q)
  <2> SUFFICES ASSUME m <= q PROVE FALSE
    OBVIOUS
  <2>1. m * n <= q * n
    BY TimesGrow
  <2>2. PICK a \in Nat, b \in Nat : a = m * n /\ b = q * n
    BY <1>1, TimesGrow
  <2>3. i = b + p
    BY <1>6, <1>7, <1>8, <2>2
  <2> QED
    BY <1>3, <2>1, <2>2, <2>3
<1> QED
  BY <1>5, <1>6, <1>7, <1>8, <1>9

(* The cursor is drawn first. *)
LEMMA PicturedFirst ==
  ASSUME NEW n \in Nat, NEW m \in Nat, NEW r, NEW t \in Context(n, m), OnePer(t, r), Clear(t),
         NEW u, u = IF t.cursor_enabled THEN draw_cursor(t) ELSE t
  PROVE  u \in Pictured(t, 0, FALSE)
<1>1. t.cols = n /\ t.rows = m
  BY DEF Context
<1>2. Cells(t) = 0 .. m * n - 1
  BY <1>1 DEF Cells
<1>3. u \in Pending(t, 0)
  BY PendingFirst
<1>4. \A j \in 0 .. m * n - 1 : t.screen[j] = Shown(t.grid[j]) \/ AtOld(t, j)
  BY <1>2 DEF Clear
<1>5. CASE ~(t.cursor_enabled /\ OnScreen(t, t.cursor_x, t.cursor_y))
  <2>1. u = t
    BY <1>5 DEF draw_cursor
  <2>2. SameOld(t, u) /\ \A j \in 0 .. m * n - 1 : Reads(t, u, j)
    BY <1>4, <1>5, <2>1 DEF SameOld, Reads, UnderCursor
  <2> QED
    BY <1>3, <2>2, PicturedIf
<1>6. CASE t.cursor_enabled /\ OnScreen(t, t.cursor_x, t.cursor_y)
  <2>1. t.cursor_x \in Nat /\ t.cursor_y \in Nat /\ t.cursor_x < n /\ t.cursor_y < m
    BY <1>1, <1>6 DEF Context, OnScreen
  <2>2. PICK i \in 0 .. m * n - 1 : i = t.cursor_x + t.cursor_y * n
    BY <2>1, CellIs
  <2>3. u = [plot_char(t, Reversed(Content(t, i)), t.cursor_x, t.cursor_y)
               EXCEPT !.grid[i] = Content(t, i), !.map[i] = 0]
    BY <1>1, <1>6, <2>2 DEF draw_cursor
  <2>4. PICK ch \in Cell : ch = Content(t, i)
    BY ContentIs
  <2>5. Reversed(ch) \in Cell
    BY ShownIs
  <2>6. i = t.cursor_y * n + t.cursor_x
    <3>1. t.cursor_y * n \in Nat
      BY <2>1, TimesGrow
    <3> QED
      BY <2>1, <2>2, <3>1
  <2>7. CellTaken(t, u, i, Reversed(ch), ch, n, m)
    <3>1. PICK w : w = [t EXCEPT !.screen[i] = Shown(Reversed(ch))]
      OBVIOUS
    <3>2. plot_char(t, Reversed(ch), t.cursor_x, t.cursor_y) = w
      BY <1>1, <2>1, <2>6, <3>1 DEF plot_char
    <3>3. u = [w EXCEPT !.grid[i] = ch, !.map[i] = 0]
      BY <2>3, <2>4, <3>2
    <3> QED
      BY <2>4, <2>5, <3>1, <3>3, CellPictured
  <2>8. \A j \in 0 .. m * n - 1 : UnderCursor(t, j) <=> j = i
    BY <1>1, <1>6, <2>2 DEF UnderCursor
  <2>9. \A j \in 0 .. m * n - 1 : Reads(t, u, j)
    BY <1>4, <2>7, <2>8 DEF CellTaken, Reads
  <2>10. SameOld(t, u)
    BY <2>7 DEF CellTaken
  <2> QED
    BY <1>3, <2>9, <2>10, PicturedIf
<1> QED
  BY <1>5, <1>6

(* An item is drawn as the grid has it then, never under the cursor. *)
LEMMA ItemPictured ==
  ASSUME NEW n \in Nat, NEW m \in Nat, NEW t \in Context(n, m), NEW k \in DOMAIN t.queue, NEW j \in 0 .. k - 1,
         NEW e, NEW u \in Pictured(t, j, e)
  PROVE  /\ DrawItem(u, k) \in Pictured(t, j, e)
         /\ j = k - 1 => DrawItem(u, k) \in Pictured(t, k, e)
<1>1. u \in Pending(t, j) /\ (e \/ (SameOld(t, u) /\ \A i \in 0 .. m * n - 1 : Reads(t, u, i)))
  BY PicturedIs
<1>2. DrawItem(u, k) \in Pending(t, j) /\ (j = k - 1 => DrawItem(u, k) \in Pending(t, k))
  BY <1>1, ItemShown
<1>3. PICK v : v = DrawItem(u, k)
  OBVIOUS
<1>4. e \/ (SameOld(t, v) /\ \A i \in 0 .. m * n - 1 : Reads(t, v, i))
  <2> SUFFICES ASSUME ~e PROVE SameOld(t, v) /\ \A i \in 0 .. m * n - 1 : Reads(t, v, i)
    OBVIOUS
  <2>1. SameOld(t, u) /\ \A i \in 0 .. m * n - 1 : Reads(t, u, i)
    BY <1>1
  <2>2. u \in Context(n, m) /\ u.queue = t.queue /\ u.cols = n /\ u.rows = m
    BY <1>1, PendingIs
  <2>3. t.queue \in Seq([i : 0 .. m * n - 1, c : Cell])
    BY DEF Context
  <2>4. PICK q \in [i : 0 .. m * n - 1, c : Cell] : q = t.queue[k]
    BY <2>3, ItemIs
  <2>5. q.i \in 0 .. m * n - 1 /\ q.c \in Cell
    BY <2>4
  <2>6. CASE u.map[q.i] = 0
    BY <1>3, <2>1, <2>2, <2>4, <2>6 DEF DrawItem
  <2>7. CASE u.map[q.i] # 0
    <3>1. v = [plot_char(u, q.c, q.i % n, q.i \div n) EXCEPT !.grid[q.i] = q.c, !.map[q.i] = 0]
      BY <1>3, <2>2, <2>4, <2>7 DEF DrawItem
    <3>2. /\ q.i % n \in Nat /\ q.i \div n \in Nat /\ q.i % n < n /\ q.i \div n < m
          /\ q.i = (q.i \div n) * n + (q.i % n)
      BY <2>5, CellPlace
    <3>3. CellTaken(u, v, q.i, q.c, q.c, n, m)
      <4>1. PICK w : w = [u EXCEPT !.screen[q.i] = Shown(q.c)]
        OBVIOUS
      <4>2. plot_char(u, q.c, q.i % n, q.i \div n) = w
        <5>1. PICK x \in Nat, y \in Nat : x = q.i % n /\ y = q.i \div n
          BY <3>2
        <5>2. PICK i : i = y * n + x
          OBVIOUS
        <5>3. i = q.i /\ x < n /\ y < m
          BY <3>2, <5>1, <5>2, Zenon
        <5>4. ~(x >= n \/ y >= m)
          BY <5>3
        <5>5. plot_char(u, q.c, x, y) = w
          BY <2>2, <4>1, <5>2, <5>3, <5>4, Zenon DEF plot_char
        <5> QED
          BY <5>1, <5>5, Zenon
      <4>3. v = [w EXCEPT !.grid[q.i] = q.c, !.map[q.i] = 0]
        BY <3>1, <4>2
      <4> QED
        BY <2>2, <2>5, <4>1, <4>3, CellPictured
    <3>4. ~UnderCursor(t, q.i)
      BY <2>1, <2>5, <2>7 DEF Reads
    <3>5. \A i \in 0 .. m * n - 1 : Reads(t, v, i)
      BY <2>1, <3>3, <3>4 DEF CellTaken, Reads
    <3>6. SameOld(t, v)
      BY <2>1, <3>3 DEF CellTaken, SameOld
    <3> QED
      BY <3>5, <3>6
  <2> QED
    BY <2>6, <2>7
<1> QED
  BY <1>2, <1>3, <1>4, PicturedIf

(* Once everything is drawn, no cell has an entry. *)
LEMMA ItemsShown ==
  ASSUME NEW n \in Nat, NEW m \in Nat, NEW t \in Context(n, m), NEW e, NEW v \in Pictured(t, 0, e)
  PROVE  Turns(v, Len(t.queue), DrawItem) \in Pictured(t, Len(t.queue), e)
<1>00. PICK N \in Nat : N = Len(t.queue) /\ DOMAIN t.queue = 1 .. N
  BY DEF Context
<1> DEFINE V == Pictured(t, 0, e)
           Op(u, k) == DrawItem(u, k)
           Eq(f) == [k \in 0 .. N |-> IF k = 0 THEN v ELSE Op(f[k - 1], k)]
           after == CHOOSE f : f = Eq(f)
           F == [k \in 1 .. N |-> [u \in V |-> Op(u, k)]]
<1>1. v \in V
  OBVIOUS
<1>2. \A k \in 1 .. N : \A u \in V : Op(u, k) \in V
  <2> SUFFICES ASSUME NEW k \in 1 .. N, NEW u \in V PROVE Op(u, k) \in V
    OBVIOUS
  <2>1. k \in DOMAIN t.queue /\ 0 \in 0 .. k - 1
    BY <1>00
  <2> QED
    BY <2>1, ItemPictured
<1>3. after = Eq(after)
  <2>1. PICK g : Taking(N, V, v, F, g)
    <3> HIDE DEF V, Op
    <3> QED
      BY <1>1, <1>2, Loop
  <2>2. ASSUME NEW k \in 0 .. N, k # 0 PROVE g[k] = Op(g[k - 1], k)
    <3>1. k \in 1 .. N /\ k - 1 \in 0 .. N
      BY <2>2
    <3>2. g[k - 1] \in V /\ g[k] = F[k][g[k - 1]]
      BY <2>1, <3>1 DEF Taking
    <3> HIDE DEF V, Op
    <3> QED
      BY <3>1, <3>2
  <2>3. g = Eq(g)
    <3> HIDE DEF V, Op
    <3> QED
      BY <2>1, <2>2 DEF Taking
  <2> HIDE DEF Eq
  <2> QED
    BY <2>3
<1>4. after[N] \in Pictured(t, N, e)
  <2> DEFINE S == [k \in 0 .. N |-> Pictured(t, k, e)]
  <2> HIDE DEF after, V, Op
  <2>1. after[0] \in S[0]
    BY <1>1, <1>3 DEF V
  <2>2. \A k \in 1 .. N : after[k - 1] \in S[k - 1] => after[k] \in S[k]
    <3> SUFFICES ASSUME NEW k \in 1 .. N, after[k - 1] \in Pictured(t, k - 1, e)
                 PROVE  after[k] \in Pictured(t, k, e)
      OBVIOUS
    <3>1. k \in DOMAIN t.queue /\ k - 1 \in 0 .. k - 1
      BY <1>00
    <3>2. DrawItem(after[k - 1], k) \in Pictured(t, k, e)
      BY <3>1, ItemPictured
    <3> QED
      BY <1>3, <3>2 DEF Op
  <2>3. \A k \in 0 .. N : after[k] \in S[k]
    <3> HIDE DEF S
    <3> QED
      BY <2>1, <2>2, Stays
  <2> QED
    BY <2>3
<1>5. Turns(v, Len(t.queue), DrawItem) = after[N]
  <2>1. (IF N > 0 THEN N ELSE 0) = N
    OBVIOUS
  <2> QED
    BY <1>00, <2>1 DEF Turns
<1> HIDE DEF after
<1> QED
  BY <1>00, <1>4, <1>5

(* A new screen changes nothing else. *)
LEMMA ScreenPending ==
  ASSUME NEW n \in Nat, NEW m \in Nat, NEW t \in Context(n, m), NEW k, NEW u \in Pending(t, k),
         NEW s \in [0 .. m * n - 1 -> Cell]
  PROVE  [u EXCEPT !.screen = s] \in Pending(t, k)
<1>1. /\ u \in Context(n, m) /\ Holds(t, u) /\ SameCursor(t, u) /\ u.queue = t.queue
      /\ \A i \in 0 .. m * n - 1 :
           u.map[i] # 0 => u.map[i] \in DOMAIN t.queue /\ u.map[i] > k /\ t.queue[u.map[i]].i = i
  BY PendingIs
<1>2. u.grid \in [0 .. m * n - 1 -> Cell] /\ u.map \in [0 .. m * n - 1 -> Nat]
  BY <1>1 DEF Context
<1>3. PICK v : v = [u EXCEPT !.screen = s]
  OBVIOUS
<1>4. v = Shows(u, s, u.grid, u.map)
  BY <1>1, <1>3 DEF Shows, Context
<1>5. ShowsAs(u, v, u.map, n, m)
  BY <1>1, <1>2, <1>4, Showing
<1>6. v \in Context(n, m) /\ Holds(u, v) /\ SameCursor(u, v) /\ v.queue = u.queue /\ v.map = u.map
  BY <1>5 DEF ShowsAs
<1>7. Holds(t, v) /\ SameCursor(t, v) /\ v.queue = t.queue
  BY <1>1, <1>6, HoldsAgain DEF SameCursor
<1> QED
  BY <1>1, <1>3, <1>6, <1>7, PendingIf

(* A flush leaves nothing that waits. *)
Emptied(u, x, y) == [u EXCEPT !.old_cursor_x = x, !.old_cursor_y = y, !.queue = <<>>]
EmptiedAs(t, u, n, m) ==
  u \in Context(n, m) /\ Holds(t, u) /\ SameCursor(t, u) /\ u.queue = <<>> /\ u.map = t.map
LEMMA EmptiedIs ==
  ASSUME NEW n \in Nat, NEW m \in Nat, NEW u \in Context(n, m), NEW x \in Nat, NEW y \in Nat
  PROVE  EmptiedAs(u, Emptied(u, x, y), n, m)
<1>1. PICK q \in Seq([i : 0 .. m * n - 1, c : Cell]) : q = <<>>
  <2> DEFINE S == [i : 0 .. m * n - 1, c : Cell]
  <2>1. <<>> \in Seq(S)
    <3> HIDE DEF S
    <3> QED
      OBVIOUS
  <2> QED
    BY <2>1, Zenon
<1>2. PICK v : v = [u EXCEPT !.old_cursor_x = x, !.old_cursor_y = y, !.queue = q]
  OBVIOUS
<1>3. v \in Context(n, m) /\ Holds(u, v) /\ SameCursor(u, v) /\ v.queue = q /\ v.map = u.map
  BY <1>2 DEF Context, Holds, SameColours, SameCursor
<1>4. Emptied(u, x, y) = v
  BY <1>1, <1>2 DEF Emptied
<1> QED
  BY <1>1, <1>3, <1>4 DEF EmptiedAs

LEMMA FlushDraws ==
  ASSUME NEW n \in Nat, NEW m \in Nat, NEW r, NEW s, NEW t \in Context(n, m), OnePer(t, r)
  PROVE  double_buffer_flush(t) \in Redrawn(t, s)
<1>1. PICK pointed : pointed = IF t.cursor_enabled THEN draw_cursor(t) ELSE t
  OBVIOUS
<1>2. pointed \in Pending(t, 0)
  BY <1>1, PendingFirst
<1>3. PICK N \in Nat : N = Len(t.queue) /\ DOMAIN t.queue = 1 .. N
  BY DEF Context
<1>4. PICK u : u = Turns(pointed, Len(t.queue), DrawItem)
  OBVIOUS
<1>5. u \in Pending(t, N)
  <2>1. pointed \in Pictured(t, 0, TRUE)
    BY <1>2, PicturedIf
  <2>2. u \in Pictured(t, N, TRUE)
    BY <1>3, <1>4, <2>1, ItemsShown
  <2> QED
    BY <2>2, PicturedIs
<1>6. PICK v : v = EraseOldCursor(u)
  OBVIOUS
<1>7. v \in Pending(t, N)
  <2> DEFINE i == u.old_cursor_x + u.old_cursor_y * u.cols
  <2>1. u \in Context(n, m) /\ u.cols = n /\ u.rows = m
    BY <1>5, PendingIs
  <2>2. CASE v = u
    BY <1>5, <2>2
  <2>3. CASE v # u
    <3>1. /\ v = plot_char(u, u.grid[i], u.old_cursor_x, u.old_cursor_y)
          /\ OnScreen(u, u.old_cursor_x, u.old_cursor_y)
      BY <1>6, <2>3 DEF EraseOldCursor
    <3>2. u.old_cursor_x \in Nat /\ u.old_cursor_y \in Nat /\ u.grid \in [0 .. m * n - 1 -> Cell]
      BY <2>1 DEF Context
    <3>3. i \in 0 .. m * n - 1
      BY <2>1, <3>1, <3>2, CellIs DEF OnScreen
    <3> HIDE DEF i
    <3>4. u.grid[i] \in Cell
      BY <3>2, <3>3
    <3>5. PICK scr \in [0 .. m * n - 1 -> Cell] : v = [u EXCEPT !.screen = scr]
      <4>1. PlottedAs(u, v, n, m)
        BY <2>1, <3>1, <3>4, Plotted, Zenon
      <4> QED
        BY <4>1, Zenon DEF PlottedAs
    <3> QED
      BY <1>5, <3>5, ScreenPending
  <2> QED
    BY <2>2, <2>3
<1>8. double_buffer_flush(t) = Emptied(v, t.cursor_x, t.cursor_y)
  BY <1>1, <1>4, <1>6 DEF double_buffer_flush, Emptied
<1>9. /\ v \in Context(n, m) /\ Holds(t, v) /\ SameCursor(t, v)
      /\ \A i \in 0 .. m * n - 1 : v.map[i] # 0 => v.map[i] \in DOMAIN t.queue /\ v.map[i] > N
  BY <1>7, PendingIs
<1>10. PICK w : w = Emptied(v, t.cursor_x, t.cursor_y)
  OBVIOUS
<1>11. EmptiedAs(v, w, n, m)
  <2>1. t.cursor_x \in Nat /\ t.cursor_y \in Nat
    BY DEF Context
  <2> QED
    BY <1>9, <1>10, <2>1, EmptiedIs
<1>12. w \in Context(n, m) /\ Holds(t, w) /\ SameCursor(t, w) /\ w.queue = <<>> /\ w.map = v.map
  BY <1>9, <1>11, HoldsAgain DEF EmptiedAs, SameCursor
<1>13. \A i \in 0 .. m * n - 1 : w.map[i] = 0
  BY <1>3, <1>9, <1>12
<1>14. OnePer(w, s)
  <2>1. Cells(w) = 0 .. m * n - 1
    BY <1>12 DEF Cells, Context
  <2>2. DOMAIN w.queue = {}
    BY <1>12
  <2> QED
    BY <1>13, <2>1, <2>2 DEF OnePer
<1>15. t.cols = n /\ t.rows = m
  BY DEF Context
<1> QED
  BY <1>8, <1>10, <1>12, <1>14, <1>15 DEF Redrawn

(* A refresh may leave items without an entry. *)
LEMMA RefreshDraws ==
  ASSUME NEW n \in Nat, NEW m \in Nat, NEW r, NEW s, NEW t \in Context(n, m), OnePer(t, r),
         s \/ t.queue = <<>>
  PROVE  full_refresh(t) \in Redrawn(t, s)
<1>1. t.cols = n /\ t.rows = m /\ t.grid \in [0 .. m * n - 1 -> Cell]
  BY DEF Context
<1>2. Cells(t) = 0 .. m * n - 1
  BY <1>1 DEF Cells
<1>3. PICK scr \in [0 .. m * n - 1 -> Cell] : scr = [i \in Cells(t) |-> Shown(t.grid[i])]
  <2>1. \A i \in Cells(t) : Shown(t.grid[i]) \in Cell
    BY <1>1, <1>2, ShownIs
  <2> QED
    BY <1>2, <2>1
<1>4. PICK u : u = [t EXCEPT !.screen = scr]
  OBVIOUS
<1>5. u \in Pending(t, 0)
  BY <1>4, PendingFirst, ScreenPending
<1>6. /\ u \in Context(n, m) /\ Holds(t, u) /\ SameCursor(t, u) /\ u.queue = t.queue
      /\ \A i \in 0 .. m * n - 1 :
           u.map[i] # 0 => u.map[i] \in DOMAIN t.queue /\ u.map[i] > 0 /\ t.queue[u.map[i]].i = i
  BY <1>5, PendingIs
<1>7. OnePer(u, TRUE)
  <2>1. Cells(u) = 0 .. m * n - 1
    BY <1>6 DEF Cells, Context
  <2> QED
    BY <1>6, <2>1 DEF OnePer
<1>8. PICK v : v = full_refresh(t)
  OBVIOUS
<1>9. v = IF t.cursor_enabled THEN draw_cursor(u) ELSE u
  BY <1>3, <1>4, <1>8 DEF full_refresh
<1>10. v \in Pending(u, 0)
  BY <1>6, <1>7, <1>9, PendingFirst
<1>11. /\ v \in Context(n, m) /\ Holds(u, v) /\ SameCursor(u, v) /\ v.queue = u.queue
       /\ \A i \in 0 .. m * n - 1 :
            v.map[i] # 0 => v.map[i] \in DOMAIN u.queue /\ v.map[i] > 0 /\ u.queue[v.map[i]].i = i
  BY <1>6, <1>10, PendingIs
<1>12. Holds(t, v) /\ SameCursor(t, v) /\ v.queue = t.queue
  BY <1>6, <1>11, HoldsAgain DEF SameCursor
<1>13. OnePer(v, s)
  <2>1. Cells(v) = 0 .. m * n - 1
    BY <1>11 DEF Cells, Context
  <2>2. \A i \in Cells(v) : v.map[i] # 0 => v.map[i] \in DOMAIN v.queue /\ v.queue[v.map[i]].i = i
    BY <1>11, <2>1
  <2>3. \A k \in DOMAIN v.queue : v.map[v.queue[k].i] = k \/ s
    <3>1. CASE s
      BY <3>1
    <3>2. CASE t.queue = <<>>
      <4>1. DOMAIN v.queue = {}
        BY <1>12, <3>2
      <4> QED
        BY <4>1
    <3> QED
      BY <3>1, <3>2
  <2> QED
    BY <2>2, <2>3 DEF OnePer
<1> QED
  BY <1>1, <1>8, <1>11, <1>12, <1>13 DEF Redrawn

LEMMA SameQueue ==
  ASSUME NEW n, NEW m, NEW r, NEW t \in Context(n, m), NEW u \in Context(n, m),
         u.queue = t.queue, u.map = t.map, OnePer(t, r)
  PROVE  OnePer(u, r)
<1>1. u.cols = t.cols /\ u.rows = t.rows
  BY DEF Context
<1> QED
  BY <1>1 DEF OnePer, Cells

(* What a flush shows: the text, if the screen was clear before.           *)
LEMMA TextShown ==
  ASSUME NEW n \in Nat, NEW m \in Nat, NEW w \in Context(n, m),
         \A i \in 0 .. m * n - 1 :
           /\ w.map[i] = 0
           /\ UnderCursor(w, i) => w.screen[i] = Shown(Reversed(w.grid[i]))
           /\ ~UnderCursor(w, i) => w.screen[i] = Shown(w.grid[i])
  PROVE  ShowsText(w)
<1>1. Cells(w) = 0 .. m * n - 1
  BY DEF Cells, Context
<1>2. PICK cursor : cursor = IF w.cursor_enabled /\ OnScreen(w, w.cursor_x, w.cursor_y)
                             THEN {w.cursor_x + w.cursor_y * w.cols} ELSE {}
  OBVIOUS
<1>3. \A i \in 0 .. m * n - 1 : i \in cursor <=> UnderCursor(w, i)
  BY <1>2 DEF UnderCursor
<1>4. \A i \in Cells(w) :
        w.map[i] = 0 /\ w.screen[i] = Shown(IF i \in cursor THEN Reversed(w.grid[i]) ELSE w.grid[i])
  BY <1>1, <1>3
<1> QED
  BY <1>2, <1>4 DEF ShowsText

LEMMA FlushShows ==
  ASSUME NEW n \in Nat, NEW m \in Nat, NEW r, NEW t \in Context(n, m), OnePer(t, r), Clear(t),
         NEW w, w = double_buffer_flush(t)
  PROVE  ShowsText(w) /\ Clear(w)
<1> DEFINE Place == 0 .. m * n - 1
<1>1. t.cols = n /\ t.rows = m /\ Cells(t) = Place
  BY DEF Context, Cells
<1>2. PICK pointed : pointed = IF t.cursor_enabled THEN draw_cursor(t) ELSE t
  OBVIOUS
<1>3. pointed \in Pictured(t, 0, FALSE)
  BY <1>2, PicturedFirst
<1>4. PICK N \in Nat : N = Len(t.queue) /\ DOMAIN t.queue = 1 .. N
  BY DEF Context
<1>5. PICK u : u = Turns(pointed, Len(t.queue), DrawItem)
  OBVIOUS
<1>6. u \in Pictured(t, N, FALSE)
  BY <1>3, <1>4, <1>5, ItemsShown
<1>7. u \in Pending(t, N) /\ SameOld(t, u) /\ \A i \in Place : Reads(t, u, i)
  BY <1>6, PicturedIs
<1>8. /\ u \in Context(n, m) /\ Holds(t, u) /\ SameCursor(t, u) /\ u.cols = n /\ u.rows = m
      /\ \A i \in Place : u.map[i] = 0
  BY <1>4, <1>7, PendingIs
<1>9. PICK v : v = EraseOldCursor(u)
  OBVIOUS
<1>10. /\ \A i \in Place :
            /\ v.map[i] = 0
            /\ UnderCursor(t, i) => v.screen[i] = Shown(Reversed(v.grid[i]))
            /\ ~UnderCursor(t, i) => v.screen[i] = Shown(v.grid[i])
       /\ \E s : v = [u EXCEPT !.screen = s]
  <2> DEFINE x == u.old_cursor_x
             y == u.old_cursor_y
             Away == x # u.cursor_x \/ y # u.cursor_y
  <2>1. /\ u.cursor_enabled = t.cursor_enabled /\ u.cursor_x = t.cursor_x /\ u.cursor_y = t.cursor_y
        /\ t.old_cursor_x = x /\ t.old_cursor_y = y
        /\ x \in Nat /\ y \in Nat /\ t.cursor_x \in Nat /\ t.cursor_y \in Nat
        /\ u.screen \in [Place -> Cell]
    BY <1>7, <1>8 DEF Holds, SameCursor, SameOld, Context
  <2> HIDE DEF x, y
  <2>2. CASE (Away \/ ~u.cursor_enabled) /\ OnScreen(u, x, y)
    <3>1. x < n /\ y < m
      BY <1>8, <2>2 DEF OnScreen
    <3>2. PICK o \in Place : o = x + y * n
      BY <2>1, <3>1, CellIs
    <3>3. v = [u EXCEPT !.screen[o] = Shown(u.grid[o])]
      <4>1. o = y * n + x
        BY <2>1, <3>2, TimesGrow
      <4>2. v = plot_char(u, u.grid[o], x, y)
        BY <1>8, <1>9, <2>2, <3>2 DEF EraseOldCursor, x, y
      <4>3. ~(x >= u.cols \/ y >= u.rows)
        BY <1>8, <2>1, <3>1
      <4> QED
        BY <1>8, <4>1, <4>2, <4>3, Zenon DEF plot_char
    <3>4. /\ v.map = u.map /\ v.grid = u.grid
          /\ \A i \in Place : v.screen[i] = IF i = o THEN Shown(u.grid[o]) ELSE u.screen[i]
      BY <1>8, <2>1, <3>2, <3>3 DEF Context
    <3>5. ~UnderCursor(t, o)
      <4> SUFFICES ASSUME UnderCursor(t, o) PROVE FALSE
        OBVIOUS
      <4>1. t.cursor_enabled /\ t.cursor_x < n /\ o = t.cursor_x + t.cursor_y * n
        BY <1>1 DEF UnderCursor, OnScreen
      <4>2. x = t.cursor_x /\ y = t.cursor_y
        <5>1. PICK a \in Nat, b \in Nat : a = t.cursor_x /\ b = t.cursor_y
          BY <2>1
        <5>2. x + y * n = a + b * n /\ a < n
          BY <3>2, <4>1, <5>1, Zenon
        <5>3. x = a /\ y = b
          BY ONLY <2>1, <3>1, <5>2, a \in Nat, b \in Nat, n \in Nat, PlaceIs
        <5> QED
          BY <5>1, <5>3
      <4> QED
        BY <2>1, <2>2, <4>1, <4>2
    <3>6. \A i \in Place : i # o => ~AtOld(t, i)
      BY <1>1, <2>1, <3>2 DEF AtOld
    <3>7. v = [u EXCEPT !.screen = [u.screen EXCEPT ![o] = Shown(u.grid[o])]]
      BY <3>3
    <3>8. \E s : v = [u EXCEPT !.screen = s]
      BY <3>7
    <3> QED
      BY <1>7, <1>8, <3>4, <3>5, <3>6, <3>8 DEF Reads
  <2>3. CASE ~((Away \/ ~u.cursor_enabled) /\ OnScreen(u, x, y))
    <3>1. v = u
      BY <1>9, <2>3 DEF EraseOldCursor, x, y
    <3>2. \A i \in Place : AtOld(t, i) => UnderCursor(t, i)
      BY <1>1, <1>8, <2>1, <2>3 DEF AtOld, UnderCursor, OnScreen
    <3>3. v = [u EXCEPT !.screen = u.screen]
      BY <1>8, <3>1 DEF Context
    <3> QED
      BY <1>7, <1>8, <3>1, <3>2, <3>3 DEF Reads
  <2> QED
    BY <2>2, <2>3
<1>11. w = Emptied(v, t.cursor_x, t.cursor_y)
  BY <1>2, <1>5, <1>9 DEF double_buffer_flush, Emptied
<1>12. PICK s : v = [u EXCEPT !.screen = s]
  BY <1>10
<1>13. /\ w.map = v.map /\ w.grid = v.grid /\ w.screen = v.screen
       /\ w.old_cursor_x = t.cursor_x /\ w.old_cursor_y = t.cursor_y
  BY <1>8, <1>11, <1>12 DEF Emptied, Context
<1>14. w \in Context(n, m) /\ w.cols = n /\ w.rows = m /\ Holds(t, w) /\ SameCursor(t, w)
  <2>1. w \in Redrawn(t, r)
    BY FlushDraws
  <2> QED
    BY <2>1, RedrawnIs
<1>15. \A i \in Place : UnderCursor(w, i) <=> UnderCursor(t, i)
  BY <1>1, <1>14 DEF Holds, SameCursor, UnderCursor, OnScreen
<1>16. \A i \in Place : UnderCursor(w, i) => AtOld(w, i)
  BY <1>13, <1>14 DEF SameCursor, UnderCursor, AtOld
<1>17. /\ \A i \in Place :
            /\ w.map[i] = 0
            /\ UnderCursor(w, i) => w.screen[i] = Shown(Reversed(w.grid[i]))
            /\ ~UnderCursor(w, i) => w.screen[i] = Shown(w.grid[i])
  BY <1>10, <1>13, <1>15
<1>18. ShowsText(w)
  BY <1>14, <1>17, TextShown
<1>19. Cells(w) = Place
  BY <1>14 DEF Cells
<1>20. Clear(w)
  BY <1>16, <1>17, <1>19 DEF Clear
<1> QED
  BY <1>18, <1>20

(* A refresh leaves the screen clear where the cursor has not moved.       *)
LEMMA RefreshShows ==
  ASSUME NEW n \in Nat, NEW m \in Nat, NEW r, NEW t \in Context(n, m), OnePer(t, r),
         t.cursor_x = t.old_cursor_x, t.cursor_y = t.old_cursor_y, NEW v, v = full_refresh(t)
  PROVE  Clear(v)
<1> DEFINE Place == 0 .. m * n - 1
<1>1. t.cols = n /\ t.rows = m /\ Cells(t) = Place /\ t.grid \in [Place -> Cell]
  BY DEF Context, Cells
<1>2. PICK scr \in [Place -> Cell] : scr = [i \in Cells(t) |-> Shown(t.grid[i])]
  <2>1. \A i \in Cells(t) : Shown(t.grid[i]) \in Cell
    BY <1>1, ShownIs
  <2> QED
    BY <1>1, <2>1
<1>3. PICK u : u = [t EXCEPT !.screen = scr]
  OBVIOUS
<1>4. u \in Pending(t, 0)
  BY <1>3, PendingFirst, ScreenPending
<1>5. /\ u \in Context(n, m) /\ Holds(t, u) /\ SameCursor(t, u) /\ u.queue = t.queue /\ u.cols = n /\ u.rows = m
      /\ u.map = t.map /\ u.grid = t.grid /\ u.screen = scr /\ SameOld(t, u)
  <2>1. u.map = t.map /\ u.grid = t.grid /\ u.screen = scr /\ SameOld(t, u)
    BY <1>3 DEF Context, SameOld
  <2> QED
    BY <1>4, <2>1, PendingIs
<1>6. Cells(u) = Place
  BY <1>5 DEF Cells
<1>7. OnePer(u, r)
  BY <1>5, SameQueue
<1>8. Clear(u)
  BY <1>1, <1>2, <1>5, <1>6 DEF Clear
<1>9. v = IF u.cursor_enabled THEN draw_cursor(u) ELSE u
  BY <1>2, <1>3, <1>5 DEF full_refresh, Holds
<1>10. v \in Pictured(u, 0, FALSE)
  BY <1>5, <1>7, <1>8, <1>9, PicturedFirst
<1>11. v \in Pending(u, 0) /\ SameOld(u, v) /\ \A i \in Place : Reads(u, v, i)
  BY <1>5, <1>10, PicturedIs
<1>12. v \in Context(n, m) /\ v.cols = n /\ v.rows = m
  BY <1>5, <1>11, PendingIs
<1>13. \A i \in Place : UnderCursor(u, i) => AtOld(v, i)
  BY <1>5, <1>11, <1>12 DEF SameOld, SameCursor, UnderCursor, AtOld, OnScreen
<1>14. \A i \in Place : AtOld(u, i) => AtOld(v, i)
  BY <1>5, <1>11, <1>12 DEF SameOld, AtOld, OnScreen
<1>15. Cells(v) = Place
  BY <1>12 DEF Cells
<1> QED
  BY <1>11, <1>13, <1>14, <1>15 DEF Clear, Reads

----------------------------------------------------------------------------
(* Initial contexts and colours. *)

LEMMA ColoursAre ==
  /\ default_fg \in Colour /\ default_bg \in Colour /\ TRANSPARENT \in Colour
  /\ default_fg_bright \in Colour /\ default_bg_bright \in Colour
  /\ \A k \in Int : ansi_colours(k) \in Colour /\ ansi_bright_colours(k) \in Colour /\ rgb(k) \in Colour
BY DEF Colour, default_fg, default_bg, TRANSPARENT, default_fg_bright, default_bg_bright,
       ansi_colours, ansi_bright_colours, rgb

(* A context whose parts may be anything. *)
Fields(n, m, cells, entries, items, sets, pairs) ==
  [cols : {n}, rows : {m}, grid : cells, map : entries, queue : items, screen : cells,
   cursor_x : Nat, cursor_y : Nat, old_cursor_x : Nat, old_cursor_y : Nat,
   text_fg : Colour, text_bg : Colour, saved_state : SavedState,
   autoflush : BOOLEAN, cursor_enabled : BOOLEAN, scroll_enabled : BOOLEAN,
   bold : BOOLEAN, bg_bold : BOOLEAN, reverse_video : BOOLEAN, insert_mode : BOOLEAN,
   charsets : sets, current_charset : 1 .. 2, saved_cursor : pairs,
   current_primary : Int, current_bg : Int, top : Nat, bottom : Nat, onlcr : BOOLEAN,
   saved_attributes : SavedAttributes]
ContextAs(n, m, cells, entries, items, sets, pairs) ==
  /\ Context(n, m) = Fields(n, m, cells, entries, items, sets, pairs)
  /\ cells = [0 .. m * n - 1 -> Cell] /\ entries = [0 .. m * n - 1 -> Nat]
  /\ items = Seq([i : 0 .. m * n - 1, c : Cell])
  /\ sets = [1 .. 2 -> {"default", "dec_special"}] /\ pairs = Nat \X Nat
LEMMA FieldsAre ==
  ASSUME NEW n, NEW m
  PROVE  \E cells, entries, items, sets, pairs : ContextAs(n, m, cells, entries, items, sets, pairs)
BY DEF ContextAs, Context, Fields

(* Pairs of character sets. *)
LEMMA Pair ==
  ASSUME NEW S, NEW a \in S, NEW b \in S
  PROVE  <<a, b>> \in [1 .. 2 -> S]
<1>1. <<a, b>> \in Seq(S) /\ Len(<<a, b>>) = 2
  OBVIOUS
<1>2. PICK q \in Seq(S) : q = <<a, b>> /\ Len(q) = 2
  BY <1>1
<1>3. q \in [1 .. Len(q) -> S]
  OBVIOUS
<1> QED
  BY <1>2, <1>3

(* The colours in their roles, and what the attributes tell of them. *)
TellsFg(colour, number, bold) ==
  colour \in IF number = NONE THEN {IF bold THEN default_fg_bright ELSE default_fg}
             ELSE {ansi_bright_colours(number)} \cup (IF bold THEN {} ELSE {ansi_colours(number)})
TellsBg(colour, number, bold) ==
  colour \in IF number = NONE THEN {IF bold THEN default_bg_bright ELSE TRANSPARENT}
             ELSE {ansi_bright_colours(number)} \cup (IF bold THEN {} ELSE {ansi_colours(number)})
Tells(fg, bg, reverse, bold, blink, primary, back) ==
  /\ TellsFg(IF reverse THEN bg ELSE fg, primary, bold)
  /\ TellsBg(IF reverse THEN fg ELSE bg, back, blink)
Roles(t) ==
  Tells(t.text_fg, t.text_bg, t.reverse_video, t.bold, t.bg_bold, t.current_primary, t.current_bg)

Looks(t, fg, bg, reverse, bold, blink, primary, back) ==
  /\ t.text_fg = fg /\ t.text_bg = bg /\ t.reverse_video = reverse /\ t.bold = bold /\ t.bg_bold = blink
  /\ t.current_primary = primary /\ t.current_bg = back
SavedRoles(t) ==
  LET s == t.saved_state
      a == t.saved_attributes
  IN  Tells(s.fg, s.bg, a.reverse_video, a.bold, a.bg_bold, a.current_primary, a.current_bg)

ReinitAs(t, u, n, m) ==
  /\ u \in Context(n, m) /\ SameCursor(t, u) /\ SameScene(t, u) /\ u.queue = t.queue /\ u.map = t.map
  /\ u.saved_state = t.saved_state /\ u.scroll_enabled /\ u.top = 0 /\ u.bottom = m
  /\ u.saved_attributes = t.saved_attributes
  /\ Looks(u, t.text_fg, t.text_bg, FALSE, FALSE, FALSE, NONE, NONE)
LEMMA ReinitIs ==
  ASSUME NEW n \in Nat, NEW m \in Nat, NEW t \in Context(n, m)
  PROVE  ReinitAs(t, flanterm_context_reinit(t), n, m)
<1>0. PICK G, M, Q, S, P : ContextAs(n, m, G, M, Q, S, P)
  BY FieldsAre
<1>1. PICK charsets \in S : charsets = <<"default", "dec_special">>
  BY <1>0, Pair DEF ContextAs
<1>2. PICK saved_cursor \in P : saved_cursor = <<0, 0>>
  BY <1>0 DEF ContextAs
<1>3. PICK none \in Int, one \in 1 .. 2 : none = NONE /\ one = 1
  BY DEF NONE
<1>4. PICK u : u = flanterm_context_reinit(t)
  OBVIOUS
<1>5. u = [t EXCEPT !.autoflush = TRUE, !.cursor_enabled = TRUE, !.scroll_enabled = TRUE,
            !.bold = FALSE, !.bg_bold = FALSE, !.reverse_video = FALSE, !.insert_mode = FALSE,
            !.charsets = charsets, !.current_charset = one,
            !.saved_cursor = saved_cursor, !.current_primary = none, !.current_bg = none,
            !.top = 0, !.bottom = t.rows, !.onlcr = TRUE]
  BY <1>1, <1>2, <1>3, <1>4 DEF flanterm_context_reinit
<1>6. t \in Fields(n, m, G, M, Q, S, P)
  BY <1>0 DEF ContextAs
<1>7. u \in Fields(n, m, G, M, Q, S, P)
  BY ONLY <1>5, <1>6, m \in Nat, charsets \in S, saved_cursor \in P, none \in Int, one \in 1 .. 2 DEF Fields
<1>8. /\ SameCursor(t, u) /\ SameScene(t, u) /\ u.queue = t.queue /\ u.map = t.map
      /\ u.saved_state = t.saved_state /\ u.scroll_enabled /\ u.top = 0 /\ u.bottom = m
  BY ONLY <1>5, <1>6 DEF Fields, SameCursor, SameScene
<1>9. u.saved_attributes = t.saved_attributes /\ Looks(u, t.text_fg, t.text_bg, FALSE, FALSE, FALSE, none, none)
  BY ONLY <1>5, <1>6 DEF Fields, Looks
<1> QED
  BY <1>0, <1>3, <1>4, <1>7, <1>8, <1>9 DEF ReinitAs, ContextAs

LEMMA ZeroedIs ==
  ASSUME NEW n \in Nat, NEW m \in Nat
  PROVE  /\ Zeroed(n, m) \in Context(n, m)
         /\ Zeroed(n, m).cursor_x = 0 /\ Zeroed(n, m).cursor_y = 0
         /\ Zeroed(n, m).old_cursor_x = 0 /\ Zeroed(n, m).old_cursor_y = 0
         /\ Zeroed(n, m).saved_state.x = 0 /\ Zeroed(n, m).saved_state.y = 0
         /\ Zeroed(n, m).text_fg = default_fg /\ Zeroed(n, m).text_bg = TRANSPARENT
         /\ Zeroed(n, m).queue = <<>> /\ \A i \in 0 .. m * n - 1 : Zeroed(n, m).map[i] = 0
<1>0. n * m = m * n
  BY ONLY n \in Nat, m \in Nat
<1>1. PICK fg \in Colour, bg \in Colour, clear_bg \in Colour, black \in Colour :
        fg = default_fg /\ bg = default_bg /\ clear_bg = TRANSPARENT /\ black = rgb(0)
  BY ColoursAre
<1>2. PICK grid \in [0 .. m * n - 1 -> Cell] :
        grid = [i \in 0 .. n * m - 1 |-> [c |-> Blank, fg |-> default_fg, bg |-> TRANSPARENT]]
  <2>1. [c |-> Blank, fg |-> fg, bg |-> clear_bg] \in Cell
    BY DEF Cell, Blank
  <2> QED
    BY <1>0, <1>1, <2>1
<1>3. PICK screen \in [0 .. m * n - 1 -> Cell] :
        screen = [i \in 0 .. n * m - 1 |-> [c |-> Blank, fg |-> default_bg, bg |-> default_bg]]
  <2>1. [c |-> Blank, fg |-> bg, bg |-> bg] \in Cell
    BY DEF Cell, Blank
  <2> QED
    BY <1>0, <1>1, <2>1
<1>4. PICK map \in [0 .. m * n - 1 -> Nat] : map = [i \in 0 .. n * m - 1 |-> 0]
  BY <1>0
<1>5. PICK queue \in Seq([i : 0 .. m * n - 1, c : Cell]) : queue = <<>>
  <2> DEFINE S == [i : 0 .. m * n - 1, c : Cell]
  <2>1. <<>> \in Seq(S)
    <3> HIDE DEF S
    <3> QED
      OBVIOUS
  <2> QED
    BY <2>1, Zenon
<1>6. PICK saved \in SavedState : saved = [x |-> 0, y |-> 0, fg |-> rgb(0), bg |-> rgb(0)]
  <2>1. [x |-> 0, y |-> 0, fg |-> black, bg |-> black] \in SavedState
    BY DEF SavedState
  <2> QED
    BY <1>1, <2>1
<1>7. PICK charsets \in [1 .. 2 -> {"default", "dec_special"}] : charsets = <<"default", "default">>
  BY Pair
<1>8. PICK saved_cursor \in Nat \X Nat : saved_cursor = <<0, 0>>
  OBVIOUS
<1>9. PICK attributes \in SavedAttributes :
         attributes = [bold |-> FALSE, bg_bold |-> FALSE, reverse_video |-> FALSE,
                       current_charset |-> 1, current_primary |-> 0, current_bg |-> 0]
  <2>1. [bold |-> FALSE, bg_bold |-> FALSE, reverse_video |-> FALSE,
         current_charset |-> 1, current_primary |-> 0, current_bg |-> 0] \in SavedAttributes
    BY DEF SavedAttributes
  <2> QED
    BY <2>1
<1>10. PICK t : t = Zeroed(n, m)
  OBVIOUS
<1>11. t = [cols |-> n, rows |-> m, grid |-> grid, map |-> map, queue |-> queue, screen |-> screen,
   cursor_x |-> 0, cursor_y |-> 0, old_cursor_x |-> 0, old_cursor_y |-> 0,
   text_fg |-> fg, text_bg |-> clear_bg, saved_state |-> saved,
   autoflush |-> FALSE, cursor_enabled |-> FALSE, scroll_enabled |-> FALSE,
   bold |-> FALSE, bg_bold |-> FALSE, reverse_video |-> FALSE, insert_mode |-> FALSE,
   charsets |-> charsets, current_charset |-> 1, saved_cursor |-> saved_cursor,
   current_primary |-> 0, current_bg |-> 0, top |-> 0, bottom |-> 0, onlcr |-> FALSE,
   saved_attributes |-> attributes]
  BY <1>1, <1>2, <1>3, <1>4, <1>5, <1>6, <1>7, <1>8, <1>9, <1>10, Zenon DEF Zeroed
<1>12. t \in Context(n, m)
  BY ONLY <1>11, n \in Nat, m \in Nat DEF Context
<1>13. /\ t.cursor_x = 0 /\ t.cursor_y = 0 /\ t.old_cursor_x = 0 /\ t.old_cursor_y = 0 /\ t.saved_state = saved /\ t.queue = queue /\ t.map = map
      /\ t.text_fg = fg /\ t.text_bg = clear_bg
  BY ONLY <1>11
<1>14. saved.x = 0 /\ saved.y = 0 /\ \A i \in 0 .. m * n - 1 : map[i] = 0
  BY <1>0, <1>4, <1>6
<1> QED
  BY <1>1, <1>5, <1>10, <1>12, <1>13, <1>14

(* The first context: nothing waits, the whole screen is the region and    *)
(* shows the text.                                                         *)
FirstAs(t, n, m, r) ==
  /\ t \in Context(n, m) /\ OnePer(t, r) /\ Clear(t) /\ t.top = 0 /\ t.bottom = m /\ t.scroll_enabled
  /\ t.cursor_x = 0 /\ t.cursor_y = 0 /\ t.saved_state.x = 0 /\ t.saved_state.y = 0
  /\ Looks(t, default_fg, TRANSPARENT, FALSE, FALSE, FALSE, NONE, NONE)
LEMMA FirstIs ==
  ASSUME NEW n \in Nat, NEW m \in Nat, NEW r
  PROVE  FirstAs(full_refresh(flanterm_context_reinit(Zeroed(n, m))), n, m, r)
<1>1. PICK z : z = Zeroed(n, m)
  OBVIOUS
<1>2. /\ z \in Context(n, m) /\ z.cursor_x = 0 /\ z.cursor_y = 0
      /\ z.old_cursor_x = 0 /\ z.old_cursor_y = 0
      /\ z.saved_state.x = 0 /\ z.saved_state.y = 0
      /\ z.queue = <<>> /\ \A i \in 0 .. m * n - 1 : z.map[i] = 0
      /\ z.text_fg = default_fg /\ z.text_bg = TRANSPARENT
  BY <1>1, ZeroedIs
<1>3. PICK t : t = flanterm_context_reinit(z)
  OBVIOUS
<1>4. ReinitAs(z, t, n, m)
  BY <1>2, <1>3, ReinitIs
<1>5. t \in Context(n, m) /\ t.queue = <<>> /\ \A i \in 0 .. m * n - 1 : t.map[i] = 0
  BY <1>2, <1>4 DEF ReinitAs
<1>6. OnePer(t, r)
  <2>1. Cells(t) = 0 .. m * n - 1
    BY <1>5 DEF Cells, Context
  <2>2. DOMAIN t.queue = {}
    BY <1>5
  <2> QED
    BY <1>5, <2>1, <2>2 DEF OnePer
<1>7. PICK u : u = full_refresh(t)
  OBVIOUS
<1>8. u \in Redrawn(t, r)
  BY <1>5, <1>6, <1>7, RefreshDraws
<1>9. u \in Context(n, m) /\ OnePer(u, r) /\ Holds(t, u) /\ SameCursor(t, u)
  BY <1>5, <1>8, RedrawnIs
<1>10. Looks(u, default_fg, TRANSPARENT, FALSE, FALSE, FALSE, NONE, NONE)
  <2>1. SameColours(t, u) /\ Looks(t, default_fg, TRANSPARENT, FALSE, FALSE, FALSE, NONE, NONE)
    BY <1>2, <1>4, <1>9 DEF ReinitAs, Holds
  <2> QED
    BY <2>1, Zenon DEF SameColours, SameScene, Looks
<1>11. Clear(u)
  <2>1. t.cursor_x = t.old_cursor_x /\ t.cursor_y = t.old_cursor_y
    BY <1>2, <1>4 DEF ReinitAs, SameCursor, SameScene
  <2> QED
    BY <1>5, <1>6, <1>7, <2>1, RefreshShows
<1> QED
  BY <1>1, <1>2, <1>3, <1>4, <1>7, <1>9, <1>10, <1>11 DEF FirstAs, ReinitAs, Holds, SameCursor

(* What the codes for colours leave alone. *)
SameFrame(t, u) ==
  /\ u.queue = t.queue /\ u.map = t.map /\ SameCursor(t, u) /\ SameScene(t, u)
  /\ u.top = t.top /\ u.bottom = t.bottom /\ u.scroll_enabled = t.scroll_enabled
  /\ u.saved_state = t.saved_state /\ u.saved_attributes = t.saved_attributes
Coloured(t) == {u \in Context(t.cols, t.rows) : SameFrame(t, u)}

Calm(t) == {u \in Coloured(t) : SameColours(t, u)}

Bolder(u, on) == [u EXCEPT !.bold = on]
Blinking(u, on) == [u EXCEPT !.bg_bold = on]
Reversing(u, on) == [u EXCEPT !.reverse_video = on]
Primary(u, k) == [u EXCEPT !.current_primary = k]
Background(u, k) == [u EXCEPT !.current_bg = k]

LEMMA ColouredIs ==
  ASSUME NEW n \in Nat, NEW m \in Nat, NEW t \in Context(n, m), NEW u \in Coloured(t)
  PROVE  /\ u \in Context(n, m) /\ SameFrame(t, u) /\ t.cols = n /\ t.rows = m
         /\ u.current_primary \in Int /\ u.current_bg \in Int
         /\ u.bold \in BOOLEAN /\ u.bg_bold \in BOOLEAN /\ u.reverse_video \in BOOLEAN
BY DEF Coloured, Context

LEMMA ColouredBy ==
  ASSUME NEW n \in Nat, NEW m \in Nat, NEW t \in Context(n, m), NEW u \in Coloured(t)
  PROVE  /\ t \in Coloured(t) /\ swap_palette(u) \in Coloured(t)
         /\ \A colour \in Colour : SetFg(u, colour) \in Coloured(t) /\ SetBg(u, colour) \in Coloured(t)
         /\ \A on \in BOOLEAN :
              Bolder(u, on) \in Coloured(t) /\ Blinking(u, on) \in Coloured(t) /\ Reversing(u, on) \in Coloured(t)
         /\ \A k \in Int : Primary(u, k) \in Coloured(t) /\ Background(u, k) \in Coloured(t)
<1>0. PICK G, M, Q, S, P : ContextAs(n, m, G, M, Q, S, P)
  BY FieldsAre
<1> DEFINE F == Fields(n, m, G, M, Q, S, P)
<1>1. t.cols = n /\ t.rows = m /\ u \in F /\ SameFrame(t, u) /\ t \in F
  BY <1>0, ColouredIs DEF ContextAs
<1>2. Coloured(t) = {v \in F : SameFrame(t, v)}
  BY <1>0, <1>1 DEF ContextAs, Coloured
<1>3. t \in Coloured(t)
  BY <1>1, <1>2 DEF SameFrame, SameCursor, SameScene
<1>4. swap_palette(u) \in F /\ SameFrame(t, swap_palette(u))
  BY ONLY <1>1 DEF Fields, swap_palette, SameFrame, SameCursor, SameScene
<1>5. ASSUME NEW colour \in Colour
      PROVE  /\ SetFg(u, colour) \in F /\ SameFrame(t, SetFg(u, colour))
             /\ SetBg(u, colour) \in F /\ SameFrame(t, SetBg(u, colour))
  BY ONLY <1>1, colour \in Colour DEF Fields, SetFg, SetBg, SameFrame, SameCursor, SameScene
<1>6. ASSUME NEW on \in BOOLEAN
      PROVE  /\ Bolder(u, on) \in F /\ SameFrame(t, Bolder(u, on))
             /\ Blinking(u, on) \in F /\ SameFrame(t, Blinking(u, on))
             /\ Reversing(u, on) \in F /\ SameFrame(t, Reversing(u, on))
  BY ONLY <1>1, on \in BOOLEAN DEF Fields, Bolder, Blinking, Reversing, SameFrame, SameCursor, SameScene
<1>7. ASSUME NEW k \in Int
      PROVE  /\ Primary(u, k) \in F /\ SameFrame(t, Primary(u, k))
             /\ Background(u, k) \in F /\ SameFrame(t, Background(u, k))
  BY ONLY <1>1, k \in Int DEF Fields, Primary, Background, SameFrame, SameCursor, SameScene
<1> HIDE DEF F
<1> QED
  BY <1>2, <1>3, <1>4, <1>5, <1>6, <1>7

LEMMA ReverseIs ==
  ASSUME NEW n \in Nat, NEW m \in Nat, NEW t \in Context(n, m), NEW u \in Coloured(t), NEW on \in BOOLEAN
  PROVE  Reverse(u, on) \in Coloured(t)
<1>1. PICK v : v = swap_palette(u)
  OBVIOUS
<1>2. v \in Coloured(t)
  BY <1>1, ColouredBy
<1>3. Reversing(v, on) \in Coloured(t)
  BY <1>2, ColouredBy
<1>4. Reverse(u, on) = IF u.reverse_video = on THEN u ELSE Reversing(v, on)
  BY <1>1 DEF Reverse, Reversing
<1> QED
  BY <1>3, <1>4

LEMMA ResetIs ==
  ASSUME NEW n \in Nat, NEW m \in Nat, NEW t \in Context(n, m), NEW u \in Coloured(t)
  PROVE  Reset(u) \in Coloured(t)
<1>0. PICK G, M, Q, S, P : ContextAs(n, m, G, M, Q, S, P)
  BY FieldsAre
<1> DEFINE F == Fields(n, m, G, M, Q, S, P)
<1>1. PICK v : v = Reverse(u, FALSE)
  OBVIOUS
<1>2. v \in Coloured(t)
  BY <1>1, ReverseIs
<1>3. t.cols = n /\ t.rows = m /\ v \in F /\ SameFrame(t, v)
  BY <1>0, <1>2, ColouredIs DEF ContextAs
<1>4. PICK fg \in Colour, bg \in Colour, none \in Int : fg = default_fg /\ bg = TRANSPARENT /\ none = NONE
  BY ColoursAre DEF NONE
<1>5. PICK w : w = Reset(u)
  OBVIOUS
<1>6. w = [v EXCEPT !.bold = FALSE, !.bg_bold = FALSE, !.current_primary = none, !.current_bg = none,
                    !.text_fg = fg, !.text_bg = bg]
  BY <1>1, <1>4, <1>5 DEF Reset
<1>7. w \in F /\ SameFrame(t, w)
  BY ONLY <1>3, <1>6, fg \in Colour, bg \in Colour, none \in Int DEF Fields, SameFrame, SameCursor, SameScene
<1> QED
  BY <1>0, <1>3, <1>5, <1>7 DEF Coloured, ContextAs

LEMMA WeightIs ==
  ASSUME NEW n \in Nat, NEW m \in Nat, NEW t \in Context(n, m), NEW u \in Coloured(t),
         NEW role, NEW number \in Int, NEW bright
  PROVE  Weight(u, role, number, bright) \in Coloured(t)
<1> DEFINE fg == (role = "fg") # u.reverse_video
           colour == IF number # NONE
                     THEN IF bright THEN ansi_bright_colours(number) ELSE ansi_colours(number)
                     ELSE IF fg THEN IF bright THEN default_fg_bright ELSE default_fg
                     ELSE IF bright THEN default_bg_bright ELSE TRANSPARENT
<1>1. colour \in Colour
  <2> HIDE DEF fg
  <2> QED
    BY ColoursAre
<1>2. Weight(u, role, number, bright) = IF fg THEN SetFg(u, colour) ELSE SetBg(u, colour)
  BY DEF Weight
<1> HIDE DEF colour, fg
<1>3. SetFg(u, colour) \in Coloured(t) /\ SetBg(u, colour) \in Coloured(t)
  BY <1>1, ColouredBy
<1> QED
  BY <1>2, <1>3

LEMMA PaintIs ==
  ASSUME NEW n \in Nat, NEW m \in Nat, NEW t \in Context(n, m), NEW u \in Coloured(t),
         NEW role, NEW number \in Int, NEW bright
  PROVE  Paint(u, role, number, bright) \in Coloured(t)
<1> DEFINE fg == (role = "fg") # u.reverse_video
           colour == IF bright THEN ansi_bright_colours(number) ELSE ansi_colours(number)
<1>1. colour \in Colour
  BY ColoursAre
<1>2. Paint(u, role, number, bright) = IF fg THEN SetFg(u, colour) ELSE SetBg(u, colour)
  BY DEF Paint
<1> HIDE DEF colour, fg
<1>3. SetFg(u, colour) \in Coloured(t) /\ SetBg(u, colour) \in Coloured(t)
  BY <1>1, ColouredBy
<1> QED
  BY <1>2, <1>3

LEMMA DefaultIs ==
  ASSUME NEW n \in Nat, NEW m \in Nat, NEW t \in Context(n, m), NEW u \in Coloured(t), NEW role
  PROVE  Default(u, role) \in Coloured(t)
<1>1. PICK swapped : swapped = IF u.reverse_video THEN swap_palette(u) ELSE u
  OBVIOUS
<1>2. swapped \in Coloured(t)
  BY <1>1, ColouredBy
<1>3. PICK fg \in Colour : fg = IF u.bold THEN default_fg_bright ELSE default_fg
  BY ColoursAre
<1>4. PICK bg \in Colour : bg = IF u.bg_bold THEN default_bg_bright ELSE TRANSPARENT
  BY ColoursAre
<1>5. PICK set : set = IF role = "fg" THEN SetFg(swapped, fg) ELSE SetBg(swapped, bg)
  OBVIOUS
<1>6. set \in Coloured(t)
  <2>1. SetFg(swapped, fg) \in Coloured(t) /\ SetBg(swapped, bg) \in Coloured(t)
    BY <1>2, ColouredBy
  <2> QED
    BY <1>5, <2>1
<1>7. Default(u, role) = IF u.reverse_video THEN swap_palette(set) ELSE set
  BY <1>1, <1>3, <1>4, <1>5 DEF Default
<1>8. swap_palette(set) \in Coloured(t)
  BY <1>6, ColouredBy
<1> QED
  BY <1>6, <1>7, <1>8

(* One code. *)
LEMMA SgrCodeIs ==
  ASSUME NEW n \in Nat, NEW m \in Nat, NEW t \in Context(n, m), NEW u \in Coloured(t), NEW v \in Int
  PROVE  SgrCode(u, v) \in Coloured(t)
<1>1. /\ u.current_primary \in Int /\ u.current_bg \in Int
      /\ v - 30 \in Int /\ v - 40 \in Int /\ v - 90 \in Int /\ v - 100 \in Int /\ NONE \in Int
  BY ColouredIs DEF NONE
<1>2. Reset(u) \in Coloured(t) /\ Reverse(u, TRUE) \in Coloured(t) /\ Reverse(u, FALSE) \in Coloured(t)
  BY ResetIs, ReverseIs
<1>3. ASSUME NEW on \in BOOLEAN
      PROVE  /\ Weight(Bolder(u, on), "fg", u.current_primary, on) \in Coloured(t)
             /\ Weight(Blinking(u, on), "bg", u.current_bg, on) \in Coloured(t)
  <2>1. Bolder(u, on) \in Coloured(t) /\ Blinking(u, on) \in Coloured(t)
    BY ColouredBy
  <2> QED
    BY <1>1, <2>1, WeightIs
<1>4. ASSUME NEW k \in Int, NEW on
      PROVE  /\ Paint(Primary(u, k), "fg", k, on) \in Coloured(t)
             /\ Paint(Background(u, k), "bg", k, on) \in Coloured(t)
  <2>1. Primary(u, k) \in Coloured(t) /\ Background(u, k) \in Coloured(t)
    BY ColouredBy
  <2> QED
    BY <2>1, PaintIs
<1>5. Default(Primary(u, NONE), "fg") \in Coloured(t) /\ Default(Background(u, NONE), "bg") \in Coloured(t)
  <2>1. Primary(u, NONE) \in Coloured(t) /\ Background(u, NONE) \in Coloured(t)
    BY <1>1, ColouredBy
  <2> QED
    BY <2>1, DefaultIs
<1>6. SgrCode(u, v) \in
        {Reset(u), Reverse(u, TRUE), Reverse(u, FALSE), u,
         Weight(Bolder(u, TRUE), "fg", u.current_primary, TRUE),
         Weight(Bolder(u, FALSE), "fg", u.current_primary, FALSE),
         Weight(Blinking(u, TRUE), "bg", u.current_bg, TRUE),
         Weight(Blinking(u, FALSE), "bg", u.current_bg, FALSE),
         Paint(Primary(u, v - 30), "fg", v - 30, u.bold), Paint(Primary(u, v - 90), "fg", v - 90, TRUE),
         Paint(Background(u, v - 40), "bg", v - 40, u.bg_bold),
         Paint(Background(u, v - 100), "bg", v - 100, TRUE),
         Default(Primary(u, NONE), "fg"), Default(Background(u, NONE), "bg")}
  BY DEF SgrCode, Bolder, Blinking, Primary, Background
<1>7. /\ Weight(Bolder(u, TRUE), "fg", u.current_primary, TRUE) \in Coloured(t)
      /\ Weight(Bolder(u, FALSE), "fg", u.current_primary, FALSE) \in Coloured(t)
      /\ Weight(Blinking(u, TRUE), "bg", u.current_bg, TRUE) \in Coloured(t)
      /\ Weight(Blinking(u, FALSE), "bg", u.current_bg, FALSE) \in Coloured(t)
  BY <1>3
<1>8. /\ Paint(Primary(u, v - 30), "fg", v - 30, u.bold) \in Coloured(t)
      /\ Paint(Primary(u, v - 90), "fg", v - 90, TRUE) \in Coloured(t)
      /\ Paint(Background(u, v - 40), "bg", v - 40, u.bg_bold) \in Coloured(t)
      /\ Paint(Background(u, v - 100), "bg", v - 100, TRUE) \in Coloured(t)
  BY <1>1, <1>4
<1> QED
  BY <1>2, <1>5, <1>6, <1>7, <1>8, Zenon

(* The colours of the extended palettes. *)
LEMMA PaletteIs ==
  ASSUME NEW k \in Nat
  PROVE  col256(k) \in Colour
<1> DEFINE level == <<0, 95, 135, 175, 215, 255>>
<1>1. CASE k < 216
  <2>1. (k \div 36) + 1 \in 1 .. 6 /\ ((k \div 6) % 6) + 1 \in 1 .. 6 /\ (k % 6) + 1 \in 1 .. 6
    BY <1>1
  <2>2. \A i \in 1 .. 6 : level[i] \in Nat
    OBVIOUS
  <2>3. PICK r \in Nat, g \in Nat, b \in Nat :
          r = level[(k \div 36) + 1] /\ g = level[((k \div 6) % 6) + 1] /\ b = level[(k % 6) + 1]
    <3> HIDE DEF level
    <3> QED
      BY <2>1, <2>2
  <2>4. col256(k) = rgb(65536 * r + 256 * g + b)
    BY <1>1, <2>3 DEF col256
  <2>5. 65536 * r + 256 * g + b \in Int
    OBVIOUS
  <2> QED
    BY <2>4, <2>5, ColoursAre
<1>2. CASE ~(k < 216)
  <2>1. PICK grey \in Int : grey = 8 + 10 * (k - 216)
    OBVIOUS
  <2>2. col256(k) = rgb(65536 * grey + 256 * grey + grey)
    BY <1>2, <2>1 DEF col256
  <2>3. 65536 * grey + 256 * grey + grey \in Int
    OBVIOUS
  <2> QED
    BY <2>2, <2>3, ColoursAre
<1> QED
  BY <1>1, <1>2

LEMMA ExtendedIs ==
  ASSUME NEW n \in Nat, NEW m \in Nat, NEW t \in Context(n, m), NEW u \in Coloured(t), NEW fg,
         NEW values \in [Values -> Nat], NEW k \in 0 .. FLANTERM_MAX_ESC_VALUES, NEW i \in 0 .. k - 1
  PROVE  Extended(u, fg, values, i, k) \in [ctx : Coloured(t), next : Nat]
<1> DEFINE Set(colour) == IF fg THEN SetFg(u, colour) ELSE SetBg(u, colour)
           R == [ctx : Coloured(t), next : Nat]
<1>0. \A j \in 0 .. k - 1 : values[j] \in Nat
  <2>1. FLANTERM_MAX_ESC_VALUES \in Nat
    BY FlantermAssumption
  <2> QED
    BY <2>1 DEF Values
<1>1. \A colour \in Colour : Set(colour) \in Coloured(t)
  BY ColouredBy
<1>2. \A v \in Coloured(t) : \A j \in Nat : [ctx |-> v, next |-> j] \in R
  OBVIOUS
<1>3. k \in Nat /\ i \in Nat /\ i + 2 \in Nat /\ i + 3 \in Nat /\ i + 5 \in Nat
  BY FlantermAssumption
<1>4. CASE i + 1 >= k
  <2>1. Extended(u, fg, values, i, k) = [ctx |-> u, next |-> k]
    BY <1>4 DEF Extended
  <2> QED
    BY <1>2, <1>3, <2>1
<1>5. CASE ~(i + 1 >= k) /\ values[i + 1] = 2
  <2>1. CASE i + 4 >= k
    <3>1. Extended(u, fg, values, i, k) = [ctx |-> u, next |-> k]
      BY <1>5, <2>1 DEF Extended
    <3> QED
      BY <1>2, <1>3, <3>1
  <2>2. CASE ~(i + 4 >= k)
    <3>1. PICK r \in Nat, g \in Nat, b \in Nat :
            r = values[i + 2] /\ g = values[i + 3] /\ b = values[i + 4]
      BY <1>0, <1>3, <2>2
    <3>2. PICK colour \in Colour : colour = rgb(65536 * r + 256 * g + b)
      <4>1. 65536 * r + 256 * g + b \in Int
        OBVIOUS
      <4> QED
        BY <4>1, ColoursAre
    <3>3. Extended(u, fg, values, i, k) = [ctx |-> Set(colour), next |-> i + 5]
      BY <1>5, <2>2, <3>1, <3>2 DEF Extended
    <3> HIDE DEF Set, R
    <3> QED
      BY <1>1, <1>2, <1>3, <3>3
  <2> QED
    BY <2>1, <2>2
<1>6. CASE ~(i + 1 >= k) /\ values[i + 1] # 2 /\ values[i + 1] = 5
  <2>1. CASE i + 2 >= k
    <3>1. Extended(u, fg, values, i, k) = [ctx |-> u, next |-> k]
      BY <1>6, <2>1 DEF Extended
    <3> QED
      BY <1>2, <1>3, <3>1
  <2>2. CASE ~(i + 2 >= k)
    <3>1. PICK col \in Nat : col = values[i + 2]
      BY <1>0, <1>3, <2>2
    <3>2. PICK v : v = IF col < 8 THEN Set(ansi_colours(col))
                       ELSE IF col < 16 THEN Set(ansi_bright_colours(col - 8))
                       ELSE IF col < 256 THEN Set(col256(col - 16)) ELSE u
      OBVIOUS
    <3>3. v \in Coloured(t)
      <4>1. ansi_colours(col) \in Colour /\ ansi_bright_colours(col - 8) \in Colour
        BY ColoursAre
      <4>2. ~(col < 16) => col256(col - 16) \in Colour
        <5>1. ~(col < 16) => col - 16 \in Nat
          OBVIOUS
        <5> QED
          BY <5>1, PaletteIs
      <4> HIDE DEF Set
      <4> QED
        BY <1>1, <3>2, <4>1, <4>2
    <3>4. Extended(u, fg, values, i, k) = [ctx |-> v, next |-> i + 3]
      BY <1>6, <2>2, <3>1, <3>2 DEF Extended
    <3> QED
      BY <1>2, <1>3, <3>3, <3>4
  <2> QED
    BY <2>1, <2>2
<1>7. CASE ~(i + 1 >= k) /\ values[i + 1] # 2 /\ values[i + 1] # 5
  <2>1. Extended(u, fg, values, i, k) = [ctx |-> u, next |-> i + 2]
    BY <1>7 DEF Extended
  <2> QED
    BY <1>2, <1>3, <2>1
<1> QED
  BY <1>4, <1>5, <1>6, <1>7

(* The turns over the codes of a sequence: the context and the next value. *)
SgrTurn(u, values, N) ==
  IF u.next >= N THEN u
  ELSE IF values[u.next] \in {38, 48} THEN Extended(u.ctx, values[u.next] = 38, values, u.next, N)
  ELSE [ctx |-> SgrCode(u.ctx, values[u.next]), next |-> u.next + 1]
SgrTurns(t, values, N, f) ==
  /\ f[0] = [ctx |-> IF N = 0 THEN Reset(t) ELSE t, next |-> 0]
  /\ \A k \in 1 .. N : f[k] = SgrTurn(f[k - 1], values, N)
  /\ \A k \in 0 .. N : f[k] \in [ctx : Coloured(t), next : Nat]
  /\ sgr(t, values, N) = f[N].ctx
LEMMA SgrRuns ==
  ASSUME NEW n \in Nat, NEW m \in Nat, NEW t \in Context(n, m),
         NEW values \in [Values -> Nat], NEW N \in 0 .. FLANTERM_MAX_ESC_VALUES
  PROVE  \E f : SgrTurns(t, values, N, f)
<1>0. N \in Nat /\ FLANTERM_MAX_ESC_VALUES \in Nat /\ t \in Coloured(t)
  <2>1. N \in Nat /\ FLANTERM_MAX_ESC_VALUES \in Nat
    BY FlantermAssumption
  <2>2. t.cols = n /\ t.rows = m
    BY DEF Context
  <2>3. SameFrame(t, t)
    BY DEF SameFrame, SameCursor, SameScene
  <2> QED
    BY <2>1, <2>2, <2>3 DEF Coloured
<1>00. PICK w : w = [ctx |-> IF N = 0 THEN Reset(t) ELSE t, next |-> 0]
  OBVIOUS
<1> DEFINE V == [ctx : Coloured(t), next : Nat]
           Op(u) == SgrTurn(u, values, N)
           Eq(f) == [k \in 0 .. N |-> IF k = 0 THEN w ELSE Op(f[k - 1])]
           after == CHOOSE f : f = Eq(f)
           F == [k \in 1 .. N |-> [u \in V |-> Op(u)]]
<1>1. w \in V
  <2>1. (IF N = 0 THEN Reset(t) ELSE t) \in Coloured(t)
    BY <1>0, ResetIs
  <2> QED
    BY <1>00, <2>1
<1>2. \A u \in V : Op(u) \in V
  <2> SUFFICES ASSUME NEW u \in V PROVE Op(u) \in V
    OBVIOUS
  <2>1. u.ctx \in Coloured(t) /\ u.next \in Nat
    OBVIOUS
  <2>2. CASE u.next >= N
    BY <2>2 DEF SgrTurn
  <2>3. CASE ~(u.next >= N)
    <3>1. u.next \in 0 .. N - 1 /\ u.next \in Values
      BY <1>0, <2>1, <2>3 DEF Values
    <3>2. values[u.next] \in Nat /\ values[u.next] \in Int
      BY <3>1
    <3>3. Extended(u.ctx, values[u.next] = 38, values, u.next, N) \in V
      BY <2>1, <3>1, ExtendedIs
    <3>4. SgrCode(u.ctx, values[u.next]) \in Coloured(t)
      BY <2>1, <3>2, SgrCodeIs
    <3>5. [ctx |-> SgrCode(u.ctx, values[u.next]), next |-> u.next + 1] \in V
      BY <2>1, <3>4
    <3> QED
      BY <2>3, <3>3, <3>5 DEF SgrTurn
  <2> QED
    BY <2>2, <2>3
<1>3. after = Eq(after)
  <2>1. PICK g : Taking(N, V, w, F, g)
    <3> HIDE DEF V, Op
    <3> QED
      BY <1>0, <1>1, <1>2, Loop
  <2>2. ASSUME NEW k \in 0 .. N, k # 0 PROVE g[k] = Op(g[k - 1])
    <3>1. k \in 1 .. N /\ k - 1 \in 0 .. N
      BY <2>2
    <3>2. g[k - 1] \in V /\ g[k] = F[k][g[k - 1]]
      BY <2>1, <3>1 DEF Taking
    <3> HIDE DEF V, Op
    <3> QED
      BY <3>1, <3>2
  <2>3. g = Eq(g)
    <3> HIDE DEF V, Op
    <3> QED
      BY <2>1, <2>2 DEF Taking
  <2> HIDE DEF Eq
  <2> QED
    BY <2>3
<1>4. /\ \A k \in 1 .. N : after[k] = Op(after[k - 1])
      /\ \A k \in 0 .. N : after[k] \in V
  <2> DEFINE S == [k \in 0 .. N |-> V]
  <2> HIDE DEF after, V, Op
  <2>1. after[0] \in S[0]
    BY <1>1, <1>3
  <2>2. \A k \in 1 .. N : after[k] = Op(after[k - 1])
    BY <1>3
  <2>3. \A k \in 1 .. N : after[k - 1] \in S[k - 1] => after[k] \in S[k]
    BY <1>2, <2>2
  <2>4. \A k \in 0 .. N : after[k] \in S[k]
    <3> HIDE DEF S
    <3> QED
      BY <2>1, <2>3, <1>0, Stays
  <2> QED
    BY <2>2, <2>4
<1>5. after[0] = w
  <2> HIDE DEF after, Op
  <2> QED
    BY <1>3
<1>6. sgr(t, values, N) = after[N].ctx
  BY <1>00 DEF sgr, SgrTurn
<1> HIDE DEF after
<1> QED
  BY <1>00, <1>4, <1>5, <1>6 DEF SgrTurns

LEMMA SgrIs ==
  ASSUME NEW n \in Nat, NEW m \in Nat, NEW t \in Context(n, m),
         NEW values \in [Values -> Nat], NEW N \in 0 .. FLANTERM_MAX_ESC_VALUES
  PROVE  sgr(t, values, N) \in Coloured(t)
<1>1. PICK f : SgrTurns(t, values, N, f)
  BY SgrRuns
<1>2. f[N] \in [ctx : Coloured(t), next : Nat]
  BY <1>1, FlantermAssumption DEF SgrTurns
<1> QED
  BY <1>1, <1>2 DEF SgrTurns

LEMMA LooksRoles ==
  ASSUME NEW t, NEW fg, NEW bg, NEW reverse, NEW bold, NEW blink, NEW primary, NEW back,
         Looks(t, fg, bg, reverse, bold, blink, primary, back)
  PROVE  Roles(t) <=> Tells(fg, bg, reverse, bold, blink, primary, back)
BY Zenon DEF Looks, Roles

LEMMA LooksIs ==
  ASSUME NEW n \in Nat, NEW m \in Nat, NEW t \in Context(n, m), NEW u \in Coloured(t)
  PROVE  \E fg, bg : \E reverse, bold, blink \in BOOLEAN : \E primary, back \in Int :
           Looks(u, fg, bg, reverse, bold, blink, primary, back)
<1>1. /\ u.current_primary \in Int /\ u.current_bg \in Int
      /\ u.bold \in BOOLEAN /\ u.bg_bold \in BOOLEAN /\ u.reverse_video \in BOOLEAN
  BY ColouredIs
<1> QED
  BY <1>1, Zenon DEF Looks

(* What the steps of the codes do to the looks. *)
LEMMA SwapLooks ==
  ASSUME NEW n \in Nat, NEW m \in Nat, NEW t \in Context(n, m), NEW u \in Coloured(t),
         NEW fg, NEW bg, NEW reverse, NEW bold, NEW blink, NEW primary, NEW back,
         Looks(u, fg, bg, reverse, bold, blink, primary, back)
  PROVE  Looks(swap_palette(u), bg, fg, reverse, bold, blink, primary, back)
<1>0. PICK G, M, Q, S, P : ContextAs(n, m, G, M, Q, S, P)
  BY FieldsAre
<1>1. u \in Fields(n, m, G, M, Q, S, P)
  BY <1>0, ColouredIs DEF ContextAs
<1>2. Looks(u, fg, bg, reverse, bold, blink, primary, back)
  OBVIOUS
<1> QED
  BY ONLY <1>1, <1>2 DEF Fields, Looks, swap_palette

LEMMA SetLooks ==
  ASSUME NEW n \in Nat, NEW m \in Nat, NEW t \in Context(n, m), NEW u \in Coloured(t),
         NEW fg, NEW bg, NEW reverse, NEW bold, NEW blink, NEW primary, NEW back,
         Looks(u, fg, bg, reverse, bold, blink, primary, back), NEW x
  PROVE  /\ Looks(SetFg(u, x), x, bg, reverse, bold, blink, primary, back)
         /\ Looks(SetBg(u, x), fg, x, reverse, bold, blink, primary, back)
<1>0. PICK G, M, Q, S, P : ContextAs(n, m, G, M, Q, S, P)
  BY FieldsAre
<1>1. u \in Fields(n, m, G, M, Q, S, P)
  BY <1>0, ColouredIs DEF ContextAs
<1>2. Looks(u, fg, bg, reverse, bold, blink, primary, back)
  OBVIOUS
<1> QED
  BY ONLY <1>1, <1>2 DEF Fields, Looks, SetFg, SetBg

LEMMA NumberLooks ==
  ASSUME NEW n \in Nat, NEW m \in Nat, NEW t \in Context(n, m), NEW u \in Coloured(t),
         NEW fg, NEW bg, NEW reverse, NEW bold, NEW blink, NEW primary, NEW back,
         Looks(u, fg, bg, reverse, bold, blink, primary, back), NEW x
  PROVE  /\ Looks(Primary(u, x), fg, bg, reverse, bold, blink, x, back)
         /\ Looks(Background(u, x), fg, bg, reverse, bold, blink, primary, x)
<1>0. PICK G, M, Q, S, P : ContextAs(n, m, G, M, Q, S, P)
  BY FieldsAre
<1>1. u \in Fields(n, m, G, M, Q, S, P)
  BY <1>0, ColouredIs DEF ContextAs
<1>2. Looks(u, fg, bg, reverse, bold, blink, primary, back)
  OBVIOUS
<1> QED
  BY ONLY <1>1, <1>2 DEF Fields, Looks, Primary, Background

LEMMA FlagLooks ==
  ASSUME NEW n \in Nat, NEW m \in Nat, NEW t \in Context(n, m), NEW u \in Coloured(t),
         NEW fg, NEW bg, NEW reverse, NEW bold, NEW blink, NEW primary, NEW back,
         Looks(u, fg, bg, reverse, bold, blink, primary, back), NEW on \in BOOLEAN
  PROVE  /\ Looks(Bolder(u, on), fg, bg, reverse, on, blink, primary, back)
         /\ Looks(Blinking(u, on), fg, bg, reverse, bold, on, primary, back)
         /\ Looks(Reversing(u, on), fg, bg, on, bold, blink, primary, back)
<1>0. PICK G, M, Q, S, P : ContextAs(n, m, G, M, Q, S, P)
  BY FieldsAre
<1>1. u \in Fields(n, m, G, M, Q, S, P)
  BY <1>0, ColouredIs DEF ContextAs
<1>2. Looks(u, fg, bg, reverse, bold, blink, primary, back)
  OBVIOUS
<1> QED
  BY ONLY <1>1, <1>2, on \in BOOLEAN DEF Fields, Looks, Bolder, Blinking, Reversing

(* The colours in their roles: the first for the text, the second behind it. *)
Role(fg, bg, reverse, front, behind) ==
  (IF reverse THEN bg ELSE fg) = front /\ (IF reverse THEN fg ELSE bg) = behind

LEMMA ReverseLooks ==
  ASSUME NEW n \in Nat, NEW m \in Nat, NEW t \in Context(n, m), NEW u \in Coloured(t),
         NEW fg, NEW bg, NEW reverse \in BOOLEAN, NEW bold \in BOOLEAN, NEW blink \in BOOLEAN,
         NEW primary \in Int, NEW back \in Int,
         Looks(u, fg, bg, reverse, bold, blink, primary, back), NEW on \in BOOLEAN
  PROVE  \E f, b : /\ Looks(Reverse(u, on), f, b, on, bold, blink, primary, back)
                   /\ Role(f, b, on, IF reverse THEN bg ELSE fg, IF reverse THEN fg ELSE bg)
<1>1. PICK v : v = swap_palette(u)
  OBVIOUS
<1>2. Looks(v, bg, fg, reverse, bold, blink, primary, back)
  BY <1>1, SwapLooks
<1>3. v \in Coloured(t)
  BY <1>1, ColouredBy
<1>4. Looks(Reversing(v, on), bg, fg, on, bold, blink, primary, back)
  BY <1>2, <1>3, FlagLooks
<1>5. u.reverse_video = reverse
  BY DEF Looks
<1>6. Reverse(u, on) = IF reverse = on THEN u ELSE Reversing(v, on)
  BY <1>1, <1>5 DEF Reverse, Reversing
<1>7. CASE reverse = on
  <2>1. Looks(Reverse(u, on), fg, bg, on, bold, blink, primary, back)
    BY <1>6, <1>7
  <2>2. Role(fg, bg, on, IF reverse THEN bg ELSE fg, IF reverse THEN fg ELSE bg)
    BY <1>7, Zenon DEF Role
  <2> QED
    BY <2>1, <2>2
<1>8. CASE reverse # on
  <2>1. Looks(Reverse(u, on), bg, fg, on, bold, blink, primary, back)
    BY <1>4, <1>6, <1>8
  <2>2. Role(bg, fg, on, IF reverse THEN bg ELSE fg, IF reverse THEN fg ELSE bg)
    BY <1>8 DEF Role
  <2> QED
    BY <2>1, <2>2
<1> QED
  BY <1>7, <1>8

LEMMA ResetLooks ==
  ASSUME NEW n \in Nat, NEW m \in Nat, NEW t \in Context(n, m), NEW u \in Coloured(t)
  PROVE  Looks(Reset(u), default_fg, TRANSPARENT, FALSE, FALSE, FALSE, NONE, NONE)
<1>0. PICK G, M, Q, S, P : ContextAs(n, m, G, M, Q, S, P)
  BY FieldsAre
<1>1. PICK v : v = Reverse(u, FALSE)
  OBVIOUS
<1>2. v \in Coloured(t)
  BY <1>1, ReverseIs
<1>3. v \in Fields(n, m, G, M, Q, S, P)
  BY <1>0, <1>2, ColouredIs DEF ContextAs
<1>4. PICK f, b, bold, blink, p, k : Looks(v, f, b, FALSE, bold, blink, p, k)
  <2>1. PICK fg, bg : \E reverse, bold, blink \in BOOLEAN : \E primary, back \in Int :
           Looks(u, fg, bg, reverse, bold, blink, primary, back)
    BY LooksIs
  <2>2. PICK reverse \in BOOLEAN, bold \in BOOLEAN, blink \in BOOLEAN, primary \in Int, back \in Int :
          Looks(u, fg, bg, reverse, bold, blink, primary, back)
    BY <2>1
  <2>3. PICK off \in BOOLEAN : off = FALSE
    OBVIOUS
  <2>4. \E f, b : Looks(Reverse(u, off), f, b, off, bold, blink, primary, back)
    BY <2>2, ReverseLooks
  <2> QED
    BY <1>1, <2>3, <2>4
<1>5. PICK fg, bg, none : fg = default_fg /\ bg = TRANSPARENT /\ none = NONE
  OBVIOUS
<1>6. PICK w : w = Reset(u)
  OBVIOUS
<1>7. w = [v EXCEPT !.bold = FALSE, !.bg_bold = FALSE, !.current_primary = none, !.current_bg = none,
                    !.text_fg = fg, !.text_bg = bg]
  BY <1>1, <1>5, <1>6 DEF Reset
<1>8. v.reverse_video = FALSE
  BY <1>4 DEF Looks
<1>9. Looks(w, fg, bg, FALSE, FALSE, FALSE, none, none)
  BY ONLY <1>3, <1>7, <1>8 DEF Fields, Looks
<1> QED
  BY <1>5, <1>6, <1>9

(* In plain video a weight sets the colour of its role. *)
Weighted(role, number, bright) ==
  IF number # NONE THEN IF bright THEN ansi_bright_colours(number) ELSE ansi_colours(number)
  ELSE IF role = "fg" THEN IF bright THEN default_fg_bright ELSE default_fg
  ELSE IF bright THEN default_bg_bright ELSE TRANSPARENT
LEMMA WeightLooks ==
  ASSUME NEW n \in Nat, NEW m \in Nat, NEW t \in Context(n, m), NEW u \in Coloured(t),
         NEW fg, NEW bg, NEW reverse \in BOOLEAN, NEW bold \in BOOLEAN, NEW blink \in BOOLEAN,
         NEW primary \in Int, NEW back \in Int,
         Looks(u, fg, bg, reverse, bold, blink, primary, back),
         NEW role \in {"fg", "bg"}, NEW number, NEW bright
  PROVE  \E f, b : /\ Looks(Weight(u, role, number, bright), f, b, reverse, bold, blink, primary, back)
                   /\ ~reverse /\ role = "fg" => f = Weighted("fg", number, bright) /\ b = bg
                   /\ ~reverse /\ role = "bg" => f = fg /\ b = Weighted("bg", number, bright)
<1> DEFINE front == (role = "fg") # u.reverse_video
           colour == IF number # NONE
                     THEN IF bright THEN ansi_bright_colours(number) ELSE ansi_colours(number)
                     ELSE IF front THEN IF bright THEN default_fg_bright ELSE default_fg
                     ELSE IF bright THEN default_bg_bright ELSE TRANSPARENT
<1>1. Weight(u, role, number, bright) = IF front THEN SetFg(u, colour) ELSE SetBg(u, colour)
  BY DEF Weight
<1>2. /\ Looks(SetFg(u, colour), colour, bg, reverse, bold, blink, primary, back)
      /\ Looks(SetBg(u, colour), fg, colour, reverse, bold, blink, primary, back)
  <2> HIDE DEF colour
  <2> QED
    BY SetLooks
<1>3. u.reverse_video = reverse
  BY DEF Looks
<1>4. ~reverse => (front <=> role = "fg")
  BY <1>3
<1>5. ~reverse /\ role = "fg" => colour = Weighted("fg", number, bright)
  <2> HIDE DEF front
  <2> QED
    BY <1>4, Zenon DEF Weighted
<1>6. ~reverse /\ role = "bg" => colour = Weighted("bg", number, bright)
  <2>1. role = "bg" => role # "fg"
    OBVIOUS
  <2> HIDE DEF front
  <2>2. "bg" # "fg"
    OBVIOUS
  <2> QED
    BY <1>4, <2>1, <2>2, Zenon DEF Weighted
<1> HIDE DEF colour, front
<1>7. CASE front
  BY <1>1, <1>2, <1>4, <1>5, <1>7
<1>8. CASE ~front
  BY <1>1, <1>2, <1>4, <1>6, <1>8
<1> QED
  BY <1>7, <1>8

(* A colour of the palette is set in its role. *)
LEMMA PaintLooks ==
  ASSUME NEW n \in Nat, NEW m \in Nat, NEW t \in Context(n, m), NEW u \in Coloured(t),
         NEW fg, NEW bg, NEW reverse \in BOOLEAN, NEW bold \in BOOLEAN, NEW blink \in BOOLEAN,
         NEW primary \in Int, NEW back \in Int,
         Looks(u, fg, bg, reverse, bold, blink, primary, back),
         NEW role \in {"fg", "bg"}, NEW number, NEW bright,
         NEW colour, colour = IF bright THEN ansi_bright_colours(number) ELSE ansi_colours(number)
  PROVE  \E f, b : /\ Looks(Paint(u, role, number, bright), f, b, reverse, bold, blink, primary, back)
                   /\ role = "fg" => Role(f, b, reverse, colour, IF reverse THEN fg ELSE bg)
                   /\ role = "bg" => Role(f, b, reverse, IF reverse THEN bg ELSE fg, colour)
<1> DEFINE front == (role = "fg") # u.reverse_video
<1>1. Paint(u, role, number, bright) = IF front THEN SetFg(u, colour) ELSE SetBg(u, colour)
  BY DEF Paint
<1>2. /\ Looks(SetFg(u, colour), colour, bg, reverse, bold, blink, primary, back)
      /\ Looks(SetBg(u, colour), fg, colour, reverse, bold, blink, primary, back)
  BY SetLooks
<1>3. u.reverse_video = reverse
  BY DEF Looks
<1>4. front <=> (role = "fg") # reverse
  BY <1>3
<1> HIDE DEF front
<1>5. CASE front
  <2>1. Looks(Paint(u, role, number, bright), colour, bg, reverse, bold, blink, primary, back)
    BY <1>1, <1>2, <1>5
  <2>2. /\ role = "fg" => Role(colour, bg, reverse, colour, IF reverse THEN fg ELSE bg)
        /\ role = "bg" => Role(colour, bg, reverse, IF reverse THEN bg ELSE fg, colour)
    BY <1>4, <1>5 DEF Role
  <2> QED
    BY <2>1, <2>2
<1>6. CASE ~front
  <2>1. Looks(Paint(u, role, number, bright), fg, colour, reverse, bold, blink, primary, back)
    BY <1>1, <1>2, <1>6
  <2>2. /\ role = "fg" => Role(fg, colour, reverse, colour, IF reverse THEN fg ELSE bg)
        /\ role = "bg" => Role(fg, colour, reverse, IF reverse THEN bg ELSE fg, colour)
    BY <1>4, <1>6 DEF Role
  <2> QED
    BY <2>1, <2>2
<1> QED
  BY <1>5, <1>6

LEMMA DefaultLooks ==
  ASSUME NEW n \in Nat, NEW m \in Nat, NEW t \in Context(n, m), NEW u \in Coloured(t),
         NEW fg, NEW bg, NEW reverse \in BOOLEAN, NEW bold \in BOOLEAN, NEW blink \in BOOLEAN,
         NEW primary \in Int, NEW back \in Int,
         Looks(u, fg, bg, reverse, bold, blink, primary, back), NEW role \in {"fg", "bg"}
  PROVE  \E f, b :
           /\ Looks(Default(u, role), f, b, reverse, bold, blink, primary, back)
           /\ role = "fg" => Role(f, b, reverse, IF bold THEN default_fg_bright ELSE default_fg,
                                  IF reverse THEN fg ELSE bg)
           /\ role = "bg" => Role(f, b, reverse, IF reverse THEN bg ELSE fg,
                                  IF blink THEN default_bg_bright ELSE TRANSPARENT)
<1>1. u.reverse_video = reverse /\ u.bold = bold /\ u.bg_bold = blink
  BY DEF Looks
<1>2. PICK front, behind : front = (IF reverse THEN bg ELSE fg) /\ behind = (IF reverse THEN fg ELSE bg)
  OBVIOUS
<1>3. PICK s : s = IF u.reverse_video THEN swap_palette(u) ELSE u
  OBVIOUS
<1>4. s \in Coloured(t)
  BY <1>3, ColouredBy
<1>5. Looks(s, front, behind, reverse, bold, blink, primary, back)
  <2>1. Looks(swap_palette(u), bg, fg, reverse, bold, blink, primary, back)
    BY SwapLooks
  <2> QED
    BY <1>1, <1>2, <1>3, <2>1
<1>6. PICK x : x = IF role = "fg" THEN IF bold THEN default_fg_bright ELSE default_fg
                   ELSE IF blink THEN default_bg_bright ELSE TRANSPARENT
  OBVIOUS
<1>7. x \in Colour
  BY <1>6, ColoursAre
<1>8. PICK w : w = IF role = "fg" THEN SetFg(s, x) ELSE SetBg(s, x)
  OBVIOUS
<1>9. w \in Coloured(t)
  <2>1. SetFg(s, x) \in Coloured(t) /\ SetBg(s, x) \in Coloured(t)
    BY <1>4, <1>7, ColouredBy
  <2> QED
    BY <1>8, <2>1
<1>10. PICK f, b : /\ Looks(w, f, b, reverse, bold, blink, primary, back)
                   /\ role = "fg" => f = x /\ b = behind
                   /\ role = "bg" => f = front /\ b = x
  <2>1. /\ Looks(SetFg(s, x), x, behind, reverse, bold, blink, primary, back)
        /\ Looks(SetBg(s, x), front, x, reverse, bold, blink, primary, back)
    BY <1>4, <1>5, SetLooks
  <2> QED
    BY <1>8, <2>1
<1>11. Looks(swap_palette(w), b, f, reverse, bold, blink, primary, back)
  BY <1>9, <1>10, SwapLooks
<1>12. Default(u, role) = IF reverse THEN swap_palette(w) ELSE w
  BY <1>1, <1>3, <1>6, <1>8, Zenon DEF Default
<1>13. PICK i, j : i = (IF reverse THEN b ELSE f) /\ j = (IF reverse THEN f ELSE b)
  OBVIOUS
<1>14. Looks(Default(u, role), i, j, reverse, bold, blink, primary, back)
  BY <1>10, <1>11, <1>12, <1>13
<1>15. Role(i, j, reverse, f, b)
  BY <1>13 DEF Role
<1> QED
  BY <1>2, <1>6, <1>10, <1>14, <1>15 DEF Role

(* A code that is no extended colour, and no weight in reverse video,      *)
(* keeps the roles; 0 sets them.                                           *)
Turned(v, reverse) == IF v \in {0, 27} THEN FALSE ELSE IF v = 7 THEN TRUE ELSE reverse
CodeAs(u, v) ==
  /\ v = 0 => SgrCode(u, v) = Reset(u)
  /\ v = 1 => SgrCode(u, v) = Weight(Bolder(u, TRUE), "fg", u.current_primary, TRUE)
  /\ v = 5 => SgrCode(u, v) = Weight(Blinking(u, TRUE), "bg", u.current_bg, TRUE)
  /\ v = 22 => SgrCode(u, v) = Weight(Bolder(u, FALSE), "fg", u.current_primary, FALSE)
  /\ v = 25 => SgrCode(u, v) = Weight(Blinking(u, FALSE), "bg", u.current_bg, FALSE)
  /\ v \in 30 .. 37 => SgrCode(u, v) = Paint(Primary(u, v - 30), "fg", v - 30, u.bold)
  /\ v \in 40 .. 47 => SgrCode(u, v) = Paint(Background(u, v - 40), "bg", v - 40, u.bg_bold)
  /\ v \in 90 .. 97 => SgrCode(u, v) = Paint(Primary(u, v - 90), "fg", v - 90, TRUE)
  /\ v \in 100 .. 107 => SgrCode(u, v) = Paint(Background(u, v - 100), "bg", v - 100, TRUE)
  /\ v = 39 => SgrCode(u, v) = Default(Primary(u, NONE), "fg")
  /\ v = 49 => SgrCode(u, v) = Default(Background(u, NONE), "bg")
  /\ v = 7 => SgrCode(u, v) = Reverse(u, TRUE)
  /\ v = 27 => SgrCode(u, v) = Reverse(u, FALSE)
  /\ \/ v \in {0, 1, 5, 22, 25, 39, 49, 7, 27} \/ v \in 30 .. 37 \/ v \in 40 .. 47
     \/ v \in 90 .. 97 \/ v \in 100 .. 107 \/ SgrCode(u, v) = u
LEMMA CodeIs ==
  ASSUME NEW u, NEW v \in Int
  PROVE  CodeAs(u, v)
<1>1. v = 0 => SgrCode(u, v) = Reset(u)
  BY DEF SgrCode, Bolder, Blinking, Primary, Background
<1>2. v = 1 => SgrCode(u, v) = Weight(Bolder(u, TRUE), "fg", u.current_primary, TRUE)
  BY DEF SgrCode, Bolder, Blinking, Primary, Background
<1>3. v = 5 => SgrCode(u, v) = Weight(Blinking(u, TRUE), "bg", u.current_bg, TRUE)
  BY DEF SgrCode, Bolder, Blinking, Primary, Background
<1>4. v = 22 => SgrCode(u, v) = Weight(Bolder(u, FALSE), "fg", u.current_primary, FALSE)
  BY DEF SgrCode, Bolder, Blinking, Primary, Background
<1>5. v = 25 => SgrCode(u, v) = Weight(Blinking(u, FALSE), "bg", u.current_bg, FALSE)
  BY DEF SgrCode, Bolder, Blinking, Primary, Background
<1>6. v \in 30 .. 37 => SgrCode(u, v) = Paint(Primary(u, v - 30), "fg", v - 30, u.bold)
  <2>1. ASSUME v \in 30 .. 37 PROVE SgrCode(u, v) = Paint([u EXCEPT !.current_primary = v - 30], "fg", v - 30, u.bold)
    <3>1. v \notin {0, 1, 5, 22, 25, 39, 49, 7, 27} /\ v \notin 40 .. 47 /\ v \notin 90 .. 97 /\ v \notin 100 .. 107
      BY <2>1
    <3>2. v # 0 /\ v # 1 /\ v # 5 /\ v # 22 /\ v # 25 /\ v # 39 /\ v # 49 /\ v # 7 /\ v # 27
      BY <3>1
    <3> QED
      BY <2>1, <3>1, <3>2, Zenon DEF SgrCode
  <2> QED
    BY <2>1 DEF Primary, Background
<1>7. v \in 40 .. 47 => SgrCode(u, v) = Paint(Background(u, v - 40), "bg", v - 40, u.bg_bold)
  <2>1. ASSUME v \in 40 .. 47 PROVE SgrCode(u, v) = Paint([u EXCEPT !.current_bg = v - 40], "bg", v - 40, u.bg_bold)
    <3>1. v \notin {0, 1, 5, 22, 25, 39, 49, 7, 27} /\ v \notin 30 .. 37 /\ v \notin 90 .. 97 /\ v \notin 100 .. 107
      BY <2>1
    <3>2. v # 0 /\ v # 1 /\ v # 5 /\ v # 22 /\ v # 25 /\ v # 39 /\ v # 49 /\ v # 7 /\ v # 27
      BY <3>1
    <3> QED
      BY <2>1, <3>1, <3>2, Zenon DEF SgrCode
  <2> QED
    BY <2>1 DEF Primary, Background
<1>8. v \in 90 .. 97 => SgrCode(u, v) = Paint(Primary(u, v - 90), "fg", v - 90, TRUE)
  <2>1. ASSUME v \in 90 .. 97 PROVE SgrCode(u, v) = Paint([u EXCEPT !.current_primary = v - 90], "fg", v - 90, TRUE)
    <3>1. v \notin {0, 1, 5, 22, 25, 39, 49, 7, 27} /\ v \notin 30 .. 37 /\ v \notin 40 .. 47 /\ v \notin 100 .. 107
      BY <2>1
    <3>2. v # 0 /\ v # 1 /\ v # 5 /\ v # 22 /\ v # 25 /\ v # 39 /\ v # 49 /\ v # 7 /\ v # 27
      BY <3>1
    <3> QED
      BY <2>1, <3>1, <3>2, Zenon DEF SgrCode
  <2> QED
    BY <2>1 DEF Primary, Background
<1>9. v \in 100 .. 107 => SgrCode(u, v) = Paint(Background(u, v - 100), "bg", v - 100, TRUE)
  <2>1. ASSUME v \in 100 .. 107 PROVE SgrCode(u, v) = Paint([u EXCEPT !.current_bg = v - 100], "bg", v - 100, TRUE)
    <3>1. v \notin {0, 1, 5, 22, 25, 39, 49, 7, 27} /\ v \notin 30 .. 37 /\ v \notin 40 .. 47 /\ v \notin 90 .. 97
      BY <2>1
    <3>2. v # 0 /\ v # 1 /\ v # 5 /\ v # 22 /\ v # 25 /\ v # 39 /\ v # 49 /\ v # 7 /\ v # 27
      BY <3>1
    <3> QED
      BY <2>1, <3>1, <3>2, Zenon DEF SgrCode
  <2> QED
    BY <2>1 DEF Primary, Background
<1>10. v = 39 => SgrCode(u, v) = Default(Primary(u, NONE), "fg")
  BY DEF SgrCode, Bolder, Blinking, Primary, Background
<1>11. v = 49 => SgrCode(u, v) = Default(Background(u, NONE), "bg")
  BY DEF SgrCode, Bolder, Blinking, Primary, Background
<1>12. v = 7 => SgrCode(u, v) = Reverse(u, TRUE)
  BY DEF SgrCode, Bolder, Blinking, Primary, Background
<1>13. v = 27 => SgrCode(u, v) = Reverse(u, FALSE)
  BY DEF SgrCode, Bolder, Blinking, Primary, Background
<1>14. \/ v \in {0, 1, 5, 22, 25, 39, 49, 7, 27} \/ v \in 30 .. 37 \/ v \in 40 .. 47
       \/ v \in 90 .. 97 \/ v \in 100 .. 107 \/ SgrCode(u, v) = u
  BY DEF SgrCode
<1> QED
  BY <1>1, <1>2, <1>3, <1>4, <1>5, <1>6, <1>7, <1>8, <1>9, <1>10, <1>11, <1>12, <1>13, <1>14, Zenon DEF CodeAs

LEMMA RoleTells ==
  ASSUME NEW f, NEW b, NEW reverse, NEW front, NEW behind, NEW bold, NEW blink, NEW primary, NEW back,
         Role(f, b, reverse, front, behind)
  PROVE  Tells(f, b, reverse, bold, blink, primary, back)
           <=> TellsFg(front, primary, bold) /\ TellsBg(behind, back, blink)
BY Zenon DEF Role, Tells

LEMMA WeightTells ==
  ASSUME NEW number, NEW bright \in BOOLEAN
  PROVE  /\ TellsFg(Weighted("fg", number, bright), number, bright)
         /\ TellsBg(Weighted("bg", number, bright), number, bright)
<1>1. TellsFg(Weighted("fg", number, bright), number, bright)
  BY DEF TellsFg, Weighted
<1>2. TellsBg(Weighted("bg", number, bright), number, bright)
  <2>1. "bg" # "fg"
    OBVIOUS
  <2> QED
    BY <2>1 DEF TellsBg, Weighted
<1> QED
  BY <1>1, <1>2

LEMMA PaintTells ==
  ASSUME NEW number \in Nat, NEW bright, NEW bold, bold => bright,
         NEW colour, colour = IF bright THEN ansi_bright_colours(number) ELSE ansi_colours(number)
  PROVE  TellsFg(colour, number, bold) /\ TellsBg(colour, number, bold)
<1>1. number # NONE
  BY DEF NONE
<1> QED
  BY <1>1, Zenon DEF TellsFg, TellsBg

LEMMA DefaultTells ==
  ASSUME NEW bold
  PROVE  /\ TellsFg(IF bold THEN default_fg_bright ELSE default_fg, NONE, bold)
         /\ TellsBg(IF bold THEN default_bg_bright ELSE TRANSPARENT, NONE, bold)
BY Zenon DEF TellsFg, TellsBg

LEMMA TurnedIs ==
  ASSUME NEW v, NEW reverse
  PROVE  /\ v \notin {0, 7, 27} => Turned(v, reverse) = reverse
         /\ v = 27 => Turned(v, reverse) = FALSE
         /\ v = 7 => Turned(v, reverse) = TRUE
<1>1. v \notin {0, 7, 27} => Turned(v, reverse) = reverse
  BY Zenon DEF Turned
<1>2. v = 27 => Turned(v, reverse) = FALSE
  BY Zenon DEF Turned
<1>3. v = 7 => v \notin {0, 27}
  OBVIOUS
<1> QED
  BY <1>1, <1>2, <1>3, Zenon DEF Turned

(* What one code leaves of the roles and of reverse video. *)
CodeRuns(u, v, w) ==
  /\ w.reverse_video = Turned(v, u.reverse_video)
  /\ (v = 0 \/ Roles(u)) /\ (v \in {1, 5, 22, 25} => ~u.reverse_video) => Roles(w)
LEMMA CodeRoles ==
  ASSUME NEW n \in Nat, NEW m \in Nat, NEW t \in Context(n, m), NEW u \in Coloured(t), NEW v \in Int
  PROVE  CodeRuns(u, v, SgrCode(u, v))
<1>1. PICK fg, bg : \E reverse, bold, blink \in BOOLEAN : \E primary, back \in Int :
                      Looks(u, fg, bg, reverse, bold, blink, primary, back)
  BY LooksIs
<1>2. PICK reverse \in BOOLEAN, bold \in BOOLEAN, blink \in BOOLEAN, primary \in Int, back \in Int :
        Looks(u, fg, bg, reverse, bold, blink, primary, back)
  BY <1>1
<1>3. PICK front, behind : front = (IF reverse THEN bg ELSE fg) /\ behind = (IF reverse THEN fg ELSE bg)
  OBVIOUS
<1>4. /\ u.reverse_video = reverse /\ u.bold = bold /\ u.bg_bold = blink
      /\ u.current_primary = primary /\ u.current_bg = back
  BY <1>2 DEF Looks
<1>5. Roles(u) <=> TellsFg(front, primary, bold) /\ TellsBg(behind, back, blink)
  <2>1. Roles(u) <=> Tells(fg, bg, reverse, bold, blink, primary, back)
    BY <1>2, LooksRoles
  <2>2. Role(fg, bg, reverse, front, behind)
    BY <1>3, Zenon DEF Role
  <2> QED
    BY <2>1, <2>2, RoleTells
<1>6. PICK w : w = SgrCode(u, v)
  OBVIOUS
<1>7. CodeAs(u, v)
  BY CodeIs
<1>8. ASSUME NEW f, NEW b, NEW r, NEW a, NEW d, NEW p, NEW k, Looks(w, f, b, r, a, d, p, k),
             NEW x, NEW y, Role(f, b, r, x, y)
      PROVE  w.reverse_video = r /\ (Roles(w) <=> TellsFg(x, p, a) /\ TellsBg(y, k, d))
  <2>1. w.reverse_video = r
    BY <1>8 DEF Looks
  <2>2. Roles(w) <=> Tells(f, b, r, a, d, p, k)
    BY <1>8, LooksRoles
  <2>3. Tells(f, b, r, a, d, p, k) <=> TellsFg(x, p, a) /\ TellsBg(y, k, d)
    BY <1>8, RoleTells
  <2> QED
    BY <2>1, <2>2, <2>3, Zenon
<1>9. PICK on \in BOOLEAN, off \in BOOLEAN : on = TRUE /\ off = FALSE
  OBVIOUS
<1>10. CASE v = 0
  <2>1. Looks(w, default_fg, TRANSPARENT, FALSE, FALSE, FALSE, NONE, NONE)
    BY <1>6, <1>7, <1>10, ResetLooks DEF CodeAs
  <2>2. Role(default_fg, TRANSPARENT, FALSE, default_fg, TRANSPARENT)
    BY Zenon DEF Role
  <2>3. w.reverse_video = FALSE
         /\ (Roles(w) <=> TellsFg(default_fg, NONE, FALSE) /\ TellsBg(TRANSPARENT, NONE, FALSE))
    BY <1>8, <2>1, <2>2
  <2>4. TellsFg(default_fg, NONE, FALSE) /\ TellsBg(TRANSPARENT, NONE, FALSE)
    BY DEF TellsFg, TellsBg
  <2>5. Turned(v, u.reverse_video) = FALSE
    BY <1>10 DEF Turned
  <2> QED
    BY <1>6, <2>3, <2>4, <2>5, Zenon DEF CodeRuns
<1>11. CASE v \in {1, 22}
  <2>1. PICK a \in BOOLEAN : a = (v = 1)
    OBVIOUS
  <2>2. PICK x : x = Bolder(u, a)
    OBVIOUS
  <2>3. w = Weight(x, "fg", primary, a)
    BY <1>4, <1>6, <1>7, <1>11, <2>1, <2>2 DEF CodeAs
  <2>4. Looks(x, fg, bg, reverse, a, blink, primary, back) /\ x \in Coloured(t)
    <3>1. Looks(x, fg, bg, reverse, a, blink, primary, back)
      BY <1>2, <2>2, FlagLooks
    <3>2. x \in Coloured(t)
      BY <2>2, ColouredBy
    <3> QED
      BY <3>1, <3>2
  <2>5. PICK f, b : /\ Looks(w, f, b, reverse, a, blink, primary, back)
                    /\ ~reverse => f = Weighted("fg", primary, a) /\ b = bg
    <3>1. \E f, b : /\ Looks(Weight(x, "fg", primary, a), f, b, reverse, a, blink, primary, back)
                    /\ ~reverse /\ "fg" = "fg" => f = Weighted("fg", primary, a) /\ b = bg
                    /\ ~reverse /\ "fg" = "bg" => f = fg /\ b = Weighted("bg", primary, a)
      BY <2>4, WeightLooks
    <3> QED
      BY <2>3, <3>1
  <2>6. PICK i, j : Role(f, b, reverse, i, j) /\ (~reverse => i = f /\ j = b)
    BY Zenon DEF Role
  <2>7. w.reverse_video = reverse /\ (Roles(w) <=> TellsFg(i, primary, a) /\ TellsBg(j, back, blink))
    BY <1>8, <2>5, <2>6
  <2>8. ~reverse /\ Roles(u) => Roles(w)
    <3>1. TellsFg(Weighted("fg", primary, a), primary, a)
      BY WeightTells
    <3>2. ~reverse => behind = bg
      BY <1>3
    <3> QED
      BY <1>5, <2>5, <2>6, <2>7, <3>1, <3>2, Zenon
  <2>9. Turned(v, u.reverse_video) = reverse /\ v # 0 /\ v \in {1, 5, 22, 25}
    <3>1. v \notin {0, 7, 27} /\ v # 0 /\ v \in {1, 5, 22, 25}
      BY <1>11
    <3> QED
      BY <1>4, <3>1, TurnedIs, Zenon
  <2> QED
    BY <1>4, <1>6, <2>7, <2>8, <2>9, Zenon DEF CodeRuns
<1>12. CASE v \in {5, 25}
  <2>1. PICK a \in BOOLEAN : a = (v = 5)
    OBVIOUS
  <2>2. PICK x : x = Blinking(u, a)
    OBVIOUS
  <2>3. w = Weight(x, "bg", back, a)
    BY <1>4, <1>6, <1>7, <1>12, <2>1, <2>2 DEF CodeAs
  <2>4. Looks(x, fg, bg, reverse, bold, a, primary, back) /\ x \in Coloured(t)
    BY <1>2, <2>2, FlagLooks, ColouredBy
  <2>5. PICK f, b : /\ Looks(w, f, b, reverse, bold, a, primary, back)
                    /\ ~reverse => f = fg /\ b = Weighted("bg", back, a)
    BY <2>3, <2>4, WeightLooks
  <2>6. PICK i, j : Role(f, b, reverse, i, j) /\ (~reverse => i = f /\ j = b)
    BY Zenon DEF Role
  <2>7. w.reverse_video = reverse /\ (Roles(w) <=> TellsFg(i, primary, bold) /\ TellsBg(j, back, a))
    BY <1>8, <2>5, <2>6
  <2>8. ~reverse /\ Roles(u) => Roles(w)
    <3>1. TellsBg(Weighted("bg", back, a), back, a)
      BY WeightTells
    <3>2. ~reverse => front = fg
      BY <1>3
    <3> QED
      BY <1>5, <2>5, <2>6, <2>7, <3>1, <3>2, Zenon
  <2>9. Turned(v, u.reverse_video) = reverse /\ v # 0 /\ v \in {1, 5, 22, 25}
    <3>1. v \notin {0, 7, 27} /\ v # 0 /\ v \in {1, 5, 22, 25}
      BY <1>12
    <3> QED
      BY <1>4, <3>1, TurnedIs, Zenon
  <2> QED
    BY <1>4, <1>6, <2>7, <2>8, <2>9, Zenon DEF CodeRuns
<1>13. CASE v \in 30 .. 37 \/ v \in 90 .. 97
  <2>1. PICK k \in Nat : k = IF v \in 30 .. 37 THEN v - 30 ELSE v - 90
    BY <1>13
  <2>2. PICK a \in BOOLEAN : a = IF v \in 30 .. 37 THEN bold ELSE TRUE
    OBVIOUS
  <2>3. PICK x : x = Primary(u, k)
    OBVIOUS
  <2>4. w = Paint(x, "fg", k, a)
    <3>1. CASE v \in 30 .. 37
      BY <1>4, <1>6, <1>7, <2>1, <2>2, <2>3, <3>1 DEF CodeAs
    <3>2. CASE v \in 90 .. 97
      <4>1. v \notin 30 .. 37
        BY <3>2
      <4> QED
        BY <1>4, <1>6, <1>7, <2>1, <2>2, <2>3, <3>2, <4>1 DEF CodeAs
    <3> QED
      BY <1>13, <3>1, <3>2
  <2>5. Looks(x, fg, bg, reverse, bold, blink, k, back) /\ x \in Coloured(t) /\ k \in Int
    BY <1>2, <2>3, NumberLooks, ColouredBy
  <2>6. PICK colour : colour = IF a THEN ansi_bright_colours(k) ELSE ansi_colours(k)
    OBVIOUS
  <2>7. PICK f, b : /\ Looks(w, f, b, reverse, bold, blink, k, back)
                    /\ Role(f, b, reverse, colour, behind)
    BY <1>3, <2>4, <2>5, <2>6, PaintLooks
  <2>8. w.reverse_video = reverse /\ (Roles(w) <=> TellsFg(colour, k, bold) /\ TellsBg(behind, back, blink))
    BY <1>8, <2>7
  <2>9. TellsFg(colour, k, bold)
    <3>1. bold => a
      BY <2>2
    <3> QED
      BY <2>6, <3>1, PaintTells
  <2>10. Turned(v, u.reverse_video) = reverse /\ v # 0
    <3>1. v \notin {0, 7, 27} /\ v # 0
      BY <1>13
    <3> QED
      BY <1>4, <3>1, TurnedIs, Zenon
  <2> QED
    BY <1>5, <1>6, <2>8, <2>9, <2>10, Zenon DEF CodeRuns
<1>14. CASE v \in 40 .. 47 \/ v \in 100 .. 107
  <2>1. PICK k \in Nat : k = IF v \in 40 .. 47 THEN v - 40 ELSE v - 100
    BY <1>14
  <2>2. PICK a \in BOOLEAN : a = IF v \in 40 .. 47 THEN blink ELSE TRUE
    OBVIOUS
  <2>3. PICK x : x = Background(u, k)
    OBVIOUS
  <2>4. w = Paint(x, "bg", k, a)
    <3>1. CASE v \in 40 .. 47
      BY <1>4, <1>6, <1>7, <2>1, <2>2, <2>3, <3>1 DEF CodeAs
    <3>2. CASE v \in 100 .. 107
      <4>1. v \notin 40 .. 47
        BY <3>2
      <4> QED
        BY <1>4, <1>6, <1>7, <2>1, <2>2, <2>3, <3>2, <4>1 DEF CodeAs
    <3> QED
      BY <1>14, <3>1, <3>2
  <2>5. Looks(x, fg, bg, reverse, bold, blink, primary, k) /\ x \in Coloured(t) /\ k \in Int
    BY <1>2, <2>3, NumberLooks, ColouredBy
  <2>6. PICK colour : colour = IF a THEN ansi_bright_colours(k) ELSE ansi_colours(k)
    OBVIOUS
  <2>7. PICK f, b : /\ Looks(w, f, b, reverse, bold, blink, primary, k)
                    /\ Role(f, b, reverse, front, colour)
    BY <1>3, <2>4, <2>5, <2>6, PaintLooks
  <2>8. w.reverse_video = reverse /\ (Roles(w) <=> TellsFg(front, primary, bold) /\ TellsBg(colour, k, blink))
    BY <1>8, <2>7
  <2>9. TellsBg(colour, k, blink)
    <3>1. blink => a
      BY <2>2
    <3> QED
      BY <2>6, <3>1, PaintTells
  <2>10. Turned(v, u.reverse_video) = reverse /\ v # 0
    <3>1. v \notin {0, 7, 27} /\ v # 0
      BY <1>14
    <3> QED
      BY <1>4, <3>1, TurnedIs, Zenon
  <2> QED
    BY <1>5, <1>6, <2>8, <2>9, <2>10, Zenon DEF CodeRuns
<1>15. CASE v = 39
  <2>1. PICK k \in Int : k = NONE
    BY DEF NONE
  <2>2. PICK x : x = Primary(u, k)
    OBVIOUS
  <2>3. w = Default(x, "fg")
    BY <1>6, <1>7, <1>15, <2>1, <2>2 DEF CodeAs
  <2>4. Looks(x, fg, bg, reverse, bold, blink, k, back) /\ x \in Coloured(t)
    BY <1>2, <2>2, NumberLooks, ColouredBy
  <2>5. PICK colour : colour = IF bold THEN default_fg_bright ELSE default_fg
    OBVIOUS
  <2>6. PICK f, b : /\ Looks(w, f, b, reverse, bold, blink, k, back)
                    /\ Role(f, b, reverse, colour, behind)
    BY <1>3, <2>3, <2>4, <2>5, DefaultLooks
  <2>7. w.reverse_video = reverse /\ (Roles(w) <=> TellsFg(colour, k, bold) /\ TellsBg(behind, back, blink))
    BY <1>8, <2>6
  <2>8. TellsFg(colour, k, bold)
    BY <2>1, <2>5, DefaultTells, Zenon
  <2>9. Turned(v, u.reverse_video) = reverse /\ v # 0
    BY <1>4, <1>15 DEF Turned
  <2> QED
    BY <1>5, <1>6, <2>7, <2>8, <2>9, Zenon DEF CodeRuns
<1>16. CASE v = 49
  <2>1. PICK k \in Int : k = NONE
    BY DEF NONE
  <2>2. PICK x : x = Background(u, k)
    OBVIOUS
  <2>3. w = Default(x, "bg")
    BY <1>6, <1>7, <1>16, <2>1, <2>2 DEF CodeAs
  <2>4. Looks(x, fg, bg, reverse, bold, blink, primary, k) /\ x \in Coloured(t)
    BY <1>2, <2>2, NumberLooks, ColouredBy
  <2>5. PICK colour : colour = IF blink THEN default_bg_bright ELSE TRANSPARENT
    OBVIOUS
  <2>6. PICK f, b : /\ Looks(w, f, b, reverse, bold, blink, primary, k)
                    /\ Role(f, b, reverse, front, colour)
    BY <1>3, <2>3, <2>4, <2>5, DefaultLooks
  <2>7. w.reverse_video = reverse /\ (Roles(w) <=> TellsFg(front, primary, bold) /\ TellsBg(colour, k, blink))
    BY <1>8, <2>6
  <2>8. TellsBg(colour, k, blink)
    BY <2>1, <2>5, DefaultTells, Zenon
  <2>9. Turned(v, u.reverse_video) = reverse /\ v # 0
    BY <1>4, <1>16 DEF Turned
  <2> QED
    BY <1>5, <1>6, <2>7, <2>8, <2>9, Zenon DEF CodeRuns
<1>17. CASE v \in {7, 27}
  <2>1. PICK a \in BOOLEAN : a = (v = 7)
    OBVIOUS
  <2>2. w = Reverse(u, a)
    BY <1>6, <1>7, <1>17, <2>1 DEF CodeAs
  <2>3. PICK f, b : /\ Looks(w, f, b, a, bold, blink, primary, back)
                    /\ Role(f, b, a, front, behind)
    BY <1>2, <1>3, <2>2, ReverseLooks
  <2>4. w.reverse_video = a /\ (Roles(w) <=> TellsFg(front, primary, bold) /\ TellsBg(behind, back, blink))
    BY <1>8, <2>3
  <2>5. Turned(v, u.reverse_video) = a /\ v # 0
    <3>1. (v = 7 /\ a = TRUE) \/ (v = 27 /\ a = FALSE)
      BY <1>17, <2>1
    <3>2. v # 0
      BY <1>17
    <3> QED
      BY <3>1, <3>2, TurnedIs, Zenon
  <2> QED
    BY <1>5, <1>6, <2>4, <2>5, Zenon DEF CodeRuns
<1>18. CASE /\ v \notin {0, 1, 5, 22, 25, 39, 49, 7, 27} /\ v \notin 30 .. 37 /\ v \notin 40 .. 47
            /\ v \notin 90 .. 97 /\ v \notin 100 .. 107
  <2>1. w = u
    BY <1>6, <1>7, <1>18, Zenon DEF CodeAs
  <2>2. Turned(v, u.reverse_video) = reverse /\ v # 0
    BY <1>4, <1>18 DEF Turned
  <2> QED
    BY <1>4, <1>6, <2>1, <2>2, Zenon DEF CodeRuns
<1> QED
  BY <1>10, <1>11, <1>12, <1>13, <1>14, <1>15, <1>16, <1>17, <1>18

(* Without colours of the extended palettes each turn takes one code. *)
Plainly(values, N) == \A k \in 0 .. N - 1 : values[k] \notin {38, 48}
Coding(t, values, N, g) ==
  /\ g[0] = IF N = 0 THEN Reset(t) ELSE t
  /\ \A k \in 0 .. N : g[k] \in Coloured(t)
  /\ \A k \in 1 .. N : g[k] = SgrCode(g[k - 1], values[k - 1])
  /\ sgr(t, values, N) = g[N]
LEMMA SgrCodes ==
  ASSUME NEW n \in Nat, NEW m \in Nat, NEW t \in Context(n, m),
         NEW values \in [Values -> Nat], NEW N \in 0 .. FLANTERM_MAX_ESC_VALUES, Plainly(values, N)
  PROVE  \E g : Coding(t, values, N, g)
<1>0. N \in Nat
  BY FlantermAssumption
<1>1. PICK f : SgrTurns(t, values, N, f)
  BY SgrRuns
<1> DEFINE S == [k \in 0 .. N |-> {u \in [ctx : Coloured(t), next : Nat] : u.next = k}]
           g == [k \in 0 .. N |-> f[k].ctx]
<1>2. f[0] \in S[0]
  BY <1>0, <1>1 DEF SgrTurns
<1>3. ASSUME NEW k \in 1 .. N, f[k - 1].next = k - 1
      PROVE  f[k] = [ctx |-> SgrCode(f[k - 1].ctx, values[k - 1]), next |-> k]
  <2>1. k - 1 \in 0 .. N - 1 /\ ~(k - 1 >= N) /\ values[k - 1] \notin {38, 48}
    BY <1>0 DEF Plainly
  <2>2. f[k] = SgrTurn(f[k - 1], values, N)
    BY <1>1 DEF SgrTurns
  <2>3. (k - 1) + 1 = k
    OBVIOUS
  <2> QED
    BY <1>3, <2>1, <2>2, <2>3 DEF SgrTurn
<1>4. ASSUME NEW k \in 1 .. N, f[k - 1] \in S[k - 1] PROVE f[k] \in S[k]
  <2>1. f[k - 1].next = k - 1 /\ k \in 0 .. N /\ k - 1 \in 0 .. N
    BY <1>4
  <2>2. f[k].next = k
    <3>1. PICK x : x = SgrCode(f[k - 1].ctx, values[k - 1])
      OBVIOUS
    <3>2. f[k] = [ctx |-> x, next |-> k]
      BY <1>3, <2>1, <3>1
    <3> QED
      BY <3>2
  <2>3. f[k] \in [ctx : Coloured(t), next : Nat]
    BY <1>1, <2>1 DEF SgrTurns
  <2> QED
    BY <2>1, <2>2, <2>3
<1>5. \A k \in 0 .. N : f[k] \in S[k]
  <2> HIDE DEF S
  <2> QED
    BY <1>0, <1>2, <1>4, Stays
<1>6. \A k \in 0 .. N : f[k].next = k /\ f[k].ctx \in Coloured(t)
  BY <1>5
<1>7. \A k \in 1 .. N : g[k] = SgrCode(g[k - 1], values[k - 1])
  <2> SUFFICES ASSUME NEW k \in 1 .. N PROVE g[k] = SgrCode(g[k - 1], values[k - 1])
    OBVIOUS
  <2>1. k \in 0 .. N /\ k - 1 \in 0 .. N
    OBVIOUS
  <2>2. PICK x : x = SgrCode(f[k - 1].ctx, values[k - 1])
    OBVIOUS
  <2>3. f[k] = [ctx |-> x, next |-> k]
    BY <1>3, <1>6, <2>1, <2>2
  <2>4. f[k].ctx = x
    BY <2>3
  <2> QED
    BY <2>1, <2>2, <2>4
<1>8. g[0] = (IF N = 0 THEN Reset(t) ELSE t) /\ sgr(t, values, N) = g[N]
  BY <1>0, <1>1 DEF SgrTurns
<1>9. \A k \in 0 .. N : g[k] \in Coloured(t)
  BY <1>6
<1> HIDE DEF g
<1> QED
  BY <1>7, <1>8, <1>9 DEF Coding

(* Whether video is reversed depends on it before and on the codes alone. *)
Flips(values, g, N) ==
  \A k \in 1 .. N : g[k].reverse_video = Turned(values[k - 1], g[k - 1].reverse_video)
Alike(g, h, N) == \A k \in 0 .. N : g[k].reverse_video = h[k].reverse_video
LEMMA TurnsAlong ==
  ASSUME NEW N \in Nat, NEW values, NEW g, NEW h, g[0].reverse_video = h[0].reverse_video,
         Flips(values, g, N), Flips(values, h, N)
  PROVE  Alike(g, h, N)
<1> DEFINE p == [k \in 0 .. N |-> k]
           S == [k \in 0 .. N |-> {j \in 0 .. N : g[j].reverse_video = h[j].reverse_video}]
<1>1. p[0] \in S[0]
  OBVIOUS
<1>2. ASSUME NEW k \in 1 .. N, p[k - 1] \in S[k - 1] PROVE p[k] \in S[k]
  <2>1. k \in 0 .. N /\ k - 1 \in 0 .. N
    OBVIOUS
  <2>2. g[k - 1].reverse_video = h[k - 1].reverse_video
    BY <1>2, <2>1
  <2>3. /\ g[k].reverse_video = Turned(values[k - 1], g[k - 1].reverse_video)
        /\ h[k].reverse_video = Turned(values[k - 1], h[k - 1].reverse_video)
    BY Zenon DEF Flips
  <2>4. g[k].reverse_video = h[k].reverse_video
    BY <2>2, <2>3, Zenon
  <2> QED
    BY <2>1, <2>4
<1>3. \A k \in 0 .. N : p[k] \in S[k]
  <2> HIDE DEF p, S
  <2> QED
    BY <1>1, <1>2, Stays
<1> QED
  BY <1>3 DEF Alike

LEMMA CodingRuns ==
  ASSUME NEW n \in Nat, NEW m \in Nat, NEW t \in Context(n, m),
         NEW values \in [Values -> Nat], NEW N \in 0 .. FLANTERM_MAX_ESC_VALUES,
         NEW g, Coding(t, values, N, g)
  PROVE  /\ \A k \in 1 .. N : values[k - 1] \in Nat /\ CodeRuns(g[k - 1], values[k - 1], g[k])
         /\ sgr(t, values, N) = g[N]
<1>1. FLANTERM_MAX_ESC_VALUES \in Nat
  BY FlantermAssumption
<1>2. ASSUME NEW k \in 1 .. N PROVE values[k - 1] \in Nat /\ CodeRuns(g[k - 1], values[k - 1], g[k])
  <2>1. k - 1 \in 0 .. N /\ k - 1 \in Values
    BY <1>1 DEF Values
  <2>2. PICK v \in Nat : v = values[k - 1]
    BY <2>1
  <2>3. PICK u \in Coloured(t) : u = g[k - 1]
    BY <2>1 DEF Coding
  <2>4. g[k] = SgrCode(u, v)
    BY <2>2, <2>3 DEF Coding
  <2>5. CodeRuns(u, v, SgrCode(u, v))
    BY CodeRoles
  <2> QED
    BY <2>2, <2>3, <2>4, <2>5
<1> QED
  BY <1>2 DEF Coding

(* Before(k) of Strays. *)
Previous(u, values, k) == IF k = 0 THEN u ELSE sgr(u, values, k)
LEMMA PreviousIs ==
  ASSUME NEW n \in Nat, NEW m \in Nat, NEW t \in Context(n, m), NEW u \in Context(n, m),
         u.reverse_video = t.reverse_video,
         NEW values \in [Values -> Nat], NEW N \in 0 .. FLANTERM_MAX_ESC_VALUES, Plainly(values, N),
         NEW g, Coding(t, values, N, g), NEW k \in 0 .. N - 1
  PROVE  Previous(u, values, k).reverse_video = g[k].reverse_video
<1>0. N \in Nat /\ k \in Nat /\ k \in 0 .. FLANTERM_MAX_ESC_VALUES /\ Plainly(values, k) /\ N # 0
  <2>1. FLANTERM_MAX_ESC_VALUES \in Nat
    BY FlantermAssumption
  <2> QED
    BY <2>1 DEF Plainly
<1>1. g[0] = t
  BY <1>0 DEF Coding
<1>2. CASE k = 0
  BY <1>1, <1>2 DEF Previous
<1>3. CASE k # 0
  <2>1. PICK h : Coding(u, values, k, h)
    BY <1>0, SgrCodes
  <2>2. h[0] = u
    BY <1>3, <2>1 DEF Coding
  <2>3. Previous(u, values, k) = h[k]
    BY <1>3, <2>1 DEF Previous, Coding
  <2>4. \A j \in 1 .. N : CodeRuns(g[j - 1], values[j - 1], g[j])
    BY CodingRuns
  <2>5. \A j \in 1 .. k : CodeRuns(h[j - 1], values[j - 1], h[j])
    BY <1>0, <2>1, CodingRuns
  <2>6. Flips(values, h, k)
    BY <2>5, Zenon DEF CodeRuns, Flips
  <2>7. Flips(values, g, k)
    <3>1. \A j \in 1 .. k : j \in 1 .. N
      BY <1>0
    <3> QED
      BY <2>4, <3>1, Zenon DEF CodeRuns, Flips
  <2>8. g[0].reverse_video = h[0].reverse_video
    BY <1>1, <2>2
  <2>9. Alike(g, h, k)
    BY <1>0, <2>6, <2>7, <2>8, TurnsAlong
  <2> QED
    BY <1>0, <2>3, <2>9 DEF Alike
<1> QED
  BY <1>2, <1>3

(* A sequence keeps the roles, unless it sets a weight in reverse video;  *)
(* a last code 0 brings them back.                                         *)
LEMMA SgrRoles ==
  ASSUME NEW n \in Nat, NEW m \in Nat, NEW t \in Context(n, m), NEW u \in Context(n, m),
         u.reverse_video = t.reverse_video,
         NEW values \in [Values -> Nat], NEW N \in 0 .. FLANTERM_MAX_ESC_VALUES, Plainly(values, N),
         \/ N = 0 \/ values[N - 1] = 0
         \/ /\ Roles(t)
            /\ \A k \in 0 .. N - 1 : values[k] \in {1, 5, 22, 25} => ~Previous(u, values, k).reverse_video
  PROVE  Roles(sgr(t, values, N))
<1>0. N \in Nat
  BY FlantermAssumption
<1>1. PICK g : Coding(t, values, N, g)
  BY SgrCodes
<1>2. sgr(t, values, N) = g[N] /\ \A k \in 1 .. N : CodeRuns(g[k - 1], values[k - 1], g[k])
  BY <1>1, CodingRuns
<1>3. CASE N = 0
  <2>1. Coding(t, values, N, g) /\ t \in Coloured(t)
    BY <1>1, ColouredIs DEF Coloured, SameFrame, SameCursor, SameScene, Context
  <2>2. g[N] = Reset(t)
    BY <1>1, <1>3 DEF Coding
  <2>3. PICK v \in Int : v = 0
    OBVIOUS
  <2>4. SgrCode(t, v) = Reset(t)
    BY <2>3, CodeIs DEF CodeAs
  <2>5. CodeRuns(t, v, SgrCode(t, v))
    BY <2>1, CodeRoles
  <2>6. v = 0 /\ v \notin {1, 5, 22, 25}
    BY <2>3
  <2>7. Roles(Reset(t))
    BY <2>4, <2>5, <2>6, Zenon DEF CodeRuns
  <2> QED
    BY <1>2, <2>2, <2>7
<1>4. CASE N # 0 /\ values[N - 1] = 0
  <2>1. N \in 1 .. N
    BY <1>0, <1>4
  <2>2. CodeRuns(g[N - 1], values[N - 1], g[N])
    BY <1>2, <2>1
  <2>3. values[N - 1] \notin {1, 5, 22, 25}
    BY <1>4
  <2>4. Roles(g[N])
    BY <1>4, <2>2, <2>3, Zenon DEF CodeRuns
  <2> QED
    BY <1>2, <2>4
<1>5. CASE /\ N # 0 /\ Roles(t)
           /\ \A k \in 0 .. N - 1 : values[k] \in {1, 5, 22, 25} => ~Previous(u, values, k).reverse_video
  <2> DEFINE S == [k \in 0 .. N |-> {v \in Coloured(t) : Roles(v)}]
  <2>1. g[0] \in S[0]
    BY <1>0, <1>1, <1>5 DEF Coding
  <2>2. ASSUME NEW k \in 1 .. N, g[k - 1] \in S[k - 1] PROVE g[k] \in S[k]
    <3>1. k - 1 \in 0 .. N - 1 /\ k - 1 \in 0 .. N /\ k \in 0 .. N
      BY <1>0
    <3>2. Roles(g[k - 1])
      BY <2>2, <3>1
    <3>3. Previous(u, values, k - 1).reverse_video = g[k - 1].reverse_video
      BY <1>1, <3>1, PreviousIs
    <3>4. values[k - 1] \in {1, 5, 22, 25} => ~g[k - 1].reverse_video
      BY <1>5, <3>1, <3>3
    <3>5. CodeRuns(g[k - 1], values[k - 1], g[k])
      BY <1>2
    <3>6. Roles(g[k])
      BY <3>2, <3>4, <3>5, Zenon DEF CodeRuns
    <3>7. g[k] \in Coloured(t)
      BY <1>1, <3>1 DEF Coding
    <3> QED
      BY <3>1, <3>6, <3>7
  <2>3. \A k \in 0 .. N : g[k] \in S[k]
    <3> HIDE DEF S
    <3> QED
      BY <1>0, <2>1, <2>2, Stays
  <2> QED
    BY <1>0, <1>2, <2>3
<1> QED
  BY <1>3, <1>4, <1>5

----------------------------------------------------------------------------
(* The parser. *)

Parts ==
  {"escape", "control_sequence", "osc", "osc_escape", "discard_next", "csi_unhandled", "dec_private", "rrr",
   "escape_offset", "esc_values", "esc_values_i", "unicode_remaining", "code_point", "g_select"}
Room(p) == p.rrr => p.esc_values_i < FLANTERM_MAX_ESC_VALUES
ParserIs(p) ==
  /\ DOMAIN p = Parts
  /\ p.esc_values \in [Values -> Nat]
  /\ p.esc_values_i \in 0 .. FLANTERM_MAX_ESC_VALUES
  /\ Room(p)

LEMMA MaxValues == FLANTERM_MAX_ESC_VALUES \in Nat /\ FLANTERM_MAX_ESC_VALUES > 1 /\ 0 \in Values /\ 1 \in Values
BY FlantermAssumption DEF Values

LEMMA GroundIs == ParserIs(Ground) /\ ParserIs(Ended)
<1>1. PICK none \in [Values -> Nat] : none = [k \in Values |-> 0]
  OBVIOUS
<1>2. PICK p : p = Ground
  OBVIOUS
<1>3. p = [escape |-> FALSE, control_sequence |-> FALSE, osc |-> FALSE, osc_escape |-> FALSE,
           discard_next |-> FALSE, csi_unhandled |-> FALSE, dec_private |-> FALSE, rrr |-> FALSE,
           escape_offset |-> 0, esc_values |-> none, esc_values_i |-> 0,
           unicode_remaining |-> 0, code_point |-> 0, g_select |-> 0]
  BY <1>1, <1>2 DEF Ground
<1>4. DOMAIN p = Parts /\ p.esc_values = none /\ p.esc_values_i = 0 /\ p.rrr = FALSE
  BY ONLY <1>3 DEF Parts
<1>5. PICK q : q = Ended
  OBVIOUS
<1>6. q = [p EXCEPT !.dec_private = parser.dec_private]
  BY <1>2, <1>5 DEF Ended
<1>7. DOMAIN q = Parts /\ q.esc_values = none /\ q.esc_values_i = 0 /\ q.rrr = FALSE
  BY ONLY <1>4, <1>6 DEF Parts
<1>8. 0 \in 0 .. FLANTERM_MAX_ESC_VALUES
  BY MaxValues
<1>9. ParserIs(p) /\ ParserIs(q)
  BY <1>4, <1>7, <1>8 DEF ParserIs, Room
<1> QED
  BY <1>2, <1>5, <1>9

(* Steps that leave the values alone. *)
SameValues(p, q) ==
  q.esc_values = p.esc_values /\ q.esc_values_i = p.esc_values_i /\ q.rrr = p.rrr /\ DOMAIN q = DOMAIN p
LEMMA SameParses ==
  ASSUME NEW p, NEW q, ParserIs(p), SameValues(p, q)
  PROVE  ParserIs(q)
<1>1. Room(q)
  BY Zenon DEF ParserIs, SameValues, Room
<1> QED
  BY <1>1 DEF ParserIs, SameValues

LEMMA FreshIs ==
  ASSUME ParserIs(parser)
  PROVE  /\ ParserIs(Fresh) /\ ParserIs(Counted) /\ ParserIs(NoOsc)
         /\ SameValues(parser, Fresh) /\ SameValues(parser, Counted) /\ SameValues(parser, NoOsc)
<1>1. DOMAIN parser = Parts
  BY DEF ParserIs
<1>2. SameValues(parser, Fresh)
  BY ONLY <1>1 DEF SameValues, Fresh, Parts
<1>3. PICK p, offset : p = Fresh /\ offset = IF p.escape_offset < 3 THEN p.escape_offset + 1 ELSE p.escape_offset
  OBVIOUS
<1>4. SameValues(p, Counted) /\ DOMAIN p = Parts
  <2>1. Counted = [p EXCEPT !.escape_offset = offset]
    BY <1>3 DEF Counted
  <2> QED
    BY ONLY <1>1, <1>2, <1>3, <2>1 DEF SameValues, Parts
<1>5. PICK q : q = Counted
  OBVIOUS
<1>6. SameValues(q, NoOsc)
  <2>1. NoOsc = [q EXCEPT !.osc = FALSE, !.osc_escape = FALSE]
    BY <1>5 DEF NoOsc
  <2>2. DOMAIN q = Parts
    BY <1>4, <1>5 DEF SameValues
  <2> QED
    BY ONLY <2>1, <2>2 DEF SameValues, Parts
<1>7. SameValues(parser, Counted) /\ SameValues(parser, NoOsc)
  BY <1>2, <1>3, <1>4, <1>5, <1>6 DEF SameValues
<1> QED
  BY <1>2, <1>7, SameParses

LEMMA FilledIs ==
  ASSUME ParserIs(parser)
  PROVE  ParserIs(Filled) /\ \A k \in Values : Value(k) \in Nat
<1>1. PICK p : p = NoOsc
  OBVIOUS
<1>2. ParserIs(p)
  BY <1>1, FreshIs
<1>3. PICK n : n = p.esc_values_i + (IF p.rrr THEN 1 ELSE 0)
  OBVIOUS
<1>4. n \in 0 .. FLANTERM_MAX_ESC_VALUES
  <2>1. p.esc_values_i \in 0 .. FLANTERM_MAX_ESC_VALUES
    BY <1>2 DEF ParserIs
  <2>2. CASE p.rrr
    <3>1. p.esc_values_i < FLANTERM_MAX_ESC_VALUES /\ n = p.esc_values_i + 1
      BY <1>2, <1>3, <2>2 DEF ParserIs, Room
    <3> QED
      BY <2>1, <3>1, MaxValues
  <2>3. CASE ~p.rrr
    BY <1>3, <2>1, <2>3, MaxValues
  <2> QED
    BY <2>2, <2>3
<1>5. PICK default \in Nat : default = IF c \in {74, 75, 113} THEN 0 ELSE 1
  OBVIOUS
<1>6. PICK values : values = [k \in Values |-> IF k < n THEN p.esc_values[k] ELSE default]
  OBVIOUS
<1>7. values \in [Values -> Nat]
  BY <1>2, <1>6 DEF ParserIs
<1>8. Filled = [p EXCEPT !.rrr = FALSE, !.esc_values_i = n, !.esc_values = values]
  BY <1>1, <1>3, <1>5, <1>6 DEF Filled
<1>9. PICK q : q = Filled
  OBVIOUS
<1>10. DOMAIN q = Parts /\ q.esc_values = values /\ q.esc_values_i = n /\ q.rrr = FALSE
  <2>1. DOMAIN p = Parts
    BY <1>2 DEF ParserIs
  <2> QED
    BY ONLY <1>8, <1>9, <2>1 DEF Parts
<1>11. ParserIs(q)
  BY <1>4, <1>7, <1>10 DEF ParserIs, Room
<1> QED
  BY <1>7, <1>9, <1>10, <1>11 DEF Value

----------------------------------------------------------------------------
(* The invariant. *)

HistoryIs(h) ==
  h = [off |-> h.off, refreshed |-> h.refreshed, torn |-> h.torn, plain |-> h.plain, below |-> h.below,
       strays |-> h.strays, saved_strays |-> h.saved_strays]

(* The terminal between two bytes, for what may have happened to it. *)
TerminalIs(t, n, m, refreshed, off, below) ==
  /\ t \in Context(n, m) /\ OnePer(t, refreshed)
  /\ t.top < t.bottom - 1 /\ t.bottom <= m
  /\ t.cursor_x <= n \/ off
  /\ t.cursor_y < m \/ (t.cursor_y < n /\ below)
  /\ t.scroll_enabled \/ off
  /\ t.saved_state.x <= n \/ off
  /\ t.saved_state.y < m \/ (t.saved_state.y < n /\ below)

(* TerminalSound with what its proof needs besides: the types, the place   *)
(* that a saved cursor comes back to, the values the parser reads, and     *)
(* that no byte is taken without a terminal.                               *)
TermInv ==
  /\ mode \in Modes \cup {NULL} /\ turn \in Threads
  /\ mode = NULL => ctx = NULL
  /\ mode # NULL => (ctx # NULL <=> Initialises(mode))
  /\ ctx = NULL => busy = {} /\ \A p \in Threads : input[p] = <<>>
  /\ halted => mode # NULL /\ ~Initialises(mode)
  /\ ctx # NULL =>
       TerminalIs(ctx, cols(mode), rows(mode), history.refreshed, history.off, history.below)
  /\ ParserIs(parser) /\ HistoryIs(history)

(* The colours of the text and those saved stay what they are. *)
ColoursStay == SameColours(ctx, ctx') /\ ctx'.saved_state = ctx.saved_state
SceneStays == SameScene(ctx, ctx')
Kept == TermInv' /\ ColoursStay /\ SceneStays

LEMMA HistoryLeft ==
  ASSUME HistoryIs(history), NEW t, NEW p, Leave(t, p)
  PROVE  /\ HistoryIs(history') /\ history'.refreshed = history.refreshed
         /\ history'.plain = history.plain /\ history'.torn = history.torn
         /\ history'.strays = Strays
         /\ history'.saved_strays = IF Code /\ c = 55 THEN history.strays ELSE history.saved_strays
         /\ history.off \/ Skips => history'.off
         /\ history.below \/ (ctx.bottom < ctx.rows /\ t.cursor_y >= ctx.rows) => history'.below
<1>1. PICK o : o = (history.off \/ Skips)
  BY Zenon
<1>2. PICK b : b = (history.below \/ (ctx.bottom < ctx.rows /\ t.cursor_y >= ctx.rows))
  BY Zenon
<1>3. PICK v : v = IF Code /\ c = 55 THEN history.strays ELSE history.saved_strays
  BY Zenon
<1>4. history' = [history EXCEPT !.off = o, !.strays = Strays, !.below = b, !.saved_strays = v]
  BY <1>1, <1>2, <1>3, Zenon DEF Leave
<1>5. /\ HistoryIs(history') /\ history'.off = o /\ history'.below = b
      /\ history'.refreshed = history.refreshed /\ history'.strays = Strays /\ history'.saved_strays = v
      /\ history'.plain = history.plain /\ history'.torn = history.torn
  <2>1. PICK h, g : h = history /\ g = history'
    OBVIOUS
  <2>2. g = [h EXCEPT !.off = o, !.strays = Strays, !.below = b, !.saved_strays = v]
    BY <1>4, <2>1, Zenon
  <2>3. PICK s : s = Strays
    OBVIOUS
  <2>4. HistoryIs(h) /\ g = [h EXCEPT !.off = o, !.strays = s, !.below = b, !.saved_strays = v]
    BY <2>1, <2>2, <2>3, Zenon
  <2>5. /\ HistoryIs(g) /\ g.off = o /\ g.below = b /\ g.refreshed = h.refreshed
        /\ g.strays = s /\ g.saved_strays = v /\ g.plain = h.plain /\ g.torn = h.torn
    BY ONLY <2>4 DEF HistoryIs
  <2> QED
    BY <2>1, <2>3, <2>5, Zenon
<1>6. (history.off \/ Skips => history'.off)
  BY <1>1, <1>5, Zenon
<1>7. history.below \/ (ctx.bottom < ctx.rows /\ t.cursor_y >= ctx.rows) => history'.below
  BY <1>2, <1>5, Zenon
<1> QED
  BY <1>3, <1>5, <1>6, <1>7, Zenon

(* What a byte finds. *)
Finds(n, m) ==
  /\ n \in Nat \ {0} /\ m \in Nat \ {0, 1} /\ n = cols(mode) /\ m = rows(mode)
  /\ mode \in Modes /\ mode # NULL /\ ctx # NULL /\ Initialises(mode) /\ ~halted
  /\ NULL \notin Context(n, m)
LEMMA FoundIs ==
  ASSUME TermInv, ctx # NULL
  PROVE  \E n, m : Finds(n, m)
<1>1. mode \in Modes /\ mode # NULL /\ Initialises(mode) /\ ~halted
  BY FlantermAssumption DEF TermInv
<1>2. cols(mode) \in Nat \ {0} /\ rows(mode) \in Nat \ {0, 1}
  BY <1>1, SizeIs
<1>3. NULL \notin Context(cols(mode), rows(mode))
  BY <1>1, FlantermAssumption
<1> QED
  BY <1>1, <1>2, <1>3 DEF Finds

LEMMA LeaveKeeps ==
  ASSUME TermInv, TakeByte, NEW n, NEW m, Finds(n, m), NEW t, NEW p, Leave(t, p), ParserIs(p),
         NEW o, NEW b, o => history.off \/ Skips,
         b => history.below \/ (ctx.bottom < ctx.rows /\ t.cursor_y >= ctx.rows),
         TerminalIs(t, n, m, history.refreshed, o, b)
  PROVE  TermInv'
<1>1. /\ mode' = mode /\ turn' = turn /\ halted' = halted /\ ctx' = t /\ parser' = p
  BY DEF TakeByte, Leave
<1>2. /\ HistoryIs(history') /\ history'.refreshed = history.refreshed
      /\ o => history'.off
      /\ b => history'.below
  <2>1. HistoryIs(history)
    BY DEF TermInv
  <2> QED
    BY <2>1, HistoryLeft
<1>3. t # NULL
  BY DEF TerminalIs, Finds
<1>4. TerminalIs(t, n, m, history'.refreshed, history'.off, history'.below)
  BY <1>2 DEF TerminalIs
<1>5. cols(mode)' = n /\ rows(mode)' = m /\ Initialises(mode)'
  BY <1>1, Zenon DEF Finds
<1>6. (mode \in Modes \cup {NULL} /\ turn \in Threads /\ ~halted)'
  BY <1>1 DEF TermInv, Finds
<1>7. TerminalIs(ctx, cols(mode), rows(mode), history.refreshed, history.off, history.below)'
  BY <1>1, <1>4, <1>5
<1>8. (mode # NULL /\ ctx # NULL)'
  BY <1>1, <1>3 DEF Finds
<1> QED
  BY <1>1, <1>2, <1>5, <1>6, <1>7, <1>8 DEF TermInv

(* What a byte finds; b says why a row may lie below the screen. *)
Facts(n, m, b) ==
  /\ Finds(n, m) /\ ParserIs(parser)
  /\ TerminalIs(ctx, n, m, history.refreshed, history.off, history.below)
  /\ b <=> (history.below \/ ctx.bottom < m)
LEMMA FactsAre ==
  ASSUME TermInv, ctx # NULL
  PROVE  \E n, m, b : Facts(n, m, b)
<1>1. PICK n, m : Finds(n, m)
  BY FoundIs
<1>2. PICK b : b <=> (history.below \/ ctx.bottom < m)
  BY Zenon
<1>3. TerminalIs(ctx, n, m, history.refreshed, history.off, history.below) /\ ParserIs(parser)
  BY <1>1, Zenon DEF TermInv, Finds
<1> QED
  BY <1>1, <1>2, <1>3, Zenon DEF Facts

LEMMA ByteFinds ==
  ASSUME TermInv, TakeByte
  PROVE  ctx # NULL
<1>1. turn \in Threads /\ input[turn] # <<>>
  BY DEF TermInv, TakeByte
<1> QED
  BY <1>1 DEF TermInv

(* The context with scrolling on or off. *)
Switched(t, on) == [t EXCEPT !.scroll_enabled = on]
SwitchedAs(t, u, on, n, m) ==
  /\ u \in Context(n, m) /\ u.queue = t.queue /\ u.map = t.map /\ SameCursor(t, u)
  /\ u.top = t.top /\ u.bottom = t.bottom /\ u.saved_state = t.saved_state
  /\ u.scroll_enabled = on /\ u.cols = n /\ u.rows = m /\ SameColours(t, u) /\ SameScene(t, u)
LEMMA SwitchedIs ==
  ASSUME NEW n, NEW m, NEW t \in Context(n, m), NEW on \in BOOLEAN
  PROVE  SwitchedAs(t, Switched(t, on), on, n, m)
<1>0. PICK G, M, Q, S, P : ContextAs(n, m, G, M, Q, S, P)
  BY FieldsAre
<1>1. t \in Fields(n, m, G, M, Q, S, P)
  BY <1>0 DEF ContextAs
<1>2. PICK u : u = Switched(t, on)
  OBVIOUS
<1>3. u \in Fields(n, m, G, M, Q, S, P)
  BY ONLY <1>1, <1>2, on \in BOOLEAN DEF Fields, Switched
<1>4. /\ u.queue = t.queue /\ u.map = t.map /\ SameCursor(t, u)
      /\ u.top = t.top /\ u.bottom = t.bottom /\ u.saved_state = t.saved_state
      /\ u.scroll_enabled = on /\ u.cols = n /\ u.rows = m /\ SameColours(t, u) /\ SameScene(t, u)
  BY ONLY <1>1, <1>2 DEF Fields, Switched, SameCursor, SameColours, SameScene
<1> QED
  BY <1>0, <1>2, <1>3, <1>4 DEF SwitchedAs, ContextAs

LEMMA ReadyHere ==
  ASSUME NEW n, NEW m, NEW b, Facts(n, m, b)
  PROVE  /\ n \in Nat \ {0} /\ m \in Nat \ {0} /\ n \in Nat /\ m \in Nat
         /\ Ready(ctx, history.refreshed, b, history.off, n, m)
         /\ Ready(Still, history.refreshed, b, history.off, n, m)
         /\ SwitchedAs(ctx, Still, FALSE, n, m)
         /\ ctx \in Context(n, m) /\ Still \in Context(n, m)
         /\ OnePer(ctx, history.refreshed) /\ OnePer(Still, history.refreshed)
         /\ ctx.cols = n /\ ctx.rows = m
<1>1. n \in Nat \ {0} /\ m \in Nat \ {0} /\ n \in Nat /\ m \in Nat
  BY DEF Facts, Finds
<1>2. /\ ctx \in Context(n, m) /\ OnePer(ctx, history.refreshed)
      /\ ctx.top < ctx.bottom - 1 /\ ctx.bottom <= m
      /\ ctx.cursor_x <= n \/ history.off
      /\ ctx.cursor_y < m \/ (ctx.cursor_y < n /\ history.below)
  BY DEF Facts, TerminalIs
<1>3. /\ ctx.cols = n /\ ctx.rows = m /\ ctx.top \in Nat /\ ctx.bottom \in Nat
      /\ ctx.cursor_x \in Nat /\ ctx.cursor_y \in Nat
  BY <1>2 DEF Context
<1>4. history.below \/ ctx.bottom < m => b
  BY Zenon DEF Facts
<1>5. ctx.bottom \in 1 .. m
  BY <1>1, <1>2, <1>3
<1>6. Ready(ctx, history.refreshed, b, history.off, n, m)
  BY <1>2, <1>3, <1>4, <1>5 DEF Ready, Placeable, Placed
<1>7. SwitchedAs(ctx, Still, FALSE, n, m)
  <2>1. Still = Switched(ctx, FALSE)
    BY DEF Still, Switched
  <2> QED
    BY <1>2, <2>1, SwitchedIs
<1>8. /\ Still \in Context(n, m) /\ Still.queue = ctx.queue /\ Still.map = ctx.map /\ SameCursor(ctx, Still)
      /\ Still.bottom = ctx.bottom /\ Still.scroll_enabled = FALSE /\ Still.cols = n /\ Still.rows = m
  BY <1>7 DEF SwitchedAs
<1>9. OnePer(Still, history.refreshed)
  BY <1>2, <1>8, SameQueue
<1>10. Ready(Still, history.refreshed, b, history.off, n, m)
  BY <1>2, <1>3, <1>4, <1>5, <1>8, <1>9 DEF Ready, Placeable, Placed, SameCursor
<1> QED
  BY <1>1, <1>2, <1>3, <1>6, <1>7, <1>8, <1>9, <1>10

(* A byte that types on the context. *)
LEMMA TypedLeaves ==
  ASSUME TermInv, TakeByte, NEW n, NEW m, NEW b, Facts(n, m, b),
         NEW t \in Typed(ctx, history.refreshed, b, history.off), NEW p, ParserIs(p), Leave(t, p)
  PROVE  Kept
<1>1. /\ n \in Nat /\ m \in Nat /\ ctx \in Context(n, m) /\ ctx.rows = m
  BY ReadyHere
<1>2. /\ t \in Context(n, m) /\ OnePer(t, history.refreshed) /\ Keeps(ctx, t) /\ Placed(t, b)
      /\ t.scroll_enabled => t.cursor_x <= n \/ history.off
      /\ t.cols = n /\ t.rows = m /\ t.cursor_y \in Nat
  BY <1>1, TypedIs
<1>3. /\ t.top = ctx.top /\ t.bottom = ctx.bottom /\ t.scroll_enabled = ctx.scroll_enabled
      /\ t.saved_state = ctx.saved_state
  BY <1>2 DEF Keeps, Holds
<1>4. /\ ctx.top < ctx.bottom - 1 /\ ctx.bottom <= m
      /\ ctx.scroll_enabled \/ history.off
      /\ ctx.saved_state.x <= n \/ history.off
      /\ ctx.saved_state.y < m \/ (ctx.saved_state.y < n /\ history.below)
  BY DEF Facts, TerminalIs
<1>5. PICK o : o = history.off
  OBVIOUS
<1>6. PICK a : a <=> (history.below \/ (ctx.bottom < ctx.rows /\ t.cursor_y >= ctx.rows))
  BY Zenon
<1>7. t.cursor_y < m \/ (t.cursor_y < n /\ a)
  <2>1. t.cursor_y < m \/ (t.cursor_y < n /\ b)
    BY <1>2 DEF Placed
  <2>2. b => history.below \/ ctx.bottom < m
    BY Zenon DEF Facts
  <2>3. t.cursor_y < m \/ t.cursor_y >= m
    BY <1>1, <1>2
  <2> QED
    BY <1>1, <1>6, <2>1, <2>2, <2>3, Zenon
<1>8. TerminalIs(t, n, m, history.refreshed, o, a)
  <2>1. /\ t.cursor_x <= n \/ o
        /\ t.scroll_enabled \/ o
        /\ t.saved_state.x <= n \/ o
    BY <1>2, <1>3, <1>4, <1>5
  <2>2. t.saved_state.y < m \/ (t.saved_state.y < n /\ a)
    BY <1>3, <1>4, <1>6, Zenon
  <2> QED
    BY <1>2, <1>3, <1>4, <1>7, <2>1, <2>2 DEF TerminalIs
<1>9. Finds(n, m)
  BY DEF Facts
<1>10. o => history.off \/ Skips
  BY <1>5, Zenon
<1>11. a => history.below \/ (ctx.bottom < ctx.rows /\ t.cursor_y >= ctx.rows)
  BY <1>6, Zenon
<1>12. TermInv'
  BY <1>8, <1>9, <1>10, <1>11, LeaveKeeps
<1>13. ctx' = t
  BY DEF Leave
<1> QED
  BY <1>2, <1>3, <1>12, <1>13 DEF Kept, ColoursStay, SceneStays, Keeps, Holds

(* A command that ends. *)
Settled(t, n, m, b) ==
  /\ t \in Context(n, m) /\ OnePer(t, history.refreshed)
  /\ t.top < t.bottom - 1 /\ t.bottom <= m
  /\ t.cursor_x <= n \/ history.off
  /\ t.cursor_y < m \/ (t.cursor_y < n /\ b)
  /\ t.saved_state = ctx.saved_state /\ SameScene(ctx, t)
Resting(t, n, m, b) == Settled(t, n, m, b) /\ SameColours(ctx, t)
LEMMA FinishKeeps ==
  ASSUME TermInv, NEW n, NEW m, NEW b, Facts(n, m, b), NEW codes, NEW t, Settled(t, n, m, b), Finish(codes, t)
  PROVE  TermInv' /\ SameColours(t, ctx') /\ ctx'.saved_state = ctx.saved_state /\ SceneStays
<1>1. /\ n \in Nat /\ m \in Nat /\ ctx \in Context(n, m) /\ ctx.rows = m
  BY ReadyHere
<1>2. PICK u : u = Switched(t, ctx.scroll_enabled)
  OBVIOUS
<1>3. TakeByte /\ Leave(u, Ended)
  BY <1>2 DEF Finish, Switched
<1>4. ctx.scroll_enabled \in BOOLEAN
  BY <1>1 DEF Context
<1>5. SwitchedAs(t, u, ctx.scroll_enabled, n, m)
  BY <1>2, <1>4, SwitchedIs DEF Settled
<1>6. /\ u \in Context(n, m) /\ u.queue = t.queue /\ u.map = t.map
      /\ u.cursor_x = t.cursor_x /\ u.cursor_y = t.cursor_y /\ u.top = t.top /\ u.bottom = t.bottom
      /\ u.saved_state = ctx.saved_state /\ u.scroll_enabled = ctx.scroll_enabled
  BY <1>5 DEF SwitchedAs, SameCursor, Settled
<1>7. OnePer(u, history.refreshed)
  BY <1>6, SameQueue DEF Settled
<1>8. /\ u.top < u.bottom - 1 /\ u.bottom <= m
      /\ u.cursor_x <= n \/ history.off
      /\ u.cursor_y < m \/ (u.cursor_y < n /\ b)
  BY <1>6 DEF Settled
<1>9. /\ u.scroll_enabled \/ history.off
      /\ u.saved_state.x <= n \/ history.off
      /\ u.saved_state.y < m \/ (u.saved_state.y < n /\ history.below)
  BY <1>6 DEF Facts, TerminalIs
<1>10. PICK o : o = history.off
  OBVIOUS
<1>11. PICK a : a <=> (history.below \/ (ctx.bottom < ctx.rows /\ u.cursor_y >= ctx.rows))
  BY Zenon
<1>12. u.cursor_y < m \/ (u.cursor_y < n /\ a)
  <2>1. b => history.below \/ ctx.bottom < m
    BY Zenon DEF Facts
  <2>2. u.cursor_y < m \/ u.cursor_y >= m
    <3>1. u.cursor_y \in Nat
      BY <1>6 DEF Context
    <3> QED
      BY <1>1, <3>1
  <2> QED
    BY <1>1, <1>8, <1>11, <2>1, <2>2, Zenon
<1>13. TerminalIs(u, n, m, history.refreshed, o, a)
  <2>1. /\ u.cursor_x <= n \/ o
        /\ u.scroll_enabled \/ o
        /\ u.saved_state.x <= n \/ o
    BY <1>8, <1>9, <1>10
  <2>2. u.saved_state.y < m \/ (u.saved_state.y < n /\ a)
    BY <1>9, <1>11, Zenon
  <2> QED
    BY <1>6, <1>7, <1>8, <1>12, <2>1, <2>2 DEF TerminalIs
<1>14. Finds(n, m)
  BY DEF Facts
<1>15. o => history.off \/ Skips
  BY <1>10, Zenon
<1>16. a => history.below \/ (ctx.bottom < ctx.rows /\ u.cursor_y >= ctx.rows)
  BY <1>11, Zenon
<1>17. TermInv'
  BY <1>3, <1>13, <1>14, <1>15, <1>16, GroundIs, LeaveKeeps
<1>18. ctx' = u
  BY <1>3 DEF Leave
<1>19. SceneStays
  BY <1>5, <1>18 DEF SwitchedAs, Settled, SameScene, SceneStays
<1> QED
  BY <1>5, <1>6, <1>17, <1>18, <1>19 DEF SwitchedAs

LEMMA RestingKeeps ==
  ASSUME TermInv, NEW n, NEW m, NEW b, Facts(n, m, b), NEW codes, NEW t, Resting(t, n, m, b), Finish(codes, t)
  PROVE  Kept
<1>1. /\ TermInv' /\ SameColours(t, ctx') /\ ctx'.saved_state = ctx.saved_state /\ SceneStays
      /\ SameColours(ctx, t)
  BY FinishKeeps DEF Resting
<1> QED
  BY <1>1 DEF Kept, ColoursStay, SceneStays, SameColours, SameScene

LEMMA TypedSettles ==
  ASSUME NEW n, NEW m, NEW b, Facts(n, m, b), NEW o, NEW t \in Typed(Still, history.refreshed, b, o),
         t.cursor_x <= n \/ history.off
  PROVE  Resting(t, n, m, b)
<1>1. /\ n \in Nat /\ m \in Nat /\ Still \in Context(n, m) /\ SwitchedAs(ctx, Still, FALSE, n, m)
  BY ReadyHere
<1>2. /\ t \in Context(n, m) /\ OnePer(t, history.refreshed) /\ Keeps(Still, t) /\ Placed(t, b)
      /\ t.cols = n /\ t.rows = m
  BY <1>1, TypedIs
<1>3. t.top = ctx.top /\ t.bottom = ctx.bottom /\ t.saved_state = ctx.saved_state
  BY <1>1, <1>2 DEF Keeps, Holds, SwitchedAs
<1>4. ctx.top < ctx.bottom - 1 /\ ctx.bottom <= m
  BY DEF Facts, TerminalIs
<1>5. SameColours(ctx, t) /\ SameScene(ctx, t)
  BY <1>1, <1>2 DEF Keeps, Holds, SwitchedAs, SameColours, SameScene
<1> QED
  BY <1>2, <1>3, <1>4, <1>5 DEF Resting, Settled, Placed

LEMMA PositionSettles ==
  ASSUME NEW n, NEW m, NEW b, Facts(n, m, b), NEW o, NEW u \in Typed(Still, history.refreshed, b, o),
         NEW x \in Int, NEW y \in Int
  PROVE  Resting(set_cursor_pos(u, x, y), n, m, b)
<1>1. /\ n \in Nat \ {0} /\ m \in Nat \ {0} /\ n \in Nat /\ m \in Nat /\ Still \in Context(n, m)
  BY ReadyHere
<1>2. /\ u \in Context(n, m) /\ OnePer(u, history.refreshed) /\ Keeps(Still, u)
  BY <1>1, TypedIs
<1>3. PICK v : v = set_cursor_pos(u, x, y)
  OBVIOUS
<1>4. v \in Typed(u, history.refreshed, b, o) /\ v.cursor_x = Clamp(x, n)
  BY <1>1, <1>2, <1>3, SetCursor
<1>5. v \in Typed(Still, history.refreshed, b, o)
  BY <1>1, <1>2, <1>4, TypedAgain
<1>6. v.cursor_x <= n
  <2>1. Clamp(x, n) \in 0 .. n - 1
    BY <1>1, ClampIs
  <2> QED
    BY <1>1, <1>4, <2>1
<1> QED
  BY <1>3, <1>5, <1>6, TypedSettles

----------------------------------------------------------------------------
(* Bytes that change the parser alone. *)

LEMMA ParsesOn ==
  ASSUME TermInv, TakeByte, NEW p, ParserIs(p), Leave(ctx, p)
  PROVE  Kept
<1>1. PICK n, m, b : Facts(n, m, b)
  BY ByteFinds, FactsAre
<1>2. ctx \in Typed(ctx, history.refreshed, b, history.off)
  BY <1>1, ReadyHere, ReadyIs
<1> QED
  BY <1>1, <1>2, TypedLeaves

LEMMA ParserHere ==
  ASSUME TermInv
  PROVE  /\ ParserIs(Fresh) /\ ParserIs(Counted) /\ ParserIs(NoOsc) /\ ParserIs(Filled)
         /\ ParserIs(Ended) /\ ParserIs(Ground) /\ ParserIs(parser)
         /\ \A k \in Values : Value(k) \in Nat
BY GroundIs, FreshIs, FilledIs DEF TermInv

(* What is not about values may change. *)
LEMMA ParserChanged ==
  ASSUME NEW p, ParserIs(p), NEW x, NEW y
  PROVE  /\ ParserIs([p EXCEPT !.unicode_remaining = x, !.code_point = y])
         /\ ParserIs([p EXCEPT !.osc_escape = x]) /\ ParserIs([p EXCEPT !.osc = x])
         /\ ParserIs([p EXCEPT !.g_select = x]) /\ ParserIs([p EXCEPT !.discard_next = x])
         /\ ParserIs([p EXCEPT !.dec_private = x]) /\ ParserIs([p EXCEPT !.csi_unhandled = x])
         /\ ParserIs([p EXCEPT !.escape_offset = x, !.escape = y])
<1>1. DOMAIN p = Parts
  BY DEF ParserIs
<1>2. /\ SameValues(p, [p EXCEPT !.unicode_remaining = x, !.code_point = y])
      /\ SameValues(p, [p EXCEPT !.osc_escape = x]) /\ SameValues(p, [p EXCEPT !.osc = x])
      /\ SameValues(p, [p EXCEPT !.g_select = x]) /\ SameValues(p, [p EXCEPT !.discard_next = x])
      /\ SameValues(p, [p EXCEPT !.dec_private = x]) /\ SameValues(p, [p EXCEPT !.csi_unhandled = x])
      /\ SameValues(p, [p EXCEPT !.escape_offset = x, !.escape = y])
  BY ONLY <1>1 DEF SameValues, Parts
<1> QED
  BY <1>2, SameParses

LEMMA CancelKeeps == TermInv /\ Cancel => Kept
BY ParserHere, ParsesOn DEF Cancel

LEMMA LeadKeeps == TermInv /\ Lead => Kept
<1> SUFFICES ASSUME TermInv, Lead PROVE Kept
  OBVIOUS
<1>0. PICK x : x = IF c < 224 THEN 1 ELSE IF c < 240 THEN 2 ELSE 3
  OBVIOUS
<1>1. PICK y : y = (c % (2 ^ (6 - x))) * (64 ^ x)
  BY Zenon
<1>3. TakeByte /\ Leave(ctx, [Fresh EXCEPT !.unicode_remaining = x, !.code_point = y])
  BY <1>0, <1>1, Zenon DEF Lead
<1>2. ParserIs([Fresh EXCEPT !.unicode_remaining = x, !.code_point = y])
  BY ParserHere, ParserChanged
<1> QED
  BY <1>2, <1>3, ParsesOn

LEMMA OscByteKeeps == TermInv /\ OscByte => Kept
<1> SUFFICES ASSUME TermInv, OscByte PROVE Kept
  OBVIOUS
<1>1. CASE parser.osc_escape \/ c = 7
  BY <1>1, ParserHere, ParsesOn DEF OscByte
<1>2. CASE ~(parser.osc_escape \/ c = 7)
  <2>1. PICK x : TakeByte /\ Leave(ctx, [Counted EXCEPT !.osc_escape = x])
    BY <1>2, Zenon DEF OscByte
  <2>2. ParserIs([Counted EXCEPT !.osc_escape = x])
    BY ParserHere, ParserChanged
  <2> QED
    BY <2>1, <2>2, ParsesOn
<1> QED
  BY <1>1, <1>2

LEMMA BeginOscKeeps == TermInv /\ BeginOsc => Kept
BY ParserHere, ParserChanged, ParsesOn DEF BeginOsc

LEMMA BeginCsiKeeps == TermInv /\ BeginCsi => Kept
<1> SUFFICES ASSUME TermInv, BeginCsi PROVE Kept
  OBVIOUS
<1>1. PICK none \in [Values -> Nat] : none = [k \in Values |-> 0]
  OBVIOUS
<1>2. PICK p, q : p = NoOsc /\ q = [p EXCEPT !.control_sequence = TRUE, !.esc_values_i = 0, !.rrr = FALSE,
                                             !.csi_unhandled = FALSE, !.esc_values = none]
  OBVIOUS
<1>3. TakeByte /\ Leave(ctx, q)
  BY <1>1, <1>2 DEF BeginCsi
<1>4. DOMAIN p = Parts
  BY <1>2, ParserHere DEF ParserIs
<1>5. DOMAIN q = Parts /\ q.esc_values = none /\ q.esc_values_i = 0 /\ q.rrr = FALSE
  BY ONLY <1>2, <1>4 DEF Parts
<1>6. 0 \in 0 .. FLANTERM_MAX_ESC_VALUES
  BY MaxValues
<1>7. ParserIs(q)
  BY <1>5, <1>6 DEF ParserIs, Room
<1> QED
  BY <1>3, <1>7, ParsesOn

LEMMA SelectSetKeeps == TermInv /\ SelectSet => Kept
BY ParserHere, ParserChanged, ParsesOn DEF SelectSet
LEMMA OtherCodeKeeps == TermInv /\ OtherCode => Kept
BY ParserHere, ParsesOn DEF OtherCode
LEMMA BadCsiKeeps == TermInv /\ BadCsi => Kept
BY ParserHere, ParserChanged, ParsesOn DEF BadCsi
LEMMA IgnoredKeeps == TermInv /\ Ignored => Kept
BY ParserHere, ParsesOn DEF Ignored
LEMMA EscapeKeeps == TermInv /\ Escape => Kept
BY ParserHere, ParserChanged, ParsesOn DEF Escape

(* A digit goes to the value that is being read, if there is one. *)
LEMMA ParameterKeeps == TermInv /\ Parameter => Kept
<1> SUFFICES ASSUME TermInv, Parameter PROVE Kept
  OBVIOUS
<1>1. PICK p : p = NoOsc
  OBVIOUS
<1>2. ParserIs(p)
  BY <1>1, ParserHere
<1>3. PICK i, values : i = p.esc_values_i /\ values = p.esc_values
  OBVIOUS
<1>4. i \in 0 .. FLANTERM_MAX_ESC_VALUES /\ values \in [Values -> Nat] /\ DOMAIN p = Parts
  BY <1>2, <1>3 DEF ParserIs
<1>5. TakeByte
  BY DEF Parameter
<1>6. CASE SecondByte /\ c = 63
  <2>1. Leave(ctx, [p EXCEPT !.dec_private = TRUE])
    BY <1>1, <1>6 DEF Parameter
  <2> QED
    BY <1>2, <1>5, <2>1, ParserChanged, ParsesOn
<1>7. CASE i = FLANTERM_MAX_ESC_VALUES /\ Leave(ctx, p)
  BY <1>2, <1>5, <1>7, ParsesOn
<1>8. ASSUME NEW q, NEW j \in Nat, NEW new \in [Values -> Nat], NEW r, Leave(ctx, q), DOMAIN q = Parts,
             q.esc_values = new, q.esc_values_i = j, q.rrr = r, j <= FLANTERM_MAX_ESC_VALUES,
             r => j < FLANTERM_MAX_ESC_VALUES
      PROVE  Kept
  <2>1. j \in 0 .. FLANTERM_MAX_ESC_VALUES
    BY <1>8, MaxValues
  <2>2. Room(q)
    BY <1>8, Zenon DEF Room
  <2>3. ParserIs(q)
    BY <1>8, <2>1, <2>2 DEF ParserIs
  <2> QED
    BY <1>5, <1>8, <2>3, ParsesOn
<1>9. ASSUME IsDigit, i # FLANTERM_MAX_ESC_VALUES, ~(SecondByte /\ c = 63) PROVE Kept
  <2>1. i \in Values /\ i < FLANTERM_MAX_ESC_VALUES
    BY <1>4, <1>9, MaxValues DEF Values
  <2>2. PICK v \in Nat : v = 10 * values[i] + (c - 48)
    BY <1>4, <1>9, <2>1 DEF IsDigit
  <2>3. PICK new : new = [values EXCEPT ![i] = v]
    OBVIOUS
  <2>4. new \in [Values -> Nat]
    BY <1>4, <2>1, <2>3
  <2>5. PICK q : q = [p EXCEPT !.rrr = TRUE, !.esc_values = new]
    OBVIOUS
  <2>6. Leave(ctx, q)
    <3>1. Leave(ctx, [p EXCEPT !.rrr = TRUE, !.esc_values[i] = 10 * @ + (c - 48)])
      BY <1>1, <1>3, <1>9 DEF Parameter
    <3>2. [p EXCEPT !.rrr = TRUE, !.esc_values[i] = 10 * @ + (c - 48)] = q
      BY <1>3, <1>4, <2>2, <2>3, <2>5 DEF Parts
    <3> QED
      BY <3>1, <3>2
  <2>7. DOMAIN q = Parts /\ q.esc_values = new /\ q.esc_values_i = i /\ q.rrr = TRUE
    BY ONLY <1>3, <1>4, <2>5 DEF Parts
  <2> QED
    BY <1>4, <1>8, <2>1, <2>4, <2>6, <2>7
<1>10. ASSUME p.rrr, ~IsDigit, ~(SecondByte /\ c = 63) PROVE Kept
  <2>1. PICK q : q = [p EXCEPT !.rrr = FALSE, !.esc_values_i = i + 1]
    OBVIOUS
  <2>2. Leave(ctx, q)
    BY <1>1, <1>3, <1>10, <2>1 DEF Parameter
  <2>3. i < FLANTERM_MAX_ESC_VALUES
    BY <1>2, <1>3, <1>10 DEF ParserIs, Room
  <2>4. DOMAIN q = Parts /\ q.esc_values = values /\ q.esc_values_i = i + 1 /\ q.rrr = FALSE
    BY ONLY <1>3, <1>4, <2>1 DEF Parts
  <2>5. i + 1 \in Nat /\ i + 1 <= FLANTERM_MAX_ESC_VALUES
    BY <1>4, <2>3, MaxValues
  <2> QED
    BY <1>4, <1>8, <2>2, <2>4, <2>5
<1>11. ASSUME ~p.rrr, i # FLANTERM_MAX_ESC_VALUES, ~IsDigit, ~(SecondByte /\ c = 63) PROVE Kept
  <2>1. i \in Values /\ i < FLANTERM_MAX_ESC_VALUES
    BY <1>4, <1>11, MaxValues DEF Values
  <2>2. PICK new : new = [values EXCEPT ![i] = 0]
    OBVIOUS
  <2>3. new \in [Values -> Nat]
    BY <1>4, <2>1, <2>2
  <2>4. PICK q : q = [p EXCEPT !.esc_values = new, !.esc_values_i = i + 1]
    OBVIOUS
  <2>5. Leave(ctx, q)
    <3>1. Leave(ctx, [p EXCEPT !.esc_values[i] = 0, !.esc_values_i = i + 1])
      BY <1>1, <1>3, <1>11 DEF Parameter
    <3>2. [p EXCEPT !.esc_values[i] = 0, !.esc_values_i = i + 1] = q
      BY <1>3, <1>4, <2>2, <2>4 DEF Parts
    <3> QED
      BY <3>1, <3>2
  <2>6. DOMAIN q = Parts /\ q.esc_values = new /\ q.esc_values_i = i + 1 /\ q.rrr = p.rrr
    BY ONLY <1>3, <1>4, <2>4 DEF Parts
  <2>7. i + 1 \in Nat /\ i + 1 <= FLANTERM_MAX_ESC_VALUES /\ (p.rrr => i + 1 < FLANTERM_MAX_ESC_VALUES)
    BY <1>4, <1>11, <2>1, MaxValues
  <2> QED
    BY <1>8, <2>3, <2>5, <2>6, <2>7
<1>12. i = FLANTERM_MAX_ESC_VALUES /\ ~(SecondByte /\ c = 63) /\ (IsDigit \/ ~p.rrr) => Leave(ctx, p)
  BY <1>1, <1>3, Zenon DEF Parameter
<1> QED
  BY <1>6, <1>7, <1>9, <1>10, <1>11, <1>12, Zenon

----------------------------------------------------------------------------
(* Bytes that type. *)

LEMMA ContinuationKeeps == TermInv /\ Continuation => Kept
<1> SUFFICES ASSUME TermInv, Continuation PROVE Kept
  OBVIOUS
<1>1. TakeByte
  BY DEF Continuation
<1>2. PICK n, m, b : Facts(n, m, b)
  BY <1>1, ByteFinds, FactsAre
<1>3. PICK k : k = parser.unicode_remaining - 1
  OBVIOUS
<1>4. PICK code_point : code_point = parser.code_point + (c % 64) * (64 ^ k)
  BY Zenon
<1>5. IF k # 0 THEN Leave(ctx, [parser EXCEPT !.unicode_remaining = k, !.code_point = code_point])
      ELSE Leave(Glyph(ctx, code_point), [parser EXCEPT !.unicode_remaining = 0, !.code_point = 0])
  BY <1>3, <1>4, Zenon DEF Continuation
<1>6. /\ ParserIs([parser EXCEPT !.unicode_remaining = k, !.code_point = code_point])
      /\ ParserIs([parser EXCEPT !.unicode_remaining = 0, !.code_point = 0])
  BY ParserHere, ParserChanged
<1>7. Glyph(ctx, code_point) \in Typed(ctx, history.refreshed, b, history.off)
  BY <1>2, ReadyHere, GlyphTyped
<1> QED
  BY <1>1, <1>2, <1>5, <1>6, <1>7, ParsesOn, TypedLeaves

(* A position after some drawing. *)
LEMMA PositionTypes ==
  ASSUME NEW n, NEW m, NEW b, Facts(n, m, b), NEW u \in Drawn(ctx, history.refreshed), NEW x \in Int, NEW y \in Int
  PROVE  set_cursor_pos(u, x, y) \in Typed(ctx, history.refreshed, b, history.off)
<1>1. /\ n \in Nat \ {0} /\ m \in Nat \ {0} /\ n \in Nat /\ m \in Nat /\ ctx \in Context(n, m)
  BY ReadyHere
<1>2. u \in Context(n, m) /\ OnePer(u, history.refreshed) /\ Keeps(ctx, u)
  BY <1>1, DrawnIs DEF Drawn
<1>3. set_cursor_pos(u, x, y) \in Typed(u, history.refreshed, b, history.off)
  BY <1>1, <1>2, SetCursor
<1> QED
  BY <1>1, <1>2, <1>3, TypedAgain

LEMMA HereIs ==
  ASSUME NEW n, NEW m, NEW b, Facts(n, m, b)
  PROVE  /\ n \in Nat /\ m \in Nat /\ n > 0 /\ m > 0 /\ ctx.cols = n /\ ctx.rows = m
         /\ X(ctx) \in 0 .. n - 1 /\ Y(ctx) \in 0 .. m - 1 /\ X(ctx) \in Int /\ Y(ctx) \in Int
         /\ ctx \in Drawn(ctx, history.refreshed)
         /\ scroll(ctx) \in Drawn(ctx, history.refreshed) /\ revscroll(ctx) \in Drawn(ctx, history.refreshed)
<1>1. /\ n \in Nat \ {0} /\ m \in Nat \ {0} /\ n \in Nat /\ m \in Nat /\ ctx \in Context(n, m)
      /\ OnePer(ctx, history.refreshed) /\ ctx.bottom \in 1 .. m
  BY ReadyHere, ReadyIs
<1>2. X(ctx) \in 0 .. n - 1 /\ Y(ctx) \in 0 .. m - 1
  BY <1>1, XYIs
<1>3. ctx \in Drawn(ctx, history.refreshed) /\ ctx.cols = n /\ ctx.rows = m
  BY <1>1, Itself
<1>4. scroll(ctx) \in Drawn(ctx, history.refreshed) /\ revscroll(ctx) \in Drawn(ctx, history.refreshed)
  BY <1>1, ScrollDraws, RevscrollDraws
<1> QED
  BY <1>1, <1>2, <1>3, <1>4

LEMMA IndexTypes ==
  ASSUME NEW n, NEW m, NEW b, Facts(n, m, b), NEW x \in Int
  PROVE  /\ Index(ctx, x) \in Typed(ctx, history.refreshed, b, history.off)
         /\ ReverseIndex(ctx) \in Typed(ctx, history.refreshed, b, history.off)
<1>1. PICK y \in Int : y = Y(ctx)
  BY HereIs
<1>2. \A z \in Int, v \in Int :
        /\ set_cursor_pos(scroll(ctx), v, z) \in Typed(ctx, history.refreshed, b, history.off)
        /\ set_cursor_pos(revscroll(ctx), v, z) \in Typed(ctx, history.refreshed, b, history.off)
        /\ set_cursor_pos(ctx, v, z) \in Typed(ctx, history.refreshed, b, history.off)
  BY HereIs, PositionTypes
<1>3. Index(ctx, x) \in {set_cursor_pos(scroll(ctx), x, y), set_cursor_pos(ctx, x, y + 1)}
  BY <1>1 DEF Index
<1>4. ReverseIndex(ctx) \in {set_cursor_pos(revscroll(ctx), 0, y), set_cursor_pos(ctx, 0, y - 1)}
  BY <1>1 DEF ReverseIndex
<1>5. y + 1 \in Int /\ y - 1 \in Int /\ 0 \in Int
  OBVIOUS
<1> QED
  BY <1>2, <1>3, <1>4, <1>5

LEMMA DownKeeps == TermInv /\ Down => Kept
<1> SUFFICES ASSUME TermInv, Down PROVE Kept
  OBVIOUS
<1>1. PICK n, m, b : Facts(n, m, b)
  BY ByteFinds, FactsAre DEF Down
<1>2. PICK x \in Int : x = IF c = 69 THEN 0 ELSE X(ctx)
  BY <1>1, HereIs
<1>3. TakeByte /\ Leave(Index(ctx, x), Ended)
  BY <1>2 DEF Down
<1> QED
  BY <1>1, <1>3, GroundIs, IndexTypes, TypedLeaves

LEMMA LineFeedKeeps == TermInv /\ LineFeed => Kept
<1> SUFFICES ASSUME TermInv, LineFeed PROVE Kept
  OBVIOUS
<1>1. PICK n, m, b : Facts(n, m, b)
  BY ByteFinds, FactsAre DEF LineFeed
<1>2. PICK x \in Int : x = IF ctx.onlcr THEN 0 ELSE X(ctx)
  BY <1>1, HereIs
<1>3. TakeByte /\ Leave(Index(ctx, x), Fresh)
  BY <1>2, Zenon DEF LineFeed
<1> QED
  BY <1>1, <1>3, ParserHere, IndexTypes, TypedLeaves

LEMMA UpKeeps == TermInv /\ Up => Kept
<1> SUFFICES ASSUME TermInv, Up PROVE Kept
  OBVIOUS
<1>1. TakeByte /\ Leave(ReverseIndex(ctx), Ended)
  BY DEF Up
<1>2. PICK n, m, b : Facts(n, m, b)
  BY <1>1, ByteFinds, FactsAre
<1>3. ReverseIndex(ctx) \in Typed(ctx, history.refreshed, b, history.off)
  BY <1>2, 0 \in Int, IndexTypes
<1> QED
  BY <1>1, <1>2, <1>3, GroundIs, TypedLeaves

(* A new position alone. *)
LEMMA MoveKeeps ==
  ASSUME TermInv, TakeByte, NEW x \in Int, NEW y \in Int, Leave(set_cursor_pos(ctx, x, y), Fresh)
  PROVE  Kept
<1>1. PICK n, m, b : Facts(n, m, b)
  BY ByteFinds, FactsAre
<1>2. set_cursor_pos(ctx, x, y) \in Typed(ctx, history.refreshed, b, history.off)
  BY <1>1, HereIs, PositionTypes
<1> QED
  BY <1>1, <1>2, ParserHere, TypedLeaves

LEMMA TabKeeps == TermInv /\ Tab => Kept
<1> SUFFICES ASSUME TermInv, Tab PROVE Kept
  OBVIOUS
<1>1. PICK n, m, b : Facts(n, m, b)
  BY ByteFinds, FactsAre DEF Tab
<1>2. PICK y \in Int : y = Y(ctx)
  BY <1>1, HereIs
<1>3. PICK stop \in Int : stop = (X(ctx) \div tab_size) + 1
  <2>1. tab_size \in Nat \ {0} /\ X(ctx) \in Nat
    BY <1>1, HereIs, FlantermAssumption
  <2> QED
    BY <2>1, Divided
<1>4. PICK x \in Int : x = IF stop >= ctx.cols THEN ctx.cols - 1 ELSE stop * tab_size
  BY <1>1, HereIs, FlantermAssumption
<1>5. TakeByte /\ Leave(set_cursor_pos(ctx, x, y), Fresh)
  BY <1>2, <1>3, <1>4 DEF Tab
<1> QED
  BY <1>5, MoveKeeps

LEMMA BackspaceKeeps == TermInv /\ Backspace => Kept
<1> SUFFICES ASSUME TermInv, Backspace PROVE Kept
  OBVIOUS
<1>1. PICK n, m, b : Facts(n, m, b)
  BY ByteFinds, FactsAre DEF Backspace
<1>2. PICK x \in Int, y \in Int : x = X(ctx) - 1 /\ y = Y(ctx)
  BY <1>1, HereIs
<1> QED
  BY <1>2, MoveKeeps DEF Backspace

LEMMA CarriageReturnKeeps == TermInv /\ CarriageReturn => Kept
<1> SUFFICES ASSUME TermInv, CarriageReturn PROVE Kept
  OBVIOUS
<1>1. PICK n, m, b : Facts(n, m, b)
  BY ByteFinds, FactsAre DEF CarriageReturn
<1>2. PICK x \in Int, y \in Int : x = 0 /\ y = Y(ctx)
  BY <1>1, HereIs
<1> QED
  BY <1>2, MoveKeeps DEF CarriageReturn

LEMMA GlyphOfIs == \A t : GlyphOf(t, c) \in Int
<1>1. \A p \in DecSpecial : p[2] \in Int
  BY DEF DecSpecial
<1>2. (\E p \in DecSpecial : p[1] = c) => (CHOOSE p \in DecSpecial : p[1] = c)[2] \in Int
  <2> DEFINE Q(p) == p \in DecSpecial /\ p[1] = c
  <2> SUFFICES ASSUME NEW q, Q(q) PROVE (CHOOSE p \in DecSpecial : p[1] = c)[2] \in Int
    OBVIOUS
  <2>1. (CHOOSE p : Q(p)) = CHOOSE p \in DecSpecial : p[1] = c
    OBVIOUS
  <2>2. Q(CHOOSE p : Q(p))
    <3> HIDE DEF Q
    <3> QED
      BY Zenon
  <2> QED
    BY <1>1, <2>1, <2>2
<1> HIDE DEF DecSpecial
<1> QED
  BY <1>2 DEF GlyphOf

LEMMA PrintedKeeps == TermInv /\ Printed => Kept
<1> SUFFICES ASSUME TermInv, Printed PROVE Kept
  OBVIOUS
<1>1. PICK n, m, b : Facts(n, m, b)
  BY ByteFinds, FactsAre DEF Printed
<1>2. PICK code \in Int : code = GlyphOf(ctx, c)
  BY GlyphOfIs
<1>3. PICK t : t = Inserted(ctx)
  OBVIOUS
<1>4. TakeByte /\ Leave(raw_putchar(t, code), Fresh)
  BY <1>2, <1>3 DEF Printed
<1>5. /\ n \in Nat \ {0} /\ m \in Nat \ {0} /\ n \in Nat /\ m \in Nat /\ ctx \in Context(n, m)
      /\ OnePer(ctx, history.refreshed) /\ Ready(ctx, history.refreshed, b, history.off, n, m)
  BY <1>1, ReadyHere
<1>6. ctx \in Typed(ctx, history.refreshed, b, history.off) /\ Placeable(ctx, history.refreshed, b, n, m)
  BY <1>5, ReadyIs DEF Ready
<1>7. t \in Drawn(ctx, history.refreshed)
  BY <1>3, <1>5, InsertedDraws
<1>8. t \in Typed(ctx, history.refreshed, b, history.off)
  BY <1>5, <1>6, <1>7, DrawnTyped
<1>9. raw_putchar(t, code) \in Typed(ctx, history.refreshed, b, history.off)
  BY <1>5, <1>6, <1>8, RawPutcharAgain
<1> QED
  BY <1>1, <1>4, <1>9, ParserHere, TypedLeaves

----------------------------------------------------------------------------
(* Bytes that change other parts of the context. *)

(* What they change is neither the text nor where it goes. *)
LEMMA FrameKeeps ==
  ASSUME TermInv, TakeByte, NEW t \in Calm(ctx), NEW p, ParserIs(p), Leave(t, p)
  PROVE  Kept
<1>1. PICK n, m, b : Facts(n, m, b)
  BY ByteFinds, FactsAre
<1>2. n \in Nat /\ m \in Nat /\ ctx \in Context(n, m)
  BY <1>1, ReadyHere
<1>3. t \in Context(n, m) /\ SameFrame(ctx, t)
  BY <1>2, ColouredIs DEF Calm
<1>4. TerminalIs(ctx, n, m, history.refreshed, history.off, history.below) /\ Finds(n, m)
  BY <1>1 DEF Facts
<1>5. OnePer(t, history.refreshed)
  BY <1>2, <1>3, <1>4, SameQueue DEF SameFrame, TerminalIs
<1>6. PICK o, a : o = history.off /\ a = history.below
  OBVIOUS
<1>7. TerminalIs(t, n, m, history.refreshed, o, a)
  BY <1>3, <1>4, <1>5, <1>6 DEF SameFrame, SameCursor, TerminalIs
<1>8. o => history.off \/ Skips
  BY <1>6, Zenon
<1>9. a => history.below \/ (ctx.bottom < ctx.rows /\ t.cursor_y >= ctx.rows)
  BY <1>6, Zenon
<1>10. TermInv'
  BY <1>4, <1>7, <1>8, <1>9, LeaveKeeps
<1>11. ctx' = t /\ SameColours(ctx, t)
  BY DEF Leave, Calm
<1> QED
  BY <1>3, <1>10, <1>11 DEF Kept, ColoursStay, SceneStays, SameFrame

(* The context with another part, of the type it has. *)
CharsetsAs(t, sets) == [t EXCEPT !.charsets = sets]
ShiftedTo(t, k) == [t EXCEPT !.current_charset = k]
Pointing(t, on) == [t EXCEPT !.cursor_enabled = on]
LEMMA PartsAre ==
  ASSUME NEW n \in Nat, NEW m \in Nat, NEW t \in Context(n, m)
  PROVE  /\ \A sets \in [1 .. 2 -> {"default", "dec_special"}] : CharsetsAs(t, sets) \in Calm(t)
         /\ \A k \in 1 .. 2 : ShiftedTo(t, k) \in Calm(t)
         /\ \A on \in BOOLEAN : Pointing(t, on) \in Calm(t)
<1>0. PICK G, M, Q, S, P : ContextAs(n, m, G, M, Q, S, P)
  BY FieldsAre
<1> DEFINE F == Fields(n, m, G, M, Q, S, P)
<1>1. t.cols = n /\ t.rows = m /\ t \in F
  BY <1>0 DEF ContextAs, Context
<1>2. Calm(t) = {v \in F : SameFrame(t, v) /\ SameColours(t, v)} /\ S = [1 .. 2 -> {"default", "dec_special"}]
  BY <1>0, <1>1 DEF ContextAs, Coloured, Calm
<1>3. ASSUME NEW sets \in S
      PROVE  CharsetsAs(t, sets) \in F /\ SameFrame(t, CharsetsAs(t, sets)) /\ SameColours(t, CharsetsAs(t, sets))
  BY ONLY <1>1, <1>3, sets \in S DEF Fields, CharsetsAs, SameFrame, SameCursor, SameColours, SameScene
<1>4. ASSUME NEW k \in 1 .. 2
      PROVE  ShiftedTo(t, k) \in F /\ SameFrame(t, ShiftedTo(t, k)) /\ SameColours(t, ShiftedTo(t, k))
  BY ONLY <1>1, <1>4, k \in 1 .. 2 DEF Fields, ShiftedTo, SameFrame, SameCursor, SameColours, SameScene
<1>5. ASSUME NEW on \in BOOLEAN
      PROVE  Pointing(t, on) \in F /\ SameFrame(t, Pointing(t, on)) /\ SameColours(t, Pointing(t, on))
  BY ONLY <1>1, <1>5, on \in BOOLEAN DEF Fields, Pointing, SameFrame, SameCursor, SameColours, SameScene
<1> HIDE DEF F
<1> QED
  BY <1>2, <1>3, <1>4, <1>5

LEMMA DecPrivateKeeps == TermInv /\ DecPrivate => Kept
<1> SUFFICES ASSUME TermInv, DecPrivate PROVE Kept
  OBVIOUS
<1>1. PICK n, m, b : Facts(n, m, b)
  BY ByteFinds, FactsAre DEF DecPrivate
<1>2. PICK on \in BOOLEAN : on = (c = 104)
  OBVIOUS
<1>3. TakeByte /\ (Leave(Pointing(ctx, on), Ground) \/ Leave(ctx, Ground))
  BY <1>2 DEF DecPrivate, Pointing
<1>4. Pointing(ctx, on) \in Calm(ctx)
  BY <1>1, ReadyHere, PartsAre
<1> QED
  BY <1>3, <1>4, GroundIs, FrameKeeps, ParsesOn

LEMMA ShiftKeeps == TermInv /\ Shift => Kept
<1> SUFFICES ASSUME TermInv, Shift PROVE Kept
  OBVIOUS
<1>1. PICK n, m, b : Facts(n, m, b)
  BY ByteFinds, FactsAre DEF Shift
<1>2. PICK k \in 1 .. 2 : k = 16 - c
  BY DEF Shift
<1>3. TakeByte /\ Leave(ShiftedTo(ctx, k), Fresh)
  BY <1>2 DEF Shift, ShiftedTo
<1>4. ShiftedTo(ctx, k) \in Calm(ctx)
  BY <1>1, ReadyHere, PartsAre
<1> QED
  BY <1>3, <1>4, ParserHere, FrameKeeps

LEMMA CharsetKeeps == TermInv /\ Charset => Kept
<1> SUFFICES ASSUME TermInv, Charset PROVE Kept
  OBVIOUS
<1>1. PICK n, m, b : Facts(n, m, b)
  BY ByteFinds, FactsAre DEF Charset
<1>2. n \in Nat /\ m \in Nat /\ ctx \in Context(n, m)
  BY <1>1, ReadyHere
<1>3. PICK old \in [1 .. 2 -> {"default", "dec_special"}] : old = ctx.charsets
  BY <1>2 DEF Context
<1>4. PICK k : k = parser.g_select
  OBVIOUS
<1>5. PICK sets : sets = [old EXCEPT ![k] = IF c = 66 THEN "default" ELSE IF c = 48 THEN "dec_special" ELSE @]
  OBVIOUS
<1>6. sets \in [1 .. 2 -> {"default", "dec_special"}]
  BY <1>5
<1>7. CharsetsAs(ctx, sets) \in Calm(ctx)
  BY <1>2, <1>6, PartsAre
<1>8. CharsetsAs(ctx, sets)
        = [ctx EXCEPT !.charsets[parser.g_select] =
                        IF c = 66 THEN "default" ELSE IF c = 48 THEN "dec_special" ELSE @]
  BY <1>2, <1>3, <1>4, <1>5 DEF CharsetsAs, Context
<1>9. TakeByte /\ Leave(CharsetsAs(ctx, sets), [Fresh EXCEPT !.g_select = 0])
  BY <1>8 DEF Charset
<1> QED
  BY <1>7, <1>9, ParserHere, ParserChanged, FrameKeeps

(* Steps whose causes in the history stay what they are. *)
LEMMA SoundKeeps ==
  ASSUME TermInv, TakeByte, NEW n, NEW m, NEW b, Facts(n, m, b), NEW t, NEW p, ParserIs(p), Leave(t, p),
         TerminalIs(t, n, m, history.refreshed, history.off, history.below)
  PROVE  TermInv'
<1>1. Finds(n, m)
  BY DEF Facts
<1>2. PICK o, a : o = history.off /\ a = history.below
  OBVIOUS
<1>3. TerminalIs(t, n, m, history.refreshed, o, a)
  BY <1>2
<1>4. o => history.off \/ Skips
  BY <1>2, Zenon
<1>5. a => history.below \/ (ctx.bottom < ctx.rows /\ t.cursor_y >= ctx.rows)
  BY <1>2, Zenon
<1> QED
  BY <1>1, <1>3, <1>4, <1>5, LeaveKeeps

(* The states that are saved and restored. *)
SavedAs(t, saved, attributes) == [t EXCEPT !.saved_state = saved, !.saved_attributes = attributes]
RestoredAs(t, s, a) ==
  [t EXCEPT !.cursor_x = s.x, !.cursor_y = s.y, !.text_fg = s.fg, !.text_bg = s.bg,
            !.bold = a.bold, !.bg_bold = a.bg_bold, !.reverse_video = a.reverse_video,
            !.current_charset = a.current_charset, !.current_primary = a.current_primary,
            !.current_bg = a.current_bg]
SameText(t, u, n, m) ==
  /\ u \in Context(n, m) /\ u.queue = t.queue /\ u.map = t.map
  /\ u.top = t.top /\ u.bottom = t.bottom /\ u.scroll_enabled = t.scroll_enabled
  /\ SameScene(t, u)
LEMMA SavingIs ==
  ASSUME NEW n \in Nat, NEW m \in Nat, NEW t \in Context(n, m),
         NEW saved \in SavedState, NEW attributes \in SavedAttributes
  PROVE  /\ SameText(t, SavedAs(t, saved, attributes), n, m) /\ SameCursor(t, SavedAs(t, saved, attributes))
         /\ SavedAs(t, saved, attributes).saved_state = saved
         /\ SavedAs(t, saved, attributes).saved_attributes = attributes
         /\ Looks(SavedAs(t, saved, attributes), t.text_fg, t.text_bg, t.reverse_video, t.bold, t.bg_bold,
                  t.current_primary, t.current_bg)
         /\ SameText(t, RestoredAs(t, saved, attributes), n, m)
         /\ RestoredAs(t, saved, attributes).cursor_x = saved.x
         /\ RestoredAs(t, saved, attributes).cursor_y = saved.y
         /\ RestoredAs(t, saved, attributes).saved_state = t.saved_state
         /\ RestoredAs(t, saved, attributes).saved_attributes = t.saved_attributes
         /\ Looks(RestoredAs(t, saved, attributes), saved.fg, saved.bg, attributes.reverse_video, attributes.bold,
                  attributes.bg_bold, attributes.current_primary, attributes.current_bg)
<1>0. PICK G, M, Q, S, P : ContextAs(n, m, G, M, Q, S, P)
  BY FieldsAre
<1> DEFINE F == Fields(n, m, G, M, Q, S, P)
<1>1. Context(n, m) = F /\ t \in F
  BY <1>0 DEF ContextAs
<1>2. PICK u, v : u = SavedAs(t, saved, attributes) /\ v = RestoredAs(t, saved, attributes)
  OBVIOUS
<1>3. u \in F /\ v \in F
  <2>1. /\ saved.x \in Nat /\ saved.y \in Nat /\ saved.fg \in Colour /\ saved.bg \in Colour
        /\ attributes.bold \in BOOLEAN /\ attributes.bg_bold \in BOOLEAN /\ attributes.reverse_video \in BOOLEAN
        /\ attributes.current_charset \in 1 .. 2
        /\ attributes.current_primary \in Int /\ attributes.current_bg \in Int
    BY ONLY saved \in SavedState, attributes \in SavedAttributes DEF SavedState, SavedAttributes
  <2>2. u \in F
    BY ONLY <1>1, <1>2, saved \in SavedState, attributes \in SavedAttributes DEF Fields, SavedAs
  <2>3. v \in F
    BY ONLY <1>1, <1>2, <2>1 DEF Fields, RestoredAs
  <2> QED
    BY <2>2, <2>3
<1>4. /\ u.queue = t.queue /\ u.map = t.map /\ u.top = t.top /\ u.bottom = t.bottom
      /\ u.scroll_enabled = t.scroll_enabled /\ SameCursor(t, u) /\ u.saved_state = saved
      /\ u.saved_attributes = attributes
      /\ Looks(u, t.text_fg, t.text_bg, t.reverse_video, t.bold, t.bg_bold, t.current_primary, t.current_bg)
      /\ SameScene(t, u)
  BY ONLY <1>1, <1>2 DEF Fields, SavedAs, SameCursor, SameScene, Looks
<1>5. /\ v.queue = t.queue /\ v.map = t.map /\ v.top = t.top /\ v.bottom = t.bottom
      /\ v.scroll_enabled = t.scroll_enabled /\ v.cursor_x = saved.x /\ v.cursor_y = saved.y
      /\ v.saved_state = t.saved_state /\ v.saved_attributes = t.saved_attributes
      /\ Looks(v, saved.fg, saved.bg, attributes.reverse_video, attributes.bold, attributes.bg_bold,
               attributes.current_primary, attributes.current_bg)
      /\ SameScene(t, v)
  BY ONLY <1>1, <1>2 DEF Fields, RestoredAs, SameScene, Looks
<1> HIDE DEF F
<1> QED
  BY <1>1, <1>2, <1>3, <1>4, <1>5 DEF SameText

(* Whether the colours that are saved have their roles. *)
StateSaved == (Roles(ctx') <=> Roles(ctx)) /\ (SavedRoles(ctx') <=> Roles(ctx))
StateRestored == (Roles(ctx') <=> SavedRoles(ctx)) /\ (SavedRoles(ctx') <=> SavedRoles(ctx))
StateKept == SavedRoles(ctx') <=> SavedRoles(ctx)

LEMMA SaveStateKeeps == TermInv /\ SaveState => TermInv' /\ StateSaved /\ SceneStays
<1> SUFFICES ASSUME TermInv, SaveState PROVE TermInv' /\ StateSaved /\ SceneStays
  OBVIOUS
<1>1. PICK n, m, b : Facts(n, m, b)
  BY ByteFinds, FactsAre DEF SaveState
<1>2. n \in Nat /\ m \in Nat /\ ctx \in Context(n, m)
  BY <1>1, ReadyHere
<1>3. PICK s : s = [x |-> ctx.cursor_x, y |-> ctx.cursor_y, fg |-> ctx.text_fg, bg |-> ctx.text_bg]
  OBVIOUS
<1>4. s \in SavedState /\ s.x = ctx.cursor_x /\ s.y = ctx.cursor_y
  <2>1. ctx.cursor_x \in Nat /\ ctx.cursor_y \in Nat /\ ctx.text_fg \in Colour /\ ctx.text_bg \in Colour
    BY <1>2 DEF Context
  <2> QED
    BY ONLY <1>3, <2>1 DEF SavedState
<1>5. PICK a : a = [bold |-> ctx.bold, bg_bold |-> ctx.bg_bold, reverse_video |-> ctx.reverse_video,
                    current_charset |-> ctx.current_charset, current_primary |-> ctx.current_primary,
                    current_bg |-> ctx.current_bg]
  OBVIOUS
<1>6. a \in SavedAttributes
  <2>1. /\ ctx.bold \in BOOLEAN /\ ctx.bg_bold \in BOOLEAN /\ ctx.reverse_video \in BOOLEAN
        /\ ctx.current_charset \in 1 .. 2 /\ ctx.current_primary \in Int /\ ctx.current_bg \in Int
    BY <1>2 DEF Context
  <2> QED
    BY ONLY <1>5, <2>1 DEF SavedAttributes
<1>7. PICK u : u = SavedAs(ctx, s, a)
  OBVIOUS
<1>8. TakeByte /\ Leave(u, Ended)
  <2>1. [save_state(ctx) EXCEPT !.saved_attributes = a] = u
    BY <1>2, <1>3, <1>7 DEF save_state, SavedAs, Context
  <2> QED
    BY <1>5, <2>1, Zenon DEF SaveState
<1>9. SameText(ctx, u, n, m) /\ SameCursor(ctx, u) /\ u.saved_state = s
  BY <1>2, <1>4, <1>6, <1>7, SavingIs
<1>10. TerminalIs(ctx, n, m, history.refreshed, history.off, history.below)
  BY <1>1 DEF Facts
<1>11. OnePer(u, history.refreshed)
  BY <1>2, <1>9, <1>10, SameQueue DEF SameText, TerminalIs
<1>12. TerminalIs(u, n, m, history.refreshed, history.off, history.below)
  BY <1>4, <1>9, <1>10, <1>11 DEF SameText, SameCursor, TerminalIs
<1>13. TermInv'
  BY <1>1, <1>8, <1>12, GroundIs, SoundKeeps
<1>14. ctx' = u
  BY <1>8 DEF Leave
<1>15. u.saved_attributes = a /\ Looks(u, ctx.text_fg, ctx.text_bg, ctx.reverse_video, ctx.bold, ctx.bg_bold,
                                     ctx.current_primary, ctx.current_bg)
  BY <1>2, <1>4, <1>6, <1>7, SavingIs
<1>16. Roles(u) <=> Roles(ctx)
  BY <1>15, LooksRoles, Zenon DEF Roles
<1>17. SavedRoles(u) <=> Roles(ctx)
  <2>1. /\ s.fg = ctx.text_fg /\ s.bg = ctx.text_bg /\ a.reverse_video = ctx.reverse_video /\ a.bold = ctx.bold
        /\ a.bg_bold = ctx.bg_bold /\ a.current_primary = ctx.current_primary /\ a.current_bg = ctx.current_bg
    BY <1>3, <1>5
  <2> QED
    BY <1>9, <1>15, <2>1, Zenon DEF Roles, SavedRoles
<1>18. SceneStays
  BY <1>9, <1>14 DEF SameText, SceneStays
<1> QED
  BY <1>13, <1>14, <1>16, <1>17, <1>18, Zenon DEF StateSaved

LEMMA RestoreStateKeeps == TermInv /\ RestoreState => TermInv' /\ StateRestored /\ SceneStays
<1> SUFFICES ASSUME TermInv, RestoreState PROVE TermInv' /\ StateRestored /\ SceneStays
  OBVIOUS
<1>1. PICK n, m, b : Facts(n, m, b)
  BY ByteFinds, FactsAre DEF RestoreState
<1>2. n \in Nat /\ m \in Nat /\ ctx \in Context(n, m)
  BY <1>1, ReadyHere
<1>3. PICK s \in SavedState, a \in SavedAttributes : s = ctx.saved_state /\ a = ctx.saved_attributes
  BY <1>2 DEF Context
<1>4. PICK u : u = RestoredAs(ctx, s, a)
  OBVIOUS
<1>5. TakeByte /\ Leave(u, Ended)
  <2>1. [restore_state(ctx) EXCEPT
           !.bold = a.bold, !.bg_bold = a.bg_bold, !.reverse_video = a.reverse_video,
           !.current_charset = a.current_charset, !.current_primary = a.current_primary,
           !.current_bg = a.current_bg] = u
    BY <1>2, <1>3, <1>4 DEF restore_state, RestoredAs, Context
  <2> QED
    BY <1>3, <2>1, Zenon DEF RestoreState
<1>6. SameText(ctx, u, n, m) /\ u.cursor_x = s.x /\ u.cursor_y = s.y /\ u.saved_state = s
  BY <1>2, <1>3, <1>4, SavingIs
<1>7. TerminalIs(ctx, n, m, history.refreshed, history.off, history.below)
  BY <1>1 DEF Facts
<1>8. OnePer(u, history.refreshed)
  BY <1>2, <1>6, <1>7, SameQueue DEF SameText, TerminalIs
<1>9. TerminalIs(u, n, m, history.refreshed, history.off, history.below)
  BY <1>3, <1>6, <1>7, <1>8 DEF SameText, TerminalIs
<1>10. TermInv'
  BY <1>1, <1>5, <1>9, GroundIs, SoundKeeps
<1>11. ctx' = u
  BY <1>5 DEF Leave
<1>12. /\ u.saved_attributes = a /\ u.saved_state = s
       /\ Looks(u, s.fg, s.bg, a.reverse_video, a.bold, a.bg_bold, a.current_primary, a.current_bg)
  BY <1>2, <1>3, <1>4, SavingIs
<1>13. Roles(u) <=> SavedRoles(ctx)
  BY <1>3, <1>12, LooksRoles, Zenon DEF SavedRoles
<1>14. SavedRoles(u) <=> SavedRoles(ctx)
  BY <1>3, <1>12, Zenon DEF SavedRoles
<1>15. SceneStays
  BY <1>6, <1>11 DEF SameText, SceneStays
<1> QED
  BY <1>10, <1>11, <1>13, <1>14, <1>15, Zenon DEF StateRestored

LEMMA ReinitKeeps == TermInv /\ Reinit => TermInv' /\ StateKept /\ SceneStays
<1> SUFFICES ASSUME TermInv, Reinit PROVE TermInv' /\ StateKept /\ SceneStays
  OBVIOUS
<1>1. PICK n, m, b : Facts(n, m, b)
  BY ByteFinds, FactsAre DEF Reinit
<1>2. /\ n \in Nat \ {0} /\ m \in Nat \ {0} /\ n \in Nat /\ m \in Nat /\ ctx \in Context(n, m)
      /\ OnePer(ctx, history.refreshed)
  BY <1>1, ReadyHere
<1>3. PICK t : t = flanterm_context_reinit(ctx)
  OBVIOUS
<1>4. /\ t \in Context(n, m) /\ t.queue = ctx.queue /\ t.map = ctx.map /\ t.saved_state = ctx.saved_state
      /\ SameScene(ctx, t) /\ t.scroll_enabled /\ t.top = 0 /\ t.bottom = m /\ t.saved_attributes = ctx.saved_attributes
  <2>1. ReinitAs(ctx, t, n, m)
    BY <1>2, <1>3, ReinitIs
  <2> QED
    BY <2>1 DEF ReinitAs
<1>5. OnePer(t, history.refreshed)
  BY <1>2, <1>4, SameQueue
<1>6. clear(t, TRUE) \in {[u EXCEPT !.cursor_x = 0, !.cursor_y = 0] : u \in Drawn(t, history.refreshed)}
  BY <1>2, <1>4, <1>5, ClearDraws
<1>7. PICK u \in Drawn(t, history.refreshed) : clear(t, TRUE) = At(u, 0, 0)
  BY <1>6 DEF At
<1>8. u \in Context(n, m) /\ OnePer(u, history.refreshed) /\ Keeps(t, u)
  BY <1>2, <1>4, <1>7, DrawnIs DEF Drawn
<1>9. PICK v : v = At(u, 0, 0)
  OBVIOUS
<1>10. Positioned(u, v, 0, 0, n, m)
  BY <1>2, <1>8, <1>9, AtIs
<1>11. OnePer(v, history.refreshed)
  BY <1>2, <1>8, <1>10, PositionedSound
<1>12. TerminalIs(v, n, m, history.refreshed, history.off, history.below)
  <2>1. /\ v \in Context(n, m) /\ v.cursor_x = 0 /\ v.cursor_y = 0 /\ v.top = 0 /\ v.bottom = m
        /\ v.scroll_enabled = t.scroll_enabled /\ v.saved_state = ctx.saved_state
    BY <1>4, <1>8, <1>10 DEF Positioned, Keeps, Holds
  <2>2. /\ ctx.saved_state.x <= n \/ history.off
        /\ ctx.saved_state.y < m \/ (ctx.saved_state.y < n /\ history.below)
    BY <1>1 DEF Facts, TerminalIs
  <2>3. 0 < m - 1
    BY <1>1 DEF Facts, Finds
  <2> QED
    BY <1>2, <1>4, <1>11, <2>1, <2>2, <2>3 DEF TerminalIs
<1>13. TakeByte /\ Leave(v, Ground)
  BY <1>3, <1>7, <1>9 DEF Reinit
<1>14. TermInv'
  BY <1>1, <1>12, <1>13, GroundIs, SoundKeeps
<1>15. ctx' = v
  BY <1>13 DEF Leave
<1>16. v.saved_state = ctx.saved_state /\ v.saved_attributes = ctx.saved_attributes
  BY <1>4, <1>8, <1>10 DEF Positioned, Keeps, Holds, SameColours, SameScene
<1>17. SavedRoles(v) <=> SavedRoles(ctx)
  BY <1>16, Zenon DEF SavedRoles
<1>18. SceneStays
  BY <1>4, <1>8, <1>10, <1>15 DEF Positioned, Keeps, SameScene, SceneStays
<1> QED
  BY <1>14, <1>15, <1>17, <1>18, Zenon DEF StateKept

(* Scrolling stays off: that is in the history. *)
LEMMA SkipKeeps == TermInv /\ Skip => Kept
<1> SUFFICES ASSUME TermInv, Skip PROVE Kept
  OBVIOUS
<1>1. PICK n, m, b : Facts(n, m, b)
  BY ByteFinds, FactsAre DEF Skip
<1>2. /\ n \in Nat /\ m \in Nat /\ SwitchedAs(ctx, Still, FALSE, n, m) /\ OnePer(Still, history.refreshed)
  BY <1>1, ReadyHere
<1>3. PICK x : x = (c # ESC)
  OBVIOUS
<1>4. ParserIs([Filled EXCEPT !.csi_unhandled = x]) /\ ParserIs(Ended) /\ ParserIs(Filled)
  BY ParserHere, ParserChanged
<1>5. PICK p : Leave(Still, p) /\ ParserIs(p)
  BY <1>3, <1>4 DEF Skip
<1>6. PICK o : o = (history.off \/ Skips)
  BY Zenon
<1>7. o
  BY <1>6, Zenon DEF Skip
<1>8. PICK a : a = history.below
  OBVIOUS
<1>9. TerminalIs(Still, n, m, history.refreshed, o, a)
  <2>1. /\ ctx.top < ctx.bottom - 1 /\ ctx.bottom <= m
        /\ ctx.cursor_y < m \/ (ctx.cursor_y < n /\ a)
        /\ ctx.saved_state.y < m \/ (ctx.saved_state.y < n /\ a)
    BY <1>1, <1>8 DEF Facts, TerminalIs
  <2>2. /\ Still \in Context(n, m) /\ Still.cursor_y = ctx.cursor_y /\ Still.top = ctx.top
        /\ Still.bottom = ctx.bottom /\ Still.saved_state = ctx.saved_state
    BY <1>2 DEF SwitchedAs, SameCursor
  <2> QED
    BY <1>2, <1>7, <2>1, <2>2 DEF TerminalIs
<1>10. Finds(n, m)
  BY <1>1 DEF Facts
<1>11. o => history.off \/ Skips
  BY <1>6, Zenon
<1>12. a => history.below \/ (ctx.bottom < ctx.rows /\ Still.cursor_y >= ctx.rows)
  BY <1>8, Zenon
<1>13. TakeByte
  BY DEF Skip
<1>14. TermInv'
  BY <1>5, <1>9, <1>10, <1>11, <1>12, <1>13, LeaveKeeps
<1>15. ctx' = Still
  BY <1>5 DEF Leave
<1> QED
  BY <1>2, <1>14, <1>15 DEF Kept, ColoursStay, SceneStays, SwitchedAs

----------------------------------------------------------------------------
(* Commands. *)

LEMMA FinishFinds ==
  ASSUME TermInv, NEW codes, NEW t, Finish(codes, t)
  PROVE  \E n, m, b : Facts(n, m, b)
BY ByteFinds, FactsAre DEF Finish

LEMMA StillIs ==
  ASSUME NEW n, NEW m, NEW b, Facts(n, m, b)
  PROVE  /\ n \in Nat \ {0} /\ m \in Nat \ {0} /\ n \in Nat /\ m \in Nat
         /\ Still \in Context(n, m) /\ Still.cols = n /\ Still.rows = m
         /\ Still \in Typed(Still, history.refreshed, b, history.off)
         /\ OnePer(Still, history.refreshed) /\ Still.bottom \in 1 .. m
         /\ ctx.cols = n /\ ctx.rows = m /\ ctx \in Context(n, m)
         /\ X(ctx) \in 0 .. n - 1 /\ Y(ctx) \in 0 .. m - 1 /\ X(ctx) \in Int /\ Y(ctx) \in Int
         /\ Still.top = ctx.top /\ Still.bottom = ctx.bottom /\ Still.saved_state = ctx.saved_state
         /\ Still.queue = ctx.queue /\ Still.map = ctx.map /\ SameCursor(ctx, Still)
         /\ ctx.top \in Int /\ ctx.bottom \in Int /\ SameColours(ctx, Still)
         /\ SameScene(ctx, Still)
<1>1. /\ n \in Nat \ {0} /\ m \in Nat \ {0} /\ n \in Nat /\ m \in Nat
      /\ Ready(Still, history.refreshed, b, history.off, n, m)
      /\ ctx.cols = n /\ ctx.rows = m /\ ctx \in Context(n, m)
  BY ReadyHere
<1>2. /\ Still \in Context(n, m) /\ Still.cols = n /\ Still.rows = m
      /\ Still \in Typed(Still, history.refreshed, b, history.off)
      /\ OnePer(Still, history.refreshed) /\ Still.bottom \in 1 .. m
  BY <1>1, ReadyIs
<1>3. X(ctx) \in 0 .. n - 1 /\ Y(ctx) \in 0 .. m - 1 /\ X(ctx) \in Int /\ Y(ctx) \in Int
  BY HereIs
<1>4. SwitchedAs(ctx, Still, FALSE, n, m)
  BY ReadyHere
<1>5. ctx.top \in Nat /\ ctx.bottom \in Nat
  BY <1>1 DEF Context
<1> QED
  BY <1>1, <1>2, <1>3, <1>4, <1>5 DEF SwitchedAs

LEMMA CommandMoves ==
  ASSUME TermInv, NEW codes, NEW x \in Int, NEW y \in Int, Finish(codes, set_cursor_pos(Still, x, y))
  PROVE  Kept
<1>1. PICK n, m, b : Facts(n, m, b)
  BY FinishFinds
<1>2. Still \in Typed(Still, history.refreshed, b, history.off)
  BY <1>1, StillIs
<1>3. Resting(set_cursor_pos(Still, x, y), n, m, b)
  BY <1>1, <1>2, PositionSettles
<1> QED
  BY <1>1, <1>3, RestingKeeps

LEMMA CommandReturns ==
  ASSUME TermInv, NEW codes, NEW n, NEW m, NEW b, Facts(n, m, b), NEW o,
         NEW u \in Typed(Still, history.refreshed, b, o), Finish(codes, Back(u))
  PROVE  Kept
<1>1. PICK x \in Int, y \in Int : x = X(ctx) /\ y = Y(ctx)
  BY StillIs
<1>2. Back(u) = set_cursor_pos(u, x, y)
  BY <1>1 DEF Back
<1>3. Resting(Back(u), n, m, b)
  BY <1>2, PositionSettles
<1> QED
  BY <1>3, RestingKeeps

LEMMA StillSettles ==
  ASSUME NEW n, NEW m, NEW b, Facts(n, m, b)
  PROVE  Resting(Still, n, m, b)
<1>1. Still \in Typed(Still, history.refreshed, b, history.off) /\ Still.cursor_x = ctx.cursor_x
  BY StillIs DEF SameCursor
<1>2. ctx.cursor_x <= n \/ history.off
  BY DEF Facts, TerminalIs
<1> QED
  BY <1>1, <1>2, TypedSettles

LEMMA FrameSettles ==
  ASSUME NEW n, NEW m, NEW b, Facts(n, m, b), NEW u \in Coloured(Still)
  PROVE  Settled(u, n, m, b)
<1>1. Settled(Still, n, m, b) /\ Still \in Context(n, m) /\ n \in Nat /\ m \in Nat
  BY StillSettles, StillIs DEF Resting
<1>2. u \in Context(n, m) /\ SameFrame(Still, u)
  BY <1>1, ColouredIs
<1>3. OnePer(u, history.refreshed)
  BY <1>1, <1>2, SameQueue DEF SameFrame, Settled
<1> QED
  BY <1>1, <1>2, <1>3 DEF Settled, SameFrame, SameCursor, SameScene

LEMMA DrawnSettles ==
  ASSUME NEW n, NEW m, NEW b, Facts(n, m, b), NEW u \in Drawn(Still, history.refreshed)
  PROVE  /\ Resting(u, n, m, b)
         /\ u \in Typed(Still, history.refreshed, b, history.off)
<1>1. u \in Typed(Still, history.refreshed, b, history.off)
  BY StillIs, DrawnTyped
<1>2. u.cursor_x = ctx.cursor_x
  BY StillIs DEF Drawn, SameCursor
<1>3. ctx.cursor_x <= n \/ history.off
  BY DEF Facts, TerminalIs
<1> QED
  BY <1>1, <1>2, <1>3, TypedSettles

LEMMA NumbersHere ==
  ASSUME TermInv
  PROVE  Value(0) \in Nat /\ Value(1) \in Nat
BY ParserHere, MaxValues

LEMMA CursorUpKeeps == TermInv /\ CursorUp => Kept
<1> SUFFICES ASSUME TermInv, CursorUp PROVE Kept
  OBVIOUS
<1>1. PICK n, m, b : Facts(n, m, b)
  BY FinishFinds DEF CursorUp
<1>2. PICK y \in Int : y = Y(ctx)
  BY <1>1, StillIs
<1>3. PICK v \in Nat : v = Value(0)
  BY NumbersHere
<1>4. PICK dest \in Int : dest = IF v > y THEN 0 ELSE y - v
  OBVIOUS
<1>5. PICK inside \in Int : inside = IF Meets(ctx, dest, y) /\ dest < ctx.top THEN ctx.top ELSE dest
  <2>1. ctx.top \in Int
    BY <1>1, StillIs
  <2> QED
    BY <2>1
<1>6. PICK x \in Int : x = IF c = 70 THEN 0 ELSE X(ctx)
  BY <1>1, StillIs
<1>7. Finish({65, 70}, set_cursor_pos(Still, x, inside))
  BY <1>2, <1>3, <1>4, <1>5, <1>6, Zenon DEF CursorUp
<1> QED
  BY <1>7, CommandMoves

LEMMA CursorDownKeeps == TermInv /\ CursorDown => Kept
<1> SUFFICES ASSUME TermInv, CursorDown PROVE Kept
  OBVIOUS
<1>1. PICK n, m, b : Facts(n, m, b)
  BY FinishFinds DEF CursorDown
<1>2. PICK y \in Int : y = Y(ctx)
  BY <1>1, StillIs
<1>3. PICK v \in Nat : v = Value(0)
  BY NumbersHere
<1>4. PICK dest \in Int : dest = IF y + v > ctx.rows - 1 THEN ctx.rows - 1 ELSE y + v
  BY <1>1, StillIs
<1>5. PICK inside \in Int : inside = IF Meets(ctx, y, dest) /\ dest >= ctx.bottom THEN ctx.bottom - 1 ELSE dest
  <2>1. ctx.bottom \in Int
    BY <1>1, StillIs
  <2> QED
    BY <2>1
<1>6. PICK x \in Int : x = IF c = 69 THEN 0 ELSE X(ctx)
  BY <1>1, StillIs
<1>7. Finish({66, 69, 101}, set_cursor_pos(Still, x, inside))
  BY <1>2, <1>3, <1>4, <1>5, <1>6, Zenon DEF CursorDown
<1> QED
  BY <1>7, CommandMoves

LEMMA CursorSidewaysKeeps == TermInv /\ (CursorRight \/ CursorLeft) => Kept
<1> SUFFICES ASSUME TermInv, CursorRight \/ CursorLeft PROVE Kept
  OBVIOUS
<1>1. PICK n, m, b : Facts(n, m, b)
  BY FinishFinds DEF CursorRight, CursorLeft
<1>2. PICK right \in Int, left \in Int, y \in Int :
        right = X(ctx) + Value(0) /\ left = X(ctx) - Value(0) /\ y = Y(ctx)
  <2>1. X(ctx) \in Int /\ Y(ctx) \in Int /\ Value(0) \in Int
    BY <1>1, StillIs, NumbersHere
  <2> QED
    BY <2>1
<1>3. Finish({67, 97}, set_cursor_pos(Still, right, y)) \/ Finish({68}, set_cursor_pos(Still, left, y))
  BY <1>2 DEF CursorRight, CursorLeft
<1> QED
  BY <1>3, CommandMoves

LEMMA CursorSetKeeps == TermInv /\ (CursorRow \/ CursorColumn \/ CursorTo) => Kept
<1> SUFFICES ASSUME TermInv, CursorRow \/ CursorColumn \/ CursorTo PROVE Kept
  OBVIOUS
<1>1. PICK n, m, b : Facts(n, m, b)
  BY FinishFinds DEF CursorRow, CursorColumn, CursorTo
<1>2. PICK x \in Int, y \in Int : x = X(ctx) /\ y = Y(ctx)
  BY <1>1, StillIs
<1>3. PICK row \in Int, column \in Int :
        row = Ordinal(Value(0), ctx.rows) /\ column = Ordinal(Value(0), ctx.cols)
  BY <1>1, StillIs, NumbersHere DEF Ordinal
<1>4. PICK i \in Int, j \in Int : i = Value(1) - 1 /\ j = Value(0) - 1
  BY NumbersHere
<1>5. \/ Finish({100}, set_cursor_pos(Still, x, row))
      \/ Finish({71, 96}, set_cursor_pos(Still, column, y))
      \/ Finish({72, 102}, set_cursor_pos(Still, i, j))
  BY <1>2, <1>3, <1>4 DEF CursorRow, CursorColumn, CursorTo
<1> QED
  BY <1>5, CommandMoves

LEMMA RestoreCursorKeeps == TermInv /\ RestoreCursor => Kept
<1> SUFFICES ASSUME TermInv, RestoreCursor PROVE Kept
  OBVIOUS
<1>1. PICK n, m, b : Facts(n, m, b)
  BY FinishFinds DEF RestoreCursor
<1>2. PICK x \in Int, y \in Int : x = ctx.saved_cursor[1] /\ y = ctx.saved_cursor[2]
  <2>1. ctx.saved_cursor \in Nat \X Nat
    BY <1>1, StillIs DEF Context
  <2> QED
    BY <2>1
<1>3. Finish({117}, set_cursor_pos(Still, x, y))
  BY <1>2 DEF RestoreCursor
<1> QED
  BY <1>3, CommandMoves

(* Commands that leave text and cursor where they are. *)
SavingCursor(t, x, y) == [t EXCEPT !.saved_cursor = <<x, y>>]
Inserting(t, on) == [t EXCEPT !.insert_mode = on]
LEMMA ModesAre ==
  ASSUME NEW n \in Nat, NEW m \in Nat, NEW t \in Context(n, m)
  PROVE  /\ \A x \in Nat, y \in Nat : SavingCursor(t, x, y) \in Calm(t)
         /\ \A on \in BOOLEAN : Inserting(t, on) \in Calm(t)
<1>0. PICK G, M, Q, S, P : ContextAs(n, m, G, M, Q, S, P)
  BY FieldsAre
<1> DEFINE F == Fields(n, m, G, M, Q, S, P)
<1>1. t.cols = n /\ t.rows = m /\ t \in F
  BY <1>0 DEF ContextAs, Context
<1>2. Calm(t) = {v \in F : SameFrame(t, v) /\ SameColours(t, v)} /\ P = Nat \X Nat
  BY <1>0, <1>1 DEF ContextAs, Coloured, Calm
<1>3. ASSUME NEW x \in Nat, NEW y \in Nat
      PROVE  SavingCursor(t, x, y) \in F /\ SameFrame(t, SavingCursor(t, x, y)) /\ SameColours(t, SavingCursor(t, x, y))
  <2>1. PICK p \in P : p = <<x, y>>
    BY <1>2
  <2>2. SavingCursor(t, x, y) = [t EXCEPT !.saved_cursor = p]
    BY <2>1 DEF SavingCursor
  <2>3. PICK u : u = SavingCursor(t, x, y)
    OBVIOUS
  <2>4. u \in F /\ SameFrame(t, u) /\ SameColours(t, u)
    BY ONLY <1>1, <2>2, <2>3, p \in P DEF Fields, SameFrame, SameCursor, SameColours, SameScene
  <2> QED
    BY <2>3, <2>4
<1>4. ASSUME NEW on \in BOOLEAN
      PROVE  Inserting(t, on) \in F /\ SameFrame(t, Inserting(t, on)) /\ SameColours(t, Inserting(t, on))
  BY ONLY <1>1, <1>4, on \in BOOLEAN DEF Fields, Inserting, SameFrame, SameCursor, SameColours, SameScene
<1> HIDE DEF F
<1> QED
  BY <1>2, <1>3, <1>4

LEMMA ModeKeeps == TermInv /\ (SaveCursor \/ InsertMode \/ Report) => Kept
<1> SUFFICES ASSUME TermInv, SaveCursor \/ InsertMode \/ Report PROVE Kept
  OBVIOUS
<1>1. PICK n, m, b : Facts(n, m, b)
  BY FinishFinds DEF SaveCursor, InsertMode, Report
<1>2. n \in Nat /\ m \in Nat /\ Still \in Context(n, m) /\ SameColours(ctx, Still)
  BY <1>1, StillIs
<1>3. PICK x \in Nat, y \in Nat : x = X(ctx) /\ y = Y(ctx)
  BY <1>1, StillIs
<1>4. PICK on \in BOOLEAN : on = (c = 104)
  OBVIOUS
<1>5. SavingCursor(Still, x, y) \in Calm(Still) /\ Inserting(Still, on) \in Calm(Still) /\ Still \in Calm(Still)
  <2>1. Still \in Calm(Still)
    BY <1>2 DEF Calm, Coloured, SameFrame, SameCursor, SameColours, SameScene, Context
  <2> QED
    BY <1>2, <2>1, ModesAre
<1>6. ASSUME NEW t \in Calm(Still) PROVE Resting(t, n, m, b)
  BY <1>1, <1>2, FrameSettles DEF Calm, Resting, SameColours, SameScene
<1>7. \E codes : \/ Finish(codes, SavingCursor(Still, x, y)) \/ Finish(codes, Inserting(Still, on))
                 \/ Finish(codes, Still)
  <2>1. SaveCursor => Finish({115}, SavingCursor(Still, x, y))
    BY <1>3, Zenon DEF SaveCursor, SavingCursor
  <2>2. InsertMode => Finish({104, 108}, Inserting(Still, on)) \/ Finish({104, 108}, Still)
    BY <1>4, Zenon DEF InsertMode, Inserting
  <2>3. Report => Finish({93, 99, 110, 113}, Still)
    BY DEF Report
  <2> QED
    BY <2>1, <2>2, <2>3, Zenon
<1>8. /\ Resting(SavingCursor(Still, x, y), n, m, b) /\ Resting(Inserting(Still, on), n, m, b)
      /\ Resting(Still, n, m, b)
  BY <1>5, <1>6
<1> QED
  BY <1>1, <1>7, <1>8, RestingKeeps

(* A rendition leaves all but the colours. *)
LEMMA RenditionKeeps ==
  ASSUME TermInv, Rendition
  PROVE  \E values \in [Values -> Nat], N \in 0 .. FLANTERM_MAX_ESC_VALUES :
           /\ values = Filled.esc_values /\ N = Filled.esc_values_i
           /\ TermInv' /\ SameColours(sgr(Still, values, N), ctx') /\ ctx'.saved_state = ctx.saved_state
           /\ SceneStays
<1>1. PICK n, m, b : Facts(n, m, b)
  BY FinishFinds DEF Rendition
<1>2. n \in Nat /\ m \in Nat /\ Still \in Context(n, m)
  BY <1>1, StillIs
<1>3. PICK values \in [Values -> Nat], N \in 0 .. FLANTERM_MAX_ESC_VALUES :
        values = Filled.esc_values /\ N = Filled.esc_values_i
  BY ParserHere DEF ParserIs
<1>4. PICK t : t = sgr(Still, values, N)
  OBVIOUS
<1>5. t \in Coloured(Still)
  BY <1>2, <1>4, SgrIs
<1>6. Finish({109}, t)
  BY <1>3, <1>4, Zenon DEF Rendition
<1>7. TermInv' /\ SameColours(t, ctx') /\ ctx'.saved_state = ctx.saved_state /\ SceneStays
  BY <1>1, <1>5, <1>6, FrameSettles, FinishKeeps
<1> QED
  BY <1>3, <1>4, <1>7

(* Margins, and lines between them. *)
Margined(t, top, bottom) == [t EXCEPT !.top = top, !.bottom = bottom]
MarginedAs(t, u, top, bottom, n, m) ==
  /\ u \in Context(n, m) /\ u.queue = t.queue /\ u.map = t.map /\ SameCursor(t, u)
  /\ u.top = top /\ u.bottom = bottom /\ u.saved_state = t.saved_state /\ SameColours(t, u)
  /\ SameScene(t, u)
LEMMA MarginedIs ==
  ASSUME NEW n, NEW m, NEW t \in Context(n, m), NEW top \in Nat, NEW bottom \in Nat
  PROVE  MarginedAs(t, Margined(t, top, bottom), top, bottom, n, m)
<1>0. PICK G, M, Q, S, P : ContextAs(n, m, G, M, Q, S, P)
  BY FieldsAre
<1>1. t \in Fields(n, m, G, M, Q, S, P)
  BY <1>0 DEF ContextAs
<1>2. PICK u : u = Margined(t, top, bottom)
  OBVIOUS
<1>3. u \in Fields(n, m, G, M, Q, S, P)
  BY ONLY <1>1, <1>2, top \in Nat, bottom \in Nat DEF Fields, Margined
<1>4. /\ u.queue = t.queue /\ u.map = t.map /\ SameCursor(t, u)
      /\ u.top = top /\ u.bottom = bottom /\ u.saved_state = t.saved_state
      /\ SameColours(t, u) /\ SameScene(t, u)
  BY ONLY <1>1, <1>2 DEF Fields, Margined, SameCursor, SameColours, SameScene
<1> QED
  BY <1>0, <1>2, <1>3, <1>4 DEF MarginedAs, ContextAs

LEMMA MarginsKeeps == TermInv /\ Margins => Kept
<1> SUFFICES ASSUME TermInv, Margins PROVE Kept
  OBVIOUS
<1>1. PICK n, m, b : Facts(n, m, b)
  BY FinishFinds DEF Margins
<1>2. PICK v0 \in Nat, v1 \in Nat :
        /\ v0 = IF Value(0) = 0 THEN 1 ELSE Value(0)
        /\ v1 = IF Value(1) = 0 THEN 1 ELSE Value(1)
  BY NumbersHere
<1>3. PICK top \in Int : top = IF Filled.esc_values_i > 0 THEN v0 - 1 ELSE 0
  OBVIOUS
<1>4. PICK bottom \in Int : bottom = IF Filled.esc_values_i > 1 THEN v1 ELSE ctx.rows
  BY <1>1, StillIs
<1>5. PICK bad : bad <=> (top >= ctx.rows \/ bottom > ctx.rows \/ top >= bottom - 1)
  BY Zenon
<1>6. PICK low, high : low = (IF bad THEN 0 ELSE top) /\ high = (IF bad THEN ctx.rows ELSE bottom)
  OBVIOUS
<1>7. low \in Nat /\ high \in Nat /\ low < high - 1 /\ high <= m
  <2>1. ctx.rows = m /\ m \in Nat \ {0, 1}
    BY <1>1, StillIs DEF Facts, Finds
  <2>2. v0 >= 1 /\ top >= 0
    BY <1>2, <1>3, NumbersHere
  <2> QED
    BY <1>4, <1>5, <1>6, <2>1, <2>2
<1>8. PICK t : t = Margined(Still, low, high)
  OBVIOUS
<1>9. Finish({114}, set_cursor_pos(t, 0, 0))
  <2>1. Finish({114}, set_cursor_pos([Still EXCEPT !.top = IF bad THEN 0 ELSE top,
                                                   !.bottom = IF bad THEN ctx.rows ELSE bottom], 0, 0))
    BY <1>2, <1>3, <1>4, <1>5 DEF Margins
  <2> QED
    BY <1>6, <1>8, <2>1 DEF Margined
<1>10. /\ n \in Nat \ {0} /\ m \in Nat \ {0} /\ n \in Nat /\ m \in Nat /\ Still \in Context(n, m)
       /\ OnePer(Still, history.refreshed) /\ Still.saved_state = ctx.saved_state
       /\ SameColours(ctx, Still) /\ SameScene(ctx, Still)
  BY <1>1, StillIs
<1>11. MarginedAs(Still, t, low, high, n, m)
  BY <1>7, <1>8, <1>10, MarginedIs
<1>12. OnePer(t, history.refreshed)
  BY <1>10, <1>11, SameQueue DEF MarginedAs
<1>13. PICK u : u = set_cursor_pos(t, 0, 0)
  OBVIOUS
<1>14. /\ u \in Typed(t, history.refreshed, b, history.off) /\ u.cursor_x = Clamp(0, n) /\ u.cursor_y = Clamp(0, m)
  BY <1>10, <1>11, <1>12, <1>13, 0 \in Int, SetCursor DEF MarginedAs
<1>15. /\ u \in Context(n, m) /\ OnePer(u, history.refreshed) /\ Keeps(t, u)
       /\ u.cursor_x <= n /\ u.cursor_y < m
  <2>1. Clamp(0, n) <= n /\ Clamp(0, m) < m
    BY <1>10 DEF Clamp
  <2>2. u \in Context(n, m) /\ OnePer(u, history.refreshed) /\ Keeps(t, u)
    BY <1>10, <1>11, <1>14, TypedIs DEF MarginedAs
  <2> QED
    BY <1>14, <2>1, <2>2
<1>16. Resting(u, n, m, b)
  BY <1>7, <1>10, <1>11, <1>15 DEF Resting, Settled, MarginedAs, Keeps, Holds, SameColours, SameScene
<1> QED
  BY <1>1, <1>9, <1>13, <1>16, RestingKeeps

LEMMA DeleteLinesKeeps == TermInv /\ DeleteLines => Kept
<1> SUFFICES ASSUME TermInv, DeleteLines PROVE Kept
  OBVIOUS
<1>1. PICK n, m, b : Facts(n, m, b)
  BY FinishFinds DEF DeleteLines
<1>2. Scrolled(Still, Value(0)) \in Drawn(Still, history.refreshed)
  BY <1>1, StillIs, NumbersHere, ScrolledDraws
<1> QED
  BY <1>1, <1>2, DrawnSettles, RestingKeeps DEF DeleteLines

(* The region starts at the cursor while lines move. *)
LEMMA InsertLinesKeeps == TermInv /\ InsertLines => Kept
<1> SUFFICES ASSUME TermInv, InsertLines PROVE Kept
  OBVIOUS
<1>1. PICK n, m, b : Facts(n, m, b)
  BY FinishFinds DEF InsertLines
<1>2. /\ n \in Nat \ {0} /\ m \in Nat \ {0} /\ n \in Nat /\ m \in Nat /\ Still \in Context(n, m)
      /\ OnePer(Still, history.refreshed) /\ Still.bottom \in 1 .. m /\ Still.bottom = ctx.bottom
      /\ Still.top = ctx.top /\ Still.top \in Nat /\ Still.bottom \in Nat /\ Y(ctx) \in Nat
  <2>1. /\ n \in Nat \ {0} /\ m \in Nat \ {0} /\ n \in Nat /\ m \in Nat /\ Still \in Context(n, m)
        /\ OnePer(Still, history.refreshed) /\ Still.bottom \in 1 .. m /\ Still.bottom = ctx.bottom
        /\ Still.top = ctx.top /\ Y(ctx) \in 0 .. m - 1
    BY <1>1, StillIs
  <2>2. Still.top \in Nat /\ Still.bottom \in Nat
    BY <2>1 DEF Context
  <2> QED
    BY <2>1, <2>2
<1>3. PICK t : t = Margined(Still, Y(ctx), Still.bottom)
  OBVIOUS
<1>4. t = [Still EXCEPT !.top = Y(ctx)]
  BY <1>2, <1>3 DEF Margined, Context
<1>5. MarginedAs(Still, t, Y(ctx), Still.bottom, n, m)
  BY <1>2, <1>3, MarginedIs
<1>6. PICK u : u = Revscrolled(t, Value(0))
  OBVIOUS
<1>7. u \in Drawn(t, history.refreshed)
  <2>1. t \in Context(n, m) /\ OnePer(t, history.refreshed) /\ t.bottom \in 1 .. m
    BY <1>2, <1>5, SameQueue DEF MarginedAs
  <2> QED
    BY <1>2, <1>6, <2>1, NumbersHere, RevscrolledDraws
<1>8. /\ u \in Context(n, m) /\ OnePer(u, history.refreshed) /\ SameCursor(t, u)
      /\ u.bottom = t.bottom /\ u.saved_state = t.saved_state /\ SameColours(t, u)
      /\ SameScene(t, u)
  BY <1>2, <1>5, <1>7, DrawnIs DEF Drawn, Keeps, Holds, MarginedAs
<1>9. PICK v : v = Margined(u, ctx.top, u.bottom)
  OBVIOUS
<1>10. Finish({76}, v)
  <2>1. v = [u EXCEPT !.top = ctx.top]
    BY <1>8, <1>9 DEF Margined, Context
  <2>2. Finish({76}, [Revscrolled([Still EXCEPT !.top = Y(ctx)], Value(0)) EXCEPT !.top = ctx.top])
    BY DEF InsertLines
  <2> QED
    BY <1>4, <1>6, <2>1, <2>2
<1>11. MarginedAs(u, v, ctx.top, ctx.bottom, n, m)
  <2>1. u.bottom = ctx.bottom
    BY <1>2, <1>5, <1>8 DEF MarginedAs
  <2>2. ctx.top \in Nat /\ ctx.bottom \in Nat
    BY <1>2
  <2> QED
    BY <1>8, <1>9, <2>1, <2>2, MarginedIs
<1>12. OnePer(v, history.refreshed)
  BY <1>8, <1>11, SameQueue DEF MarginedAs
<1>13. Resting(Still, n, m, b)
  BY <1>1, StillSettles
<1>14. /\ v \in Context(n, m) /\ v.cursor_x = Still.cursor_x /\ v.cursor_y = Still.cursor_y
       /\ v.top = Still.top /\ v.bottom = Still.bottom /\ v.saved_state = Still.saved_state
       /\ SameColours(Still, v) /\ SameScene(Still, v)
  BY <1>2, <1>5, <1>8, <1>11 DEF MarginedAs, SameCursor, SameColours, SameScene
<1>15. Resting(v, n, m, b)
  BY <1>12, <1>13, <1>14 DEF Resting, Settled, SameColours, SameScene
<1> QED
  BY <1>1, <1>10, <1>15, RestingKeeps

(* Blanks after other steps of the command. *)
LEMMA SpacesAfter ==
  ASSUME NEW n, NEW m, NEW b, Facts(n, m, b), NEW u \in Typed(Still, history.refreshed, b, history.off),
         NEW s \in Int
  PROVE  /\ Spaces(u, s) \in Typed(Still, history.refreshed, b, history.off)
         /\ u.cursor_x = 0 /\ s \in 0 .. n => Spaces(u, s).cursor_x = s
<1>1. /\ n \in Nat \ {0} /\ m \in Nat \ {0} /\ n \in Nat /\ m \in Nat /\ Still \in Context(n, m)
      /\ Ready(Still, history.refreshed, b, history.off, n, m)
  BY ReadyHere
<1>2. /\ u \in Context(n, m) /\ OnePer(u, history.refreshed) /\ Keeps(Still, u) /\ Placed(u, b)
      /\ u.scroll_enabled => u.cursor_x <= n \/ history.off
  BY <1>1, TypedIs
<1>3. Still.bottom \in 1 .. m /\ (Still.bottom < m => b)
  BY <1>1 DEF Ready, Placeable
<1>4. Ready(u, history.refreshed, b, history.off, n, m)
  BY <1>2, <1>3 DEF Ready, Placeable, Keeps, Holds
<1>5. /\ Spaces(u, s) \in Typed(u, history.refreshed, b, history.off)
      /\ u.cursor_x = 0 /\ s \in 0 .. n => Spaces(u, s).cursor_x = s
  BY <1>1, <1>4, SpacesTyped
<1>6. Spaces(u, s) \in Typed(Still, history.refreshed, b, history.off)
  BY <1>1, <1>2, <1>5, TypedAgain
<1> QED
  BY <1>5, <1>6

LEMMA StillPlaced ==
  ASSUME NEW n, NEW m, NEW b, Facts(n, m, b), NEW u \in Typed(Still, history.refreshed, b, history.off),
         NEW x \in Int, NEW y \in Int
  PROVE  /\ set_cursor_pos(u, x, y) \in Typed(Still, history.refreshed, b, history.off)
         /\ set_cursor_pos(u, x, y).cursor_x = Clamp(x, n)
<1>1. n \in Nat \ {0} /\ m \in Nat \ {0} /\ n \in Nat /\ m \in Nat /\ Still \in Context(n, m)
  BY StillIs
<1>2. u \in Context(n, m) /\ OnePer(u, history.refreshed) /\ Keeps(Still, u)
  BY <1>1, TypedIs
<1>3. PICK v : v = set_cursor_pos(u, x, y)
  OBVIOUS
<1>4. v \in Typed(u, history.refreshed, b, history.off) /\ v.cursor_x = Clamp(x, n)
  BY <1>1, <1>2, <1>3, SetCursor
<1>5. v \in Typed(Still, history.refreshed, b, history.off)
  BY <1>1, <1>2, <1>4, TypedAgain
<1> QED
  BY <1>3, <1>4, <1>5

LEMMA EraseDisplayKeeps == TermInv /\ EraseDisplay => Kept
<1> SUFFICES ASSUME TermInv, EraseDisplay PROVE Kept
  OBVIOUS
<1>1. PICK n, m, b : Facts(n, m, b)
  BY FinishFinds DEF EraseDisplay
<1>2. /\ Still \in Typed(Still, history.refreshed, b, history.off)
      /\ n \in Nat \ {0} /\ m \in Nat \ {0} /\ n \in Nat /\ m \in Nat
      /\ Still \in Context(n, m) /\ OnePer(Still, history.refreshed)
      /\ X(ctx) \in Int /\ Y(ctx) \in Int /\ ctx.cols = n /\ ctx.rows = m
  BY <1>1, StillIs
<1>3. PICK rest \in Int : rest = (ctx.rows - (Y(ctx) + 1)) * ctx.cols + ctx.cols - X(ctx)
  BY <1>2
<1>4. PICK before \in Int : before = Y(ctx) * ctx.cols + X(ctx) + 1
  BY <1>2
<1>5. PICK start : start = set_cursor_pos(Still, 0, 0)
  OBVIOUS
<1>6. start \in Typed(Still, history.refreshed, b, history.off)
  BY <1>1, <1>2, <1>5, 0 \in Int, StillPlaced
<1>7. /\ Spaces(Still, rest) \in Typed(Still, history.refreshed, b, history.off)
      /\ Spaces(start, before) \in Typed(Still, history.refreshed, b, history.off)
  BY <1>1, <1>2, <1>6, SpacesAfter
<1>8. clear(Still, FALSE) \in Drawn(Still, history.refreshed)
  BY <1>2, ClearDraws
<1>9. \/ Finish({74}, Back(Spaces(Still, rest))) \/ Finish({74}, Back(Spaces(start, before)))
      \/ Finish({74}, clear(Still, FALSE)) \/ Finish({74}, Still)
  BY <1>3, <1>4, <1>5 DEF EraseDisplay
<1>10. Finish({74}, Back(Spaces(Still, rest))) \/ Finish({74}, Back(Spaces(start, before))) => Kept
  BY <1>1, <1>7, CommandReturns
<1>11. Resting(clear(Still, FALSE), n, m, b) /\ Resting(Still, n, m, b)
  BY <1>1, <1>8, StillSettles, DrawnSettles
<1>12. Finish({74}, clear(Still, FALSE)) \/ Finish({74}, Still) => Kept
  BY <1>1, <1>11, RestingKeeps
<1> QED
  BY <1>9, <1>10, <1>12

(* Part 1 leaves the cursor in the column where it was. *)
LEMMA EraseLineKeeps == TermInv /\ EraseLine => Kept
<1> SUFFICES ASSUME TermInv, EraseLine PROVE Kept
  OBVIOUS
<1>1. PICK n, m, b : Facts(n, m, b)
  BY FinishFinds DEF EraseLine
<1>2. /\ Still \in Typed(Still, history.refreshed, b, history.off)
      /\ n \in Nat \ {0} /\ X(ctx) \in 0 .. n - 1 /\ Y(ctx) \in Int /\ ctx.cols = n
  BY <1>1, StillIs
<1>3. PICK x \in Int, rest \in Int : x = X(ctx) /\ rest = ctx.cols - X(ctx)
  BY <1>2
<1>4. PICK start : start = set_cursor_pos(Still, 0, Y(ctx))
  OBVIOUS
<1>5. start \in Typed(Still, history.refreshed, b, history.off) /\ start.cursor_x = 0
  <2>1. Clamp(0, n) = 0
    BY <1>2 DEF Clamp
  <2> QED
    BY <1>1, <1>2, <1>4, <2>1, 0 \in Int, StillPlaced
<1>6. /\ Spaces(Still, rest) \in Typed(Still, history.refreshed, b, history.off)
      /\ Spaces(start, n) \in Typed(Still, history.refreshed, b, history.off)
      /\ Spaces(start, x) \in Typed(Still, history.refreshed, b, history.off)
      /\ Spaces(start, x).cursor_x = x
  BY <1>1, <1>2, <1>3, <1>5, SpacesAfter
<1>7. Resting(Spaces(start, x), n, m, b)
  BY <1>1, <1>2, <1>3, <1>6, TypedSettles
<1>8. \/ Finish({75}, Back(Spaces(Still, rest))) \/ Finish({75}, Spaces(start, x))
      \/ Finish({75}, Back(Spaces(start, n))) \/ Finish({75}, Still)
  BY <1>2, <1>3, <1>4 DEF EraseLine
<1> QED
  BY <1>1, <1>6, <1>7, <1>8, StillSettles, CommandReturns, RestingKeeps

LEMMA LeastIs ==
  ASSUME NEW v \in Int, NEW n \in Int
  PROVE  Least(v, n) \in Int
BY DEF Least

LEMMA EraseCharactersKeeps == TermInv /\ EraseCharacters => Kept
<1> SUFFICES ASSUME TermInv, EraseCharacters PROVE Kept
  OBVIOUS
<1>1. PICK n, m, b : Facts(n, m, b)
  BY FinishFinds DEF EraseCharacters
<1>2. Still \in Typed(Still, history.refreshed, b, history.off) /\ ctx.cols \in Int
  BY <1>1, StillIs
<1>3. PICK s \in Int : s = Least(Value(0), ctx.cols)
  <2>1. Value(0) \in Int
    BY NumbersHere
  <2>2. Least(Value(0), ctx.cols) \in Int
    BY <1>2, <2>1, LeastIs
  <2> QED
    BY <2>2
<1>4. Spaces(Still, s) \in Typed(Still, history.refreshed, b, history.off)
  BY <1>1, <1>2, SpacesAfter
<1> QED
  BY <1>1, <1>3, <1>4, CommandReturns DEF EraseCharacters

LEMMA InsertBlanksKeeps == TermInv /\ InsertBlanks => Kept
<1> SUFFICES ASSUME TermInv, InsertBlanks PROVE Kept
  OBVIOUS
<1>1. PICK n, m, b : Facts(n, m, b)
  BY FinishFinds DEF InsertBlanks
<1>2. /\ n \in Nat \ {0} /\ m \in Nat \ {0} /\ ctx \in Context(n, m) /\ Value(0) \in Nat
      /\ Ready(Still, history.refreshed, b, history.off, n, m)
  BY <1>1, ReadyHere, NumbersHere
<1>3. PICK t \in Typed(Still, history.refreshed, b, history.off) : Finish({64}, Back(t))
  BY <1>2, BlanksTyped
<1> QED
  BY <1>1, <1>3, CommandReturns

LEMMA DeleteCharactersKeeps == TermInv /\ DeleteCharacters => Kept
<1> SUFFICES ASSUME TermInv, DeleteCharacters PROVE Kept
  OBVIOUS
<1>1. PICK n, m, b : Facts(n, m, b)
  BY FinishFinds DEF DeleteCharacters
<1>2. PICK t \in Drawn(Still, history.refreshed) :
        Finish({80}, Back(Spaces(set_cursor_pos(t, ctx.cols - Value(0), Y(ctx)), Least(Value(0), ctx.cols))))
  BY <1>1, ReadyHere, NumbersHere, ShiftedDraws
<1>3. t \in Typed(Still, history.refreshed, b, history.off)
  BY <1>1, DrawnSettles
<1>4. PICK x \in Int, y \in Int, s \in Int :
        x = ctx.cols - Value(0) /\ y = Y(ctx) /\ s = Least(Value(0), ctx.cols)
  <2>1. ctx.cols \in Int /\ Y(ctx) \in Int /\ Value(0) \in Int
    BY <1>1, StillIs, NumbersHere
  <2>2. Least(Value(0), ctx.cols) \in Int
    BY <2>1, LeastIs
  <2> QED
    BY <2>1, <2>2
<1>5. set_cursor_pos(t, x, y) \in Typed(Still, history.refreshed, b, history.off)
  BY <1>1, <1>3, StillPlaced
<1>6. Spaces(set_cursor_pos(t, x, y), s) \in Typed(Still, history.refreshed, b, history.off)
  BY <1>1, <1>5, SpacesAfter
<1> QED
  BY <1>1, <1>2, <1>4, <1>6, CommandReturns

(* The bytes that neither colour the text nor save or restore it. *)
Types == Continuation \/ Down \/ Up \/ Tab \/ LineFeed \/ Backspace \/ CarriageReturn \/ Printed
Parses ==
  \/ Cancel \/ Lead \/ OscByte \/ BeginOsc \/ BeginCsi \/ SelectSet \/ OtherCode \/ BadCsi \/ Parameter
  \/ Ignored \/ Escape
Sets == DecPrivate \/ Skip \/ Charset \/ Shift
Moves ==
  \/ CursorUp \/ CursorDown \/ CursorRight \/ CursorLeft \/ CursorRow \/ CursorColumn \/ CursorTo
  \/ SaveCursor \/ RestoreCursor \/ Margins \/ InsertMode \/ Report
Erases ==
  DeleteLines \/ InsertLines \/ EraseDisplay \/ EraseLine \/ InsertBlanks \/ DeleteCharacters \/ EraseCharacters
LEMMA QuietKeeps == TermInv /\ (Types \/ Parses \/ Sets \/ Moves \/ Erases) => Kept
<1>1. TermInv /\ Parses => Kept
  BY CancelKeeps, LeadKeeps, OscByteKeeps, BeginOscKeeps, BeginCsiKeeps, SelectSetKeeps, OtherCodeKeeps,
     BadCsiKeeps, ParameterKeeps, IgnoredKeeps, EscapeKeeps, Zenon DEF Parses
<1>2. TermInv /\ (Types \/ Sets) => Kept
  BY ContinuationKeeps, DownKeeps, UpKeeps, TabKeeps, LineFeedKeeps, BackspaceKeeps, CarriageReturnKeeps,
     PrintedKeeps, DecPrivateKeeps, SkipKeeps, CharsetKeeps, ShiftKeeps, Zenon DEF Types, Sets
<1>3. TermInv /\ Moves => Kept
  BY CursorUpKeeps, CursorDownKeeps, CursorSidewaysKeeps, CursorSetKeeps, RestoreCursorKeeps, ModeKeeps,
     MarginsKeeps, Zenon DEF Moves
<1>4. TermInv /\ Erases => Kept
  BY DeleteLinesKeeps, InsertLinesKeeps, EraseDisplayKeeps, EraseLineKeeps, InsertBlanksKeeps,
     DeleteCharactersKeeps, EraseCharactersKeeps, Zenon DEF Erases
<1> QED
  BY <1>1, <1>2, <1>3, <1>4, Zenon

LEMMA PutCharIs ==
  PutChar => Types \/ Parses \/ Sets \/ Moves \/ Erases \/ SaveState \/ RestoreState \/ Reinit \/ Rendition
BY Zenon DEF PutChar, Types, Parses, Sets, Moves, Erases

LEMMA ByteKeeps == TermInv /\ PutChar => TermInv'
<1>1. TermInv /\ Rendition => TermInv'
  BY RenditionKeeps
<1>2. TermInv /\ (SaveState \/ RestoreState \/ Reinit) => TermInv'
  BY SaveStateKeeps, RestoreStateKeeps, ReinitKeeps, Zenon
<1> QED
  BY <1>1, <1>2, QuietKeeps, PutCharIs, Zenon DEF Kept

----------------------------------------------------------------------------
(* Calls. *)

LEMMA InitTerm == Init => TermInv
<1> SUFFICES ASSUME Init PROVE TermInv
  OBVIOUS
<1>1. /\ mode = NULL /\ ctx = NULL /\ turn \in Threads /\ busy = {} /\ ~halted
      /\ \A p \in Threads : input[p] = <<>>
  BY DEF Init
<1>2. ParserIs(parser)
  BY GroundIs DEF Init
<1>3. HistoryIs(history)
  BY DEF Init, History, HistoryIs
<1> QED
  BY <1>1, <1>2, <1>3 DEF TermInv

LEMMA EarlyInitKeeps ==
  ASSUME TermInv, NEW new \in Modes, framebuffer_early_init(new)
  PROVE  TermInv'
<1>1. /\ mode = NULL /\ mode' = new /\ ctx' = flanterm_fb_init(new) /\ parser' = parser /\ turn' = turn
      /\ busy' = busy /\ input' = input /\ halted' = halted /\ history' = history
  BY DEF framebuffer_early_init
<1>2. /\ new # NULL /\ ctx = NULL /\ ~halted /\ busy = {} /\ (\A p \in Threads : input[p] = <<>>)
      /\ turn \in Threads /\ ParserIs(parser) /\ HistoryIs(history)
  BY <1>1, FlantermAssumption DEF TermInv
<1>3. PICK n, m : n = cols(new) /\ m = rows(new)
  OBVIOUS
<1>4. n \in Nat /\ m \in Nat /\ m > 1 /\ NULL \notin Context(n, m)
  BY <1>3, SizeIs, FlantermAssumption
<1>5. CASE Initialises(new)
  <2>1. PICK r : r = history.refreshed
    OBVIOUS
  <2>2. PICK t : t = full_refresh(flanterm_context_reinit(Zeroed(n, m)))
    OBVIOUS
  <2>3. ctx' = t
    BY <1>1, <1>3, <1>5, <2>2 DEF flanterm_fb_init
  <2>4. FirstAs(t, n, m, r)
    BY <1>4, <2>2, FirstIs
  <2>5. TerminalIs(t, n, m, r, history.off, history.below) /\ t # NULL
    <3>1. 0 < m - 1 /\ m <= m /\ 0 <= n /\ 0 < m
      BY <1>4
    <3> QED
      BY <1>4, <2>4, <3>1 DEF FirstAs, TerminalIs
  <2>6. TerminalIs(ctx, cols(mode), rows(mode), history.refreshed, history.off, history.below)'
    BY <1>1, <1>3, <2>1, <2>3, <2>5
  <2>7. (/\ mode \in Modes /\ mode # NULL /\ ctx # NULL /\ Initialises(mode) /\ ~halted /\ turn \in Threads
         /\ ParserIs(parser) /\ HistoryIs(history))'
    BY <1>1, <1>2, <1>5, <2>3, <2>5
  <2> QED
    BY <2>6, <2>7 DEF TermInv
<1>6. CASE ~Initialises(new)
  <2>1. ctx' = NULL
    BY <1>1, <1>6 DEF flanterm_fb_init
  <2>2. (/\ mode \in Modes /\ mode # NULL /\ ctx = NULL /\ ~Initialises(mode) /\ ~halted /\ turn \in Threads
         /\ busy = {} /\ (\A p \in Threads : input[p] = <<>>) /\ ParserIs(parser) /\ HistoryIs(history))'
    BY <1>1, <1>2, <1>6, <2>1
  <2> QED
    BY <2>2 DEF TermInv
<1> QED
  BY <1>5, <1>6

(* A step that changes the context alone. *)
LEMMA ContextKeeps ==
  ASSUME TermInv, ctx # NULL, NEW t, ctx' = t,
         mode' = mode /\ turn' = turn /\ halted' = halted /\ parser' = parser,
         HistoryIs(history'), history'.off = history.off, history'.below = history.below,
         TerminalIs(t, cols(mode), rows(mode), history'.refreshed, history.off, history.below)
  PROVE  TermInv'
<1>1. PICK n, m : Finds(n, m)
  BY FoundIs
<1>2. n = cols(mode) /\ m = rows(mode) /\ NULL \notin Context(n, m) /\ mode # NULL /\ Initialises(mode) /\ ~halted
  BY <1>1 DEF Finds
<1>3. t # NULL
  BY <1>2 DEF TerminalIs
<1>4. (/\ mode \in Modes \cup {NULL} /\ turn \in Threads /\ mode # NULL /\ ctx # NULL /\ Initialises(mode)
       /\ ~halted /\ ParserIs(parser) /\ HistoryIs(history))'
  BY <1>2, <1>3 DEF TermInv
<1>5. TerminalIs(ctx, cols(mode), rows(mode), history.refreshed, history.off, history.below)'
  OBVIOUS
<1> QED
  BY <1>4, <1>5 DEF TermInv

(* Drawing keeps the terminal sound; s may excuse what is left in the queue. *)
LEMMA DrawingKeeps ==
  ASSUME NEW n, NEW m, Finds(n, m), NEW r, TerminalIs(ctx, n, m, r, history.off, history.below),
         NEW s, NEW t \in Redrawn(ctx, s)
  PROVE  TerminalIs(t, n, m, s, history.off, history.below)
<1>1. n \in Nat /\ m \in Nat /\ ctx \in Context(n, m)
  BY DEF Finds, TerminalIs
<1>2. t \in Context(n, m) /\ OnePer(t, s) /\ Holds(ctx, t) /\ SameCursor(ctx, t)
  BY <1>1, RedrawnIs
<1> QED
  BY <1>2 DEF TerminalIs, Holds, SameCursor

LEMMA Found ==
  ASSUME TermInv, ctx # NULL
  PROVE  \E n, m : /\ Finds(n, m) /\ n = cols(mode) /\ m = rows(mode) /\ n \in Nat /\ m \in Nat
                   /\ TerminalIs(ctx, n, m, history.refreshed, history.off, history.below)
                   /\ ctx \in Context(n, m) /\ OnePer(ctx, history.refreshed) /\ HistoryIs(history)
<1>1. PICK n, m : Finds(n, m)
  BY FoundIs
<1>2. n = cols(mode) /\ m = rows(mode) /\ n \in Nat /\ m \in Nat
  BY <1>1 DEF Finds
<1>3. TerminalIs(ctx, n, m, history.refreshed, history.off, history.below) /\ HistoryIs(history)
  BY <1>2 DEF TermInv
<1> QED
  BY <1>1, <1>2, <1>3 DEF TerminalIs

SameCauses(h, g) ==
  /\ HistoryIs(g) /\ g.off = h.off /\ g.below = h.below
  /\ g.strays = h.strays /\ g.saved_strays = h.saved_strays
LEMMA HistoryPlain ==
  ASSUME NEW h, HistoryIs(h), NEW x
  PROVE  /\ SameCauses(h, [h EXCEPT !.plain = x]) /\ [h EXCEPT !.plain = x].refreshed = h.refreshed
         /\ SameCauses(h, [h EXCEPT !.torn = x]) /\ [h EXCEPT !.torn = x].refreshed = h.refreshed
         /\ SameCauses(h, [h EXCEPT !.refreshed = x]) /\ [h EXCEPT !.refreshed = x].refreshed = x
BY DEF HistoryIs, SameCauses

(* Nothing of the terminal changes. *)
LEMMA RestKeeps ==
  ASSUME TermInv, mode' = mode /\ ctx' = ctx /\ parser' = parser, turn' \in Threads,
         HistoryIs(history'), history'.off = history.off, history'.below = history.below,
         history'.refreshed = history.refreshed,
         halted' => mode # NULL /\ ~Initialises(mode),
         ctx = NULL => busy' = {} /\ input' = input
  PROVE  TermInv'
<1>1. (ctx = NULL => busy = {} /\ \A p \in Threads : input[p] = <<>>)'
  BY DEF TermInv
<1>2. (halted => mode # NULL /\ ~Initialises(mode))'
  OBVIOUS
<1>3. (/\ mode \in Modes \cup {NULL} /\ turn \in Threads
       /\ (mode = NULL => ctx = NULL) /\ (mode # NULL => (ctx # NULL <=> Initialises(mode)))
       /\ ParserIs(parser) /\ HistoryIs(history))'
  BY DEF TermInv
<1>4. (ctx # NULL => TerminalIs(ctx, cols(mode), rows(mode), history.refreshed, history.off, history.below))'
  BY DEF TermInv
<1> QED
  BY <1>1, <1>2, <1>3, <1>4 DEF TermInv

LEMMA KprintfKeeps ==
  ASSUME TermInv, NEW text, kprintf(text)
  PROVE  TermInv' /\ SameCauses(history, history') /\ history'.refreshed = history.refreshed
<1>1. PICK x : x = (history.plain /\ text \in LogLines)
  BY Zenon
<1>2. history' = [history EXCEPT !.plain = x]
  BY <1>1, Zenon DEF kprintf
<1>3. HistoryIs(history)
  BY DEF TermInv
<1>4. /\ HistoryIs(history') /\ history'.off = history.off /\ history'.below = history.below
      /\ history'.refreshed = history.refreshed /\ SameCauses(history, history')
  BY <1>2, <1>3, HistoryPlain, Zenon DEF SameCauses
<1>5. mode # NULL /\ mode' = mode /\ ctx' = ctx /\ parser' = parser /\ turn' \in Threads
  BY DEF kprintf, Call, TermInv
<1>6. CASE ctx = NULL
  <2>1. input' = input /\ busy' = {} /\ ~Initialises(mode)
    BY <1>5, <1>6 DEF kprintf, TermInv
  <2>2. TermInv'
    BY <1>4, <1>5, <2>1, RestKeeps
  <2> QED
    BY <1>4, <2>2
<1>7. CASE ctx # NULL
  <2>1. halted' => mode # NULL /\ ~Initialises(mode)
    BY <1>7 DEF kprintf, TermInv
  <2>2. TermInv'
    BY <1>4, <1>5, <1>7, <2>1, RestKeeps
  <2> QED
    BY <1>4, <2>2
<1> QED
  BY <1>4, <1>6, <1>7

LEMMA PreemptKeeps ==
  TermInv /\ Preempt =>
    TermInv' /\ SameCauses(history, history') /\ history'.refreshed = history.refreshed
<1> SUFFICES ASSUME TermInv, Preempt
             PROVE  TermInv' /\ SameCauses(history, history') /\ history'.refreshed = history.refreshed
  OBVIOUS
<1>1. PICK x : x = (history.torn \/ parser # [Ground EXCEPT !.dec_private = parser.dec_private])
  BY Zenon
<1>2. history' = [history EXCEPT !.torn = x]
  BY <1>1, Zenon DEF Preempt
<1>3. HistoryIs(history)
  BY DEF TermInv
<1>4. /\ HistoryIs(history') /\ history'.off = history.off /\ history'.below = history.below
      /\ history'.refreshed = history.refreshed /\ SameCauses(history, history')
  BY <1>2, <1>3, HistoryPlain, Zenon DEF SameCauses
<1>5. mode' = mode /\ ctx' = ctx /\ parser' = parser /\ turn' \in Threads /\ input' = input
  BY DEF Preempt
<1>6. (ctx = NULL => busy' = {}) /\ (halted' => mode # NULL /\ ~Initialises(mode))
  BY DEF Preempt, TermInv
<1>7. TermInv'
  BY <1>4, <1>5, <1>6, RestKeeps
<1> QED
  BY <1>4, <1>7

(* Drawing what waits. *)
LEMMA FlushKeeps ==
  ASSUME TermInv, ctx # NULL, ctx' \in {double_buffer_flush(ctx), ctx},
         mode' = mode /\ turn' = turn /\ halted' = halted /\ parser' = parser /\ history' = history
  PROVE  TermInv' /\ ColoursStay
<1>1. PICK n, m : /\ Finds(n, m) /\ n = cols(mode) /\ m = rows(mode) /\ n \in Nat /\ m \in Nat
                  /\ TerminalIs(ctx, n, m, history.refreshed, history.off, history.below)
                  /\ ctx \in Context(n, m) /\ OnePer(ctx, history.refreshed) /\ HistoryIs(history)
  BY Found
<1>2. PICK r : r = history.refreshed
  OBVIOUS
<1>3. PICK t : t = ctx'
  OBVIOUS
<1>4. t \in Redrawn(ctx, r)
  <2>1. double_buffer_flush(ctx) \in Redrawn(ctx, r) /\ ctx \in Redrawn(ctx, r)
    <3>1. ctx \in Redrawn(ctx, r)
      BY <1>1, <1>2 DEF Redrawn, Context, Holds, SameColours, SameCursor
    <3> QED
      BY <1>1, <1>2, <3>1, FlushDraws
  <2> QED
    BY <1>3, <2>1
<1>5. TerminalIs(t, n, m, r, history.off, history.below)
  BY <1>1, <1>2, <1>4, DrawingKeeps
<1>6. TerminalIs(t, cols(mode), rows(mode), history'.refreshed, history.off, history.below)
  BY <1>1, <1>2, <1>5
<1>7. TermInv'
  BY <1>1, <1>3, <1>6, ContextKeeps
<1> QED
  BY <1>3, <1>4, <1>7 DEF ColoursStay, Redrawn, Holds

LEMMA EndWriteKeeps == TermInv /\ EndWrite => TermInv' /\ ColoursStay
<1> SUFFICES ASSUME TermInv, EndWrite PROVE TermInv' /\ ColoursStay
  OBVIOUS
<1>1. ctx # NULL
  BY DEF TermInv, EndWrite
<1>2. ctx' \in {double_buffer_flush(ctx), ctx}
  BY DEF EndWrite, Flushed
<1> QED
  BY <1>1, <1>2, FlushKeeps DEF EndWrite

LEMMA FlushCallKeeps == TermInv /\ flanterm_flush => TermInv' /\ ColoursStay
BY FlushKeeps DEF flanterm_flush, Change, Call

(* That a refresh finds the cursor where it drew it, or excuses it. *)
RefreshedAs ==
  ~history'.refreshed =>
    ~history.refreshed /\ ctx.cursor_x = ctx.old_cursor_x /\ ctx.cursor_y = ctx.old_cursor_y
LEMMA RefreshKeeps ==
  TermInv /\ flanterm_full_refresh =>
    TermInv' /\ ColoursStay /\ SameCauses(history, history') /\ RefreshedAs
<1> SUFFICES ASSUME TermInv, flanterm_full_refresh
             PROVE  TermInv' /\ ColoursStay /\ SameCauses(history, history') /\ RefreshedAs
  OBVIOUS
<1>1. /\ ctx # NULL /\ mode' = mode /\ turn' = turn /\ halted' = halted /\ parser' = parser
      /\ ctx' = full_refresh(ctx)
  BY DEF flanterm_full_refresh, Change, Call
<1>2. PICK n, m : /\ Finds(n, m) /\ n = cols(mode) /\ m = rows(mode) /\ n \in Nat /\ m \in Nat
                  /\ TerminalIs(ctx, n, m, history.refreshed, history.off, history.below)
                  /\ ctx \in Context(n, m) /\ OnePer(ctx, history.refreshed) /\ HistoryIs(history)
  BY <1>1, Found
<1>3. PICK s : s = (history.refreshed \/ ctx.queue # <<>> \/ ctx.cursor_x # ctx.old_cursor_x
                    \/ ctx.cursor_y # ctx.old_cursor_y)
  BY Zenon
<1>4. history' = [history EXCEPT !.refreshed = s]
  BY <1>3, Zenon DEF flanterm_full_refresh
<1>5. /\ HistoryIs(history') /\ history'.off = history.off /\ history'.below = history.below
      /\ history'.refreshed = s /\ SameCauses(history, history')
  <2>1. SameCauses(history, history') /\ history'.refreshed = s
    <3>1. HistoryIs(history)
      BY <1>2
    <3>2. SameCauses(history, [history EXCEPT !.refreshed = s]) /\ [history EXCEPT !.refreshed = s].refreshed = s
      BY <3>1, HistoryPlain
    <3> QED
      BY <1>4, <3>2, Zenon
  <2> QED
    BY <2>1, Zenon DEF SameCauses
<1>6. s \/ ctx.queue = <<>>
  BY <1>3, Zenon
<1>7. full_refresh(ctx) \in Redrawn(ctx, s)
  BY <1>2, <1>6, RefreshDraws
<1>8. TerminalIs(full_refresh(ctx), n, m, s, history.off, history.below)
  BY <1>2, <1>7, DrawingKeeps
<1>9. TerminalIs(full_refresh(ctx), cols(mode), rows(mode), history'.refreshed, history.off, history.below)
  BY <1>2, <1>5, <1>8
<1>10. TermInv'
  BY <1>1, <1>5, <1>9, ContextKeeps
<1>11. RefreshedAs
  BY <1>3, <1>5, Zenon DEF RefreshedAs
<1> QED
  BY <1>1, <1>5, <1>7, <1>10, <1>11 DEF ColoursStay, Redrawn, Holds

Flushing(t, on) == [t EXCEPT !.autoflush = on]
Feeding(t, on) == [t EXCEPT !.onlcr = on]
LEMMA FlagsAre ==
  ASSUME NEW n \in Nat, NEW m \in Nat, NEW t \in Context(n, m), NEW on \in BOOLEAN
  PROVE  Flushing(t, on) \in Calm(t) /\ Feeding(t, on) \in Calm(t)
<1>0. PICK G, M, Q, S, P : ContextAs(n, m, G, M, Q, S, P)
  BY FieldsAre
<1> DEFINE F == Fields(n, m, G, M, Q, S, P)
<1>1. t.cols = n /\ t.rows = m /\ t \in F
  BY <1>0 DEF ContextAs, Context
<1>2. Calm(t) = {v \in F : SameFrame(t, v) /\ SameColours(t, v)}
  BY <1>0, <1>1 DEF ContextAs, Coloured, Calm
<1>3. Flushing(t, on) \in F /\ SameFrame(t, Flushing(t, on)) /\ SameColours(t, Flushing(t, on))
  BY ONLY <1>1, on \in BOOLEAN DEF Fields, Flushing, SameFrame, SameCursor, SameColours, SameScene
<1>4. Feeding(t, on) \in F /\ SameFrame(t, Feeding(t, on)) /\ SameColours(t, Feeding(t, on))
  BY ONLY <1>1, on \in BOOLEAN DEF Fields, Feeding, SameFrame, SameCursor, SameColours, SameScene
<1> HIDE DEF F
<1> QED
  BY <1>2, <1>3, <1>4

LEMMA FlagKeeps ==
  ASSUME TermInv, NEW on \in BOOLEAN, flanterm_set_autoflush(on) \/ flanterm_set_oob_output(on)
  PROVE  Kept
<1>1. PICK t : t = ctx'
  OBVIOUS
<1>2. /\ ctx # NULL /\ mode' = mode /\ turn' = turn /\ halted' = halted /\ parser' = parser
      /\ history' = history
  BY DEF flanterm_set_autoflush, flanterm_set_oob_output, Change, Call
<1>3. t = Flushing(ctx, on) \/ t = Feeding(ctx, on)
  BY <1>1 DEF flanterm_set_autoflush, flanterm_set_oob_output, Change, Flushing, Feeding
<1>4. PICK n, m : /\ Finds(n, m) /\ n = cols(mode) /\ m = rows(mode) /\ n \in Nat /\ m \in Nat
                  /\ TerminalIs(ctx, n, m, history.refreshed, history.off, history.below)
                  /\ ctx \in Context(n, m) /\ OnePer(ctx, history.refreshed) /\ HistoryIs(history)
  BY <1>2, Found
<1>5. t \in Coloured(ctx) /\ SameColours(ctx, t)
  BY <1>3, <1>4, FlagsAre DEF Calm
<1>6. t \in Context(n, m) /\ SameFrame(ctx, t)
  BY <1>4, <1>5, ColouredIs
<1>7. OnePer(t, history.refreshed)
  BY <1>4, <1>6, SameQueue DEF SameFrame
<1>8. TerminalIs(t, n, m, history.refreshed, history.off, history.below)
  BY <1>4, <1>6, <1>7 DEF TerminalIs, SameFrame, SameCursor
<1>9. TerminalIs(t, cols(mode), rows(mode), history'.refreshed, history.off, history.below)
  BY <1>2, <1>4, <1>8
<1>10. TermInv'
  BY <1>1, <1>2, <1>4, <1>9, ContextKeeps
<1> QED
  BY <1>1, <1>5, <1>6, <1>10 DEF Kept, ColoursStay, SceneStays, SameFrame

LEMMA StutterKeeps == TermInv /\ UNCHANGED vars => TermInv'
<1> SUFFICES ASSUME TermInv, UNCHANGED vars PROVE TermInv'
  OBVIOUS
<1>1. /\ mode' = mode /\ ctx' = ctx /\ parser' = parser /\ turn' = turn /\ history' = history
      /\ halted' = halted /\ busy' = busy /\ input' = input
  BY DEF vars
<1>2. /\ turn \in Threads /\ HistoryIs(history) /\ (halted => mode # NULL /\ ~Initialises(mode))
      /\ (ctx = NULL => busy = {})
  BY DEF TermInv
<1> QED
  BY <1>1, <1>2, RestKeeps

LEMMA NextTerm == TermInv /\ [Next]_vars => TermInv'
<1> SUFFICES ASSUME TermInv, [Next]_vars PROVE TermInv'
  OBVIOUS
<1>1. ASSUME NEW new \in Modes, framebuffer_early_init(new) PROVE TermInv'
  BY <1>1, EarlyInitKeeps
<1>2. ASSUME NEW text \in Texts[turn], kprintf(text) PROVE TermInv'
  BY <1>2, KprintfKeeps
<1>3. ASSUME NEW on \in BOOLEAN, flanterm_set_autoflush(on) \/ flanterm_set_oob_output(on) PROVE TermInv'
  BY <1>3, FlagKeeps DEF Kept
<1> QED
  BY <1>1, <1>2, <1>3, ByteKeeps, EndWriteKeeps, PreemptKeeps, FlushCallKeeps, RefreshKeeps, StutterKeeps, Zenon
     DEF Next, Kept

LEMMA TermSound == TermInv => TerminalSound
<1> SUFFICES ASSUME TermInv PROVE TerminalSound
  OBVIOUS
<1>1. halted => mode # NULL /\ ~Initialises(mode)
  BY DEF TermInv
<1>2. ASSUME ctx # NULL
      PROVE  /\ OnePerCell(ctx)
             /\ ctx.top < ctx.bottom - 1 /\ ctx.bottom <= ctx.rows
             /\ ctx.cursor_x \in 0 .. ctx.cols \/ history.off
             /\ ctx.cursor_y \in 0 .. ctx.rows - 1 \/ (ctx.cursor_y < ctx.cols /\ history.below)
             /\ ctx.scroll_enabled \/ history.off
  <2>1. PICK n, m : /\ Finds(n, m) /\ n = cols(mode) /\ m = rows(mode) /\ n \in Nat /\ m \in Nat
                    /\ TerminalIs(ctx, n, m, history.refreshed, history.off, history.below)
                    /\ ctx \in Context(n, m) /\ OnePer(ctx, history.refreshed) /\ HistoryIs(history)
    BY <1>2, Found
  <2>2. ctx.cols = n /\ ctx.rows = m /\ ctx.cursor_x \in Nat /\ ctx.cursor_y \in Nat
    BY <2>1 DEF Context
  <2>3. OnePerCell(ctx)
    BY <2>1 DEF OnePer, OnePerCell
  <2>4. /\ ctx.top < ctx.bottom - 1 /\ ctx.bottom <= m
        /\ ctx.cursor_x <= n \/ history.off
        /\ ctx.cursor_y < m \/ (ctx.cursor_y < n /\ history.below)
        /\ ctx.scroll_enabled \/ history.off
    BY <2>1 DEF TerminalIs
  <2> QED
    BY <2>1, <2>2, <2>3, <2>4
<1> QED
  BY <1>1, <1>2, Zenon DEF TerminalSound

(* Between any two bytes of flanterm_write the context is sound: map and   *)
(* queue name each other, margins and cursor keep to the screen, whatever  *)
(* the texts, however the threads take turns (TerminalSound of Flanterm).  *)
THEOREM TerminalIsSound == Spec => []TerminalSound
<1>1. Spec => []TermInv
  BY InitTerm, NextTerm, PTL DEF Spec
<1> QED
  BY <1>1, TermSound, PTL

----------------------------------------------------------------------------
(* The colours in their roles. *)

(* The bytes that neither colour the text nor save or restore it: by the   *)
(* way they take through flanterm_putchar.                                 *)
Quiet ==
  \/ Cancels \/ Continues \/ Leads \/ InOsc \/ Skips
  \/ Single /\ ~parser.escape
  \/ Code /\ c \notin {55, 56, 99}
  \/ InCsi /\ (IsParameter \/ (SecondByte /\ c = 91))
  \/ Final /\ parser.dec_private
  \/ Final /\ c # 109
Left == TakeByte /\ \E t, p : Leave(t, p)

LEMMA TypesQuiet == Types => Quiet /\ Left
<1>1. Down \/ Up => (Code /\ c \in {68, 69, 77}) /\ Left
  BY Zenon DEF Down, Up, Left
<1>2. Tab \/ LineFeed \/ Backspace \/ CarriageReturn \/ Printed => Plain /\ Left
  BY Zenon DEF Tab, LineFeed, Backspace, CarriageReturn, Printed, Left
<1>3. Continuation => Continues /\ Left
  BY Zenon DEF Continuation, Left
<1>4. c \in {68, 69, 77} => c \notin {55, 56, 99}
  OBVIOUS
<1> QED
  BY <1>1, <1>2, <1>3, <1>4, Zenon DEF Types, Quiet, Plain

LEMMA ParsesQuiet == Parses => Quiet /\ Left
<1>1. BeginOsc \/ BeginCsi \/ SelectSet => (Code /\ c \in {93, 91, 40, 41}) /\ Left
  BY Zenon DEF BeginOsc, BeginCsi, SelectSet, Left
<1>2. OtherCode => (Code /\ c \notin {93, 91, 55, 56, 99, 68, 69, 77, 40, 41}) /\ Left
  BY Zenon DEF OtherCode, Left
<1>3. c \in {93, 91, 40, 41} => c \notin {55, 56, 99}
  OBVIOUS
<1>4. c \notin {93, 91, 55, 56, 99, 68, 69, 77, 40, 41} => c \notin {55, 56, 99}
  OBVIOUS
<1>5. Cancel => Cancels /\ Left
  BY Zenon DEF Cancel, Left
<1>6. Lead => Leads /\ Left
  <2>1. Lead => Leads
    BY Zenon DEF Lead
  <2>2. Lead => Left
    BY DEF Lead, Left
  <2> QED
    BY <2>1, <2>2
<1>7. OscByte => InOsc /\ Left
  BY Zenon DEF OscByte, Left
<1>8. BadCsi => (InCsi /\ SecondByte /\ c = 91) /\ Left
  BY Zenon DEF BadCsi, Left
<1>9. Parameter => (InCsi /\ IsParameter) /\ Left
  BY Zenon DEF Parameter, Left
<1>10. Ignored \/ Escape => Plain /\ Left
  BY Zenon DEF Ignored, Escape, Left
<1> QED
  BY <1>1, <1>2, <1>3, <1>4, <1>5, <1>6, <1>7, <1>8, <1>9, <1>10, Zenon DEF Parses, Quiet, Plain

LEMMA SetsQuiet == Sets => Quiet /\ Left
<1>1. DecPrivate => (Final /\ parser.dec_private) /\ Left
  BY Zenon DEF DecPrivate, Left
<1>2. Skip => Skips /\ Left
  BY Zenon DEF Skip, Left
<1>3. Charset => (Single /\ ~parser.escape) /\ Left
  BY Zenon DEF Charset, Left
<1>4. Shift => Plain /\ Left
  BY Zenon DEF Shift, Left
<1> QED
  BY <1>1, <1>2, <1>3, <1>4, Zenon DEF Sets, Quiet, Plain

LEMMA MovesQuiet == Moves => (Final /\ c # 109) /\ Left
<1>1. CursorUp => Runs({65, 70}) /\ Left
  BY Zenon DEF CursorUp, Finish, Left
<1>2. CursorDown => Runs({66, 69, 101}) /\ Left
  BY Zenon DEF CursorDown, Finish, Left
<1>3. CursorRight => Runs({67, 97}) /\ Left
  BY Zenon DEF CursorRight, Finish, Left
<1>4. CursorLeft => Runs({68}) /\ Left
  BY Zenon DEF CursorLeft, Finish, Left
<1>5. CursorRow => Runs({100}) /\ Left
  BY Zenon DEF CursorRow, Finish, Left
<1>6. CursorColumn => Runs({71, 96}) /\ Left
  BY Zenon DEF CursorColumn, Finish, Left
<1>7. CursorTo => Runs({72, 102}) /\ Left
  BY Zenon DEF CursorTo, Finish, Left
<1>8. SaveCursor => Runs({115}) /\ Left
  BY Zenon DEF SaveCursor, Finish, Left
<1>9. RestoreCursor => Runs({117}) /\ Left
  BY Zenon DEF RestoreCursor, Finish, Left
<1>10. Margins => Runs({114}) /\ Left
  BY Zenon DEF Margins, Finish, Left
<1>11. InsertMode => Runs({104, 108}) /\ Left
  BY Zenon DEF InsertMode, Finish, Left
<1>12. Report => Runs({93, 99, 110, 113}) /\ Left
  BY Zenon DEF Report, Finish, Left
<1>13. /\ Runs({65, 70}) => Final /\ c # 109
       /\ Runs({66, 69, 101}) => Final /\ c # 109
       /\ Runs({67, 97}) => Final /\ c # 109
       /\ Runs({68}) => Final /\ c # 109
       /\ Runs({100}) => Final /\ c # 109
       /\ Runs({71, 96}) => Final /\ c # 109
       /\ Runs({72, 102}) => Final /\ c # 109
       /\ Runs({115}) => Final /\ c # 109
       /\ Runs({117}) => Final /\ c # 109
       /\ Runs({114}) => Final /\ c # 109
       /\ Runs({104, 108}) => Final /\ c # 109
       /\ Runs({93, 99, 110, 113}) => Final /\ c # 109
  BY DEF Runs
<1> QED
  BY <1>1, <1>2, <1>3, <1>4, <1>5, <1>6, <1>7, <1>8, <1>9, <1>10, <1>11, <1>12, <1>13, Zenon DEF Moves

LEMMA ErasesQuiet == Erases => (Final /\ c # 109) /\ Left
<1>1. DeleteLines => Runs({77}) /\ Left
  BY Zenon DEF DeleteLines, Finish, Left
<1>2. InsertLines => Runs({76}) /\ Left
  BY Zenon DEF InsertLines, Finish, Left
<1>3. EraseDisplay => Runs({74}) /\ Left
  BY Zenon DEF EraseDisplay, Finish, Left
<1>4. EraseLine => Runs({75}) /\ Left
  BY Zenon DEF EraseLine, Finish, Left
<1>5. InsertBlanks => Runs({64}) /\ Left
  BY Zenon DEF InsertBlanks, Finish, Left
<1>6. DeleteCharacters => Runs({80}) /\ Left
  BY Zenon DEF DeleteCharacters, Finish, Left
<1>7. EraseCharacters => Runs({88}) /\ Left
  BY Zenon DEF EraseCharacters, Finish, Left
<1>8. /\ Runs({77}) => Final /\ c # 109
      /\ Runs({76}) => Final /\ c # 109
      /\ Runs({74}) => Final /\ c # 109
      /\ Runs({75}) => Final /\ c # 109
      /\ Runs({64}) => Final /\ c # 109
      /\ Runs({80}) => Final /\ c # 109
      /\ Runs({88}) => Final /\ c # 109
  BY DEF Runs
<1> QED
  BY <1>1, <1>2, <1>3, <1>4, <1>5, <1>6, <1>7, <1>8, Zenon DEF Erases

LEMMA QuietApart == Quiet => ~Runs({109}) /\ ~(Code /\ c \in {55, 56, 99})
<1>1. ASSUME Runs({109}) PROVE c = 109 /\ Final /\ ~parser.dec_private /\ ~parser.csi_unhandled
  BY <1>1 DEF Runs
<1>2. c = 109 => c \in Commands
  BY DEF Commands
<1>4. Final => InCsi /\ ~IsParameter /\ ~(SecondByte /\ c = 91)
  BY Zenon DEF Final
<1>5. InCsi => ~Code /\ Single /\ parser.escape /\ ~InOsc
  BY Zenon DEF InCsi, Code, InEscape
<1>6. Code => Single /\ parser.escape /\ ~InOsc /\ ~InCsi
  BY Zenon DEF InCsi, Code, InEscape
<1>7. Single => ~Cancels /\ ~Continues /\ ~Leads
  BY Zenon DEF Single, Decoded, Leads
<1>8. Skips => Final /\ ~parser.dec_private /\ (parser.csi_unhandled \/ c \notin Commands)
  BY Zenon DEF Skips
<1>9. ASSUME Quiet, Runs({109}) PROVE FALSE
  BY <1>1, <1>2, <1>4, <1>5, <1>7, <1>8, <1>9, Zenon DEF Quiet
<1>10. ASSUME Quiet, Code, c \in {55, 56, 99} PROVE FALSE
  BY <1>4, <1>6, <1>7, <1>8, <1>10, Zenon DEF Quiet
<1> QED
  BY <1>9, <1>10, Zenon

LEMMA QuietIs == Types \/ Parses \/ Sets \/ Moves \/ Erases => Quiet /\ Left
BY TypesQuiet, ParsesQuiet, SetsQuiet, MovesQuiet, ErasesQuiet, Zenon DEF Quiet

LEMMA QuietCauses ==
  ASSUME TermInv, Types \/ Parses \/ Sets \/ Moves \/ Erases
  PROVE  history'.strays = history.strays /\ history'.saved_strays = history.saved_strays
<1>1. Quiet /\ Left
  BY QuietIs
<1>2. PICK t, p : Leave(t, p)
  BY <1>1 DEF Left
<1>3. /\ history'.strays = Strays
      /\ history'.saved_strays = IF Code /\ c = 55 THEN history.strays ELSE history.saved_strays
  <2>1. HistoryIs(history)
    BY DEF TermInv
  <2> QED
    BY <1>2, <2>1, HistoryLeft
<1>4. ~Runs({109}) /\ ~(Code /\ c = 55) /\ ~(Code /\ c = 56) /\ ~(Code /\ c = 99)
  BY <1>1, QuietApart
<1> QED
  BY <1>3, <1>4, Zenon DEF Strays

(* RolesKept with what its proof needs besides: the saved colours have     *)
(* their roles as well, and before the terminal is there nothing is saved. *)
RoleInv ==
  /\ ctx = NULL => history.saved_strays # {}
  /\ ctx # NULL => /\ history.strays = {} => Roles(ctx)
                   /\ history.saved_strays = {} => SavedRoles(ctx)

LEMMA SameRoles ==
  ASSUME NEW t, NEW u, SameColours(t, u), u.saved_state = t.saved_state
  PROVE  (Roles(u) <=> Roles(t)) /\ (SavedRoles(u) <=> SavedRoles(t))
BY Zenon DEF SameColours, Roles, SavedRoles

LEMMA RolesStay ==
  ASSUME RoleInv, ctx # NULL, ColoursStay,
         history'.strays = history.strays, history'.saved_strays = history.saved_strays, ctx' # NULL
  PROVE  RoleInv'
<1>1. PICK u : u = ctx'
  OBVIOUS
<1>2. (Roles(u) <=> Roles(ctx)) /\ (SavedRoles(u) <=> SavedRoles(ctx))
  BY <1>1, SameRoles DEF ColoursStay
<1>3. (Roles(ctx') <=> Roles(ctx)) /\ (SavedRoles(ctx') <=> SavedRoles(ctx))
  BY <1>1, <1>2
<1> QED
  BY <1>3, Zenon DEF RoleInv, Roles, SavedRoles, Tells, TellsFg, TellsBg

LEMMA StraysTell ==
  ASSUME Runs({109}), Strays = {}, NEW values, NEW N, values = Filled.esc_values, N = Filled.esc_values_i
  PROVE  /\ Plainly(values, N)
         /\ \/ N = 0 \/ values[N - 1] = 0
            \/ /\ history.strays = {}
               /\ \A k \in 0 .. N - 1 : values[k] \in {1, 5, 22, 25} => ~Previous(ctx, values, k).reverse_video
<1> DEFINE extended == \E k \in 0 .. N - 1 : values[k] \in {38, 48}
           weighted == \E k \in 0 .. N - 1 : values[k] \in {1, 5, 22, 25} /\ Previous(ctx, values, k).reverse_video
           righted == Runs({109}) /\ ~extended /\ (N = 0 \/ values[N - 1] = 0)
<1>1. Strays = IF righted THEN {}
               ELSE IF Runs({109})
               THEN history.strays \cup (IF extended THEN {"extended"} ELSE {})
                                   \cup (IF weighted THEN {"weight"} ELSE {})
               ELSE IF Code /\ c = 99 THEN history.strays \cup {"reinit"}
               ELSE IF Code /\ c = 56 THEN history.saved_strays ELSE history.strays
  BY Zenon DEF Strays, Value, Previous
<1> HIDE DEF extended, weighted
<1>2. righted \/ (history.strays = {} /\ ~extended /\ ~weighted)
  BY <1>1
<1>3. Plainly(values, N) <=> ~extended
  BY Zenon DEF Plainly, extended
<1>4. ~weighted => \A k \in 0 .. N - 1 : values[k] \in {1, 5, 22, 25} => ~Previous(ctx, values, k).reverse_video
  BY Zenon DEF weighted
<1> QED
  BY <1>2, <1>3, <1>4, Zenon

LEMMA CtxStays ==
  ASSUME TermInv, TermInv', ctx # NULL, mode' = mode
  PROVE  ctx' # NULL
<1>1. mode # NULL /\ Initialises(mode)
  BY DEF TermInv
<1>2. Initialises(mode)'
  BY <1>1, Zenon
<1> QED
  BY <1>1, <1>2 DEF TermInv

(* What a byte finds and leaves of the causes. *)
LEMMA ByteCauses ==
  ASSUME TermInv, NEW t, NEW p, Leave(t, p)
  PROVE  /\ history'.strays = Strays
         /\ history'.saved_strays = IF Code /\ c = 55 THEN history.strays ELSE history.saved_strays
<1>1. HistoryIs(history)
  BY DEF TermInv
<1> QED
  BY <1>1, HistoryLeft

LEMMA RenditionRoles == TermInv /\ RoleInv /\ Rendition => RoleInv'
<1> SUFFICES ASSUME TermInv, RoleInv, Rendition PROVE RoleInv'
  OBVIOUS
<1>1. PICK values \in [Values -> Nat], N \in 0 .. FLANTERM_MAX_ESC_VALUES :
        /\ values = Filled.esc_values /\ N = Filled.esc_values_i
        /\ TermInv' /\ SameColours(sgr(Still, values, N), ctx') /\ ctx'.saved_state = ctx.saved_state
  BY RenditionKeeps
<1>2. PICK n, m, b : Facts(n, m, b)
  BY FinishFinds DEF Rendition
<1>3. n \in Nat /\ m \in Nat /\ Still \in Context(n, m) /\ ctx \in Context(n, m) /\ SameColours(ctx, Still)
  BY <1>2, StillIs
<1>4. TakeByte /\ Runs({109}) /\ \E t, p : Leave(t, p)
  BY Zenon DEF Rendition, Finish
<1>5. history'.strays = Strays /\ history'.saved_strays = history.saved_strays
  <2>1. ~Code
    BY <1>4, Zenon DEF Runs, Final, InCsi, Code
  <2> QED
    BY <1>4, <2>1, ByteCauses
<1>6. ctx # NULL /\ ctx' # NULL
  BY <1>1, <1>4, ByteFinds, CtxStays DEF TakeByte
<1>7. PICK u, v : u = ctx' /\ v = sgr(Still, values, N)
  OBVIOUS
<1>8. v \in Coloured(Still)
  BY <1>3, <1>7, SgrIs
<1>9. SavedRoles(u) <=> SavedRoles(ctx)
  <2>1. v.saved_attributes = Still.saved_attributes
    BY <1>3, <1>8, ColouredIs DEF SameFrame
  <2>2. u.saved_attributes = ctx.saved_attributes /\ u.saved_state = ctx.saved_state
    BY <1>1, <1>3, <1>7, <2>1 DEF SameColours
  <2> QED
    BY <2>2, Zenon DEF SavedRoles
<1>10. ASSUME Strays = {} PROVE Roles(u)
  <2>1. /\ Plainly(values, N)
        /\ \/ N = 0 \/ values[N - 1] = 0
           \/ /\ history.strays = {}
              /\ \A k \in 0 .. N - 1 : values[k] \in {1, 5, 22, 25} => ~Previous(ctx, values, k).reverse_video
    BY <1>1, <1>4, <1>10, StraysTell
  <2>2. history.strays = {} => Roles(Still)
    <3>1. history.strays = {} => Roles(ctx)
      BY <1>6 DEF RoleInv
    <3>2. Roles(Still) <=> Roles(ctx)
      BY <1>3, Zenon DEF SameColours, Roles
    <3> QED
      BY <3>1, <3>2
  <2>3. ctx.reverse_video = Still.reverse_video
    BY <1>3 DEF SameColours
  <2>4. \/ N = 0 \/ values[N - 1] = 0
        \/ /\ Roles(Still)
           /\ \A k \in 0 .. N - 1 : values[k] \in {1, 5, 22, 25} => ~Previous(ctx, values, k).reverse_video
    BY <2>1, <2>2
  <2>5. Roles(sgr(Still, values, N))
    BY <1>3, <2>1, <2>3, <2>4, SgrRoles
  <2>6. SameColours(v, u) /\ Roles(v)
    BY <1>1, <1>7, <2>5
  <2> QED
    BY <2>6, Zenon DEF SameColours, Roles
<1>11. (Strays = {} => Roles(ctx')) /\ (history.saved_strays = {} => SavedRoles(ctx'))
  <2>1. history.saved_strays = {} => SavedRoles(ctx)
    BY <1>6 DEF RoleInv
  <2> QED
    BY <1>7, <1>9, <1>10, <2>1
<1> QED
  BY <1>5, <1>6, <1>11, Zenon DEF RoleInv, Roles, SavedRoles, Tells, TellsFg, TellsBg

(* Saving and restoring take the causes along. *)
LEMMA SavingRoles == TermInv /\ RoleInv /\ (SaveState \/ RestoreState \/ Reinit) => RoleInv'
<1> SUFFICES ASSUME TermInv, RoleInv, SaveState \/ RestoreState \/ Reinit PROVE RoleInv'
  OBVIOUS
<1>1. TakeByte /\ Code /\ \E t, p : Leave(t, p)
  BY Zenon DEF SaveState, RestoreState, Reinit
<1>2. /\ history'.strays = Strays
      /\ history'.saved_strays = IF Code /\ c = 55 THEN history.strays ELSE history.saved_strays
  BY <1>1, ByteCauses
<1>3. ~Runs({109})
  BY <1>1, Zenon DEF Runs, Final, InCsi, Code
<1>4. Strays = IF c = 99 THEN history.strays \cup {"reinit"}
               ELSE IF c = 56 THEN history.saved_strays ELSE history.strays
  BY <1>1, <1>3, Zenon DEF Strays
<1>5. ctx # NULL /\ ctx' # NULL
  <2>1. TermInv'
    BY SaveStateKeeps, RestoreStateKeeps, ReinitKeeps
  <2> QED
    BY <1>1, <2>1, ByteFinds, CtxStays DEF TakeByte
<1>6. (history.strays = {} => Roles(ctx)) /\ (history.saved_strays = {} => SavedRoles(ctx))
  BY <1>5 DEF RoleInv
<1>7. (history'.strays = {} => Roles(ctx')) /\ (history'.saved_strays = {} => SavedRoles(ctx'))
  <2>1. CASE SaveState
    <3>1. c = 55 /\ StateSaved
      BY <2>1, SaveStateKeeps DEF SaveState
    <3>2. history'.strays = history.strays /\ history'.saved_strays = history.strays
      BY <1>1, <1>2, <1>4, <3>1
    <3> QED
      BY <1>6, <3>1, <3>2, Zenon DEF StateSaved
  <2>2. CASE RestoreState
    <3>1. c = 56 /\ StateRestored
      BY <2>2, RestoreStateKeeps DEF RestoreState
    <3>2. history'.strays = history.saved_strays /\ history'.saved_strays = history.saved_strays
      BY <1>1, <1>2, <1>4, <3>1
    <3> QED
      BY <1>6, <3>1, <3>2, Zenon DEF StateRestored
  <2>3. CASE Reinit
    <3>1. c = 99 /\ StateKept
      BY <2>3, ReinitKeeps DEF Reinit
    <3>2. history'.strays # {} /\ history'.saved_strays = history.saved_strays
      BY <1>1, <1>2, <1>4, <3>1
    <3> QED
      BY <1>6, <3>1, <3>2, Zenon DEF StateKept
  <2> QED
    BY <2>1, <2>2, <2>3
<1> QED
  BY <1>5, <1>7, Zenon DEF RoleInv, Roles, SavedRoles, Tells, TellsFg, TellsBg

LEMMA ByteRoles == TermInv /\ RoleInv /\ PutChar => RoleInv'
<1> SUFFICES ASSUME TermInv, RoleInv, PutChar PROVE RoleInv'
  OBVIOUS
<1>1. CASE Types \/ Parses \/ Sets \/ Moves \/ Erases
  <2>1. Kept
    BY <1>1, QuietKeeps
  <2>2. history'.strays = history.strays /\ history'.saved_strays = history.saved_strays
    BY <1>1, QuietCauses
  <2>3. TakeByte
    BY <1>1, QuietIs DEF Left
  <2>4. ctx # NULL /\ ctx' # NULL
    BY <2>1, <2>3, ByteFinds, CtxStays DEF TakeByte, Kept
  <2> QED
    BY <2>1, <2>2, <2>4, RolesStay DEF Kept
<1> QED
  BY <1>1, PutCharIs, RenditionRoles, SavingRoles, Zenon

LEMMA CallRoles ==
  ASSUME TermInv, RoleInv, TermInv', ColoursStay, ctx # NULL, mode' = mode,
         history'.strays = history.strays /\ history'.saved_strays = history.saved_strays
  PROVE  RoleInv'
BY CtxStays, RolesStay

LEMMA RestRoles ==
  ASSUME RoleInv, ctx' = ctx, history'.strays = history.strays, history'.saved_strays = history.saved_strays
  PROVE  RoleInv'
BY Zenon DEF RoleInv, Roles, SavedRoles, Tells, TellsFg, TellsBg

LEMMA NextRoles == TermInv /\ RoleInv /\ [Next]_vars => RoleInv'
<1> SUFFICES ASSUME TermInv, RoleInv, [Next]_vars PROVE RoleInv'
  OBVIOUS
<1>1. ASSUME NEW new \in Modes, framebuffer_early_init(new) PROVE RoleInv'
  <2>1. history' = history /\ ctx = NULL /\ ctx' = flanterm_fb_init(new)
    BY <1>1 DEF framebuffer_early_init, TermInv
  <2>2. history'.saved_strays # {}
    BY <2>1 DEF RoleInv
  <2>3. CASE ctx' = NULL
    BY <2>2, <2>3 DEF RoleInv
  <2>4. CASE ctx' # NULL
    <3>1. PICK n, m : n = cols(new) /\ m = rows(new)
      OBVIOUS
    <3>2. n \in Nat /\ m \in Nat
      BY <1>1, <3>1, SizeIs
    <3>3. PICK t : t = full_refresh(flanterm_context_reinit(Zeroed(n, m)))
      OBVIOUS
    <3>4. ctx' = t
      BY <2>1, <2>4, <3>1, <3>3 DEF flanterm_fb_init
    <3>5. FirstAs(t, n, m, history.refreshed)
      BY <3>2, <3>3, FirstIs
    <3>6. Looks(t, default_fg, TRANSPARENT, FALSE, FALSE, FALSE, NONE, NONE)
      BY <3>5 DEF FirstAs
    <3>7. Roles(t) <=> Tells(default_fg, TRANSPARENT, FALSE, FALSE, FALSE, NONE, NONE)
      BY <3>6, LooksRoles
    <3>8. Tells(default_fg, TRANSPARENT, FALSE, FALSE, FALSE, NONE, NONE)
      BY Zenon DEF Tells, TellsFg, TellsBg
    <3>9. Roles(ctx')
      BY <3>4, <3>7, <3>8
    <3> QED
      BY <2>2, <2>4, <3>9, Zenon DEF RoleInv, Roles, Tells, TellsFg, TellsBg
  <2> QED
    BY <2>3, <2>4
<1>2. ASSUME NEW text \in Texts[turn], kprintf(text) PROVE RoleInv'
  <2>1. ctx' = ctx /\ SameCauses(history, history')
    BY <1>2, KprintfKeeps DEF kprintf
  <2> QED
    BY <2>1, RestRoles DEF SameCauses
<1>3. ASSUME NEW on \in BOOLEAN, flanterm_set_autoflush(on) \/ flanterm_set_oob_output(on) PROVE RoleInv'
  <2>1. TermInv' /\ ColoursStay
    BY <1>3, FlagKeeps DEF Kept
  <2>2. ctx # NULL /\ mode' = mode /\ history' = history
    BY <1>3 DEF flanterm_set_autoflush, flanterm_set_oob_output, Change, Call
  <2> QED
    BY <2>1, <2>2, CallRoles
<1>4. ASSUME EndWrite PROVE RoleInv'
  <2>1. ctx # NULL /\ mode' = mode /\ history' = history
    BY <1>4 DEF EndWrite, TermInv
  <2> QED
    BY <1>4, <2>1, EndWriteKeeps, CallRoles
<1>5. ASSUME flanterm_flush PROVE RoleInv'
  <2>1. ctx # NULL /\ mode' = mode /\ history' = history
    BY <1>5 DEF flanterm_flush, Change, Call
  <2> QED
    BY <1>5, <2>1, FlushCallKeeps, CallRoles
<1>6. ASSUME flanterm_full_refresh PROVE RoleInv'
  <2>1. ctx # NULL /\ mode' = mode
    BY <1>6 DEF flanterm_full_refresh, Change, Call
  <2>2. TermInv' /\ ColoursStay /\ SameCauses(history, history')
    BY <1>6, RefreshKeeps
  <2> QED
    BY <2>1, <2>2, CallRoles DEF SameCauses
<1>7. ASSUME Preempt PROVE RoleInv'
  <2>1. ctx' = ctx /\ SameCauses(history, history')
    BY <1>7, PreemptKeeps DEF Preempt
  <2> QED
    BY <2>1, RestRoles DEF SameCauses
<1>8. ASSUME UNCHANGED vars PROVE RoleInv'
  <2>1. ctx' = ctx /\ history' = history
    BY <1>8 DEF vars
  <2> QED
    BY <2>1, RestRoles
<1> QED
  BY <1>1, <1>2, <1>3, <1>4, <1>5, <1>6, <1>7, <1>8, ByteRoles, Zenon DEF Next

LEMMA RolesTold == RoleInv => RolesKept
BY Zenon DEF RoleInv, RolesKept, Roles, Tells, TellsFg, TellsBg

(* The colours of the text are those that its attributes tell, with the    *)
(* two swapped in reverse video, after any sequence of codes, saves and    *)
(* restores but for the strays (RolesKept of Flanterm).                    *)
THEOREM RolesAreKept == Spec => []RolesKept
<1>1. Init => TermInv /\ RoleInv
  <2>1. Init => RoleInv
    BY DEF Init, History, RoleInv
  <2> QED
    BY <2>1, InitTerm
<1>2. (TermInv /\ RoleInv) /\ [Next]_vars => (TermInv /\ RoleInv)'
  BY NextTerm, NextRoles
<1>3. TermInv /\ RoleInv => RolesKept
  BY RolesTold
<1> QED
  BY <1>1, <1>2, <1>3, PTL DEF Spec

----------------------------------------------------------------------------
(* What the screen shows. *)

(* What ScreenShowsText needs: between flushes the screen shows the text   *)
(* that the grid holds, but for the cell where the cursor was drawn.       *)
SceneInv == ctx # NULL /\ ~history.refreshed => Clear(ctx)

LEMMA ClearStays ==
  ASSUME NEW n \in Nat, NEW m \in Nat, NEW t \in Context(n, m), NEW u \in Context(n, m),
         SameScene(t, u), Clear(t)
  PROVE  Clear(u)
<1>1. t.cols = n /\ t.rows = m /\ u.cols = n /\ u.rows = m
  BY DEF Context
<1>2. Cells(u) = Cells(t)
  BY <1>1 DEF Cells
<1> QED
  BY <1>1, <1>2 DEF Clear, AtOld, OnScreen, SameScene

(* A step that leaves grid, screen and the place of the old cursor alone.  *)
LEMMA SceneKept ==
  ASSUME TermInv, TermInv', SceneInv, SceneStays, ctx # NULL, mode' = mode,
         history'.refreshed = history.refreshed
  PROVE  SceneInv'
<1>1. ctx' # NULL
  BY CtxStays
<1>2. PICK n, m : n = cols(mode) /\ m = rows(mode) /\ n \in Nat /\ m \in Nat /\ ctx \in Context(n, m)
  BY Found
<1>3. PICK u : u = ctx'
  OBVIOUS
<1>4. u \in Context(n, m)
  <2>1. ctx' \in Context(cols(mode)', rows(mode)')
    BY <1>1 DEF TermInv, TerminalIs
  <2>2. cols(mode)' = cols(mode) /\ rows(mode)' = rows(mode)
    BY Zenon
  <2> QED
    BY <1>2, <1>3, <2>1, <2>2
<1>5. SameScene(ctx, u)
  BY <1>3 DEF SceneStays
<1>6. ~history.refreshed => Clear(u)
  <2>1. ~history.refreshed => Clear(ctx)
    BY DEF SceneInv
  <2> QED
    BY <1>2, <1>4, <1>5, <2>1, ClearStays
<1>7. ~history'.refreshed => Clear(ctx')
  BY <1>3, <1>6
<1> QED
  BY <1>7, Zenon DEF SceneInv, Clear, AtOld

(* A step that leaves the context alone. *)
LEMMA SceneRests ==
  ASSUME SceneInv, ctx' = ctx, history'.refreshed = history.refreshed
  PROVE  SceneInv'
BY Zenon DEF SceneInv, Clear, AtOld

(* No byte draws on the screen. *)
LEMMA ByteScene == TermInv /\ SceneInv /\ PutChar => SceneInv'
<1> SUFFICES ASSUME TermInv, SceneInv, PutChar PROVE SceneInv'
  OBVIOUS
<1>1. TermInv' /\ SceneStays
  <2>1. Rendition => TermInv' /\ SceneStays
    BY RenditionKeeps
  <2>2. SaveState \/ RestoreState \/ Reinit => TermInv' /\ SceneStays
    BY SaveStateKeeps, RestoreStateKeeps, ReinitKeeps, Zenon
  <2>3. Types \/ Parses \/ Sets \/ Moves \/ Erases => TermInv' /\ SceneStays
    BY QuietKeeps, Zenon DEF Kept
  <2> QED
    BY <2>1, <2>2, <2>3, PutCharIs, Zenon
<1>2. Left
  <2>1. Rendition => Left
    BY Zenon DEF Rendition, Finish, Left
  <2>2. SaveState \/ RestoreState \/ Reinit => Left
    BY Zenon DEF SaveState, RestoreState, Reinit, Left
  <2> QED
    BY <2>1, <2>2, QuietIs, PutCharIs, Zenon
<1>3. history'.refreshed = history.refreshed
  <2>1. PICK t, p : Leave(t, p)
    BY <1>2 DEF Left
  <2>2. HistoryIs(history)
    BY DEF TermInv
  <2> QED
    BY <2>1, <2>2, HistoryLeft
<1>4. ctx # NULL /\ mode' = mode
  BY <1>2, ByteFinds DEF Left, TakeByte
<1> QED
  BY <1>1, <1>3, <1>4, SceneKept

(* What a flush leaves, whether it draws or not. *)
LEMMA FlushScene ==
  ASSUME TermInv, SceneInv, ctx # NULL, ~history.refreshed, ctx' = double_buffer_flush(ctx)
  PROVE  ShowsText(ctx') /\ Clear(ctx')
<1>1. PICK n, m : /\ n \in Nat /\ m \in Nat /\ ctx \in Context(n, m) /\ OnePer(ctx, history.refreshed)
  BY Found
<1>2. Clear(ctx)
  BY DEF SceneInv
<1>3. PICK r, w : r = history.refreshed /\ w = ctx'
  OBVIOUS
<1>4. ShowsText(w) /\ Clear(w)
  BY <1>1, <1>2, <1>3, FlushShows
<1> QED
  BY <1>3, <1>4

LEMMA EndScene ==
  ASSUME TermInv, SceneInv, ctx # NULL, ctx' \in {double_buffer_flush(ctx), ctx}, history' = history
  PROVE  SceneInv'
<1>1. CASE ctx' = ctx
  BY <1>1, SceneRests
<1>2. CASE ctx' = double_buffer_flush(ctx)
  <2>1. ~history'.refreshed => Clear(ctx')
    BY <1>2, FlushScene
  <2> QED
    BY <2>1, Zenon DEF SceneInv, Clear, AtOld
<1> QED
  BY <1>1, <1>2

LEMMA RefreshScene == TermInv /\ SceneInv /\ flanterm_full_refresh => SceneInv'
<1> SUFFICES ASSUME TermInv, flanterm_full_refresh PROVE SceneInv'
  OBVIOUS
<1>1. ctx # NULL /\ ctx' = full_refresh(ctx)
  BY DEF flanterm_full_refresh, Change, Call
<1>2. PICK n, m : /\ n \in Nat /\ m \in Nat /\ ctx \in Context(n, m) /\ OnePer(ctx, history.refreshed)
  BY <1>1, Found
<1>3. RefreshedAs
  BY RefreshKeeps
<1>4. PICK r, v : r = history.refreshed /\ v = ctx'
  OBVIOUS
<1>5. ASSUME ~history'.refreshed PROVE Clear(v)
  <2>1. ctx.cursor_x = ctx.old_cursor_x /\ ctx.cursor_y = ctx.old_cursor_y
    BY <1>3, <1>5 DEF RefreshedAs
  <2> QED
    BY <1>1, <1>2, <1>4, <2>1, RefreshShows
<1>6. ~history'.refreshed => Clear(ctx')
  BY <1>4, <1>5
<1> QED
  BY <1>6, Zenon DEF SceneInv, Clear, AtOld

LEMMA NextScene == TermInv /\ SceneInv /\ [Next]_vars => SceneInv'
<1> SUFFICES ASSUME TermInv, SceneInv, [Next]_vars PROVE SceneInv'
  OBVIOUS
<1>1. ASSUME NEW new \in Modes, framebuffer_early_init(new) PROVE SceneInv'
  <2>1. ctx' = flanterm_fb_init(new)
    BY <1>1 DEF framebuffer_early_init
  <2>2. CASE ctx' = NULL
    BY <2>2, Zenon DEF SceneInv
  <2>3. CASE ctx' # NULL
    <3>1. PICK n, m : n = cols(new) /\ m = rows(new)
      OBVIOUS
    <3>2. n \in Nat /\ m \in Nat
      BY <1>1, <3>1, SizeIs
    <3>3. PICK t : t = full_refresh(flanterm_context_reinit(Zeroed(n, m)))
      OBVIOUS
    <3>4. ctx' = t
      BY <2>1, <2>3, <3>1, <3>3 DEF flanterm_fb_init
    <3>5. FirstAs(t, n, m, history.refreshed)
      BY <3>2, <3>3, FirstIs
    <3>6. Clear(ctx')
      BY <3>4, <3>5 DEF FirstAs
    <3> QED
      BY <3>6, Zenon DEF SceneInv, Clear, AtOld
  <2> QED
    BY <2>2, <2>3
<1>2. ASSUME NEW text \in Texts[turn], kprintf(text) PROVE SceneInv'
  <2>1. ctx' = ctx /\ history'.refreshed = history.refreshed
    BY <1>2, KprintfKeeps DEF kprintf
  <2> QED
    BY <2>1, SceneRests
<1>3. ASSUME NEW on \in BOOLEAN, flanterm_set_autoflush(on) \/ flanterm_set_oob_output(on) PROVE SceneInv'
  <2>1. TermInv' /\ SceneStays
    BY <1>3, FlagKeeps DEF Kept
  <2>2. ctx # NULL /\ mode' = mode /\ history' = history
    BY <1>3 DEF flanterm_set_autoflush, flanterm_set_oob_output, Change, Call
  <2> QED
    BY <2>1, <2>2, SceneKept
<1>4. ASSUME EndWrite PROVE SceneInv'
  <2>1. ctx # NULL /\ history' = history /\ ctx' \in {double_buffer_flush(ctx), ctx}
    BY <1>4 DEF EndWrite, Flushed, TermInv
  <2> QED
    BY <2>1, EndScene
<1>5. ASSUME flanterm_flush PROVE SceneInv'
  <2>1. ctx # NULL /\ history' = history /\ ctx' \in {double_buffer_flush(ctx), ctx}
    BY <1>5 DEF flanterm_flush, Change, Call
  <2> QED
    BY <2>1, EndScene
<1>6. ASSUME Preempt PROVE SceneInv'
  <2>1. ctx' = ctx /\ history'.refreshed = history.refreshed
    BY <1>6, PreemptKeeps DEF Preempt
  <2> QED
    BY <2>1, SceneRests
<1>7. ASSUME UNCHANGED vars PROVE SceneInv'
  <2>1. ctx' = ctx /\ history' = history
    BY <1>7 DEF vars
  <2> QED
    BY <2>1, SceneRests
<1> QED
  BY <1>1, <1>2, <1>3, <1>4, <1>5, <1>6, <1>7, ByteScene, RefreshScene, Zenon DEF Next

(* Only the end of a kprintf takes the thread that runs out of busy. *)
LEMMA OnlyEndWrite == Next /\ turn \in busy /\ busy' # busy => EndWrite
<1> SUFFICES ASSUME Next, turn \in busy, busy' # busy PROVE EndWrite
  OBVIOUS
<1>1. ~(\E new \in Modes : framebuffer_early_init(new))
  BY DEF framebuffer_early_init
<1>2. ~(\E text \in Texts[turn] : kprintf(text))
  BY DEF kprintf, Call
<1>3. ~PutChar
  <2>1. PutChar => TakeByte
    <3>1. Rendition \/ SaveState \/ RestoreState \/ Reinit => TakeByte
      BY Zenon DEF Rendition, Finish, SaveState, RestoreState, Reinit
    <3> QED
      BY <3>1, QuietIs, PutCharIs, Zenon DEF Left
  <2> QED
    BY <2>1 DEF TakeByte
<1>4. ~Preempt
  BY DEF Preempt
<1>5. ~flanterm_flush /\ ~flanterm_full_refresh
  BY Zenon DEF flanterm_flush, flanterm_full_refresh, Change
<1>6. ~(\E on \in BOOLEAN : flanterm_set_autoflush(on) \/ flanterm_set_oob_output(on))
  BY Zenon DEF flanterm_set_autoflush, flanterm_set_oob_output, Change
<1> QED
  BY <1>1, <1>2, <1>3, <1>4, <1>5, <1>6, Zenon DEF Next

LEMMA FlushesShow == TermInv /\ SceneInv /\ Next /\ Flushes /\ ~history.refreshed => ShowsText(ctx')
<1> SUFFICES ASSUME TermInv, SceneInv, Next, Flushes, ~history.refreshed PROVE ShowsText(ctx')
  OBVIOUS
<1>1. ctx # NULL /\ ctx' = double_buffer_flush(ctx)
  <2>1. CASE flanterm_flush
    BY <2>1 DEF flanterm_flush, Change, Call
  <2>2. CASE turn \in busy /\ busy' # busy /\ ctx.autoflush
    <3>1. EndWrite
      BY <2>2, OnlyEndWrite
    <3> QED
      BY <2>2, <3>1 DEF EndWrite, Flushed, TermInv
  <2> QED
    BY <2>1, <2>2 DEF Flushes
<1> QED
  BY <1>1, FlushScene

(* After a flush the screen shows the text, with the cell of the cursor    *)
(* reversed, and no item waits, unless a refresh has drawn over items that *)
(* waited or over an old cursor (ScreenShowsText of Flanterm).             *)
THEOREM ScreenIsShown == Spec => ScreenShowsText
<1>1. Init => TermInv /\ SceneInv
  <2>1. Init => SceneInv
    BY DEF Init, SceneInv
  <2> QED
    BY <2>1, InitTerm
<1>2. (TermInv /\ SceneInv) /\ [Next]_vars => (TermInv /\ SceneInv)'
  BY NextTerm, NextScene
<1>3. (TermInv /\ SceneInv) /\ [Next]_vars => [Flushes /\ ~history.refreshed => ShowsText(ctx')]_vars
  BY FlushesShow
<1> QED
  BY <1>1, <1>2, <1>3, PTL DEF Spec, ScreenShowsText

----------------------------------------------------------------------------
(* What log lines leave. *)

(* A place in a log line: the next byte is the k-th.  It is between two    *)
(* sequences, and whether a reset lies ahead.                              *)
Between(text, k) == \A j, e \in DOMAIN text : Sequence(text, j, e) => ~(j < k /\ k <= e)
Ahead(text, k) == \E j, e \in DOMAIN text : Resets(text, j, e) /\ k <= e
Rest(s, text, k) ==
  /\ s \in Seq(0 .. 127) /\ k \in Nat \ {0} /\ Len(s) + k = Len(text) + 1
  /\ \A i \in 1 .. Len(s) : s[i] = text[i + (k - 1)]

(* The parser q at that place: in a sequence it collects the values, and   *)
(* in a reset it has none or a zero.                                       *)
Opened(q) ==
  /\ q.escape = TRUE /\ q.osc = FALSE /\ q.discard_next = FALSE /\ q.unicode_remaining = 0 /\ q.dec_private = FALSE
Escaped(q) == Opened(q) /\ q.control_sequence = FALSE
Collects(q) == Opened(q) /\ q.control_sequence = TRUE /\ q.csi_unhandled = FALSE
Begins(q) == q.esc_values_i = 0 /\ q.rrr = FALSE /\ q.esc_values[0] = 0
Zeros(q) == q.esc_values_i = 0 /\ q.rrr = TRUE /\ q.esc_values[0] = 0
ParserAt(q, text, k) ==
  \/ Between(text, k) /\ q = Ground
  \/ \E j, e \in DOMAIN text : Sequence(text, j, e) /\ k = j + 1 /\ Escaped(q)
  \/ \E j, e \in DOMAIN text :
       /\ Sequence(text, j, e) /\ j + 2 <= k /\ k <= e /\ Collects(q)
       /\ k = j + 2 => Begins(q)
       /\ k = j + 3 /\ text[j + 2] = 48 => Zeros(q)
Uncoloured(t) == t.text_fg = default_fg /\ t.text_bg = TRANSPARENT

(* Every write of a log line is at a place in it: those that do not have   *)
(* the CPU between two sequences.  Colours are set only while one of them  *)
(* has a reset ahead.                                                      *)
Writing(line, place, in, bs, p, q, t) ==
  /\ \A r \in bs : line[r] \in LogLines /\ Rest(in[r], line[r], place[r])
  /\ \A r \in bs \ {p} : Between(line[r], place[r])
  /\ \A r \in Threads \ bs : in[r] = <<>>
  /\ p \in bs => ParserAt(q, line[p], place[p])
  /\ p \notin bs => q = Ground
  /\ t # NULL => Uncoloured(t) \/ \E r \in bs : Ahead(line[r], place[r])
LogInv ==
  /\ input = [p \in Threads |-> input[p]] /\ busy \subseteq Threads
  /\ history.plain /\ ~history.torn =>
       \E line \in [Threads -> LogLines \cup {<<>>}], place \in [Threads -> Nat] :
         Writing(line, place, input, busy, turn, parser, ctx)


(* Sequences lie apart: none begins within another. *)
LEMMA SequencesApart ==
  ASSUME NEW text, LogLine(text), NEW j \in DOMAIN text, NEW e \in DOMAIN text, Sequence(text, j, e),
         NEW i \in DOMAIN text, NEW f \in DOMAIN text, Sequence(text, i, f), i < e, j < f
  PROVE  i = j /\ f = e
<1>0. j \in Nat /\ e \in Nat /\ i \in Nat /\ f \in Nat
  BY DEF LogLine
<1>1. /\ j + 1 < e /\ text[j] = 27 /\ text[j + 1] = 91 /\ text[e] = 109
      /\ \A k \in j + 2 .. e - 1 : text[k] \in (48 .. 57) \cup {59}
      /\ i + 1 < f /\ text[i] = 27 /\ text[i + 1] = 91 /\ text[f] = 109
      /\ \A k \in i + 2 .. f - 1 : text[k] \in (48 .. 57) \cup {59}
  BY DEF Sequence
<1>2. i = j
  <2>1. ~(j < i)
    <3> SUFFICES ASSUME j < i PROVE FALSE
      OBVIOUS
    <3>1. i = j + 1 \/ i \in j + 2 .. e - 1
      BY <1>0
    <3> QED
      BY <1>1, <3>1
  <2>2. ~(i < j)
    <3> SUFFICES ASSUME i < j PROVE FALSE
      OBVIOUS
    <3>1. j = i + 1 \/ j \in i + 2 .. f - 1
      BY <1>0
    <3> QED
      BY <1>1, <3>1
  <2> QED
    BY <1>0, <2>1, <2>2
<1>3. ~(f < e) /\ ~(e < f)
  <2>1. f < e => f \in j + 2 .. e - 1
    BY <1>0, <1>1, <1>2
  <2>2. e < f => e \in i + 2 .. f - 1
    BY <1>0, <1>1, <1>2
  <2> QED
    BY <1>1, <2>1, <2>2
<1> QED
  BY <1>0, <1>2, <1>3

(* The next place. *)
LEMMA BetweenOn ==
  ASSUME NEW text, LogLine(text), NEW k \in DOMAIN text, Between(text, k), text[k] # 27
  PROVE  Between(text, k + 1) /\ (Ahead(text, k) => Ahead(text, k + 1))
<1>0. DOMAIN text \subseteq Nat /\ k \in Nat
  BY DEF LogLine
<1>1. Between(text, k + 1)
  <2> SUFFICES ASSUME NEW j \in DOMAIN text, NEW e \in DOMAIN text, Sequence(text, j, e), j < k + 1, k + 1 <= e
               PROVE  FALSE
    BY DEF Between
  <2>1. j # k
    BY DEF Sequence
  <2>2. j < k /\ k <= e
    BY <1>0, <2>1
  <2> QED
    BY <2>2 DEF Between
<1>2. ASSUME NEW j \in DOMAIN text, NEW e \in DOMAIN text, Resets(text, j, e), k <= e PROVE k + 1 <= e
  <2>1. Sequence(text, j, e)
    BY <1>2 DEF Resets
  <2>2. ~(j < k)
    BY <1>2, <2>1 DEF Between
  <2>3. j + 1 < e
    BY <2>1 DEF Sequence
  <2> QED
    BY <1>0, <2>2, <2>3
<1> QED
  BY <1>1, <1>2 DEF Ahead

LEMMA AheadOn ==
  ASSUME NEW text, LogLine(text), NEW k \in DOMAIN text, text[k] # 109
  PROVE  Ahead(text, k) => Ahead(text, k + 1)
<1> SUFFICES ASSUME NEW j \in DOMAIN text, NEW e \in DOMAIN text, Resets(text, j, e), k <= e PROVE k + 1 <= e
  BY DEF Ahead
<1>0. DOMAIN text \subseteq Nat
  BY DEF LogLine
<1>1. text[e] = 109 /\ k \in Nat /\ e \in Nat
  BY <1>0 DEF Resets, Sequence
<1> QED
  BY <1>1

(* Behind a sequence. *)
LEMMA BehindIs ==
  ASSUME NEW text, LogLine(text), NEW j \in DOMAIN text, NEW e \in DOMAIN text, Sequence(text, j, e)
  PROVE  Between(text, e + 1) /\ (Resets(text, j, e) \/ Ahead(text, e + 1))
<1>0. DOMAIN text \subseteq Nat
  BY DEF LogLine
<1>1. j + 1 < e /\ text[j] = 27
  BY DEF Sequence
<1>2. Between(text, e + 1)
  <2> SUFFICES ASSUME NEW i \in DOMAIN text, NEW f \in DOMAIN text, Sequence(text, i, f), i < e + 1, e + 1 <= f
               PROVE  FALSE
    BY DEF Between
  <2>1. i # e
    BY DEF Sequence
  <2>2. i < e /\ j < f /\ f # e
    BY <1>0, <1>1, <2>1
  <2> QED
    BY <2>2, SequencesApart
<1>3. PICK i \in DOMAIN text, f \in DOMAIN text : i >= j /\ Resets(text, i, f)
  BY <1>1 DEF LogLine
<1>4. Sequence(text, i, f) /\ i + 1 < f
  BY <1>3 DEF Resets, Sequence
<1>5. CASE i < e
  <2>1. j < f
    BY <1>0, <1>3, <1>4
  <2>2. i = j /\ f = e
    BY <1>4, <1>5, <2>1, SequencesApart
  <2> QED
    BY <1>2, <1>3, <2>2
<1>6. CASE ~(i < e)
  <2>1. e + 1 <= f
    BY <1>0, <1>4, <1>6
  <2> QED
    BY <1>2, <1>3, <2>1 DEF Ahead
<1> QED
  BY <1>5, <1>6

(* The first place and the last. *)
LEMMA EndsAre ==
  ASSUME NEW text, LogLine(text)
  PROVE  /\ Between(text, 1) /\ Rest(text, text, 1)
         /\ \A q, k : Rest(<<>>, text, k) /\ ParserAt(q, text, k) => q = Ground /\ ~Ahead(text, k)
<1>0. text \in Seq(0 .. 127) /\ DOMAIN text = 1 .. Len(text) /\ Len(text) \in Nat
  BY DEF LogLine
<1>1. Between(text, 1)
  BY <1>0 DEF Between
<1>2. Rest(text, text, 1)
  BY <1>0 DEF Rest
<1>3. ASSUME NEW q, NEW k, Rest(<<>>, text, k), ParserAt(q, text, k) PROVE q = Ground /\ ~Ahead(text, k)
  <2>1. k = Len(text) + 1
    BY <1>0, <1>3 DEF Rest
  <2>2. \A e \in DOMAIN text : ~(k <= e)
    BY <1>0, <2>1
  <2>3. ~Ahead(text, k)
    BY <2>2 DEF Ahead
  <2>4. \A j, e \in DOMAIN text : Sequence(text, j, e) => k # j + 1
    BY <1>0, <2>1 DEF Sequence
  <2> QED
    BY <1>3, <2>2, <2>3, <2>4 DEF ParserAt
<1> QED
  BY <1>1, <1>2, <1>3

LEMMA RestOn ==
  ASSUME NEW s, NEW text, LogLine(text), NEW k, Rest(s, text, k), s # <<>>
  PROVE  /\ k \in DOMAIN text /\ k \in Nat /\ Head(s) = text[k] /\ Head(s) \in 0 .. 127
         /\ Rest(Tail(s), text, k + 1)
<1>0. text \in Seq(0 .. 127) /\ s \in Seq(0 .. 127) /\ k \in Nat \ {0} /\ Len(s) + k = Len(text) + 1
  BY DEF Rest, LogLine
<1>1. Len(s) \in Nat /\ Len(s) > 0 /\ Len(text) \in Nat /\ DOMAIN text = 1 .. Len(text)
  BY <1>0
<1>2. Head(s) = s[1] /\ s[1] \in 0 .. 127 /\ 1 \in 1 .. Len(s)
  <2>1. 1 \in 1 .. Len(s)
    BY <1>1
  <2>2. \A i \in 1 .. Len(s) : s[i] \in 0 .. 127
    <3>1. PICK B : B = 0 .. 127
      OBVIOUS
    <3>2. s \in Seq(B)
      BY <1>0, <3>1
    <3>3. \A i \in 1 .. Len(s) : s[i] \in B
      BY ONLY <3>2
    <3> QED
      BY <3>1, <3>3
  <2> QED
    BY <1>0, <2>1, <2>2
<1>3. k \in DOMAIN text /\ s[1] = text[1 + (k - 1)] /\ 1 + (k - 1) = k
  BY <1>0, <1>1, <1>2 DEF Rest
<1>4. /\ Tail(s) \in Seq(0 .. 127) /\ Len(Tail(s)) = Len(s) - 1
      /\ \A i \in 1 .. Len(s) - 1 : Tail(s)[i] = s[i + 1]
  BY <1>0, <1>1
<1>5. \A i \in 1 .. Len(Tail(s)) : Tail(s)[i] = text[i + ((k + 1) - 1)]
  <2> SUFFICES ASSUME NEW i \in 1 .. Len(Tail(s)) PROVE Tail(s)[i] = text[i + ((k + 1) - 1)]
    OBVIOUS
  <2>1. i \in 1 .. Len(s) - 1 /\ i + 1 \in 1 .. Len(s)
    BY <1>1, <1>4
  <2>2. s[i + 1] = text[(i + 1) + (k - 1)]
    BY <2>1 DEF Rest
  <2>3. (i + 1) + (k - 1) = i + ((k + 1) - 1)
    BY <1>0, <2>1
  <2> QED
    BY <1>4, <2>1, <2>2, <2>3
<1>6. Len(Tail(s)) + (k + 1) = Len(text) + 1 /\ k + 1 \in Nat \ {0}
  <2>1. k \in Nat \ {0} /\ Len(s) + k = Len(text) + 1 /\ Len(Tail(s)) = Len(s) - 1
    BY <1>0, <1>4
  <2>2. PICK a, b, l : a = Len(s) /\ b = Len(Tail(s)) /\ l = Len(text) /\ a \in Nat /\ l \in Nat
    BY <1>1
  <2>3. a + k = l + 1 /\ b = a - 1 /\ k \in Nat \ {0}
    BY ONLY <2>1, <2>2
  <2>4. a \in Int /\ l \in Int /\ k \in Int /\ b = a - 1 /\ a + k = l + 1 /\ k > 0
    BY ONLY <2>2, <2>3
  <2>5. b + (k + 1) = l + 1 /\ k + 1 \in Nat /\ k + 1 # 0
    BY ONLY <2>4
  <2> QED
    BY <2>2, <2>5
<1> QED
  BY <1>0, <1>2, <1>3, <1>4, <1>5, <1>6 DEF Rest


----------------------------------------------------------------------------
(* The way of the bytes of a log line through flanterm_putchar. *)

(* What each way is taken by. *)
LEMMA WaysAre ==
  /\ Cancel => Cancels
  /\ Lead => Leads
  /\ Continuation => Continues
  /\ OscByte => InOsc
  /\ BeginOsc \/ SelectSet \/ OtherCode \/ SaveState \/ RestoreState \/ Reinit \/ Down \/ Up => Code /\ c # 91
  /\ BeginCsi => Code
  /\ BadCsi => InCsi /\ c = 91
  /\ Parameter => InCsi /\ IsParameter
  /\ DecPrivate => Final /\ parser.dec_private
  /\ Skip => Skips
  /\ Moves \/ Erases => Final /\ c # 109
  /\ Rendition => Final
  /\ Charset => Single /\ ~parser.escape /\ parser.g_select # 0
  /\ Escape => Plain /\ c = 27
  /\ Ignored \/ Tab \/ LineFeed \/ Backspace \/ CarriageReturn \/ Shift \/ Printed => Plain /\ c # 27
<1>1. /\ Lead => Leads
      /\ Continuation => Continues
      /\ OscByte => InOsc
      /\ BeginCsi => Code
      /\ BadCsi => InCsi /\ c = 91
      /\ Parameter => InCsi /\ IsParameter
      /\ DecPrivate => Final /\ parser.dec_private
      /\ Skip => Skips
      /\ Rendition => Final
      /\ Charset => Single /\ ~parser.escape /\ parser.g_select # 0
  BY Zenon DEF Lead, Continuation, OscByte, BeginCsi, BadCsi, Parameter, DecPrivate, Skip, Rendition, Finish,
               Runs, Charset
<1>2. Moves \/ Erases => Final /\ c # 109
  BY MovesQuiet, ErasesQuiet, Zenon
<1>3. /\ BeginOsc => Code /\ c = 93
      /\ SelectSet => Code /\ c \in {40, 41}
      /\ OtherCode => Code /\ c \notin {93, 91, 55, 56, 99, 68, 69, 77, 40, 41}
      /\ SaveState => Code /\ c = 55
      /\ RestoreState => Code /\ c = 56
      /\ Reinit => Code /\ c = 99
      /\ Down => Code /\ c \in {68, 69}
      /\ Up => Code /\ c = 77
      /\ Cancel => Cancels
      /\ Escape => Plain /\ c = 27
      /\ Ignored => Plain /\ c \in {0, 127, 7}
      /\ Tab => Plain /\ c = 9
      /\ LineFeed => Plain /\ c \in 10 .. 12
      /\ Backspace => Plain /\ c = 8
      /\ CarriageReturn => Plain /\ c = 13
      /\ Shift => Plain /\ c \in {14, 15}
      /\ Printed => Plain /\ c \notin (7 .. 15) \cup {0, 27, 127}
  BY Zenon DEF BeginOsc, SelectSet, OtherCode, SaveState, RestoreState, Reinit, Down, Up, Cancel, Escape,
               Ignored, Tab, LineFeed, Backspace, CarriageReturn, Shift, Printed, ESC
<1>4. /\ c = 93 \/ c \in {40, 41} \/ c \notin {93, 91, 55, 56, 99, 68, 69, 77, 40, 41} \/ c = 55 \/ c = 56
         \/ c = 99 \/ c \in {68, 69} \/ c = 77 => c # 91
      /\ c \in {0, 127, 7} \/ c = 9 \/ c \in 10 .. 12 \/ c = 8 \/ c = 13 \/ c \in {14, 15}
         \/ c \notin (7 .. 15) \cup {0, 27, 127} => c # 27
  OBVIOUS
<1> QED
  BY <1>1, <1>2, <1>3, <1>4, Zenon

(* Which they exclude each other from. *)
LEMMA WaysApart ==
  /\ Plain => Single /\ ~parser.escape
  /\ InOsc => Single /\ parser.escape /\ parser.osc
  /\ Code => Single /\ parser.escape /\ ~parser.control_sequence
  /\ InCsi => Single /\ parser.escape /\ parser.control_sequence
  /\ Final => InCsi /\ ~IsParameter
  /\ Skips => Final /\ (parser.csi_unhandled \/ c # 109)
  /\ Single => ~Cancels /\ ~Continues /\ ~Leads
  /\ Continues => parser.unicode_remaining # 0
  /\ Leads => ~Cancels /\ c \in 192 .. 247
<1>1. 109 \in Commands
  BY DEF Commands
<1> QED
  BY <1>1, Zenon DEF Plain, InOsc, Code, InCsi, InEscape, Final, Skips, Single, Decoded, Leads, Continues

LEMMA AsciiIs == c \in 0 .. 127 => ~(c \in 192 .. 247)
OBVIOUS

LEMMA AtGround ==
  ASSUME PutChar, parser.unicode_remaining = 0, ~parser.escape, parser.g_select = 0, c \in 0 .. 127
  PROVE  Cancel \/ Escape \/ Ignored \/ Tab \/ LineFeed \/ Backspace \/ CarriageReturn \/ Shift \/ Printed
BY WaysAre, WaysApart, AsciiIs, Zenon DEF PutChar, Moves, Erases

LEMMA AtEscape ==
  ASSUME PutChar, parser.unicode_remaining = 0, ~parser.discard_next, parser.escape, ~parser.osc,
         ~parser.control_sequence, c = 91
  PROVE  BeginCsi
<1>1. ~Cancels /\ ~Leads
  BY DEF Cancels, Leads
<1> QED
  BY <1>1, WaysAre, WaysApart, Zenon DEF PutChar, Moves, Erases

LEMMA AtParameter ==
  ASSUME PutChar, parser.unicode_remaining = 0, ~parser.discard_next, parser.escape, ~parser.osc,
         parser.control_sequence, c \in (48 .. 57) \cup {59}
  PROVE  Parameter
<1>1. ~Cancels /\ ~Leads /\ IsParameter /\ c # 91
  BY DEF Cancels, Leads, IsParameter, IsDigit
<1> QED
  BY <1>1, WaysAre, WaysApart, Zenon DEF PutChar, Moves, Erases

LEMMA AtFinal ==
  ASSUME PutChar, parser.unicode_remaining = 0, ~parser.discard_next, parser.escape, ~parser.osc,
         parser.control_sequence, ~parser.dec_private, ~parser.csi_unhandled, c = 109
  PROVE  Rendition
<1>1. ~Cancels /\ ~Leads /\ ~IsParameter /\ c # 91
  BY DEF Cancels, Leads, IsParameter, IsDigit
<1> QED
  BY <1>1, WaysAre, WaysApart, Zenon DEF PutChar, Moves, Erases


----------------------------------------------------------------------------
(* The parser from place to place. *)

LEMMA SameAgain ==
  ASSUME NEW D, NEW f, f = [x \in D |-> f[x]], NEW i \in D
  PROVE  [f EXCEPT ![i] = f[i]] = f
OBVIOUS

LEMMA GroundPlain ==
  /\ Ground.escape = FALSE /\ Ground.unicode_remaining = 0 /\ Ground.code_point = 0 /\ Ground.g_select = 0
  /\ Ground.dec_private = FALSE
  /\ Ground.discard_next = FALSE /\ Ground.osc = FALSE /\ Ground.control_sequence = FALSE
  /\ [Ground EXCEPT !.dec_private = FALSE] = Ground
  /\ [Ground EXCEPT !.unicode_remaining = 0, !.code_point = 0] = Ground
<1>1. PICK none : none = [k \in Values |-> 0]
  OBVIOUS
<1>2. PICK p : p = Ground
  OBVIOUS
<1>3. p = [escape |-> FALSE, control_sequence |-> FALSE, osc |-> FALSE, osc_escape |-> FALSE,
           discard_next |-> FALSE, csi_unhandled |-> FALSE, dec_private |-> FALSE, rrr |-> FALSE,
           escape_offset |-> 0, esc_values |-> none, esc_values_i |-> 0,
           unicode_remaining |-> 0, code_point |-> 0, g_select |-> 0]
  BY <1>1, <1>2 DEF Ground
<1>4. /\ p.escape = FALSE /\ p.unicode_remaining = 0 /\ p.code_point = 0 /\ p.g_select = 0
      /\ p.dec_private = FALSE
      /\ p.discard_next = FALSE /\ p.osc = FALSE /\ p.control_sequence = FALSE
  BY ONLY <1>3
<1>5. p = [f \in Parts |-> p[f]]
  BY ONLY <1>3 DEF Parts
<1>6. "dec_private" \in Parts /\ "unicode_remaining" \in Parts /\ "code_point" \in Parts
  BY DEF Parts
<1>7. [p EXCEPT !.dec_private = FALSE] = p
  BY <1>4, <1>5, <1>6, SameAgain
<1>8. [p EXCEPT !.unicode_remaining = 0, !.code_point = 0] = p
  <2>1. [p EXCEPT !.unicode_remaining = 0] = p
    BY <1>4, <1>5, <1>6, SameAgain
  <2>2. [p EXCEPT !.code_point = 0] = p
    BY <1>4, <1>5, <1>6, SameAgain
  <2>3. [p EXCEPT !.unicode_remaining = 0, !.code_point = 0] = [[p EXCEPT !.unicode_remaining = 0] EXCEPT !.code_point = 0]
    OBVIOUS
  <2> QED
    BY <2>1, <2>2, <2>3
<1> QED
  BY <1>2, <1>4, <1>7, <1>8

(* Between sequences. *)
LEMMA TextByte ==
  ASSUME TermInv, PutChar, parser = Ground, c \in 0 .. 127, c # 27
  PROVE  Kept /\ parser' = Ground
<1>1. /\ parser.escape = FALSE /\ parser.unicode_remaining = 0 /\ parser.g_select = 0
      /\ parser.dec_private = FALSE
  BY GroundPlain
<1>2. Cancel \/ Escape \/ Ignored \/ Tab \/ LineFeed \/ Backspace \/ CarriageReturn \/ Shift \/ Printed
  BY <1>1, AtGround
<1>3. ~Escape
  BY WaysAre
<1>4. Kept
  BY <1>2, <1>3, QuietKeeps, Zenon DEF Types, Parses, Sets
<1>5. parser' = Ended \/ parser' = Fresh
  BY <1>2, <1>3, Zenon DEF Cancel, Ignored, Tab, LineFeed, Backspace, CarriageReturn, Shift, Printed, Leave
<1>6. Ended = Ground /\ Fresh = Ground
  BY <1>1, GroundPlain DEF Ended, Fresh
<1> QED
  BY <1>4, <1>5, <1>6

LEMMA EscByte ==
  ASSUME TermInv, PutChar, parser = Ground, c = 27
  PROVE  Kept /\ Escaped(parser')
<1>1. /\ parser.escape = FALSE /\ parser.unicode_remaining = 0 /\ parser.g_select = 0
      /\ parser.discard_next = FALSE /\ c \in 0 .. 127
  BY GroundPlain
<1>2. Cancel \/ Escape \/ Ignored \/ Tab \/ LineFeed \/ Backspace \/ CarriageReturn \/ Shift \/ Printed
  BY <1>1, AtGround
<1>3. ~Cancels
  BY <1>1 DEF Cancels
<1>4. Escape
  BY <1>2, <1>3, WaysAre, Zenon
<1>5. Kept
  BY <1>4, EscapeKeeps
<1>6. parser' = [Fresh EXCEPT !.escape_offset = 0, !.escape = TRUE]
  BY <1>4, Zenon DEF Escape, Leave
<1>7. Fresh = parser
  BY GroundPlain DEF Fresh
<1>8. Escaped(parser')
  <2>1. PICK q, p : q = parser' /\ p = parser
    OBVIOUS
  <2>2. q = [p EXCEPT !.escape_offset = 0, !.escape = TRUE] /\ p = Ground
    BY <1>6, <1>7, <2>1
  <2>3. DOMAIN p = Parts
    BY <2>2, GroundIs DEF ParserIs
  <2>4. /\ p.osc = FALSE /\ p.discard_next = FALSE /\ p.unicode_remaining = 0 /\ p.dec_private = FALSE
        /\ p.control_sequence = FALSE
    BY <2>2, GroundPlain
  <2>5. /\ q.escape = TRUE /\ q.osc = FALSE /\ q.discard_next = FALSE /\ q.unicode_remaining = 0
        /\ q.dec_private = FALSE /\ q.control_sequence = FALSE
    BY ONLY <2>2, <2>3, <2>4 DEF Parts
  <2>6. Escaped(q)
    BY <2>5 DEF Escaped, Opened
  <2> QED
    BY <2>1, <2>6
<1> QED
  BY <1>5, <1>8

(* What a byte in an escape sequence starts from. *)
LEMMA NoOscIs ==
  ASSUME TermInv, Opened(parser)
  PROVE  /\ Opened(NoOsc) /\ SameValues(parser, NoOsc) /\ DOMAIN NoOsc = Parts
         /\ NoOsc.control_sequence = parser.control_sequence /\ NoOsc.csi_unhandled = parser.csi_unhandled
<1>1. ParserIs(parser) /\ SameValues(parser, NoOsc) /\ ParserIs(NoOsc)
  BY FreshIs DEF TermInv
<1>2. PICK p, q : p = parser /\ q = NoOsc
  OBVIOUS
<1>3. PICK offset : offset = IF Fresh.escape_offset < 3 THEN Fresh.escape_offset + 1 ELSE Fresh.escape_offset
  OBVIOUS
<1>4. PICK r, s : r = Fresh /\ s = Counted
  OBVIOUS
<1>5. /\ r = [p EXCEPT !.unicode_remaining = 0, !.code_point = 0] /\ s = [r EXCEPT !.escape_offset = offset]
      /\ q = [s EXCEPT !.osc = FALSE, !.osc_escape = FALSE] /\ DOMAIN p = Parts
  BY <1>1, <1>2, <1>3, <1>4 DEF Fresh, Counted, NoOsc, ParserIs
<1>6. /\ q.escape = p.escape /\ q.osc = FALSE /\ q.discard_next = p.discard_next /\ q.unicode_remaining = 0
      /\ q.dec_private = p.dec_private /\ q.control_sequence = p.control_sequence
      /\ q.csi_unhandled = p.csi_unhandled
  BY ONLY <1>5 DEF Parts
<1> QED
  BY <1>1, <1>2, <1>6 DEF Opened, ParserIs

LEMMA CsiByte ==
  ASSUME TermInv, PutChar, Escaped(parser), c = 91
  PROVE  Kept /\ Collects(parser') /\ Begins(parser')
<1>1. BeginCsi
  BY AtEscape, Zenon DEF Escaped, Opened
<1>2. Kept
  BY <1>1, BeginCsiKeeps
<1>3. PICK none : none = [k \in Values |-> 0]
  OBVIOUS
<1>4. PICK p, q : p = NoOsc /\ q = parser'
  OBVIOUS
<1>5. q = [p EXCEPT !.control_sequence = TRUE, !.esc_values_i = 0, !.rrr = FALSE,
                    !.csi_unhandled = FALSE, !.esc_values = none]
  BY <1>1, <1>3, <1>4, Zenon DEF BeginCsi, Leave
<1>6. Opened(p) /\ DOMAIN p = Parts
  BY <1>4, NoOscIs DEF Escaped
<1>7. /\ q.escape = p.escape /\ q.osc = p.osc /\ q.discard_next = p.discard_next
      /\ q.unicode_remaining = p.unicode_remaining /\ q.dec_private = p.dec_private
      /\ q.control_sequence = TRUE /\ q.csi_unhandled = FALSE
      /\ q.esc_values_i = 0 /\ q.rrr = FALSE /\ q.esc_values = none
  BY ONLY <1>5, <1>6 DEF Parts
<1>8. none[0] = 0
  BY <1>3, MaxValues
<1>9. Collects(q) /\ Begins(q)
  BY <1>6, <1>7, <1>8 DEF Opened, Collects, Begins
<1> QED
  BY <1>2, <1>4, <1>9


LEMMA ParameterByte ==
  ASSUME TermInv, PutChar, Collects(parser), c \in (48 .. 57) \cup {59}
  PROVE  Kept /\ Collects(parser') /\ (Begins(parser) /\ c = 48 => Zeros(parser'))
<1>1. Parameter
  BY AtParameter, Zenon DEF Collects, Opened
<1>2. Kept
  BY <1>1, ParameterKeeps
<1>3. PICK p, q : p = NoOsc /\ q = parser'
  OBVIOUS
<1>4. /\ Opened(p) /\ DOMAIN p = Parts /\ p.control_sequence = TRUE /\ p.csi_unhandled = FALSE
      /\ SameValues(parser, p) /\ ParserIs(p)
  BY <1>3, NoOscIs, ParserHere DEF Collects
<1>5. PICK i, values : i = p.esc_values_i /\ values = p.esc_values
  OBVIOUS
<1>6. c # 63 /\ (c = 48 => IsDigit /\ c - 48 = 0)
  BY DEF IsDigit
<1>7. PICK v, w : v = 10 * values[i] + (c - 48) /\ w = i + 1
  OBVIOUS
<1>8. PICK written, zeroed : written = [values EXCEPT ![i] = v] /\ zeroed = [values EXCEPT ![i] = 0]
  OBVIOUS
<1>9. /\ \/ q = p
         \/ q = [p EXCEPT !.rrr = TRUE, !.esc_values = written]
         \/ q = [p EXCEPT !.rrr = FALSE, !.esc_values_i = w]
         \/ q = [p EXCEPT !.esc_values = zeroed, !.esc_values_i = w]
      /\ c = 48 /\ i # FLANTERM_MAX_ESC_VALUES => q = [p EXCEPT !.rrr = TRUE, !.esc_values = written]
  <2>1. q = IF SecondByte /\ c = 63 THEN [p EXCEPT !.dec_private = TRUE]
            ELSE IF IsDigit
            THEN IF i = FLANTERM_MAX_ESC_VALUES THEN p
                 ELSE [p EXCEPT !.rrr = TRUE, !.esc_values[i] = 10 * @ + (c - 48)]
            ELSE IF p.rrr THEN [p EXCEPT !.rrr = FALSE, !.esc_values_i = i + 1]
            ELSE IF i = FLANTERM_MAX_ESC_VALUES THEN p
                 ELSE [p EXCEPT !.esc_values[i] = 0, !.esc_values_i = i + 1]
    BY <1>1, <1>3, <1>5, Zenon DEF Parameter, Leave
  <2>2. [p EXCEPT !.rrr = TRUE, !.esc_values[i] = 10 * @ + (c - 48)] = [p EXCEPT !.rrr = TRUE, !.esc_values = written]
    BY <1>4, <1>5, <1>7, <1>8 DEF Parts
  <2>3. [p EXCEPT !.esc_values[i] = 0, !.esc_values_i = i + 1] = [p EXCEPT !.esc_values = zeroed, !.esc_values_i = w]
    BY <1>4, <1>5, <1>7, <1>8 DEF Parts
  <2> QED
    BY <1>6, <1>7, <2>1, <2>2, <2>3, Zenon
<1>10. Collects(q)
  <2>1. /\ q.escape = p.escape /\ q.osc = p.osc /\ q.discard_next = p.discard_next
        /\ q.unicode_remaining = p.unicode_remaining /\ q.dec_private = p.dec_private
        /\ q.control_sequence = p.control_sequence /\ q.csi_unhandled = p.csi_unhandled
    <3>1. DOMAIN p = Parts
      BY <1>4
    <3> QED
      BY ONLY <1>9, <3>1 DEF Parts
  <2> QED
    BY <1>4, <2>1 DEF Collects, Opened
<1>11. ASSUME Begins(parser), c = 48 PROVE Zeros(q)
  <2>1. p.esc_values_i = 0 /\ p.esc_values[0] = 0 /\ p.esc_values \in [Values -> Nat]
    BY <1>4, <1>11 DEF Begins, SameValues, ParserIs
  <2>2. i = 0 /\ i # FLANTERM_MAX_ESC_VALUES /\ 0 \in Values
    BY <1>5, <2>1, MaxValues
  <2>3. q = [p EXCEPT !.rrr = TRUE, !.esc_values = written]
    BY <1>9, <1>11, <2>2
  <2>4. q.rrr = TRUE /\ q.esc_values = written /\ q.esc_values_i = p.esc_values_i
    <3>1. DOMAIN p = Parts
      BY <1>4
    <3> QED
      BY ONLY <2>3, <3>1 DEF Parts
  <2>5. written[0] = 0
    <3>1. v = 0
      BY <1>5, <1>6, <1>7, <1>11, <2>1, <2>2
    <3> QED
      BY <1>5, <1>8, <2>1, <2>2, <3>1
  <2> QED
    BY <2>1, <2>4, <2>5 DEF Zeros
<1> QED
  BY <1>2, <1>3, <1>10, <1>11

(* Without values, or with a zero, a rendition resets. *)
LEMMA SgrResets ==
  ASSUME NEW n \in Nat, NEW m \in Nat, NEW t \in Context(n, m), NEW values \in [Values -> Nat],
         NEW N \in 0 .. 1, N = 1 => values[0] = 0
  PROVE  Uncoloured(sgr(t, values, N))
<1>1. N \in 0 .. FLANTERM_MAX_ESC_VALUES /\ Plainly(values, N)
  BY MaxValues DEF Plainly
<1>2. PICK g : Coding(t, values, N, g)
  BY <1>1, SgrCodes
<1>3. t \in Coloured(t)
  <2>1. t.cols = n /\ t.rows = m
    BY DEF Context
  <2>2. SameFrame(t, t)
    BY DEF SameFrame, SameCursor, SameScene
  <2> QED
    BY <2>1, <2>2 DEF Coloured
<1>4. g[N] = Reset(t) 
  <2>1. CASE N = 0
    BY <1>2, <2>1 DEF Coding
  <2>2. CASE N = 1
    <3>1. g[0] = t /\ g[1] = SgrCode(g[0], values[0])
      BY <1>2, <2>2 DEF Coding
    <3>2. SgrCode(t, 0) = Reset(t)
      <4>1. CodeAs(t, 0)
        BY CodeIs
      <4> QED
        BY <4>1, Zenon DEF CodeAs
    <3> QED
      BY <2>2, <3>1, <3>2
  <2> QED
    BY <2>1, <2>2
<1>5. Looks(Reset(t), default_fg, TRANSPARENT, FALSE, FALSE, FALSE, NONE, NONE)
  BY <1>3, ResetLooks
<1> QED
  BY <1>2, <1>4, <1>5 DEF Coding, Looks, Uncoloured

(* The values that a reset has when its last byte comes. *)
LEMMA FilledOf ==
  ASSUME TermInv, Opened(parser), NEW N \in 0 .. 1,
         N = 0 => Begins(parser), N = 1 => Zeros(parser)
  PROVE  Filled.esc_values_i = N /\ (N = 1 => Filled.esc_values[0] = 0)
<1>1. PICK p : p = NoOsc
  OBVIOUS
<1>2. SameValues(parser, p) /\ DOMAIN p = Parts
  BY <1>1, NoOscIs
<1>3. p.esc_values_i = 0 /\ p.esc_values[0] = 0 /\ (IF p.rrr THEN 1 ELSE 0) = N
  <2>1. CASE N = 0
    BY <1>2, <2>1 DEF SameValues, Begins
  <2>2. CASE N = 1
    BY <1>2, <2>2 DEF SameValues, Zeros
  <2> QED
    BY <2>1, <2>2
<1>4. PICK k : k = p.esc_values_i + (IF p.rrr THEN 1 ELSE 0)
  OBVIOUS
<1>5. k = N
  BY <1>3, <1>4
<1>6. PICK default, values : /\ default = IF c \in {74, 75, 113} THEN 0 ELSE 1
                             /\ values = [j \in Values |-> IF j < k THEN p.esc_values[j] ELSE default]
  OBVIOUS
<1>7. PICK q : q = Filled
  OBVIOUS
<1>8. q = [p EXCEPT !.rrr = FALSE, !.esc_values_i = k, !.esc_values = values]
  BY <1>1, <1>4, <1>6, <1>7 DEF Filled
<1>9. q.esc_values_i = k /\ q.esc_values = values
  BY ONLY <1>2, <1>8 DEF Parts
<1>10. N = 1 => values[0] = 0
  BY <1>3, <1>5, <1>6, MaxValues
<1> QED
  BY <1>5, <1>7, <1>9, <1>10

LEMMA FinalByte ==
  ASSUME TermInv, PutChar, Collects(parser), c = 109
  PROVE  /\ TermInv' /\ parser' = Ground /\ TakeByte /\ \E t, p : Leave(t, p)
         /\ Begins(parser) \/ Zeros(parser) => Uncoloured(ctx')
<1>1. Rendition
  BY AtFinal, Zenon DEF Collects, Opened
<1>2. PICK values \in [Values -> Nat], N \in 0 .. FLANTERM_MAX_ESC_VALUES :
        /\ values = Filled.esc_values /\ N = Filled.esc_values_i
        /\ TermInv' /\ SameColours(sgr(Still, values, N), ctx')
  BY <1>1, RenditionKeeps
<1>3. TakeByte /\ (\E t, p : Leave(t, p)) /\ parser' = Ended
  BY <1>1, Zenon DEF Rendition, Finish, Leave
<1>4. Ended = Ground
  <2>1. parser.dec_private = FALSE
    BY DEF Collects, Opened
  <2> QED
    BY <2>1, GroundPlain DEF Ended
<1>5. PICK n, m, b : Facts(n, m, b)
  BY <1>1, FinishFinds DEF Rendition
<1>6. n \in Nat /\ m \in Nat /\ Still \in Context(n, m)
  BY <1>5, StillIs
<1>7. ASSUME Begins(parser) \/ Zeros(parser) PROVE Uncoloured(ctx')
  <2>1. N \in 0 .. 1 /\ (N = 1 => values[0] = 0)
    <3>1. CASE Begins(parser)
      BY <1>2, <3>1, FilledOf DEF Collects
    <3>2. CASE Zeros(parser)
      BY <1>2, <3>2, FilledOf DEF Collects
    <3> QED
      BY <1>7, <3>1, <3>2
  <2>2. Uncoloured(sgr(Still, values, N))
    BY <1>6, <2>1, SgrResets
  <2>3. PICK u, v : u = ctx' /\ v = sgr(Still, values, N)
    OBVIOUS
  <2>4. SameColours(v, u) /\ Uncoloured(v)
    BY <1>2, <2>2, <2>3
  <2> QED
    BY <2>3, <2>4 DEF SameColours, Uncoloured
<1> QED
  BY <1>2, <1>3, <1>4, <1>7


----------------------------------------------------------------------------
(* The writes from byte to byte. *)

LEMMA LogHistory ==
  ASSUME NEW h, HistoryIs(h), NEW x
  PROVE  /\ [h EXCEPT !.plain = x].plain = x /\ [h EXCEPT !.plain = x].torn = h.torn
         /\ [h EXCEPT !.torn = x].plain = h.plain /\ [h EXCEPT !.torn = x].torn = x
         /\ [h EXCEPT !.refreshed = x].plain = h.plain /\ [h EXCEPT !.refreshed = x].torn = h.torn
BY DEF HistoryIs

LEMMA ByteLeft == PutChar => Left
<1>1. Rendition => Left
  BY Zenon DEF Rendition, Finish, Left
<1>2. SaveState \/ RestoreState \/ Reinit => Left
  BY Zenon DEF SaveState, RestoreState, Reinit, Left
<1> QED
  BY <1>1, <1>2, PutCharIs, QuietIs, Zenon

(* What a byte of a log line leaves of the parser and of the colours. *)
Stepped(text, k) ==
  /\ ParserAt(parser', text, k + 1)
  /\ Uncoloured(ctx) \/ Ahead(text, k) => Uncoloured(ctx') \/ Ahead(text, k + 1)

LEMMA ColoursLeft ==
  ASSUME Kept, NEW text, NEW k, ParserAt(parser', text, k + 1), Ahead(text, k) => Ahead(text, k + 1)
  PROVE  Stepped(text, k)
<1>1. Uncoloured(ctx) => Uncoloured(ctx')
  BY DEF Kept, ColoursStay, SameColours, Uncoloured
<1> QED
  BY <1>1 DEF Stepped

LEMMA ByteSteps ==
  ASSUME TermInv, PutChar, NEW text, NEW k \in DOMAIN text, LogLine(text), c = text[k], c \in 0 .. 127,
         ParserAt(parser, text, k)
  PROVE  TermInv' /\ Stepped(text, k)
<1>0. DOMAIN text \subseteq Nat /\ k \in Nat
  BY DEF LogLine
<1>1. ASSUME Between(text, k), parser = Ground, c # 27
      PROVE  TermInv' /\ Stepped(text, k)
  <2>1. Kept /\ parser' = Ground
    BY <1>1, TextByte
  <2>2. Between(text, k + 1) /\ (Ahead(text, k) => Ahead(text, k + 1))
    BY <1>1, BetweenOn
  <2> QED
    BY <2>1, <2>2, ColoursLeft DEF ParserAt, Kept
<1>2. ASSUME parser = Ground, c = 27
      PROVE  TermInv' /\ Stepped(text, k)
  <2>1. Kept /\ Escaped(parser')
    BY <1>2, EscByte
  <2>2. PICK e \in DOMAIN text : Sequence(text, k, e)
    BY <1>2 DEF LogLine
  <2>3. Ahead(text, k) => Ahead(text, k + 1)
    <3>1. text[k] # 109
      BY <1>2
    <3> QED
      BY <3>1, AheadOn
  <2>4. ParserAt(parser', text, k + 1)
    BY <2>1, <2>2, Zenon DEF ParserAt
  <2> QED
    BY <2>1, <2>3, <2>4, ColoursLeft DEF Kept
<1>3. ASSUME NEW j \in DOMAIN text, NEW e \in DOMAIN text, Sequence(text, j, e), k = j + 1, Escaped(parser)
      PROVE  TermInv' /\ Stepped(text, k)
  <2>1. c = 91 /\ j + 1 < e /\ j \in Nat /\ e \in Nat
    BY <1>0, <1>3 DEF Sequence
  <2>2. Kept /\ Collects(parser') /\ Begins(parser')
    BY <1>3, <2>1, CsiByte
  <2>3. Ahead(text, k) => Ahead(text, k + 1)
    <3>1. text[k] # 109
      BY <2>1
    <3> QED
      BY <3>1, AheadOn
  <2>4. j + 2 <= k + 1 /\ k + 1 <= e /\ k + 1 # j + 3
    BY <1>3, <2>1
  <2>5. ParserAt(parser', text, k + 1)
    BY <1>3, <2>2, <2>4, Zenon DEF ParserAt
  <2> QED
    BY <2>2, <2>3, <2>5, ColoursLeft DEF Kept
<1>4. ASSUME NEW j \in DOMAIN text, NEW e \in DOMAIN text, Sequence(text, j, e), j + 2 <= k, k < e,
             Collects(parser), k = j + 2 => Begins(parser)
      PROVE  TermInv' /\ Stepped(text, k)
  <2>1. c \in (48 .. 57) \cup {59} /\ j \in Nat /\ e \in Nat
    <3>1. j \in Nat /\ e \in Nat /\ k \in j + 2 .. e - 1
      BY <1>0, <1>4
    <3> QED
      BY <1>4, <3>1 DEF Sequence
  <2>2. Kept /\ Collects(parser') /\ (Begins(parser) /\ c = 48 => Zeros(parser'))
    BY <1>4, <2>1, ParameterByte
  <2>3. Ahead(text, k) => Ahead(text, k + 1)
    BY <2>1, AheadOn
  <2>4. j + 2 <= k + 1 /\ k + 1 <= e /\ k + 1 # j + 2 /\ (k + 1 = j + 3 => k = j + 2)
    BY <1>0, <1>4, <2>1
  <2>5. k + 1 = j + 3 /\ text[j + 2] = 48 => Zeros(parser')
    BY <1>4, <2>2, <2>4
  <2>6. ParserAt(parser', text, k + 1)
    BY <1>4, <2>2, <2>4, <2>5, Zenon DEF ParserAt
  <2> QED
    BY <2>2, <2>3, <2>6, ColoursLeft DEF Kept
<1>5. ASSUME NEW j \in DOMAIN text, Sequence(text, j, k), Collects(parser),
             k = j + 2 => Begins(parser), k = j + 3 /\ text[j + 2] = 48 => Zeros(parser)
      PROVE  TermInv' /\ Stepped(text, k)
  <2>1. c = 109
    BY <1>5 DEF Sequence
  <2>2. TermInv' /\ parser' = Ground /\ (Begins(parser) \/ Zeros(parser) => Uncoloured(ctx'))
    BY <1>5, <2>1, FinalByte
  <2>3. Between(text, k + 1) /\ (Resets(text, j, k) \/ Ahead(text, k + 1))
    BY <1>5, BehindIs
  <2>4. Resets(text, j, k) => Begins(parser) \/ Zeros(parser)
    BY <1>5 DEF Resets
  <2> QED
    BY <2>2, <2>3, <2>4 DEF Stepped, ParserAt
<1>6. CASE Between(text, k) /\ parser = Ground
  BY <1>1, <1>2, <1>6
<1>7. CASE \E j, e \in DOMAIN text : Sequence(text, j, e) /\ k = j + 1 /\ Escaped(parser)
  BY <1>3, <1>7
<1>8. CASE \E j, e \in DOMAIN text :
             /\ Sequence(text, j, e) /\ j + 2 <= k /\ k <= e /\ Collects(parser)
             /\ k = j + 2 => Begins(parser)
             /\ k = j + 3 /\ text[j + 2] = 48 => Zeros(parser)
  <2>1. PICK j \in DOMAIN text, e \in DOMAIN text :
             /\ Sequence(text, j, e) /\ j + 2 <= k /\ k <= e /\ Collects(parser)
             /\ k = j + 2 => Begins(parser)
             /\ k = j + 3 /\ text[j + 2] = 48 => Zeros(parser)
    BY <1>8
  <2>2. CASE k < e
    BY <1>4, <2>1, <2>2
  <2>3. CASE k = e
    BY <1>5, <2>1, <2>3
  <2>4. e \in Nat
    BY <1>0
  <2> QED
    BY <1>0, <2>1, <2>2, <2>3, <2>4
<1> QED
  BY <1>6, <1>7, <1>8, Zenon DEF ParserAt

(* The same for the writes that are under way. *)
LEMMA WritingByte ==
  ASSUME NEW line, NEW place \in [Threads -> Nat], NEW in, NEW in2, NEW bs \in SUBSET Threads, NEW p \in bs,
         NEW q, NEW q2, NEW t, NEW t2, NEW k \in Nat, NEW text,
         in = [r \in Threads |-> in[r]], in2 = [in EXCEPT ![p] = Tail(@)],
         Writing(line, place, in, bs, p, q, t), k = place[p], text = line[p], in[p] # <<>>,
         ParserAt(q2, text, k + 1), t # NULL,
         Uncoloured(t) \/ Ahead(text, k) => Uncoloured(t2) \/ Ahead(text, k + 1)
  PROVE  Writing(line, [place EXCEPT ![p] = k + 1], in2, bs, p, q2, t2)
<1>1. PICK place2 : place2 = [place EXCEPT ![p] = k + 1]
  OBVIOUS
<1>2. place2[p] = k + 1 /\ in2[p] = Tail(in[p])
  BY <1>1
<1>3. \A r \in Threads : r # p => place2[r] = place[r] /\ in2[r] = in[r]
  BY <1>1
<1>4. text \in LogLines /\ Rest(in[p], text, k) /\ LogLine(text)
  BY LogLinesAssumption DEF Writing
<1>5. Rest(in2[p], text, k + 1)
  BY <1>2, <1>4, RestOn
<1>6. \A r \in bs : line[r] \in LogLines /\ Rest(in2[r], line[r], place2[r])
  <2> SUFFICES ASSUME NEW r \in bs PROVE line[r] \in LogLines /\ Rest(in2[r], line[r], place2[r])
    OBVIOUS
  <2>1. line[r] \in LogLines /\ Rest(in[r], line[r], place[r])
    BY DEF Writing
  <2>2. CASE r = p
    BY <1>2, <1>5, <2>1, <2>2
  <2>3. CASE r # p
    BY <1>3, <2>1, <2>3
  <2> QED
    BY <2>2, <2>3
<1>7. \A r \in bs \ {p} : Between(line[r], place2[r])
  <2> SUFFICES ASSUME NEW r \in bs \ {p} PROVE Between(line[r], place2[r])
    OBVIOUS
  <2>1. Between(line[r], place[r])
    BY DEF Writing
  <2> QED
    BY <1>3, <2>1
<1>8. \A r \in Threads \ bs : in2[r] = <<>>
  <2> SUFFICES ASSUME NEW r \in Threads \ bs PROVE in2[r] = <<>>
    OBVIOUS
  <2>1. in[r] = <<>>
    BY DEF Writing
  <2> QED
    BY <1>3, <2>1
<1>9. Uncoloured(t2) \/ \E r \in bs : Ahead(line[r], place2[r])
  <2>1. Uncoloured(t) \/ \E r \in bs : Ahead(line[r], place[r])
    BY DEF Writing
  <2>2. CASE Uncoloured(t) \/ Ahead(text, k)
    BY <1>2, <2>2
  <2>3. CASE \E r \in bs \ {p} : Ahead(line[r], place[r])
    <3>1. PICK r \in bs \ {p} : Ahead(line[r], place[r])
      BY <2>3
    <3>2. place2[r] = place[r]
      BY <1>3
    <3> QED
      BY <3>1, <3>2
  <2> QED
    BY <2>1, <2>2, <2>3
<1>10. ParserAt(q2, line[p], place2[p])
  BY <1>2
<1> QED
  BY <1>1, <1>6, <1>7, <1>8, <1>9, <1>10 DEF Writing


(* The writes under way, for what a step leaves as it was. *)
Writes(in, bs, p, q, t) ==
  \E line \in [Threads -> LogLines \cup {<<>>}], place \in [Threads -> Nat] :
    Writing(line, place, in, bs, p, q, t)
LogTyped(in, bs) == in = [p \in Threads |-> in[p]] /\ bs \subseteq Threads

LEMMA LogIs ==
  LogInv <=> /\ LogTyped(input, busy)
             /\ history.plain /\ ~history.torn => Writes(input, busy, turn, parser, ctx)
BY Zenon DEF LogInv, LogTyped, Writes

LEMMA LogNext ==
  ASSUME NEW in, NEW bs, NEW p, NEW q, NEW t, NEW plain, NEW torn,
         in = input', bs = busy', p = turn', q = parser', t = ctx', LogTyped(in, bs),
         (history'.plain /\ ~history'.torn) => Writes(in, bs, p, q, t)
  PROVE  LogInv'
BY DEF LogInv, LogTyped, Writes, Writing, Uncoloured

LEMMA ByteLog == TermInv /\ LogInv /\ PutChar => LogInv'
<1> SUFFICES ASSUME TermInv, LogInv, PutChar PROVE LogInv'
  OBVIOUS
<1>1. TakeByte /\ \E t, p : Leave(t, p)
  BY ByteLeft DEF Left
<1>2. history'.plain = history.plain /\ history'.torn = history.torn
  <2>1. HistoryIs(history)
    BY DEF TermInv
  <2> QED
    BY <1>1, <2>1, HistoryLeft
<1>3. PICK in, bs, p, q, t : in = input' /\ bs = busy' /\ p = turn' /\ q = parser' /\ t = ctx'
  OBVIOUS
<1>4. bs = busy /\ p = turn /\ in = [input EXCEPT ![turn] = Tail(@)] /\ input[turn] # <<>> /\ turn \in Threads
  BY <1>1, <1>3 DEF TakeByte, TermInv
<1>5. LogTyped(input, busy) /\ LogTyped(in, bs)
  <2>1. LogTyped(input, busy)
    BY LogIs
  <2> QED
    BY <1>4, <2>1 DEF LogTyped
<1>6. ASSUME history.plain, ~history.torn PROVE Writes(in, bs, p, q, t)
  <2>1. PICK line \in [Threads -> LogLines \cup {<<>>}], place \in [Threads -> Nat] :
          Writing(line, place, input, busy, turn, parser, ctx)
    BY <1>6, LogIs DEF Writes
  <2>2. turn \in busy
    BY <1>4, <2>1 DEF Writing
  <2>3. PICK text, k : text = line[turn] /\ k = place[turn] /\ k \in Nat
    BY <1>4, <2>1
  <2>4. LogLine(text) /\ Rest(input[turn], text, k) /\ ParserAt(parser, text, k)
    BY <2>1, <2>2, <2>3, LogLinesAssumption DEF Writing
  <2>5. k \in DOMAIN text /\ c = text[k] /\ c \in 0 .. 127
    BY <1>4, <2>4, RestOn DEF c
  <2>6. Stepped(text, k)
    BY <2>4, <2>5, ByteSteps
  <2>7. ctx # NULL
    BY <1>1, ByteFinds
  <2>8. ParserAt(q, text, k + 1) /\ (Uncoloured(ctx) \/ Ahead(text, k) => Uncoloured(t) \/ Ahead(text, k + 1))
    BY <1>3, <2>6 DEF Stepped
  <2>9. PICK place2 : place2 = [place EXCEPT ![turn] = k + 1]
    OBVIOUS
  <2>10. Writing(line, place2, in, busy, turn, q, t)
    <3>1. PICK f, s, w, m : f = input /\ s = turn /\ w = busy /\ m = ctx
      OBVIOUS
    <3>2. /\ w \in SUBSET Threads /\ s \in w /\ f = [r \in Threads |-> f[r]]
          /\ in = [f EXCEPT ![s] = Tail(@)] /\ f[s] # <<>>
      BY <1>4, <1>5, <2>2, <3>1 DEF LogTyped
    <3>3. PICK v : v = parser
      OBVIOUS
    <3>4. /\ Writing(line, place, f, w, s, v, m) /\ k = place[s] /\ text = line[s] /\ m # NULL
          /\ (Uncoloured(m) \/ Ahead(text, k) => Uncoloured(t) \/ Ahead(text, k + 1))
          /\ place2 = [place EXCEPT ![s] = k + 1] /\ ParserAt(q, text, k + 1)
      BY <2>1, <2>3, <2>7, <2>8, <2>9, <3>1, <3>3
    <3>5. Writing(line, [place EXCEPT ![s] = k + 1], in, w, s, q, t)
      BY ONLY <2>3, <3>2, <3>4, place \in [Threads -> Nat], WritingByte
    <3> QED
      BY <3>1, <3>4, <3>5
  <2>11. place2 \in [Threads -> Nat]
    <3>1. PICK next : next = k + 1 /\ next \in Nat
      BY <2>3
    <3>2. place2 = [place EXCEPT ![turn] = next]
      BY <2>9, <3>1
    <3> QED
      BY ONLY place \in [Threads -> Nat], <3>1, <3>2
  <2> QED
    BY <1>4, <2>1, <2>10, <2>11 DEF Writes
<1> QED
  BY <1>2, <1>3, <1>5, <1>6, LogNext

(* A step that leaves the writes, the parser and the colours alone. *)
LEMMA LogStays ==
  ASSUME LogInv, input' = input, busy' = busy, turn' = turn, parser' = parser,
         history'.plain = history.plain, history'.torn = history.torn,
         ctx' = ctx \/ (ctx # NULL /\ SameColours(ctx, ctx')) \/ Uncoloured(ctx')
  PROVE  LogInv'
<1>1. PICK t : t = ctx'
  OBVIOUS
<1>2. t # NULL /\ (ctx # NULL => Uncoloured(ctx)) => Uncoloured(t) \/ t = ctx
  BY <1>1 DEF SameColours, Uncoloured
<1>3. LogTyped(input, busy)
  BY LogIs
<1>4. ASSUME history.plain, ~history.torn PROVE Writes(input, busy, turn, parser, t)
  <2>1. PICK line \in [Threads -> LogLines \cup {<<>>}], place \in [Threads -> Nat] :
          Writing(line, place, input, busy, turn, parser, ctx)
    BY <1>4, LogIs DEF Writes
  <2>2. t # NULL => Uncoloured(t) \/ \E r \in busy : Ahead(line[r], place[r])
    BY <1>1, <2>1 DEF Writing, SameColours, Uncoloured
  <2>3. Writing(line, place, input, busy, turn, parser, t)
    BY <2>1, <2>2, Zenon DEF Writing
  <2> QED
    BY <2>1, <2>3 DEF Writes
<1> QED
  BY <1>1, <1>3, <1>4, LogNext

LEMMA KprintfLog ==
  ASSUME TermInv, LogInv, NEW text, kprintf(text)
  PROVE  LogInv'
<1>1. /\ turn \in Threads /\ turn \notin busy /\ turn' = turn /\ parser' = parser /\ ctx' = ctx
      /\ LogTyped(input, busy)
  BY LogIs DEF kprintf, Call, TermInv
<1>2. history'.torn = history.torn /\ (history'.plain => history.plain /\ text \in LogLines)
  <2>1. PICK x : x = (history.plain /\ text \in LogLines)
    BY Zenon
  <2>2. history' = [history EXCEPT !.plain = x] /\ HistoryIs(history)
    BY <2>1, Zenon DEF kprintf, TermInv
  <2>3. history'.plain = x /\ history'.torn = history.torn
    BY <2>2, LogHistory
  <2> QED
    BY <2>1, <2>3
<1>3. PICK in, bs : in = input' /\ bs = busy'
  OBVIOUS
<1>4. CASE in = input /\ bs = busy
  <2>1. history'.plain /\ ~history'.torn => Writes(in, bs, turn, parser, ctx)
    BY <1>2, <1>4, LogIs
  <2> QED
    BY <1>1, <1>3, <1>4, <2>1, LogNext
<1>5. CASE in = [input EXCEPT ![turn] = text] /\ bs = busy \cup {turn}
  <2>1. LogTyped(in, bs)
    BY <1>1, <1>5 DEF LogTyped
  <2>2. ASSUME history'.plain, ~history'.torn PROVE Writes(in, bs, turn, parser, ctx)
    <3>1. history.plain /\ ~history.torn /\ text \in LogLines
      BY <1>2, <2>2
    <3>2. PICK line \in [Threads -> LogLines \cup {<<>>}], place \in [Threads -> Nat] :
            Writing(line, place, input, busy, turn, parser, ctx)
      BY <3>1, LogIs DEF Writes
    <3>3. LogLine(text) /\ Between(text, 1) /\ Rest(text, text, 1)
      BY <3>1, LogLinesAssumption, EndsAre
    <3>4. PICK line2, place2 : line2 = [line EXCEPT ![turn] = text] /\ place2 = [place EXCEPT ![turn] = 1]
      OBVIOUS
    <3>5. /\ line2 \in [Threads -> LogLines \cup {<<>>}] /\ place2 \in [Threads -> Nat]
          /\ line2[turn] = text /\ place2[turn] = 1 /\ in[turn] = text
          /\ \A r \in Threads : r # turn => line2[r] = line[r] /\ place2[r] = place[r] /\ in[r] = input[r]
      BY <1>1, <1>5, <3>1, <3>4 DEF LogTyped
    <3>6. \A r \in busy : r # turn /\ r \in Threads
      BY <1>1 DEF LogTyped
    <3>7. \A r \in bs : line2[r] \in LogLines /\ Rest(in[r], line2[r], place2[r])
      <4> SUFFICES ASSUME NEW r \in bs PROVE line2[r] \in LogLines /\ Rest(in[r], line2[r], place2[r])
        OBVIOUS
      <4>1. CASE r = turn
        BY <3>1, <3>3, <3>5, <4>1
      <4>2. CASE r \in busy
        BY <3>2, <3>5, <3>6, <4>2 DEF Writing
      <4> QED
        BY <1>5, <4>1, <4>2
    <3>8. \A r \in bs \ {turn} : Between(line2[r], place2[r])
      BY <1>5, <3>2, <3>5, <3>6 DEF Writing
    <3>9. \A r \in Threads \ bs : in[r] = <<>>
      BY <1>5, <3>2, <3>5 DEF Writing
    <3>10. ParserAt(parser, line2[turn], place2[turn])
      BY <1>1, <3>2, <3>3, <3>5 DEF Writing, ParserAt
    <3>11. ctx # NULL => Uncoloured(ctx) \/ \E r \in bs : Ahead(line2[r], place2[r])
      <4>1. ctx # NULL => Uncoloured(ctx) \/ \E r \in busy : Ahead(line[r], place[r])
        BY <3>2 DEF Writing
      <4>2. \A r \in busy : r \in bs /\ line2[r] = line[r] /\ place2[r] = place[r]
        BY <1>5, <3>5, <3>6
      <4> QED
        BY <4>1, <4>2
    <3>12. Writing(line2, place2, in, bs, turn, parser, ctx)
      BY <1>5, <3>7, <3>8, <3>9, <3>10, <3>11 DEF Writing
    <3> QED
      BY <3>5, <3>12 DEF Writes
  <2> QED
    BY <1>1, <1>3, <2>1, <2>2, LogNext
<1> QED
  BY <1>3, <1>4, <1>5 DEF kprintf


LEMMA EndWriteLog == TermInv /\ LogInv /\ EndWrite => LogInv'
<1> SUFFICES ASSUME TermInv, LogInv, EndWrite PROVE LogInv'
  OBVIOUS
<1>1. PICK t, bs : t = ctx' /\ bs = busy'
  OBVIOUS
<1>2. /\ turn \in busy /\ bs = busy \ {turn} /\ input[turn] = <<>> /\ LogTyped(input, busy)
      /\ input' = input /\ turn' = turn /\ parser' = parser /\ history' = history
  BY <1>1, LogIs DEF EndWrite
<1>3. LogTyped(input, bs)
  BY <1>2 DEF LogTyped
<1>4. ctx # NULL /\ SameColours(ctx, t)
  BY <1>1, <1>2, EndWriteKeeps DEF TermInv, ColoursStay
<1>5. ASSUME history.plain, ~history.torn PROVE Writes(input, bs, turn, parser, t)
  <2>1. PICK line \in [Threads -> LogLines \cup {<<>>}], place \in [Threads -> Nat] :
          Writing(line, place, input, busy, turn, parser, ctx)
    BY <1>5, LogIs DEF Writes
  <2>2. LogLine(line[turn]) /\ Rest(<<>>, line[turn], place[turn]) /\ ParserAt(parser, line[turn], place[turn])
    BY <1>2, <2>1, LogLinesAssumption DEF Writing
  <2>3. parser = Ground /\ ~Ahead(line[turn], place[turn])
    BY <2>2, EndsAre
  <2>4. Uncoloured(t) \/ \E r \in bs : Ahead(line[r], place[r])
    <3>1. Uncoloured(ctx) \/ \E r \in busy : Ahead(line[r], place[r])
      BY <1>4, <2>1 DEF Writing
    <3>2. Uncoloured(ctx) => Uncoloured(t)
      BY <1>4 DEF SameColours, Uncoloured
    <3> QED
      BY <1>2, <2>3, <3>1, <3>2
  <2>5. /\ \A r \in bs : line[r] \in LogLines /\ Rest(input[r], line[r], place[r])
        /\ \A r \in bs \ {turn} : Between(line[r], place[r])
        /\ turn \notin bs
    BY <1>2, <2>1 DEF Writing
  <2>6. \A r \in Threads \ bs : input[r] = <<>>
    BY <1>2, <2>1 DEF Writing
  <2>7. Writing(line, place, input, bs, turn, parser, t)
    BY <2>3, <2>4, <2>5, <2>6, Zenon DEF Writing
  <2> QED
    BY <2>1, <2>7 DEF Writes
<1> QED
  BY <1>1, <1>2, <1>3, <1>5, LogNext

(* A thread that has not the CPU is between two sequences. *)
LEMMA PreemptLog == TermInv /\ LogInv /\ Preempt => LogInv'
<1> SUFFICES ASSUME TermInv, LogInv, Preempt PROVE LogInv'
  OBVIOUS
<1>1. PICK s : s = turn'
  OBVIOUS
<1>2. input' = input /\ busy' = busy /\ parser' = parser /\ ctx' = ctx /\ s # turn /\ LogTyped(input, busy)
  BY <1>1, LogIs DEF Preempt
<1>3. /\ history'.plain = history.plain
      /\ ~history'.torn => ~history.torn /\ parser = [Ground EXCEPT !.dec_private = parser.dec_private]
  <2>1. PICK x : x = (history.torn \/ parser # [Ground EXCEPT !.dec_private = parser.dec_private])
    BY Zenon
  <2>2. history' = [history EXCEPT !.torn = x] /\ HistoryIs(history)
    BY <2>1, Zenon DEF Preempt, TermInv
  <2>3. history'.plain = history.plain /\ history'.torn = x
    BY <2>2, LogHistory
  <2> QED
    BY <2>1, <2>3, Zenon
<1>4. ASSUME history'.plain, ~history'.torn PROVE Writes(input, busy, s, parser, ctx)
  <2>1. history.plain /\ ~history.torn /\ parser = [Ground EXCEPT !.dec_private = parser.dec_private]
    BY <1>3, <1>4
  <2>2. parser.escape = FALSE
    <3>1. PICK p, d, g : p = parser /\ d = parser.dec_private /\ g = Ground
      OBVIOUS
    <3>2. p = [g EXCEPT !.dec_private = d] /\ g.escape = FALSE /\ DOMAIN g = Parts
      BY <2>1, <3>1, GroundPlain, GroundIs DEF ParserIs
    <3>3. p.escape = FALSE
      BY ONLY <3>2 DEF Parts
    <3> QED
      BY <3>1, <3>3
  <2>3. PICK line \in [Threads -> LogLines \cup {<<>>}], place \in [Threads -> Nat] :
          Writing(line, place, input, busy, turn, parser, ctx)
    BY <2>1, LogIs DEF Writes
  <2>4. ~Escaped(parser) /\ ~Collects(parser)
    BY <2>2 DEF Escaped, Collects, Opened
  <2>5. /\ parser = Ground
        /\ turn \in busy => Between(line[turn], place[turn])
    BY <2>3, <2>4 DEF Writing, ParserAt
  <2>6. \A r \in busy : Between(line[r], place[r])
    BY <2>3, <2>5 DEF Writing
  <2>7. s \in busy => ParserAt(parser, line[s], place[s])
    BY <2>5, <2>6 DEF ParserAt
  <2>8. Writing(line, place, input, busy, s, parser, ctx)
    BY <2>3, <2>5, <2>6, <2>7, Zenon DEF Writing
  <2> QED
    BY <2>3, <2>8 DEF Writes
<1> QED
  BY <1>1, <1>2, <1>4, LogNext

LEMMA EarlyInitLog ==
  ASSUME TermInv, LogInv, NEW new \in Modes, framebuffer_early_init(new)
  PROVE  LogInv'
<1>1. /\ history' = history /\ ctx = NULL /\ ctx' = flanterm_fb_init(new)
      /\ input' = input /\ busy' = busy /\ turn' = turn /\ parser' = parser
  BY DEF framebuffer_early_init, TermInv
<1>2. CASE ctx' = NULL
  BY <1>1, <1>2, LogStays
<1>3. CASE ctx' # NULL
  <2>1. PICK n, m : n = cols(new) /\ m = rows(new)
    OBVIOUS
  <2>2. n \in Nat /\ m \in Nat
    BY <2>1, SizeIs
  <2>3. PICK t : t = full_refresh(flanterm_context_reinit(Zeroed(n, m)))
    OBVIOUS
  <2>4. ctx' = t
    BY <1>1, <1>3, <2>1, <2>3 DEF flanterm_fb_init
  <2>5. FirstAs(t, n, m, history.refreshed)
    BY <2>2, <2>3, FirstIs
  <2>6. Uncoloured(ctx')
    BY <2>4, <2>5 DEF FirstAs, Looks, Uncoloured
  <2> QED
    BY <1>1, <2>6, LogStays
<1> QED
  BY <1>2, <1>3

LEMMA NextLog == TermInv /\ LogInv /\ [Next]_vars => LogInv'
<1> SUFFICES ASSUME TermInv, LogInv, [Next]_vars PROVE LogInv'
  OBVIOUS
<1>1. ASSUME NEW new \in Modes, framebuffer_early_init(new) PROVE LogInv'
  BY <1>1, EarlyInitLog
<1>2. ASSUME NEW text \in Texts[turn], kprintf(text) PROVE LogInv'
  BY <1>2, KprintfLog
<1>3. ASSUME NEW on \in BOOLEAN, flanterm_set_autoflush(on) \/ flanterm_set_oob_output(on) PROVE LogInv'
  <2>1. /\ ctx # NULL /\ history' = history
        /\ input' = input /\ busy' = busy /\ turn' = turn /\ parser' = parser
    BY <1>3 DEF flanterm_set_autoflush, flanterm_set_oob_output, Change, Call
  <2> QED
    BY <1>3, <2>1, FlagKeeps, LogStays DEF Kept, ColoursStay
<1>4. ASSUME flanterm_flush PROVE LogInv'
  <2>1. /\ ctx # NULL /\ history' = history
        /\ input' = input /\ busy' = busy /\ turn' = turn /\ parser' = parser
    BY <1>4 DEF flanterm_flush, Change, Call
  <2> QED
    BY <1>4, <2>1, FlushCallKeeps, LogStays DEF ColoursStay
<1>5. ASSUME flanterm_full_refresh PROVE LogInv'
  <2>1. /\ ctx # NULL /\ input' = input /\ busy' = busy /\ turn' = turn /\ parser' = parser
    BY <1>5 DEF flanterm_full_refresh, Change, Call
  <2>2. history'.plain = history.plain /\ history'.torn = history.torn
    <3>1. PICK x : history' = [history EXCEPT !.refreshed = x] /\ HistoryIs(history)
      BY <1>5, Zenon DEF flanterm_full_refresh, TermInv
    <3> QED
      BY <3>1, LogHistory
  <2> QED
    BY <1>5, <2>1, <2>2, RefreshKeeps, LogStays DEF ColoursStay
<1>6. ASSUME UNCHANGED vars PROVE LogInv'
  <2>1. /\ ctx' = ctx /\ history' = history
        /\ input' = input /\ busy' = busy /\ turn' = turn /\ parser' = parser
    BY <1>6 DEF vars
  <2> QED
    BY <2>1, LogStays
<1> QED
  BY <1>1, <1>2, <1>3, <1>4, <1>5, <1>6, ByteLog, EndWriteLog, PreemptLog, Zenon DEF Next

LEMMA LogTold == LogInv => LogLeavesDefaults
<1> SUFFICES ASSUME LogInv, ctx # NULL, history.plain, ~history.torn, busy = {}
             PROVE  parser = Ground /\ ctx.text_fg = default_fg /\ ctx.text_bg = TRANSPARENT
  BY DEF LogLeavesDefaults
<1>1. PICK line, place : Writing(line, place, input, busy, turn, parser, ctx)
  BY DEF LogInv
<1> QED
  BY <1>1 DEF Writing, Uncoloured

LEMMA InitLog == Init => LogInv
<1> SUFFICES ASSUME Init PROVE LogInv
  OBVIOUS
<1>1. /\ input = [p \in Threads |-> <<>>] /\ busy = {} /\ ctx = NULL /\ parser = Ground
  BY DEF Init
<1>2. LogTyped(input, busy)
  BY <1>1 DEF LogTyped
<1>3. PICK line, place : line = [p \in Threads |-> <<>>] /\ place = [p \in Threads |-> 0]
  OBVIOUS
<1>4. line \in [Threads -> LogLines \cup {<<>>}] /\ place \in [Threads -> Nat]
  BY <1>3
<1>5. Writing(line, place, input, busy, turn, parser, ctx)
  BY <1>1 DEF Writing
<1> QED
  BY <1>2, <1>4, <1>5, LogIs DEF Writes

(* Between two writes of log lines the machine is out of any sequence and  *)
(* the colours are the default ones, however the threads that write take   *)
(* turns, unless the timer took the CPU within a sequence                  *)
(* (LogLeavesDefaults of Flanterm).                                        *)
THEOREM LogLeavesTheDefaults == Spec => []LogLeavesDefaults
<1>1. Init => TermInv /\ LogInv
  BY InitTerm, InitLog
<1>2. (TermInv /\ LogInv) /\ [Next]_vars => (TermInv /\ LogInv)'
  BY NextTerm, NextLog
<1>3. TermInv /\ LogInv => LogLeavesDefaults
  BY LogTold
<1> QED
  BY <1>1, <1>2, <1>3, PTL DEF Spec
=============================================================================
