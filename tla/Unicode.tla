------------------------------ MODULE Unicode ------------------------------
(***************************************************************************)
(* What flanterm does with a code point, kernel/src/lib/flanterm/flanterm.c:*)
(* the glyph of code page 437 that shows it, and else the number of columns*)
(* it takes.                                                               *)
(***************************************************************************)
EXTENDS Integers, Sequences

(* The code points of the glyphs 1 to 31 and 127 to 254. *)
Low == <<
     9786, 9787, 9829, 9830, 9827, 9824, 8226, 9688, 9675, 9689, 9794, 9792,
     9834, 9835, 9788, 9658, 9668, 8597, 8252, 182, 167, 9644, 8616, 8593,
     8595, 8594, 8592, 8735, 8596, 9650, 9660>>

High == <<
     8962, 199, 252, 233, 226, 228, 224, 229, 231, 234, 235, 232, 239, 238,
     236, 196, 197, 201, 230, 198, 244, 246, 242, 251, 249, 255, 214, 220,
     162, 163, 165, 8359, 402, 225, 237, 243, 250, 241, 209, 170, 186, 191,
     8976, 172, 189, 188, 161, 171, 187, 9617, 9618, 9619, 9474, 9508, 9569,
     9570, 9558, 9557, 9571, 9553, 9559, 9565, 9564, 9563, 9488, 9492, 9524,
     9516, 9500, 9472, 9532, 9566, 9567, 9562, 9556, 9577, 9574, 9568, 9552,
     9580, 9575, 9576, 9572, 9573, 9561, 9560, 9554, 9555, 9579, 9578, 9496,
     9484, 9608, 9604, 9612, 9616, 9600, 945, 223, 915, 960, 931, 963, 181,
     964, 934, 920, 937, 948, 8734, 966, 949, 8745, 8801, 177, 8805, 8804,
     8992, 8993, 247, 8776, 176, 8729, 183, 8730, 8319, 178, 9632>>

unicode_to_cp437(code_point) ==
  CASE \E g \in 1 .. 31 : Low[g] = code_point -> CHOOSE g \in 1 .. 31 : Low[g] = code_point
    [] \E g \in 127 .. 254 : High[g - 126] = code_point -> CHOOSE g \in 127 .. 254 : High[g - 126] = code_point
    [] OTHER -> -1

(* The intervals of characters that take no column. *)
first == <<
     768, 1155, 1160, 1425, 1471, 1473, 1476, 1479, 1536, 1552, 1611, 1648,
     1750, 1767, 1770, 1807, 1809, 1840, 1958, 2027, 2305, 2364, 2369, 2381,
     2385, 2402, 2433, 2492, 2497, 2509, 2530, 2561, 2620, 2625, 2631, 2635,
     2672, 2689, 2748, 2753, 2759, 2765, 2786, 2817, 2876, 2879, 2881, 2893,
     2902, 2946, 3008, 3021, 3134, 3142, 3146, 3157, 3260, 3263, 3270, 3276,
     3298, 3393, 3405, 3530, 3538, 3542, 3633, 3636, 3655, 3761, 3764, 3771,
     3784, 3864, 3893, 3895, 3897, 3953, 3968, 3974, 3984, 3993, 4038, 4141,
     4146, 4150, 4153, 4184, 4448, 4959, 5906, 5938, 5970, 6002, 6068, 6071,
     6086, 6089, 6109, 6155, 6313, 6432, 6439, 6450, 6457, 6679, 6912, 6964,
     6966, 6972, 6978, 7019, 7616, 7678, 8203, 8234, 8288, 8298, 8400, 12330,
     12441, 43014, 43019, 43045, 64286, 65024, 65056, 65279, 65529, 68097,
     68101, 68108, 68152, 68159, 119143, 119155, 119173, 119210, 119362,
     917505, 917536, 917760>>

last == <<
     879, 1158, 1161, 1469, 1471, 1474, 1477, 1479, 1539, 1557, 1630, 1648,
     1764, 1768, 1773, 1807, 1809, 1866, 1968, 2035, 2306, 2364, 2376, 2381,
     2388, 2403, 2433, 2492, 2500, 2509, 2531, 2562, 2620, 2626, 2632, 2637,
     2673, 2690, 2748, 2757, 2760, 2765, 2787, 2817, 2876, 2879, 2883, 2893,
     2902, 2946, 3008, 3021, 3136, 3144, 3149, 3158, 3260, 3263, 3270, 3277,
     3299, 3395, 3405, 3530, 3540, 3542, 3633, 3642, 3662, 3761, 3769, 3772,
     3789, 3865, 3893, 3895, 3897, 3966, 3972, 3975, 3991, 4028, 4038, 4144,
     4146, 4151, 4153, 4185, 4607, 4959, 5908, 5940, 5971, 6003, 6069, 6077,
     6086, 6099, 6109, 6157, 6313, 6434, 6440, 6450, 6459, 6680, 6915, 6964,
     6970, 6972, 6978, 7027, 7626, 7679, 8207, 8238, 8291, 8303, 8431, 12335,
     12442, 43014, 43019, 43046, 64286, 65039, 65059, 65279, 65531, 68099,
     68102, 68111, 68154, 68159, 119145, 119170, 119179, 119213, 119364,
     917505, 917631, 917999>>

(* The binary search for an interval that holds ucs; the result is whether *)
(* there is one.                                                           *)
bisearch(ucs) ==
  LET Look[min \in Int, max \in Int] ==
        IF max < min THEN FALSE
        ELSE LET mid == (min + max) \div 2
             IN  IF ucs > last[mid] THEN Look[mid + 1, max]
                 ELSE IF ucs < first[mid] THEN Look[min, mid - 1] ELSE TRUE
  IN  ucs >= first[1] /\ ucs <= last[Len(last)] /\ Look[1, Len(first)]

(* East Asian characters that take two columns. *)
Wide(ucs) ==
  \/ ucs \in 4352 .. 4447 \/ ucs \in {9001, 9002} \/ (ucs \in 11904 .. 42191 /\ ucs # 12351)
  \/ ucs \in 44032 .. 55203 \/ ucs \in 63744 .. 64255 \/ ucs \in 65040 .. 65049
  \/ ucs \in 65072 .. 65135 \/ ucs \in 65280 .. 65376 \/ ucs \in 65504 .. 65510
  \/ ucs \in 131072 .. 196605 \/ ucs \in 196608 .. 262141

mk_wcwidth(ucs) ==
  CASE ucs = 0 -> 0
    [] ucs \in 1 .. 31 \union 127 .. 159 -> 1
    [] bisearch(ucs) -> 0
    [] OTHER -> IF Wide(ucs) THEN 2 ELSE 1

(* The search finds the intervals that a walk over the table finds, at     *)
(* the ends of every interval and beside them.                             *)
SearchFinds(ucs) == bisearch(ucs) <=> \E k \in DOMAIN first : ucs \in first[k] .. last[k]
Ends == UNION {{first[k] - 1, first[k], last[k], last[k] + 1} : k \in DOMAIN first}
============================================================================
