---------------------------- MODULE AllocProofs ----------------------------
(***************************************************************************)
(* Proofs about allocation by size, for every number and size of pages,    *)
(* every number of classes and every bound.                                *)
(***************************************************************************)
EXTENDS Alloc, Integers, TLAPS, NaturalsInduction, WellFoundedInduction

----------------------------------------------------------------------------
(* Numbers. *)

(* A nonempty set of numbers has a least element. *)
LEMMA LeastOf ==
  ASSUME NEW T \in SUBSET Nat, T # {}
  PROVE  \E n \in T : \A m \in T : n <= m
<1> DEFINE R == OpToRel(<, Nat)
<1>1. IsWellFoundedOn(R, Nat)
  BY NatLessThanWellFounded
<1>2. \E n \in T : \A m \in T : <<m, n>> \notin R
  <2> HIDE DEF R
  <2> QED
    BY <1>1, WFMin
<1>3. \A m, n \in Nat : <<m, n>> \notin R => n <= m
  BY DEF OpToRel
<1> QED
  BY <1>2, <1>3

(* Products grow with their factors. *)
LEMMA TimesGrow ==
  ASSUME NEW a \in Nat, NEW b \in Nat, NEW m \in Nat
  PROVE  /\ a * m \in Nat /\ b * m \in Nat
         /\ a <= b => a * m <= b * m
         /\ a < b => a * m + m <= b * m
<1>1. a * m \in Nat /\ b * m \in Nat
  OBVIOUS
<1>2. ASSUME a <= b PROVE a * m <= b * m
  <2>1. b - a \in Nat /\ b = a + (b - a)
    BY <1>2
  <2>2. PICK d \in Nat : b = a + d
    BY <2>1
  <2>3. b * m = a * m + d * m /\ d * m \in Nat
    BY ONLY <2>2, a \in Nat, m \in Nat
  <2> QED
    BY <2>3, <1>1
<1>3. ASSUME a < b PROVE a * m + m <= b * m
  <2>1. b - a - 1 \in Nat /\ b = a + 1 + (b - a - 1)
    BY <1>3
  <2>2. PICK d \in Nat : b = a + 1 + d
    BY <2>1
  <2>3. b * m = a * m + m + d * m /\ d * m \in Nat
    BY ONLY <2>2, a \in Nat, m \in Nat
  <2> QED
    BY <2>3, <1>1
<1> QED
  BY <1>1, <1>2, <1>3

(* The powers of two that Bits compares with, and that each is twice the last. *)
Pow == [k \in 0 .. 30 |-> 2 ^ k]
LEMMA Doubles == \A k \in 0 .. 29 : Pow[k] \in Nat \ {0} /\ Pow[k + 1] = 2 * Pow[k]
<1>1. /\ Pow[0] = 1 /\ Pow[1] = 2 /\ Pow[2] = 4 /\ Pow[3] = 8 /\ Pow[4] = 16
      /\ Pow[5] = 32 /\ Pow[6] = 64 /\ Pow[7] = 128 /\ Pow[8] = 256 /\ Pow[9] = 512
      /\ Pow[10] = 1024 /\ Pow[11] = 2048 /\ Pow[12] = 4096 /\ Pow[13] = 8192 /\ Pow[14] = 16384
      /\ Pow[15] = 32768 /\ Pow[16] = 65536 /\ Pow[17] = 131072 /\ Pow[18] = 262144 /\ Pow[19] = 524288
      /\ Pow[20] = 1048576 /\ Pow[21] = 2097152 /\ Pow[22] = 4194304
      /\ Pow[23] = 8388608 /\ Pow[24] = 16777216 /\ Pow[25] = 33554432 /\ Pow[26] = 67108864
      /\ Pow[27] = 134217728 /\ Pow[28] = 268435456 /\ Pow[29] = 536870912
      /\ Pow[30] = 1073741824
  BY DEF Pow
<1> SUFFICES ASSUME NEW k \in 0 .. 29, NEW j \in 1 .. 30, j = k + 1
             PROVE  Pow[k] \in Nat \ {0} /\ Pow[j] = 2 * Pow[k]
  OBVIOUS
<1>2. CASE k \in 0 .. 9
  BY <1>1, <1>2
<1>3. CASE k \in 10 .. 19
  BY <1>1, <1>3
<1>4. CASE k \in 20 .. 29
  BY <1>1, <1>4
<1> QED
  BY <1>2, <1>3, <1>4

(* They grow. *)
LEMMA PowersGrow ==
  ASSUME NEW i \in 0 .. 30, NEW j \in i .. 30
  PROVE  Pow[i] \in Nat \ {0} /\ Pow[j] \in Nat \ {0} /\ Pow[i] <= Pow[j]
<1>1. \A k \in 0 .. 30 : Pow[k] \in Nat \ {0}
  <2>1. Pow[29 + 1] = 2 * Pow[29]
    BY Doubles
  <2> QED
    BY <2>1, Doubles
<1>2. SUFFICES ASSUME Pow[j] < Pow[i] PROVE FALSE
  BY <1>1
<1>3. PICK n \in {m \in i .. 30 : Pow[m] < Pow[i]} : \A m \in {m \in i .. 30 : Pow[m] < Pow[i]} : n <= m
  <2> DEFINE T == {m \in i .. 30 : Pow[m] < Pow[i]}
  <2>1. T \in SUBSET Nat /\ T # {}
    BY <1>2
  <2> HIDE DEF T
  <2>2. \E n \in T : \A m \in T : n <= m
    BY <2>1, LeastOf
  <2> QED
    BY <2>2 DEF T
<1>4. n # i /\ n - 1 \in i .. 30 /\ n - 1 \in 0 .. 29
  BY <1>1, <1>3
<1>5. ~(Pow[n - 1] < Pow[i])
  BY <1>3, <1>4
<1>6. Pow[(n - 1) + 1] = 2 * Pow[n - 1]
  BY <1>4, Doubles
<1>7. (n - 1) + 1 = n
  BY <1>3
<1> QED
  BY <1>1, <1>3, <1>4, <1>5, <1>6, <1>7

LEMMA PowersAre == \A k \in 0 .. 30 : Pow[k] \in Nat \ {0}
<1> SUFFICES ASSUME NEW k \in 0 .. 30 PROVE Pow[k] \in Nat \ {0}
  OBVIOUS
<1>1. k \in k .. 30
  OBVIOUS
<1> QED
  BY <1>1, PowersGrow

(* The number of bits. *)
LEMMA BitsAre ==
  ASSUME NEW n \in Nat, NEW m \in 0 .. 30, n < Pow[m]
  PROVE  /\ Bits(n) \in 0 .. m /\ n < Pow[Bits(n)]
         /\ Bits(n) > 0 => n >= Pow[Bits(n) - 1]
<1> DEFINE Q(b) == n < Pow[b] /\ (b > 0 => n >= Pow[b - 1])
<1>1. PICK b \in {k \in 0 .. 30 : n < Pow[k]} : \A k \in {k \in 0 .. 30 : n < Pow[k]} : b <= k
  <2> DEFINE T == {k \in 0 .. 30 : n < Pow[k]}
  <2>1. T \in SUBSET Nat /\ T # {}
    OBVIOUS
  <2> HIDE DEF T
  <2>2. \E b \in T : \A k \in T : b <= k
    BY <2>1, LeastOf
  <2> QED
    BY <2>2 DEF T
<1>2. b \in 0 .. 30 /\ Q(b)
  <2>1. ASSUME b > 0 PROVE n >= Pow[b - 1]
    <3>1. b - 1 \in 0 .. 30 /\ ~(b <= b - 1)
      BY <1>1, <2>1
    <3>2. ~(n < Pow[b - 1])
      BY <1>1, <3>1
    <3>3. Pow[b - 1] \in Nat
      BY <3>1, PowersGrow
    <3> QED
      BY <3>2, <3>3
  <2> QED
    BY <1>1, <2>1
<1>3. Bits(n) = CHOOSE k \in 0 .. 30 : Q(k)
  <2>1. \A k \in 0 .. 30 : k > 0 => k - 1 \in 0 .. 30
    OBVIOUS
  <2>2. \A k \in 0 .. 30 : Pow[k] = 2 ^ k
    BY DEF Pow
  <2>3. \A k \in 0 .. 30 : k > 0 => Pow[k - 1] = 2 ^ (k - 1)
    BY <2>1, <2>2
  <2>4. \A k \in 0 .. 30 : Q(k) <=> (n < 2 ^ k /\ (k > 0 => n >= 2 ^ (k - 1)))
    BY <2>2, <2>3
  <2> QED
    BY <2>4 DEF Bits
<1> HIDE DEF Q
<1>4. Bits(n) \in 0 .. 30 /\ Q(Bits(n))
  BY <1>2, <1>3
<1>5. ASSUME Bits(n) > m PROVE FALSE
  <2>1. Bits(n) - 1 \in m .. 30 /\ n >= Pow[Bits(n) - 1]
    BY <1>4, <1>5 DEF Q
  <2>2. Pow[m] \in Nat /\ Pow[Bits(n) - 1] \in Nat /\ Pow[m] <= Pow[Bits(n) - 1]
    BY <2>1, PowersGrow
  <2> QED
    BY <2>1, <2>2
<1> QED
  BY <1>4, <1>5 DEF Q

(* Division with a remainder is unique. *)
LEMMA DivUnique ==
  ASSUME NEW n \in Nat \ {0}, NEW q \in Nat, NEW r \in 0 .. n - 1
  PROVE  (n * q + r) \div n = q /\ (n * q + r) % n = r
<1> DEFINE a == n * q + r
           d == a \div n
           m == a % n
<1>1. a \in Nat /\ d \in Nat /\ m \in 0 .. n - 1 /\ a = n * d + m
  OBVIOUS
<1>2. ASSUME d >= q + 1 PROVE FALSE
  <2>1. n * d >= n * (q + 1)
    BY ONLY <1>1, <1>2, n \in Nat \ {0}, q \in Nat
  <2> QED
    BY <2>1, <1>1
<1>3. ASSUME q >= d + 1 PROVE FALSE
  <2>1. n * q >= n * (d + 1)
    BY ONLY <1>1, <1>3, n \in Nat \ {0}, q \in Nat
  <2> QED
    BY <2>1, <1>1
<1>4. d = q
  BY <1>1, <1>2, <1>3
<1> QED
  BY <1>1, <1>4

(* The classes: all but the largest are within the limit, the largest is   *)
(* not, and an object of each fits on a page.                              *)
LEMMA ClassSizes ==
  /\ PAGE_SIZE \in Nat \ {0} /\ Limit \in Nat /\ Limit + 12 <= PAGE_SIZE /\ Largest \in Bin
  /\ Limit = 8 * Pow[Largest] /\ obj_size(Largest) > Limit
  /\ \A k \in Bin : /\ k \in 0 .. 27 /\ obj_size(k) = 8 * Pow[k] + 4
                    /\ obj_size(k) \in Nat \ {0} /\ obj_size(k) + 8 <= PAGE_SIZE
                    /\ k # Largest => obj_size(k) <= Limit
<1>1. NBINS \in 1 .. 28 /\ PAGE_SIZE \in Nat
  BY AllocAssumption
<1>2. Largest \in 0 .. 27 /\ Bin = 0 .. Largest
  BY <1>1 DEF Largest, Bin
<1>3. \A k \in 0 .. 27 : Pow[k] = 2 ^ k
  BY DEF Pow
<1>4. Limit = 8 * Pow[Largest]
  BY <1>2, <1>3 DEF Limit, Largest
<1>5. Limit + 12 <= PAGE_SIZE
  <2>1. PAGE_SIZE >= Limit + 12
    BY AllocAssumption DEF Limit
  <2>2. Pow[Largest] \in Nat
    <3>1. Largest \in 0 .. 30
      BY <1>2
    <3> QED
      BY <3>1, PowersAre
  <2> QED
    BY <2>1, <2>2, <1>1, <1>4
<1>6. ASSUME NEW k \in Bin PROVE obj_size(k) = 8 * Pow[k] + 4
  <2>1. k \in 0 .. 27
    BY <1>2
  <2>2. Pow[k] = 2 ^ k
    BY <1>3, <2>1
  <2> QED
    BY <2>2 DEF obj_size
<1>7. ASSUME NEW k \in Bin PROVE Pow[k] \in Nat \ {0} /\ Pow[Largest] \in Nat /\ Pow[k] <= Pow[Largest]
  <2>1. k \in 0 .. 30 /\ Largest \in k .. 30
    BY <1>2
  <2> QED
    BY <2>1, PowersGrow
<1>8. ASSUME NEW k \in Bin, k # Largest PROVE obj_size(k) <= Limit
  <2>1. k + 1 \in 0 .. 30 /\ Largest \in (k + 1) .. 30 /\ k \in 0 .. 29
    BY <1>2, <1>8
  <2>2. Pow[k + 1] = 2 * Pow[k] /\ Pow[k] \in Nat \ {0} /\ Pow[k + 1] <= Pow[Largest] /\ Pow[Largest] \in Nat
    BY <2>1, Doubles, PowersGrow
  <2> QED
    BY <2>2, <1>4, <1>6
<1>9. Largest \in Bin /\ \A k \in Bin : k \in 0 .. 27
  BY <1>2
<1>10. Limit \in Nat /\ PAGE_SIZE # 0 /\ obj_size(Largest) > Limit
  <2>1. Pow[Largest] \in Nat \ {0} /\ obj_size(Largest) = 8 * Pow[Largest] + 4
    BY <1>6, <1>7, <1>9
  <2> QED
    BY <2>1, <1>1, <1>4, <1>5
<1>11. ASSUME NEW k \in Bin PROVE obj_size(k) \in Nat \ {0} /\ obj_size(k) + 8 <= PAGE_SIZE
  BY <1>1, <1>4, <1>5, <1>6, <1>7
<1> QED
  BY <1>1, <1>4, <1>5, <1>6, <1>8, <1>9, <1>10, <1>11

(* A class that alloc picks holds what was asked for. *)
LEMMA BinIs ==
  ASSUME NEW n \in Nat, n <= Limit
  PROVE  alloc_get_bin(n) \in Bin /\ n <= obj_size(alloc_get_bin(n))
<1>1. CASE n <= 8
  <2>1. alloc_get_bin(n) = 0
    BY <1>1 DEF alloc_get_bin
  <2>2. 0 \in Bin
    BY AllocAssumption DEF Bin
  <2>3. Pow[0] \in Nat \ {0}
    BY Doubles
  <2>4. obj_size(0) = 8 * Pow[0] + 4
    BY <2>2, ClassSizes
  <2> QED
    BY <1>1, <2>1, <2>2, <2>3, <2>4
<1>2. CASE n > 8
  <2>1. NBINS \in 1 .. 28 /\ Largest = NBINS - 1 /\ Bin = 0 .. Largest
    BY AllocAssumption DEF Largest, Bin
  <2>2. \A k \in 0 .. 27 : Pow[k] \in Nat /\ Pow[k + 3] = 8 * Pow[k]
    <3> TAKE k \in 0 .. 27
    <3>1. k + 1 \in 0 .. 29 /\ k + 2 \in 0 .. 29 /\ k \in 0 .. 29
      OBVIOUS
    <3>2. Pow[k + 1] = 2 * Pow[k] /\ Pow[(k + 1) + 1] = 2 * Pow[k + 1] /\ Pow[(k + 2) + 1] = 2 * Pow[k + 2]
          /\ Pow[k] \in Nat
      BY <3>1, Doubles
    <3>3. (k + 1) + 1 = k + 2 /\ (k + 2) + 1 = k + 3
      OBVIOUS
    <3> QED
      BY <3>2, <3>3
  <2> DEFINE b == Bits(n - 1)
  <2>3. n - 1 \in Nat /\ Largest + 3 \in 0 .. 30 /\ n - 1 < Pow[Largest + 3]
    <3>1. Largest \in 0 .. 27
      BY <2>1
    <3>2. Pow[Largest + 3] = Limit /\ Limit \in Nat
      BY <3>1, <2>2, ClassSizes
    <3> QED
      BY <1>2, <3>1, <3>2
  <2>4. b \in 0 .. Largest + 3 /\ n - 1 < Pow[b]
    BY <2>3, BitsAre
  <2>5. b > 3
    <3>1. ASSUME b <= 3 PROVE FALSE
      <4>1. b \in 0 .. 30 /\ 3 \in b .. 30
        BY <3>1, <2>4
      <4>2. Pow[b] <= Pow[3] /\ Pow[b] \in Nat
        BY <4>1, PowersGrow
      <4>3. Pow[3] = 8
        BY DEF Pow
      <4> QED
        BY <4>2, <4>3, <2>4, <1>2
    <3> QED
      BY <3>1, <2>4, <2>1
  <2>6. PICK k \in Bin : k = b - 3 /\ b = k + 3
    BY <2>1, <2>4, <2>5
  <2>7. alloc_get_bin(n) = k
    BY <1>2, <2>6 DEF alloc_get_bin
  <2>8. Pow[b] = 8 * Pow[k] /\ Pow[k] \in Nat
    <3>1. k \in 0 .. 27
      BY <2>1
    <3> QED
      BY <3>1, <2>2, <2>6
  <2>9. obj_size(k) = 8 * Pow[k] + 4
    BY ClassSizes
  <2> QED
    BY <2>4, <2>7, <2>8, <2>9
<1> QED
  BY <1>1, <1>2

(* Pages follow each other: an address of a page stays one. *)
LEMMA WholePages ==
  ASSUME NEW a \in Nat, NEW n \in Nat, NEW r \in 0 .. PAGE_SIZE - 1, a % PAGE_SIZE = 0
  PROVE  a + n * PAGE_SIZE + r \in Nat /\ (a + n * PAGE_SIZE + r) % PAGE_SIZE = r
<1> DEFINE p == PAGE_SIZE
           d == a \div p
<1>1. p \in Nat \ {0} /\ d \in Nat /\ a = p * d
  <2>1. p \in Nat \ {0}
    BY ClassSizes
  <2>2. d \in Nat /\ a = p * d + (a % p)
    BY ONLY <2>1, a \in Nat
  <2> QED
    BY <2>1, <2>2
<1>2. a + n * p + r = p * (d + n) + r
  BY ONLY <1>1, n \in Nat, r \in 0 .. p - 1
<1>3. d + n \in Nat
  BY <1>1
<1>4. (p * (d + n) + r) % p = r
  BY ONLY <1>1, <1>3, DivUnique, r \in 0 .. p - 1
<1>5. p * (d + n) \in Nat
  BY ONLY <1>1, <1>3
<1> QED
  BY <1>1, <1>2, <1>4, <1>5

(* Pages enough for n bytes. *)
LEMMA PagesEnough ==
  ASSUME NEW n \in Nat \ {0}
  PROVE  /\ DIV_ROUND_UP(n, PAGE_SIZE) \in Nat \ {0}
         /\ n <= DIV_ROUND_UP(n, PAGE_SIZE) * PAGE_SIZE
         /\ DIV_ROUND_UP(n, PAGE_SIZE) * PAGE_SIZE \in Nat
         /\ PAGE_SIZE <= DIV_ROUND_UP(n, PAGE_SIZE) * PAGE_SIZE
<1> DEFINE p == PAGE_SIZE
           d == (n + p - 1) \div p
<1>1. p \in Nat \ {0}
  BY ClassSizes
<1>2. n + p - 1 \in Nat /\ d \in Nat /\ (n + p - 1) % p \in 0 .. p - 1
  BY <1>1
<1>3. n + p - 1 = p * d + ((n + p - 1) % p)
  BY ONLY <1>1, n \in Nat
<1>4. p * d = d * p /\ d * p \in Nat
  BY ONLY <1>1, <1>2
<1>5. n <= d * p
  BY ONLY <1>1, <1>2, <1>3, <1>4, n \in Nat
<1>6. d # 0
  <2>1. ASSUME d = 0 PROVE FALSE
    <3>1. d * p = 0
      BY ONLY <2>1, <1>1
    <3> QED
      BY <3>1, <1>5
  <2> QED
    BY <2>1
<1>7. p <= d * p
  <2>1. d >= 1
    BY <1>2, <1>6
  <2> QED
    BY ONLY <2>1, <1>1, <1>2
<1> QED
  BY <1>2, <1>4, <1>5, <1>6, <1>7 DEF DIV_ROUND_UP

----------------------------------------------------------------------------
(* Where the objects of a slab are. *)
LEMMA ObjectAt ==
  ASSUME NEW k \in Bin, NEW buffer \in Nat, NEW o \in Objects(k, buffer)
  PROVE  \E q \in 0 .. SLAB_PAGE_COUNT - 1, r \in Nat :
           /\ o = buffer + q * PAGE_SIZE + r * obj_size(k)
           /\ r * obj_size(k) \in Nat /\ r * obj_size(k) + obj_size(k) <= PAGE_SIZE - 8
<1> DEFINE s == obj_size(k)
           p == PAGE_SIZE
           c == SLAB_PAGE_COUNT
           n == objs_per_page(k)
<1>1. s \in Nat \ {0} /\ p \in Nat \ {0} /\ s + 8 <= p /\ c \in Nat \ {0}
  BY ClassSizes, AllocAssumption
<1>2. n \in Nat \ {0} /\ n * s <= p - 8
  <2> DEFINE e == p - 8
  <2>1. e \in Nat /\ s <= e
    BY <1>1
  <2>2. n = e \div s
    BY DEF objs_per_page
  <2>3. n \in Nat /\ e = s * n + (e % s) /\ e % s \in 0 .. s - 1
    BY ONLY <1>1, <2>1, <2>2
  <2>4. n * s = s * n /\ s * n \in Nat
    BY ONLY <1>1, <2>3
  <2>5. n # 0
    <3>1. ASSUME n = 0 PROVE FALSE
      <4>1. s * n = 0
        BY ONLY <3>1, <1>1
      <4> QED
        BY ONLY <4>1, <2>1, <2>3, <1>1
    <3> QED
      BY <3>1
  <2>6. n * s <= e
    BY ONLY <2>1, <2>3, <2>4, <1>1
  <2> QED
    BY <2>3, <2>5, <2>6
<1>3. PICK i \in 0 .. n * c - 1 : o = buffer + (i \div n) * p + (i % n) * s
  BY DEF Objects, SLAB_OBJ
<1> DEFINE q == i \div n
           r == i % n
<1>4. q \in Nat /\ r \in 0 .. n - 1 /\ i = n * q + r
  <2>1. i \in Nat
    BY <1>1, <1>2, <1>3
  <2> QED
    BY ONLY <2>1, <1>2
<1>5. q <= c - 1
  <2>1. ASSUME q >= c PROVE FALSE
    <3> HIDE DEF q, n, r
    <3>1. c * n <= q * n /\ q * n \in Nat /\ c * n \in Nat
      BY <2>1, <1>1, <1>2, <1>4, TimesGrow
    <3>2. n * q = q * n /\ n * c = c * n
      BY ONLY <1>1, <1>2, <1>4
    <3> QED
      BY ONLY <3>1, <3>2, <1>3, <1>4, <1>2
  <2> QED
    BY <2>1, <1>1, <1>4
<1>6. r * s \in Nat /\ r * s + s <= p - 8
  <2>1. r + 1 <= n
    BY <1>2, <1>4
  <2>2. r \in Nat /\ n \in Nat /\ s \in Nat /\ r < n
    BY <1>1, <1>2, <1>4
  <2> HIDE DEF r, n, s
  <2>3. r * s + s <= n * s /\ r * s \in Nat /\ n * s \in Nat
    BY <2>2, TimesGrow
  <2> QED
    BY ONLY <2>2, <2>3, <1>1, <1>2
<1>7. q \in 0 .. c - 1 /\ r \in Nat /\ o = buffer + q * p + r * s
  BY <1>1, <1>2, <1>3, <1>4, <1>5
<1> HIDE DEF q, r, n
<1> QED
  BY <1>6, <1>7

(* An object lies in the pages of its slab and in front of the last eight  *)
(* bytes of its page.                                                      *)
LEMMA ObjectFits ==
  ASSUME NEW k \in Bin, NEW buffer \in Nat, buffer % PAGE_SIZE = 0, NEW o \in Objects(k, buffer)
  PROVE  /\ o \in Nat /\ buffer <= o /\ o + obj_size(k) <= buffer + SLAB_PAGE_COUNT * PAGE_SIZE
         /\ SLAB_PAGE_COUNT * PAGE_SIZE \in Nat
         /\ o % PAGE_SIZE \in Nat /\ (o % PAGE_SIZE) + obj_size(k) <= PAGE_SIZE - 8
<1> DEFINE s == obj_size(k)
           p == PAGE_SIZE
           c == SLAB_PAGE_COUNT
<1>1. s \in Nat \ {0} /\ p \in Nat \ {0} /\ s + 8 <= p /\ c \in Nat \ {0}
  BY ClassSizes, AllocAssumption
<1>2. PICK q \in 0 .. c - 1, r \in Nat :
        /\ o = buffer + q * p + r * s
        /\ r * s \in Nat /\ r * s + s <= p - 8
  BY ObjectAt
<1>3. PICK x \in Nat : x = r * s /\ x + s <= p - 8 /\ o = buffer + q * p + x
  BY <1>2
<1>4. q \in Nat /\ q * p \in Nat /\ c * p \in Nat /\ q * p + p <= c * p
  <2>1. q \in Nat /\ q + 1 <= c
    BY <1>1, <1>2
  <2>2. (q + 1) * p <= c * p /\ (q + 1) * p = q * p + p /\ q * p \in Nat /\ c * p \in Nat
    BY ONLY <2>1, <1>1
  <2> QED
    BY <2>1, <2>2
<1>5. o \in Nat /\ buffer <= o /\ o + s <= buffer + c * p
  BY ONLY <1>1, <1>3, <1>4, buffer \in Nat
<1>6. x \in 0 .. p - 1
  BY <1>1, <1>3
<1>7. (buffer + q * p + x) % p = x
  BY <1>4, <1>6, WholePages
<1> QED
  BY <1>1, <1>3, <1>4, <1>5, <1>7

(* Objects of a slab do not share a byte. *)
LEMMA ObjectsApart ==
  ASSUME NEW k \in Bin, NEW buffer \in Nat, NEW o \in Objects(k, buffer), NEW w \in Objects(k, buffer),
         o # w
  PROVE  o + obj_size(k) <= w \/ w + obj_size(k) <= o
<1> DEFINE s == obj_size(k)
           p == PAGE_SIZE
           c == SLAB_PAGE_COUNT
<1>1. s \in Nat \ {0} /\ p \in Nat \ {0} /\ s + 8 <= p /\ c \in Nat \ {0}
  BY ClassSizes, AllocAssumption
<1>2. PICK q \in 0 .. c - 1, r \in Nat :
        /\ o = buffer + q * p + r * s
        /\ r * s \in Nat /\ r * s + s <= p - 8
  BY ObjectAt
<1>3. PICK u \in 0 .. c - 1, v \in Nat :
        /\ w = buffer + u * p + v * s
        /\ v * s \in Nat /\ v * s + s <= p - 8
  BY ObjectAt
<1>4. q \in Nat /\ u \in Nat /\ q * p \in Nat /\ u * p \in Nat
  BY <1>1, <1>2, <1>3, TimesGrow
<1>10. PICK x \in Nat : x = r * s /\ x + s <= p - 8 /\ o = buffer + q * p + x
  BY <1>2
<1>11. PICK y \in Nat : y = v * s /\ y + s <= p - 8 /\ w = buffer + u * p + y
  BY <1>3
<1>5. CASE q < u
  <2>1. q * p + p <= u * p
    BY <1>1, <1>4, <1>5, TimesGrow
  <2> QED
    BY ONLY <2>1, <1>1, <1>10, <1>11, <1>4, buffer \in Nat
<1>6. CASE u < q
  <2>1. u * p + p <= q * p
    BY <1>1, <1>4, <1>6, TimesGrow
  <2>2. PICK d \in Nat, e \in Nat : d = q * p /\ e = u * p /\ e + p <= d
    BY <2>1, <1>4
  <2>3. o = buffer + d + x /\ w = buffer + e + y /\ y + s <= p - 8
    BY <2>2, <1>10, <1>11
  <2>4. w + s <= o
    BY ONLY <2>2, <2>3, <1>1, x \in Nat, y \in Nat, buffer \in Nat
  <2> QED
    BY <2>4
<1>7. CASE q = u /\ r < v
  <2>1. r * s + s <= v * s
    BY <1>1, <1>2, <1>3, <1>7, TimesGrow
  <2> QED
    BY ONLY <2>1, <1>1, <1>10, <1>11, <1>4, <1>7, buffer \in Nat
<1>8. CASE q = u /\ v < r
  <2>1. v * s + s <= r * s
    BY <1>1, <1>2, <1>3, <1>8, TimesGrow
  <2> QED
    BY ONLY <2>1, <1>1, <1>10, <1>11, <1>4, <1>8, buffer \in Nat
<1>9. q # u \/ r # v
  BY <1>2, <1>3
<1> QED
  BY <1>2, <1>3, <1>4, <1>5, <1>6, <1>7, <1>8, <1>9

----------------------------------------------------------------------------
(* The regions of the heap are whole pages, apart from each other. *)
RegionType == [base : Nat, pages : Nat \ {0}]
Regions ==
  /\ regions \subseteq RegionType
  /\ \A r \in regions : r.base % PAGE_SIZE = 0 /\ End(r) <= MaxPages * PAGE_SIZE
  /\ \A r, s \in regions : r # s => End(r) <= s.base \/ End(s) <= r.base

(* A class has slabs once its cache is made, and no two classes share one. *)
SlabRegion(buffer) == [base |-> buffer, pages |-> SLAB_PAGE_COUNT]
AllObjects(k) == UNION {Objects(k, buffer) : buffer \in slabs[k]}
Slabs ==
  /\ nbins \in 0 .. NBINS
  /\ slabs \in [Bin -> SUBSET Nat]
  /\ \A k \in Bin : \A buffer \in slabs[k] : buffer % PAGE_SIZE = 0 /\ k < nbins
  /\ \A j, k \in Bin : j # k => slabs[j] \intersect slabs[k] = {}
  /\ Intact => \A k \in Bin : \A buffer \in slabs[k] : SlabRegion(buffer) \in regions

(* A block is an object that its cache does not have, or a region that is  *)
(* no slab; it has as much as was asked for.                               *)
BlockType == [ptr : Nat, size : Sizes, header : Nat, from : Bin \union {PAGES}]
PagesOf(b) == [base |-> off_ptr(b), pages |-> DIV_ROUND_UP(b.size + 4, PAGE_SIZE)]
IsRegion(b) ==
  /\ PagesOf(b) \in regions /\ b.header = PagesOf(b).pages * PAGE_SIZE
  /\ \A k \in Bin : off_ptr(b) \notin slabs[k]
IsObject(b) ==
  /\ off_ptr(b) \in AllObjects(b.from) \ cached[b.from]
  /\ b.header = obj_size(b.from) /\ b.size + 4 <= obj_size(b.from)
Blocks ==
  /\ blocks \subseteq BlockType
  /\ \A b \in blocks :
       /\ b.ptr >= 4
       /\ b.from = PAGES => IsRegion(b)
       /\ b.from # PAGES => IsObject(b)
  /\ \A b, d \in blocks : b.from = d.from /\ b.ptr = d.ptr => b = d

(* An object is in one place; those of the largest class do not come back. *)
HeldOf(k) == {off_ptr(b) : b \in {d \in blocks : d.from = k}}
Objs ==
  /\ cached \in [Bin -> SUBSET Nat]
  /\ \A k \in Bin : cached[k] \subseteq AllObjects(k)
  /\ \A k \in Bin \ {Largest} : AllObjects(k) \subseteq cached[k] \union HeldOf(k)
  /\ dropped \subseteq AllObjects(Largest)
  /\ Intact => AllObjects(Largest) \ (cached[Largest] \union HeldOf(Largest)) = dropped

AllocInv == Regions /\ Slabs /\ Blocks /\ Objs

----------------------------------------------------------------------------
(* A region has pages. *)
LEMMA RegionIs ==
  ASSUME NEW r \in RegionType
  PROVE  /\ r.base \in Nat /\ r.pages \in Nat \ {0} /\ r.pages * PAGE_SIZE \in Nat
         /\ End(r) \in Nat /\ End(r) = r.base + r.pages * PAGE_SIZE /\ r.base < End(r)
         /\ r = [base |-> r.base, pages |-> r.pages]
         /\ r.base % PAGE_SIZE = 0 => End(r) % PAGE_SIZE = 0
<1>1. /\ r.base \in Nat /\ r.pages \in Nat \ {0}
      /\ r = [base |-> r.base, pages |-> r.pages]
  BY DEF RegionType
<1>2. PAGE_SIZE \in Nat \ {0}
  BY ClassSizes
<1>3. r.pages * PAGE_SIZE \in Nat /\ 0 * PAGE_SIZE + PAGE_SIZE <= r.pages * PAGE_SIZE
  <2>1. 0 < r.pages
    BY <1>1
  <2> QED
    BY <1>1, <1>2, <2>1, TimesGrow
<1>4. 0 * PAGE_SIZE = 0
  BY <1>2
<1>5. End(r) \in Nat /\ End(r) = r.base + r.pages * PAGE_SIZE /\ r.base < End(r)
  BY <1>1, <1>2, <1>3, <1>4 DEF End
<1>6. ASSUME r.base % PAGE_SIZE = 0 PROVE End(r) % PAGE_SIZE = 0
  <2>1. 0 \in 0 .. PAGE_SIZE - 1
    BY <1>2
  <2>2. (r.base + r.pages * PAGE_SIZE + 0) % PAGE_SIZE = 0
    BY <1>1, <1>6, <2>1, WholePages
  <2>3. r.base + r.pages * PAGE_SIZE + 0 = End(r)
    BY <1>1, <1>3, <1>5
  <2> QED
    BY <2>2, <2>3
<1> QED
  BY <1>1, <1>3, <1>5, <1>6

(* The lowest hole is one. *)
Placed(base, pages) ==
  /\ base \in Nat /\ base % PAGE_SIZE = 0 /\ Fits(base, pages)
  /\ base + pages * PAGE_SIZE <= MaxPages * PAGE_SIZE
LEMMA NewRegion ==
  ASSUME Regions, NEW pages \in Nat \ {0}, CanAlloc(pages)
  PROVE  Placed(NewBase(pages), pages)
<1> DEFINE H == Holes(pages)
<1>1. ASSUME NEW base \in H PROVE Placed(base, pages)
  <2>1. CASE base = 0
    <3>1. 0 % PAGE_SIZE = 0
      BY ClassSizes
    <3> QED
      BY <1>1, <2>1, <3>1 DEF Holes, Placed
  <2>2. CASE \E r \in regions : base = End(r)
    <3>1. PICK r \in regions : base = End(r)
      BY <2>2
    <3>2. r \in RegionType /\ r.base % PAGE_SIZE = 0
      BY DEF Regions
    <3>3. base \in Nat /\ base % PAGE_SIZE = 0
      BY <3>1, <3>2, RegionIs
    <3> QED
      BY <1>1, <3>3 DEF Holes, Placed
  <2> QED
    BY <1>1, <2>1, <2>2 DEF Holes
<1>2. H \in SUBSET Nat /\ H # {}
  BY <1>1 DEF Placed, CanAlloc
<1> HIDE DEF H
<1>3. \E n \in H : \A m \in H : n <= m
  BY <1>2, LeastOf
<1>4. Min(H) \in H
  BY <1>3 DEF Min
<1>5. NewBase(pages) = Min(H)
  BY DEF NewBase, H
<1> QED
  BY <1>1, <1>4, <1>5

(* A region that is placed is apart from the others. *)
LEMMA RegionAdded ==
  ASSUME Regions, NEW pages \in Nat \ {0}, NEW base, Placed(base, pages),
         regions' = regions \union {[base |-> base, pages |-> pages]}
  PROVE  Regions' /\ \A r \in regions : r.base # base
<1> DEFINE w == [base |-> base, pages |-> pages]
<1>1. w \in RegionType /\ w.base = base /\ w.pages = pages
  BY DEF RegionType, Placed
<1>2. /\ End(w) = base + pages * PAGE_SIZE /\ End(w) <= MaxPages * PAGE_SIZE
      /\ base \in Nat /\ base % PAGE_SIZE = 0 /\ base < End(w) /\ End(w) \in Nat
  <2>1. End(w) \in Nat /\ w.base < End(w)
    BY <1>1, RegionIs
  <2> QED
    BY <1>1, <2>1 DEF Placed, End
<1>3. ASSUME NEW r \in regions PROVE End(r) <= w.base \/ End(w) <= r.base
  BY <1>1, <1>2 DEF Placed, Fits
<1>4. ASSUME NEW r \in regions PROVE r.base # base
  <2>1. r \in RegionType
    BY DEF Regions
  <2>2. r.base \in Nat /\ End(r) \in Nat /\ r.base < End(r)
    BY <2>1, RegionIs
  <2> QED
    BY <1>1, <1>2, <1>3, <2>2
<1> HIDE DEF w
<1>5. regions' = regions \union {w}
  BY DEF w
<1>6. Regions'
  BY <1>1, <1>2, <1>3, <1>5 DEF Regions
<1> QED
  BY <1>4, <1>6

(* Giving one back leaves the others. *)
LEMMA RegionRemoved ==
  ASSUME Regions, regions' \subseteq regions
  PROVE  Regions'
BY DEF Regions

(* Objects of different slabs are in different pages. *)
LEMMA ObjectsOfSlabsDiffer ==
  ASSUME Regions, NEW a \in Nat, NEW d \in Nat, a # d, a % PAGE_SIZE = 0, d % PAGE_SIZE = 0,
         SlabRegion(a) \in regions,
         SlabRegion(d) \in regions \/ Placed(d, SLAB_PAGE_COUNT),
         NEW j \in Bin, NEW k \in Bin
  PROVE  /\ Objects(j, a) \intersect Objects(k, d) = {}
         /\ \A o \in Objects(j, a), w \in Objects(k, d) :
              o + obj_size(j) <= w \/ w + obj_size(k) <= o
<1> DEFINE c == SLAB_PAGE_COUNT * PAGE_SIZE
<1>1. a + c <= d \/ d + c <= a
  <2>1. End(SlabRegion(a)) = a + c /\ End(SlabRegion(d)) = d + c /\ SlabRegion(a) # SlabRegion(d)
        /\ SlabRegion(a).base = a /\ SlabRegion(d).base = d
    BY DEF SlabRegion, End
  <2>2. CASE SlabRegion(d) \in regions
    BY <2>1, <2>2 DEF Regions
  <2>3. CASE Placed(d, SLAB_PAGE_COUNT)
    BY <2>1, <2>3 DEF Placed, Fits
  <2> QED
    BY <2>2, <2>3
<1>2. ASSUME NEW o \in Objects(j, a), NEW w \in Objects(k, d)
      PROVE  o # w /\ (o + obj_size(j) <= w \/ w + obj_size(k) <= o)
  <2>1. o \in Nat /\ a <= o /\ o + obj_size(j) <= a + c /\ c \in Nat
    BY ObjectFits
  <2>2. w \in Nat /\ d <= w /\ w + obj_size(k) <= d + c
    BY ObjectFits
  <2>3. obj_size(j) \in Nat \ {0} /\ obj_size(k) \in Nat \ {0}
    BY ClassSizes
  <2> HIDE DEF c
  <2> QED
    BY <1>1, <2>1, <2>2, <2>3
<1> QED
  BY <1>2

----------------------------------------------------------------------------
LEMMA InitHolds == Init => AllocInv
<1> SUFFICES ASSUME Init PROVE AllocInv
  OBVIOUS
<1>1. Regions
  BY DEF Init, Regions
<1>2. Slabs
  BY AllocAssumption DEF Init, Slabs
<1>3. Blocks
  BY DEF Init, Blocks
<1>4. \A k \in Bin : AllObjects(k) = {}
  BY DEF Init, AllObjects
<1>5. Largest \in Bin
  BY ClassSizes
<1>6. Objs
  BY <1>4, <1>5 DEF Init, Objs
<1> QED
  BY <1>1, <1>2, <1>3, <1>6 DEF AllocInv

(* A slab of a class that is new takes nothing from what there is. *)
SlabGrown(k, buffer) ==
  /\ Regions' /\ Slabs'
  /\ AllObjects(k)' = AllObjects(k) \union Objects(k, buffer)
  /\ \A j \in Bin \ {k} : AllObjects(j)' = AllObjects(j)
  /\ AllObjects(k) \intersect Objects(k, buffer) = {}
  /\ \A b \in blocks : IsRegion(b) => IsRegion(b)'
LEMMA SlabAdded ==
  ASSUME Regions, Slabs, Intact, NEW k \in Bin, NEW buffer, Placed(buffer, SLAB_PAGE_COUNT),
         regions' = regions \union {SlabRegion(buffer)},
         slabs' = [slabs EXCEPT ![k] = @ \union {buffer}],
         nbins' \in 0 .. NBINS, nbins <= nbins', k < nbins'
  PROVE  SlabGrown(k, buffer)
<1>1. SLAB_PAGE_COUNT \in Nat \ {0} /\ NBINS \in 1 .. 28
  BY AllocAssumption
<1>2. Regions' /\ \A r \in regions : r.base # buffer
  BY <1>1, RegionAdded DEF SlabRegion
<1>3. buffer \in Nat /\ buffer % PAGE_SIZE = 0
  BY DEF Placed
<1>4. \A j \in Bin : \A a \in slabs[j] :
        a \in Nat /\ a % PAGE_SIZE = 0 /\ SlabRegion(a) \in regions /\ a # buffer
  BY <1>2 DEF Slabs, SlabRegion
<1>5. /\ slabs'[k] = slabs[k] \union {buffer}
      /\ \A j \in Bin \ {k} : slabs'[j] = slabs[j]
      /\ slabs' \in [Bin -> SUBSET Nat]
  BY <1>3 DEF Slabs
<1>6. Slabs'
  <2>1. nbins \in 0 .. NBINS /\ k \in Nat
    BY <1>1 DEF Slabs, Bin
  <2>2. \A j \in Bin : \A a \in slabs'[j] : a % PAGE_SIZE = 0 /\ j < nbins'
    <3> SUFFICES ASSUME NEW j \in Bin, NEW a \in slabs'[j]
                 PROVE  a % PAGE_SIZE = 0 /\ j < nbins'
      OBVIOUS
    <3>1. j \in Nat /\ nbins \in Nat /\ nbins' \in Nat
      BY <2>1, <1>1 DEF Bin
    <3>2. CASE a \in slabs[j]
      BY <3>1, <3>2 DEF Slabs
    <3>3. CASE a \notin slabs[j]
      BY <1>3, <1>5, <3>3
    <3> QED
      BY <3>2, <3>3
  <2>3. \A i, j \in Bin : i # j => slabs'[i] \intersect slabs'[j] = {}
    BY <1>4, <1>5 DEF Slabs
  <2>4. \A j \in Bin : \A a \in slabs'[j] : SlabRegion(a) \in regions'
    BY <1>4, <1>5
  <2> QED
    BY <1>5, <2>2, <2>3, <2>4 DEF Slabs
<1>7. AllObjects(k)' = AllObjects(k) \union Objects(k, buffer)
  BY <1>5 DEF AllObjects
<1>8. \A j \in Bin \ {k} : AllObjects(j)' = AllObjects(j)
  BY <1>5 DEF AllObjects
<1>9. AllObjects(k) \intersect Objects(k, buffer) = {}
  <2>1. ASSUME NEW a \in slabs[k] PROVE Objects(k, a) \intersect Objects(k, buffer) = {}
    BY <1>3, <1>4, ObjectsOfSlabsDiffer
  <2> QED
    BY <2>1 DEF AllObjects
<1>10. ASSUME NEW b \in blocks, IsRegion(b) PROVE IsRegion(b)'
  <2>1. PagesOf(b)' = PagesOf(b) /\ off_ptr(b)' = off_ptr(b) /\ PagesOf(b).base = off_ptr(b)
    BY DEF PagesOf, off_ptr
  <2>2. PagesOf(b) \in regions /\ off_ptr(b) # buffer
    BY <1>2, <1>10, <2>1 DEF IsRegion
  <2>3. \A j \in Bin : off_ptr(b) \notin slabs'[j]
    BY <1>5, <1>10, <2>2 DEF IsRegion
  <2> QED
    BY <1>10, <2>1, <2>2, <2>3 DEF IsRegion
<1> QED
  BY <1>2, <1>6, <1>7, <1>8, <1>9, <1>10 DEF SlabGrown

(* What blocks keep when nothing that they stand for changes. *)
LEMMA HeldSame ==
  ASSUME NEW k, {b \in blocks' : b.from = k} = {b \in blocks : b.from = k}
  PROVE  HeldOf(k)' = HeldOf(k)
BY DEF HeldOf, off_ptr

LEMMA InitStep ==
  ASSUME AllocInv, Intact, alloc_init
  PROVE  AllocInv'
<1> PICK buffer : buffer = NewBase(SLAB_PAGE_COUNT)
  OBVIOUS
<1>1. /\ CanAlloc(SLAB_PAGE_COUNT) /\ regions' = regions \union {SlabRegion(buffer)}
      /\ slabs' = [slabs EXCEPT ![nbins] = {buffer}]
      /\ cached' = [cached EXCEPT ![nbins] = Objects(nbins, buffer)]
      /\ nbins' = nbins + 1 /\ nbins # NBINS /\ blocks' = blocks /\ dropped' = dropped
  BY DEF alloc_init, vmm_alloc, SlabRegion, alloc_initialized
<1>2. Regions /\ Slabs /\ Blocks /\ Objs
  BY DEF AllocInv
<1>3. PICK k \in Bin : k = nbins
  BY <1>1, <1>2, AllocAssumption DEF Slabs, Bin
<1>4. Placed(buffer, SLAB_PAGE_COUNT)
  BY <1>1, <1>2, AllocAssumption, NewRegion
<1>5. slabs[k] = {} /\ AllObjects(k) = {} /\ cached[k] = {}
  <2>1. nbins \in Nat /\ ~(nbins < nbins)
    BY <1>2, AllocAssumption DEF Slabs
  <2>2. slabs[k] = {}
    BY <1>2, <1>3, <2>1 DEF Slabs
  <2>3. AllObjects(k) = {}
    BY <2>2 DEF AllObjects
  <2> QED
    BY <1>2, <2>2, <2>3 DEF Objs
<1>6. SlabGrown(k, buffer)
  <2>1. slabs' = [slabs EXCEPT ![k] = @ \union {buffer}]
    BY <1>1, <1>3, <1>5
  <2>2. nbins' \in 0 .. NBINS /\ nbins <= nbins' /\ k < nbins'
    <3>1. NBINS \in 1 .. 28 /\ nbins \in 0 .. NBINS
      BY <1>2, AllocAssumption DEF Slabs
    <3> QED
      BY <1>1, <1>3, <3>1
  <2> QED
    BY <1>1, <1>2, <1>4, <2>1, <2>2, SlabAdded
<1>7. /\ cached' \in [Bin -> SUBSET Nat] /\ cached'[k] = Objects(k, buffer)
      /\ \A j \in Bin \ {k} : cached'[j] = cached[j]
  <2>1. Objects(k, buffer) \subseteq Nat
    BY <1>4, ObjectFits DEF Placed
  <2> QED
    BY <1>1, <1>2, <1>3, <2>1 DEF Objs
<1>8. AllObjects(k)' = Objects(k, buffer) /\ \A j \in Bin \ {k} : AllObjects(j)' = AllObjects(j)
  BY <1>5, <1>6 DEF SlabGrown
<1>9. \A j \in Bin : HeldOf(j)' = HeldOf(j)
  BY <1>1, HeldSame
<1>10. Blocks'
  <2>1. ASSUME NEW b \in blocks, b.from # PAGES PROVE IsObject(b)'
    <3>1. IsObject(b) /\ b.from \in Bin
      BY <1>2, <2>1 DEF Blocks, BlockType
    <3>2. b.from # k
      BY <1>5, <3>1 DEF IsObject
    <3> QED
      BY <1>7, <1>8, <3>1, <3>2 DEF IsObject, off_ptr
  <2>2. ASSUME NEW b \in blocks, b.from = PAGES PROVE IsRegion(b)'
    BY <1>2, <1>6, <2>2 DEF Blocks, SlabGrown
  <2> QED
    BY <1>1, <1>2, <2>1, <2>2 DEF Blocks
<1>11. Objs'
  <2>1. \A j \in Bin : cached'[j] \subseteq AllObjects(j)'
    BY <1>2, <1>7, <1>8 DEF Objs
  <2>2. \A j \in Bin \ {Largest} : AllObjects(j)' \subseteq cached'[j] \union HeldOf(j)'
    BY <1>2, <1>7, <1>8, <1>9 DEF Objs
  <2>3. Largest \in Bin
    BY ClassSizes
  <2>4. dropped' \subseteq AllObjects(Largest)'
    BY <1>1, <1>2, <1>5, <1>8, <2>3 DEF Objs
  <2>5. AllObjects(Largest)' \ (cached'[Largest] \union HeldOf(Largest)') = dropped'
    BY <1>1, <1>2, <1>5, <1>7, <1>8, <1>9, <2>3 DEF Objs
  <2> QED
    BY <1>7, <2>1, <2>2, <2>4, <2>5 DEF Objs
<1> QED
  BY <1>6, <1>10, <1>11 DEF AllocInv, SlabGrown

LEMMA PagesStep ==
  ASSUME AllocInv, Intact, NEW size \in Sizes, AllocPages(size)
  PROVE  AllocInv'
<1> PICK pages : pages = DIV_ROUND_UP(size + 4, PAGE_SIZE)
  OBVIOUS
<1> PICK base : base = NewBase(pages)
  OBVIOUS
<1> DEFINE w == [ptr |-> base + 4, size |-> size, header |-> pages * PAGE_SIZE, from |-> PAGES]
<1>1. /\ CanAlloc(pages) /\ regions' = regions \union {[base |-> base, pages |-> pages]}
      /\ blocks' = blocks \union {w}
      /\ nbins' = nbins /\ slabs' = slabs /\ cached' = cached /\ dropped' = dropped
  BY DEF AllocPages, vmm_alloc, Give
<1>2. Regions /\ Slabs /\ Blocks /\ Objs
  BY DEF AllocInv
<1>3. size \in Nat /\ pages \in Nat \ {0} /\ pages * PAGE_SIZE \in Nat
  <2>1. size \in Nat /\ size + 4 \in Nat \ {0}
    BY AllocAssumption
  <2> QED
    BY <2>1, PagesEnough
<1>4. Placed(base, pages)
  BY <1>1, <1>2, <1>3, NewRegion
<1>5. Regions' /\ \A r \in regions : r.base # base
  BY <1>1, <1>2, <1>3, <1>4, RegionAdded
<1>6. /\ w \in BlockType /\ w.ptr = base + 4 /\ w.size = size /\ w.header = pages * PAGE_SIZE
      /\ w.from = PAGES /\ base \in Nat /\ off_ptr(w) = base
  BY <1>3, <1>4 DEF BlockType, Placed, off_ptr
<1> HIDE DEF w
<1>7. PAGES \notin Bin
  BY AllocAssumption DEF PAGES, Bin
<1>8. \A j \in Bin : AllObjects(j)' = AllObjects(j) /\ HeldOf(j)' = HeldOf(j)
  <2>1. ASSUME NEW j \in Bin PROVE {b \in blocks' : b.from = j} = {b \in blocks : b.from = j}
    BY <1>1, <1>6, <1>7
  <2> QED
    BY <1>1, <2>1, HeldSame DEF AllObjects
<1>9. \A j \in Bin : \A a \in slabs[j] : a # base /\ SlabRegion(a) \in regions
  BY <1>2, <1>5 DEF Slabs, SlabRegion
<1>10. Slabs'
  BY <1>1, <1>2, <1>9 DEF Slabs
<1>11. IsRegion(w)'
  <2>1. PagesOf(w) = [base |-> base, pages |-> pages] /\ PagesOf(w).pages = pages
    BY <1>6 DEF PagesOf
  <2>2. PagesOf(w)' = PagesOf(w)
    BY DEF PagesOf, off_ptr
  <2> QED
    BY <1>1, <1>6, <1>9, <2>1 DEF IsRegion
<1>12. Blocks'
  <2>1. ASSUME NEW b \in blocks, b.from = PAGES PROVE IsRegion(b)' /\ b.ptr # base + 4
    <3>1. IsRegion(b) /\ b.ptr \in Nat
      BY <1>2, <2>1 DEF Blocks, BlockType
    <3>2. PagesOf(b) \in regions /\ PagesOf(b).base = b.ptr - 4
      BY <3>1 DEF IsRegion, PagesOf, off_ptr
    <3>3. b.ptr - 4 # base
      BY <1>5, <3>2
    <3> QED
      BY <1>1, <1>6, <3>1, <3>3 DEF IsRegion, PagesOf, off_ptr
  <2>2. ASSUME NEW b \in blocks, b.from # PAGES PROVE IsObject(b)'
    <3>1. IsObject(b) /\ b.from \in Bin
      BY <1>2, <2>2 DEF Blocks, BlockType
    <3> QED
      BY <1>1, <1>8, <3>1 DEF IsObject, off_ptr
  <2>3. \A b, d \in blocks' : b.from = d.from /\ b.ptr = d.ptr => b = d
    BY <1>1, <1>2, <1>6, <2>1 DEF Blocks
  <2>4. blocks' \subseteq BlockType
    BY <1>1, <1>2, <1>6 DEF Blocks
  <2>5. w.ptr >= 4
    BY <1>6
  <2>6. ASSUME NEW b \in blocks'
        PROVE  b.ptr >= 4 /\ (b.from = PAGES => IsRegion(b)') /\ (b.from # PAGES => IsObject(b)')
    BY <1>1, <1>2, <1>6, <1>11, <2>1, <2>2, <2>5 DEF Blocks
  <2> QED
    BY <2>3, <2>4, <2>6 DEF Blocks
<1>13. Objs'
  <2>1. Largest \in Bin
    BY ClassSizes
  <2> QED
    BY <1>1, <1>2, <1>8, <2>1 DEF Objs
<1> QED
  BY <1>5, <1>10, <1>12, <1>13 DEF AllocInv

(* A caller gets an object that is with the cache of its class. *)
LEMMA Taken ==
  ASSUME NEW k \in Bin, NEW size \in Sizes, NEW o \in Nat, size + 4 <= obj_size(k),
         Slabs', Blocks, Regions',
         \A b \in blocks : IsRegion(b) => IsRegion(b)',
         \A j \in Bin \ {k} : AllObjects(j)' = AllObjects(j) /\ cached'[j] = cached[j],
         \A b \in blocks : b.from = k /\ IsObject(b) => off_ptr(b) # o /\ IsObject(b)',
         o \in AllObjects(k)' \ cached'[k],
         blocks' = blocks \union {[ptr |-> o + 4, size |-> size, header |-> obj_size(k), from |-> k]}
  PROVE  /\ Blocks' /\ HeldOf(k)' = HeldOf(k) \union {o}
         /\ \A j \in Bin \ {k} : HeldOf(j)' = HeldOf(j)
<1> DEFINE w == [ptr |-> o + 4, size |-> size, header |-> obj_size(k), from |-> k]
<1>1. PAGES \notin Bin
  BY AllocAssumption DEF PAGES, Bin
<1>2. /\ w \in BlockType /\ w.ptr = o + 4 /\ w.size = size /\ w.header = obj_size(k) /\ w.from = k
      /\ off_ptr(w) = o
  <2>1. obj_size(k) \in Nat
    BY ClassSizes
  <2> QED
    BY <2>1 DEF BlockType, off_ptr
<1> HIDE DEF w
<1>3. blocks' = blocks \union {w}
  BY DEF w
<1>4. IsObject(w)'
  BY <1>2 DEF IsObject, off_ptr
<1>5. ASSUME NEW b \in blocks
      PROVE  (b.from = PAGES => IsRegion(b)') /\ (b.from # PAGES => IsObject(b)') /\ b.ptr >= 4
             /\ b \in BlockType
  <2>1. b \in BlockType /\ b.ptr >= 4 /\ (b.from = PAGES => IsRegion(b)) /\ (b.from # PAGES => IsObject(b))
    BY DEF Blocks
  <2>2. CASE b.from = PAGES
    BY <2>1, <2>2
  <2>3. CASE b.from = k
    BY <1>1, <2>1, <2>3
  <2>4. CASE b.from \in Bin \ {k}
    BY <1>1, <2>1, <2>4 DEF IsObject, off_ptr
  <2>5. b.from = PAGES \/ b.from \in Bin
    BY <2>1 DEF BlockType
  <2> QED
    BY <2>1, <2>2, <2>3, <2>4, <2>5
<1>6. ASSUME NEW b \in blocks, b.from = k PROVE b.ptr # o + 4
  <2>1. b \in BlockType /\ IsObject(b)
    BY <1>1, <1>6 DEF Blocks
  <2>2. off_ptr(b) # o /\ b.ptr \in Nat
    BY <1>6, <2>1 DEF BlockType
  <2> QED
    BY <2>2 DEF off_ptr
<1>7. \A b, d \in blocks' : b.from = d.from /\ b.ptr = d.ptr => b = d
  BY <1>2, <1>3, <1>6 DEF Blocks
<1>8. blocks' \subseteq BlockType
  BY <1>2, <1>3, <1>5
<1>9. \A b \in blocks' : b.ptr >= 4 /\ (b.from = PAGES => IsRegion(b)') /\ (b.from # PAGES => IsObject(b)')
  <2>1. w.ptr >= 4 /\ w.from # PAGES
    BY <1>1, <1>2
  <2> QED
    BY <1>3, <1>4, <1>5, <2>1
<1>10. Blocks'
  BY <1>7, <1>8, <1>9 DEF Blocks
<1>11. HeldOf(k)' = HeldOf(k) \union {o}
  <2>1. HeldOf(k)' = {off_ptr(b) : b \in {d \in blocks' : d.from = k}}
    BY DEF HeldOf, off_ptr
  <2>2. {d \in blocks' : d.from = k} = {d \in blocks : d.from = k} \union {w}
    BY <1>2, <1>3
  <2> QED
    BY <1>2, <2>1, <2>2 DEF HeldOf
<1>12. ASSUME NEW j \in Bin \ {k} PROVE HeldOf(j)' = HeldOf(j)
  <2>1. {b \in blocks' : b.from = j} = {b \in blocks : b.from = j}
    BY <1>2, <1>3
  <2> QED
    BY <2>1, HeldSame
<1> QED
  BY <1>10, <1>11, <1>12

(* The class of a size. *)
LEMMA ClassOf ==
  ASSUME NEW size \in Sizes, size + 4 <= Limit
  PROVE  alloc_get_bin(size + 4) \in Bin /\ size + 4 <= obj_size(alloc_get_bin(size + 4))
<1>1. size + 4 \in Nat
  BY AllocAssumption
<1> QED
  BY <1>1, BinIs

LEMMA ObjectStep ==
  ASSUME AllocInv, Intact, NEW size \in Sizes, AllocObject(size)
  PROVE  AllocInv'
<1>1. PICK k : k = alloc_get_bin(size + 4)
  OBVIOUS
<1>2. PICK o \in cached[k] :
        /\ cached' = [cached EXCEPT ![k] = @ \ {o}]
        /\ blocks' = blocks \union {[ptr |-> o + 4, size |-> size, header |-> obj_size(k), from |-> k]}
        /\ regions' = regions /\ nbins' = nbins /\ slabs' = slabs /\ dropped' = dropped
        /\ size + 4 <= Limit
  BY <1>1 DEF AllocObject, Give
<1>3. Regions /\ Slabs /\ Blocks /\ Objs
  BY DEF AllocInv
<1>4. k \in Bin /\ size + 4 <= obj_size(k)
  BY <1>1, <1>2, ClassOf
<1>5. /\ o \in Nat /\ cached'[k] = cached[k] \ {o} /\ cached' \in [Bin -> SUBSET Nat]
      /\ \A j \in Bin \ {k} : cached'[j] = cached[j]
  BY <1>2, <1>3, <1>4 DEF Objs
<1>6. \A j \in Bin : AllObjects(j)' = AllObjects(j)
  BY <1>2 DEF AllObjects
<1>7. Regions' /\ Slabs'
  BY <1>2, <1>3 DEF Regions, Slabs, Intact
<1>8. /\ Blocks' /\ HeldOf(k)' = HeldOf(k) \union {o}
      /\ \A j \in Bin \ {k} : HeldOf(j)' = HeldOf(j)
  <2>1. \A b \in blocks : IsRegion(b) => IsRegion(b)'
    BY <1>2 DEF IsRegion, PagesOf, off_ptr
  <2>2. \A b \in blocks : b.from = k /\ IsObject(b) => off_ptr(b) # o /\ IsObject(b)'
    BY <1>4, <1>5, <1>6, <1>2 DEF IsObject, off_ptr
  <2>3. o \in AllObjects(k)' \ cached'[k]
    BY <1>2, <1>3, <1>4, <1>5, <1>6 DEF Objs
  <2> QED
    BY <1>2, <1>3, <1>4, <1>5, <1>6, <1>7, <2>1, <2>2, <2>3, Taken
<1>9. Objs'
  <2>1. Largest \in Bin
    BY ClassSizes
  <2>2. \A j \in Bin : cached'[j] \union HeldOf(j)' = cached[j] \union HeldOf(j)
    BY <1>2, <1>5, <1>8
  <2>3. \A j \in Bin : cached'[j] \subseteq AllObjects(j)'
    BY <1>3, <1>4, <1>5, <1>6 DEF Objs
  <2>4. \A j \in Bin \ {Largest} : AllObjects(j)' \subseteq cached'[j] \union HeldOf(j)'
    BY <1>3, <1>6, <2>2 DEF Objs
  <2>5. dropped' \subseteq AllObjects(Largest)'
    BY <1>2, <1>3, <1>6, <2>1 DEF Objs
  <2>6. AllObjects(Largest)' \ (cached'[Largest] \union HeldOf(Largest)') = dropped'
    BY <1>2, <1>3, <1>6, <2>1, <2>2 DEF Objs
  <2> QED
    BY <1>5, <2>3, <2>4, <2>5, <2>6 DEF Objs
<1> QED
  BY <1>3, <1>7, <1>8, <1>9, <1>2 DEF AllocInv

LEMMA NewSlabStep ==
  ASSUME AllocInv, Intact, NEW size \in Sizes, AllocFromNewSlab(size)
  PROVE  AllocInv'
<1>1. PICK k, buffer : k = alloc_get_bin(size + 4) /\ buffer = NewBase(SLAB_PAGE_COUNT)
  OBVIOUS
<1>2. PICK o \in Objects(k, buffer) :
        /\ cached' = [cached EXCEPT ![k] = (@ \union Objects(k, buffer)) \ {o}]
        /\ blocks' = blocks \union {[ptr |-> o + 4, size |-> size, header |-> obj_size(k), from |-> k]}
        /\ regions' = regions \union {SlabRegion(buffer)} /\ CanAlloc(SLAB_PAGE_COUNT)
        /\ slabs' = [slabs EXCEPT ![k] = @ \union {buffer}]
        /\ nbins' = nbins /\ dropped' = dropped
        /\ size + 4 <= Limit /\ nbins = NBINS
  BY <1>1 DEF AllocFromNewSlab, Give, vmm_alloc, SlabRegion, alloc_initialized
<1>3. Regions /\ Slabs /\ Blocks /\ Objs
  BY DEF AllocInv
<1>4. k \in Bin /\ size + 4 <= obj_size(k)
  BY <1>1, <1>2, ClassOf
<1>5. Placed(buffer, SLAB_PAGE_COUNT)
  <2>1. SLAB_PAGE_COUNT \in Nat \ {0}
    BY AllocAssumption
  <2> QED
    BY <1>1, <1>2, <1>3, <2>1, NewRegion
<1>6. SlabGrown(k, buffer)
  <2>1. nbins' \in 0 .. NBINS /\ nbins <= nbins' /\ k < nbins'
    <3>1. NBINS \in 1 .. 28
      BY AllocAssumption
    <3> QED
      BY <1>2, <1>4, <3>1 DEF Bin
  <2> QED
    BY <1>2, <1>3, <1>4, <1>5, <2>1, SlabAdded
<1>7. /\ o \in Nat /\ cached'[k] = (cached[k] \union Objects(k, buffer)) \ {o}
      /\ cached' \in [Bin -> SUBSET Nat]
      /\ \A j \in Bin \ {k} : cached'[j] = cached[j]
  <2>1. Objects(k, buffer) \subseteq Nat
    BY <1>4, <1>5, ObjectFits DEF Placed
  <2> QED
    BY <1>2, <1>3, <1>4, <2>1 DEF Objs
<1>8. /\ AllObjects(k)' = AllObjects(k) \union Objects(k, buffer)
      /\ \A j \in Bin \ {k} : AllObjects(j)' = AllObjects(j)
      /\ AllObjects(k) \intersect Objects(k, buffer) = {}
      /\ \A b \in blocks : IsRegion(b) => IsRegion(b)'
      /\ Regions' /\ Slabs'
  BY <1>6 DEF SlabGrown
<1>9. /\ Blocks' /\ HeldOf(k)' = HeldOf(k) \union {o}
      /\ \A j \in Bin \ {k} : HeldOf(j)' = HeldOf(j)
  <2>1. \A b \in blocks : b.from = k /\ IsObject(b) => off_ptr(b) # o /\ IsObject(b)'
    <3> SUFFICES ASSUME NEW b \in blocks, b.from = k, IsObject(b)
                 PROVE  off_ptr(b) # o /\ IsObject(b)'
      OBVIOUS
    <3>1. off_ptr(b) \in AllObjects(k) \ cached[k]
      BY DEF IsObject
    <3>2. off_ptr(b) \notin Objects(k, buffer)
      BY <1>8, <3>1
    <3> QED
      BY <1>2, <1>7, <1>8, <3>1, <3>2 DEF IsObject, off_ptr
  <2>2. o \in AllObjects(k)' \ cached'[k]
    BY <1>2, <1>7, <1>8
  <2> QED
    BY <1>2, <1>3, <1>4, <1>7, <1>8, <2>1, <2>2, Taken
<1>10. Objs'
  <2>1. Largest \in Bin
    BY ClassSizes
  <2>2. /\ \A j \in Bin \ {k} : cached'[j] \union HeldOf(j)' = cached[j] \union HeldOf(j)
        /\ cached'[k] \union HeldOf(k)' = cached[k] \union HeldOf(k) \union Objects(k, buffer)
    BY <1>2, <1>7, <1>9
  <2>3. \A j \in Bin : cached'[j] \subseteq AllObjects(j)'
    BY <1>3, <1>4, <1>7, <1>8 DEF Objs
  <2>4. ASSUME NEW j \in Bin \ {Largest} PROVE AllObjects(j)' \subseteq cached'[j] \union HeldOf(j)'
    <3>1. AllObjects(j) \subseteq cached[j] \union HeldOf(j)
      BY <1>3 DEF Objs
    <3> QED
      BY <1>8, <2>2, <3>1
  <2>5. dropped' = dropped /\ dropped \subseteq AllObjects(Largest)
        /\ AllObjects(Largest) \ (cached[Largest] \union HeldOf(Largest)) = dropped
    BY <1>2, <1>3 DEF Objs
  <2>6. dropped' \subseteq AllObjects(Largest)'
    BY <1>8, <2>1, <2>5
  <2>7. AllObjects(Largest)' \ (cached'[Largest] \union HeldOf(Largest)') = dropped'
    <3>1. CASE k = Largest
      BY <1>8, <2>2, <2>5, <3>1
    <3>2. CASE k # Largest
      BY <1>8, <2>1, <2>2, <2>5, <3>2
    <3> QED
      BY <3>1, <3>2
  <2> QED
    BY <1>7, <2>3, <2>4, <2>6, <2>7 DEF Objs
<1> QED
  BY <1>8, <1>9, <1>10 DEF AllocInv

(* A block that is given back takes its address with it. *)
LEMMA HeldWithout ==
  ASSUME Blocks, NEW b \in blocks, blocks' = blocks \ {b}
  PROVE  /\ off_ptr(b) \in HeldOf(b.from)
         /\ HeldOf(b.from)' = HeldOf(b.from) \ {off_ptr(b)}
         /\ \A j \in Bin \ {b.from} : HeldOf(j)' = HeldOf(j)
<1>2. \A d \in blocks \ {b} : d.from = b.from => off_ptr(d) # off_ptr(b)
  <2> SUFFICES ASSUME NEW d \in blocks \ {b}, d.from = b.from, d.ptr - 4 = b.ptr - 4 PROVE FALSE
    BY DEF off_ptr
  <2>1. d.ptr \in Nat /\ b.ptr \in Nat /\ d.ptr # b.ptr
    BY DEF Blocks, BlockType
  <2> QED
    BY <2>1
<1>3. HeldOf(b.from)' = HeldOf(b.from) \ {off_ptr(b)}
  <2>1. HeldOf(b.from)' = {off_ptr(d) : d \in {c \in blocks' : c.from = b.from}}
    BY DEF HeldOf, off_ptr
  <2>2. {c \in blocks' : c.from = b.from} = {c \in blocks : c.from = b.from} \ {b}
    OBVIOUS
  <2> QED
    BY <1>2, <2>1, <2>2 DEF HeldOf
<1>4. ASSUME NEW j \in Bin \ {b.from} PROVE HeldOf(j)' = HeldOf(j)
  <2>1. {c \in blocks' : c.from = j} = {c \in blocks : c.from = j}
    OBVIOUS
  <2> QED
    BY <2>1, HeldSame
<1> QED
  BY <1>3, <1>4 DEF HeldOf

(* Pages go back to the heap whole. *)
LEMMA FreePages ==
  ASSUME AllocInv, Intact, NEW b \in blocks, free(b), b.from = PAGES
  PROVE  AllocInv'
<1>1. Regions /\ Slabs /\ Blocks /\ Objs
  BY DEF AllocInv
<1>2. b \in BlockType /\ IsRegion(b) /\ PAGES \notin Bin /\ Largest \in Bin
  BY <1>1, AllocAssumption, ClassSizes DEF Blocks, PAGES, Bin
<1>3. IsPages(b)
  <2>1. b.size \in Nat /\ b.size + 4 \in Nat \ {0}
    <3>1. Sizes \subseteq Nat
      BY AllocAssumption
    <3>2. b.size \in Sizes
      BY <1>2 DEF BlockType
    <3>3. PICK n \in Nat : n = b.size
      BY <3>1, <3>2
    <3> QED
      BY <3>3
  <2>2. b.header = DIV_ROUND_UP(b.size + 4, PAGE_SIZE) * PAGE_SIZE
    BY <1>2 DEF IsRegion, PagesOf
  <2>3. b.header \in Nat /\ PAGE_SIZE <= b.header
    BY <2>1, <2>2, PagesEnough
  <2> QED
    BY <2>3, ClassSizes DEF IsPages
<1>4. /\ regions' = {r \in regions : r.base # off_ptr(b)} /\ cached' = cached
      /\ blocks' = blocks \ {b} /\ nbins' = nbins /\ slabs' = slabs /\ dropped' = dropped
  BY <1>2, <1>3 DEF free, vmm_free
<1>5. Regions'
  BY <1>1, <1>4, RegionRemoved
<1>6. Slabs'
  <2>1. \A k \in Bin : \A a \in slabs[k] : SlabRegion(a) \in regions'
    BY <1>1, <1>2, <1>4 DEF Slabs, IsRegion, SlabRegion
  <2> QED
    BY <1>1, <1>4, <2>1 DEF Slabs
<1>7. ASSUME NEW d \in blocks \ {b} PROVE (IsObject(d) => IsObject(d)') /\ (d.from = PAGES => IsRegion(d)')
  <2>1. IsObject(d) => IsObject(d)'
    BY <1>4 DEF IsObject, AllObjects, off_ptr
  <2>2. ASSUME d.from = PAGES PROVE IsRegion(d)'
    <3>1. IsRegion(d) /\ d.ptr # b.ptr /\ d.ptr \in Nat /\ b.ptr \in Nat
      BY <1>1, <2>2 DEF Blocks, BlockType
    <3>2. PagesOf(d).base = d.ptr - 4 /\ off_ptr(b) = b.ptr - 4 /\ d.ptr - 4 # b.ptr - 4
      BY <3>1 DEF PagesOf, off_ptr
    <3> QED
      BY <1>4, <3>1, <3>2 DEF IsRegion, PagesOf, off_ptr
  <2> QED
    BY <2>1, <2>2
<1>8. Blocks'
  <2>1. \A d \in blocks' : d.ptr >= 4 /\ (d.from = PAGES => IsRegion(d)') /\ (d.from # PAGES => IsObject(d)')
    BY <1>1, <1>4, <1>7 DEF Blocks
  <2> QED
    BY <1>1, <1>4, <2>1 DEF Blocks
<1>9. \A j \in Bin : AllObjects(j)' = AllObjects(j) /\ HeldOf(j)' = HeldOf(j)
  <2>1. ASSUME NEW j \in Bin PROVE {c \in blocks' : c.from = j} = {c \in blocks : c.from = j}
    BY <1>2, <1>4
  <2> QED
    BY <1>4, <2>1, HeldSame DEF AllObjects
<1>10. Objs'
  BY <1>1, <1>2, <1>4, <1>9 DEF Objs
<1> QED
  BY <1>5, <1>6, <1>8, <1>10 DEF AllocInv

(* An object of another class than the largest goes back to its cache. *)
LEMMA FreeObject ==
  ASSUME AllocInv, Intact, NEW b \in blocks, free(b), b.from \in Bin \ {Largest}
  PROVE  AllocInv'
<1>1. Regions /\ Slabs /\ Blocks /\ Objs
  BY DEF AllocInv
<1>2. PICK k \in Bin : k = b.from /\ k # Largest
  OBVIOUS
<1>3. IsObject(b) /\ PAGES \notin Bin /\ Largest \in Bin
  BY <1>1, AllocAssumption, ClassSizes DEF Blocks, PAGES, Bin
<1>4. ~IsPages(b)
  <2>1. b.header = obj_size(k)
    BY <1>2, <1>3 DEF IsObject
  <2>2. obj_size(k) <= Limit /\ obj_size(k) \in Nat /\ Limit \in Nat
    BY <1>2, ClassSizes
  <2> QED
    BY <2>1, <2>2 DEF IsPages
<1>5. PICK o : o = off_ptr(b)
  OBVIOUS
<1>6. /\ regions' = regions /\ cached' = [cached EXCEPT ![k] = @ \union {o}]
      /\ blocks' = blocks \ {b} /\ nbins' = nbins /\ slabs' = slabs /\ dropped' = dropped
  BY <1>2, <1>4, <1>5 DEF free
<1>7. o \in AllObjects(k) /\ o \in Nat
  <2>1. o \in AllObjects(k)
    BY <1>2, <1>3, <1>5 DEF IsObject
  <2>2. \A a \in slabs[k] : Objects(k, a) \subseteq Nat
    BY <1>1, ObjectFits DEF Slabs
  <2> QED
    BY <2>1, <2>2 DEF AllObjects
<1>8. /\ cached' \in [Bin -> SUBSET Nat] /\ cached'[k] = cached[k] \union {o}
      /\ \A j \in Bin \ {k} : cached'[j] = cached[j]
  BY <1>1, <1>6, <1>7 DEF Objs
<1>9. Regions' /\ Slabs' /\ \A j \in Bin : AllObjects(j)' = AllObjects(j)
  BY <1>1, <1>6 DEF Regions, Slabs, Intact, AllObjects
<1>10. /\ Blocks' /\ o \in HeldOf(k) /\ HeldOf(k)' = HeldOf(k) \ {o}
       /\ \A j \in Bin \ {k} : HeldOf(j)' = HeldOf(j)
  <2>1. \A d \in blocks \ {b} : IsRegion(d) => IsRegion(d)'
    BY <1>6 DEF IsRegion, PagesOf, off_ptr
  <2>2. ASSUME NEW d \in blocks \ {b}, d.from # PAGES PROVE IsObject(d)'
    <3>1. IsObject(d) /\ d.from \in Bin
      BY <1>1, <2>2 DEF Blocks, BlockType
    <3>2. CASE d.from # k
      BY <1>8, <1>9, <3>1, <3>2 DEF IsObject, off_ptr
    <3>3. CASE d.from = k
      <4>1. d.ptr # b.ptr /\ d.ptr \in Nat /\ b.ptr \in Nat
        BY <1>1, <1>2, <3>3 DEF Blocks, BlockType
      <4>2. off_ptr(d) # o
        BY <1>5, <4>1 DEF off_ptr
      <4> QED
        BY <1>8, <1>9, <3>1, <3>3, <4>2 DEF IsObject, off_ptr
    <3> QED
      BY <3>2, <3>3
  <2>3. Blocks'
    <3>1. \A d \in blocks' : d.ptr >= 4 /\ (d.from = PAGES => IsRegion(d)') /\ (d.from # PAGES => IsObject(d)')
      BY <1>1, <1>6, <2>1, <2>2 DEF Blocks
    <3> QED
      BY <1>1, <1>6, <3>1 DEF Blocks
  <2> QED
    BY <1>1, <1>2, <1>5, <1>6, <2>3, HeldWithout
<1>11. Objs'
  <2>1. \A j \in Bin : cached'[j] \union HeldOf(j)' = cached[j] \union HeldOf(j)
    BY <1>8, <1>10
  <2>2. \A j \in Bin : cached'[j] \subseteq AllObjects(j)'
    BY <1>1, <1>7, <1>8, <1>9 DEF Objs
  <2>3. \A j \in Bin \ {Largest} : AllObjects(j)' \subseteq cached'[j] \union HeldOf(j)'
    BY <1>1, <1>9, <2>1 DEF Objs
  <2>4. dropped' \subseteq AllObjects(Largest)'
    BY <1>1, <1>3, <1>6, <1>9 DEF Objs
  <2>5. AllObjects(Largest)' \ (cached'[Largest] \union HeldOf(Largest)') = dropped'
    BY <1>1, <1>3, <1>6, <1>9, <2>1 DEF Objs
  <2> QED
    BY <1>8, <2>2, <2>3, <2>4, <2>5 DEF Objs
<1> QED
  BY <1>9, <1>10, <1>11 DEF AllocInv

(* An object of the largest class is gone once it is freed. *)
LEMMA LargestGone ==
  ASSUME Regions, Slabs', Blocks, Objs, Intact, NEW b \in blocks, NEW o, o = off_ptr(b),
         b.from = Largest, IsObject(b), Largest \in Bin, PAGES \notin Bin,
         regions' \subseteq regions, cached' = cached, blocks' = blocks \ {b}, slabs' = slabs,
         dropped' = dropped \union {o},
         \A d \in blocks : IsRegion(d) => IsRegion(d)'
  PROVE  AllocInv'
<1>1. Regions'
  BY RegionRemoved
<1>2. \A j \in Bin : AllObjects(j)' = AllObjects(j)
  BY DEF AllObjects
<1>3. \A d \in blocks : IsObject(d) => IsObject(d)'
  BY DEF IsObject, AllObjects, off_ptr
<1>4. Blocks'
  <2>1. \A d \in blocks' : d.ptr >= 4 /\ (d.from = PAGES => IsRegion(d)') /\ (d.from # PAGES => IsObject(d)')
    BY <1>3 DEF Blocks
  <2> QED
    BY <2>1 DEF Blocks
<1>5. /\ o \in HeldOf(Largest) /\ HeldOf(Largest)' = HeldOf(Largest) \ {o}
      /\ \A j \in Bin \ {Largest} : HeldOf(j)' = HeldOf(j)
  BY HeldWithout
<1>6. o \in AllObjects(Largest) \ cached[Largest]
  BY DEF IsObject
<1>7. \A j \in Bin \ {Largest} : AllObjects(j)' \subseteq cached'[j] \union HeldOf(j)'
  BY <1>2, <1>5 DEF Objs
<1>8. /\ dropped' \subseteq AllObjects(Largest)'
      /\ AllObjects(Largest)' \ (cached'[Largest] \union HeldOf(Largest)') = dropped'
  BY <1>2, <1>5, <1>6 DEF Objs
<1>9. Objs'
  BY <1>2, <1>7, <1>8 DEF Objs
<1> QED
  BY <1>1, <1>4, <1>9 DEF AllocInv

(* An object of the largest class is taken for pages: nothing is given     *)
(* back, unless its slab begins with it.                                   *)
LEMMA FreeLargest ==
  ASSUME AllocInv, Intact, NEW b \in blocks, free(b), b.from = Largest
  PROVE  AllocInv'
<1>1. Regions /\ Slabs /\ Blocks /\ Objs
  BY DEF AllocInv
<1>2. PICK k \in Bin : k = Largest
  BY ClassSizes
<1>3. IsObject(b) /\ PAGES \notin Bin
  BY <1>1, <1>2, AllocAssumption DEF Blocks, PAGES, Bin
<1>4. IsPages(b)
  BY <1>3, ClassSizes DEF IsObject, IsPages
<1>5. PICK o : o = off_ptr(b)
  OBVIOUS
<1>6. /\ regions' = {r \in regions : r.base # o} /\ cached' = cached
      /\ blocks' = blocks \ {b} /\ nbins' = nbins /\ slabs' = slabs /\ dropped' = dropped \union {o}
  BY <1>4, <1>5 DEF free, vmm_free
<1>7. PICK a \in slabs[k] : o \in Objects(k, a)
  BY <1>2, <1>3, <1>5 DEF IsObject, AllObjects
<1>8. a \in Nat /\ a % PAGE_SIZE = 0 /\ SlabRegion(a) \in regions
  BY <1>1 DEF Slabs
(* The only region that can begin there is that of the slab. *)
<1>9. ASSUME NEW r \in regions, r.base = o PROVE o = a
  <2>1. SUFFICES ASSUME o # a PROVE FALSE
    OBVIOUS
  <2>2. SlabRegion(a).base = a /\ End(SlabRegion(a)) = a + SLAB_PAGE_COUNT * PAGE_SIZE
    BY DEF SlabRegion, End
  <2>3. End(r) <= a \/ a + SLAB_PAGE_COUNT * PAGE_SIZE <= o
    BY <1>1, <1>8, <1>9, <2>1, <2>2 DEF Regions
  <2>4. /\ o \in Nat /\ a <= o /\ o + obj_size(k) <= a + SLAB_PAGE_COUNT * PAGE_SIZE
        /\ SLAB_PAGE_COUNT * PAGE_SIZE \in Nat
    BY <1>7, <1>8, ObjectFits
  <2>5. obj_size(k) \in Nat \ {0}
    BY ClassSizes
  <2>6. r \in RegionType
    BY <1>1 DEF Regions
  <2>7. End(r) \in Nat /\ o < End(r)
    BY <1>9, <2>6, RegionIs
  <2> QED
    BY <1>8, <2>3, <2>4, <2>5, <2>7
<1>10. CASE o \in slabs[k]
  (* The heap is not intact any more. *)
  <2>1. ~Intact'
    BY <1>2, <1>6, <1>10 DEF Intact
  <2>2. Slabs'
    BY <1>1, <1>6, <2>1 DEF Slabs
  <2>3. \A d \in blocks : IsRegion(d) => IsRegion(d)'
    BY <1>6, <1>10 DEF IsRegion, PagesOf, off_ptr
  <2> QED
    BY <1>1, <1>2, <1>3, <1>5, <1>6, <2>1, <2>2, <2>3, LargestGone
<1>11. CASE o \notin slabs[k]
  <2>1. regions' = regions
    BY <1>6, <1>7, <1>9, <1>11
  <2>2. Slabs'
    BY <1>1, <1>6, <2>1 DEF Slabs
  <2>3. \A d \in blocks : IsRegion(d) => IsRegion(d)'
    BY <1>6, <2>1 DEF IsRegion, PagesOf, off_ptr
  <2> QED
    BY <1>1, <1>2, <1>3, <1>5, <1>6, <2>2, <2>3, LargestGone
<1> QED
  BY <1>10, <1>11

LEMMA FreeStep ==
  ASSUME AllocInv, Intact, NEW b \in blocks, free(b)
  PROVE  AllocInv'
<1>1. b.from \in Bin \union {PAGES}
  BY DEF AllocInv, Blocks, BlockType
<1> QED
  BY <1>1, FreePages, FreeObject, FreeLargest

(* The invariant holds in every state. *)
THEOREM AllocInvariant == Spec => []AllocInv
<1>1. Init => AllocInv
  BY InitHolds
<1>2. AllocInv /\ [Next]_vars => AllocInv'
  <2> SUFFICES ASSUME AllocInv, [Next]_vars PROVE AllocInv'
    OBVIOUS
  <2>1. CASE UNCHANGED vars
    BY <2>1 DEF vars, AllocInv, Regions, Slabs, Blocks, Objs, Intact, AllObjects, HeldOf, IsRegion,
                IsObject, PagesOf, off_ptr
  <2>2. CASE Next
    BY <2>2, InitStep, PagesStep, ObjectStep, NewSlabStep, FreeStep DEF Next
  <2> QED
    BY <2>1, <2>2
<1> QED
  BY <1>1, <1>2, PTL DEF Spec

----------------------------------------------------------------------------
(* What a block covers is in one region. *)
LEMMA InRegion ==
  ASSUME AllocInv, Intact, NEW b \in blocks
  PROVE  \E r \in regions :
           /\ r.base <= off_ptr(b) /\ off_ptr(b) \in Nat /\ End(r) \in Nat /\ r.base \in Nat
           /\ b.ptr \in Nat /\ b.size \in Nat /\ b.ptr = off_ptr(b) + 4
           /\ b.ptr + b.size <= End(r)
           /\ b.from = PAGES => r = PagesOf(b)
           /\ b.from # PAGES => \E a \in slabs[b.from] : r = SlabRegion(a) /\ off_ptr(b) \in Objects(b.from, a)
<1>1. Regions /\ Slabs /\ Blocks
  BY DEF AllocInv
<1>2. /\ b \in BlockType /\ b.ptr \in Nat /\ b.size \in Nat /\ b.ptr >= 4
      /\ b.from \in Bin \union {PAGES}
  <2>1. Sizes \subseteq Nat
    BY AllocAssumption
  <2> QED
    BY <1>1, <2>1 DEF Blocks, BlockType
<1>3. off_ptr(b) \in Nat /\ b.ptr = off_ptr(b) + 4
  BY <1>2 DEF off_ptr
<1>4. CASE b.from = PAGES
  <2>1. PagesOf(b) \in regions
    BY <1>1, <1>4 DEF Blocks, IsRegion
  <2>2. PagesOf(b).base = off_ptr(b) /\ PagesOf(b).pages = DIV_ROUND_UP(b.size + 4, PAGE_SIZE)
    BY DEF PagesOf
  <2>3. PagesOf(b) \in RegionType
    BY <1>1, <2>1 DEF Regions
  <2>4. End(PagesOf(b)) \in Nat /\ End(PagesOf(b)) = off_ptr(b) + PagesOf(b).pages * PAGE_SIZE
    BY <2>2, <2>3, RegionIs
  <2>5. b.size + 4 <= PagesOf(b).pages * PAGE_SIZE /\ PagesOf(b).pages * PAGE_SIZE \in Nat
    <3>1. b.size + 4 \in Nat \ {0}
      BY <1>2
    <3> QED
      BY <2>2, <3>1, PagesEnough
  <2>6. b.ptr + b.size <= End(PagesOf(b))
    BY <1>2, <1>3, <2>4, <2>5
  <2> QED
    BY <1>2, <1>3, <1>4, <2>1, <2>2, <2>4, <2>6
<1>5. CASE b.from # PAGES
  <2>1. b.from \in Bin /\ IsObject(b)
    BY <1>1, <1>2, <1>5 DEF Blocks
  <2>2. PICK a \in slabs[b.from] : off_ptr(b) \in Objects(b.from, a)
    BY <2>1 DEF IsObject, AllObjects
  <2>3. a \in Nat /\ a % PAGE_SIZE = 0 /\ SlabRegion(a) \in regions
    BY <1>1, <2>1 DEF Slabs
  <2>4. /\ a <= off_ptr(b) /\ off_ptr(b) + obj_size(b.from) <= a + SLAB_PAGE_COUNT * PAGE_SIZE
        /\ SLAB_PAGE_COUNT * PAGE_SIZE \in Nat
    BY <2>1, <2>2, <2>3, ObjectFits
  <2>5. SlabRegion(a).base = a /\ End(SlabRegion(a)) = a + SLAB_PAGE_COUNT * PAGE_SIZE
    BY DEF SlabRegion, End
  <2>6. b.size + 4 <= obj_size(b.from) /\ obj_size(b.from) \in Nat
    BY <2>1, ClassSizes DEF IsObject
  <2>7. b.ptr + b.size <= End(SlabRegion(a)) /\ End(SlabRegion(a)) \in Nat
    BY <1>2, <1>3, <2>3, <2>4, <2>5, <2>6
  <2> QED
    BY <1>2, <1>3, <1>5, <2>2, <2>3, <2>4, <2>5, <2>7
<1> QED
  BY <1>4, <1>5

(* Callers do not share memory. *)
LEMMA ApartHolds ==
  ASSUME AllocInv, Intact
  PROVE  Apart
<1> SUFFICES ASSUME NEW b \in blocks, NEW c \in blocks, b # c
             PROVE  ~Overlap(b, c)
  BY DEF Apart
<1>1. PICK r \in regions :
        /\ r.base <= off_ptr(b) /\ off_ptr(b) \in Nat /\ End(r) \in Nat /\ r.base \in Nat
        /\ b.ptr \in Nat /\ b.size \in Nat /\ b.ptr = off_ptr(b) + 4
        /\ b.ptr + b.size <= End(r)
        /\ b.from = PAGES => r = PagesOf(b)
        /\ b.from # PAGES => \E a \in slabs[b.from] : r = SlabRegion(a) /\ off_ptr(b) \in Objects(b.from, a)
  BY InRegion
<1>2. PICK s \in regions :
        /\ s.base <= off_ptr(c) /\ off_ptr(c) \in Nat /\ End(s) \in Nat /\ s.base \in Nat
        /\ c.ptr \in Nat /\ c.size \in Nat /\ c.ptr = off_ptr(c) + 4
        /\ c.ptr + c.size <= End(s)
        /\ c.from = PAGES => s = PagesOf(c)
        /\ c.from # PAGES => \E a \in slabs[c.from] : s = SlabRegion(a) /\ off_ptr(c) \in Objects(c.from, a)
  BY InRegion
<1>3. Regions /\ Slabs /\ Blocks
  BY DEF AllocInv
<1>4. CASE r # s
  <2>1. End(r) <= s.base \/ End(s) <= r.base
    BY <1>3, <1>4 DEF Regions
  <2>2. b.ptr + b.size <= off_ptr(c) \/ c.ptr + c.size <= off_ptr(b)
    BY <1>1, <1>2, <2>1
  <2> QED
    BY <1>1, <1>2, <2>2 DEF Overlap, off_ptr
<1>5. CASE r = s
  <2>1. CASE b.from = PAGES /\ c.from = PAGES
    <3>1. off_ptr(b) = off_ptr(c)
      BY <1>1, <1>2, <1>5, <2>1 DEF PagesOf
    <3>2. b.ptr = c.ptr
      BY <1>1, <1>2, <3>1
    <3> QED
      BY <1>3, <2>1, <3>2 DEF Blocks
  <2>2. CASE b.from = PAGES /\ c.from # PAGES
    <3>1. PICK a \in slabs[c.from] : s = SlabRegion(a)
      BY <1>2, <2>2
    <3>2. a = off_ptr(b)
      BY <1>1, <1>5, <2>2, <3>1 DEF PagesOf, SlabRegion
    <3>3. IsRegion(b) /\ c.from \in Bin
      BY <1>3, <2>2 DEF Blocks, BlockType
    <3> QED
      BY <3>1, <3>2, <3>3 DEF IsRegion
  <2>3. CASE b.from # PAGES /\ c.from = PAGES
    <3>1. PICK a \in slabs[b.from] : r = SlabRegion(a)
      BY <1>1, <2>3
    <3>2. a = off_ptr(c)
      BY <1>2, <1>5, <2>3, <3>1 DEF PagesOf, SlabRegion
    <3>3. IsRegion(c) /\ b.from \in Bin
      BY <1>3, <2>3 DEF Blocks, BlockType
    <3> QED
      BY <3>1, <3>2, <3>3 DEF IsRegion
  <2>4. CASE b.from # PAGES /\ c.from # PAGES
    <3>1. PICK a \in slabs[b.from] : r = SlabRegion(a) /\ off_ptr(b) \in Objects(b.from, a)
      BY <1>1, <2>4
    <3>2. PICK d \in slabs[c.from] : s = SlabRegion(d) /\ off_ptr(c) \in Objects(c.from, d)
      BY <1>2, <2>4
    <3>3. a = d
      <4>1. SlabRegion(a).base = a /\ SlabRegion(d).base = d
        BY DEF SlabRegion
      <4> QED
        BY <1>5, <3>1, <3>2, <4>1
    <3>4. b.from \in Bin /\ c.from \in Bin /\ IsObject(b) /\ IsObject(c)
      BY <1>3, <2>4 DEF Blocks, BlockType
    <3>5. b.from = c.from
      BY <1>3, <3>1, <3>2, <3>3, <3>4 DEF Slabs
    <3>6. off_ptr(b) # off_ptr(c)
      <4>1. b.ptr # c.ptr
        BY <1>3, <3>5 DEF Blocks
      <4> QED
        BY <1>1, <1>2, <4>1
    <3>7. a \in Nat
      BY <1>3, <3>1, <3>4 DEF Slabs
    <3>8. off_ptr(b) + obj_size(b.from) <= off_ptr(c) \/ off_ptr(c) + obj_size(b.from) <= off_ptr(b)
      BY <3>1, <3>2, <3>3, <3>4, <3>5, <3>6, <3>7, ObjectsApart
    <3>9. b.size + 4 <= obj_size(b.from) /\ c.size + 4 <= obj_size(b.from) /\ obj_size(b.from) \in Nat
      BY <3>4, <3>5, ClassSizes DEF IsObject
    <3>10. b.ptr + b.size <= off_ptr(c) \/ c.ptr + c.size <= off_ptr(b)
      BY <1>1, <1>2, <3>8, <3>9
    <3> QED
      BY <1>1, <1>2, <3>10 DEF Overlap, off_ptr
  <2> QED
    BY <2>1, <2>2, <2>3, <2>4
<1> QED
  BY <1>4, <1>5

(* The heap is accounted for (alloc.c): blocks lie in what they stand for  *)
(* and apart, and memory is lost or given away in one way only, by freeing *)
(* objects of the largest class.                                           *)
THEOREM HeapIsSound == Spec => []HeapSound
<1>1. AllocInv => HeapSound
  <2> SUFFICES ASSUME AllocInv PROVE HeapSound
    OBVIOUS
  <2>1. Regions /\ Slabs /\ Blocks /\ Objs
    BY DEF AllocInv
  <2>2. TypeOK
    BY <2>1 DEF TypeOK, Regions, Slabs, Blocks, BlockType, Objs, AllObjects
  <2>3. BlocksFit
    <3> SUFFICES ASSUME NEW b \in blocks
                 PROVE  IF b.from = PAGES THEN b.size + 4 <= b.header
                        ELSE /\ b.size + 4 <= obj_size(b.from)
                             /\ (off_ptr(b) % PAGE_SIZE) + 4 + b.size <= PAGE_SIZE - 8
      BY DEF BlocksFit
    <3>1. b.size \in Nat /\ b.from \in Bin \union {PAGES}
      <4>1. Sizes \subseteq Nat
        BY AllocAssumption
      <4> QED
        BY <2>1, <4>1 DEF Blocks, BlockType
    <3>2. CASE b.from = PAGES
      <4>1. b.header = DIV_ROUND_UP(b.size + 4, PAGE_SIZE) * PAGE_SIZE
        BY <2>1, <3>2 DEF Blocks, IsRegion, PagesOf
      <4>2. b.size + 4 \in Nat \ {0}
        BY <3>1
      <4> QED
        BY <3>2, <4>1, <4>2, PagesEnough
    <3>3. CASE b.from # PAGES
      <4>1. IsObject(b) /\ b.from \in Bin
        BY <2>1, <3>1, <3>3 DEF Blocks
      <4>2. PICK a \in slabs[b.from] : off_ptr(b) \in Objects(b.from, a)
        BY <4>1 DEF IsObject, AllObjects
      <4>3. a \in Nat /\ a % PAGE_SIZE = 0
        BY <2>1, <4>1 DEF Slabs
      <4>4. off_ptr(b) % PAGE_SIZE \in Nat /\ (off_ptr(b) % PAGE_SIZE) + obj_size(b.from) <= PAGE_SIZE - 8
        BY <4>1, <4>2, <4>3, ObjectFits
      <4>5. b.size + 4 <= obj_size(b.from) /\ obj_size(b.from) \in Nat /\ PAGE_SIZE \in Nat
        BY <4>1, ClassSizes DEF IsObject
      <4>6. PICK m \in Nat : m = off_ptr(b) % PAGE_SIZE
        BY <4>4
      <4>7. m + 4 + b.size <= PAGE_SIZE - 8
        BY <3>1, <4>4, <4>5, <4>6
      <4> QED
        BY <3>3, <4>5, <4>6, <4>7
    <3> QED
      BY <3>2, <3>3
  <2>4. OnlyLargestIsLost
    <3> SUFFICES ASSUME Intact, NEW k \in Bin
                 PROVE  /\ cached[k] \intersect HeldOf(k) = {}
                        /\ AllObjects(k) \ (cached[k] \union HeldOf(k)) = (IF k = Largest THEN dropped ELSE {})
      BY DEF OnlyLargestIsLost, AllObjects, HeldOf
    <3>1. cached[k] \intersect HeldOf(k) = {}
      <4>1. \A b \in blocks : b.from = k => off_ptr(b) \notin cached[k]
        <5>1. PAGES \notin Bin
          BY AllocAssumption DEF PAGES, Bin
        <5> QED
          BY <2>1, <5>1 DEF Blocks, IsObject
      <4> QED
        BY <4>1 DEF HeldOf
    <3>2. AllObjects(k) \ (cached[k] \union HeldOf(k)) = (IF k = Largest THEN dropped ELSE {})
      BY <2>1 DEF Objs
    <3> QED
      BY <3>1, <3>2
  <2>5. SlabsKeepTheirPages
    BY <2>1, ApartHolds DEF SlabsKeepTheirPages, Slabs, SlabRegion
  <2> QED
    BY <2>2, <2>3, <2>4, <2>5 DEF HeapSound
<1> QED
  BY <1>1, AllocInvariant, PTL
=============================================================================
