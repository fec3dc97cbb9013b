----------------------------- MODULE SlabProofs -----------------------------
(***************************************************************************)
(* Proofs about an object cache, for every number of slabs, objects and    *)
(* slots of a magazine: with one CPU, frees included, and with any number  *)
(* of CPUs that only allocate.                                             *)
(***************************************************************************)
EXTENDS SlabCache, Integers, TLAPS, FiniteSetTheorems, FunctionTheorems

(* Where a CPU can be in a call, and what it knows there. *)
Places == {"idle", "lock", "load", "remove", "retire", "next", "reload", "unretire", "reuse"}
CpuType == [pc : Places, slab : 0 .. MaxSlabs, count : 0 .. objs_per_mag, free : 0 .. total_count]
MagType(n) == [objects : [1 .. objs_per_mag -> ((1 .. n) \X Index) \union {Junk}], count : 0 .. objs_per_mag]
AllObjects == (1 .. nslabs) \X Index

(* The types, with what refers to slabs that have been created. *)
Shape ==
  /\ nslabs \in Slab /\ usable_slab_list \in 0 .. nslabs /\ full_slab_list \in 0 .. nslabs
  /\ next \in [Slab -> 0 .. nslabs] /\ prev \in [Slab -> 0 .. nslabs]
  /\ free_objs \in [Slab -> [Index -> Index]] /\ free_count \in [Slab -> 0 .. total_count]
  /\ \A s \in Slab : s > nslabs =>
       free_count[s] = 0 /\ free_objs[s] = [i \in Index |-> i] /\ next[s] = NULL /\ prev[s] = NULL
  /\ lock \in [Slab -> CPU \union {NoCPU}]
  /\ mags \in [CPU -> MagType(nslabs)]
  /\ cpu \in [CPU -> CpuType]
  /\ held \subseteq AllObjects \union {Junk}
  /\ fault \in BOOLEAN /\ own \in BOOLEAN /\ short \in BOOLEAN

(* A call goes on with a slab.  A refill begins with an empty magazine and *)
(* asks for a full one, less the slab_t that slab_mem takes out.           *)
Refilling == {"remove", "retire", "next", "reload"}
Calls ==
  \A c \in CPU :
    /\ cpu[c].pc # "idle" => cpu[c].slab \in 1 .. nslabs
    /\ cpu[c].pc \in {"lock", "load"} => mags[c].count = 0
    /\ cpu[c].pc \in Refilling =>
         /\ cpu[c].count >= 1
         /\ mags[c].count + cpu[c].count <= objs_per_mag
         /\ ~short => mags[c].count = 0 /\ cpu[c].count = objs_per_mag
    /\ cpu[c].pc \in {"unretire", "reuse"} => WithFree

(* Without frees, and as long as there is one slab: who loads from it has  *)
(* its lock, which is kept once the slab is retired.                       *)
OneSlab == ~WithFree /\ nslabs = 1
LockGuards ==
  OneSlab =>
    /\ \A c \in CPU : cpu[c].pc # "reload"
    /\ \A c \in CPU : cpu[c].pc \in {"load"} \union Refilling => lock[1] = c
    /\ usable_slab_list # NULL => next[1] = 1 /\ prev[1] = 1
    /\ \A c \in CPU : cpu[c].pc \in {"retire", "next"} => usable_slab_list = NULL

(* One CPU, or one slab: a refill stores what it read less what it took.   *)
Alone == NCPU = 1 \/ OneSlab
ReadsHold ==
  Alone => \A c \in CPU : cpu[c].pc \in {"load", "reload"} => cpu[c].free = free_count[cpu[c].slab]

(* Every object in exactly one place. *)
Once ==
  /\ \A q, r \in Rounds : RoundObject(q) = RoundObject(r) => q = r
  /\ \A p, q \in PoolSlots : PoolObject(p) = PoolObject(q) => p = q
  /\ \A r \in Rounds : RoundObject(r) \notin held
  /\ \A p \in PoolSlots : PoolObject(p) \notin held
  /\ \A r \in Rounds, p \in PoolSlots : RoundObject(r) # PoolObject(p)
  /\ held \union InCache = AllObjects
Conserved == Alone /\ ~short => Once

(* A list: each slab between its neighbours, all of them on one ring.  The *)
(* only sets of slabs that next does not lead out of are the empty one and *)
(* the whole.                                                              *)
Cycle(S, n, p) ==
  /\ \A s \in S : n[s] \in S /\ p[s] \in S /\ p[n[s]] = s /\ n[p[s]] = s
  /\ \A T \in SUBSET S : T # {} /\ (\A t \in T : n[t] \in T) => T = S
Ring(S, head) == head \in S \union {NULL} /\ (head = NULL => S = {}) /\ Cycle(S, next, prev)

(* With one CPU each slab is on one list but for the one that moves. *)
Moving == IF cpu[0].pc \in {"retire", "reuse"} THEN {cpu[0].slab} ELSE {}
OnLists(U, F) ==
  /\ U \intersect F = {} /\ U \union F = (1 .. nslabs) \ Moving
  /\ \A s \in Moving : next[s] = NULL /\ prev[s] = NULL
  /\ Ring(F, full_slab_list) /\ \A s \in F : lock[s] # NoCPU
  /\ \/ Ring(U, usable_slab_list)
     \/ cpu[0].pc = "reuse" /\ usable_slab_list = cpu[0].slab
  /\ cpu[0].pc = "reload" => cpu[0].slab \in U
Walks ==
  /\ cpu[0].pc \in {"load", "remove", "retire"} => lock[cpu[0].slab] # NoCPU
  /\ cpu[0].pc \in {"lock", "load", "remove"} => cpu[0].slab = usable_slab_list
  /\ cpu[0].pc \notin {"retire", "next"} => usable_slab_list # NULL
  /\ cpu[0].pc \in {"unretire", "reuse"} => free_count[cpu[0].slab] = 1
Rings == NCPU = 1 => Walks /\ \E U, F \in SUBSET (1 .. nslabs) : OnLists(U, F)

Causes == NCPU = 1 => FaultCauses
SlabInv == Shape /\ Calls /\ LockGuards /\ ReadsHold /\ Conserved /\ Rings /\ Causes
----------------------------------------------------------------------------
(* The numbers of a cache. *)
LEMMA Numbers ==
  /\ objs_per_mag \in Nat \ {0} /\ total_count \in Nat /\ total_count >= 2
  /\ 2 * objs_per_mag <= total_count
  /\ NCPU \in Nat \ {0} /\ 0 \in CPU /\ NoCPU \notin CPU /\ (NCPU = 1 => CPU = {0})
  /\ MaxSlabs \in Nat \ {0} /\ NULL \notin Slab /\ NULL = 0
  /\ \A n : Junk \notin (1 .. n) \X Index
<1>1. total_count \in Nat /\ total_count >= 2 /\ SLAB_MAG_OBJS \in Nat \ {0}
  BY SlabAssumption
<1>2. total_count \div 2 \in Nat /\ total_count \div 2 >= 1 /\ 2 * (total_count \div 2) <= total_count
  BY <1>1
<1>3. objs_per_mag \in Nat \ {0} /\ 2 * objs_per_mag <= total_count
  BY <1>1, <1>2 DEF objs_per_mag
<1>4. NCPU \in Nat \ {0} /\ 0 \in CPU /\ NoCPU \notin CPU /\ (NCPU = 1 => CPU = {0})
  BY SlabAssumption DEF CPU, NoCPU
<1>5. MaxSlabs \in Nat \ {0} /\ NULL \notin Slab /\ NULL = 0
  BY SlabAssumption DEF Slab, NULL
<1>6. \A n : Junk \notin (1 .. n) \X Index
  BY <1>1 DEF Junk, Index, NULL
<1> QED
  BY <1>1, <1>3, <1>4, <1>5, <1>6

LEMMA SlabsAre ==
  ASSUME Shape
  PROVE  /\ nslabs \in Nat /\ nslabs >= 1 /\ nslabs <= MaxSlabs /\ MaxSlabs \in Nat
         /\ 1 .. nslabs \subseteq Slab /\ 0 .. nslabs = (1 .. nslabs) \union {NULL} /\ NULL \notin 1 .. nslabs
<1>1. nslabs \in Nat /\ nslabs >= 1 /\ nslabs <= MaxSlabs /\ MaxSlabs \in Nat /\ NULL = 0
  BY Numbers DEF Shape, Slab
<1> QED
  BY <1>1 DEF Slab

(* A slab is taken out of a ring. *)
LEMMA CycleRemove ==
  ASSUME NEW S \in SUBSET Slab, NEW n, NEW p, Cycle(S, n, p), NEW s \in S,
         NEW n2, \A t \in Slab : n2[t] = IF t = s THEN NULL ELSE IF t = p[s] THEN n[s] ELSE n[t],
         NEW p2, \A t \in Slab : p2[t] = IF t = s THEN NULL ELSE IF t = n[s] THEN p[s] ELSE p[t]
  PROVE  Cycle(S \ {s}, n2, p2)
<1>1. \A t \in S : n[t] \in S /\ p[t] \in S /\ p[n[t]] = t /\ n[p[t]] = t
  BY DEF Cycle
<1>2. ASSUME NEW t \in S \ {s}
      PROVE  n2[t] \in S \ {s} /\ p2[t] \in S \ {s} /\ p2[n2[t]] = t /\ n2[p2[t]] = t
  <2>1. n2[t] = (IF t = p[s] THEN n[s] ELSE n[t]) /\ p2[t] = IF t = n[s] THEN p[s] ELSE p[t]
    OBVIOUS
  <2>2. n2[t] \in S \ {s} /\ p2[t] \in S \ {s}
    BY <1>1, <2>1
  <2>3. p2[n2[t]] = t
    BY <1>1, <2>1, <2>2
  <2>4. n2[p2[t]] = t
    BY <1>1, <2>1, <2>2
  <2> QED
    BY <2>2, <2>3, <2>4
<1>3. ASSUME NEW T \in SUBSET (S \ {s}), T # {}, \A t \in T : n2[t] \in T
      PROVE  T = S \ {s}
  <2>1. CASE p[s] \in T
    <3>1. \A t \in T \union {s} : n[t] \in T \union {s}
      BY <1>1, <1>3, <2>1
    <3>2. T \union {s} \in SUBSET S /\ T \union {s} # {}
      OBVIOUS
    <3>3. T \union {s} = S
      BY <3>1, <3>2 DEF Cycle
    <3> QED
      BY <3>3
  <2>2. CASE p[s] \notin T
    <3>1. \A t \in T : n[t] \in T
      BY <1>1, <1>3, <2>2
    <3>2. T = S
      BY <3>1, <1>3 DEF Cycle
    <3> QED
      BY <3>2
  <2> QED
    BY <2>1, <2>2
<1> QED
  BY <1>2, <1>3 DEF Cycle

(* A slab is put into a ring before its head. *)
LEMMA CycleAdd ==
  ASSUME NEW S \in SUBSET Slab, NEW n, NEW p, Cycle(S, n, p), NEW h \in S, NEW s \in Slab \ S,
         NEW n2, \A t \in Slab : n2[t] = IF t = p[h] THEN s ELSE IF t = s THEN h ELSE n[t],
         NEW p2, \A t \in Slab : p2[t] = IF t = h THEN s ELSE IF t = s THEN p[h] ELSE p[t]
  PROVE  Cycle(S \union {s}, n2, p2)
<1>1. \A t \in S : n[t] \in S /\ p[t] \in S /\ p[n[t]] = t /\ n[p[t]] = t
  BY DEF Cycle
<1>2. n2[s] = h /\ p2[s] = p[h] /\ n2[p[h]] = s /\ p2[h] = s /\ p[h] \in S
  BY <1>1
<1>3. ASSUME NEW t \in S \union {s}
      PROVE  /\ n2[t] \in S \union {s} /\ p2[t] \in S \union {s} /\ p2[n2[t]] = t /\ n2[p2[t]] = t
  <2>1. CASE t = s
    BY <1>1, <1>2, <2>1
  <2>2. CASE t \in S
    <3>1. n2[t] = (IF t = p[h] THEN s ELSE n[t]) /\ p2[t] = IF t = h THEN s ELSE p[t]
      BY <2>2
    <3>2. n2[t] \in S \union {s} /\ p2[t] \in S \union {s}
      BY <1>1, <2>2, <3>1
    <3>3. p2[n2[t]] = t
      BY <1>1, <1>2, <2>2, <3>1
    <3>4. n2[p2[t]] = t
      BY <1>1, <1>2, <2>2, <3>1
    <3> QED
      BY <3>2, <3>3, <3>4
  <2> QED
    BY <2>1, <2>2
<1>4. ASSUME NEW T \in SUBSET (S \union {s}), T # {}, \A t \in T : n2[t] \in T
      PROVE  T = S \union {s}
  <2>1. CASE s \in T
    <3>1. h \in T
      BY <1>2, <1>4, <2>1
    <3>2. \A t \in T \ {s} : n[t] \in T \ {s}
      BY <1>1, <1>4, <3>1
    <3>3. T \ {s} = S
      BY <3>1, <3>2 DEF Cycle
    <3> QED
      BY <2>1, <3>3
  <2>2. CASE s \notin T
    <3>1. \A t \in T : n[t] \in T
      BY <1>1, <1>4, <2>2
    <3>2. T = S
      BY <1>4, <2>2, <3>1 DEF Cycle
    <3> QED
      BY <1>2, <1>4, <2>2, <3>2
  <2> QED
    BY <2>1, <2>2
<1> QED
  BY <1>3, <1>4 DEF Cycle

(* A ring of one slab, and a ring that is left alone. *)
LEMMA CycleOne ==
  ASSUME NEW s, NEW n, NEW p, n[s] = s, p[s] = s
  PROVE  Cycle({s}, n, p)
BY DEF Cycle

LEMMA CycleKept ==
  ASSUME NEW S, NEW n, NEW p, Cycle(S, n, p), NEW n2, NEW p2,
         \A t \in S : n2[t] = n[t] /\ p2[t] = p[t]
  PROVE  Cycle(S, n2, p2)
BY DEF Cycle

LEMMA CycleNone ==
  ASSUME NEW n, NEW p
  PROVE  Cycle({}, n, p)
BY DEF Cycle

(* What next leads to from the head of a ring is the ring. *)
LEMMA RingReached ==
  ASSUME NEW S \in SUBSET Slab, NEW head, Ring(S, head)
  PROVE  Reachable(head) = S
<1>1. head \in S \union {NULL} /\ (head = NULL => S = {}) /\ Cycle(S, next, prev)
  BY DEF Ring
<1>2. Closed(S) /\ {head} \ {NULL} \subseteq S
  BY <1>1 DEF Closed, Cycle
<1>3. ASSUME NEW T \in SUBSET Slab, {head} \ {NULL} \subseteq T, Closed(T)
      PROVE  S \subseteq T
  <2>1. CASE head = NULL
    BY <1>1, <2>1
  <2>2. CASE head # NULL
    <3>1. head \in S /\ head \in T
      BY <1>1, <1>3, <2>2
    <3>2. \A t \in S \intersect T : next[t] \in S \intersect T
      <4>1. \A t \in S : next[t] \in S /\ next[t] # NULL
        BY <1>1, Numbers DEF Cycle
      <4> QED
        BY <4>1, <1>3 DEF Closed
    <3>3. S \intersect T = S
      BY <1>1, <3>1, <3>2 DEF Cycle
    <3> QED
      BY <3>3
  <2> QED
    BY <2>1, <2>2
<1> QED
  BY <1>2, <1>3 DEF Reachable

(* The objects of a cache are as many as its places, so that each is in    *)
(* one of them.                                                            *)
LEMMA SameSize ==
  ASSUME NEW S, IsFiniteSet(S), NEW f, f \in [S -> {f[x] : x \in S}],
         \A x, y \in S : f[x] = f[y] => x = y
  PROVE  IsFiniteSet({f[x] : x \in S}) /\ Cardinality({f[x] : x \in S}) = Cardinality(S)
<1> DEFINE T == {f[x] : x \in S}
<1>1. f \in Surjection(S, T)
  BY Fun_IsSurj
<1>2. f \in Injection(S, T)
  BY Fun_IsInj
<1> QED
  BY <1>1, <1>2, FS_Surjection

LEMMA OnceCounts ==
  ASSUME Shape, Once
  PROVE  EveryObjectOnce
<1> DEFINE f == [r \in Rounds |-> RoundObject(r)]
           g == [p \in PoolSlots |-> PoolObject(p)]
           A == {f[r] : r \in Rounds}
           B == {g[p] : p \in PoolSlots}
<1>1. IsFiniteSet(1 .. objs_per_mag) /\ IsFiniteSet(CPU) /\ IsFiniteSet(Slab) /\ IsFiniteSet(Index)
      /\ Cardinality(Index) = total_count
  BY Numbers, FS_Interval DEF CPU, Slab, Index
<1>2. IsFiniteSet(Rounds) /\ IsFiniteSet(PoolSlots)
  <2>1. IsFiniteSet(CPU \X (1 .. objs_per_mag)) /\ IsFiniteSet(Slab \X Index)
    BY <1>1, FS_Product
  <2>2. Rounds \in SUBSET (CPU \X (1 .. objs_per_mag)) /\ PoolSlots \in SUBSET (Slab \X Index)
    BY DEF Rounds, PoolSlots
  <2> QED
    BY <2>1, <2>2, FS_Subset
<1>3. nslabs \in Nat /\ nslabs >= 1
  BY Numbers DEF Shape, Slab
<1>4. IsFiniteSet(AllObjects) /\ Cardinality(AllObjects) = nslabs * total_count
  <2>1. IsFiniteSet(1 .. nslabs) /\ Cardinality(1 .. nslabs) = nslabs
    BY <1>3, FS_Interval
  <2> QED
    BY <1>1, <2>1, FS_Product DEF AllObjects
<1>5. held \union (A \union B) = AllObjects
  BY DEF Once, InCache
<1>6. IsFiniteSet(A) /\ Cardinality(A) = Cardinality(Rounds)
  <2>1. \A q, r \in Rounds : f[q] = f[r] => q = r
    BY DEF Once
  <2>2. f \in [Rounds -> A]
    OBVIOUS
  <2> HIDE DEF f
  <2> QED
    BY <1>2, <2>1, <2>2, SameSize
<1>7. IsFiniteSet(B) /\ Cardinality(B) = Cardinality(PoolSlots)
  <2>1. \A p, q \in PoolSlots : g[p] = g[q] => p = q
    BY DEF Once
  <2>2. g \in [PoolSlots -> B]
    OBVIOUS
  <2> HIDE DEF g
  <2> QED
    BY <1>2, <2>1, <2>2, SameSize
<1>8. A \intersect B = {} /\ held \intersect (A \union B) = {}
  BY DEF Once
<1>9. IsFiniteSet(held)
  BY <1>4, <1>5, FS_Subset
<1> HIDE DEF A, B
<1>10. IsFiniteSet(A \union B) /\ Cardinality(A \union B) = Cardinality(A) + Cardinality(B)
  <2>1. Cardinality(A \intersect B) = 0
    BY <1>8, FS_EmptySet
  <2>2. Cardinality(A) \in Nat /\ Cardinality(B) \in Nat
    BY <1>6, <1>7, FS_CardinalityType
  <2> QED
    <3>1. IsFiniteSet(A \union B)
      BY <1>6, <1>7, FS_Union
    <3>2. Cardinality(A \union B) = Cardinality(A) + Cardinality(B) - Cardinality(A \intersect B)
      BY <1>6, <1>7, FS_Union
    <3> QED
      BY <2>1, <2>2, <3>1, <3>2
<1>11. Cardinality(AllObjects) = Cardinality(held) + Cardinality(A \union B)
  <2>1. Cardinality(held \intersect (A \union B)) = 0
    BY <1>8, FS_EmptySet
  <2>2. Cardinality(held) \in Nat /\ Cardinality(A \union B) \in Nat
    BY <1>9, <1>10, FS_CardinalityType
  <2> QED
    <3>1. Cardinality(held \union (A \union B)) =
            Cardinality(held) + Cardinality(A \union B) - Cardinality(held \intersect (A \union B))
      BY <1>9, <1>10, FS_Union
    <3>2. Cardinality(held \union (A \union B)) = Cardinality(held) + Cardinality(A \union B)
      BY <2>1, <2>2, <3>1
    <3> QED
      BY <1>5, <3>2, Zenon
<1>12. Cardinality(held) \in Nat /\ Cardinality(A) \in Nat /\ Cardinality(B) \in Nat
  BY <1>6, <1>7, <1>9, FS_CardinalityType
<1>13. Cardinality(held) + Cardinality(Rounds) + Cardinality(PoolSlots) = nslabs * total_count
  BY <1>4, <1>6, <1>7, <1>10, <1>11, <1>12
<1> QED
  BY <1>13 DEF Once, EveryObjectOnce, AllObjects

(* A slab with an object that a caller has is not full of free ones. *)
LEMMA NotAllFree ==
  ASSUME Shape, Once, NEW o \in held
  PROVE  o \in AllObjects /\ free_count[o[1]] < total_count
<1>1. o \in AllObjects /\ o[1] \in Slab /\ o[2] \in Index /\ o = <<o[1], o[2]>>
  BY Numbers DEF Once, AllObjects, Shape, Slab
<1>2. free_count[o[1]] \in 0 .. total_count
  BY <1>1 DEF Shape
<1>3. ASSUME free_count[o[1]] = total_count PROVE FALSE
  <2> DEFINE f == free_objs[o[1]]
  <2>1. f \in [Index -> Index] /\ IsFiniteSet(Index)
    <3>1. IsFiniteSet(Index)
      BY Numbers, FS_Interval DEF Index
    <3>2. free_objs \in [Slab -> [Index -> Index]]
      BY DEF Shape
    <3> QED
      BY <1>1, <3>1, <3>2
  <2>2. \A i \in Index : <<o[1], i>> \in PoolSlots /\ PoolObject(<<o[1], i>>) = <<o[1], f[i]>>
    BY <1>1, <1>3 DEF PoolSlots, PoolObject, Index
  <2>3. \A i, j \in Index : f[i] = f[j] => i = j
    BY <2>2 DEF Once
  <2> HIDE DEF f
  <2>4. f \in Injection(Index, Index)
    BY <2>1, <2>3, Fun_IsInj
  <2>5. f \in Surjection(Index, Index)
    BY <2>1, <2>4, FS_Injection
  <2>6. PICK i \in Index : f[i] = o[2]
    BY <1>1, <2>5, Fun_SurjectionProperties
  <2>7. PoolObject(<<o[1], i>>) = o /\ <<o[1], i>> \in PoolSlots
    BY <1>1, <2>2, <2>6
  <2> QED
    BY <2>7 DEF Once
<1>4. free_count[o[1]] < total_count
  BY <1>2, <1>3, Numbers
<1> QED
  BY <1>1, <1>4

----------------------------------------------------------------------------
(* slab_remove_from and slab_add_to, link by link. *)
LEMMA RemoveIs ==
  ASSUME Shape, NEW s \in Slab, ~RemoveFaults(s), NEW head \in 0 .. nslabs
  PROVE  LET l == slab_remove_from(s, head)
         IN  /\ l.next \in [Slab -> 0 .. nslabs] /\ l.prev \in [Slab -> 0 .. nslabs]
             /\ \A t \in Slab : l.next[t] = IF t = s THEN NULL ELSE IF t = prev[s] THEN next[s] ELSE next[t]
             /\ \A t \in Slab : l.prev[t] = IF t = s THEN NULL ELSE IF t = next[s] THEN prev[s] ELSE prev[t]
             /\ l.head = (IF head # s THEN head ELSE IF next[s] = s THEN NULL ELSE next[s])
             /\ l.head \in 0 .. nslabs
<1> DEFINE p == [prev EXCEPT ![next[s]] = prev[s]]
           n == [next EXCEPT ![p[s]] = next[s]]
           l == slab_remove_from(s, head)
<1>1. /\ next \in [Slab -> 0 .. nslabs] /\ prev \in [Slab -> 0 .. nslabs]
      /\ nslabs \in Nat /\ nslabs <= MaxSlabs /\ MaxSlabs \in Nat
  BY Numbers DEF Shape, Slab
<1>2. next[s] \in Slab /\ prev[s] \in Slab
  BY <1>1 DEF RemoveFaults, Slab, NULL
<1>3. /\ p \in [Slab -> 0 .. nslabs] /\ p[s] = prev[s]
      /\ \A t \in Slab : p[t] = IF t = next[s] THEN prev[s] ELSE prev[t]
  BY <1>1, <1>2
<1>4. /\ n \in [Slab -> 0 .. nslabs] /\ n[s] = next[s]
      /\ \A t \in Slab : n[t] = IF t = prev[s] THEN next[s] ELSE next[t]
  BY <1>1, <1>2, <1>3
<1>5. /\ l.next = [n EXCEPT ![s] = NULL] /\ l.prev = [p EXCEPT ![s] = NULL]
      /\ l.head = IF head # s THEN head ELSE IF n[s] = s THEN NULL ELSE n[s]
  BY DEF slab_remove_from
<1> HIDE DEF n, p, l
<1>6. NULL \in 0 .. nslabs
  BY <1>1 DEF NULL
<1>7. l.next \in [Slab -> 0 .. nslabs] /\ l.prev \in [Slab -> 0 .. nslabs]
  BY <1>3, <1>4, <1>5, <1>6
<1>8. /\ \A t \in Slab : l.next[t] = IF t = s THEN NULL ELSE IF t = prev[s] THEN next[s] ELSE next[t]
      /\ \A t \in Slab : l.prev[t] = IF t = s THEN NULL ELSE IF t = next[s] THEN prev[s] ELSE prev[t]
  BY <1>3, <1>4, <1>5
<1>9. /\ l.head = (IF head # s THEN head ELSE IF next[s] = s THEN NULL ELSE next[s])
      /\ l.head \in 0 .. nslabs
  BY <1>1, <1>4, <1>5, <1>6
<1> QED
  BY <1>7, <1>8, <1>9 DEF l

LEMMA AddIs ==
  ASSUME Shape, NEW s \in Slab, NEW m \in Nat, s <= m, nslabs <= m,
         NEW head \in 0 .. nslabs, ~AddFaults(head)
  PROVE  LET l == slab_add_to(s, head)
         IN  /\ l.next \in [Slab -> 0 .. m] /\ l.prev \in [Slab -> 0 .. m]
             /\ head = NULL =>
                  /\ \A t \in Slab : l.next[t] = IF t = s THEN s ELSE next[t]
                  /\ \A t \in Slab : l.prev[t] = IF t = s THEN s ELSE prev[t]
                  /\ l.head = s
             /\ head # NULL =>
                  /\ \A t \in Slab : l.next[t] = IF t = prev[head] THEN s ELSE IF t = s THEN head ELSE next[t]
                  /\ \A t \in Slab : l.prev[t] = IF t = head THEN s ELSE IF t = s THEN prev[head] ELSE prev[t]
                  /\ l.head = head
             /\ l.head \in 0 .. m
<1> DEFINE l == slab_add_to(s, head)
<1>1. /\ next \in [Slab -> 0 .. nslabs] /\ prev \in [Slab -> 0 .. nslabs]
      /\ nslabs \in Nat /\ nslabs <= MaxSlabs /\ MaxSlabs \in Nat /\ s \in 0 .. m
  BY Numbers DEF Shape, Slab
<1>2. next \in [Slab -> 0 .. m] /\ prev \in [Slab -> 0 .. m] /\ head \in 0 .. m
  <2>1. 0 .. nslabs \subseteq 0 .. m
    BY <1>1
  <2> QED
    BY <1>1, <2>1
<1>3. CASE head = NULL
  <2>1. /\ l.next = [next EXCEPT ![s] = s] /\ l.prev = [prev EXCEPT ![s] = s] /\ l.head = s
    BY <1>3 DEF slab_add_to
  <2> HIDE DEF l
  <2>2. l.next \in [Slab -> 0 .. m] /\ l.prev \in [Slab -> 0 .. m] /\ l.head \in 0 .. m
    BY <1>1, <1>2, <2>1
  <2>3. /\ \A t \in Slab : l.next[t] = IF t = s THEN s ELSE next[t]
        /\ \A t \in Slab : l.prev[t] = IF t = s THEN s ELSE prev[t]
    BY <1>2, <2>1
  <2> QED
    BY <1>3, <2>1, <2>2, <2>3 DEF l
<1>4. CASE head # NULL
  <2>1. /\ l.next = [next EXCEPT ![s] = head, ![prev[head]] = s]
        /\ l.prev = [prev EXCEPT ![s] = prev[head], ![head] = s] /\ l.head = head
    BY <1>4 DEF slab_add_to
  <2>2. head \in Slab /\ prev[head] \in Slab /\ prev[head] \in 0 .. m
    <3>1. head \in Slab
      BY <1>1, <1>4 DEF Slab, NULL
    <3>2. prev[head] # NULL
      BY <1>4 DEF AddFaults
    <3> QED
      BY <1>1, <1>2, <3>1, <3>2 DEF Slab, NULL
  <2> HIDE DEF l
  <2>3. l.next \in [Slab -> 0 .. m] /\ l.prev \in [Slab -> 0 .. m] /\ l.head \in 0 .. m
    BY <1>1, <1>2, <2>1, <2>2
  <2>4. /\ \A t \in Slab : l.next[t] = IF t = prev[head] THEN s ELSE IF t = s THEN head ELSE next[t]
        /\ \A t \in Slab : l.prev[t] = IF t = head THEN s ELSE IF t = s THEN prev[head] ELSE prev[t]
    BY <1>2, <2>1, <2>2
  <2> QED
    BY <1>4, <2>1, <2>3, <2>4 DEF l
<1> QED
  BY <1>3, <1>4

(* A CPU goes on elsewhere. *)
LEMMA CpuGoes ==
  ASSUME Shape, NEW c \in CPU, NEW r \in CpuType, cpu' = [cpu EXCEPT ![c] = r]
  PROVE  /\ cpu' \in [CPU -> CpuType] /\ cpu'[c] = r /\ \A d \in CPU : d # c => cpu'[d] = cpu[d]
BY DEF Shape

(* mag holds the n objects below place free of the slab's stack, the last of *)
(* them first.                                                               *)
HoldsLast(mag, s, free, n) ==
  /\ mag \in MagType(nslabs) /\ mag.count = n
  /\ \A k \in 1 .. n : /\ free + 1 - k \in Index
                       /\ mag.objects[k] = <<s, free_objs[s][free + 1 - k]>>

(* slab_load_mag: what a magazine holds then. *)
LEMMA MagLoads ==
  ASSUME Shape, NEW c \in CPU, NEW s \in 1 .. nslabs, NEW free \in 0 .. total_count,
         NEW n \in 0 .. objs_per_mag, mags[c].count + n <= objs_per_mag
  PROVE  LET mag == slab_load_mag(mags[c], s, free, n)
         IN  /\ mag \in MagType(nslabs) /\ mag.count = mags[c].count + n
             /\ mags[c].count = 0 /\ n <= free => HoldsLast(mag, s, free, n)
             /\ n = 0 => mag = mags[c]
<1> DEFINE old == mags[c]
           mag == slab_load_mag(old, s, free, n)
<1>1. /\ old \in MagType(nslabs) /\ old.objects \in [1 .. objs_per_mag -> AllObjects \union {Junk}]
      /\ old.count \in 0 .. objs_per_mag
  BY DEF Shape, MagType, AllObjects
<1>2. objs_per_mag \in Nat /\ total_count \in Nat /\ s \in Slab /\ free_objs[s] \in [Index -> Index]
  BY Numbers DEF Shape, Slab
<1>3. /\ mag.objects = [k \in 1 .. objs_per_mag |->
           IF k > old.count /\ k <= n /\ free + old.count + 1 - k \in Index
           THEN <<s, free_objs[s][free + old.count + 1 - k]>> ELSE old.objects[k]]
      /\ mag.count = old.count + n
      /\ mag = [objects |-> mag.objects, count |-> mag.count]
  BY <1>1 DEF slab_load_mag
<1> HIDE DEF mag, old
<1>4. mag.count \in 0 .. objs_per_mag
  BY <1>1, <1>2, <1>3 DEF old
<1>5. mag.objects \in [1 .. objs_per_mag -> AllObjects \union {Junk}]
  BY <1>1, <1>2, <1>3 DEF AllObjects
<1>6. mag \in MagType(nslabs)
  <2>1. mag = [objects |-> mag.objects, count |-> mag.count]
    BY <1>3
  <2>2. mag.objects \in [1 .. objs_per_mag -> ((1 .. nslabs) \X Index) \union {Junk}]
    BY <1>5 DEF AllObjects
  <2> QED
    BY <1>4, <2>1, <2>2 DEF MagType
<1>7. ASSUME old.count = 0, n <= free, NEW k \in 1 .. n
      PROVE  free + 1 - k \in Index /\ mag.objects[k] = <<s, free_objs[s][free + 1 - k]>>
  <2>1. free + 1 - k \in Index
    BY <1>2, <1>7 DEF Index
  <2>2. k \in 1 .. objs_per_mag /\ k > 0 /\ k <= n /\ free + 0 + 1 - k = free + 1 - k
    BY <1>2
  <2> QED
    BY <1>3, <1>7, <2>1, <2>2
<1>8. ASSUME n = 0 PROVE mag = old
  <2>1. mag.count = old.count
    BY <1>1, <1>2, <1>3, <1>8
  <2>2. mag.objects = [k \in 1 .. objs_per_mag |-> old.objects[k]]
    BY <1>1, <1>2, <1>3, <1>8
  <2>3. mag.objects = old.objects
    BY <1>1, <2>2
  <2>4. old = [objects |-> old.objects, count |-> old.count]
    BY <1>1 DEF MagType
  <2> QED
    BY <1>3, <2>1, <2>3, <2>4
<1>9. ASSUME old.count = 0, n <= free PROVE HoldsLast(mag, s, free, n)
  <2>1. mag.count = n
    BY <1>3, <1>9
  <2>2. \A k \in 1 .. n : free + 1 - k \in Index /\ mag.objects[k] = <<s, free_objs[s][free + 1 - k]>>
    BY <1>7, <1>9
  <2> QED
    BY <1>6, <2>1, <2>2 DEF HoldsLast
<1> QED
  BY <1>3, <1>6, <1>8, <1>9 DEF mag, old

(* An empty magazine is loaded whole. *)
LEMMA FullLoad ==
  ASSUME Shape, NEW c \in CPU, NEW s \in 1 .. nslabs, mags[c].count = 0, free_count[s] >= objs_per_mag
  PROVE  HoldsLast(slab_load_mag(mags[c], s, free_count[s], objs_per_mag), s, free_count[s], objs_per_mag)
<1>1. s \in Slab
  BY SlabsAre
<1>2. /\ free_count[s] \in 0 .. total_count
      /\ objs_per_mag \in 0 .. objs_per_mag
      /\ objs_per_mag <= free_count[s]
      /\ mags[c].count + objs_per_mag <= objs_per_mag
  BY <1>1, Numbers DEF Shape
<1> QED
  BY <1>2, MagLoads, Zenon

----------------------------------------------------------------------------
(* What each step does to the places of the objects. *)

(* A round is handed out. *)
LEMMA OnceAllocRound ==
  ASSUME Shape, Once, NEW c \in CPU, mags[c].count > 0,
         mags' = [mags EXCEPT ![c] = Pop(mags[c])], held' = held \union {TopOf(mags[c])},
         UNCHANGED <<nslabs, free_objs, free_count>>
  PROVE  Once'
<1> DEFINE top == <<c, mags[c].count>>
<1>1. /\ \A d \in CPU : /\ mags[d].count \in 0 .. objs_per_mag
                        /\ mags'[d].objects = mags[d].objects
                        /\ mags'[d].count = IF d = c THEN mags[d].count - 1 ELSE mags[d].count
  BY DEF Shape, MagType, Pop
<1>2. objs_per_mag \in Nat
  BY Numbers
<1>3. top \in Rounds /\ RoundObject(top) = TopOf(mags[c])
  BY <1>1, <1>2 DEF Rounds, RoundObject, TopOf
<1>4. \A r : r \in Rounds' <=> r \in Rounds /\ r # top
  BY <1>1, <1>2 DEF Rounds
<1>5. \A r \in Rounds : RoundObject(r)' = RoundObject(r)
  BY <1>1 DEF Rounds, RoundObject
<1>6. PoolSlots' = PoolSlots /\ AllObjects' = AllObjects /\ \A p : PoolObject(p)' = PoolObject(p)
  BY DEF PoolSlots, AllObjects, PoolObject
<1>7. held' = held \union {RoundObject(top)}
  BY <1>3
<1> HIDE DEF top
<1>8. \A q, r \in Rounds' : RoundObject(q)' = RoundObject(r)' => q = r
  BY <1>4, <1>5 DEF Once
<1>9. \A r \in Rounds' : RoundObject(r)' \notin held'
  BY <1>3, <1>4, <1>5, <1>7 DEF Once
<1>10. \A p \in PoolSlots : PoolObject(p) \notin held'
  BY <1>3, <1>7 DEF Once
<1>11. held' \union {RoundObject(r)' : r \in Rounds'} = held \union {RoundObject(r) : r \in Rounds}
  BY <1>3, <1>4, <1>5, <1>7
<1>12. (held \union InCache)' = held \union InCache
  BY <1>6, <1>11 DEF InCache
<1> QED
  BY <1>4, <1>5, <1>6, <1>8, <1>9, <1>10, <1>12 DEF Once

(* A magazine without rounds is filled with free objects of a slab, and    *)
(* the last one is handed out.                                             *)
LEMMA OnceRefill ==
  ASSUME Shape, Once, NEW c \in CPU, NEW s \in 1 .. nslabs,
         mags[c].count = 0, free_count[s] >= objs_per_mag,
         NEW m, m = slab_load_mag(mags[c], s, free_count[s], objs_per_mag),
         mags' = [mags EXCEPT ![c] = Pop(m)], held' = held \union {TopOf(m)},
         free_count' = [free_count EXCEPT ![s] = free_count[s] - objs_per_mag],
         UNCHANGED <<nslabs, free_objs>>
  PROVE  Once'
<1> DEFINE M == objs_per_mag
           free == free_count[s]
           from(k) == <<s, free + 1 - k>>
<1>1. /\ M \in Nat \ {0} /\ free \in 0 .. total_count /\ total_count \in Nat /\ s \in Slab
      /\ free_count \in [Slab -> 0 .. total_count]
  <2>1. s \in Slab
    BY Numbers DEF Shape, Slab
  <2> QED
    BY <2>1, Numbers DEF Shape
<1>2. /\ m \in MagType(nslabs) /\ m.count = M
      /\ \A k \in 1 .. M : free + 1 - k \in Index /\ m.objects[k] = PoolObject(from(k))
  <2>1. HoldsLast(m, s, free, M)
    BY FullLoad
  <2> HIDE DEF M, free
  <2> QED
    BY <2>1 DEF HoldsLast, PoolObject
<1>3. /\ \A d \in CPU : d # c => mags'[d] = mags[d]
      /\ mags'[c].objects = m.objects /\ mags'[c].count = M - 1
  BY <1>2 DEF Shape, MagType, Pop
<1> HIDE DEF M, free, from
<1>4. \A r \in Rounds : r[1] # c /\ r[1] \in CPU
  <2>1. \A r \in Rounds : r[1] \in CPU /\ r[2] \in Nat /\ r[2] >= 1 /\ r[2] <= mags[r[1]].count
    BY <1>1 DEF Rounds, M
  <2> QED
    BY <2>1
<1>5. \A r : r \in Rounds' <=> r \in Rounds \/ \E k \in 1 .. M - 1 : r = <<c, k>>
  <2>1. \A r : r[1] # c => (r \in Rounds' <=> r \in Rounds)
    BY <1>3 DEF Rounds
  <2>2. \A k : <<c, k>> \in Rounds' <=> k \in 1 .. M - 1
    BY <1>1, <1>3 DEF Rounds, M
  <2>3. \A r \in Rounds' : r = <<r[1], r[2]>>
    BY DEF Rounds
  <2> QED
    BY <1>4, <2>1, <2>2, <2>3
<1>6. /\ \A r \in Rounds : RoundObject(r)' = RoundObject(r)
      /\ \A k \in 1 .. M - 1 : RoundObject(<<c, k>>)' = PoolObject(from(k))
  <2>1. \A r \in Rounds : RoundObject(r)' = RoundObject(r)
    BY <1>3, <1>4 DEF RoundObject
  <2>2. \A k \in 1 .. M - 1 : k \in 1 .. M
    BY <1>1
  <2> QED
    BY <1>2, <1>3, <2>1, <2>2 DEF RoundObject
<1>7. \A p : PoolObject(p)' = PoolObject(p)
  BY DEF PoolObject
<1>8. \A p : p \in PoolSlots' <=> p \in PoolSlots /\ ~\E k \in 1 .. M : p = from(k)
  <2>1. ASSUME NEW p \in Slab \X Index
        PROVE  p[2] <= free_count'[p[1]] <=> p[2] <= free_count[p[1]] /\ ~\E k \in 1 .. M : p = from(k)
    <3>1. p[2] \in Nat /\ p[2] >= 1 /\ p = <<p[1], p[2]>> /\ free \in Nat /\ M \in Nat /\ M <= free
      BY <1>1 DEF Index, free, M
    <3>2. CASE p[1] # s
      BY <1>1, <2>1, <3>1, <3>2 DEF from
    <3>3. CASE p[1] = s
      <4>1. free_count[p[1]] = free /\ free_count'[p[1]] = free - M
        BY <1>1, <3>3 DEF free, M
      <4>2. (\E k \in 1 .. M : p = from(k)) <=> (p[2] <= free /\ p[2] > free - M)
        <5>1. ASSUME NEW k \in 1 .. M, p = from(k) PROVE p[2] <= free /\ p[2] > free - M
          BY <3>1, <5>1 DEF from
        <5>2. ASSUME p[2] <= free, p[2] > free - M PROVE \E k \in 1 .. M : p = from(k)
          <6>1. free + 1 - p[2] \in 1 .. M /\ free + 1 - (free + 1 - p[2]) = p[2]
            BY <3>1, <5>2
          <6>2. p = from(free + 1 - p[2])
            BY <3>1, <3>3, <6>1 DEF from
          <6> QED
            BY <6>1, <6>2
        <5> QED
          BY <5>1, <5>2
      <4> QED
        BY <3>1, <4>1, <4>2
    <3> QED
      BY <3>2, <3>3
  <2> QED
    BY <2>1 DEF PoolSlots
<1>9. /\ \A k \in 1 .. M : from(k) \in PoolSlots
      /\ \A j, k \in 1 .. M : from(j) = from(k) => j = k
  <2>1. \A k \in 1 .. M : free + 1 - k <= free
    BY <1>1 DEF free
  <2> QED
    BY <1>1, <1>2, <2>1 DEF from, PoolSlots, free
<1>10. held' = held \union {PoolObject(from(M))} /\ M \in 1 .. M
  <2>1. TopOf(m) = PoolObject(from(M))
    BY <1>1, <1>2 DEF TopOf
  <2> QED
    BY <1>1, <2>1
<1>11. 1 .. M = (1 .. M - 1) \union {M} /\ M \notin 1 .. M - 1
  BY <1>1
<1> HIDE DEF from
<1>12. /\ \A q, r \in Rounds : RoundObject(q) = RoundObject(r) => q = r
       /\ \A p, q \in PoolSlots : PoolObject(p) = PoolObject(q) => p = q
       /\ \A r \in Rounds : RoundObject(r) \notin held
       /\ \A p \in PoolSlots : PoolObject(p) \notin held
       /\ \A r \in Rounds, p \in PoolSlots : RoundObject(r) # PoolObject(p)
       /\ held \union InCache = AllObjects
  BY DEF Once
<1>13. \A q, r \in Rounds' : RoundObject(q)' = RoundObject(r)' => q = r
  BY <1>5, <1>6, <1>9, <1>11, <1>12
<1>14. \A p, q \in PoolSlots' : PoolObject(p)' = PoolObject(q)' => p = q
  BY <1>7, <1>8, <1>12
<1>15. \A r \in Rounds' : RoundObject(r)' \notin held'
  BY <1>5, <1>6, <1>9, <1>10, <1>11, <1>12
<1>16. \A p \in PoolSlots' : PoolObject(p)' \notin held'
  BY <1>7, <1>8, <1>9, <1>10, <1>12
<1>17. \A r \in Rounds', p \in PoolSlots' : RoundObject(r)' # PoolObject(p)'
  BY <1>5, <1>6, <1>7, <1>8, <1>9, <1>11, <1>12
<1>18. (held \union InCache)' = AllObjects'
  <2>1. InCache' = {RoundObject(r)' : r \in Rounds'} \union {PoolObject(p)' : p \in PoolSlots'}
    BY DEF InCache
  <2>2. InCache = {RoundObject(r) : r \in Rounds} \union {PoolObject(p) : p \in PoolSlots}
    BY DEF InCache
  <2>3. ASSUME NEW o \in held \union InCache PROVE o \in (held \union InCache)'
    <3>1. CASE o \in held
      BY <1>10, <3>1
    <3>2. ASSUME NEW r \in Rounds, o = RoundObject(r) PROVE o \in InCache'
      BY <1>5, <1>6, <2>1, <3>2
    <3>3. ASSUME NEW p \in PoolSlots, o = PoolObject(p) PROVE o \in (held \union InCache)'
      <4>1. CASE p \in PoolSlots'
        BY <1>7, <2>1, <3>3, <4>1
      <4>2. CASE p = from(M)
        BY <1>10, <3>3, <4>2
      <4>3. ASSUME NEW k \in 1 .. M - 1, p = from(k) PROVE o \in InCache'
        <5>1. <<c, k>> \in Rounds' /\ RoundObject(<<c, k>>)' = o
          BY <1>5, <1>6, <3>3, <4>3
        <5> QED
          BY <2>1, <5>1
      <4> QED
        BY <1>8, <1>11, <4>1, <4>2, <4>3
    <3> QED
      BY <2>2, <3>1, <3>2, <3>3
  <2>4. ASSUME NEW o \in (held \union InCache)' PROVE o \in held \union InCache
    <3>1. CASE o \in held'
      BY <1>9, <1>10, <2>2, <3>1
    <3>2. ASSUME NEW r \in Rounds', o = RoundObject(r)' PROVE o \in InCache
      BY <1>5, <1>6, <1>9, <1>11, <2>2, <3>2
    <3>3. ASSUME NEW p \in PoolSlots', o = PoolObject(p)' PROVE o \in InCache
      BY <1>7, <1>8, <2>2, <3>3
    <3> QED
      BY <2>1, <3>1, <3>2, <3>3
  <2>5. AllObjects' = AllObjects
    BY DEF AllObjects
  <2> QED
    BY <1>12, <2>3, <2>4, <2>5
<1> QED
  BY <1>13, <1>14, <1>15, <1>16, <1>17, <1>18 DEF Once

(* An object is given back to a magazine. *)
LEMMA OnceFreeToMagazine ==
  ASSUME Shape, Once, NEW o \in held, mags[0].count < objs_per_mag,
         mags' = [mags EXCEPT ![0] = Push(mags[0], o)], held' = held \ {o},
         UNCHANGED <<nslabs, free_objs, free_count>>
  PROVE  Once'
<1> PICK top : top = <<0, mags[0].count + 1>>
  OBVIOUS
<1>1. /\ \A d \in CPU : mags[d].count \in 0 .. objs_per_mag
      /\ mags[0].objects \in [1 .. objs_per_mag -> AllObjects \union {Junk}]
      /\ 0 \in CPU /\ objs_per_mag \in Nat
  BY Numbers DEF Shape, MagType, AllObjects
<1>2. /\ \A d \in CPU : d # 0 => mags'[d] = mags[d]
      /\ mags'[0].objects = [mags[0].objects EXCEPT ![mags[0].count + 1] = o]
      /\ mags'[0].count = mags[0].count + 1
  BY <1>1 DEF Shape, Push
<1>3. \A r \in Rounds : r = <<r[1], r[2]>> /\ r[1] \in CPU /\ r[2] \in 1 .. objs_per_mag /\ r[2] <= mags[r[1]].count
  BY DEF Rounds
<1>4. \A d, k : <<d, k>> \in Rounds <=> d \in CPU /\ k \in 1 .. objs_per_mag /\ k <= mags[d].count
  BY DEF Rounds
<1>5. \A d, k : <<d, k>> \in Rounds' <=> d \in CPU /\ k \in 1 .. objs_per_mag /\ k <= mags'[d].count
  BY DEF Rounds
<1>6. \A r : r \in Rounds' <=> r \in Rounds \/ r = top
  <2>1. \A r \in Rounds' : r = <<r[1], r[2]>>
    BY DEF Rounds
  <2>2. ASSUME NEW d, NEW k PROVE <<d, k>> \in Rounds' <=> <<d, k>> \in Rounds \/ <<d, k>> = top
    <3>1. CASE d # 0
      BY <1>2, <1>4, <1>5, <3>1
    <3>2. CASE d = 0
      <4>1. /\ k \in 1 .. objs_per_mag =>
                  (k <= mags[0].count + 1 <=> k <= mags[0].count \/ k = mags[0].count + 1)
            /\ mags[0].count + 1 \in 1 .. objs_per_mag
        BY <1>1
      <4> QED
        BY <1>1, <1>2, <1>4, <1>5, <3>2, <4>1
    <3> QED
      BY <3>1, <3>2
  <2> QED
    BY <1>3, <2>1, <2>2
<1>7. top \notin Rounds /\ RoundObject(top)' = o
  <2>1. top \notin Rounds
    BY <1>1, <1>4
  <2>2. mags'[0].objects[mags[0].count + 1] = o
    BY <1>1, <1>2
  <2> QED
    BY <2>1, <2>2 DEF RoundObject
<1>8. \A r \in Rounds : RoundObject(r)' = RoundObject(r)
  <2>1. ASSUME NEW r \in Rounds PROVE mags'[r[1]].objects[r[2]] = mags[r[1]].objects[r[2]]
    <3>1. CASE r[1] # 0
      BY <1>2, <1>3, <3>1
    <3>2. CASE r[1] = 0
      BY <1>1, <1>2, <1>3, <3>2
    <3> QED
      BY <3>1, <3>2
  <2> QED
    BY <2>1 DEF RoundObject
<1>9. PoolSlots' = PoolSlots /\ AllObjects' = AllObjects /\ \A p : PoolObject(p)' = PoolObject(p)
  BY DEF PoolSlots, AllObjects, PoolObject
<1>10. /\ \A q, r \in Rounds : RoundObject(q) = RoundObject(r) => q = r
       /\ \A p, q \in PoolSlots : PoolObject(p) = PoolObject(q) => p = q
       /\ \A r \in Rounds : RoundObject(r) \notin held
       /\ \A p \in PoolSlots : PoolObject(p) \notin held
       /\ \A r \in Rounds, p \in PoolSlots : RoundObject(r) # PoolObject(p)
       /\ held \union InCache = AllObjects
  BY DEF Once
<1>11. \A q, r \in Rounds' : RoundObject(q)' = RoundObject(r)' => q = r
  BY <1>6, <1>7, <1>8, <1>10
<1>12. \A r \in Rounds' : RoundObject(r)' \notin held'
  BY <1>6, <1>7, <1>8, <1>10
<1>13. \A p \in PoolSlots : PoolObject(p) \notin held'
  BY <1>10
<1>14. \A r \in Rounds', p \in PoolSlots : RoundObject(r)' # PoolObject(p)
  BY <1>6, <1>7, <1>8, <1>10
<1>15. held' \union {RoundObject(r)' : r \in Rounds'} = held \union {RoundObject(r) : r \in Rounds}
  BY <1>6, <1>7, <1>8
<1>16. (held \union InCache)' = held \union InCache
  BY <1>9, <1>15 DEF InCache
<1> QED
  BY <1>9, <1>10, <1>11, <1>12, <1>13, <1>14, <1>16 DEF Once

(* An object is given back to its slab. *)
LEMMA OnceFreeToSlab ==
  ASSUME Shape, Once, NEW o \in held,
         free_objs' = [free_objs EXCEPT ![o[1]][free_count[o[1]] + 1] = o[2]],
         free_count' = [free_count EXCEPT ![o[1]] = free_count[o[1]] + 1],
         held' = held \ {o}, UNCHANGED <<nslabs, mags>>
  PROVE  Once'
<1> DEFINE s == o[1]
           n == free_count[s]
<1> PICK top : top = <<s, n + 1>>
  OBVIOUS
<1>1. /\ s \in Slab /\ o[2] \in Index /\ o = <<s, o[2]>> /\ n \in Nat /\ n + 1 \in Index /\ total_count \in Nat
      /\ free_objs \in [Slab -> [Index -> Index]] /\ free_count \in [Slab -> 0 .. total_count]
  <2>1. o \in AllObjects /\ n < total_count
    BY NotAllFree
  <2>2. s \in Slab /\ o[2] \in Index /\ o = <<s, o[2]>>
    BY <2>1, Numbers DEF AllObjects, Shape, Slab
  <2>3. free_objs \in [Slab -> [Index -> Index]] /\ free_count \in [Slab -> 0 .. total_count]
    BY DEF Shape
  <2>4. n \in 0 .. total_count
    BY <2>2, <2>3
  <2> QED
    BY <2>1, <2>2, <2>3, <2>4, Numbers DEF Index
<1>2. /\ \A t \in Slab : t # s => free_objs'[t] = free_objs[t] /\ free_count'[t] = free_count[t]
      /\ free_objs'[s] = [free_objs[s] EXCEPT ![n + 1] = o[2]] /\ free_count'[s] = n + 1
  BY <1>1
<1> HIDE DEF s, n
<1>3. \A p \in PoolSlots : p = <<p[1], p[2]>> /\ p[1] \in Slab /\ p[2] \in Index /\ p[2] <= free_count[p[1]]
  BY DEF PoolSlots
<1>4. \A t, i : <<t, i>> \in PoolSlots <=> t \in Slab /\ i \in Index /\ i <= free_count[t]
  BY DEF PoolSlots
<1>5. \A t, i : <<t, i>> \in PoolSlots' <=> t \in Slab /\ i \in Index /\ i <= free_count'[t]
  BY DEF PoolSlots
<1>6. \A p : p \in PoolSlots' <=> p \in PoolSlots \/ p = top
  <2>1. \A p \in PoolSlots' : p = <<p[1], p[2]>>
    BY DEF PoolSlots
  <2>2. ASSUME NEW t, NEW i PROVE <<t, i>> \in PoolSlots' <=> <<t, i>> \in PoolSlots \/ <<t, i>> = top
    <3>1. CASE t # s
      BY <1>2, <1>4, <1>5, <3>1
    <3>2. CASE t = s
      <4>1. n \in Nat /\ total_count \in Nat
        BY <1>1
      <4>2. i \in 1 .. total_count => (i <= n + 1 <=> i <= n \/ i = n + 1)
        BY ONLY <4>1
      <4>3. i \in Index <=> i \in 1 .. total_count
        BY DEF Index
      <4>4. <<t, i>> \in PoolSlots <=> i \in Index /\ i <= n
        BY <1>1, <1>4, <3>2 DEF n
      <4>5. <<t, i>> \in PoolSlots' <=> i \in Index /\ i <= n + 1
        BY <1>1, <1>2, <1>5, <3>2
      <4>6. <<t, i>> = top <=> i = n + 1
        BY <3>2
      <4>7. n + 1 \in Index
        BY <1>1
      <4> QED
        BY <4>2, <4>3, <4>4, <4>5, <4>6, <4>7
    <3> QED
      BY <3>1, <3>2
  <2> QED
    BY <1>3, <2>1, <2>2
<1>7. top \notin PoolSlots /\ PoolObject(top)' = o
  <2>1. ~(n + 1 <= n)
    BY <1>1
  <2> QED
    BY <1>1, <1>2, <1>4, <2>1 DEF PoolObject, n
<1>8. \A p \in PoolSlots : PoolObject(p)' = PoolObject(p)
  <2>1. ASSUME NEW p \in PoolSlots PROVE free_objs'[p[1]][p[2]] = free_objs[p[1]][p[2]]
    <3>1. CASE p[1] # s
      BY <1>2, <1>3, <3>1
    <3>2. CASE p[1] = s
      <4>1. p[2] # n + 1
        BY <1>3, <1>7, <3>2
      <4> QED
        BY <1>1, <1>2, <1>3, <3>2, <4>1
    <3> QED
      BY <3>1, <3>2
  <2> QED
    BY <2>1 DEF PoolObject
<1>9. Rounds' = Rounds /\ AllObjects' = AllObjects /\ \A r : RoundObject(r)' = RoundObject(r)
  BY DEF Rounds, AllObjects, RoundObject
<1>10. /\ \A q, r \in Rounds : RoundObject(q) = RoundObject(r) => q = r
       /\ \A p, q \in PoolSlots : PoolObject(p) = PoolObject(q) => p = q
       /\ \A r \in Rounds : RoundObject(r) \notin held
       /\ \A p \in PoolSlots : PoolObject(p) \notin held
       /\ \A r \in Rounds, p \in PoolSlots : RoundObject(r) # PoolObject(p)
       /\ held \union InCache = AllObjects
  BY DEF Once
<1>11. \A q, p \in PoolSlots' : PoolObject(q)' = PoolObject(p)' => q = p
  BY <1>6, <1>7, <1>8, <1>10
<1>12. \A p \in PoolSlots' : PoolObject(p)' \notin held'
  BY <1>6, <1>7, <1>8, <1>10
<1>13. \A r \in Rounds : RoundObject(r) \notin held'
  BY <1>10
<1>14. \A r \in Rounds, p \in PoolSlots' : RoundObject(r) # PoolObject(p)'
  BY <1>6, <1>7, <1>8, <1>10
<1>15. held' \union {PoolObject(p)' : p \in PoolSlots'} = held \union {PoolObject(p) : p \in PoolSlots}
  BY <1>6, <1>7, <1>8
<1>16. (held \union InCache)' = held \union InCache
  BY <1>9, <1>15 DEF InCache
<1> QED
  BY <1>9, <1>10, <1>11, <1>12, <1>13, <1>14, <1>16 DEF Once

(* A slab is created, with all its objects. *)
LEMMA OnceCreate ==
  ASSUME Shape, Once, nslabs + 1 \in Slab, nslabs' = nslabs + 1,
         free_count' = [free_count EXCEPT ![nslabs + 1] = total_count],
         UNCHANGED <<mags, held, free_objs>>
  PROVE  Once'
<1> DEFINE s == nslabs + 1
<1>1. /\ s \in Slab /\ total_count \in Nat /\ free_count[s] = 0 /\ free_objs[s] = [i \in Index |-> i]
      /\ nslabs \in Nat /\ 1 .. s = (1 .. nslabs) \union {s} /\ s \notin 1 .. nslabs
      /\ free_count \in [Slab -> 0 .. total_count]
  <2>1. nslabs \in Nat /\ total_count \in Nat
    BY Numbers DEF Shape, Slab
  <2>2. s > nslabs
    BY <2>1
  <2>3. free_count[s] = 0 /\ free_objs[s] = [i \in Index |-> i]
    BY <2>2 DEF Shape
  <2> QED
    BY <2>1, <2>3 DEF Shape
<1>2. free_count'[s] = total_count /\ \A t \in Slab : t # s => free_count'[t] = free_count[t]
  BY <1>1
<1> HIDE DEF s
<1>3. \A p \in PoolSlots : p = <<p[1], p[2]>>
  BY DEF PoolSlots
<1>4. \A t, i : <<t, i>> \in PoolSlots <=> t \in Slab /\ i \in Index /\ i <= free_count[t]
  BY DEF PoolSlots
<1>5. \A t, i : <<t, i>> \in PoolSlots' <=> t \in Slab /\ i \in Index /\ i <= free_count'[t]
  BY DEF PoolSlots
<1>6. \A p : p \in PoolSlots' <=> p \in PoolSlots \/ \E i \in Index : p = <<s, i>>
  <2>1. \A p \in PoolSlots' : p = <<p[1], p[2]>>
    BY DEF PoolSlots
  <2>2. ASSUME NEW t, NEW i
        PROVE  <<t, i>> \in PoolSlots' <=> <<t, i>> \in PoolSlots \/ (t = s /\ i \in Index)
    <3>1. CASE t # s
      BY <1>2, <1>4, <1>5, <3>1
    <3>2. CASE t = s
      <4>1. i \in Index => i <= total_count
        BY <1>1 DEF Index
      <4> QED
        BY <1>1, <1>2, <1>4, <1>5, <3>2, <4>1
    <3> QED
      BY <3>1, <3>2
  <2> QED
    BY <1>3, <2>1, <2>2
<1>7. /\ \A p : PoolObject(p)' = PoolObject(p)
      /\ \A i \in Index : PoolObject(<<s, i>>) = <<s, i>> /\ <<s, i>> \notin AllObjects
  BY <1>1 DEF PoolObject, AllObjects
<1>8. AllObjects' = AllObjects \union ({s} \X Index)
  BY <1>1 DEF AllObjects, s
<1>9. Rounds' = Rounds /\ \A r : RoundObject(r)' = RoundObject(r)
  BY DEF Rounds, RoundObject
<1>10. /\ \A q, r \in Rounds : RoundObject(q) = RoundObject(r) => q = r
       /\ \A p, q \in PoolSlots : PoolObject(p) = PoolObject(q) => p = q
       /\ \A r \in Rounds : RoundObject(r) \notin held
       /\ \A p \in PoolSlots : PoolObject(p) \notin held
       /\ \A r \in Rounds, p \in PoolSlots : RoundObject(r) # PoolObject(p)
       /\ held \union InCache = AllObjects
  BY DEF Once
<1>11. /\ \A r \in Rounds : RoundObject(r) \in AllObjects
       /\ \A p \in PoolSlots : PoolObject(p) \in AllObjects
       /\ held \subseteq AllObjects
  BY <1>10 DEF InCache
<1>12. \A q, p \in PoolSlots' : PoolObject(q) = PoolObject(p) => q = p
  BY <1>6, <1>7, <1>10, <1>11
<1>13. \A p \in PoolSlots' : PoolObject(p) \notin held
  BY <1>6, <1>7, <1>10, <1>11
<1>14. \A r \in Rounds, p \in PoolSlots' : RoundObject(r) # PoolObject(p)
  BY <1>6, <1>7, <1>10, <1>11
<1>15. {PoolObject(p) : p \in PoolSlots'} = {PoolObject(p) : p \in PoolSlots} \union ({s} \X Index)
  <2>1. \A x \in {s} \X Index : \E i \in Index : x = <<s, i>>
    OBVIOUS
  <2> QED
    BY <1>6, <1>7, <2>1
<1>16. (held \union InCache)' = held \union InCache \union ({s} \X Index)
  BY <1>7, <1>9, <1>15 DEF InCache
<1> QED
  BY <1>7, <1>8, <1>9, <1>10, <1>12, <1>13, <1>14, <1>16 DEF Once

(* The first magazines and the first slab: CPU c starts with the objects   *)
(* that are c * objs_per_mag and more, but not a magazine more, below the  *)
(* last, and the slab keeps what is left after all CPUs.                   *)
LEMMA DivUnique ==
  ASSUME NEW n \in Nat \ {0}, NEW q \in Nat, NEW r \in 0 .. n - 1
  PROVE  (n * q + r) \div n = q /\ (n * q + r) % n = r
<1> DEFINE a == n * q + r
           d == a \div n
           m == a % n
<1>1. a \in Nat /\ d \in Nat /\ m \in 0 .. n - 1 /\ a = n * d + m
  OBVIOUS
<1>2. ASSUME d >= q + 1 PROVE FALSE
  <2>1. n * d >= n * (q + 1)
    BY ONLY <1>1, <1>2, n \in Nat \ {0}, q \in Nat
  <2> QED
    BY <2>1, <1>1
<1>3. ASSUME q >= d + 1 PROVE FALSE
  <2>1. n * q >= n * (d + 1)
    BY ONLY <1>1, <1>3, n \in Nat \ {0}, q \in Nat
  <2> QED
    BY <2>1, <1>1
<1>4. d = q
  BY <1>1, <1>2, <1>3
<1> QED
  BY <1>1, <1>4

LEMMA LeftIs ==
  /\ \A c \in Nat : /\ LeftFor(c) \in 0 .. total_count
                    /\ objs_per_mag * c \in Nat
                    /\ LeftFor(c) > 0 => LeftFor(c) = total_count - objs_per_mag * c
                    /\ total_count - objs_per_mag * c >= 0 => LeftFor(c) = total_count - objs_per_mag * c
  /\ \A c, d \in Nat : c < d => objs_per_mag * c + objs_per_mag <= objs_per_mag * d
<1>1. objs_per_mag \in Nat \ {0} /\ total_count \in Nat
  BY Numbers
<1> DEFINE M == objs_per_mag
<1> HIDE DEF M
<1>2. ASSUME NEW c \in Nat
      PROVE  /\ LeftFor(c) \in 0 .. total_count /\ M * c \in Nat
             /\ LeftFor(c) > 0 => LeftFor(c) = total_count - M * c
             /\ total_count - M * c >= 0 => LeftFor(c) = total_count - M * c
  <2>1. M \in Nat /\ M * c \in Nat /\ c * objs_per_mag = M * c
    BY <1>1 DEF M
  <2>2. LeftFor(c) = IF total_count > M * c THEN total_count - M * c ELSE 0
    BY <2>1 DEF LeftFor
  <2> QED
    BY <1>1, <2>1, <2>2
<1>3. ASSUME NEW c \in Nat, NEW d \in Nat, c < d PROVE M * c + M <= M * d
  <2>1. M \in Nat
    BY <1>1 DEF M
  <2>2. M * (c + 1) <= M * d
    BY ONLY <1>3, <2>1, c \in Nat, d \in Nat
  <2>3. M * (c + 1) = M * c + M
    BY ONLY <2>1, c \in Nat
  <2> QED
    BY <2>2, <2>3
<1> QED
  BY <1>2, <1>3 DEF M

LEMMA OnceInit ==
  ASSUME Init
  PROVE  Once
<1> DEFINE M == objs_per_mag
<1>1. M \in Nat \ {0} /\ total_count \in Nat /\ NCPU \in Nat /\ MaxSlabs \in Nat \ {0} /\ NULL = 0
  BY Numbers
<1>2. /\ \A c \in CPU : c \in Nat /\ c < NCPU /\ mags[c] = slab_setup_mag(c)
      /\ \A c \in Nat : c < NCPU => c \in CPU
      /\ nslabs = 1 /\ held = {} /\ 1 \in Slab
  BY <1>1 DEF Init, CPU, Slab
<1> HIDE DEF M
<1>3. ASSUME NEW c \in CPU, NEW k \in 1 .. M
      PROVE  /\ k <= mags[c].count <=> k <= LeftFor(c)
             /\ k <= LeftFor(c) => mags[c].objects[k] = <<1, LeftFor(c) + 1 - k>>
  <2>1. LeftFor(c) \in Nat
    BY <1>2, LeftIs
  <2>2. /\ slab_setup_mag(c).count = IF LeftFor(c) > M THEN M ELSE LeftFor(c)
        /\ slab_setup_mag(c).objects = [i \in 1 .. M |-> IF i <= LeftFor(c) THEN <<1, LeftFor(c) + 1 - i>> ELSE Junk]
    BY DEF slab_setup_mag, M
  <2>3. k <= LeftFor(c) => slab_setup_mag(c).objects[k] = <<1, LeftFor(c) + 1 - k>>
    BY <2>2
  <2>4. mags[c] = slab_setup_mag(c)
    BY <1>2
  <2> QED
    BY <1>1, <2>1, <2>2, <2>3, <2>4
<1>4. \A r : r \in Rounds <=> \E c \in CPU, k \in 1 .. M : r = <<c, k>> /\ k <= LeftFor(c)
  BY <1>3 DEF Rounds, M
<1>5. ASSUME NEW c \in CPU, NEW k \in 1 .. M, k <= LeftFor(c)
      PROVE  \E v \in Index : /\ RoundObject(<<c, k>>) = <<1, v>> /\ total_count - v = M * c + (k - 1)
                              /\ M * c + M <= M * NCPU
  <2>1. /\ LeftFor(c) \in 0 .. total_count /\ M * c \in Nat /\ M * NCPU \in Nat
        /\ LeftFor(c) = total_count - M * c /\ M * c + M <= M * NCPU
    <3>1. LeftFor(c) \in 0 .. total_count
      BY <1>2, LeftIs
    <3>2. LeftFor(c) > 0
      BY <3>1, <1>5, <1>1
    <3> QED
      BY <1>1, <1>2, <3>1, <3>2, LeftIs DEF M
  <2>2. LeftFor(c) + 1 - k \in Index /\ total_count - (LeftFor(c) + 1 - k) = M * c + (k - 1)
    BY <1>1, <1>5, <2>1 DEF Index
  <2> QED
    BY <1>3, <1>5, <2>1, <2>2 DEF RoundObject
<1>6. ASSUME NEW p \in PoolSlots
      PROVE  \E v \in Index : p = <<1, v>> /\ PoolObject(p) = <<1, v>> /\ M * NCPU <= total_count - v
  <2>1. p[1] \in Slab /\ p[2] \in Index /\ p = <<p[1], p[2]>> /\ p[2] <= free_count[p[1]] /\ p[2] >= 1
    BY <1>1 DEF PoolSlots, Index
  <2>2. free_count[p[1]] = (IF p[1] = 1 THEN LeftFor(NCPU) ELSE 0) /\ free_objs[p[1]][p[2]] = p[2]
    BY <2>1 DEF Init
  <2>3. p[1] = 1 /\ p[2] <= LeftFor(NCPU)
    BY <1>1, <2>1, <2>2 DEF Index
  <2>4. LeftFor(NCPU) = total_count - M * NCPU /\ M * NCPU \in Nat
    BY <1>1, <2>1, <2>3, LeftIs DEF Index, M
  <2>5. M * NCPU <= total_count - p[2]
    BY <1>1, <2>1, <2>3, <2>4 DEF Index
  <2> QED
    BY <2>1, <2>2, <2>3, <2>5 DEF PoolObject
<1>7. \A q, r \in Rounds : RoundObject(q) = RoundObject(r) => q = r
  <2> SUFFICES ASSUME NEW c \in CPU, NEW k \in 1 .. M, k <= LeftFor(c),
                      NEW d \in CPU, NEW j \in 1 .. M, j <= LeftFor(d),
                      RoundObject(<<c, k>>) = RoundObject(<<d, j>>)
               PROVE  c = d /\ k = j
    BY <1>4
  <2>1. M * c + (k - 1) = M * d + (j - 1)
    BY <1>5
  <2>2. k - 1 \in 0 .. M - 1 /\ j - 1 \in 0 .. M - 1 /\ c \in Nat /\ d \in Nat
    BY <1>1, <1>2
  <2>3. (M * c + (k - 1)) \div M = c /\ (M * c + (k - 1)) % M = k - 1
    BY <1>1, <2>2, DivUnique
  <2>4. (M * d + (j - 1)) \div M = d /\ (M * d + (j - 1)) % M = j - 1
    BY <1>1, <2>2, DivUnique
  <2> QED
    BY <2>1, <2>3, <2>4
<1>8. \A p, q \in PoolSlots : PoolObject(p) = PoolObject(q) => p = q
  BY <1>6
<1>9. \A r \in Rounds, p \in PoolSlots : RoundObject(r) # PoolObject(p)
  <2> SUFFICES ASSUME NEW c \in CPU, NEW k \in 1 .. M, k <= LeftFor(c), NEW p \in PoolSlots,
                      RoundObject(<<c, k>>) = PoolObject(p)
               PROVE  FALSE
    BY <1>4
  <2>1. PICK v \in Index : /\ RoundObject(<<c, k>>) = <<1, v>> /\ total_count - v = M * c + (k - 1)
                           /\ M * c + M <= M * NCPU
    BY <1>5
  <2>2. M * NCPU <= total_count - v
    BY <1>6, <2>1
  <2>3. M * c \in Nat /\ M * NCPU \in Nat /\ k - 1 < M
    BY <1>1, <1>2
  <2> QED
    BY <1>1, <2>1, <2>2, <2>3
<1>10. held \union InCache = AllObjects
  <2>1. \A x \in AllObjects : \E v \in Index : x = <<1, v>>
    BY <1>2 DEF AllObjects
  <2>2. \A v \in Index : <<1, v>> \in AllObjects
    BY <1>2 DEF AllObjects
  <2>3. ASSUME NEW v \in Index PROVE <<1, v>> \in InCache
    <3> DEFINE e == total_count - v
               q == e \div M
               r == e % M
    <3>1. e \in Nat /\ q \in Nat /\ r \in 0 .. M - 1 /\ e = M * q + r /\ v >= 1 /\ v \in Nat /\ v = total_count - e
      BY <1>1 DEF Index
    <3> HIDE DEF e, q, r
    <3>2. CASE q < NCPU
      <4>1. q \in CPU /\ r + 1 \in 1 .. M /\ M * q \in Nat
        BY <1>1, <1>2, <3>1, <3>2
      <4>2. LeftFor(q) = total_count - M * q
        <5>1. total_count - M * q >= 0
          BY <1>1, <3>1, <4>1
        <5> QED
          BY <3>1, <5>1, LeftIs DEF M
      <4>3. r + 1 <= LeftFor(q) /\ LeftFor(q) + 1 - (r + 1) = v
        BY <1>1, <3>1, <4>1, <4>2
      <4>4. <<q, r + 1>> \in Rounds /\ RoundObject(<<q, r + 1>>) = <<1, v>>
        BY <1>3, <1>4, <4>1, <4>3 DEF RoundObject
      <4> QED
        BY <4>4 DEF InCache
    <3>3. CASE q >= NCPU
      <4>1. M * q >= M * NCPU /\ M * q \in Nat /\ M * NCPU \in Nat
        <5>1. CASE q = NCPU
          BY <1>1, <3>1, <5>1
        <5>2. CASE q > NCPU
          <6>1. M * NCPU + M <= M * q
            BY <1>1, <3>1, <5>2, LeftIs DEF M
          <6> QED
            BY <1>1, <3>1, <6>1
        <5> QED
          BY <1>1, <3>1, <3>3, <5>1, <5>2
      <4>2. v <= total_count - M * NCPU
        BY <1>1, <3>1, <4>1
      <4>3. LeftFor(NCPU) = total_count - M * NCPU
        <5>1. total_count - M * NCPU >= 0
          BY <1>1, <3>1, <4>1, <4>2
        <5> QED
          BY <1>1, <5>1, LeftIs DEF M
      <4>4. free_count[1] = LeftFor(NCPU) /\ free_objs[1][v] = v
        BY <1>2 DEF Init
      <4>5. <<1, v>> \in PoolSlots /\ PoolObject(<<1, v>>) = <<1, v>>
        BY <1>2, <4>2, <4>3, <4>4 DEF PoolSlots, PoolObject
      <4> QED
        BY <4>5 DEF InCache
    <3> QED
      BY <1>1, <3>1, <3>2, <3>3
  <2>4. \A x \in InCache : \E v \in Index : x = <<1, v>>
    BY <1>4, <1>5, <1>6 DEF InCache
  <2> QED
    BY <1>2, <2>1, <2>2, <2>3, <2>4
<1> QED
  BY <1>2, <1>7, <1>8, <1>9, <1>10 DEF Once

----------------------------------------------------------------------------
(* The invariant, step by step: with one CPU, or without frees. *)
Calm == NCPU = 1 \/ ~WithFree

LEMMA PopIs ==
  ASSUME NEW n \in Nat, NEW mag \in MagType(n), mag.count > 0
  PROVE  /\ Pop(mag) \in MagType(n) /\ Pop(mag).count = mag.count - 1
         /\ TopOf(mag) \in ((1 .. n) \X Index) \union {Junk}
<1>1. objs_per_mag \in Nat
  BY Numbers
<1>2. mag.count \in 1 .. objs_per_mag /\ mag.count - 1 \in 0 .. objs_per_mag
  BY <1>1 DEF MagType
<1>3. Pop(mag) = [mag EXCEPT !.count = mag.count - 1]
  BY DEF Pop
<1>4. Pop(mag) \in MagType(n) /\ Pop(mag).count = mag.count - 1
  BY <1>2, <1>3 DEF MagType
<1>5. mag.objects \in [1 .. objs_per_mag -> ((1 .. n) \X Index) \union {Junk}]
  BY DEF MagType
<1> QED
  BY <1>2, <1>4, <1>5 DEF TopOf

(* With more slabs a magazine is still one. *)
LEMMA MagGrows ==
  ASSUME NEW n \in Nat, NEW mag \in MagType(n)
  PROVE  mag \in MagType(n + 1)
<1>1. ((1 .. n) \X Index) \union {Junk} \subseteq ((1 .. n + 1) \X Index) \union {Junk}
  OBVIOUS
<1>2. mag.objects \in [1 .. objs_per_mag -> ((1 .. n + 1) \X Index) \union {Junk}]
  BY <1>1 DEF MagType
<1> QED
  BY <1>2 DEF MagType

LEMMA InvInit ==
  ASSUME Init
  PROVE  SlabInv
<1>1. 1 \in Slab /\ nslabs = 1 /\ 0 .. 1 = {0, 1} /\ NULL = 0 /\ 1 .. 1 = {1}
  BY Numbers DEF Init, Slab
<1>2. \A c \in CPU : mags[c] = slab_setup_mag(c) /\ cpu[c] = IdleCPU /\ cpu[c].pc = "idle"
  BY DEF Init, IdleCPU
<1>3. Shape
  <2>1. next \in [Slab -> 0 .. nslabs] /\ prev \in [Slab -> 0 .. nslabs]
    BY <1>1 DEF Init
  <2>2. free_objs \in [Slab -> [Index -> Index]]
    BY DEF Init
  <2>3. free_count \in [Slab -> 0 .. total_count]
    <3>1. LeftFor(NCPU) \in 0 .. total_count /\ 0 \in 0 .. total_count
      BY Numbers, LeftIs
    <3> QED
      BY <3>1 DEF Init
  <2>4. \A s \in Slab : s > nslabs =>
          free_count[s] = 0 /\ free_objs[s] = [i \in Index |-> i] /\ next[s] = NULL /\ prev[s] = NULL
    BY <1>1 DEF Init, Slab
  <2>5. lock \in [Slab -> CPU \union {NoCPU}]
    BY DEF Init
  <2>6. ASSUME NEW c \in CPU PROVE slab_setup_mag(c) \in MagType(1)
    <3>1. LeftFor(c) \in 0 .. total_count /\ total_count \in Nat /\ objs_per_mag \in Nat
      BY Numbers, LeftIs DEF CPU
    <3>2. ASSUME NEW k \in 1 .. objs_per_mag
          PROVE  (IF k <= LeftFor(c) THEN <<1, LeftFor(c) + 1 - k>> ELSE Junk) \in ((1 .. 1) \X Index) \union {Junk}
      <4>1. k <= LeftFor(c) => LeftFor(c) + 1 - k \in Index
        BY <3>1 DEF Index
      <4> QED
        BY <1>1, <4>1
    <3>3. [k \in 1 .. objs_per_mag |-> IF k <= LeftFor(c) THEN <<1, LeftFor(c) + 1 - k>> ELSE Junk]
            \in [1 .. objs_per_mag -> ((1 .. 1) \X Index) \union {Junk}]
      BY <3>2
    <3>4. (IF LeftFor(c) > objs_per_mag THEN objs_per_mag ELSE LeftFor(c)) \in 0 .. objs_per_mag
      BY <3>1
    <3> QED
      BY <3>3, <3>4 DEF slab_setup_mag, MagType
  <2>7. mags \in [CPU -> MagType(nslabs)]
    BY <1>1, <2>6 DEF Init
  <2>8. IdleCPU \in CpuType
    BY Numbers DEF IdleCPU, CpuType, Places, NULL
  <2>9. cpu \in [CPU -> CpuType]
    BY <2>8 DEF Init
  <2> QED
    BY <1>1, <2>1, <2>2, <2>3, <2>4, <2>5, <2>7, <2>9 DEF Init, Shape
<1>4. Calls
  BY <1>2 DEF Calls, Refilling
<1>5. LockGuards
  BY <1>1, <1>2 DEF Init, LockGuards, OneSlab, Refilling
<1>6. ReadsHold
  BY <1>2 DEF ReadsHold
<1>7. Conserved
  BY OnceInit DEF Conserved
<1>8. ASSUME NCPU = 1 PROVE Walks /\ OnLists({1}, {})
  <2>1. cpu[0].pc = "idle" /\ Moving = {} /\ usable_slab_list = 1 /\ full_slab_list = NULL
    BY <1>2, Numbers DEF Init, Moving
  <2>2. Walks
    BY <1>1, <2>1 DEF Walks
  <2>3. Ring({}, full_slab_list)
    BY <2>1, CycleNone DEF Ring
  <2>4. Ring({1}, usable_slab_list)
    <3>1. next[1] = 1 /\ prev[1] = 1
      BY <1>1 DEF Init
    <3> QED
      BY <1>1, <2>1, <3>1, CycleOne DEF Ring
  <2> QED
    BY <1>1, <2>1, <2>2, <2>3, <2>4 DEF OnLists
<1>9. Rings
  <2>1. {1} \in SUBSET (1 .. nslabs) /\ {} \in SUBSET (1 .. nslabs)
    BY <1>1
  <2> QED
    BY <1>8, <2>1 DEF Rings
<1>10. Causes
  BY DEF Init, Causes, FaultCauses
<1> QED
  BY <1>3, <1>4, <1>5, <1>6, <1>7, <1>9, <1>10 DEF SlabInv

LEMMA IdleTyped == IdleCPU \in CpuType /\ IdleCPU.pc = "idle"
BY Numbers DEF IdleCPU, CpuType, Places, NULL

(* What does not change keeps the invariant. *)
LEMMA OnceKept ==
  ASSUME Conserved, UNCHANGED <<mags, held, free_objs, free_count, nslabs>>, short => short'
  PROVE  Conserved'
<1>1. /\ Rounds' = Rounds /\ PoolSlots' = PoolSlots /\ AllObjects' = AllObjects
      /\ \A r : RoundObject(r)' = RoundObject(r)
      /\ \A p : PoolObject(p)' = PoolObject(p)
  BY DEF Rounds, PoolSlots, AllObjects, RoundObject, PoolObject
<1>2. InCache' = InCache
  BY <1>1 DEF InCache
<1>3. Once => Once'
  BY <1>1, <1>2 DEF Once
<1>4. Alone' = Alone
  BY DEF Alone, OneSlab
<1> QED
  BY <1>3, <1>4 DEF Conserved

LEMMA ListsKept ==
  ASSUME NEW U, NEW F, OnLists(U, F),
         UNCHANGED <<nslabs, next, prev, usable_slab_list, full_slab_list>>,
         \A s \in F : lock[s] # NoCPU => lock'[s] # NoCPU,
         cpu[0].pc = "reuse" => UNCHANGED cpu, Moving' = Moving,
         cpu'[0].pc = "reload" => cpu'[0].slab \in U
  PROVE  OnLists(U, F)'
<1>1. Ring(F, full_slab_list)' /\ (Ring(U, usable_slab_list) => Ring(U, usable_slab_list)')
  <2>1. Cycle(F, next, prev) => Cycle(F, next, prev)'
    BY DEF Cycle
  <2>2. Cycle(U, next, prev) => Cycle(U, next, prev)'
    BY DEF Cycle
  <2> QED
    BY <2>1, <2>2 DEF OnLists, Ring
<1> QED
  BY <1>1 DEF OnLists

LEMMA AllKept ==
  ASSUME LockGuards, ReadsHold, Rings,
         UNCHANGED <<nslabs, next, prev, usable_slab_list, full_slab_list, lock, cpu, free_count>>
  PROVE  LockGuards' /\ ReadsHold' /\ Rings'
<1>1. LockGuards'
  BY DEF LockGuards, OneSlab
<1>2. ReadsHold'
  BY DEF ReadsHold, Alone, OneSlab
<1>3. ASSUME NCPU = 1 PROVE Walks' /\ \E U, F \in SUBSET (1 .. nslabs) : OnLists(U, F)'
  <2>1. Walks'
    BY <1>3 DEF Rings, Walks
  <2>2. PICK U \in SUBSET (1 .. nslabs), F \in SUBSET (1 .. nslabs) : OnLists(U, F)
    BY <1>3 DEF Rings
  <2>3. Moving' = Moving
    BY DEF Moving
  <2>4. OnLists(U, F)'
    BY <2>2, <2>3, ListsKept DEF OnLists
  <2> QED
    BY <2>1, <2>4
<1>4. Rings'
  BY <1>3 DEF Rings
<1> QED
  BY <1>1, <1>2, <1>4

(* The kernel dies. *)
LEMMA FaultStep ==
  ASSUME SlabInv, Fault, UNCHANGED own,
         NCPU = 1 =>
           \/ short
           \/ \E c \in CPU : cpu[c].pc = "reload" /\ cpu[c].count > cpu[c].free
           \/ own /\ \E c \in CPU : cpu[c].pc = "next" /\ mags[c].count = 0
           \/ \E c \in CPU : /\ cpu[c].pc = "reuse" /\ usable_slab_list = cpu[c].slab
                             /\ free_count[cpu[c].slab] = 1
  PROVE  SlabInv'
<1> USE DEF Fault, lists, pool, history
<1>1. Shape'
  BY DEF SlabInv, Shape, AllObjects
<1>2. Calls'
  BY DEF SlabInv, Calls
<1>3. LockGuards' /\ ReadsHold' /\ Rings'
  BY AllKept DEF SlabInv
<1>4. Conserved'
  BY OnceKept DEF SlabInv
<1>5. Causes'
  BY DEF Causes, FaultCauses
<1> QED
  BY <1>1, <1>2, <1>3, <1>4, <1>5 DEF SlabInv

(* A magazine changes. *)
LEMMA MagGoes ==
  ASSUME Shape, NEW c \in CPU, NEW m \in MagType(nslabs), mags' = [mags EXCEPT ![c] = m]
  PROVE  /\ mags' \in [CPU -> MagType(nslabs)] /\ mags'[c] = m
         /\ \A d \in CPU : d # c => mags'[d] = mags[d]
BY DEF Shape

LEMMA AllocRoundStep ==
  ASSUME SlabInv, ~fault, NEW c \in CPU, AllocRound(c), UNCHANGED own
  PROVE  SlabInv'
<1> USE DEF lists, pool
<1>1. /\ cpu[c].pc = "idle" /\ mags[c].count > 0
      /\ mags' = [mags EXCEPT ![c] = Pop(mags[c])] /\ held' = held \union {TopOf(mags[c])}
      /\ UNCHANGED <<usable_slab_list, full_slab_list, next, prev, free_objs, free_count>>
      /\ UNCHANGED <<lock, nslabs, cpu, fault, short, own>>
  BY DEF AllocRound, HandOut
<1>2. Shape
  BY DEF SlabInv
<1>3. /\ Pop(mags[c]) \in MagType(nslabs) /\ Pop(mags[c]).count = mags[c].count - 1
      /\ TopOf(mags[c]) \in AllObjects \union {Junk}
  <2>1. mags[c] \in MagType(nslabs) /\ nslabs \in Nat
    BY <1>2, SlabsAre DEF Shape
  <2> QED
    BY <1>1, <2>1, PopIs DEF AllObjects
<1>4. /\ mags' \in [CPU -> MagType(nslabs)] /\ mags'[c] = Pop(mags[c])
      /\ \A d \in CPU : d # c => mags'[d] = mags[d]
  BY <1>1, <1>2, <1>3, MagGoes
<1>5. Shape'
  BY <1>1, <1>2, <1>3, <1>4 DEF Shape, AllObjects
<1>6. Calls'
  <2>1. \A d \in CPU : cpu[d].pc # "idle" => mags'[d] = mags[d]
    BY <1>1, <1>4
  <2>2. Calls
    BY DEF SlabInv
  <2> QED
    BY <1>1, <2>1, <2>2 DEF Calls, Refilling
<1>7. LockGuards' /\ ReadsHold' /\ Rings'
  BY <1>1, AllKept DEF SlabInv
<1>8. Conserved'
  <2>1. Alone' = Alone
    BY <1>1 DEF Alone, OneSlab
  <2>2. Once => Once'
    BY <1>1, <1>2, OnceAllocRound
  <2> QED
    BY <1>1, <2>1, <2>2 DEF SlabInv, Conserved
<1>9. Causes'
  BY <1>1 DEF Causes, FaultCauses
<1> QED
  BY <1>5, <1>6, <1>7, <1>8, <1>9 DEF SlabInv

LEMMA slab_allocStep ==
  ASSUME SlabInv, ~fault, NEW c \in CPU, slab_alloc(c), UNCHANGED own
  PROVE  SlabInv'
<1> USE DEF lists, pool, history
<1>1. Shape /\ Calls /\ LockGuards /\ ReadsHold /\ Conserved /\ Rings
  BY DEF SlabInv
<1>2. CASE usable_slab_list = NULL
  <2>1. NCPU # 1
    BY <1>1, <1>2, Numbers DEF Rings, Walks, slab_alloc
  <2> QED
    BY <1>2, <2>1, FaultStep DEF slab_alloc
<1>3. CASE usable_slab_list # NULL
  <2> DEFINE r == [IdleCPU EXCEPT !.pc = "lock", !.slab = usable_slab_list]
  <2>1. /\ cpu[c].pc = "idle" /\ mags[c].count = 0 /\ cpu' = [cpu EXCEPT ![c] = r]
        /\ UNCHANGED <<usable_slab_list, full_slab_list, next, prev, free_objs, free_count>>
        /\ UNCHANGED <<lock, mags, nslabs, fault, held, short, own>>
    BY <1>3 DEF slab_alloc
  <2>2. usable_slab_list \in 1 .. nslabs
    BY <1>1, <1>3, SlabsAre DEF Shape
  <2>3. r \in CpuType /\ r.pc = "lock" /\ r.slab = usable_slab_list
    <3>1. usable_slab_list \in 0 .. MaxSlabs
      BY <1>1, <2>2, SlabsAre
    <3>2. IdleCPU \in CpuType
      BY IdleTyped
    <3> QED
      BY <3>1, <3>2 DEF CpuType, Places
  <2> HIDE DEF r
  <2>4. cpu' \in [CPU -> CpuType] /\ cpu'[c] = r /\ \A d \in CPU : d # c => cpu'[d] = cpu[d]
    BY <1>1, <2>1, <2>3, CpuGoes
  <2>5. Shape'
    BY <1>1, <2>1, <2>4 DEF Shape, AllObjects
  <2>6. Calls'
    BY <1>1, <2>1, <2>2, <2>3, <2>4 DEF Calls, Refilling
  <2>7. LockGuards'
    BY <1>1, <2>1, <2>3, <2>4 DEF LockGuards, OneSlab, Refilling
  <2>8. ReadsHold'
    BY <1>1, <2>1, <2>3, <2>4 DEF ReadsHold, Alone, OneSlab
  <2>9. Conserved'
    BY <1>1, <2>1, OnceKept
  <2>10. ASSUME NCPU = 1 PROVE Walks' /\ \E U, F \in SUBSET (1 .. nslabs) : OnLists(U, F)'
    <3>1. c = 0
      BY <2>10, Numbers
    <3>2. PICK U \in SUBSET (1 .. nslabs), F \in SUBSET (1 .. nslabs) : OnLists(U, F)
      BY <1>1, <2>10 DEF Rings
    <3>3. Moving' = Moving
      BY <2>1, <2>3, <2>4, <3>1 DEF Moving
    <3>4. OnLists(U, F)'
      BY <2>1, <2>3, <2>4, <3>1, <3>2, <3>3, ListsKept
    <3>5. Walks'
      BY <1>3, <2>1, <2>3, <2>4, <3>1 DEF Walks
    <3> QED
      BY <3>4, <3>5
  <2>11. Rings'
    BY <2>1, <2>10 DEF Rings
  <2>12. Causes'
    BY <2>1 DEF Causes, FaultCauses
  <2> QED
    BY <2>5, <2>6, <2>7, <2>8, <2>9, <2>11, <2>12 DEF SlabInv
<1> QED
  BY <1>2, <1>3

LEMMA AcquireStep ==
  ASSUME SlabInv, ~fault, NEW c \in CPU, Acquire(c), UNCHANGED own
  PROVE  SlabInv'
<1> USE DEF lists, pool, history
<1>1. Shape /\ Calls /\ LockGuards /\ ReadsHold /\ Conserved /\ Rings
  BY DEF SlabInv
<1> DEFINE s == cpu[c].slab
           r == [cpu[c] EXCEPT !.pc = "load", !.free = free_count[s]]
<1>2. /\ cpu[c].pc = "lock" /\ lock[s] = NoCPU /\ lock' = [lock EXCEPT ![s] = c]
      /\ UNCHANGED <<usable_slab_list, full_slab_list, next, prev, free_objs, free_count>>
      /\ UNCHANGED <<mags, nslabs, fault, held, short, own>>
  BY DEF Acquire
<1>3. cpu' = [cpu EXCEPT ![c] = r]
  BY <1>1 DEF Acquire, Shape, CpuType
<1>4. cpu[c] \in CpuType /\ s \in 1 .. nslabs /\ s \in Slab /\ free_count[s] \in 0 .. total_count
  BY <1>1, <1>2, SlabsAre DEF Shape, Calls
<1>5. /\ r \in CpuType /\ r.pc = "load" /\ r.slab = s /\ r.free = free_count[s] /\ r.count = cpu[c].count
  BY <1>4 DEF CpuType, Places
<1> HIDE DEF r
<1>6. cpu' \in [CPU -> CpuType] /\ cpu'[c] = r /\ \A d \in CPU : d # c => cpu'[d] = cpu[d]
  BY <1>1, <1>3, <1>5, CpuGoes
<1>7. /\ lock' \in [Slab -> CPU \union {NoCPU}] /\ lock'[s] = c /\ c # NoCPU
      /\ \A t \in Slab : t # s => lock'[t] = lock[t]
  BY <1>1, <1>2, <1>4, Numbers DEF Shape
<1> HIDE DEF s
<1>8. Shape'
  BY <1>1, <1>2, <1>6, <1>7 DEF Shape, AllObjects
<1>9. Calls'
  BY <1>1, <1>2, <1>4, <1>5, <1>6 DEF Calls, Refilling
<1>10. LockGuards'
  <2> SUFFICES ASSUME OneSlab PROVE LockGuards'
    BY <1>2 DEF LockGuards, OneSlab
  <2>1. s = 1
    BY <1>4 DEF OneSlab
  <2>2. \A d \in CPU : cpu[d].pc \notin {"load"} \union Refilling
    BY <1>1, <1>2, <2>1, Numbers DEF LockGuards
  <2> QED
    BY <1>1, <1>2, <1>5, <1>6, <1>7, <2>1, <2>2 DEF LockGuards, OneSlab, Refilling
<1>11. ReadsHold'
  BY <1>1, <1>2, <1>5, <1>6 DEF ReadsHold, Alone, OneSlab
<1>12. Conserved'
  BY <1>1, <1>2, OnceKept
<1>13. ASSUME NCPU = 1 PROVE Walks' /\ \E U, F \in SUBSET (1 .. nslabs) : OnLists(U, F)'
  <2>1. c = 0
    BY <1>13, Numbers
  <2>2. PICK U \in SUBSET (1 .. nslabs), F \in SUBSET (1 .. nslabs) : OnLists(U, F)
    BY <1>1, <1>13 DEF Rings
  <2>3. Moving' = Moving
    BY <1>2, <1>5, <1>6, <2>1 DEF Moving
  <2>4. \A t \in F : lock[t] # NoCPU => lock'[t] # NoCPU
    BY <1>4, <1>7, SlabsAre, <1>1
  <2>5. OnLists(U, F)'
    BY <1>2, <1>5, <1>6, <2>1, <2>2, <2>3, <2>4, ListsKept
  <2>6. Walks
    BY <1>1, <1>13 DEF Rings
  <2>7. Walks'
    BY <1>2, <1>5, <1>6, <1>7, <2>1, <2>6 DEF Walks, s
  <2> QED
    BY <2>5, <2>7
<1>14. Rings'
  BY <1>2, <1>13 DEF Rings
<1>15. Causes'
  BY <1>2 DEF Causes, FaultCauses
<1> QED
  BY <1>8, <1>9, <1>10, <1>11, <1>12, <1>14, <1>15 DEF SlabInv

(* A refill ends: the magazine is loaded, the slab unlocked, the last      *)
(* round handed out.                                                       *)
LEMMA LoadStep ==
  ASSUME SlabInv, ~fault, NEW c \in CPU, cpu[c].pc \in {"load", "reload"},
         NEW n \in 1 .. objs_per_mag, mags[c].count + n <= objs_per_mag,
         ~short => mags[c].count = 0 /\ n = objs_per_mag,
         Loaded(mags[c], n) <= cpu[c].free, LoadAndReturn(c, n), UNCHANGED own
  PROVE  SlabInv'
<1> USE DEF lists, pool
<1> DEFINE s == cpu[c].slab
           free == cpu[c].free
           loaded == Loaded(mags[c], n)
           m == slab_load_mag(mags[c], s, free, n)
<1>1. Shape /\ Calls /\ LockGuards /\ ReadsHold /\ Conserved /\ Rings
  BY DEF SlabInv
<1>2. /\ mags[c] \in MagType(nslabs) /\ mags[c].count \in 0 .. objs_per_mag /\ cpu[c] \in CpuType
      /\ s \in 1 .. nslabs /\ s \in Slab /\ free \in 0 .. total_count
      /\ objs_per_mag \in Nat /\ total_count \in Nat /\ n \in 0 .. objs_per_mag /\ nslabs \in Nat
  <2>1. mags[c] \in MagType(nslabs) /\ cpu[c] \in CpuType
    BY <1>1 DEF Shape
  <2>2. s \in 1 .. nslabs
    BY <1>1 DEF Calls
  <2> QED
    BY <1>1, <2>1, <2>2, SlabsAre, Numbers DEF MagType, CpuType
<1>3. loaded \in 0 .. free /\ loaded = IF n > mags[c].count THEN n - mags[c].count ELSE 0
  BY <1>2 DEF Loaded
<1>4. /\ mags' = [mags EXCEPT ![c] = Pop(m)] /\ held' = held \union {TopOf(m)}
      /\ free_count' = [free_count EXCEPT ![s] = free - loaded]
      /\ lock' = [lock EXCEPT ![s] = NoCPU] /\ cpu' = [cpu EXCEPT ![c] = IdleCPU]
      /\ UNCHANGED <<usable_slab_list, full_slab_list, next, prev, free_objs>>
      /\ UNCHANGED <<nslabs, fault, short, own>>
  BY <1>2, <1>3 DEF LoadAndReturn, HandOut
<1> HIDE DEF loaded, s, free
<1>5. m \in MagType(nslabs) /\ m.count = mags[c].count + n
  BY <1>1, <1>2, MagLoads
<1> HIDE DEF m
<1>6. m.count > 0
  BY <1>2, <1>5
<1>7. Pop(m) \in MagType(nslabs) /\ TopOf(m) \in AllObjects \union {Junk}
  BY <1>2, <1>5, <1>6, PopIs DEF AllObjects
<1>8. mags' \in [CPU -> MagType(nslabs)] /\ \A d \in CPU : d # c => mags'[d] = mags[d]
  BY <1>1, <1>4, <1>7, MagGoes
<1>9. cpu' \in [CPU -> CpuType] /\ cpu'[c] = IdleCPU /\ \A d \in CPU : d # c => cpu'[d] = cpu[d]
  BY <1>1, <1>4, IdleTyped, CpuGoes
<1>10. /\ free_count' \in [Slab -> 0 .. total_count]
       /\ \A t \in Slab : t # s => free_count'[t] = free_count[t] /\ lock'[t] = lock[t]
       /\ lock' \in [Slab -> CPU \union {NoCPU}] /\ lock'[s] = NoCPU
  <2>1. free - loaded \in 0 .. total_count
    BY <1>2, <1>3
  <2>2. free_count \in [Slab -> 0 .. total_count] /\ lock \in [Slab -> CPU \union {NoCPU}]
    BY <1>1 DEF Shape
  <2> QED
    BY <1>2, <1>4, <2>1, <2>2
<1>11. Shape'
  <2>1. \A t \in Slab : t > nslabs => t # s
    BY <1>2
  <2>2. \A t \in Slab : t > nslabs => free_count'[t] = 0
    BY <1>1, <1>10, <2>1 DEF Shape
  <2> QED
    BY <1>1, <1>4, <1>7, <1>8, <1>9, <1>10, <2>2 DEF Shape, AllObjects
<1>12. Calls'
  BY <1>1, <1>4, <1>8, <1>9, IdleTyped DEF Calls, Refilling
<1>13. ASSUME OneSlab PROVE s = 1 /\ lock[1] = c /\ \A d \in CPU : d # c => cpu[d].pc \notin {"load"} \union Refilling
  <2>1. s = 1
    BY <1>2, <1>13 DEF OneSlab
  <2>2. lock[1] = c
    BY <1>1, <1>13 DEF LockGuards
  <2> QED
    BY <1>1, <1>13, <2>1, <2>2 DEF LockGuards
<1>14. LockGuards'
  BY <1>1, <1>4, <1>9, <1>13, IdleTyped DEF LockGuards, OneSlab, Refilling
<1>15. ReadsHold'
  <2>1. CASE NCPU = 1
    BY <1>9, <2>1, Numbers, IdleTyped DEF ReadsHold
  <2>2. CASE OneSlab
    BY <1>9, <1>13, <2>2, IdleTyped DEF ReadsHold, Refilling
  <2>3. Alone' => Alone
    BY <1>4 DEF Alone, OneSlab
  <2> QED
    BY <2>1, <2>2, <2>3 DEF Alone, ReadsHold
<1>16. Conserved'
  <2> SUFFICES ASSUME Alone, ~short PROVE Once'
    BY <1>4 DEF Conserved, Alone, OneSlab
  <2>1. Once /\ mags[c].count = 0 /\ n = objs_per_mag /\ free = free_count[s]
    BY <1>1 DEF Conserved, ReadsHold, s, free
  <2>2. loaded = objs_per_mag /\ free_count[s] >= objs_per_mag
    BY <1>2, <1>3, <2>1
  <2>3. m = slab_load_mag(mags[c], s, free_count[s], objs_per_mag)
    BY <2>1 DEF m
  <2>4. free_count' = [free_count EXCEPT ![s] = free_count[s] - objs_per_mag]
    BY <1>4, <2>1, <2>2
  <2> QED
    BY <1>1, <1>2, <1>4, <2>1, <2>2, <2>3, <2>4, OnceRefill
<1>17. ASSUME NCPU = 1 PROVE Walks' /\ \E U, F \in SUBSET (1 .. nslabs) : OnLists(U, F)'
  <2>1. c = 0
    BY <1>17, Numbers
  <2>2. PICK U \in SUBSET (1 .. nslabs), F \in SUBSET (1 .. nslabs) : OnLists(U, F)
    BY <1>1, <1>17 DEF Rings
  <2>3. Walks
    BY <1>1, <1>17 DEF Rings
  <2>4. usable_slab_list # NULL /\ Ring(U, usable_slab_list) /\ U \intersect F = {}
    BY <2>1, <2>2, <2>3 DEF OnLists, Walks
  <2>5. s \in U
    BY <2>1, <2>2, <2>3, <2>4 DEF OnLists, Walks, Ring, s
  <2>6. \A t \in F : lock[t] # NoCPU => lock'[t] # NoCPU
    BY <1>1, <1>10, <2>4, <2>5, SlabsAre
  <2>7. Moving' = Moving
    BY <1>9, <2>1, IdleTyped DEF Moving
  <2>8. OnLists(U, F)'
    BY <1>4, <1>9, <2>1, <2>2, <2>6, <2>7, IdleTyped, ListsKept
  <2>9. Walks'
    BY <1>4, <1>9, <2>1, <2>4, IdleTyped DEF Walks
  <2> QED
    BY <2>8, <2>9
<1>18. Rings'
  BY <1>4, <1>17 DEF Rings
<1>19. Causes'
  BY <1>4 DEF Causes, FaultCauses
<1> QED
  BY <1>11, <1>12, <1>14, <1>15, <1>16, <1>18, <1>19 DEF SlabInv

LEMMA LoadFullStep ==
  ASSUME SlabInv, ~fault, NEW c \in CPU, LoadFull(c), UNCHANGED own
  PROVE  SlabInv'
<1>1. cpu[c].pc = "load" /\ cpu[c].free >= objs_per_mag /\ LoadAndReturn(c, objs_per_mag)
  BY DEF LoadFull
<1>2. mags[c].count = 0
  BY <1>1 DEF SlabInv, Calls
<1>3. objs_per_mag \in 1 .. objs_per_mag /\ mags[c].count + objs_per_mag <= objs_per_mag
  BY <1>2, Numbers
<1>4. Loaded(mags[c], objs_per_mag) = objs_per_mag
  BY <1>2, Numbers DEF Loaded
<1> QED
  BY <1>1, <1>2, <1>3, <1>4, LoadStep

LEMMA ReloadStep ==
  ASSUME SlabInv, ~fault, NEW c \in CPU, Reload(c), UNCHANGED own
  PROVE  SlabInv'
<1> DEFINE n == cpu[c].count
<1>1. cpu[c].pc = "reload" /\ LoadAndReturn(c, n)
  BY DEF Reload
<1>2. /\ n >= 1 /\ mags[c].count + n <= objs_per_mag
      /\ ~short => mags[c].count = 0 /\ n = objs_per_mag
  BY <1>1 DEF SlabInv, Calls, Refilling
<1>3. /\ n \in 0 .. objs_per_mag /\ cpu[c].free \in 0 .. total_count /\ total_count \in Nat
      /\ mags[c].count \in 0 .. objs_per_mag /\ objs_per_mag \in Nat
  BY Numbers DEF SlabInv, Shape, CpuType, MagType
<1>4. n \in 1 .. objs_per_mag
  BY <1>2, <1>3
<1>5. CASE Loaded(mags[c], n) <= cpu[c].free
  BY <1>1, <1>2, <1>4, <1>5, LoadStep
<1>6. CASE Loaded(mags[c], n) > cpu[c].free
  <2>1. n > cpu[c].free
    BY <1>3, <1>6 DEF Loaded
  <2>2. Fault
    BY <1>1, <1>6 DEF LoadAndReturn
  <2> QED
    BY <1>1, <2>1, <2>2, FaultStep
<1>7. Loaded(mags[c], n) \in Nat
  BY <1>3 DEF Loaded
<1> QED
  BY <1>3, <1>5, <1>6, <1>7

LEMMA LoadRestStep ==
  ASSUME SlabInv, ~fault, NEW c \in CPU, LoadRest(c), UNCHANGED own
  PROVE  SlabInv'
<1> USE DEF lists, pool
<1> DEFINE s == cpu[c].slab
           rest == cpu[c].free
           m == slab_load_mag(mags[c], s, rest, rest)
           r == [cpu[c] EXCEPT !.pc = "remove", !.count = objs_per_mag - rest]
<1>1. Shape /\ Calls /\ LockGuards /\ ReadsHold /\ Conserved /\ Rings
  BY DEF SlabInv
<1>2. /\ cpu[c].pc = "load" /\ rest < objs_per_mag /\ mags' = [mags EXCEPT ![c] = m]
      /\ free_count' = [free_count EXCEPT ![s] = rest - Loaded(mags[c], rest)]
      /\ short' = (short \/ rest > 0)
      /\ UNCHANGED <<usable_slab_list, full_slab_list, next, prev, free_objs>>
      /\ UNCHANGED <<lock, nslabs, fault, held, own>>
  BY DEF LoadRest
<1>3. /\ mags[c] \in MagType(nslabs) /\ mags[c].count = 0 /\ cpu[c] \in CpuType
      /\ s \in 1 .. nslabs /\ s \in Slab /\ rest \in 0 .. total_count
      /\ objs_per_mag \in Nat /\ total_count \in Nat /\ rest \in 0 .. objs_per_mag /\ nslabs \in Nat
  <2>1. mags[c] \in MagType(nslabs) /\ cpu[c] \in CpuType
    BY <1>1 DEF Shape
  <2>2. s \in 1 .. nslabs /\ mags[c].count = 0
    BY <1>1, <1>2 DEF Calls
  <2>3. rest \in 0 .. total_count
    BY <2>1 DEF CpuType
  <2> QED
    BY <1>1, <1>2, <2>1, <2>2, <2>3, SlabsAre, Numbers
<1>4. rest - Loaded(mags[c], rest) = 0
  BY <1>3 DEF Loaded
<1>5. cpu' = [cpu EXCEPT ![c] = r]
  BY <1>1 DEF LoadRest, Shape, CpuType
<1>6. r \in CpuType /\ r.pc = "remove" /\ r.slab = s /\ r.count = objs_per_mag - rest
  <2>1. objs_per_mag - rest \in 0 .. objs_per_mag
    BY <1>3
  <2> QED
    BY <1>3, <2>1 DEF CpuType, Places
<1> HIDE DEF r
<1>7. cpu' \in [CPU -> CpuType] /\ cpu'[c] = r /\ \A d \in CPU : d # c => cpu'[d] = cpu[d]
  BY <1>1, <1>5, <1>6, CpuGoes
<1> HIDE DEF s, rest
<1>8. m \in MagType(nslabs) /\ m.count = rest /\ (rest = 0 => m = mags[c])
  <2>1. mags[c].count + rest <= objs_per_mag /\ mags[c].count + rest = rest
    BY <1>3
  <2> QED
    BY <1>1, <1>3, <2>1, MagLoads
<1> HIDE DEF m
<1>9. mags' \in [CPU -> MagType(nslabs)] /\ mags'[c] = m /\ \A d \in CPU : d # c => mags'[d] = mags[d]
  BY <1>1, <1>2, <1>8, MagGoes
<1>10. /\ free_count' \in [Slab -> 0 .. total_count] /\ free_count'[s] = 0
       /\ \A t \in Slab : t # s => free_count'[t] = free_count[t]
  <2>1. free_count \in [Slab -> 0 .. total_count] /\ 0 \in 0 .. total_count
    BY <1>1, <1>3 DEF Shape
  <2> QED
    BY <1>2, <1>3, <1>4, <2>1
<1>10a. ~short' => ~short /\ rest = 0
  <2>1. ~short' => ~short /\ ~(rest > 0)
    BY <1>2, Zenon
  <2>2. ~(rest > 0) => rest = 0
    BY <1>3
  <2> QED
    BY <2>1, <2>2
<1>11. Shape'
  <2>1. \A t \in Slab : t > nslabs => free_count'[t] = 0
    BY <1>1, <1>10 DEF Shape
  <2>2. short' \in BOOLEAN
    BY <1>2
  <2> QED
    BY <1>1, <1>2, <1>7, <1>9, <1>10, <2>1, <2>2 DEF Shape, AllObjects
<1>12. Calls'
  <2>1. ~short' => ~short /\ rest = 0
    BY <1>10a
  <2>2. /\ r.count >= 1 /\ m.count + r.count <= objs_per_mag
        /\ ~short' => m.count = 0 /\ r.count = objs_per_mag
    BY <1>2, <1>3, <1>6, <1>8, <2>1
  <2>3. ASSUME NEW d \in CPU, d # c
        PROVE  /\ cpu'[d].pc # "idle" => cpu'[d].slab \in 1 .. nslabs'
               /\ cpu'[d].pc \in {"lock", "load"} => mags'[d].count = 0
               /\ cpu'[d].pc \in Refilling =>
                    /\ cpu'[d].count >= 1
                    /\ mags'[d].count + cpu'[d].count <= objs_per_mag
                    /\ ~short' => mags'[d].count = 0 /\ cpu'[d].count = objs_per_mag
               /\ cpu'[d].pc \in {"unretire", "reuse"} => WithFree
    <3>1. cpu'[d] = cpu[d] /\ mags'[d] = mags[d] /\ nslabs' = nslabs
      BY <1>2, <1>7, <1>9, <2>3
    <3> QED
      BY <1>1, <2>1, <3>1 DEF Calls
  <2>4. /\ cpu'[c].slab \in 1 .. nslabs' /\ cpu'[c].pc = "remove"
        /\ cpu'[c].count >= 1 /\ mags'[c].count + cpu'[c].count <= objs_per_mag
        /\ ~short' => mags'[c].count = 0 /\ cpu'[c].count = objs_per_mag
    BY <1>2, <1>3, <1>6, <1>7, <1>9, <2>2
  <2> QED
    BY <2>3, <2>4 DEF Calls
<1>13. LockGuards'
  BY <1>1, <1>2, <1>6, <1>7 DEF LockGuards, OneSlab, Refilling
<1>14. ReadsHold'
  <2>1. CASE NCPU = 1
    BY <1>6, <1>7, <2>1, Numbers DEF ReadsHold
  <2>2. CASE OneSlab
    <3>1. s = 1 /\ lock[1] = c
      BY <1>1, <1>2, <1>3, <2>2 DEF LockGuards, OneSlab
    <3>2. \A d \in CPU : d # c => cpu[d].pc \notin {"load", "reload"}
      BY <1>1, <2>2, <3>1 DEF LockGuards
    <3> QED
      BY <1>6, <1>7, <3>2 DEF ReadsHold
  <2>3. Alone' => Alone
    BY <1>2 DEF Alone, OneSlab
  <2> QED
    BY <2>1, <2>2, <2>3 DEF Alone, ReadsHold
<1>15. Conserved'
  <2> SUFFICES ASSUME Alone, ~short' PROVE Conserved'
    BY <1>2 DEF Conserved, Alone, OneSlab
  <2>1. rest = 0 /\ m = mags[c]
    BY <1>8, <1>10a
  <2>4. free_count[s] = 0
    <3>1. cpu[c].free = free_count[cpu[c].slab]
      BY <1>1, <1>2 DEF ReadsHold
    <3> QED
      BY <2>1, <3>1 DEF rest, s
  <2>2. mags' = mags
    BY <1>1, <1>2, <2>1 DEF Shape
  <2>3. free_count' = free_count
    BY <1>1, <1>2, <1>4, <2>4 DEF Shape
  <2> QED
    BY <1>1, <1>2, <1>10a, <2>2, <2>3, OnceKept
<1>16. ASSUME NCPU = 1 PROVE Walks' /\ \E U, F \in SUBSET (1 .. nslabs) : OnLists(U, F)'
  <2>1. c = 0
    BY <1>16, Numbers
  <2>2. PICK U \in SUBSET (1 .. nslabs), F \in SUBSET (1 .. nslabs) : OnLists(U, F)
    BY <1>1, <1>16 DEF Rings
  <2>3. Moving' = Moving
    BY <1>2, <1>6, <1>7, <2>1 DEF Moving
  <2>4. OnLists(U, F)'
    BY <1>2, <1>6, <1>7, <2>1, <2>2, <2>3, ListsKept
  <2>5. Walks
    BY <1>1, <1>16 DEF Rings
  <2>6. Walks'
    BY <1>2, <1>6, <1>7, <2>1, <2>5 DEF Walks, s
  <2> QED
    BY <2>4, <2>6
<1>17. Rings'
  BY <1>2, <1>16 DEF Rings
<1>18. Causes'
  BY <1>2 DEF Causes, FaultCauses
<1> QED
  BY <1>11, <1>12, <1>13, <1>14, <1>15, <1>17, <1>18 DEF SlabInv

(* A list whose slabs keep their neighbours. *)
LEMMA RingKept ==
  ASSUME NEW S, NEW head, Ring(S, head), \A t \in S : next'[t] = next[t] /\ prev'[t] = prev[t]
  PROVE  head \in S \union {NULL} /\ (head = NULL => S = {}) /\ Cycle(S, next', prev')
<1>1. head \in S \union {NULL} /\ (head = NULL => S = {}) /\ Cycle(S, next, prev)
  BY DEF Ring
<1>2. Cycle(S, next', prev')
  BY <1>1, CycleKept
<1> QED
  BY <1>1, <1>2

LEMMA RemoveStep ==
  ASSUME SlabInv, ~fault, NEW c \in CPU, Remove(c), UNCHANGED own
  PROVE  SlabInv'
<1> USE DEF lists, pool, history
<1>0. PICK s : s = cpu[c].slab
  OBVIOUS
<1> DEFINE r == [cpu[c] EXCEPT !.pc = "retire"]
           l == slab_remove_from(s, usable_slab_list)
<1>1. Shape /\ Calls /\ LockGuards /\ ReadsHold /\ Conserved /\ Rings
  BY DEF SlabInv
<1>2. cpu[c].pc = "remove" /\ s \in 1 .. nslabs /\ s \in Slab /\ cpu[c] \in CpuType
  <2>1. cpu[c].pc = "remove" /\ s \in 1 .. nslabs /\ cpu[c] \in CpuType
    BY <1>0, <1>1 DEF Remove, Calls, Shape
  <2> QED
    BY <1>1, <2>1, SlabsAre
<1>3. ASSUME NCPU = 1, NEW U, NEW F, OnLists(U, F)
      PROVE  /\ c = 0 /\ s = usable_slab_list /\ s \in U /\ Ring(U, s) /\ Moving = {}
             /\ next[s] \in U /\ prev[s] \in U
  <2>1. c = 0 /\ s = usable_slab_list /\ Moving = {}
    BY <1>0, <1>1, <1>2, <1>3, Numbers DEF Rings, Walks, Moving
  <2>2. Ring(U, s)
    BY <1>2, <1>3, <2>1 DEF OnLists
  <2>3. s \in U
    BY <1>1, <1>2, <2>2, SlabsAre DEF Ring
  <2> QED
    BY <2>1, <2>2, <2>3 DEF Ring, Cycle
<1>4. CASE RemoveFaults(s)
  <2>1. NCPU # 1
    <3> SUFFICES ASSUME NCPU = 1 PROVE FALSE
      OBVIOUS
    <3>1. PICK U \in SUBSET (1 .. nslabs), F \in SUBSET (1 .. nslabs) : OnLists(U, F)
      BY <1>1 DEF Rings
    <3>2. next[s] \in U /\ prev[s] \in U
      BY <1>3, <3>1
    <3> QED
      BY <1>1, <1>4, <3>2, SlabsAre DEF RemoveFaults
  <2> QED
    BY <1>0, <1>4, <2>1, FaultStep DEF Remove
<1>5. CASE ~RemoveFaults(s)
  <2>1. /\ next' = l.next /\ prev' = l.prev /\ usable_slab_list' = l.head
        /\ UNCHANGED <<full_slab_list, free_objs, free_count>>
        /\ UNCHANGED <<lock, mags, nslabs, fault, held, short, own>>
    BY <1>0, <1>5 DEF Remove, SetLinks
  <2>2. cpu' = [cpu EXCEPT ![c] = r]
    BY <1>0, <1>1, <1>5 DEF Remove, Goto, Shape, CpuType
  <2>3. r \in CpuType /\ r.pc = "retire" /\ r.slab = s /\ r.count = cpu[c].count
    BY <1>0, <1>2 DEF CpuType, Places
  <2> HIDE DEF r
  <2>4. cpu' \in [CPU -> CpuType] /\ cpu'[c] = r /\ \A d \in CPU : d # c => cpu'[d] = cpu[d]
    BY <1>1, <2>2, <2>3, CpuGoes
  <2>5. /\ next' \in [Slab -> 0 .. nslabs] /\ prev' \in [Slab -> 0 .. nslabs] /\ usable_slab_list' \in 0 .. nslabs
        /\ \A t \in Slab : next'[t] = IF t = s THEN NULL ELSE IF t = prev[s] THEN next[s] ELSE next[t]
        /\ \A t \in Slab : prev'[t] = IF t = s THEN NULL ELSE IF t = next[s] THEN prev[s] ELSE prev[t]
        /\ usable_slab_list' = IF usable_slab_list # s THEN usable_slab_list
                               ELSE IF next[s] = s THEN NULL ELSE next[s]
    <3>1. usable_slab_list \in 0 .. nslabs
      BY <1>1 DEF Shape
    <3> QED
      BY <1>1, <1>2, <1>5, <2>1, <3>1, RemoveIs
  <2>6. Shape'
    <3>1. ASSUME NEW t \in Slab, t > nslabs PROVE next'[t] = NULL /\ prev'[t] = NULL
      <4>1. next[s] \in 0 .. nslabs /\ prev[s] \in 0 .. nslabs /\ nslabs \in Nat
        BY <1>1, <1>2, SlabsAre DEF Shape
      <4>2. t # s /\ t # prev[s] /\ t # next[s]
        BY <1>2, <3>1, <4>1
      <4> QED
        BY <1>1, <2>5, <3>1, <4>2 DEF Shape
    <3> QED
      BY <1>1, <2>1, <2>4, <2>5, <3>1 DEF Shape, AllObjects
  <2>7. Calls'
    BY <1>1, <1>2, <2>1, <2>3, <2>4 DEF Calls, Refilling
  <2>8. LockGuards'
    <3> SUFFICES ASSUME OneSlab PROVE LockGuards'
      BY <2>1 DEF LockGuards, OneSlab
    <3>1. s = 1
      BY <1>2 DEF OneSlab
    <3>2. usable_slab_list' = NULL
      <4>1. usable_slab_list \in {0, 1} /\ NULL = 0
        BY <1>1, Numbers DEF Shape, OneSlab
      <4>2. usable_slab_list # NULL => next[1] = 1
        BY <1>1 DEF LockGuards
      <4> QED
        BY <2>5, <3>1, <4>1, <4>2
    <3> QED
      BY <1>1, <1>2, <2>1, <2>3, <2>4, <3>2 DEF LockGuards, OneSlab, Refilling
  <2>9. ReadsHold'
    BY <1>1, <2>1, <2>3, <2>4 DEF ReadsHold, Alone, OneSlab
  <2>10. Conserved'
    BY <1>1, <2>1, OnceKept
  <2>11. ASSUME NCPU = 1 PROVE Walks' /\ \E U, F \in SUBSET (1 .. nslabs) : OnLists(U, F)'
    <3>1. PICK U \in SUBSET (1 .. nslabs), F \in SUBSET (1 .. nslabs) : OnLists(U, F)
      BY <1>1, <2>11 DEF Rings
    <3>2. /\ c = 0 /\ s = usable_slab_list /\ s \in U /\ Ring(U, s) /\ Moving = {}
          /\ next[s] \in U /\ prev[s] \in U
      BY <1>3, <2>11, <3>1
    <3>3. U \in SUBSET Slab /\ F \in SUBSET Slab /\ U \intersect F = {}
      BY <1>1, <3>1, SlabsAre DEF OnLists
    <3>4. Moving' = {s}
      BY <2>3, <2>4, <3>2 DEF Moving
    <3>5. Cycle(U \ {s}, next', prev')
      <4>1. Cycle(U, next, prev)
        BY <3>2 DEF Ring
      <4> QED
        BY <2>5, <3>2, <3>3, <4>1, CycleRemove
    <3>6. Ring(U \ {s}, usable_slab_list)'
      <4>1. CASE next[s] = s
        <5>1. U = {s}
          <6>1. \A T \in SUBSET U : T # {} /\ (\A t \in T : next[t] \in T) => T = U
            BY <3>2 DEF Ring, Cycle
          <6>2. {s} \in SUBSET U /\ {s} # {} /\ \A t \in {s} : next[t] \in {s}
            BY <3>2, <4>1
          <6> QED
            BY <6>1, <6>2
        <5> QED
          BY <2>5, <3>2, <3>5, <4>1, <5>1 DEF Ring
      <4>2. CASE next[s] # s
        BY <1>1, <2>5, <3>1, <3>2, <3>5, <4>2, SlabsAre DEF Ring
      <4> QED
        BY <4>1, <4>2
    <3>7. Ring(F, full_slab_list)'
      <4>1. Ring(F, full_slab_list)
        BY <3>1 DEF OnLists
      <4>2. \A t \in F : next'[t] = next[t] /\ prev'[t] = prev[t]
        BY <2>5, <3>2, <3>3
      <4> QED
        BY <2>1, <4>1, <4>2, RingKept DEF Ring
    <3>8. OnLists(U \ {s}, F)'
      <4>1. U \union F = 1 .. nslabs /\ \A t \in F : lock[t] # NoCPU
        BY <3>1, <3>2 DEF OnLists
      <4>2. (U \ {s}) \union F = (1 .. nslabs) \ {s}
        BY <3>2, <3>3, <4>1
      <4>3. next'[s] = NULL /\ prev'[s] = NULL
        BY <1>2, <2>5
      <4> QED
        BY <2>1, <2>3, <2>4, <3>2, <3>3, <3>4, <3>6, <3>7, <4>1, <4>2, <4>3 DEF OnLists
    <3>9. Walks'
      <4>1. Walks
        BY <1>1, <2>11 DEF Rings
      <4> QED
        BY <1>0, <1>2, <2>1, <2>3, <2>4, <3>2, <4>1 DEF Walks
    <3>10. U \ {s} \in SUBSET (1 .. nslabs)
      BY <3>1
    <3> QED
      BY <3>1, <3>8, <3>9, <3>10
  <2>12. Rings'
    BY <2>1, <2>11 DEF Rings
  <2>13. Causes'
    BY <2>1 DEF Causes, FaultCauses
  <2> QED
    BY <2>6, <2>7, <2>8, <2>9, <2>10, <2>12, <2>13 DEF SlabInv
<1> QED
  BY <1>4, <1>5

LEMMA RetireStep ==
  ASSUME SlabInv, ~fault, NEW c \in CPU, Retire(c), UNCHANGED own
  PROVE  SlabInv'
<1> USE DEF lists, pool, history
<1>0. PICK s : s = cpu[c].slab
  OBVIOUS
<1> DEFINE r == [cpu[c] EXCEPT !.pc = "next"]
           l == slab_add_to(s, full_slab_list)
<1>1. Shape /\ Calls /\ LockGuards /\ ReadsHold /\ Conserved /\ Rings
  BY DEF SlabInv
<1>2. cpu[c].pc = "retire" /\ s \in 1 .. nslabs /\ s \in Slab /\ cpu[c] \in CpuType
  <2>1. cpu[c].pc = "retire" /\ s \in 1 .. nslabs /\ cpu[c] \in CpuType
    BY <1>0, <1>1 DEF Retire, Calls, Shape
  <2> QED
    BY <1>1, <2>1, SlabsAre
<1>3. ASSUME NCPU = 1, NEW U, NEW F, OnLists(U, F)
      PROVE  /\ c = 0 /\ Moving = {s} /\ Ring(F, full_slab_list)
             /\ full_slab_list # NULL => full_slab_list \in F /\ prev[full_slab_list] \in F
  <2>1. c = 0 /\ Moving = {s}
    BY <1>0, <1>2, <1>3, Numbers DEF Moving
  <2>2. Ring(F, full_slab_list)
    BY <1>3 DEF OnLists
  <2> QED
    BY <2>1, <2>2 DEF Ring, Cycle
<1>4. CASE AddFaults(full_slab_list)
  <2>1. NCPU # 1
    <3> SUFFICES ASSUME NCPU = 1 PROVE FALSE
      OBVIOUS
    <3>1. PICK U \in SUBSET (1 .. nslabs), F \in SUBSET (1 .. nslabs) : OnLists(U, F)
      BY <1>1 DEF Rings
    <3>2. prev[full_slab_list] \in F
      BY <1>3, <1>4, <3>1 DEF AddFaults
    <3> QED
      BY <1>1, <1>4, <3>2, SlabsAre DEF AddFaults
  <2> QED
    BY <1>4, <2>1, FaultStep DEF Retire
<1>5. CASE ~AddFaults(full_slab_list)
  <2>1. /\ next' = l.next /\ prev' = l.prev /\ full_slab_list' = l.head
        /\ UNCHANGED <<usable_slab_list, free_objs, free_count>>
        /\ UNCHANGED <<lock, mags, nslabs, fault, held, short, own>>
    BY <1>0, <1>5 DEF Retire, SetLinks
  <2>2. cpu' = [cpu EXCEPT ![c] = r]
    BY <1>0, <1>1, <1>5 DEF Retire, Goto, Shape, CpuType
  <2>3. r \in CpuType /\ r.pc = "next" /\ r.slab = s /\ r.count = cpu[c].count
    BY <1>0, <1>2 DEF CpuType, Places
  <2> HIDE DEF r
  <2>4. cpu' \in [CPU -> CpuType] /\ cpu'[c] = r /\ \A d \in CPU : d # c => cpu'[d] = cpu[d]
    BY <1>1, <2>2, <2>3, CpuGoes
  <2>5. /\ next' \in [Slab -> 0 .. nslabs] /\ prev' \in [Slab -> 0 .. nslabs] /\ full_slab_list' \in 0 .. nslabs
        /\ full_slab_list = NULL =>
             /\ \A t \in Slab : next'[t] = IF t = s THEN s ELSE next[t]
             /\ \A t \in Slab : prev'[t] = IF t = s THEN s ELSE prev[t]
             /\ full_slab_list' = s
        /\ full_slab_list # NULL =>
             /\ \A t \in Slab : next'[t] = IF t = prev[full_slab_list] THEN s
                                           ELSE IF t = s THEN full_slab_list ELSE next[t]
             /\ \A t \in Slab : prev'[t] = IF t = full_slab_list THEN s
                                           ELSE IF t = s THEN prev[full_slab_list] ELSE prev[t]
             /\ full_slab_list' = full_slab_list
    <3>1. full_slab_list \in 0 .. nslabs /\ nslabs \in Nat /\ s <= nslabs /\ nslabs <= nslabs
      BY <1>1, <1>2, SlabsAre DEF Shape
    <3> HIDE DEF l
    <3>2. /\ l.next \in [Slab -> 0 .. nslabs] /\ l.prev \in [Slab -> 0 .. nslabs] /\ l.head \in 0 .. nslabs
          /\ full_slab_list = NULL =>
               /\ \A t \in Slab : l.next[t] = IF t = s THEN s ELSE next[t]
               /\ \A t \in Slab : l.prev[t] = IF t = s THEN s ELSE prev[t]
               /\ l.head = s
          /\ full_slab_list # NULL =>
               /\ \A t \in Slab : l.next[t] = IF t = prev[full_slab_list] THEN s
                                              ELSE IF t = s THEN full_slab_list ELSE next[t]
               /\ \A t \in Slab : l.prev[t] = IF t = full_slab_list THEN s
                                              ELSE IF t = s THEN prev[full_slab_list] ELSE prev[t]
               /\ l.head = full_slab_list
      BY <1>1, <1>2, <1>5, <3>1, AddIs DEF l
    <3> QED
      BY <2>1, <3>2
  <2>6. Shape'
    <3>1. ASSUME NEW t \in Slab, t > nslabs PROVE next'[t] = NULL /\ prev'[t] = NULL
      <4>1. /\ nslabs \in Nat /\ full_slab_list \in 0 .. nslabs
            /\ full_slab_list # NULL => prev[full_slab_list] \in 0 .. nslabs
        BY <1>1, SlabsAre DEF Shape
      <4>2. t # s /\ t # full_slab_list /\ (full_slab_list # NULL => t # prev[full_slab_list])
        BY <1>2, <3>1, <4>1
      <4> QED
        BY <1>1, <2>5, <3>1, <4>2 DEF Shape
    <3> QED
      BY <1>1, <2>1, <2>4, <2>5, <3>1 DEF Shape, AllObjects
  <2>7. Calls'
    BY <1>1, <1>2, <2>1, <2>3, <2>4 DEF Calls, Refilling
  <2>8. LockGuards'
    <3>1. OneSlab => usable_slab_list = NULL
      BY <1>1, <1>2 DEF LockGuards
    <3> QED
      BY <1>1, <1>2, <2>1, <2>3, <2>4, <3>1 DEF LockGuards, OneSlab, Refilling
  <2>9. ReadsHold'
    BY <1>1, <2>1, <2>3, <2>4 DEF ReadsHold, Alone, OneSlab
  <2>10. Conserved'
    BY <1>1, <2>1, OnceKept
  <2>11. ASSUME NCPU = 1 PROVE Walks' /\ \E U, F \in SUBSET (1 .. nslabs) : OnLists(U, F)'
    <3>1. PICK U \in SUBSET (1 .. nslabs), F \in SUBSET (1 .. nslabs) : OnLists(U, F)
      BY <1>1, <2>11 DEF Rings
    <3>2. /\ c = 0 /\ Moving = {s} /\ Ring(F, full_slab_list)
          /\ full_slab_list # NULL => full_slab_list \in F /\ prev[full_slab_list] \in F
      BY <1>3, <2>11, <3>1
    <3>3. /\ U \in SUBSET Slab /\ F \in SUBSET Slab /\ U \intersect F = {}
          /\ U \union F = (1 .. nslabs) \ {s} /\ Ring(U, usable_slab_list)
          /\ \A t \in F : lock[t] # NoCPU
      BY <1>1, <1>2, <3>1, <3>2, SlabsAre DEF OnLists
    <3>4. Moving' = {} /\ s \notin U /\ s \notin F
      BY <2>3, <2>4, <3>2, <3>3 DEF Moving
    <3>5. Ring(F \union {s}, full_slab_list)'
      <4>1. CASE full_slab_list = NULL
        <5>1. F = {}
          BY <3>2, <4>1 DEF Ring
        <5>2. next'[s] = s /\ prev'[s] = s /\ full_slab_list' = s
          BY <1>2, <2>5, <4>1
        <5>3. Cycle({s}, next', prev')
          BY <5>2, CycleOne
        <5>4. F \union {s} = {s}
          BY <5>1
        <5>5. Cycle(F \union {s}, next', prev')
          BY <5>3, <5>4
        <5> QED
          BY <1>1, <1>2, <5>2, <5>5, SlabsAre DEF Ring
      <4>2. CASE full_slab_list # NULL
        <5>1. Cycle(F, next, prev) /\ full_slab_list \in F
          BY <3>2, <4>2 DEF Ring
        <5>2. s \in Slab \ F
          BY <1>2, <3>4
        <5>3. Cycle(F \union {s}, next', prev')
          BY <2>5, <3>3, <4>2, <5>1, <5>2, CycleAdd
        <5> QED
          BY <2>5, <4>2, <5>1, <5>3 DEF Ring
      <4> QED
        BY <4>1, <4>2
    <3>6. Ring(U, usable_slab_list)'
      <4>1. \A t \in U : next'[t] = next[t] /\ prev'[t] = prev[t]
        BY <2>5, <3>2, <3>3, <3>4
      <4> QED
        BY <2>1, <3>3, <4>1, RingKept DEF Ring
    <3>7. OnLists(U, F \union {s})'
      <4>1. Walks
        BY <1>1, <2>11 DEF Rings
      <4>2. lock[s] # NoCPU
        BY <1>0, <1>2, <3>2, <4>1 DEF Walks
      <4>3. U \union (F \union {s}) = 1 .. nslabs /\ U \intersect (F \union {s}) = {}
        BY <1>2, <3>3, <3>4
      <4> QED
        BY <2>1, <2>3, <2>4, <3>2, <3>3, <3>4, <3>5, <3>6, <4>2, <4>3 DEF OnLists
    <3>8. Walks'
      BY <2>1, <2>3, <2>4, <3>2 DEF Walks
    <3>9. F \union {s} \in SUBSET (1 .. nslabs)
      BY <1>2, <3>1
    <3> QED
      BY <3>1, <3>7, <3>8, <3>9
  <2>12. Rings'
    BY <2>1, <2>11 DEF Rings
  <2>13. Causes'
    BY <2>1 DEF Causes, FaultCauses
  <2> QED
    BY <2>6, <2>7, <2>8, <2>9, <2>10, <2>12, <2>13 DEF SlabInv
<1> QED
  BY <1>4, <1>5

LEMMA NextUsableStep ==
  ASSUME SlabInv, ~fault, NEW c \in CPU, NextUsable(c), UNCHANGED own
  PROVE  SlabInv'
<1> USE DEF lists, pool, history
<1>0. PICK s : s = usable_slab_list
  OBVIOUS
<1> DEFINE r == [cpu[c] EXCEPT !.pc = "reload", !.slab = s, !.free = free_count[s]]
<1>1. Shape /\ Calls /\ LockGuards /\ ReadsHold /\ Conserved /\ Rings
  BY DEF SlabInv
<1>2. /\ cpu[c].pc = "next" /\ s # NULL /\ cpu[c] \in CpuType
      /\ UNCHANGED <<usable_slab_list, full_slab_list, next, prev, free_objs, free_count>>
      /\ UNCHANGED <<lock, mags, nslabs, fault, held, short, own>>
  BY <1>0, <1>1 DEF NextUsable, Shape
<1>3. s \in 1 .. nslabs /\ s \in Slab /\ s \in 0 .. MaxSlabs /\ free_count[s] \in 0 .. total_count
  <2>1. s \in 1 .. nslabs
    BY <1>0, <1>1, <1>2, SlabsAre DEF Shape
  <2>2. s \in Slab /\ nslabs \in Nat /\ MaxSlabs \in Nat /\ nslabs <= MaxSlabs
    BY <1>1, <2>1, SlabsAre
  <2>3. s \in 0 .. MaxSlabs
    BY ONLY <2>1, <2>2
  <2>4. free_count[s] \in 0 .. total_count
    BY <1>1, <2>2 DEF Shape
  <2> QED
    BY <2>1, <2>2, <2>3, <2>4
<1>4. cpu' = [cpu EXCEPT ![c] = r]
  BY <1>0, <1>1 DEF NextUsable, Shape, CpuType
<1>5. r \in CpuType /\ r.pc = "reload" /\ r.slab = s /\ r.free = free_count[s] /\ r.count = cpu[c].count
  BY <1>2, <1>3 DEF CpuType, Places
<1> HIDE DEF r
<1>6. cpu' \in [CPU -> CpuType] /\ cpu'[c] = r /\ \A d \in CPU : d # c => cpu'[d] = cpu[d]
  BY <1>1, <1>4, <1>5, CpuGoes
<1>7. Shape'
  BY <1>1, <1>2, <1>6 DEF Shape, AllObjects
<1>8. Calls'
  BY <1>1, <1>2, <1>3, <1>5, <1>6 DEF Calls, Refilling
<1>9. LockGuards'
  BY <1>0, <1>1, <1>2 DEF LockGuards, OneSlab
<1>10. ReadsHold'
  BY <1>1, <1>2, <1>5, <1>6 DEF ReadsHold, Alone, OneSlab
<1>11. Conserved'
  BY <1>1, <1>2, OnceKept
<1>12. ASSUME NCPU = 1 PROVE Walks' /\ \E U, F \in SUBSET (1 .. nslabs) : OnLists(U, F)'
  <2>1. c = 0
    BY <1>12, Numbers
  <2>2. PICK U \in SUBSET (1 .. nslabs), F \in SUBSET (1 .. nslabs) : OnLists(U, F)
    BY <1>1, <1>12 DEF Rings
  <2>3. Moving' = Moving
    BY <1>2, <1>5, <1>6, <2>1 DEF Moving
  <2>4. s \in U
    BY <1>0, <1>2, <2>1, <2>2 DEF OnLists, Ring
  <2>5. OnLists(U, F)'
    BY <1>2, <1>5, <1>6, <2>1, <2>2, <2>3, <2>4, ListsKept
  <2>6. Walks'
    BY <1>0, <1>2, <1>5, <1>6, <2>1 DEF Walks
  <2> QED
    BY <2>5, <2>6
<1>13. Rings'
  BY <1>2, <1>12 DEF Rings
<1>14. Causes'
  BY <1>2 DEF Causes, FaultCauses
<1> QED
  BY <1>7, <1>8, <1>9, <1>10, <1>11, <1>13, <1>14 DEF SlabInv

LEMMA slab_create_slabStep ==
  ASSUME SlabInv, ~fault, NEW c \in CPU, slab_create_slab(c), UNCHANGED own
  PROVE  SlabInv'
<1> USE DEF lists, pool, history
<1>0. PICK s : s = nslabs + 1
  OBVIOUS
<1> DEFINE r == [cpu[c] EXCEPT !.pc = "reload", !.slab = s, !.free = total_count]
           l == slab_add_to(s, usable_slab_list)
<1>1. Shape /\ Calls /\ LockGuards /\ ReadsHold /\ Conserved /\ Rings
  BY DEF SlabInv
<1>2. cpu[c].pc = "next" /\ usable_slab_list = NULL /\ cpu[c] \in CpuType
  BY <1>1 DEF slab_create_slab, Shape
<1>3. CASE own /\ mags[c].count = 0
  BY <1>2, <1>3, FaultStep DEF slab_create_slab
<1>4. CASE ~(own /\ mags[c].count = 0)
  <2>1. /\ nslabs < MaxSlabs /\ nslabs' = s
        /\ mags' = (IF own THEN [mags EXCEPT ![c] = Pop(@)] ELSE mags)
        /\ held' = held \union DescribedBy(c)
        /\ free_count' = [free_count EXCEPT ![s] = total_count]
        /\ next' = l.next /\ prev' = l.prev /\ usable_slab_list' = l.head
        /\ cpu' = [cpu EXCEPT ![c].pc = "reload", ![c].slab = s, ![c].free = total_count]
        /\ UNCHANGED <<full_slab_list, free_objs, lock, fault, short, own>>
    BY <1>0, <1>4 DEF slab_create_slab, SetLinks
  <2>2. /\ nslabs \in Nat /\ nslabs >= 1 /\ s \in Slab /\ s \in 0 .. MaxSlabs /\ s \in Nat
        /\ 1 .. s = (1 .. nslabs) \union {s} /\ s \notin 1 .. nslabs /\ 0 .. nslabs \subseteq 0 .. s
        /\ total_count \in Nat /\ objs_per_mag \in Nat /\ s \in 1 .. s
    <3>1. nslabs \in Nat /\ nslabs >= 1 /\ MaxSlabs \in Nat
      BY <1>1, SlabsAre
    <3> QED
      BY <1>0, <2>1, <3>1, Numbers DEF Slab
  <2>3. cpu' = [cpu EXCEPT ![c] = r]
    BY <1>1, <2>1 DEF Shape, CpuType
  <2>4. r \in CpuType /\ r.pc = "reload" /\ r.slab = s /\ r.free = total_count /\ r.count = cpu[c].count
    <3>1. total_count \in 0 .. total_count
      BY <2>2
    <3> QED
      BY <1>2, <2>2, <3>1 DEF CpuType, Places
  <2> HIDE DEF r
  <2>5. cpu' \in [CPU -> CpuType] /\ cpu'[c] = r /\ \A d \in CPU : d # c => cpu'[d] = cpu[d]
    BY <1>1, <2>3, <2>4, CpuGoes
  <2>6. /\ next' \in [Slab -> 0 .. s] /\ prev' \in [Slab -> 0 .. s] /\ usable_slab_list' = s
        /\ \A t \in Slab : next'[t] = IF t = s THEN s ELSE next[t]
        /\ \A t \in Slab : prev'[t] = IF t = s THEN s ELSE prev[t]
    <3>1. ~AddFaults(usable_slab_list) /\ usable_slab_list \in 0 .. nslabs /\ s <= s /\ nslabs <= s
      BY <1>0, <1>1, <1>2, <2>2 DEF AddFaults, Shape
    <3> HIDE DEF l
    <3>2. /\ l.next \in [Slab -> 0 .. s] /\ l.prev \in [Slab -> 0 .. s]
          /\ usable_slab_list = NULL =>
               /\ \A t \in Slab : l.next[t] = IF t = s THEN s ELSE next[t]
               /\ \A t \in Slab : l.prev[t] = IF t = s THEN s ELSE prev[t]
               /\ l.head = s
      BY <1>1, <2>2, <3>1, AddIs DEF l
    <3> QED
      BY <1>2, <2>1, <3>2
  <2>7. /\ mags' \in [CPU -> MagType(s)]
        /\ \A d \in CPU : d # c => mags'[d] = mags[d]
        /\ mags'[c].count <= mags[c].count /\ (~own => mags' = mags)
        /\ DescribedBy(c) \subseteq AllObjects \union {Junk} /\ (~own => DescribedBy(c) = {})
    <3>1. /\ mags \in [CPU -> MagType(nslabs)] /\ mags[c] \in MagType(nslabs)
          /\ mags[c].count \in 0 .. objs_per_mag
      BY <1>1 DEF Shape, MagType
    <3>2. \A m \in MagType(nslabs) : m \in MagType(s)
      BY <1>0, <2>2, MagGrows
    <3>3. CASE own
      <4>1. mags[c].count > 0
        BY <1>4, <2>2, <3>1, <3>3
      <4>2. Pop(mags[c]) \in MagType(nslabs) /\ Pop(mags[c]).count = mags[c].count - 1
            /\ TopOf(mags[c]) \in AllObjects \union {Junk}
        BY <2>2, <3>1, <4>1, PopIs DEF AllObjects
      <4>3. mags' = [mags EXCEPT ![c] = Pop(mags[c])]
        BY <2>1, <3>3
      <4>4. mags' \in [CPU -> MagType(nslabs)] /\ mags'[c] = Pop(mags[c]) /\ \A d \in CPU : d # c => mags'[d] = mags[d]
        BY <3>1, <4>2, <4>3
      <4>5. mags'[c].count <= mags[c].count
        BY <2>2, <3>1, <4>2, <4>4
      <4>6. mags' \in [CPU -> MagType(s)]
        BY <3>2, <4>4
      <4> QED
        BY <3>3, <4>2, <4>4, <4>5, <4>6 DEF DescribedBy
    <3>4. CASE ~own
      <4>1. mags' = mags /\ DescribedBy(c) = {}
        BY <2>1, <3>4 DEF DescribedBy
      <4>2. mags \in [CPU -> MagType(s)] /\ mags[c].count <= mags[c].count
        BY <2>2, <3>1, <3>2
      <4> QED
        BY <4>1, <4>2
    <3> QED
      BY <3>3, <3>4
  <2>8. /\ free_count' \in [Slab -> 0 .. total_count] /\ free_count'[s] = total_count
        /\ \A t \in Slab : t # s => free_count'[t] = free_count[t]
    BY <1>1, <2>1, <2>2 DEF Shape
  <2>9. Shape'
    <3>1. ASSUME NEW t \in Slab, t > nslabs'
          PROVE  free_count'[t] = 0 /\ free_objs'[t] = [i \in Index |-> i] /\ next'[t] = NULL /\ prev'[t] = NULL
      <4>1. t # s /\ t > nslabs
        BY <1>0, <2>1, <2>2, <3>1 DEF Slab
      <4> QED
        BY <1>1, <2>1, <2>6, <2>8, <4>1 DEF Shape
    <3>2. held' \subseteq AllObjects' \union {Junk}
      <4>1. AllObjects \subseteq AllObjects'
        BY <2>1, <2>2 DEF AllObjects
      <4> QED
        BY <1>1, <2>1, <2>7, <4>1 DEF Shape
    <3>3. full_slab_list' \in 0 .. s /\ usable_slab_list' \in 0 .. s
      BY <1>1, <2>1, <2>2, <2>6 DEF Shape
    <3> QED
      BY <1>1, <2>1, <2>2, <2>5, <2>6, <2>7, <2>8, <3>1, <3>2, <3>3 DEF Shape
  <2>10. Calls'
    <3>1. /\ cpu[c].count >= 1 /\ mags[c].count + cpu[c].count <= objs_per_mag
          /\ ~short => mags[c].count = 0 /\ cpu[c].count = objs_per_mag
      BY <1>1, <1>2 DEF Calls, Refilling
    <3>2. mags'[c].count + cpu[c].count <= objs_per_mag /\ (~short => mags'[c].count = 0)
      <4>1. mags'[c].count \in 0 .. objs_per_mag /\ mags[c].count \in 0 .. objs_per_mag
            /\ cpu[c].count \in 0 .. objs_per_mag
        BY <1>1, <1>2, <2>7 DEF Shape, MagType, CpuType
      <4> QED
        BY <2>2, <2>7, <3>1, <4>1
    <3>3. ASSUME NEW d \in CPU, d # c
          PROVE  /\ cpu'[d].pc # "idle" => cpu'[d].slab \in 1 .. nslabs'
                 /\ cpu'[d].pc \in {"lock", "load"} => mags'[d].count = 0
                 /\ cpu'[d].pc \in Refilling =>
                      /\ cpu'[d].count >= 1
                      /\ mags'[d].count + cpu'[d].count <= objs_per_mag
                      /\ ~short' => mags'[d].count = 0 /\ cpu'[d].count = objs_per_mag
                 /\ cpu'[d].pc \in {"unretire", "reuse"} => WithFree
      <4>1. cpu'[d] = cpu[d] /\ mags'[d] = mags[d] /\ short' = short
        BY <2>1, <2>5, <2>7, <3>3
      <4>2. \A t \in 1 .. nslabs : t \in 1 .. nslabs'
        BY <2>1, <2>2
      <4> QED
        BY <1>1, <4>1, <4>2 DEF Calls
    <3>4. /\ cpu'[c].slab \in 1 .. nslabs' /\ cpu'[c].pc = "reload"
          /\ cpu'[c].count >= 1 /\ mags'[c].count + cpu'[c].count <= objs_per_mag
          /\ ~short' => mags'[c].count = 0 /\ cpu'[c].count = objs_per_mag
      BY <2>1, <2>2, <2>4, <2>5, <3>1, <3>2
    <3> QED
      BY <3>3, <3>4 DEF Calls
  <2>11. ~OneSlab'
    BY <1>0, <2>1, <2>2 DEF OneSlab
  <2>12. LockGuards'
    BY <2>11 DEF LockGuards
  <2>13. ReadsHold'
    BY <2>4, <2>5, <2>8, <2>11, Numbers DEF ReadsHold, Alone
  <2>14. Conserved'
    <3> SUFFICES ASSUME NCPU = 1, ~short PROVE Once'
      BY <2>1, <2>11 DEF Conserved, Alone
    <3>1. Once /\ mags[c].count = 0
      BY <1>1, <1>2 DEF Conserved, Alone, Calls, Refilling
    <3>2. ~own
      BY <1>4, <3>1
    <3>3. mags' = mags /\ held' = held
      BY <2>1, <2>7, <3>2
    <3> QED
      BY <1>0, <1>1, <2>1, <2>2, <3>1, <3>3, OnceCreate
  <2>15. ASSUME NCPU = 1 PROVE Walks' /\ \E U, F \in SUBSET (1 .. nslabs') : OnLists(U, F)'
    <3>1. PICK U \in SUBSET (1 .. nslabs), F \in SUBSET (1 .. nslabs) : OnLists(U, F)
      BY <1>1, <2>15 DEF Rings
    <3>2. c = 0 /\ Moving = {} /\ Moving' = {}
      BY <1>2, <2>4, <2>5, <2>15, Numbers DEF Moving
    <3>3. U = {} /\ Ring(F, full_slab_list) /\ F = 1 .. nslabs /\ \A t \in F : lock[t] # NoCPU
      BY <1>2, <3>1, <3>2 DEF OnLists, Ring
    <3>4. Ring({s}, usable_slab_list)'
      <4>1. Cycle({s}, next', prev')
        BY <2>2, <2>6, CycleOne
      <4>2. s # NULL
        BY <2>2, Numbers
      <4> QED
        BY <2>6, <4>1, <4>2 DEF Ring
    <3>5. Ring(F, full_slab_list)'
      <4>1. \A t \in F : t \in Slab /\ t # s
        BY <1>1, <2>2, <3>3, SlabsAre
      <4>2. \A t \in F : next'[t] = next[t] /\ prev'[t] = prev[t]
        BY <2>6, <4>1
      <4> QED
        BY <2>1, <3>3, <4>2, RingKept DEF Ring
    <3>6. OnLists({s}, F)'
      <4>1. {s} \intersect F = {} /\ {s} \union F = (1 .. nslabs') \ {}
        BY <2>1, <2>2, <3>3
      <4> QED
        BY <2>1, <2>4, <2>5, <3>2, <3>3, <3>4, <3>5, <4>1 DEF OnLists
    <3>7. Walks'
      BY <2>2, <2>4, <2>5, <2>6, <3>2, Numbers DEF Walks
    <3>8. {s} \in SUBSET (1 .. nslabs') /\ F \in SUBSET (1 .. nslabs')
      BY <2>1, <2>2, <3>3
    <3> QED
      BY <3>6, <3>7, <3>8
  <2>16. Rings'
    BY <2>15 DEF Rings
  <2>17. Causes'
    BY <2>1 DEF Causes, FaultCauses
  <2> QED
    BY <2>9, <2>10, <2>12, <2>13, <2>14, <2>16, <2>17 DEF SlabInv
<1> QED
  BY <1>3, <1>4

LEMMA FreeToMagazineStep ==
  ASSUME SlabInv, ~fault, NEW c \in CPU, NCPU = 1, NEW o \in held, FreeToMagazine(c, o), UNCHANGED own
  PROVE  SlabInv'
<1> USE DEF lists, pool
<1>1. Shape /\ Calls /\ LockGuards /\ ReadsHold /\ Conserved /\ Rings
  BY DEF SlabInv
<1>2. CPU = {0} /\ c = 0 /\ 0 \in CPU /\ objs_per_mag \in Nat
  BY Numbers
<1>3. /\ cpu[0].pc = "idle" /\ o # Junk /\ mags[0].count < objs_per_mag
      /\ mags' = [mags EXCEPT ![0] = Push(mags[0], o)] /\ held' = held \ {o}
      /\ UNCHANGED <<usable_slab_list, full_slab_list, next, prev, free_objs, free_count>>
      /\ UNCHANGED <<lock, nslabs, cpu, fault, short, own>>
  BY <1>2 DEF FreeToMagazine
<1>4. Push(mags[0], o) \in MagType(nslabs)
  <2>1. /\ mags[0].objects \in [1 .. objs_per_mag -> ((1 .. nslabs) \X Index) \union {Junk}]
        /\ mags[0].count \in 0 .. objs_per_mag
    BY <1>1, <1>2 DEF Shape, MagType
  <2>2. o \in ((1 .. nslabs) \X Index) \union {Junk}
    BY <1>1 DEF Shape, AllObjects
  <2>3. [mags[0].objects EXCEPT ![mags[0].count + 1] = o] \in [1 .. objs_per_mag -> ((1 .. nslabs) \X Index) \union {Junk}]
    BY <2>1, <2>2
  <2>4. mags[0].count + 1 \in 0 .. objs_per_mag
    BY <1>2, <1>3, <2>1
  <2> QED
    BY <2>3, <2>4 DEF Push, MagType
<1>5. mags' \in [CPU -> MagType(nslabs)]
  BY <1>1, <1>2, <1>3, <1>4, MagGoes
<1>6. Shape'
  BY <1>1, <1>3, <1>5 DEF Shape, AllObjects
<1>7. Calls'
  BY <1>2, <1>3 DEF Calls, Refilling
<1>8. LockGuards' /\ ReadsHold' /\ Rings'
  BY <1>1, <1>3, AllKept
<1>9. Conserved'
  <2>1. Once => Once'
    BY <1>1, <1>3, OnceFreeToMagazine
  <2> QED
    BY <1>1, <1>3, <2>1 DEF Conserved, Alone
<1>10. Causes'
  BY <1>3 DEF Causes, FaultCauses
<1> QED
  BY <1>6, <1>7, <1>8, <1>9, <1>10 DEF SlabInv

LEMMA FreeToSlabStep ==
  ASSUME SlabInv, ~fault, NEW c \in CPU, NCPU = 1, WithFree, NEW o \in held, FreeToSlab(c, o), UNCHANGED own
  PROVE  SlabInv'
<1> USE DEF lists, pool, history
<1>0. PICK s : s = o[1]
  OBVIOUS
<1> DEFINE r == [IdleCPU EXCEPT !.pc = "unretire", !.slab = s]
<1>1. Shape /\ Calls /\ LockGuards /\ ReadsHold /\ Conserved /\ Rings
  BY DEF SlabInv
<1>2. CPU = {0} /\ c = 0 /\ cpu[0].pc = "idle" /\ total_count \in Nat /\ total_count >= 2 /\ 0 \in CPU
  BY Numbers DEF FreeToSlab
<1>3. o[2] \in Index /\ s \in 1 .. nslabs /\ s \in Slab
  <2>1. o \in (1 .. nslabs) \X Index
    BY <1>1 DEF FreeToSlab, Shape, AllObjects
  <2> QED
    BY <1>0, <1>1, <2>1, SlabsAre
<1>4. CASE free_count[s] = total_count
  <2>1. short
    <3> SUFFICES ASSUME ~short PROVE FALSE
      OBVIOUS
    <3>1. Once
      BY <1>1 DEF Conserved, Alone
    <3>2. free_count[o[1]] < total_count
      BY <1>1, <3>1, NotAllFree
    <3> QED
      BY <1>0, <1>2, <1>4, <3>2
  <2>2. Fault
    BY <1>0, <1>4 DEF FreeToSlab
  <2> QED
    BY <2>1, <2>2, FaultStep
<1>5. CASE free_count[s] # total_count
  <2>1. /\ free_objs' = [free_objs EXCEPT ![s][free_count[s] + 1] = o[2]]
        /\ free_count' = [free_count EXCEPT ![s] = free_count[s] + 1] /\ held' = held \ {o}
        /\ cpu' = (IF free_count[s] > 0 THEN cpu ELSE [cpu EXCEPT ![c] = r])
        /\ UNCHANGED <<usable_slab_list, full_slab_list, next, prev, lock, mags, nslabs, fault, short, own>>
    BY <1>0, <1>5 DEF FreeToSlab
  <2>2. r \in CpuType /\ r.pc = "unretire" /\ r.slab = s
    <3>1. s \in 0 .. MaxSlabs
      BY <1>1, <1>3, SlabsAre
    <3>2. IdleCPU \in CpuType
      BY IdleTyped
    <3> QED
      BY <3>1, <3>2 DEF CpuType, Places
  <2> HIDE DEF r
  <2>3. /\ cpu' \in [CPU -> CpuType]
        /\ \/ cpu' = cpu
           \/ cpu'[0] = r /\ free_count[s] = 0
    <3>1. CASE free_count[s] > 0
      BY <1>1, <2>1, <3>1 DEF Shape
    <3>2. CASE ~(free_count[s] > 0)
      <4>1. cpu' = [cpu EXCEPT ![c] = r]
        BY <2>1, <3>2
      <4>2. free_count[s] \in 0 .. total_count
        BY <1>1, <1>3 DEF Shape
      <4>3. free_count[s] = 0
        BY <1>2, <3>2, <4>2
      <4> QED
        BY <1>1, <1>2, <2>2, <4>1, <4>3, CpuGoes
    <3> QED
      BY <3>1, <3>2
  <2>4. /\ free_count' \in [Slab -> 0 .. total_count] /\ free_count'[s] = free_count[s] + 1
        /\ \A t \in Slab : t # s => free_count'[t] = free_count[t] /\ free_objs'[t] = free_objs[t]
        /\ free_objs' \in [Slab -> [Index -> Index]]
    <3>1. free_count \in [Slab -> 0 .. total_count] /\ free_objs \in [Slab -> [Index -> Index]]
      BY <1>1 DEF Shape
    <3>2. free_count[s] \in 0 .. total_count
      BY <1>3, <3>1
    <3>3. free_count[s] + 1 \in 0 .. total_count
      BY <1>2, <1>5, <3>2
    <3>4. free_objs' = [free_objs EXCEPT ![s] = [free_objs[s] EXCEPT ![free_count[s] + 1] = o[2]]]
      BY <1>3, <2>1, <3>1
    <3>5. [free_objs[s] EXCEPT ![free_count[s] + 1] = o[2]] \in [Index -> Index]
      BY <1>3, <3>1
    <3> QED
      BY <1>3, <2>1, <3>1, <3>3, <3>4, <3>5
  <2>5. Shape'
    <3>1. ASSUME NEW t \in Slab, t > nslabs PROVE free_count'[t] = 0 /\ free_objs'[t] = [i \in Index |-> i]
      <4>1. t # s
        BY <1>1, <1>3, <3>1, SlabsAre
      <4> QED
        BY <1>1, <2>4, <3>1, <4>1 DEF Shape
    <3> QED
      BY <1>1, <2>1, <2>3, <2>4, <3>1 DEF Shape, AllObjects
  <2>6. Calls'
    BY <1>2, <1>3, <2>1, <2>2, <2>3 DEF Calls, Refilling
  <2>7. LockGuards'
    BY DEF LockGuards, OneSlab
  <2>8. ReadsHold'
    BY <1>2, <2>2, <2>3 DEF ReadsHold
  <2>9. Conserved'
    <3>1. Once => Once'
      BY <1>0, <1>1, <2>1, OnceFreeToSlab
    <3> QED
      BY <1>1, <2>1, <3>1 DEF Conserved, Alone
  <2>10. Rings'
    <3>1. PICK U \in SUBSET (1 .. nslabs), F \in SUBSET (1 .. nslabs) : OnLists(U, F)
      BY <1>1 DEF Rings
    <3>2. Moving' = {} /\ Moving = {}
      BY <1>2, <2>2, <2>3 DEF Moving
    <3>3. OnLists(U, F)'
      BY <1>2, <2>1, <2>2, <2>3, <3>1, <3>2, ListsKept
    <3>4. usable_slab_list # NULL
      BY <1>1, <1>2 DEF Rings, Walks
    <3>5. Walks'
      BY <1>2, <2>1, <2>2, <2>3, <2>4, <3>4 DEF Walks
    <3> QED
      BY <2>1, <3>1, <3>3, <3>5 DEF Rings
  <2>11. Causes'
    BY <2>1 DEF Causes, FaultCauses
  <2> QED
    BY <2>5, <2>6, <2>7, <2>8, <2>9, <2>10, <2>11 DEF SlabInv
<1> QED
  BY <1>4, <1>5

LEMMA UnretireStep ==
  ASSUME SlabInv, ~fault, NEW c \in CPU, Calm, Unretire(c), UNCHANGED own
  PROVE  SlabInv'
<1> USE DEF lists, pool, history
<1>0. PICK s : s = cpu[c].slab
  OBVIOUS
<1> DEFINE r == [cpu[c] EXCEPT !.pc = "reuse"]
           l == slab_remove_from(s, full_slab_list)
<1>1. Shape /\ Calls /\ LockGuards /\ ReadsHold /\ Conserved /\ Rings
  BY DEF SlabInv
<1>2. /\ cpu[c].pc = "unretire" /\ s \in 1 .. nslabs /\ s \in Slab /\ cpu[c] \in CpuType
      /\ WithFree /\ NCPU = 1 /\ c = 0 /\ CPU = {0}
  <2>1. cpu[c].pc = "unretire" /\ s \in 1 .. nslabs /\ cpu[c] \in CpuType /\ WithFree
    BY <1>0, <1>1 DEF Unretire, Calls, Shape
  <2> QED
    BY <1>1, <2>1, SlabsAre, Numbers DEF Calm
<1>3. PICK U \in SUBSET (1 .. nslabs), F \in SUBSET (1 .. nslabs) : OnLists(U, F)
  BY <1>1, <1>2 DEF Rings
<1>4. /\ Moving = {} /\ Ring(U, usable_slab_list) /\ Ring(F, full_slab_list)
      /\ U \intersect F = {} /\ U \union F = 1 .. nslabs /\ \A t \in F : lock[t] # NoCPU
  BY <1>2, <1>3 DEF Moving, OnLists
<1>5. /\ U \in SUBSET Slab /\ F \in SUBSET Slab
      /\ Cycle(U, next, prev) /\ Cycle(F, next, prev)
      /\ \A t \in U : next[t] \in U /\ prev[t] \in U
      /\ \A t \in F : next[t] \in F /\ prev[t] \in F
  BY <1>1, <1>3, <1>4, SlabsAre DEF Ring, Cycle
<1>6. ~RemoveFaults(s)
  BY <1>1, <1>2, <1>3, <1>4, <1>5, SlabsAre DEF RemoveFaults
<1>7. /\ next' = l.next /\ prev' = l.prev /\ full_slab_list' = l.head
      /\ UNCHANGED <<usable_slab_list, free_objs, free_count>>
      /\ UNCHANGED <<lock, mags, nslabs, fault, held, short, own>>
  BY <1>0, <1>6 DEF Unretire, SetLinks
<1>8. cpu' = [cpu EXCEPT ![c] = r]
  BY <1>0, <1>1, <1>6 DEF Unretire, Goto, Shape, CpuType
<1>9. r \in CpuType /\ r.pc = "reuse" /\ r.slab = s
  BY <1>0, <1>2 DEF CpuType, Places
<1> HIDE DEF r
<1>10. cpu' \in [CPU -> CpuType] /\ cpu'[0] = r
  BY <1>1, <1>2, <1>8, <1>9, CpuGoes
<1>11. /\ next' \in [Slab -> 0 .. nslabs] /\ prev' \in [Slab -> 0 .. nslabs] /\ full_slab_list' \in 0 .. nslabs
       /\ \A t \in Slab : next'[t] = IF t = s THEN NULL ELSE IF t = prev[s] THEN next[s] ELSE next[t]
       /\ \A t \in Slab : prev'[t] = IF t = s THEN NULL ELSE IF t = next[s] THEN prev[s] ELSE prev[t]
       /\ full_slab_list' = IF full_slab_list # s THEN full_slab_list
                            ELSE IF next[s] = s THEN NULL ELSE next[s]
  <2>1. full_slab_list \in 0 .. nslabs
    BY <1>1 DEF Shape
  <2> QED
    BY <1>1, <1>2, <1>6, <1>7, <2>1, RemoveIs
<1>12. Shape'
  <2>1. ASSUME NEW t \in Slab, t > nslabs PROVE next'[t] = NULL /\ prev'[t] = NULL
    <3>1. next[s] \in 0 .. nslabs /\ prev[s] \in 0 .. nslabs /\ nslabs \in Nat
      BY <1>1, <1>2, SlabsAre DEF Shape
    <3>2. t # s /\ t # prev[s] /\ t # next[s]
      BY <1>2, <2>1, <3>1
    <3> QED
      BY <1>1, <1>11, <2>1, <3>2 DEF Shape
  <2> QED
    BY <1>1, <1>7, <1>10, <1>11, <2>1 DEF Shape, AllObjects
<1>13. Calls'
  BY <1>2, <1>7, <1>9, <1>10 DEF Calls, Refilling
<1>14. LockGuards' /\ ReadsHold'
  BY <1>2, <1>9, <1>10 DEF LockGuards, OneSlab, ReadsHold
<1>15. Conserved'
  BY <1>1, <1>7, OnceKept
<1>16. Moving' = {s}
  BY <1>9, <1>10 DEF Moving
<1>17. next'[s] = NULL /\ prev'[s] = NULL
  BY <1>2, <1>11
<1>18. ASSUME s \in F PROVE OnLists(U, F \ {s})'
  <2>1. Cycle(F \ {s}, next', prev')
    BY <1>5, <1>11, <1>18, CycleRemove
  <2>2. Ring(F \ {s}, full_slab_list)'
    <3>1. CASE full_slab_list # s
      BY <1>4, <1>11, <1>18, <2>1, <3>1 DEF Ring
    <3>2. CASE full_slab_list = s /\ next[s] = s
      <4>1. \A T \in SUBSET F : T # {} /\ (\A t \in T : next[t] \in T) => T = F
        BY <1>5 DEF Cycle
      <4>2. {s} \in SUBSET F /\ {s} # {} /\ \A t \in {s} : next[t] \in {s}
        BY <1>18, <3>2
      <4>3. F = {s}
        BY <4>1, <4>2
      <4> QED
        BY <1>11, <2>1, <3>2, <4>3 DEF Ring
    <3>3. CASE full_slab_list = s /\ next[s] # s
      BY <1>1, <1>3, <1>5, <1>11, <1>18, <2>1, <3>3, SlabsAre DEF Ring
    <3> QED
      BY <3>1, <3>2, <3>3
  <2>3. Ring(U, usable_slab_list)'
    <3>1. \A t \in U : next'[t] = next[t] /\ prev'[t] = prev[t]
      BY <1>4, <1>5, <1>11, <1>18
    <3> QED
      BY <1>4, <1>7, <3>1, RingKept DEF Ring
  <2>4. OnLists(U, F \ {s})'
    <3>1. U \union (F \ {s}) = (1 .. nslabs) \ {s} /\ U \intersect (F \ {s}) = {}
      BY <1>4, <1>18
    <3> QED
      BY <1>4, <1>7, <1>9, <1>10, <1>16, <1>17, <2>2, <2>3, <3>1 DEF OnLists
  <2> QED
    BY <2>4
<1>19. ASSUME s \in U PROVE OnLists(U \ {s}, F)'
  <2>1. Cycle(U \ {s}, next', prev')
    BY <1>5, <1>11, <1>19, CycleRemove
  <2>2. Ring(F, full_slab_list)'
    <3>1. \A t \in F : next'[t] = next[t] /\ prev'[t] = prev[t]
      BY <1>4, <1>5, <1>11, <1>19
    <3>2. full_slab_list' = full_slab_list
      <4>1. full_slab_list \in F \union {NULL}
        BY <1>4 DEF Ring
      <4> QED
        BY <1>1, <1>2, <1>4, <1>11, <1>19, <4>1, SlabsAre
    <3> QED
      BY <1>4, <3>1, <3>2, RingKept DEF Ring
  <2>3. usable_slab_list = s \/ Ring(U \ {s}, usable_slab_list)'
    <3>1. usable_slab_list # NULL /\ usable_slab_list \in U
      BY <1>4, <1>19 DEF Ring
    <3> QED
      BY <1>7, <2>1, <3>1 DEF Ring
  <2>4. OnLists(U \ {s}, F)'
    <3>1. (U \ {s}) \union F = (1 .. nslabs) \ {s} /\ (U \ {s}) \intersect F = {}
      BY <1>4, <1>19
    <3> QED
      BY <1>4, <1>7, <1>9, <1>10, <1>16, <1>17, <2>2, <2>3, <3>1 DEF OnLists
  <2> QED
    BY <2>4
<1>20. \E V, G \in SUBSET (1 .. nslabs) : OnLists(V, G)'
  <2>1. CASE s \in F
    <3>1. F \ {s} \in SUBSET (1 .. nslabs)
      BY <1>3
    <3> QED
      BY <1>3, <1>18, <2>1, <3>1
  <2>2. CASE s \in U
    <3>1. U \ {s} \in SUBSET (1 .. nslabs)
      BY <1>3
    <3> QED
      BY <1>3, <1>19, <2>2, <3>1
  <2> QED
    BY <1>2, <1>4, <2>1, <2>2
<1>21. Walks'
  <2>1. Walks
    BY <1>1, <1>2 DEF Rings
  <2> QED
    BY <1>0, <1>2, <1>7, <1>9, <1>10, <2>1 DEF Walks
<1>22. Rings'
  BY <1>7, <1>20, <1>21 DEF Rings
<1>23. Causes'
  BY <1>7 DEF Causes, FaultCauses
<1> QED
  BY <1>12, <1>13, <1>14, <1>15, <1>22, <1>23 DEF SlabInv

LEMMA ReuseStep ==
  ASSUME SlabInv, ~fault, NEW c \in CPU, Calm, Reuse(c), UNCHANGED own
  PROVE  SlabInv'
<1> USE DEF lists, pool, history
<1>0. PICK s : s = cpu[c].slab
  OBVIOUS
<1> DEFINE h == usable_slab_list
           l == slab_add_to(s, h)
<1>1. Shape /\ Calls /\ LockGuards /\ ReadsHold /\ Conserved /\ Rings
  BY DEF SlabInv
<1>2. /\ cpu[c].pc = "reuse" /\ s \in 1 .. nslabs /\ s \in Slab
      /\ WithFree /\ NCPU = 1 /\ c = 0 /\ CPU = {0}
  <2>1. cpu[c].pc = "reuse" /\ s \in 1 .. nslabs /\ WithFree
    BY <1>0, <1>1 DEF Reuse, Calls
  <2> QED
    BY <1>1, <2>1, SlabsAre, Numbers DEF Calm
<1>3. PICK U \in SUBSET (1 .. nslabs), F \in SUBSET (1 .. nslabs) : OnLists(U, F)
  BY <1>1, <1>2 DEF Rings
<1>4. /\ Moving = {s} /\ Ring(F, full_slab_list) /\ (Ring(U, h) \/ h = s)
      /\ next[s] = NULL /\ prev[s] = NULL /\ h # NULL /\ free_count[s] = 1
      /\ U \intersect F = {} /\ U \union F = (1 .. nslabs) \ {s} /\ \A t \in F : lock[t] # NoCPU
  <2>1. Moving = {s}
    BY <1>0, <1>2 DEF Moving
  <2>2. h # NULL /\ free_count[s] = 1
    BY <1>0, <1>1, <1>2 DEF Rings, Walks
  <2> QED
    BY <1>0, <1>2, <1>3, <2>1, <2>2 DEF OnLists
<1>5. ASSUME Ring(U, h) PROVE h \in U /\ prev[h] \in U /\ Cycle(U, next, prev)
  BY <1>4, <1>5 DEF Ring, Cycle
<1>6. CASE AddFaults(h)
  <2>1. h = s
    <3> SUFFICES ASSUME Ring(U, h) PROVE FALSE
      BY <1>4
    <3>1. prev[h] \in 1 .. nslabs
      BY <1>3, <1>5
    <3> QED
      BY <1>1, <1>6, <3>1, SlabsAre DEF AddFaults
  <2>2. Fault
    BY <1>6 DEF Reuse
  <2>3. /\ cpu[c].pc = "reuse" /\ usable_slab_list = cpu[c].slab
        /\ free_count[cpu[c].slab] = 1
    BY <1>0, <1>2, <1>4, <2>1
  <2> QED
    BY <2>2, <2>3, FaultStep
<1>7. CASE ~AddFaults(h)
  <2>1. /\ next' = l.next /\ prev' = l.prev /\ usable_slab_list' = l.head
        /\ cpu' = [cpu EXCEPT ![c] = IdleCPU]
        /\ UNCHANGED <<full_slab_list, free_objs, free_count>>
        /\ UNCHANGED <<lock, mags, nslabs, fault, held, short, own>>
    BY <1>0, <1>7 DEF Reuse, SetLinks
  <2>2. cpu' \in [CPU -> CpuType] /\ cpu'[0] = IdleCPU /\ IdleCPU.pc = "idle"
    BY <1>1, <1>2, <2>1, IdleTyped, CpuGoes
  <2>3. Ring(U, h) /\ h # s
    BY <1>4, <1>7 DEF AddFaults
  <2>4. h \in U /\ prev[h] \in U /\ Cycle(U, next, prev)
    BY <1>5, <2>3
  <2>5. /\ next' \in [Slab -> 0 .. nslabs] /\ prev' \in [Slab -> 0 .. nslabs] /\ usable_slab_list' = h
        /\ \A t \in Slab : next'[t] = IF t = prev[h] THEN s ELSE IF t = s THEN h ELSE next[t]
        /\ \A t \in Slab : prev'[t] = IF t = h THEN s ELSE IF t = s THEN prev[h] ELSE prev[t]
    <3>1. h \in 0 .. nslabs /\ nslabs \in Nat /\ s <= nslabs /\ nslabs <= nslabs /\ ~AddFaults(h)
      BY <1>1, <1>2, <1>7, SlabsAre DEF Shape
    <3> HIDE DEF l, h
    <3>2. /\ l.next \in [Slab -> 0 .. nslabs] /\ l.prev \in [Slab -> 0 .. nslabs]
          /\ h # NULL =>
               /\ \A t \in Slab : l.next[t] = IF t = prev[h] THEN s ELSE IF t = s THEN h ELSE next[t]
               /\ \A t \in Slab : l.prev[t] = IF t = h THEN s ELSE IF t = s THEN prev[h] ELSE prev[t]
               /\ l.head = h
      BY <1>1, <1>2, <3>1, AddIs DEF l
    <3> QED
      BY <1>4, <2>1, <3>2
  <2>6. U \in SUBSET Slab /\ F \in SUBSET Slab /\ s \in Slab \ U /\ s \notin F /\ h \in 0 .. nslabs
    BY <1>1, <1>2, <1>3, <1>4, SlabsAre DEF Shape
  <2>7. Shape'
    <3>1. ASSUME NEW t \in Slab, t > nslabs PROVE next'[t] = NULL /\ prev'[t] = NULL
      <4>1. t \notin 1 .. nslabs
        BY <1>1, <3>1, SlabsAre
      <4>2. t # s /\ t # h /\ t # prev[h]
        BY <1>2, <1>3, <2>4, <4>1
      <4> QED
        BY <1>1, <2>5, <3>1, <4>2 DEF Shape
    <3> QED
      BY <1>1, <2>1, <2>2, <2>5, <2>6, <3>1 DEF Shape, AllObjects
  <2>8. Calls'
    BY <1>2, <2>2 DEF Calls, Refilling
  <2>9. LockGuards' /\ ReadsHold'
    BY <1>2, <2>2 DEF LockGuards, OneSlab, ReadsHold
  <2>10. Conserved'
    BY <1>1, <2>1, OnceKept
  <2>11. Cycle(U \union {s}, next', prev')
    <3> HIDE DEF h
    <3> QED
      BY <2>4, <2>5, <2>6, CycleAdd
  <2>12. Ring(U \union {s}, usable_slab_list)'
    BY <1>4, <2>4, <2>5, <2>11 DEF Ring
  <2>13. Ring(F, full_slab_list)'
    <3>1. \A t \in F : next'[t] = next[t] /\ prev'[t] = prev[t]
      BY <1>4, <2>4, <2>5, <2>6
    <3> QED
      BY <1>4, <2>1, <3>1, RingKept DEF Ring
  <2>14. OnLists(U \union {s}, F)'
    <3>1. Moving' = {}
      BY <2>2 DEF Moving
    <3>2. (U \union {s}) \union F = (1 .. nslabs) \ {} /\ (U \union {s}) \intersect F = {}
      BY <1>2, <1>4, <2>6
    <3> QED
      BY <1>4, <2>1, <2>2, <2>12, <2>13, <3>1, <3>2 DEF OnLists
  <2>15. Walks'
    BY <1>4, <2>2, <2>5 DEF Walks
  <2>16. Rings'
    <3>1. U \union {s} \in SUBSET (1 .. nslabs)
      BY <1>2, <1>3
    <3> QED
      BY <1>3, <2>1, <2>14, <2>15, <3>1 DEF Rings
  <2>17. Causes'
    BY <2>1 DEF Causes, FaultCauses
  <2> QED
    BY <2>7, <2>8, <2>9, <2>10, <2>16, <2>17 DEF SlabInv
<1> QED
  BY <1>6, <1>7

(* The invariant is one. *)
LEMMA InvStep ==
  ASSUME SlabInv, Calm, [Next]_vars
  PROVE  SlabInv'
<1>1. CASE UNCHANGED vars
  <2> USE DEF vars, lists, pool, history
  <2>1. Shape'
    BY <1>1 DEF SlabInv, Shape, AllObjects
  <2>2. Calls'
    BY <1>1 DEF SlabInv, Calls
  <2>3. LockGuards' /\ ReadsHold' /\ Rings'
    BY <1>1, AllKept DEF SlabInv
  <2>4. Conserved'
    BY <1>1, OnceKept DEF SlabInv
  <2>5. Causes'
    BY <1>1 DEF SlabInv, Causes, FaultCauses
  <2> QED
    BY <2>1, <2>2, <2>3, <2>4, <2>5 DEF SlabInv
<1>2. ASSUME ~fault, UNCHANGED own, NEW c \in CPU, Begin(c) PROVE SlabInv'
  <2>1. ASSUME WithFree, NEW o \in held, FreeToMagazine(c, o) \/ FreeToSlab(c, o) PROVE SlabInv'
    <3>1. NCPU = 1
      BY <2>1 DEF Calm
    <3> QED
      BY <1>2, <2>1, <3>1, FreeToMagazineStep, FreeToSlabStep
  <2> QED
    BY <1>2, <2>1, AllocRoundStep, slab_allocStep DEF Begin
<1>3. ASSUME ~fault, UNCHANGED own, NEW c \in CPU, Continue(c) PROVE SlabInv'
  BY <1>3, AcquireStep, LoadFullStep, LoadRestStep, RemoveStep, RetireStep, NextUsableStep,
     slab_create_slabStep, ReloadStep, UnretireStep, ReuseStep DEF Continue
<1> QED
  BY <1>1, <1>2, <1>3 DEF Next

LEMMA Invariance == ASSUME Calm PROVE Spec => []SlabInv
<1>1. SlabInv /\ [Next]_vars => SlabInv'
  BY InvStep
<1> QED
  BY <1>1, InvInit, PTL DEF Spec

----------------------------------------------------------------------------
(* With one CPU, whatever callers allocate and free, every object is in    *)
(* one place until a refill finds some objects in a slab but too few: the  *)
(* magazine, the pool of the slab and the callers never share one and none *)
(* is lost (slab_alloc, slab_free, slab_load_mag).                         *)
THEOREM ExclusiveOnOneCPU == ASSUME NCPU = 1 PROVE Spec => []ExclusiveUnlessShort
<1>1. Spec => []SlabInv
  BY Invariance DEF Calm
<1>2. SlabInv => ExclusiveUnlessShort
  <2> SUFFICES ASSUME SlabInv, ~short PROVE EveryObjectOnce
    BY DEF ExclusiveUnlessShort
  <2>1. Shape /\ Once
    BY DEF SlabInv, Conserved, Alone
  <2> QED
    BY <2>1, OnceCounts
<1> QED
  BY <1>1, <1>2, PTL

LEMMA ListsFromInv == ASSUME NCPU = 1, SlabInv PROVE ListsWellFormed
<1> SUFFICES ASSUME \A c \in CPU : cpu[c].pc = "idle"
             PROVE  /\ TypeOK
                    /\ \A s \in Reachable(full_slab_list) : lock[s] # NoCPU
                    /\ Reachable(usable_slab_list) \union Reachable(full_slab_list) = 1 .. nslabs
                    /\ Reachable(usable_slab_list) \intersect Reachable(full_slab_list) = {}
                    /\ usable_slab_list # NULL
                    /\ \A s \in 1 .. nslabs : next[s] # NULL /\ prev[next[s]] = s
  BY DEF ListsWellFormed
<1>1. Shape /\ Rings /\ cpu[0].pc = "idle"
  BY Numbers DEF SlabInv
<1>2. /\ nslabs \in Nat /\ MaxSlabs \in Nat /\ 1 .. nslabs \subseteq Slab /\ 0 .. nslabs \subseteq Slab \union {NULL}
      /\ NULL \notin 1 .. nslabs
  BY <1>1, SlabsAre
<1>3. TypeOK
  <2>1. ((1 .. nslabs) \X Index) \union {Junk} \subseteq Object \union {Junk}
    BY <1>2 DEF Object
  <2>2. usable_slab_list \in Slab \union {NULL} /\ full_slab_list \in Slab \union {NULL}
    BY <1>1, <1>2 DEF Shape
  <2>3. next \in [Slab -> Slab \union {NULL}] /\ prev \in [Slab -> Slab \union {NULL}]
    BY <1>1, <1>2 DEF Shape
  <2>4. ASSUME NEW c \in CPU
        PROVE  /\ mags[c].count \in 0 .. objs_per_mag
               /\ mags[c].objects \in [1 .. objs_per_mag -> Object \union {Junk}]
    <3>1. mags[c].count \in 0 .. objs_per_mag
          /\ mags[c].objects \in [1 .. objs_per_mag -> ((1 .. nslabs) \X Index) \union {Junk}]
      BY <1>1 DEF Shape, MagType
    <3> QED
      BY <2>1, <3>1
  <2>5. held \subseteq Object \union {Junk}
    BY <1>1, <2>1 DEF Shape, AllObjects
  <2> QED
    BY <1>1, <2>2, <2>3, <2>4, <2>5 DEF Shape, TypeOK
<1>4. PICK U \in SUBSET (1 .. nslabs), F \in SUBSET (1 .. nslabs) : OnLists(U, F)
  BY <1>1 DEF Rings
<1>5. /\ Ring(U, usable_slab_list) /\ Ring(F, full_slab_list)
      /\ U \intersect F = {} /\ U \union F = 1 .. nslabs /\ \A t \in F : lock[t] # NoCPU
  BY <1>1, <1>4 DEF OnLists, Moving
<1>6. Reachable(usable_slab_list) = U /\ Reachable(full_slab_list) = F
  BY <1>2, <1>5, RingReached
<1>7. usable_slab_list # NULL
  BY <1>1 DEF Rings, Walks
<1>8. ASSUME NEW s \in 1 .. nslabs PROVE next[s] # NULL /\ prev[next[s]] = s
  <2>1. (s \in U => next[s] \in U /\ prev[next[s]] = s) /\ (s \in F => next[s] \in F /\ prev[next[s]] = s)
    BY <1>5 DEF Ring, Cycle
  <2> QED
    BY <1>2, <1>5, <2>1
<1> QED
  BY <1>3, <1>5, <1>6, <1>7, <1>8

(* With one CPU, and between calls, each slab is on one of the two lists,  *)
(* both are circular and doubly linked, and a usable slab is there, however*)
(* many frees have made slabs usable again (slab_remove_from, slab_add_to).*)
THEOREM ListsStayWellFormed == ASSUME NCPU = 1 PROVE Spec => []ListsWellFormed
<1>1. Spec => []SlabInv
  BY Invariance DEF Calm
<1> QED
  BY <1>1, ListsFromInv, PTL

(* With one CPU the kernel dies in the cache for no other reason than the  *)
(* ones that FaultCauses lists.                                            *)
THEOREM DiesForAReason == ASSUME NCPU = 1 PROVE Spec => []FaultCauses
<1>1. Spec => []SlabInv
  BY Invariance DEF Calm
<1>2. SlabInv => FaultCauses
  BY DEF SlabInv, Causes
<1> QED
  BY <1>1, <1>2, PTL

----------------------------------------------------------------------------
(* What a step hands out nobody has. *)
Counted == outstanding \in Int
LEMMA CountInt == Spec => []Counted
<1>1. Init => Counted
  BY DEF Init, Counted
<1>2. Counted /\ [Next]_vars => Counted'
  <2> SUFFICES ASSUME outstanding \in Int, [Next]_vars PROVE outstanding' \in Int
    BY DEF Counted
  <2> USE DEF vars, lists, pool, history
  <2>1. CASE UNCHANGED vars
    BY <2>1
  <2>2. ASSUME NEW c \in CPU, Begin(c) PROVE outstanding' \in Int
    <3>1. CASE AllocRound(c) \/ slab_alloc(c)
      BY <3>1 DEF AllocRound, slab_alloc, HandOut, Fault
    <3>2. ASSUME NEW o \in held, FreeToMagazine(c, o) \/ FreeToSlab(c, o) PROVE outstanding' \in Int
      BY <3>2 DEF FreeToMagazine, FreeToSlab, Fault
    <3> QED
      BY <2>2, <3>1, <3>2 DEF Begin
  <2>3. ASSUME NEW c \in CPU, slab_create_slab(c) PROVE outstanding' \in Int
    <3>1. Cardinality(DescribedBy(c)) \in Nat
      <4>1. IsFiniteSet(DescribedBy(c))
        BY FS_Singleton, FS_EmptySet DEF DescribedBy
      <4> QED
        BY <4>1, FS_CardinalityType
    <3> QED
      BY <2>3, <3>1 DEF slab_create_slab, Fault
  <2>4. ASSUME NEW c \in CPU, Continue(c), ~slab_create_slab(c) PROVE outstanding' \in Int
    <3>1. CASE LoadFull(c) \/ Reload(c)
      <4>1. ASSUME NEW n, LoadAndReturn(c, n) PROVE outstanding' \in Int
        BY <4>1 DEF LoadAndReturn, HandOut, Fault
      <4> QED
        BY <3>1, <4>1 DEF LoadFull, Reload
    <3>2. CASE Acquire(c) \/ LoadRest(c) \/ Remove(c) \/ Retire(c) \/ NextUsable(c) \/ Unretire(c) \/ Reuse(c)
      BY <3>2 DEF Acquire, LoadRest, Remove, Retire, NextUsable, Unretire, Reuse, Fault
    <3> QED
      BY <2>4, <3>1, <3>2 DEF Continue
  <2> QED
    BY <2>1, <2>2, <2>3, <2>4 DEF Next
<1> QED
  BY <1>1, <1>2, PTL DEF Spec

LEMMA OnceApart ==
  ASSUME Shape, Once
  PROVE  /\ \A r \in Rounds : RoundObject(r) \in Object \ held
         /\ \A p \in PoolSlots : PoolObject(p) \in Object \ held
<1>1. AllObjects \subseteq Object
  BY SlabsAre DEF AllObjects, Object
<1> QED
  BY <1>1 DEF Once, InCache

(* A refill that finds enough. *)
LEMMA Refilled ==
  ASSUME SlabInv, Alone, ~short, NEW c \in CPU, cpu[c].pc \in {"load", "reload"},
         mags[c].count = 0, LoadAndReturn(c, objs_per_mag)
  PROVE  \/ UNCHANGED <<held, outstanding, free_count>>
         \/ \E o \in Object \ held, s \in Slab :
              /\ held' = held \union {o} /\ outstanding' = outstanding + 1
              /\ free_count[s] >= objs_per_mag
              /\ free_count' = [free_count EXCEPT ![s] = free_count[s] - objs_per_mag]
<1>0. PICK s : s = cpu[c].slab
  OBVIOUS
<1>1. Shape /\ Once
  BY DEF SlabInv, Conserved
<1>2. /\ s \in 1 .. nslabs /\ s \in Slab /\ cpu[c].free = free_count[s] /\ free_count[s] \in 0 .. total_count
      /\ objs_per_mag \in Nat \ {0} /\ total_count \in Nat
  <2>1. s \in 1 .. nslabs
    BY <1>0 DEF SlabInv, Calls
  <2>2. s \in Slab
    BY <1>1, <2>1, SlabsAre
  <2>3. cpu[c].free = free_count[s]
    BY <1>0 DEF SlabInv, ReadsHold
  <2> QED
    BY <1>1, <2>1, <2>2, <2>3, Numbers DEF Shape
<1>3. Loaded(mags[c], objs_per_mag) = objs_per_mag
  BY <1>2 DEF Loaded
<1>4. CASE objs_per_mag > free_count[s]
  BY <1>2, <1>3, <1>4 DEF LoadAndReturn, Fault, history, pool
<1>5. CASE ~(objs_per_mag > free_count[s])
  <2> DEFINE m == slab_load_mag(mags[c], s, free_count[s], objs_per_mag)
  <2>1. /\ held' = held \union {TopOf(m)} /\ outstanding' = outstanding + 1
        /\ free_count' = [free_count EXCEPT ![s] = free_count[s] - objs_per_mag]
    BY <1>0, <1>2, <1>3, <1>5 DEF LoadAndReturn, HandOut
  <2>2. free_count[s] >= objs_per_mag /\ objs_per_mag \in 0 .. objs_per_mag /\ objs_per_mag \in 1 .. objs_per_mag
        /\ mags[c].count + objs_per_mag <= objs_per_mag /\ mags[c].count + objs_per_mag = objs_per_mag
    BY <1>2, <1>5
  <2>3. /\ m.count = objs_per_mag
        /\ free_count[s] + 1 - objs_per_mag \in Index
        /\ m.objects[objs_per_mag] = <<s, free_objs[s][free_count[s] + 1 - objs_per_mag]>>
    <3>1. HoldsLast(m, s, free_count[s], objs_per_mag)
      BY <1>1, <1>2, <2>2, FullLoad
    <3> HIDE DEF m
    <3> QED
      BY <2>2, <3>1 DEF HoldsLast
  <2> HIDE DEF m
  <2>4. PICK i \in Index : i = free_count[s] + 1 - objs_per_mag
    BY <2>3
  <2>5. <<s, i>> \in PoolSlots /\ PoolObject(<<s, i>>) = TopOf(m)
    <3>1. i <= free_count[s]
      BY <1>2, <2>4
    <3> QED
      BY <1>2, <2>3, <2>4, <3>1 DEF PoolSlots, PoolObject, TopOf
  <2>6. TopOf(m) \in Object \ held
    BY <1>1, <2>5, OnceApart
  <2> QED
    BY <1>2, <2>1, <2>2, <2>6
<1> QED
  BY <1>4, <1>5

LEMMA PoolStep ==
  ASSUME SlabInv, Alone, Calm, ~short, Counted, [Next]_vars
  PROVE  Pool!Next \/ UNCHANGED <<held, outstanding>>
<1> USE DEF vars, lists, pool, history, Counted
<1>1. Shape /\ Calls /\ Once
  BY DEF SlabInv, Conserved
<1>2. ASSUME NEW o \in Object \ held, held' = held \union {o}, outstanding' = outstanding + 1
      PROVE  Pool!Next
  BY <1>2 DEF Pool!Next, Pool!Alloc
<1>3. ASSUME NEW c \in CPU, AllocRound(c) PROVE Pool!Next
  <2>1. PICK r : r = <<c, mags[c].count>>
    OBVIOUS
  <2>2. mags[c].count > 0 /\ mags[c].count \in 0 .. objs_per_mag
    BY <1>1, <1>3 DEF AllocRound, Shape, MagType
  <2>3. r \in Rounds /\ RoundObject(r) = TopOf(mags[c])
    BY <2>1, <2>2, Numbers DEF Rounds, RoundObject, TopOf
  <2>4. TopOf(mags[c]) \in Object \ held
    BY <1>1, <2>3, OnceApart
  <2>5. held' = held \union {TopOf(mags[c])} /\ outstanding' = outstanding + 1
    BY <1>3 DEF AllocRound, HandOut
  <2> QED
    BY <1>2, <2>4, <2>5
<1>4. ASSUME NEW c \in CPU, LoadFull(c) \/ Reload(c) PROVE Pool!Next \/ UNCHANGED <<held, outstanding>>
  <2>1. /\ cpu[c].pc \in {"load", "reload"} /\ mags[c].count = 0 /\ LoadAndReturn(c, objs_per_mag)
    BY <1>1, <1>4 DEF LoadFull, Reload, Calls, Refilling
  <2>2. CASE UNCHANGED <<held, outstanding, free_count>>
    BY <2>2
  <2>3. ASSUME NEW o \in Object \ held, held' = held \union {o}, outstanding' = outstanding + 1 PROVE Pool!Next
    BY <1>2, <2>3
  <2> QED
    BY <2>1, <2>2, <2>3, Refilled
<1>5. ASSUME NEW c \in CPU, slab_create_slab(c) PROVE UNCHANGED <<held, outstanding>>
  <2>1. mags[c].count = 0
    BY <1>1, <1>5 DEF slab_create_slab, Calls, Refilling
  <2>2. CASE own
    BY <1>5, <2>1, <2>2 DEF slab_create_slab, Fault
  <2>3. CASE ~own
    <3>1. DescribedBy(c) = {} /\ Cardinality(DescribedBy(c)) = 0
      BY <2>3, FS_EmptySet DEF DescribedBy
    <3>2. held' = held \union DescribedBy(c) /\ outstanding' = outstanding + Cardinality(DescribedBy(c))
      BY <1>5, <2>3 DEF slab_create_slab
    <3> QED
      BY <3>1, <3>2
  <2> QED
    BY <2>2, <2>3
<1>6. ASSUME NEW o \in held, NEW c \in CPU, FreeToMagazine(c, o) \/ FreeToSlab(c, o)
      PROVE  Pool!Next \/ UNCHANGED <<held, outstanding>>
  <2>1. o \in Object
    BY <1>1, SlabsAre DEF Once, AllObjects, Object
  <2>2. \/ held' = held \ {o} /\ outstanding' = outstanding - 1
        \/ UNCHANGED <<held, outstanding>>
    BY <1>6 DEF FreeToMagazine, FreeToSlab, Fault
  <2> QED
    BY <2>1, <2>2 DEF Pool!Next, Pool!Free
<1>7. ASSUME NEW c \in CPU, Continue(c) PROVE Pool!Next \/ UNCHANGED <<held, outstanding>>
  <2>1. CASE \/ Acquire(c) \/ LoadRest(c) \/ Remove(c) \/ Retire(c) \/ NextUsable(c) \/ Unretire(c) \/ Reuse(c)
    BY <2>1 DEF Acquire, LoadRest, Remove, Retire, NextUsable, Unretire, Reuse, Fault
  <2> QED
    BY <1>4, <1>5, <1>7, <2>1 DEF Continue
<1>8. ASSUME NEW c \in CPU, Begin(c) PROVE Pool!Next \/ UNCHANGED <<held, outstanding>>
  <2>1. ASSUME slab_alloc(c) PROVE UNCHANGED <<held, outstanding>>
    BY <2>1 DEF slab_alloc, Fault
  <2> QED
    BY <1>3, <1>6, <1>8, <2>1 DEF Begin
<1> QED
  BY <1>7, <1>8 DEF Next

(* With one CPU the cache is a pool of objects, frees included, as long as *)
(* no refill has found a slab with some objects but too few.               *)
THEOREM PoolOnOneCPU == ASSUME NCPU = 1 PROVE Spec => [][~short => Pool!Next]_<<held, outstanding>>
<1>1. Spec => []SlabInv
  BY Invariance DEF Calm
<1>2. SlabInv /\ Counted /\ [Next]_vars => [~short => Pool!Next]_<<held, outstanding>>
  BY PoolStep DEF Calm, Alone
<1> QED
  BY <1>1, <1>2, CountInt, PTL DEF Spec

(* Nothing is freed, and there is no second slab yet. *)
LEMMA OneSlabNow == ASSUME Shape, ~WithFree, ~(nslabs > 1) PROVE OneSlab
<1>1. nslabs \in Nat /\ nslabs >= 1
  BY SlabsAre
<1> QED
  BY <1>1 DEF OneSlab

----------------------------------------------------------------------------
(* Any number of CPUs that allocate and do not free, and one slab: the     *)
(* lock of the slab is enough.  Until a second slab is created or a refill *)
(* is short, every object is in one place and every call of slab_alloc     *)
(* gets one that nobody has, however the CPUs interleave.                  *)
THEOREM ExclusiveOnManyCPUs ==
  ASSUME ~WithFree PROVE Spec => [](short \/ nslabs > 1 \/ EveryObjectOnce)
<1> DEFINE P == short \/ nslabs > 1 \/ EveryObjectOnce
<1>1. Spec => []SlabInv
  BY Invariance DEF Calm
<1>2. SlabInv => P
  <2> SUFFICES ASSUME SlabInv, ~short, ~(nslabs > 1) PROVE EveryObjectOnce
    OBVIOUS
  <2>1. Shape /\ Once
    BY OneSlabNow DEF SlabInv, Conserved, Alone
  <2> QED
    BY <2>1, OnceCounts
<1> HIDE DEF P
<1>3. Spec => []P
  BY <1>1, <1>2, PTL
<1> QED
  BY <1>3 DEF P

(* On these conditions each step of any CPU is a step of the pool: the call *)
(* that ends gets an object that no caller has.                            *)
THEOREM PoolOnManyCPUs ==
  ASSUME ~WithFree
  PROVE  Spec => [][~short /\ nslabs = 1 => Pool!Next]_<<held, outstanding>>
<1>1. Spec => []SlabInv
  BY Invariance DEF Calm
<1>2. SlabInv /\ Counted /\ [Next]_vars => [~short /\ nslabs = 1 => Pool!Next]_<<held, outstanding>>
  BY PoolStep DEF Calm, Alone, OneSlab
<1> QED
  BY <1>1, <1>2, CountInt, PTL DEF Spec

----------------------------------------------------------------------------
(* Caches whose slab, after the first magazines, holds whole magazines: no *)
(* refill is ever short.                                                   *)
Fits ==
  /\ ~WithFree /\ LeftFor(NCPU) % objs_per_mag = 0
  /\ NCPU = 1 \/ MaxSlabs = 1

Whole == ~short /\ \A s \in Slab : \E q \in Nat : free_count[s] = objs_per_mag * q

LEMMA Multiples ==
  /\ \A x \in Nat : x % objs_per_mag = 0 => \E q \in Nat : x = objs_per_mag * q
  /\ \A q \in Nat : objs_per_mag * q >= objs_per_mag =>
       q - 1 \in Nat /\ objs_per_mag * q - objs_per_mag = objs_per_mag * (q - 1)
  /\ \A q \in Nat : objs_per_mag * q < objs_per_mag => objs_per_mag * q = 0
  /\ \A q \in Nat : objs_per_mag * q + objs_per_mag = objs_per_mag * (q + 1)
<1> DEFINE M == objs_per_mag
<1>1. M \in Nat \ {0}
  BY Numbers
<1> HIDE DEF M
<1>2. ASSUME NEW x \in Nat, x % M = 0 PROVE \E q \in Nat : x = M * q
  <2>1. x \div M \in Nat /\ x = M * (x \div M)
    BY <1>1, <1>2
  <2> QED
    BY <2>1
<1>3. ASSUME NEW q \in Nat, M * q >= M PROVE q - 1 \in Nat /\ M * q - M = M * (q - 1)
  <2>1. q # 0
    BY ONLY <1>1, <1>3, q \in Nat
  <2>2. q - 1 \in Nat
    BY <2>1
  <2>3. M * q - M = M * (q - 1)
    BY ONLY <1>1, q \in Nat
  <2> QED
    BY <2>2, <2>3
<1>4. ASSUME NEW q \in Nat, M * q < M PROVE M * q = 0
  <2>1. q = 0
    <3> SUFFICES ASSUME q >= 1 PROVE FALSE
      OBVIOUS
    <3>1. M * q >= M * 1
      BY ONLY <1>1, q \in Nat, q >= 1
    <3> QED
      BY <1>1, <1>4, <3>1
  <2> QED
    BY <1>1, <2>1
<1>5. ASSUME NEW q \in Nat PROVE M * q + M = M * (q + 1)
  BY ONLY <1>1, q \in Nat
<1> QED
  BY <1>2, <1>3, <1>4, <1>5 DEF M

LEMMA WholeInit == ASSUME Fits, Init PROVE Whole
<1>1. LeftFor(NCPU) \in Nat /\ 0 = objs_per_mag * 0
  BY Numbers, LeftIs
<1>2. \E q \in Nat : LeftFor(NCPU) = objs_per_mag * q
  BY <1>1, Multiples DEF Fits
<1>3. \E q \in Nat : 0 = objs_per_mag * q
  BY <1>1
<1> QED
  BY <1>2, <1>3 DEF Init, Whole

LEMMA WholeStep == ASSUME Fits, SlabInv, Whole, [Next]_vars PROVE Whole'
<1> USE DEF vars, lists, pool, history
<1>1. Shape /\ Calls /\ ~short /\ Alone /\ ~WithFree
  <2>1. MaxSlabs = 1 => nslabs = 1
    BY DEF SlabInv, Shape, Slab
  <2> QED
    BY <2>1 DEF SlabInv, Whole, Fits, Alone, OneSlab
<1>2. ASSUME UNCHANGED <<free_count, short>> PROVE Whole'
  BY <1>2 DEF Whole
<1>3. free_count \in [Slab -> 0 .. total_count] /\ objs_per_mag \in Nat \ {0} /\ total_count \in Nat
  BY <1>1, Numbers DEF Shape
<1>4. ASSUME NEW c \in CPU, LoadFull(c) \/ Reload(c) PROVE Whole'
  <2>1. /\ cpu[c].pc \in {"load", "reload"} /\ mags[c].count = 0 /\ LoadAndReturn(c, objs_per_mag)
    BY <1>1, <1>4 DEF LoadFull, Reload, Calls, Refilling
  <2>2. short' = short
    BY <2>1 DEF LoadAndReturn, Fault
  <2>3. CASE UNCHANGED free_count
    BY <1>2, <2>2, <2>3
  <2>4. ASSUME NEW s \in Slab, free_count[s] >= objs_per_mag,
               free_count' = [free_count EXCEPT ![s] = free_count[s] - objs_per_mag]
        PROVE  Whole'
    <3>1. PICK q \in Nat : free_count[s] = objs_per_mag * q
      BY DEF Whole
    <3>2. q - 1 \in Nat /\ free_count[s] - objs_per_mag = objs_per_mag * (q - 1)
      BY <2>4, <3>1, Multiples
    <3>3. free_count'[s] = objs_per_mag * (q - 1) /\ \A t \in Slab : t # s => free_count'[t] = free_count[t]
      BY <1>3, <2>4, <3>2
    <3> QED
      BY <2>2, <3>2, <3>3 DEF Whole
  <2> QED
    BY <1>1, <2>1, <2>3, <2>4, Refilled
<1>5. ASSUME NEW c \in CPU, LoadRest(c) PROVE Whole'
  <2>1. PICK s : s = cpu[c].slab
    OBVIOUS
  <2>2. cpu[c].pc = "load" /\ cpu[c].free < objs_per_mag
    BY <1>5 DEF LoadRest
  <2>3. s \in Slab /\ cpu[c].free = free_count[s]
    <3>1. s \in 1 .. nslabs /\ cpu[c].free = free_count[s]
      BY <1>1, <2>1, <2>2 DEF Calls, SlabInv, ReadsHold
    <3> QED
      BY <1>1, <3>1, SlabsAre
  <2>4. free_count[s] = 0
    <3>1. PICK q \in Nat : free_count[s] = objs_per_mag * q
      BY <2>3 DEF Whole
    <3>2. objs_per_mag * q < objs_per_mag
      BY <2>2, <2>3, <3>1
    <3> QED
      BY <3>1, <3>2, Multiples
  <2>5. ~short' /\ free_count' = [free_count EXCEPT ![s] = 0]
    <3>1. cpu[c].free = 0 /\ mags[c].count = 0
      BY <1>1, <2>2, <2>3, <2>4 DEF Calls
    <3>2. cpu[c].free - Loaded(mags[c], cpu[c].free) = 0 /\ ~(cpu[c].free > 0)
      BY <3>1 DEF Loaded
    <3>3. short' = (short \/ cpu[c].free > 0)
      BY <1>5 DEF LoadRest
    <3>4. ~short'
      BY <1>1, <3>2, <3>3, Zenon
    <3>5. free_count' = [free_count EXCEPT ![s] = 0]
      BY <1>5, <2>1, <3>2 DEF LoadRest
    <3> QED
      BY <3>4, <3>5
  <2>6. free_count' = free_count
    BY <1>3, <2>3, <2>4, <2>5
  <2> QED
    BY <2>5, <2>6 DEF Whole
<1>6. ASSUME NEW c \in CPU, slab_create_slab(c) PROVE Whole'
  <2>1. PICK s : s = nslabs + 1
    OBVIOUS
  <2>2. CASE own /\ mags[c].count = 0
    BY <1>2, <1>6, <2>2 DEF slab_create_slab, Fault
  <2>3. CASE ~(own /\ mags[c].count = 0)
    <3>1. nslabs < MaxSlabs /\ short' = short /\ free_count' = [free_count EXCEPT ![s] = total_count]
      BY <1>6, <2>1, <2>3 DEF slab_create_slab
    <3>2. nslabs \in Nat /\ nslabs >= 1 /\ MaxSlabs \in Nat /\ s \in Slab
      BY <1>1, <2>1, <3>1, SlabsAre DEF Slab
    <3>3. NCPU = 1
      BY <3>1, <3>2 DEF Fits
    <3>4. \E q \in Nat : total_count = objs_per_mag * q
      <4>1. total_count - objs_per_mag * 1 >= 0
        BY <1>3, Numbers
      <4>2. LeftFor(1) = total_count - objs_per_mag * 1 /\ LeftFor(1) \in Nat
        BY <4>1, LeftIs, Numbers
      <4>3. PICK q \in Nat : LeftFor(1) = objs_per_mag * q
        BY <3>3, <4>2, Multiples DEF Fits
      <4>4. total_count = objs_per_mag * q + objs_per_mag
        <5>1. total_count = LeftFor(1) + objs_per_mag
          BY <1>3, <4>2
        <5> QED
          BY <4>3, <5>1
      <4> QED
        BY <4>4, Multiples
    <3>5. free_count'[s] = total_count /\ \A t \in Slab : t # s => free_count'[t] = free_count[t]
      BY <1>3, <3>1, <3>2
    <3> QED
      BY <1>1, <3>1, <3>4, <3>5 DEF Whole
  <2> QED
    BY <2>2, <2>3
<1>7. ASSUME NEW c \in CPU, AllocRound(c) \/ slab_alloc(c) PROVE Whole'
  BY <1>2, <1>7 DEF AllocRound, slab_alloc, Fault
<1>8. ASSUME NEW c \in CPU, Acquire(c) \/ Remove(c) \/ Retire(c) \/ NextUsable(c) \/ Unretire(c) \/ Reuse(c)
      PROVE  Whole'
  BY <1>2, <1>8 DEF Acquire, Remove, Retire, NextUsable, Unretire, Reuse, Fault
<1>9. CASE UNCHANGED vars
  BY <1>2, <1>9
<1> QED
  BY <1>1, <1>4, <1>5, <1>6, <1>7, <1>8, <1>9 DEF Next, Begin, Continue

LEMMA NeverShort == ASSUME Fits PROVE Spec => [](SlabInv /\ Whole)
<1>1. Spec => []SlabInv
  BY Invariance DEF Calm, Fits
<1>2. Init => Whole
  BY WholeInit
<1>3. SlabInv /\ Whole /\ [Next]_vars => Whole'
  BY WholeStep
<1> QED
  BY <1>1, <1>2, <1>3, PTL DEF Spec

LEMMA FitsAlone == ASSUME Fits, Shape PROVE Alone
<1>1. MaxSlabs = 1 => nslabs = 1
  BY DEF Shape, Slab
<1> QED
  BY <1>1 DEF Fits, Alone, OneSlab

(* A cache whose slab holds whole magazines, in which nothing is freed, on *)
(* one CPU or with memory for one slab: every object is in exactly one     *)
(* place, always.                                                          *)
THEOREM ExclusiveWhenWhole == ASSUME Fits PROVE Spec => []EveryObjectOnce
<1>1. SlabInv /\ Whole => EveryObjectOnce
  <2> SUFFICES ASSUME SlabInv, Whole PROVE EveryObjectOnce
    OBVIOUS
  <2>1. Shape /\ Once
    BY FitsAlone DEF SlabInv, Whole, Conserved
  <2> QED
    BY <2>1, OnceCounts
<1> QED
  BY <1>1, NeverShort, PTL

(* Such a cache implements a pool of objects: each call of slab_alloc that *)
(* returns gets an object that nobody has, on every CPU and for every      *)
(* interleaving of refills.                                                *)
THEOREM CacheIsObjectPool == ASSUME Fits PROVE Spec => IsObjectPool
<1>1. Init => Pool!Init
  BY DEF Init, Pool!Init
<1>2. SlabInv /\ Whole /\ Counted /\ [Next]_vars => [Pool!Next]_(Pool!vars)
  <2> SUFFICES ASSUME SlabInv, Whole, Counted, [Next]_vars PROVE Pool!Next \/ UNCHANGED <<held, outstanding>>
    BY DEF Pool!vars
  <2>1. Alone /\ Calm /\ ~short
    BY FitsAlone DEF SlabInv, Whole, Fits, Calm
  <2> QED
    BY <2>1, PoolStep
<1> QED
  BY <1>1, <1>2, NeverShort, CountInt, PTL DEF Spec, IsObjectPool, Pool!Spec
=============================================================================
