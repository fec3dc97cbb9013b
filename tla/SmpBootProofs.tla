--------------------------- MODULE SmpBootProofs ---------------------------
(***************************************************************************)
(* Proofs about the start of the other CPUs, for every number of CPUs and  *)
(* every list of them.                                                     *)
(***************************************************************************)
EXTENDS SmpBoot, TLAPS, FiniteSetTheorems, FunctionTheorems

(* The number of bits of n, when a power of two bounds it. *)
LEMMA BitsAre ==
  ASSUME NEW n \in Nat, NEW k \in 0 .. 63, n < 2^k, \A j \in 0 .. k - 1 : n >= 2^j
  PROVE  Bits(n) = k
<1> DEFINE Q(m) == n < 2^m /\ \A j \in 0 .. m - 1 : n >= 2^j
<1>1. ASSUME NEW m \in 0 .. 63, Q(m) PROVE m = k
  <2>1. ASSUME NEW x \in Nat, n < 2^x, n >= 2^x PROVE FALSE
    BY <2>1
  <2>2. CASE m < k
    <3>1. n >= 2^m
      BY <2>2
    <3> QED
      BY <1>1, <2>1, <3>1
  <2>3. CASE k < m
    <3>1. n >= 2^k
      BY <1>1, <2>3
    <3> QED
      BY <2>1, <3>1
  <2> QED
    BY <2>2, <2>3
<1>2. Q(k)
  OBVIOUS
<1> HIDE DEF Q
<1>3. (CHOOSE m \in 0 .. 63 : Q(m)) = k
  BY <1>1, <1>2
<1> QED
  BY <1>3 DEF Bits, Q

(* The size classes: only list_t and list_item_t have the same one. *)
LEMMA BinValues ==
  /\ BinOf("cpu_t") = 3 /\ BinOf("list_t") = 2 /\ BinOf("list_item_t") = 2
  /\ BinOf("timer_t") = 1 /\ Bins = 1 .. 3
  /\ DOMAIN SizeOf = {"cpu_t", "list_t", "list_item_t", "timer_t"}
<1>1. Bits(59) = 6 /\ Bits(19) = 5 /\ Bits(27) = 5 /\ Bits(11) = 4
  <2>1. /\ 2^0 = 1 /\ 2^1 = 2 /\ 2^2 = 4 /\ 2^3 = 8 /\ 2^4 = 16 /\ 2^5 = 32 /\ 2^6 = 64
    OBVIOUS
  <2>2. 11 >= 2^0 /\ 11 >= 2^1 /\ 11 >= 2^2 /\ 11 >= 2^3 /\ 11 < 2^4
    BY <2>1
  <2>3. /\ 19 >= 2^0 /\ 19 >= 2^1 /\ 19 >= 2^2 /\ 19 >= 2^3 /\ 19 >= 2^4 /\ 19 < 2^5
        /\ 27 >= 2^0 /\ 27 >= 2^1 /\ 27 >= 2^2 /\ 27 >= 2^3 /\ 27 >= 2^4 /\ 27 < 2^5
    BY <2>1
  <2>4. /\ 59 >= 2^0 /\ 59 >= 2^1 /\ 59 >= 2^2 /\ 59 >= 2^3 /\ 59 >= 2^4 /\ 59 >= 2^5
        /\ 59 < 2^6
    BY <2>1
  <2>5. Bits(11) = 4
    <3>1. \A j \in 0 .. 4 - 1 : j = 0 \/ j = 1 \/ j = 2 \/ j = 3
      OBVIOUS
    <3>2. \A j \in 0 .. 4 - 1 : 11 >= 2^j
      BY <2>2, <3>1, Zenon
    <3>3. 11 \in Nat /\ 4 \in 0 .. 63
      OBVIOUS
    <3> QED
      BY <2>2, <3>2, <3>3, BitsAre, Zenon
  <2>6. Bits(19) = 5 /\ Bits(27) = 5
    <3>1. \A j \in 0 .. 5 - 1 : j = 0 \/ j = 1 \/ j = 2 \/ j = 3 \/ j = 4
      OBVIOUS
    <3>2. \A j \in 0 .. 5 - 1 : 19 >= 2^j /\ 27 >= 2^j
      BY <2>3, <3>1, Zenon
    <3>3. 19 \in Nat /\ 27 \in Nat /\ 5 \in 0 .. 63
      OBVIOUS
    <3> QED
      BY <2>3, <3>2, <3>3, BitsAre, Zenon
  <2>7. Bits(59) = 6
    <3>1. \A j \in 0 .. 6 - 1 : j = 0 \/ j = 1 \/ j = 2 \/ j = 3 \/ j = 4 \/ j = 5
      OBVIOUS
    <3>2. \A j \in 0 .. 6 - 1 : 59 >= 2^j
      BY <2>4, <3>1, Zenon
    <3>3. 59 \in Nat /\ 6 \in 0 .. 63
      OBVIOUS
    <3> QED
      BY <2>4, <3>2, <3>3, BitsAre, Zenon
  <2> QED
    BY <2>5, <2>6, <2>7
<1>2. /\ SizeOf["cpu_t"] + 4 = 60 /\ SizeOf["list_t"] + 4 = 20
      /\ SizeOf["list_item_t"] + 4 = 28 /\ SizeOf["timer_t"] + 4 = 12
      /\ DOMAIN SizeOf = {"cpu_t", "list_t", "list_item_t", "timer_t"}
  BY DEF SizeOf
<1>3. /\ alloc_get_bin(60) = 3 /\ alloc_get_bin(20) = 2
      /\ alloc_get_bin(28) = 2 /\ alloc_get_bin(12) = 1
  BY <1>1 DEF alloc_get_bin
<1>4. /\ BinOf("cpu_t") = 3 /\ BinOf("list_t") = 2 /\ BinOf("list_item_t") = 2
      /\ BinOf("timer_t") = 1
  BY <1>2, <1>3 DEF BinOf
<1>5. Bins = {BinOf("cpu_t"), BinOf("list_t"), BinOf("list_item_t"), BinOf("timer_t")}
  BY <1>2, Zenon DEF Bins
<1> QED
  BY <1>2, <1>4, <1>5

----------------------------------------------------------------------------
(* The invariant, all CPUs interleaving. *)

(* The bootstrap CPU's place in the boot loader's list. *)
BspAt == CHOOSE k \in DOMAIN cpus : cpus[k] = smp_bsp_id
Bsp   == at[smp_bsp_id]

(* The number of APs before the k-th CPU of the list, and of cpu_t that    *)
(* exist.                                                                  *)
ApsBefore(k) == IF k <= BspAt THEN k - 1 ELSE k - 2
Created == IF Bsp \in {"list_t", "list_item_t", "setup", "calibrate", "ticking", "timer_t"}
           THEN i ELSE i - 1
CpuT(k) == <<3, NoRound - k>>

(* The CPUs that have their timer_t: the magazine has paid for each. *)
Started == {"lock", "load", "store", "unlock", "parked"}
Timed == {c \in CPU : at[c] \in Started \/ (c = smp_bsp_id /\ BspAt < i)}
Timer == {<<1, n>> : n \in 1 .. Rounds}

Machine ==
  /\ Len(cpus) \in 1 .. SMP_MAX_CPU_COUNT /\ cpus \in [1 .. Len(cpus) -> CPU]
  /\ \A j, k \in DOMAIN cpus : cpus[j] = cpus[k] => j = k
  /\ smp_bsp_id \in Ids

(* Where the CPUs are, and which of them the loop has come to. *)
BspPlaces == {"next", "cpu_t", "list_t", "list_item_t", "setup", "calibrate", "ticking",
              "timer_t", "spin", "done"}
ApPlaces  == {"setup", "calibrate", "ticking", "timer_t"} \union Started
Where ==
  /\ at \in [CPU -> Places] /\ i \in 1 .. Len(cpus) + 1
  /\ Bsp \in BspPlaces
  /\ Bsp \in {"cpu_t", "list_t", "list_item_t"} => i <= Len(cpus)
  /\ Bsp \in {"list_t", "list_item_t"} => i # BspAt
  /\ Bsp \in {"setup", "calibrate", "ticking", "timer_t"} => i = BspAt
  /\ Bsp \in {"spin", "done"} => i = Len(cpus) + 1
  /\ \A k \in DOMAIN cpus : k # BspAt => at[cpus[k]] \in (IF k < i THEN ApPlaces ELSE {"off"})
  /\ \A c \in CPU \ Ids : at[c] = "off"

(* What has been allocated, by the counts of the magazines. *)
Magazines ==
  /\ mags \in [Bins -> 0 .. Rounds] /\ count \in [CPU -> 0 .. NoRound]
  /\ mags[3] = Rounds - Created
  /\ mags[2] = Rounds - 2 * ApsBefore(i) - (IF Bsp = "list_item_t" THEN 1 ELSE 0)
  /\ mags[1] + Cardinality(Timed) >= Rounds
  /\ \A c \in CPU :
       /\ at[c] = "timer_t" /\ count[c] # NoRound => count[c] + Cardinality(Timed) >= Rounds
       /\ at[c] = "store" => count[c] = smp_started_count
       /\ at[c] \notin DOMAIN SizeOf \union {"store"} => count[c] = NoRound
  /\ Bsp \in {"cpu_t", "list_t", "list_item_t"} => count[smp_bsp_id] \in {NoRound, mags[BinOf(Bsp)]}

(* What each cpu_t holds. *)
CpuType == [id : CPU, ticks : BOOLEAN, timer : Pointer, list : Pointer, head : Pointer]
Records ==
  /\ memory \in [Object -> CpuType] /\ smp_cpu_vec \in [CPU -> Pointer]
  /\ \A c \in CPU \ Ids : smp_cpu_vec[c] = NULL
  /\ \A k \in DOMAIN cpus : smp_cpu_vec[cpus[k]] = IF k <= Created THEN CpuT(k) ELSE NULL
  /\ \A k \in 1 .. Created :
       /\ memory[CpuT(k)].list = IF k # BspAt /\ (k < i \/ Bsp = "list_item_t")
                                 THEN <<2, Rounds - 2 * ApsBefore(k)>> ELSE NULL
       /\ memory[CpuT(k)].head = IF k # BspAt /\ k < i
                                 THEN <<2, Rounds - 2 * ApsBefore(k) - 1>> ELSE NULL
       /\ memory[CpuT(k)].timer \in Timer \union {NULL}

(* How far each CPU has set itself up. *)
SetUpSoFar ==
  \A k \in 1 .. Created :
    /\ at[cpus[k]] \in {"calibrate", "ticking", "timer_t"} \/ cpus[k] \in Timed
         => memory[CpuT(k)].id = cpus[k]
    /\ at[cpus[k]] = "timer_t" \/ cpus[k] \in Timed => memory[CpuT(k)].ticks
    /\ cpus[k] \in Timed => memory[CpuT(k)].timer # NULL

(* smp_lock excludes, and smp_started_count is counted under it. *)
Locked ==
  /\ smp_lock \subseteq CPU /\ \A c, d \in smp_lock : c = d
  /\ \A c \in CPU : at[c] \in {"load", "store", "unlock"} => c \in smp_lock
  /\ CountIsStarted

(* The wait for CPU 0's interrupt, and for the APs. *)
Waited ==
  /\ waiting \subseteq {c \in CPU : at[c] = "ticking"}
  /\ Bsp = "timer_t" \/ (Bsp = "ticking" /\ smp_bsp_id \notin waiting) \/ BspAt < i => TicksArrive
  /\ smp_enabled \in BOOLEAN /\ (smp_enabled => Bsp = "done" /\ smp_started_count >= Len(cpus))

SmpInv == Machine /\ Where /\ Magazines /\ Records /\ SetUpSoFar /\ Locked /\ Waited

(* The list of CPUs names the bootstrap CPU once. *)
LEMMA MachineIs ==
  ASSUME Machine
  PROVE  /\ Len(cpus) \in Nat /\ 1 <= Len(cpus) /\ Len(cpus) <= SMP_MAX_CPU_COUNT
         /\ DOMAIN cpus = 1 .. Len(cpus)
         /\ BspAt \in 1 .. Len(cpus) /\ cpus[BspAt] = smp_bsp_id /\ smp_bsp_id \in CPU
         /\ \A k \in 1 .. Len(cpus) : cpus[k] \in CPU /\ (cpus[k] = smp_bsp_id => k = BspAt)
         /\ \A j, k \in 1 .. Len(cpus) : cpus[j] = cpus[k] => j = k
         /\ \A c \in Ids : \E k \in 1 .. Len(cpus) : cpus[k] = c
         /\ Ids \subseteq CPU
<1>1. Len(cpus) \in Nat /\ 1 <= Len(cpus) /\ Len(cpus) <= SMP_MAX_CPU_COUNT
  BY SmpAssumption DEF Machine
<1>2. DOMAIN cpus = 1 .. Len(cpus) /\ \A k \in 1 .. Len(cpus) : cpus[k] \in CPU
  BY DEF Machine
<1>3. \E k \in DOMAIN cpus : cpus[k] = smp_bsp_id
  BY DEF Machine, Ids
<1>4. BspAt \in DOMAIN cpus /\ cpus[BspAt] = smp_bsp_id
  BY <1>3 DEF BspAt
<1> HIDE DEF BspAt
<1> QED
  BY <1>1, <1>2, <1>4 DEF Machine, Ids

(* It stays as it is. *)
LEMMA MachineKept ==
  ASSUME Machine, UNCHANGED machine
  PROVE  /\ Machine' /\ UNCHANGED <<cpus, smp_bsp_id>>
         /\ BspAt' = BspAt /\ Ids' = Ids /\ AP' = AP /\ \A k : ApsBefore(k)' = ApsBefore(k)
BY DEF machine, Machine, Ids, AP, BspAt, ApsBefore

(* The numbers of the magazines' objects. *)
LEMMA Numbers ==
  ASSUME Machine
  PROVE  /\ Rounds \in Nat /\ NoRound = Rounds + 1 /\ SMP_MAX_CPU_COUNT \in Nat
         /\ Rounds >= 2 * SMP_MAX_CPU_COUNT /\ SMP_MAX_CPU_COUNT > 0
         /\ \A k \in 1 .. Len(cpus) : CpuT(k) \in Object /\ CpuT(k) # NULL
         /\ \A j, k \in 1 .. Len(cpus) : CpuT(j) = CpuT(k) => j = k
         /\ \A k \in 1 .. Len(cpus) + 1 : ApsBefore(k) \in Int /\ ApsBefore(k) <= k - 1 /\ ApsBefore(k) >= 0
         /\ \A o \in Object : o # NULL
<1>1. /\ Rounds \in Nat /\ NoRound = Rounds + 1 /\ SMP_MAX_CPU_COUNT \in Nat
      /\ Rounds >= 2 * SMP_MAX_CPU_COUNT /\ SMP_MAX_CPU_COUNT > 0
  BY SmpAssumption DEF NoRound
<1>2. \A k \in 1 .. Len(cpus) : NoRound - k \in 1 .. Rounds
  BY <1>1, MachineIs
<1>3. \A k \in 1 .. Len(cpus) : CpuT(k) \in Object /\ CpuT(k) # NULL
  BY <1>2, BinValues DEF CpuT, Object, NULL
<1>4. \A j, k \in 1 .. Len(cpus) : CpuT(j) = CpuT(k) => j = k
  BY <1>1, MachineIs DEF CpuT
<1>5. \A k \in 1 .. Len(cpus) + 1 : ApsBefore(k) \in Int /\ ApsBefore(k) <= k - 1 /\ ApsBefore(k) >= 0
  BY MachineIs DEF ApsBefore
<1>6. \A o \in Object : o # NULL
  BY BinValues DEF Object, NULL
<1> QED
  BY <1>1, <1>3, <1>4, <1>5, <1>6

(* There are finitely many CPUs, and one AP less than the list is long.    *)
LEMMA FewCpus ==
  ASSUME Machine
  PROVE  /\ IsFiniteSet(CPU) /\ Cardinality(CPU) = SMP_MAX_CPU_COUNT
         /\ IsFiniteSet(AP) /\ Cardinality(AP) = Len(cpus) - 1
<1>1. IsFiniteSet(CPU) /\ Cardinality(CPU) = SMP_MAX_CPU_COUNT
  BY SmpAssumption, FS_Interval DEF CPU
<1>2. IsFiniteSet(1 .. Len(cpus)) /\ Cardinality(1 .. Len(cpus)) = Len(cpus)
  BY MachineIs, FS_Interval
<1>3. ExistsBijection(1 .. Len(cpus), Ids)
  <2>1. cpus \in [1 .. Len(cpus) -> Ids]
    BY MachineIs DEF Machine, Ids
  <2>2. \A j, k \in 1 .. Len(cpus) : cpus[j] = cpus[k] => j = k
    BY MachineIs
  <2>3. \A c \in Ids : \E k \in 1 .. Len(cpus) : cpus[k] = c
    BY MachineIs
  <2>4. cpus \in Bijection(1 .. Len(cpus), Ids)
    BY <2>1, <2>2, <2>3, Fun_IsBij
  <2> QED
    BY <2>4 DEF ExistsBijection
<1>4. IsFiniteSet(Ids) /\ Cardinality(Ids) = Len(cpus)
  BY <1>2, <1>3, FS_Bijection
<1>5. smp_bsp_id \in Ids
  BY DEF Machine
<1> QED
  BY <1>1, <1>4, <1>5, FS_RemoveElement DEF AP

(* The CPUs that have a timer are CPUs. *)
LEMMA TimedSize ==
  ASSUME Machine
  PROVE  /\ Timed \subseteq CPU /\ IsFiniteSet(Timed) /\ Cardinality(Timed) \in Nat
         /\ \A c \in CPU \ Timed :
              /\ Cardinality(Timed) <= SMP_MAX_CPU_COUNT - 1
              /\ Cardinality(Timed \union {c}) = Cardinality(Timed) + 1
<1>1. Timed \subseteq CPU /\ IsFiniteSet(Timed) /\ Cardinality(Timed) \in Nat
  BY FewCpus, FS_Subset, FS_CardinalityType DEF Timed
<1>2. ASSUME NEW c \in CPU \ Timed
      PROVE  /\ Cardinality(Timed) <= SMP_MAX_CPU_COUNT - 1
             /\ Cardinality(Timed \union {c}) = Cardinality(Timed) + 1
  <2>1. Cardinality(Timed \union {c}) = Cardinality(Timed) + 1
    BY <1>1, FS_AddElement
  <2>2. Timed \union {c} \subseteq CPU
    BY <1>1
  <2>3. Cardinality(Timed \union {c}) <= SMP_MAX_CPU_COUNT
    BY <2>2, FewCpus, FS_Subset
  <2> QED
    BY <1>1, <2>1, <2>3, SmpAssumption
<1> QED
  BY <1>1, <1>2

(* A CPU that sets itself up has a cpu_t. *)
LEMMA OwnCpuT ==
  ASSUME Machine, Where, Records, NEW c \in CPU, at[c] \in ApPlaces
  PROVE  \E k \in 1 .. Created :
           /\ k \in 1 .. Len(cpus) /\ cpus[k] = c /\ smp_cpu_vec[c] = CpuT(k)
           /\ k = BspAt => k = i
           /\ k # BspAt => k < i
<1>1. at[c] # "off"
  BY DEF ApPlaces, Started
<1>2. c \in Ids
  BY <1>1 DEF Where
<1>3. PICK k \in 1 .. Len(cpus) : cpus[k] = c
  BY <1>2, MachineIs
<1>4. i \in Nat /\ Created \in {i - 1, i}
  BY MachineIs DEF Where, Created
<1>5. CASE k = BspAt
  <2>1. Bsp \in {"setup", "calibrate", "ticking", "timer_t"}
    BY <1>3, <1>5, MachineIs DEF Where, Bsp, BspPlaces, ApPlaces, Started
  <2>2. k = i /\ Created = i
    BY <1>5, <2>1 DEF Where, Created
  <2> QED
    BY <1>3, <1>5, <2>2, MachineIs DEF Records
<1>6. CASE k # BspAt
  <2>1. k < i
    BY <1>1, <1>3, <1>6, MachineIs DEF Where
  <2>2. k \in 1 .. Created
    BY <1>3, <1>4, <2>1
  <2> QED
    BY <1>3, <1>6, <2>1, <2>2, MachineIs DEF Records
<1> QED
  BY <1>5, <1>6

(* What a step to another place changes. *)
LEMMA Goes ==
  ASSUME Machine, Where, NEW c \in CPU, NEW to \in Places, Go(c, to)
  PROVE  /\ at' \in [CPU -> Places] /\ at'[c] = to /\ \A d \in CPU : d # c => at'[d] = at[d]
BY DEF Where, Go

(* What Records says stays true while the cpu_t stay as they are. *)
LEMMA RecordsKept ==
  ASSUME Machine, Records, UNCHANGED <<machine, i, smp_cpu_vec, memory>>, Created' = Created,
         Bsp' = "list_item_t" <=> Bsp = "list_item_t"
  PROVE  Records'
BY MachineKept DEF Records, CpuT

(* The steps of arch_setup_bsp and arch_start_cpu that allocate nothing.   *)
LEMMA SetupMoves ==
  ASSUME SmpInv, UNCHANGED <<machine, i, heap, smp_lock, smp_started_count, smp_enabled>>,
         NEW c \in CPU, NEW to \in {"calibrate", "ticking", "timer_t"},
         at[c] \in {"setup", "calibrate", "ticking"}, Go(c, to)
  PROVE  /\ Machine' /\ Where' /\ Magazines' /\ Locked'
         /\ Created' = Created /\ Timed' = Timed
         /\ Bsp' = "list_item_t" <=> Bsp = "list_item_t"
<1> USE DEF SmpInv
<1>1. /\ Machine' /\ UNCHANGED <<cpus, smp_bsp_id, mags, count>>
      /\ BspAt' = BspAt /\ Ids' = Ids /\ AP' = AP /\ \A k : ApsBefore(k)' = ApsBefore(k)
  BY MachineKept DEF heap
<1>2. at' \in [CPU -> Places] /\ at'[c] = to /\ \A d \in CPU : d # c => at'[d] = at[d]
  BY Goes, BinValues DEF Places
<1>3. smp_bsp_id \in CPU
  BY MachineIs
<1>4. \/ Bsp' = Bsp
      \/ /\ Bsp \in {"setup", "calibrate", "ticking"} /\ Bsp' \in {"calibrate", "ticking", "timer_t"}
  BY <1>1, <1>2, <1>3 DEF Bsp
<1>5. Created' = Created
  BY <1>4 DEF Created
<1>6. Timed' = Timed
  BY <1>1, <1>2 DEF Timed, Started
<1>7. Where'
  <2>1. Bsp' \in BspPlaces
    BY <1>4 DEF Where, BspPlaces
  <2>2. ASSUME NEW k \in DOMAIN cpus, k # BspAt
        PROVE  at'[cpus[k]] \in (IF k < i THEN ApPlaces ELSE {"off"})
    BY <1>2, <2>2, MachineIs DEF Where, ApPlaces
  <2>3. \A d \in CPU \ Ids : at'[d] = "off"
    BY <1>2 DEF Where
  <2> QED
    BY <1>1, <1>2, <1>4, <2>1, <2>2, <2>3 DEF Where
<1>8. Magazines'
  BY <1>1, <1>2, <1>4, <1>5, <1>6 DEF Magazines, SizeOf
<1>9. Locked'
  <2>1. {d \in AP : at'[d] \in {"unlock", "parked"}} = {d \in AP : at[d] \in {"unlock", "parked"}}
    BY <1>2, MachineIs DEF AP
  <2> QED
    BY <1>1, <1>2, <2>1 DEF Locked, CountIsStarted
<1> QED
  BY <1>1, <1>4, <1>5, <1>6, <1>7, <1>8, <1>9

(* A CPU notes its id. *)
LEMMA SetUpStep ==
  ASSUME SmpInv, NEW c \in CPU, SetUp(c)
  PROVE  SmpInv'
<1> USE DEF SmpInv
<1>1. /\ at[c] = "setup" /\ Go(c, "calibrate")
      /\ memory' = [memory EXCEPT ![smp_cpu_vec[c]].id = c]
      /\ UNCHANGED <<machine, i, heap, smp_lock, smp_started_count, smp_enabled>>
      /\ UNCHANGED <<smp_cpu_vec, waiting>>
  BY DEF SetUp, Outside
<1>2. /\ Machine' /\ Where' /\ Magazines' /\ Locked' /\ Created' = Created /\ Timed' = Timed
      /\ Bsp' = "list_item_t" <=> Bsp = "list_item_t"
  BY <1>1, SetupMoves
<1>3. /\ UNCHANGED <<cpus, smp_bsp_id>>
      /\ BspAt' = BspAt /\ Ids' = Ids /\ \A k : ApsBefore(k)' = ApsBefore(k)
  BY <1>1, MachineKept
<1>4. at' \in [CPU -> Places] /\ at'[c] = "calibrate" /\ \A d \in CPU : d # c => at'[d] = at[d]
  BY <1>1, Goes DEF Places
<1>5. PICK k \in 1 .. Created : k \in 1 .. Len(cpus) /\ cpus[k] = c /\ smp_cpu_vec[c] = CpuT(k)
  BY <1>1, OwnCpuT DEF ApPlaces
<1>6. /\ memory' \in [Object -> CpuType] /\ memory'[CpuT(k)].id = c
      /\ \A o \in Object : o # CpuT(k) => memory'[o] = memory[o]
      /\ \A o \in Object : /\ memory'[o].ticks = memory[o].ticks /\ memory'[o].timer = memory[o].timer
                           /\ memory'[o].list = memory[o].list /\ memory'[o].head = memory[o].head
  <2> DEFINE o == CpuT(k)
             r == [memory[o] EXCEPT !.id = c]
  <2>1. o \in Object /\ memory \in [Object -> CpuType] /\ memory[o] \in CpuType
    BY <1>5, Numbers DEF Records
  <2>2. memory' = [memory EXCEPT ![o] = r]
    BY <1>1, <1>5
  <2>3. /\ r \in CpuType /\ r.id = c /\ r.ticks = memory[o].ticks /\ r.timer = memory[o].timer
        /\ r.list = memory[o].list /\ r.head = memory[o].head
    BY <2>1 DEF CpuType
  <2> HIDE DEF o, r
  <2>4. memory' \in [Object -> CpuType] /\ memory'[o] = r /\ \A p \in Object : p # o => memory'[p] = memory[p]
    BY <2>1, <2>2, <2>3
  <2> QED
    BY <2>1, <2>3, <2>4 DEF o
<1>7. \A j \in 1 .. Created : j \in 1 .. Len(cpus) /\ CpuT(j) \in Object /\ CpuT(j)' = CpuT(j)
  BY Numbers, MachineIs DEF Where, Created, CpuT
<1>8. Records'
  <2>1. \A j \in 1 .. Created :
          /\ memory'[CpuT(j)].list = memory[CpuT(j)].list
          /\ memory'[CpuT(j)].head = memory[CpuT(j)].head
          /\ memory'[CpuT(j)].timer = memory[CpuT(j)].timer
    BY <1>6, <1>7
  <2> QED
    BY <1>1, <1>2, <1>3, <1>6, <1>7, <2>1 DEF Records
<1>9. SetUpSoFar'
  BY <1>1, <1>2, <1>3, <1>4, <1>5, <1>6, <1>7, MachineIs, Numbers DEF SetUpSoFar
<1>10. Waited'
  BY <1>1, <1>3, <1>4, MachineIs DEF Waited, Bsp, TicksArrive
<1> QED
  BY <1>2, <1>8, <1>9, <1>10

(* A CPU starts to wait for a tick. *)
LEMMA PitWaitStep ==
  ASSUME SmpInv, NEW c \in CPU, pit_wait(c)
  PROVE  SmpInv'
<1> USE DEF SmpInv
<1>1. /\ at[c] = "calibrate" /\ Go(c, "ticking") /\ waiting' = waiting \union {c}
      /\ UNCHANGED <<machine, i, heap, smp_lock, smp_started_count, smp_enabled>>
      /\ UNCHANGED <<smp_cpu_vec, memory>>
  BY DEF pit_wait
<1>2. /\ Machine' /\ Where' /\ Magazines' /\ Locked' /\ Created' = Created /\ Timed' = Timed
      /\ Bsp' = "list_item_t" <=> Bsp = "list_item_t"
  BY <1>1, SetupMoves
<1>3. UNCHANGED <<cpus, smp_bsp_id>> /\ BspAt' = BspAt
  BY <1>1, MachineKept
<1>4. at' \in [CPU -> Places] /\ at'[c] = "ticking" /\ \A d \in CPU : d # c => at'[d] = at[d]
  BY <1>1, Goes DEF Places
<1>5. Records'
  BY <1>1, <1>2, RecordsKept
<1>6. SetUpSoFar'
  <2>1. \A j \in 1 .. Created : cpus[j] \in CPU /\ CpuT(j)' = CpuT(j)
    BY MachineIs DEF Where, Created, CpuT
  <2> QED
    BY <1>1, <1>2, <1>3, <1>4, <2>1 DEF SetUpSoFar
<1>7. Waited'
  BY <1>1, <1>3, <1>4, MachineIs DEF Waited, Bsp, TicksArrive
<1> QED
  BY <1>2, <1>5, <1>6, <1>7

(* It takes the tick for the length of a timer period.  The bootstrap CPU  *)
(* gets here only if CPU 0 was there to tick.                              *)
LEMMA TimerInitStep ==
  ASSUME SmpInv, NEW c \in CPU, apic_timer_init(c)
  PROVE  SmpInv'
<1> USE DEF SmpInv
<1>1. /\ at[c] = "ticking" /\ c \notin waiting /\ Go(c, "timer_t")
      /\ memory' = [memory EXCEPT ![smp_cpu_vec[c]].ticks = TRUE]
      /\ UNCHANGED <<machine, i, heap, smp_lock, smp_started_count, smp_enabled>>
      /\ UNCHANGED <<smp_cpu_vec, waiting>>
  BY DEF apic_timer_init, Outside
<1>2. /\ Machine' /\ Where' /\ Magazines' /\ Locked' /\ Created' = Created /\ Timed' = Timed
      /\ Bsp' = "list_item_t" <=> Bsp = "list_item_t"
  BY <1>1, SetupMoves
<1>3. /\ UNCHANGED <<cpus, smp_bsp_id>>
      /\ BspAt' = BspAt /\ Ids' = Ids /\ \A k : ApsBefore(k)' = ApsBefore(k)
  BY <1>1, MachineKept
<1>4. at' \in [CPU -> Places] /\ at'[c] = "timer_t" /\ \A d \in CPU : d # c => at'[d] = at[d]
  BY <1>1, Goes, BinValues DEF Places
<1>5. PICK k \in 1 .. Created : k \in 1 .. Len(cpus) /\ cpus[k] = c /\ smp_cpu_vec[c] = CpuT(k)
  BY <1>1, OwnCpuT DEF ApPlaces
<1>6. /\ memory' \in [Object -> CpuType] /\ memory'[CpuT(k)].ticks = TRUE
      /\ \A o \in Object : o # CpuT(k) => memory'[o] = memory[o]
      /\ \A o \in Object : /\ memory'[o].id = memory[o].id /\ memory'[o].timer = memory[o].timer
                           /\ memory'[o].list = memory[o].list /\ memory'[o].head = memory[o].head
  <2> DEFINE o == CpuT(k)
             r == [memory[o] EXCEPT !.ticks = TRUE]
  <2>1. o \in Object /\ memory \in [Object -> CpuType] /\ memory[o] \in CpuType
    BY <1>5, Numbers DEF Records
  <2>2. memory' = [memory EXCEPT ![o] = r]
    BY <1>1, <1>5
  <2>3. /\ r \in CpuType /\ r.ticks = TRUE /\ r.id = memory[o].id /\ r.timer = memory[o].timer
        /\ r.list = memory[o].list /\ r.head = memory[o].head
    BY <2>1 DEF CpuType
  <2> HIDE DEF o, r
  <2>4. memory' \in [Object -> CpuType] /\ memory'[o] = r /\ \A p \in Object : p # o => memory'[p] = memory[p]
    BY <2>1, <2>2, <2>3
  <2> QED
    BY <2>1, <2>3, <2>4 DEF o
<1>7. \A j \in 1 .. Created : j \in 1 .. Len(cpus) /\ CpuT(j) \in Object /\ CpuT(j)' = CpuT(j)
  BY Numbers, MachineIs DEF Where, Created, CpuT
<1>8. Records'
  <2>1. \A j \in 1 .. Created :
          /\ memory'[CpuT(j)].list = memory[CpuT(j)].list
          /\ memory'[CpuT(j)].head = memory[CpuT(j)].head
          /\ memory'[CpuT(j)].timer = memory[CpuT(j)].timer
    BY <1>6, <1>7
  <2> QED
    BY <1>1, <1>2, <1>3, <1>6, <1>7, <2>1 DEF Records
<1>9. SetUpSoFar'
  BY <1>1, <1>2, <1>3, <1>4, <1>5, <1>6, <1>7, MachineIs, Numbers DEF SetUpSoFar
<1>10. Waited'
  BY <1>1, <1>3, <1>4, MachineIs DEF Waited, Bsp, TicksArrive
<1> QED
  BY <1>2, <1>8, <1>9, <1>10

(* The PIT ticks: its CPU has been set up, so the list named it before the *)
(* bootstrap CPU if that is waiting.                                       *)
LEMMA PitHandlerStep ==
  ASSUME SmpInv, pit_handler
  PROVE  SmpInv'
<1> USE DEF SmpInv
<1>1. /\ Ticking /\ waiting' = {}
      /\ UNCHANGED <<machine, i, at, heap, smp_cpu_vec, memory, smp_lock, smp_started_count, smp_enabled>>
  BY DEF pit_handler
<1>2. /\ Machine' /\ UNCHANGED <<cpus, smp_bsp_id, mags, count>>
      /\ BspAt' = BspAt /\ Ids' = Ids /\ AP' = AP /\ \A k : ApsBefore(k)' = ApsBefore(k)
  BY <1>1, MachineKept DEF heap
<1>3. Bsp' = Bsp /\ Created' = Created /\ Timed' = Timed
  BY <1>1, <1>2 DEF Bsp, Created, Timed
<1>4. Where' /\ Magazines' /\ Locked'
  BY <1>1, <1>2, <1>3 DEF Where, Magazines, Locked, CountIsStarted
<1>5. Records'
  BY <1>1, <1>3, RecordsKept
<1>6. SetUpSoFar'
  BY <1>1, <1>2, <1>3 DEF SetUpSoFar, CpuT
<1>7. Bsp = "ticking" => TicksArrive
  <2> SUFFICES ASSUME Bsp = "ticking", smp_bsp_id # 0 PROVE TicksArrive
    BY DEF TicksArrive
  <2>1. 0 \in Ids /\ at[0] \notin {"off", "setup"}
    BY <1>1 DEF Ticking
  <2>2. PICK j \in 1 .. Len(cpus) : cpus[j] = 0
    BY <2>1, MachineIs
  <2>3. j # BspAt /\ i = BspAt
    BY <2>2, MachineIs DEF Where
  <2>4. j < i
    BY <2>1, <2>2, <2>3, MachineIs DEF Where
  <2> QED
    BY <2>2, <2>3, <2>4, MachineIs DEF TicksArrive
<1>8. Waited'
  BY <1>1, <1>2, <1>3, <1>7 DEF Waited, TicksArrive
<1> QED
  BY <1>2, <1>4, <1>5, <1>6, <1>8

(* A CPU loads the count of a magazine.  Only the count of the smallest    *)
(* size class can change before it stores it back.                         *)
LEMMA LoadCountStep ==
  ASSUME SmpInv, NEW c \in CPU, LoadCount(c)
  PROVE  SmpInv'
<1> USE DEF SmpInv
<1>1. /\ at[c] \in DOMAIN SizeOf /\ count[c] = NoRound
      /\ count' = [count EXCEPT ![c] = mags[BinOf(at[c])]]
      /\ UNCHANGED <<machine, i, at, mags, smp_cpu_vec, memory, waiting, smp_lock,
                     smp_started_count, smp_enabled>>
  BY DEF LoadCount
<1>2. /\ Machine' /\ UNCHANGED <<cpus, smp_bsp_id>>
      /\ BspAt' = BspAt /\ Ids' = Ids /\ AP' = AP /\ \A k : ApsBefore(k)' = ApsBefore(k)
  BY <1>1, MachineKept
<1>3. Bsp' = Bsp /\ Created' = Created /\ Timed' = Timed
  BY <1>1, <1>2 DEF Bsp, Created, Timed
<1>4. Where' /\ Locked' /\ Waited'
  BY <1>1, <1>2, <1>3 DEF Where, Locked, CountIsStarted, Waited, TicksArrive
<1>5. Records'
  BY <1>1, <1>3, RecordsKept
<1>6. SetUpSoFar'
  BY <1>1, <1>2, <1>3 DEF SetUpSoFar, CpuT
<1>7. BinOf(at[c]) \in Bins /\ mags[BinOf(at[c])] \in 0 .. Rounds
  BY <1>1, BinValues DEF Magazines
<1>8. /\ count' \in [CPU -> 0 .. NoRound] /\ count'[c] = mags[BinOf(at[c])]
      /\ \A d \in CPU : d # c => count'[d] = count[d]
  BY <1>1, <1>7, Numbers DEF Magazines
<1>9. Magazines'
  <2>1. Bsp \in {"cpu_t", "list_t", "list_item_t"} => count'[smp_bsp_id] \in {NoRound, mags[BinOf(Bsp)]}
    BY <1>8, MachineIs DEF Magazines, Bsp
  <2>2. \A d \in CPU :
          /\ at[d] = "timer_t" /\ count'[d] # NoRound => count'[d] + Cardinality(Timed) >= Rounds
          /\ at[d] = "store" => count'[d] = smp_started_count
          /\ at[d] \notin DOMAIN SizeOf \union {"store"} => count'[d] = NoRound
    BY <1>1, <1>8, BinValues DEF Magazines
  <2> QED
    BY <1>1, <1>2, <1>3, <1>8, <2>1, <2>2 DEF Magazines
<1> QED
  BY <1>2, <1>4, <1>5, <1>6, <1>9

(* The steps of smp_cpu_entry after arch_start_cpu. *)
LEMMA StartedMoves ==
  ASSUME SmpInv, UNCHANGED <<machine, i, mags, smp_cpu_vec, memory, waiting, smp_enabled>>,
         NEW c \in CPU, NEW to \in Started, at[c] \in Started, Go(c, to)
  PROVE  /\ Machine' /\ Where' /\ Records' /\ SetUpSoFar'
         /\ Bsp' = Bsp /\ Created' = Created /\ Timed' = Timed /\ c \in AP /\ c # smp_bsp_id
         /\ at'[c] = to /\ \A d \in CPU : d # c => at'[d] = at[d]
<1> USE DEF SmpInv
<1>1. /\ Machine' /\ UNCHANGED <<cpus, smp_bsp_id>>
      /\ BspAt' = BspAt /\ Ids' = Ids /\ AP' = AP /\ \A k : ApsBefore(k)' = ApsBefore(k)
  BY MachineKept
<1>2. at' \in [CPU -> Places] /\ at'[c] = to /\ \A d \in CPU : d # c => at'[d] = at[d]
  BY Goes DEF Places, Started
<1>3. c # smp_bsp_id /\ c \in AP
  BY DEF Where, Bsp, BspPlaces, Started, AP
<1>4. Bsp' = Bsp /\ Created' = Created /\ Timed' = Timed
  BY <1>1, <1>2, <1>3, MachineIs DEF Bsp, Created, Timed
<1>5. Where'
  <2>1. ASSUME NEW k \in DOMAIN cpus, k # BspAt
        PROVE  at'[cpus[k]] \in (IF k < i THEN ApPlaces ELSE {"off"})
    BY <1>2, <2>1, MachineIs DEF Where, ApPlaces, Started
  <2>2. \A d \in CPU \ Ids : at'[d] = "off"
    BY <1>2, <1>3 DEF Where, AP
  <2> QED
    BY <1>1, <1>2, <1>4, <2>1, <2>2 DEF Where
<1>6. Records'
  BY <1>4, RecordsKept
<1>7. SetUpSoFar'
  <2>1. \A j \in 1 .. Created : cpus[j] \in CPU /\ CpuT(j)' = CpuT(j)
    BY MachineIs DEF Where, Created, CpuT
  <2> QED
    BY <1>1, <1>2, <1>4, <2>1 DEF SetUpSoFar, Started
<1> QED
  BY <1>1, <1>2, <1>3, <1>4, <1>5, <1>6, <1>7

(* smp_started_count counts at most the CPUs of the list. *)
LEMMA StartedCount ==
  ASSUME Machine, Locked
  PROVE  smp_started_count \in 1 .. Len(cpus)
<1> DEFINE S == {c \in AP : at[c] \in {"unlock", "parked"}}
<1>1. Cardinality(S) \in Nat /\ Cardinality(S) <= Len(cpus) - 1
  BY FewCpus, FS_Subset, FS_CardinalityType
<1>2. smp_started_count = 1 + Cardinality(S)
  BY DEF Locked, CountIsStarted
<1> HIDE DEF S
<1> QED
  BY <1>1, <1>2, MachineIs

LEMMA AcquireStep ==
  ASSUME SmpInv, NEW c \in CPU, Acquire(c)
  PROVE  SmpInv'
<1> USE DEF SmpInv
<1>1. /\ at[c] = "lock" /\ smp_lock = {} /\ smp_lock' = {c} /\ Go(c, "load")
      /\ UNCHANGED <<machine, i, mags, smp_cpu_vec, memory, waiting, smp_enabled>>
      /\ UNCHANGED <<count, smp_started_count>>
  BY DEF Acquire, heap
<1>2. /\ Machine' /\ Where' /\ Records' /\ SetUpSoFar' /\ Bsp' = Bsp /\ Created' = Created
      /\ Timed' = Timed /\ c # smp_bsp_id /\ at'[c] = "load"
      /\ \A d \in CPU : d # c => at'[d] = at[d]
  BY <1>1, StartedMoves DEF Started
<1>3. /\ UNCHANGED <<cpus, smp_bsp_id>>
      /\ BspAt' = BspAt /\ Ids' = Ids /\ AP' = AP /\ \A k : ApsBefore(k)' = ApsBefore(k)
  BY <1>1, MachineKept
<1>4. Magazines'
  BY <1>1, <1>2, <1>3 DEF Magazines, SizeOf
<1>5. Locked'
  <2>1. {d \in AP : at'[d] \in {"unlock", "parked"}} = {d \in AP : at[d] \in {"unlock", "parked"}}
    BY <1>1, <1>2, MachineIs DEF AP
  <2> QED
    BY <1>1, <1>2, <1>3, <2>1 DEF Locked, CountIsStarted
<1>6. Waited'
  BY <1>1, <1>2, <1>3 DEF Waited, TicksArrive
<1> QED
  BY <1>2, <1>4, <1>5, <1>6

LEMMA LoadStartedStep ==
  ASSUME SmpInv, NEW c \in CPU, LoadStarted(c)
  PROVE  SmpInv'
<1> USE DEF SmpInv
<1>1. /\ at[c] = "load" /\ Go(c, "store") /\ count' = [count EXCEPT ![c] = smp_started_count]
      /\ UNCHANGED <<machine, i, mags, smp_cpu_vec, memory, waiting, smp_enabled>>
      /\ UNCHANGED <<smp_lock, smp_started_count>>
  BY DEF LoadStarted
<1>2. /\ Machine' /\ Where' /\ Records' /\ SetUpSoFar' /\ Bsp' = Bsp /\ Created' = Created
      /\ Timed' = Timed /\ c # smp_bsp_id /\ at'[c] = "store"
      /\ \A d \in CPU : d # c => at'[d] = at[d]
  BY <1>1, StartedMoves DEF Started
<1>3. /\ UNCHANGED <<cpus, smp_bsp_id>>
      /\ BspAt' = BspAt /\ Ids' = Ids /\ AP' = AP /\ \A k : ApsBefore(k)' = ApsBefore(k)
  BY <1>1, MachineKept
<1>4. smp_started_count \in 1 .. Len(cpus)
  BY StartedCount
<1>5. /\ count' \in [CPU -> 0 .. NoRound] /\ count'[c] = smp_started_count
      /\ \A d \in CPU : d # c => count'[d] = count[d]
  BY <1>1, <1>4, MachineIs, Numbers DEF Magazines
<1>6. Magazines'
  <2>1. \A d \in CPU :
          /\ at'[d] = "timer_t" /\ count'[d] # NoRound => count'[d] + Cardinality(Timed) >= Rounds
          /\ at'[d] = "store" => count'[d] = smp_started_count
          /\ at'[d] \notin DOMAIN SizeOf \union {"store"} => count'[d] = NoRound
    BY <1>2, <1>5 DEF Magazines
  <2> QED
    BY <1>1, <1>2, <1>3, <1>5, <2>1, MachineIs DEF Magazines
<1>7. Locked'
  <2>1. {d \in AP : at'[d] \in {"unlock", "parked"}} = {d \in AP : at[d] \in {"unlock", "parked"}}
    BY <1>1, <1>2, MachineIs DEF AP
  <2> QED
    BY <1>1, <1>2, <1>3, <2>1 DEF Locked, CountIsStarted
<1>8. Waited'
  BY <1>1, <1>2, <1>3 DEF Waited, TicksArrive
<1> QED
  BY <1>2, <1>6, <1>7, <1>8

(* The lock makes the load and the store of the count one step. *)
LEMMA StoreStartedStep ==
  ASSUME SmpInv, NEW c \in CPU, StoreStarted(c)
  PROVE  SmpInv'
<1> USE DEF SmpInv
<1>1. /\ at[c] = "store" /\ Go(c, "unlock") /\ count' = [count EXCEPT ![c] = NoRound]
      /\ smp_started_count' = count[c] + 1
      /\ UNCHANGED <<machine, i, mags, smp_cpu_vec, memory, waiting, smp_enabled>>
      /\ UNCHANGED smp_lock
  BY DEF StoreStarted
<1>2. /\ Machine' /\ Where' /\ Records' /\ SetUpSoFar' /\ Bsp' = Bsp /\ Created' = Created
      /\ Timed' = Timed /\ c \in AP /\ c # smp_bsp_id /\ at'[c] = "unlock"
      /\ \A d \in CPU : d # c => at'[d] = at[d]
  BY <1>1, StartedMoves DEF Started
<1>3. /\ UNCHANGED <<cpus, smp_bsp_id>>
      /\ BspAt' = BspAt /\ Ids' = Ids /\ AP' = AP /\ \A k : ApsBefore(k)' = ApsBefore(k)
  BY <1>1, MachineKept
<1>4. smp_started_count \in 1 .. Len(cpus) /\ smp_started_count' = smp_started_count + 1
  BY <1>1, StartedCount DEF Magazines
<1>5. /\ count' \in [CPU -> 0 .. NoRound] /\ count'[c] = NoRound
      /\ \A d \in CPU : d # c => count'[d] = count[d]
  BY <1>1, Numbers DEF Magazines
<1>6. \A d \in CPU : d # c => at[d] # "store"
  BY <1>1 DEF Locked
<1>7. Magazines'
  <2>1. \A d \in CPU :
          /\ at'[d] = "timer_t" /\ count'[d] # NoRound => count'[d] + Cardinality(Timed) >= Rounds
          /\ at'[d] = "store" => count'[d] = smp_started_count'
          /\ at'[d] \notin DOMAIN SizeOf \union {"store"} => count'[d] = NoRound
    BY <1>2, <1>5, <1>6 DEF Magazines
  <2> QED
    BY <1>1, <1>2, <1>3, <1>5, <2>1, MachineIs DEF Magazines
<1>8. Locked'
  <2> DEFINE S == {d \in AP : at[d] \in {"unlock", "parked"}}
  <2>1. {d \in AP : at'[d] \in {"unlock", "parked"}} = S \union {c}
    BY <1>1, <1>2, MachineIs DEF AP
  <2>2. IsFiniteSet(S)
    BY FewCpus, FS_Subset
  <2>3. c \notin S
    BY <1>1
  <2>4. Cardinality(S \union {c}) = Cardinality(S) + 1 /\ Cardinality(S) \in Nat
    BY <2>2, <2>3, FS_AddElement, FS_CardinalityType
  <2>5. CountIsStarted'
    <3>1. smp_started_count = 1 + Cardinality(S)
      BY DEF Locked, CountIsStarted
    <3>2. CountIsStarted' <=> smp_started_count' = 1 + Cardinality(S \union {c})
      BY <1>3, <2>1 DEF CountIsStarted
    <3> HIDE DEF S
    <3> QED
      BY <1>4, <2>4, <3>1, <3>2
  <2> QED
    BY <1>1, <1>2, <1>3, <2>5 DEF Locked
<1>9. Waited'
  BY <1>1, <1>2, <1>3, <1>4, MachineIs DEF Waited, TicksArrive
<1> QED
  BY <1>2, <1>7, <1>8, <1>9

LEMMA ReleaseStep ==
  ASSUME SmpInv, NEW c \in CPU, Release(c)
  PROVE  SmpInv'
<1> USE DEF SmpInv
<1>1. /\ at[c] = "unlock" /\ smp_lock' = {} /\ Go(c, "parked")
      /\ UNCHANGED <<machine, i, mags, smp_cpu_vec, memory, waiting, smp_enabled>>
      /\ UNCHANGED <<count, smp_started_count>>
  BY DEF Release, heap
<1>2. /\ Machine' /\ Where' /\ Records' /\ SetUpSoFar' /\ Bsp' = Bsp /\ Created' = Created
      /\ Timed' = Timed /\ c # smp_bsp_id /\ at'[c] = "parked"
      /\ \A d \in CPU : d # c => at'[d] = at[d]
  BY <1>1, StartedMoves DEF Started
<1>3. /\ UNCHANGED <<cpus, smp_bsp_id>>
      /\ BspAt' = BspAt /\ Ids' = Ids /\ AP' = AP /\ \A k : ApsBefore(k)' = ApsBefore(k)
  BY <1>1, MachineKept
<1>4. Magazines'
  BY <1>1, <1>2, <1>3 DEF Magazines, SizeOf
<1>5. Locked'
  <2>1. {d \in AP : at'[d] \in {"unlock", "parked"}} = {d \in AP : at[d] \in {"unlock", "parked"}}
    BY <1>1, <1>2, MachineIs DEF AP
  <2>2. \A d \in CPU : at'[d] \notin {"load", "store", "unlock"}
    BY <1>1, <1>2 DEF Locked
  <2> QED
    BY <1>1, <1>2, <1>3, <2>1, <2>2 DEF Locked, CountIsStarted
<1>6. Waited'
  BY <1>1, <1>2, <1>3 DEF Waited, TicksArrive
<1> QED
  BY <1>2, <1>4, <1>5, <1>6

(* The bootstrap CPU sees all CPUs counted. *)
LEMMA EnableStep ==
  ASSUME SmpInv, Enable
  PROVE  SmpInv'
<1> USE DEF SmpInv
<1>1. /\ Bsp = "spin" /\ smp_started_count >= Len(cpus) /\ smp_enabled' = TRUE
      /\ Go(smp_bsp_id, "done")
      /\ UNCHANGED <<machine, i, heap, smp_cpu_vec, memory, waiting, smp_lock, smp_started_count>>
  BY DEF Enable, Bsp
<1>2. /\ Machine' /\ UNCHANGED <<cpus, smp_bsp_id, mags, count>>
      /\ BspAt' = BspAt /\ Ids' = Ids /\ AP' = AP /\ \A k : ApsBefore(k)' = ApsBefore(k)
  BY <1>1, MachineKept DEF heap
<1>3. /\ at' \in [CPU -> Places] /\ Bsp' = "done"
      /\ \A d \in CPU : d # smp_bsp_id => at'[d] = at[d]
  BY <1>1, <1>2, MachineIs, Goes DEF Places, Bsp
<1>4. Created' = Created /\ Timed' = Timed
  BY <1>1, <1>2, <1>3 DEF Created, Timed, Started, Bsp
<1>5. Where'
  <2>1. ASSUME NEW k \in DOMAIN cpus, k # BspAt
        PROVE  at'[cpus[k]] \in (IF k < i THEN ApPlaces ELSE {"off"})
    BY <1>3, <2>1, MachineIs DEF Where
  <2>2. \A d \in CPU \ Ids : at'[d] = "off"
    BY <1>3 DEF Where, Machine
  <2> QED
    BY <1>1, <1>2, <1>3, <2>1, <2>2 DEF Where, BspPlaces
<1>6. Magazines'
  BY <1>1, <1>2, <1>3, <1>4, BinValues DEF Magazines, Bsp
<1>7. Records'
  BY <1>1, <1>3, <1>4, RecordsKept
<1>8. SetUpSoFar'
  <2>1. \A j \in 1 .. Created : cpus[j] \in CPU /\ CpuT(j)' = CpuT(j)
    BY MachineIs DEF Where, Created, CpuT
  <2> QED
    BY <1>1, <1>2, <1>3, <1>4, <2>1 DEF SetUpSoFar, Bsp
<1>9. Locked'
  <2>1. {d \in AP : at'[d] \in {"unlock", "parked"}} = {d \in AP : at[d] \in {"unlock", "parked"}}
    BY <1>1, <1>3, MachineIs DEF AP
  <2> QED
    BY <1>1, <1>2, <1>3, <2>1 DEF Locked, CountIsStarted, Bsp
<1>10. Waited'
  BY <1>1, <1>2, <1>3, MachineIs DEF Waited, TicksArrive, Bsp
<1> QED
  BY <1>2, <1>5, <1>6, <1>7, <1>8, <1>9, <1>10

(* The head of the loop of smp_late_init. *)
LEMMA NextCpuStep ==
  ASSUME SmpInv, NextCpu
  PROVE  SmpInv'
<1> USE DEF SmpInv
<1>1. /\ Bsp = "next" /\ Go(smp_bsp_id, IF i <= Len(cpus) THEN "cpu_t" ELSE "spin")
      /\ UNCHANGED <<machine, i, heap, smp_cpu_vec, memory, waiting, smp_lock, smp_started_count,
                     smp_enabled>>
  BY DEF NextCpu, Bsp, Outside
<1>2. /\ Machine' /\ UNCHANGED <<cpus, smp_bsp_id, mags, count>>
      /\ BspAt' = BspAt /\ Ids' = Ids /\ AP' = AP /\ \A k : ApsBefore(k)' = ApsBefore(k)
  BY <1>1, MachineKept DEF heap
<1>3. /\ at' \in [CPU -> Places] /\ Bsp' = (IF i <= Len(cpus) THEN "cpu_t" ELSE "spin")
      /\ \A d \in CPU : d # smp_bsp_id => at'[d] = at[d]
  <2>1. (IF i <= Len(cpus) THEN "cpu_t" ELSE "spin") \in Places
    BY BinValues DEF Places
  <2> QED
    BY <1>1, <1>2, <2>1, MachineIs, Goes DEF Bsp
<1>4. Created' = Created /\ Timed' = Timed
  BY <1>1, <1>2, <1>3 DEF Created, Timed, Started, Bsp
<1>5. Where'
  <2>1. ASSUME NEW k \in DOMAIN cpus, k # BspAt
        PROVE  at'[cpus[k]] \in (IF k < i THEN ApPlaces ELSE {"off"})
    BY <1>3, <2>1, MachineIs DEF Where
  <2>2. \A d \in CPU \ Ids : at'[d] = "off"
    BY <1>3 DEF Where, Machine
  <2>3. i > Len(cpus) => i = Len(cpus) + 1
    BY MachineIs DEF Where
  <2> QED
    BY <1>1, <1>2, <1>3, <2>1, <2>2, <2>3 DEF Where, BspPlaces
<1>6. Magazines'
  <2>1. count[smp_bsp_id] = NoRound
    BY <1>1, BinValues, MachineIs DEF Magazines, Bsp
  <2>2. \A d \in CPU :
          /\ at'[d] = "timer_t" /\ count[d] # NoRound => count[d] + Cardinality(Timed) >= Rounds
          /\ at'[d] = "store" => count[d] = smp_started_count
          /\ at'[d] \notin DOMAIN SizeOf \union {"store"} => count[d] = NoRound
    BY <1>2, <1>3, <2>1, BinValues DEF Magazines, Bsp
  <2> QED
    BY <1>1, <1>2, <1>3, <1>4, <2>1, <2>2 DEF Magazines
<1>7. Records'
  BY <1>1, <1>3, <1>4, RecordsKept
<1>8. SetUpSoFar'
  <2>1. \A j \in 1 .. Created : cpus[j] \in CPU /\ CpuT(j)' = CpuT(j)
    BY MachineIs DEF Where, Created, CpuT
  <2> QED
    BY <1>1, <1>2, <1>3, <1>4, <2>1 DEF SetUpSoFar, Bsp
<1>9. Locked'
  <2>1. {d \in AP : at'[d] \in {"unlock", "parked"}} = {d \in AP : at[d] \in {"unlock", "parked"}}
    BY <1>1, <1>3, MachineIs DEF AP
  <2> QED
    BY <1>1, <1>2, <1>3, <2>1 DEF Locked, CountIsStarted, Bsp
<1>10. Waited'
  BY <1>1, <1>2, <1>3, MachineIs DEF Waited, TicksArrive, Bsp
<1> QED
  BY <1>2, <1>5, <1>6, <1>7, <1>8, <1>9, <1>10

(* What the bootstrap CPU takes from the two size classes that are its     *)
(* own: the object that the magazine's count indexes.                      *)
LEMMA BspTakes ==
  ASSUME SmpInv, NEW type \in {"cpu_t", "list_t", "list_item_t"}, Take(smp_bsp_id, type)
  PROVE  /\ Bsp = type /\ Taken(smp_bsp_id) = <<BinOf(type), mags[BinOf(type)]>>
         /\ mags' = [mags EXCEPT ![BinOf(type)] = mags[BinOf(type)] - 1]
         /\ count' \in [CPU -> 0 .. NoRound] /\ count'[smp_bsp_id] = NoRound
         /\ \A d \in CPU : d # smp_bsp_id => count'[d] = count[d]
         /\ smp_bsp_id \in CPU
<1> USE DEF SmpInv
<1>1. /\ Bsp = type /\ at[smp_bsp_id] = type /\ count[smp_bsp_id] # NoRound
      /\ mags' = [mags EXCEPT ![BinOf(type)] = count[smp_bsp_id] - 1]
      /\ count' = [count EXCEPT ![smp_bsp_id] = NoRound]
  BY DEF Take, Bsp
<1>2. count[smp_bsp_id] = mags[BinOf(type)]
  BY <1>1 DEF Magazines
<1>3. smp_bsp_id \in CPU
  BY MachineIs
<1>4. /\ count' \in [CPU -> 0 .. NoRound] /\ count'[smp_bsp_id] = NoRound
      /\ \A d \in CPU : d # smp_bsp_id => count'[d] = count[d]
  BY <1>1, <1>3, Numbers DEF Magazines
<1> QED
  BY <1>1, <1>2, <1>3, <1>4 DEF Taken

(* smp_late_init allocates a cpu_t. *)
LEMMA AllocCpuStep ==
  ASSUME SmpInv, AllocCpu
  PROVE  SmpInv'
<1> USE DEF SmpInv
<1> DEFINE b  == smp_bsp_id
           to == IF cpus[i] = b THEN "setup" ELSE "list_t"
<1>1. /\ Take(b, "cpu_t") /\ memory' = [memory EXCEPT ![Taken(b)] = Zeroed]
      /\ smp_cpu_vec' = [smp_cpu_vec EXCEPT ![cpus[i]] = Taken(b)] /\ Go(b, to)
      /\ UNCHANGED <<i, machine, waiting, smp_lock, smp_started_count, smp_enabled>>
  BY DEF AllocCpu, Outside
<1>2. /\ Bsp = "cpu_t" /\ Taken(b) = <<3, mags[3]>> /\ mags' = [mags EXCEPT ![3] = mags[3] - 1]
      /\ count' \in [CPU -> 0 .. NoRound] /\ count'[b] = NoRound
      /\ \A d \in CPU : d # b => count'[d] = count[d]
      /\ b \in CPU
  BY <1>1, BspTakes, BinValues
<1>3. /\ Machine' /\ UNCHANGED <<cpus, smp_bsp_id>>
      /\ BspAt' = BspAt /\ Ids' = Ids /\ AP' = AP /\ \A k : ApsBefore(k)' = ApsBefore(k)
  BY <1>1, MachineKept
<1>4. i \in 1 .. Len(cpus) /\ Created = i - 1 /\ mags[3] = Rounds - (i - 1) /\ cpus[i] \in CPU
  BY <1>2, MachineIs DEF Where, Created, Magazines
<1>5. Taken(b) = CpuT(i) /\ CpuT(i) \in Object
  BY <1>2, <1>4, Numbers DEF CpuT
<1>6. \/ to = "setup" /\ i = BspAt
      \/ to = "list_t" /\ i # BspAt
  BY <1>4, MachineIs
<1> HIDE DEF b, to
<1>7. /\ at' \in [CPU -> Places] /\ at'[b] = to /\ Bsp' = to
      /\ \A d \in CPU : d # b => at'[d] = at[d]
  BY <1>1, <1>2, <1>3, <1>6, Goes, BinValues DEF Places, Bsp, b
<1>8. Created' = i
  BY <1>1, <1>6, <1>7 DEF Created
<1>9. Timed' = Timed
  BY <1>1, <1>2, <1>3, <1>6, <1>7 DEF Timed, Started, Bsp, b
<1>10. Where'
  <2>1. ASSUME NEW k \in DOMAIN cpus, k # BspAt
        PROVE  at'[cpus[k]] \in (IF k < i THEN ApPlaces ELSE {"off"})
    BY <1>7, <2>1, MachineIs DEF Where, b
  <2>2. \A d \in CPU \ Ids : at'[d] = "off"
    BY <1>7 DEF Where, Machine, b
  <2> QED
    BY <1>1, <1>3, <1>4, <1>6, <1>7, <2>1, <2>2 DEF Where, BspPlaces
<1>11. Magazines'
  <2>1. /\ mags' \in [Bins -> 0 .. Rounds] /\ mags'[3] = Rounds - i /\ mags'[2] = mags[2]
        /\ mags'[1] = mags[1]
    <3>1. mags \in [1 .. 3 -> 0 .. Rounds]
      BY BinValues DEF Magazines
    <3>2. mags[3] - 1 = Rounds - i /\ mags[3] - 1 \in 0 .. Rounds
      BY <1>4, Numbers, MachineIs
    <3> QED
      BY <1>2, <3>1, <3>2, BinValues
  <2>2. \A d \in CPU :
          /\ at'[d] = "timer_t" /\ count'[d] # NoRound => count'[d] + Cardinality(Timed) >= Rounds
          /\ at'[d] = "store" => count'[d] = smp_started_count
          /\ at'[d] \notin DOMAIN SizeOf \union {"store"} => count'[d] = NoRound
    BY <1>2, <1>6, <1>7 DEF Magazines
  <2> QED
    BY <1>1, <1>2, <1>3, <1>6, <1>7, <1>8, <1>9, <2>1, <2>2 DEF Magazines, b
<1>12. /\ memory' \in [Object -> CpuType] /\ memory'[CpuT(i)] = Zeroed
       /\ \A k \in 1 .. Created : k \in 1 .. Len(cpus) /\ k < i /\ memory'[CpuT(k)] = memory[CpuT(k)]
  <2>1. Zeroed \in CpuType
    BY SmpAssumption DEF Zeroed, CpuType, Pointer, CPU
  <2>2. \A k \in 1 .. Created : k \in 1 .. Len(cpus) /\ k < i
    BY <1>4
  <2>3. \A k \in 1 .. Created : CpuT(k) \in Object /\ CpuT(k) # CpuT(i)
    BY <1>4, <2>2, Numbers
  <2> QED
    BY <1>1, <1>5, <2>1, <2>2, <2>3 DEF Records
<1>13. Records'
  <2>1. /\ smp_cpu_vec' \in [CPU -> Pointer] /\ smp_cpu_vec'[cpus[i]] = CpuT(i)
        /\ \A d \in CPU : d # cpus[i] => smp_cpu_vec'[d] = smp_cpu_vec[d]
    BY <1>1, <1>4, <1>5 DEF Records, Pointer
  <2>2. \A d \in CPU \ Ids : smp_cpu_vec'[d] = NULL
    BY <1>4, <2>1, MachineIs DEF Records, Ids
  <2>3. ASSUME NEW k \in DOMAIN cpus
        PROVE  smp_cpu_vec'[cpus[k]] = IF k <= i THEN CpuT(k) ELSE NULL
    <3>1. CASE k = i
      BY <1>4, <2>1, <3>1
    <3>2. CASE k # i
      <4>1. cpus[k] # cpus[i] /\ cpus[k] \in CPU /\ k \in Nat
        BY <1>4, <3>2, MachineIs
      <4> QED
        BY <1>4, <2>1, <3>2, <4>1 DEF Records
    <3> QED
      BY <3>1, <3>2
  <2>4. ASSUME NEW k \in 1 .. i
        PROVE  /\ memory'[CpuT(k)].list = IF k # BspAt /\ (k < i \/ to = "list_item_t")
                                          THEN <<2, Rounds - 2 * ApsBefore(k)>> ELSE NULL
               /\ memory'[CpuT(k)].head = IF k # BspAt /\ k < i
                                          THEN <<2, Rounds - 2 * ApsBefore(k) - 1>> ELSE NULL
               /\ memory'[CpuT(k)].timer \in Timer \union {NULL}
    <3>1. CASE k = i
      BY <1>4, <1>6, <1>12, <3>1 DEF Zeroed
    <3>2. CASE k # i
      <4>1. k \in 1 .. Created /\ k < i
        BY <1>4, <3>2
      <4> QED
        BY <1>2, <1>12, <4>1 DEF Records
    <3> QED
      BY <3>1, <3>2
  <2>5. \A k : CpuT(k)' = CpuT(k)
    BY DEF CpuT
  <2> QED
    BY <1>1, <1>3, <1>7, <1>8, <1>12, <2>1, <2>2, <2>3, <2>4, <2>5 DEF Records
<1>14. SetUpSoFar'
  <2>1. i \notin 1 .. Created /\ cpus[i] \notin Timed /\ at'[cpus[i]] \in {"setup", "list_t", "off"}
    <3>1. CASE i = BspAt
      <4>1. cpus[i] = b /\ at[b] = "cpu_t" /\ at'[b] = "setup"
        BY <1>2, <1>6, <1>7, <3>1, MachineIs DEF Bsp, b
      <4> QED
        BY <1>4, <3>1, <4>1 DEF Timed, Started
    <3>2. CASE i # BspAt
      <4>1. cpus[i] # b /\ at[cpus[i]] = "off" /\ at'[cpus[i]] = "off"
        BY <1>4, <1>7, <3>2, MachineIs DEF Where, b
      <4> QED
        BY <1>4, <4>1 DEF Timed, Started, b
    <3> QED
      BY <3>1, <3>2
  <2>2. ASSUME NEW k \in 1 .. Created
        PROVE  /\ cpus[k] \in CPU /\ CpuT(k)' = CpuT(k)
               /\ at'[cpus[k]] \in {"calibrate", "ticking", "timer_t"} => at'[cpus[k]] = at[cpus[k]]
    BY <1>6, <1>7, <1>12, MachineIs DEF CpuT, b
  <2>3. \A k \in 1 .. i : k = i \/ k \in 1 .. Created
    BY <1>4
  <2> QED
    BY <1>3, <1>8, <1>9, <1>12, <2>1, <2>2, <2>3 DEF SetUpSoFar
<1>15. Locked'
  <2>1. {d \in AP : at'[d] \in {"unlock", "parked"}} = {d \in AP : at[d] \in {"unlock", "parked"}}
    BY <1>7, MachineIs DEF AP, b
  <2> QED
    BY <1>1, <1>2, <1>3, <1>6, <1>7, <2>1 DEF Locked, CountIsStarted, b
<1>16. Waited'
  <2>1. waiting' \subseteq {d \in CPU : at'[d] = "ticking"}
    BY <1>1, <1>2, <1>7 DEF Waited, Bsp, b
  <2> QED
    BY <1>1, <1>2, <1>3, <1>6, <1>7, <2>1, MachineIs DEF Waited, TicksArrive
<1> QED
  BY <1>3, <1>10, <1>11, <1>13, <1>14, <1>15, <1>16

(* The queue of an AP: its list_t, and then the head. *)
LEMMA AllocListStep ==
  ASSUME SmpInv, AllocList
  PROVE  SmpInv'
<1> USE DEF SmpInv
<1> DEFINE b == smp_bsp_id
<1>1. /\ Take(b, "list_t") /\ Go(b, "list_item_t")
      /\ memory' = [memory EXCEPT ![smp_cpu_vec[cpus[i]]].list = Taken(b)]
      /\ UNCHANGED <<i, machine, smp_cpu_vec, waiting, smp_lock, smp_started_count, smp_enabled>>
  BY DEF AllocList, Outside
<1>2. /\ Bsp = "list_t" /\ Taken(b) = <<2, mags[2]>> /\ mags' = [mags EXCEPT ![2] = mags[2] - 1]
      /\ count' \in [CPU -> 0 .. NoRound] /\ count'[b] = NoRound
      /\ \A d \in CPU : d # b => count'[d] = count[d]
      /\ b \in CPU
  BY <1>1, BspTakes, BinValues
<1>3. /\ Machine' /\ UNCHANGED <<cpus, smp_bsp_id>>
      /\ BspAt' = BspAt /\ Ids' = Ids /\ AP' = AP /\ \A k : ApsBefore(k)' = ApsBefore(k)
  BY <1>1, MachineKept
<1>4. /\ i \in 1 .. Len(cpus) /\ i # BspAt /\ Created = i /\ mags[2] = Rounds - 2 * ApsBefore(i)
      /\ smp_cpu_vec[cpus[i]] = CpuT(i) /\ CpuT(i) \in Object
  <2>1. i \in 1 .. Len(cpus) /\ i # BspAt /\ Created = i
    BY <1>2, MachineIs DEF Where, Created
  <2>2. mags[2] = Rounds - 2 * ApsBefore(i)
    <3>1. ApsBefore(i) \in Int
      BY <2>1, Numbers, MachineIs
    <3> QED
      BY <1>2, <3>1, Numbers DEF Magazines
  <2>3. smp_cpu_vec[cpus[i]] = CpuT(i)
    BY <2>1, MachineIs DEF Records
  <2> QED
    BY <2>1, <2>2, <2>3, Numbers
<1>5. mags[2] \in 2 .. Rounds /\ Taken(b) \in Object
  <2>1. ApsBefore(i) \in Int /\ ApsBefore(i) <= i - 1 /\ ApsBefore(i) >= 0
    BY <1>4, Numbers, MachineIs
  <2>2. mags[2] \in 2 .. Rounds
    BY <1>4, <2>1, Numbers, MachineIs
  <2> QED
    BY <1>2, <2>2, BinValues DEF Object
<1> HIDE DEF b
<1>6. /\ at' \in [CPU -> Places] /\ at'[b] = "list_item_t" /\ Bsp' = "list_item_t"
      /\ \A d \in CPU : d # b => at'[d] = at[d]
  BY <1>1, <1>2, <1>3, Goes, BinValues DEF Places, Bsp, b
<1>7. Created' = i
  BY <1>1, <1>6 DEF Created
<1>8. Timed' = Timed
  BY <1>1, <1>2, <1>3, <1>6 DEF Timed, Started, Bsp, b
<1>9. Where'
  <2>1. ASSUME NEW k \in DOMAIN cpus, k # BspAt
        PROVE  at'[cpus[k]] \in (IF k < i THEN ApPlaces ELSE {"off"})
    BY <1>6, <2>1, MachineIs DEF Where, b
  <2>2. \A d \in CPU \ Ids : at'[d] = "off"
    BY <1>6 DEF Where, Machine, b
  <2> QED
    BY <1>1, <1>3, <1>4, <1>6, <2>1, <2>2 DEF Where, BspPlaces
<1>10. Magazines'
  <2>1. /\ mags' \in [Bins -> 0 .. Rounds] /\ mags'[3] = mags[3] /\ mags'[2] = mags[2] - 1
        /\ mags'[1] = mags[1]
    <3>1. mags \in [1 .. 3 -> 0 .. Rounds]
      BY BinValues DEF Magazines
    <3>2. mags[2] - 1 \in 0 .. Rounds
      BY <1>5, Numbers
    <3> QED
      BY <1>2, <3>1, <3>2, BinValues
  <2>2. \A d \in CPU :
          /\ at'[d] = "timer_t" /\ count'[d] # NoRound => count'[d] + Cardinality(Timed) >= Rounds
          /\ at'[d] = "store" => count'[d] = smp_started_count
          /\ at'[d] \notin DOMAIN SizeOf \union {"store"} => count'[d] = NoRound
    BY <1>2, <1>6 DEF Magazines
  <2>3. mags'[3] = Rounds - i /\ mags'[2] = Rounds - 2 * ApsBefore(i) - 1
    BY <1>4, <2>1, Numbers DEF Magazines
  <2> QED
    BY <1>1, <1>2, <1>3, <1>6, <1>7, <1>8, <2>1, <2>2, <2>3 DEF Magazines, b
<1>11. /\ memory' \in [Object -> CpuType] /\ memory'[CpuT(i)].list = Taken(b)
       /\ \A o \in Object : o # CpuT(i) => memory'[o] = memory[o]
       /\ \A o \in Object : /\ memory'[o].id = memory[o].id /\ memory'[o].timer = memory[o].timer
                            /\ memory'[o].ticks = memory[o].ticks /\ memory'[o].head = memory[o].head
  BY <1>1, <1>4, <1>5 DEF Records, CpuType, Pointer
<1>12. \A k \in 1 .. i : k \in 1 .. Len(cpus) /\ CpuT(k) \in Object /\ CpuT(k)' = CpuT(k)
                         /\ (k # i => k < i /\ CpuT(k) # CpuT(i))
  <2>1. \A k \in 1 .. i : k \in 1 .. Len(cpus) /\ (k # i => k < i)
    BY <1>4
  <2> QED
    BY <1>4, <2>1, Numbers DEF CpuT
<1>13. Records'
  <2>1. ASSUME NEW k \in 1 .. i
        PROVE  /\ memory'[CpuT(k)].list = IF k # BspAt /\ (k < i \/ Bsp' = "list_item_t")
                                          THEN <<2, Rounds - 2 * ApsBefore(k)>> ELSE NULL
               /\ memory'[CpuT(k)].head = IF k # BspAt /\ k < i
                                          THEN <<2, Rounds - 2 * ApsBefore(k) - 1>> ELSE NULL
               /\ memory'[CpuT(k)].timer \in Timer \union {NULL}
    <3>1. CASE k = i
      BY <1>2, <1>4, <1>6, <1>11, <1>12, <3>1 DEF Records
    <3>2. CASE k # i
      BY <1>2, <1>4, <1>11, <1>12, <3>2 DEF Records
    <3> QED
      BY <3>1, <3>2
  <2> QED
    BY <1>1, <1>3, <1>4, <1>7, <1>11, <1>12, <2>1 DEF Records
<1>14. SetUpSoFar'
  <2>1. \A k \in 1 .. i : cpus[k] \in CPU
    BY <1>12, MachineIs
  <2> QED
    BY <1>1, <1>3, <1>4, <1>6, <1>7, <1>8, <1>11, <1>12, <2>1 DEF SetUpSoFar
<1>15. Locked'
  <2>1. {d \in AP : at'[d] \in {"unlock", "parked"}} = {d \in AP : at[d] \in {"unlock", "parked"}}
    BY <1>6, MachineIs DEF AP, b
  <2> QED
    BY <1>1, <1>2, <1>3, <1>6, <2>1 DEF Locked, CountIsStarted, b
<1>16. Waited'
  <2>1. waiting' \subseteq {d \in CPU : at'[d] = "ticking"}
    BY <1>1, <1>2, <1>6 DEF Waited, Bsp, b
  <2> QED
    BY <1>1, <1>2, <1>3, <1>6, <2>1, MachineIs DEF Waited, TicksArrive
<1> QED
  BY <1>3, <1>9, <1>10, <1>13, <1>14, <1>15, <1>16

(* With the head in place the AP may go. *)
LEMMA AllocHeadStep ==
  ASSUME SmpInv, AllocHead
  PROVE  SmpInv'
<1> USE DEF SmpInv
<1> DEFINE b == smp_bsp_id
           c == cpus[i]
<1>1. /\ Take(b, "list_item_t") /\ at' = [at EXCEPT ![b] = "next", ![c] = "setup"] /\ i' = i + 1
      /\ memory' = [memory EXCEPT ![smp_cpu_vec[c]].head = Taken(b)]
      /\ UNCHANGED <<machine, smp_cpu_vec, waiting, smp_lock, smp_started_count, smp_enabled>>
  BY DEF AllocHead, Outside
<1>2. /\ Bsp = "list_item_t" /\ Taken(b) = <<2, mags[2]>>
      /\ mags' = [mags EXCEPT ![2] = mags[2] - 1]
      /\ count' \in [CPU -> 0 .. NoRound] /\ count'[b] = NoRound
      /\ \A d \in CPU : d # b => count'[d] = count[d]
      /\ b \in CPU
  BY <1>1, BspTakes, BinValues
<1>3. /\ Machine' /\ UNCHANGED <<cpus, smp_bsp_id>>
      /\ BspAt' = BspAt /\ Ids' = Ids /\ AP' = AP /\ \A k : ApsBefore(k)' = ApsBefore(k)
  BY <1>1, MachineKept
<1>4. /\ i \in 1 .. Len(cpus) /\ i # BspAt /\ Created = i /\ mags[2] = Rounds - 2 * ApsBefore(i) - 1
      /\ smp_cpu_vec[c] = CpuT(i) /\ CpuT(i) \in Object
  <2>1. i \in 1 .. Len(cpus) /\ i # BspAt /\ Created = i
    BY <1>2, MachineIs DEF Where, Created
  <2>2. mags[2] = Rounds - 2 * ApsBefore(i) - 1
    <3>1. ApsBefore(i) \in Int
      BY <2>1, Numbers, MachineIs
    <3> QED
      BY <1>2, <3>1, Numbers DEF Magazines
  <2>3. smp_cpu_vec[c] = CpuT(i)
    BY <2>1, MachineIs DEF Records
  <2> QED
    BY <2>1, <2>2, <2>3, Numbers
<1>5. mags[2] \in 1 .. Rounds /\ Taken(b) \in Object
  <2>1. ApsBefore(i) \in Int /\ ApsBefore(i) <= i - 1 /\ ApsBefore(i) >= 0
    BY <1>4, Numbers, MachineIs
  <2>2. mags[2] \in 1 .. Rounds
    BY <1>4, <2>1, Numbers, MachineIs
  <2> QED
    BY <1>2, <2>2, BinValues DEF Object
<1>6. /\ c \in CPU /\ c # b /\ at[c] = "off" /\ at[b] = "list_item_t"
      /\ \A k \in 1 .. Len(cpus) : cpus[k] = c => k = i
  BY <1>2, <1>4, MachineIs DEF Where, Bsp
<1>7. ApsBefore(i + 1) = ApsBefore(i) + 1
  BY <1>4, MachineIs DEF ApsBefore
<1> HIDE DEF b, c
<1>8. /\ at' \in [CPU -> Places] /\ at'[b] = "next" /\ Bsp' = "next" /\ at'[c] = "setup"
      /\ \A d \in CPU : d # b /\ d # c => at'[d] = at[d]
  BY <1>1, <1>2, <1>3, <1>6 DEF Places, Bsp, b, Where
<1>9. Created' = i
  BY <1>1, <1>4, <1>8 DEF Created
<1>10. Timed' = Timed
  <2>1. BspAt < i + 1 <=> BspAt < i
    BY <1>4, MachineIs
  <2> QED
    BY <1>1, <1>2, <1>3, <1>6, <1>8, <2>1 DEF Timed, Started, b
<1>11. Where'
  <2>1. ASSUME NEW k \in DOMAIN cpus, k # BspAt
        PROVE  at'[cpus[k]] \in (IF k < i + 1 THEN ApPlaces ELSE {"off"})
    <3>1. cpus[k] \in CPU /\ cpus[k] # b /\ k \in Nat /\ (k # i => cpus[k] # c)
      BY <1>6, <2>1, MachineIs DEF b
    <3>2. CASE k = i
      BY <1>4, <1>8, <3>2 DEF c, ApPlaces
    <3>3. CASE k # i
      <4>1. at'[cpus[k]] = at[cpus[k]] /\ (k < i + 1 <=> k < i)
        BY <1>4, <1>8, <3>1, <3>3
      <4> QED
        BY <2>1, <4>1 DEF Where
    <3> QED
      BY <3>2, <3>3
  <2>2. ASSUME NEW d \in CPU \ Ids PROVE at'[d] = "off"
    <3>1. d # b /\ d # c
      BY <1>4, MachineIs DEF Machine, Ids, b, c
    <3> QED
      BY <1>8, <3>1 DEF Where
  <2>3. i + 1 \in 1 .. Len(cpus) + 1
    BY <1>4
  <2> QED
    BY <1>1, <1>3, <1>8, <2>1, <2>2, <2>3 DEF Where, BspPlaces
<1>12. Magazines'
  <2>1. /\ mags' \in [Bins -> 0 .. Rounds] /\ mags'[3] = mags[3] /\ mags'[2] = mags[2] - 1
        /\ mags'[1] = mags[1]
    <3>1. mags \in [1 .. 3 -> 0 .. Rounds]
      BY BinValues DEF Magazines
    <3>2. mags[2] - 1 \in 0 .. Rounds
      BY <1>5, Numbers
    <3> QED
      BY <1>2, <3>1, <3>2, BinValues
  <2>2. \A d \in CPU :
          /\ at'[d] = "timer_t" /\ count'[d] # NoRound => count'[d] + Cardinality(Timed) >= Rounds
          /\ at'[d] = "store" => count'[d] = smp_started_count
          /\ at'[d] \notin DOMAIN SizeOf \union {"store"} => count'[d] = NoRound
    BY <1>2, <1>6, <1>8, BinValues DEF Magazines
  <2>3. mags'[3] = Rounds - i
    BY <1>4, <2>1 DEF Magazines
  <2>4. mags'[2] = Rounds - 2 * ApsBefore(i + 1)
    <3>1. ApsBefore(i) \in Int
      BY <1>4, Numbers, MachineIs
    <3> QED
      BY <1>4, <1>7, <2>1, <3>1, Numbers
  <2>5. ApsBefore(i)' = ApsBefore(i + 1) /\ ApsBefore(i + 1) \in Int
    <3>1. ApsBefore(i)' = ApsBefore(i + 1)
      BY <1>1, <1>3 DEF ApsBefore
    <3> QED
      BY <1>4, <1>7, <3>1, Numbers, MachineIs
  <2>6. mags'[2] = Rounds - 2 * ApsBefore(i)' - (IF Bsp' = "list_item_t" THEN 1 ELSE 0)
    BY <1>8, <2>4, <2>5, Numbers
  <2> QED
    BY <1>1, <1>2, <1>3, <1>8, <1>9, <1>10, <2>1, <2>2, <2>3, <2>6 DEF Magazines, b
<1>13. /\ memory' \in [Object -> CpuType] /\ memory'[CpuT(i)].head = Taken(b)
       /\ \A o \in Object : o # CpuT(i) => memory'[o] = memory[o]
       /\ \A o \in Object : /\ memory'[o].id = memory[o].id /\ memory'[o].timer = memory[o].timer
                            /\ memory'[o].ticks = memory[o].ticks /\ memory'[o].list = memory[o].list
  BY <1>1, <1>4, <1>5 DEF Records, CpuType, Pointer
<1>14. \A k \in 1 .. i : k \in 1 .. Len(cpus) /\ k < i + 1 /\ CpuT(k) \in Object
                         /\ CpuT(k)' = CpuT(k) /\ (k # i => k < i /\ CpuT(k) # CpuT(i))
  <2>1. \A k \in 1 .. i : k \in 1 .. Len(cpus) /\ k < i + 1 /\ (k # i => k < i)
    BY <1>4
  <2> QED
    BY <1>4, <2>1, Numbers DEF CpuT
<1>15. Records'
  <2>1. ASSUME NEW k \in 1 .. i
        PROVE  /\ memory'[CpuT(k)].list = IF k # BspAt
                                          THEN <<2, Rounds - 2 * ApsBefore(k)>> ELSE NULL
               /\ memory'[CpuT(k)].head = IF k # BspAt
                                          THEN <<2, Rounds - 2 * ApsBefore(k) - 1>> ELSE NULL
               /\ memory'[CpuT(k)].timer \in Timer \union {NULL}
    <3>1. CASE k = i
      BY <1>2, <1>4, <1>13, <1>14, <3>1 DEF Records
    <3>2. CASE k # i
      BY <1>2, <1>4, <1>13, <1>14, <3>2 DEF Records
    <3> QED
      BY <3>1, <3>2
  <2>2. \A k \in DOMAIN cpus : smp_cpu_vec'[cpus[k]] = IF k <= i THEN CpuT(k)' ELSE NULL
    BY <1>1, <1>4 DEF Records, CpuT
  <2>3. \A d \in CPU \ Ids : smp_cpu_vec'[d] = NULL
    BY <1>1 DEF Records
  <2>4. smp_cpu_vec' \in [CPU -> Pointer]
    BY <1>1 DEF Records
  <2> QED
    BY <1>1, <1>3, <1>9, <1>13, <1>14, <2>1, <2>2, <2>3, <2>4 DEF Records
<1>16. SetUpSoFar'
  <2>1. \A k \in 1 .. i : cpus[k] \in CPU
    BY <1>14, MachineIs
  <2> QED
    BY <1>1, <1>3, <1>4, <1>8, <1>9, <1>10, <1>13, <1>14, <2>1 DEF SetUpSoFar
<1>17. Locked'
  <2>1. {d \in AP : at'[d] \in {"unlock", "parked"}} = {d \in AP : at[d] \in {"unlock", "parked"}}
    BY <1>6, <1>8, MachineIs DEF AP, b
  <2> QED
    BY <1>1, <1>3, <1>6, <1>8, <2>1 DEF Locked, CountIsStarted
<1>18. Waited'
  <2>1. waiting' \subseteq {d \in CPU : at'[d] = "ticking"}
    BY <1>1, <1>6, <1>8 DEF Waited
  <2>2. BspAt < i + 1 <=> BspAt < i
    BY <1>4, MachineIs
  <2> QED
    BY <1>1, <1>2, <1>3, <1>8, <2>1, <2>2, MachineIs DEF Waited, TicksArrive
<1> QED
  BY <1>3, <1>11, <1>12, <1>15, <1>16, <1>17, <1>18

(* A CPU takes its timer_t.  The count that it has read may be stale, but  *)
(* the CPUs that have taken one since are as many as it is off.            *)
LEMMA TimerCreateStep ==
  ASSUME SmpInv, NEW c \in CPU, timer_create(c)
  PROVE  SmpInv'
<1> USE DEF SmpInv
<1> DEFINE b  == smp_bsp_id
           to == IF c = b THEN "next" ELSE "lock"
<1>1. /\ at[c] = "timer_t" /\ count[c] # NoRound /\ Go(c, to)
      /\ mags' = [mags EXCEPT ![1] = count[c] - 1] /\ count' = [count EXCEPT ![c] = NoRound]
      /\ memory' = [memory EXCEPT ![smp_cpu_vec[c]].timer = <<1, count[c]>>]
      /\ i' = (IF c = b THEN i + 1 ELSE i)
      /\ UNCHANGED <<machine, smp_cpu_vec, waiting, smp_lock, smp_started_count, smp_enabled>>
  BY BinValues DEF timer_create, Take, Taken, Outside
<1>2. /\ Machine' /\ UNCHANGED <<cpus, smp_bsp_id>>
      /\ BspAt' = BspAt /\ Ids' = Ids /\ AP' = AP
  BY <1>1, MachineKept
<1>3. PICK k \in 1 .. Created : /\ k \in 1 .. Len(cpus) /\ cpus[k] = c /\ smp_cpu_vec[c] = CpuT(k)
                                /\ k = BspAt => k = i
                                /\ k # BspAt => k < i
  BY <1>1, OwnCpuT DEF ApPlaces
<1>4. \/ c = b /\ k = BspAt /\ i = BspAt /\ Bsp = "timer_t"
      \/ c # b /\ k # BspAt
  BY <1>1, <1>3, MachineIs DEF Bsp
<1>5. b \in CPU /\ i \in Nat /\ BspAt \in Nat /\ c \notin Timed /\ c \in Ids
  BY <1>1, <1>3, <1>4, MachineIs DEF Timed, Started, Where, Ids
<1>6. count[c] \in 1 .. Rounds /\ count[c] + Cardinality(Timed) >= Rounds
  <2>1. count[c] \in 0 .. NoRound /\ count[c] + Cardinality(Timed) >= Rounds
    BY <1>1 DEF Magazines
  <2>2. Cardinality(Timed) \in Nat /\ Cardinality(Timed) <= SMP_MAX_CPU_COUNT - 1
    BY <1>5, TimedSize
  <2>3. /\ Rounds \in Nat /\ NoRound = Rounds + 1 /\ SMP_MAX_CPU_COUNT \in Nat
        /\ Rounds >= 2 * SMP_MAX_CPU_COUNT /\ SMP_MAX_CPU_COUNT > 0 /\ count[c] # NoRound
    BY <1>1, Numbers
  <2> QED
    BY ONLY <2>1, <2>2, <2>3
<1> HIDE DEF b, to
<1>7. /\ at' \in [CPU -> Places] /\ at'[c] = to /\ \A d \in CPU : d # c => at'[d] = at[d]
  <2>1. to \in Places
    BY DEF Places, to
  <2> QED
    BY <1>1, <2>1, Goes
<1>8. \/ c = b /\ to = "next" /\ Bsp' = "next" /\ i' = i + 1
      \/ c # b /\ to = "lock" /\ Bsp' = Bsp /\ i' = i
  BY <1>1, <1>2, <1>5, <1>7 DEF Bsp, to, b
<1>9. Created' = Created
  BY <1>4, <1>5, <1>8 DEF Created
<1>10. Timed' = Timed \union {c}
  <2>1. CASE c = b
    <3>1. BspAt < i'
      BY <1>4, <1>5, <1>8, <2>1
    <3> QED
      BY <1>1, <1>2, <1>5, <1>7, <1>8, <2>1, <3>1 DEF Timed, Started, b
  <2>2. CASE c # b
    BY <1>1, <1>2, <1>5, <1>7, <1>8, <2>2 DEF Timed, Started, b
  <2> QED
    BY <2>1, <2>2
<1>11. \A j \in 1 .. Len(cpus) : j # BspAt => (j < i' <=> j < i)
  BY <1>4, <1>5, <1>8
<1>12. /\ \A j : ApsBefore(j)' = ApsBefore(j')
       /\ ApsBefore(i') = ApsBefore(i)
  BY <1>2, <1>4, <1>5, <1>8 DEF ApsBefore
<1>13. Where'
  <2>1. ASSUME NEW j \in DOMAIN cpus, j # BspAt
        PROVE  at'[cpus[j]] \in (IF j < i' THEN ApPlaces ELSE {"off"})
    <3>1. CASE cpus[j] = c
      <4>1. j = k /\ c # b /\ k < i
        BY <1>3, <1>4, <2>1, <3>1, MachineIs
      <4> QED
        BY <1>7, <1>8, <3>1, <4>1 DEF ApPlaces, Started
    <3>2. CASE cpus[j] # c
      BY <1>7, <1>11, <2>1, <3>2, MachineIs DEF Where
    <3> QED
      BY <3>1, <3>2
  <2>2. \A d \in CPU \ Ids : at'[d] = "off"
    BY <1>5, <1>7 DEF Where
  <2>3. i' \in 1 .. Len(cpus) + 1
    BY <1>4, <1>8, MachineIs DEF Where
  <2> QED
    BY <1>2, <1>7, <1>8, <2>1, <2>2, <2>3 DEF Where, BspPlaces
<1>14. Magazines'
  <2>1. /\ mags' \in [Bins -> 0 .. Rounds] /\ mags'[3] = mags[3] /\ mags'[2] = mags[2]
        /\ mags'[1] = count[c] - 1
    <3>1. mags \in [1 .. 3 -> 0 .. Rounds]
      BY BinValues DEF Magazines
    <3>2. count[c] - 1 \in 0 .. Rounds
      BY <1>6, Numbers
    <3> QED
      BY <1>1, <3>1, <3>2, BinValues
  <2>2. /\ count' \in [CPU -> 0 .. NoRound] /\ count'[c] = NoRound
        /\ \A d \in CPU : d # c => count'[d] = count[d]
    BY <1>1, Numbers DEF Magazines
  <2>3. Cardinality(Timed') = Cardinality(Timed) + 1 /\ Cardinality(Timed) \in Nat
    BY <1>5, <1>10, TimedSize
  <2>4. mags'[1] + Cardinality(Timed') >= Rounds
    <3>1. count[c] \in Int /\ Rounds \in Int
      BY <1>6, Numbers
    <3> QED
      BY ONLY <1>6, <2>1, <2>3, <3>1
  <2>5. ASSUME NEW d \in CPU
        PROVE  /\ at'[d] = "timer_t" /\ count'[d] # NoRound => count'[d] + Cardinality(Timed') >= Rounds
               /\ at'[d] = "store" => count'[d] = smp_started_count
               /\ at'[d] \notin DOMAIN SizeOf \union {"store"} => count'[d] = NoRound
    <3>1. CASE d = c
      BY <1>7, <1>8, <2>2, <3>1
    <3>2. CASE d # c
      <4>1. at'[d] = at[d] /\ count'[d] = count[d] /\ count[d] \in Nat
        BY <1>7, <2>2, <3>2, Numbers DEF Magazines
      <4>2. at[d] = "timer_t" /\ count[d] # NoRound => count[d] + Cardinality(Timed) >= Rounds
        BY DEF Magazines
      <4>3. at[d] = "timer_t" /\ count[d] # NoRound => count[d] + Cardinality(Timed') >= Rounds
        BY <2>3, <4>1, <4>2, Numbers
      <4> QED
        BY <4>1, <4>3 DEF Magazines
    <3> QED
      BY <3>1, <3>2
  <2>6. mags'[2] = Rounds - 2 * ApsBefore(i)' - (IF Bsp' = "list_item_t" THEN 1 ELSE 0)
    <3>1. ApsBefore(i)' = ApsBefore(i)
      BY <1>12
    <3>2. Bsp' = "list_item_t" <=> Bsp = "list_item_t"
      BY <1>4, <1>8
    <3> QED
      BY <2>1, <3>1, <3>2 DEF Magazines
  <2>7. Bsp' \in {"cpu_t", "list_t", "list_item_t"} => count'[b] \in {NoRound, mags'[BinOf(Bsp')]}
    <3>1. ASSUME Bsp' \in {"cpu_t", "list_t", "list_item_t"}
          PROVE  count'[b] \in {NoRound, mags'[BinOf(Bsp')]}
      <4>1. c # b /\ Bsp' = Bsp /\ count'[b] = count[b]
        BY <1>5, <1>8, <2>2, <3>1
      <4>2. BinOf(Bsp) \in {2, 3}
        BY <3>1, <4>1, BinValues
      <4>3. mags'[BinOf(Bsp)] = mags[BinOf(Bsp)]
        BY <2>1, <4>2
      <4> QED
        BY <3>1, <4>1, <4>3 DEF Magazines, b
    <3> QED
      BY <3>1
  <2> QED
    BY <1>1, <1>2, <1>9, <2>1, <2>2, <2>4, <2>5, <2>6, <2>7 DEF Magazines, b
<1>15. /\ memory' \in [Object -> CpuType] /\ memory'[CpuT(k)].timer = <<1, count[c]>>
       /\ <<1, count[c]>> \in Timer /\ <<1, count[c]>> # NULL
       /\ \A o \in Object : o # CpuT(k) => memory'[o] = memory[o]
       /\ \A o \in Object : /\ memory'[o].id = memory[o].id /\ memory'[o].ticks = memory[o].ticks
                            /\ memory'[o].list = memory[o].list /\ memory'[o].head = memory[o].head
  <2>1. /\ <<1, count[c]>> \in Timer /\ <<1, count[c]>> # NULL /\ <<1, count[c]>> \in Pointer
    BY <1>6, BinValues DEF Timer, NULL, Pointer, Object
  <2> DEFINE o == CpuT(k)
             r == [memory[o] EXCEPT !.timer = <<1, count[c]>>]
  <2>2. o \in Object /\ memory \in [Object -> CpuType] /\ memory[o] \in CpuType
    BY <1>3, Numbers DEF Records
  <2>3. memory' = [memory EXCEPT ![o] = r]
    BY <1>1, <1>3
  <2>4. /\ r \in CpuType /\ r.timer = <<1, count[c]>> /\ r.id = memory[o].id
        /\ r.ticks = memory[o].ticks /\ r.list = memory[o].list /\ r.head = memory[o].head
    BY <2>1, <2>2 DEF CpuType
  <2> HIDE DEF o, r
  <2>5. memory' \in [Object -> CpuType] /\ memory'[o] = r /\ \A p \in Object : p # o => memory'[p] = memory[p]
    BY <2>2, <2>3, <2>4
  <2> QED
    BY <2>1, <2>2, <2>4, <2>5 DEF o
<1>16. \A j \in 1 .. Created : j \in 1 .. Len(cpus) /\ cpus[j] \in CPU /\ CpuT(j) \in Object
                               /\ CpuT(j)' = CpuT(j)
  BY Numbers, MachineIs DEF Where, Created, CpuT
<1>17. Records'
  <2>1. ASSUME NEW j \in 1 .. Created
        PROVE  /\ memory'[CpuT(j)].list = IF j # BspAt /\ (j < i' \/ Bsp' = "list_item_t")
                                          THEN <<2, Rounds - 2 * ApsBefore(j)>> ELSE NULL
               /\ memory'[CpuT(j)].head = IF j # BspAt /\ j < i'
                                          THEN <<2, Rounds - 2 * ApsBefore(j) - 1>> ELSE NULL
               /\ memory'[CpuT(j)].timer \in Timer \union {NULL}
    <3>1. /\ memory'[CpuT(j)].list = memory[CpuT(j)].list
          /\ memory'[CpuT(j)].head = memory[CpuT(j)].head
          /\ memory'[CpuT(j)].timer \in {memory[CpuT(j)].timer, <<1, count[c]>>}
      BY <1>15, <1>16
    <3>2. Bsp' = "list_item_t" <=> Bsp = "list_item_t"
      BY <1>4, <1>8
    <3>3. j # BspAt => (j < i' <=> j < i)
      BY <1>11, <1>16
    <3> QED
      BY <1>15, <3>1, <3>2, <3>3 DEF Records
  <2>2. \A j : ApsBefore(j)' = ApsBefore(j')
    BY <1>12
  <2>3. /\ smp_cpu_vec' \in [CPU -> Pointer] /\ \A d \in CPU \ Ids : smp_cpu_vec'[d] = NULL
        /\ \A j \in DOMAIN cpus : smp_cpu_vec'[cpus[j]] = IF j <= Created THEN CpuT(j)' ELSE NULL
    BY <1>1 DEF Records, CpuT
  <2> QED
    BY <1>2, <1>9, <1>15, <1>16, <2>1, <2>2, <2>3 DEF Records, ApsBefore
<1>18. SetUpSoFar'
  <2>1. ASSUME NEW j \in 1 .. Created
        PROVE  /\ at'[cpus[j]] \in {"calibrate", "ticking", "timer_t"} \/ cpus[j] \in Timed'
                    => memory'[CpuT(j)].id = cpus[j]
               /\ at'[cpus[j]] = "timer_t" \/ cpus[j] \in Timed' => memory'[CpuT(j)].ticks
               /\ cpus[j] \in Timed' => memory'[CpuT(j)].timer # NULL
    <3>1. memory'[CpuT(j)].id = memory[CpuT(j)].id /\ memory'[CpuT(j)].ticks = memory[CpuT(j)].ticks
      BY <1>15, <1>16
    <3>2. CASE j = k
      BY <1>1, <1>3, <1>15, <3>1, <3>2 DEF SetUpSoFar
    <3>3. CASE j # k
      <4>1. cpus[j] # c /\ cpus[j] \in CPU /\ CpuT(j) # CpuT(k)
        BY <1>3, <1>16, <3>3, MachineIs, Numbers
      <4>2. at'[cpus[j]] = at[cpus[j]] /\ (cpus[j] \in Timed' <=> cpus[j] \in Timed)
            /\ memory'[CpuT(j)].timer = memory[CpuT(j)].timer
        BY <1>7, <1>10, <1>15, <1>16, <4>1
      <4> QED
        BY <3>1, <4>2 DEF SetUpSoFar
    <3> QED
      BY <3>2, <3>3
  <2> QED
    BY <1>2, <1>9, <1>16, <2>1 DEF SetUpSoFar
<1>19. Locked'
  <2>1. {d \in AP : at'[d] \in {"unlock", "parked"}} = {d \in AP : at[d] \in {"unlock", "parked"}}
    BY <1>1, <1>7, <1>8, MachineIs DEF AP
  <2> QED
    BY <1>1, <1>2, <1>7, <1>8, <2>1 DEF Locked, CountIsStarted
<1>20. Waited'
  <2>1. waiting' \subseteq {d \in CPU : at'[d] = "ticking"}
    BY <1>1, <1>7 DEF Waited
  <2>2. BspAt < i' => BspAt < i \/ Bsp = "timer_t"
    BY <1>4, <1>8
  <2> QED
    BY <1>1, <1>2, <1>4, <1>8, <2>1, <2>2 DEF Waited, TicksArrive
<1> QED
  BY <1>2, <1>13, <1>14, <1>17, <1>18, <1>19, <1>20

----------------------------------------------------------------------------
(* The invariant holds at the start. *)
LEMMA InitSmpInv == Init => SmpInv
<1> SUFFICES ASSUME Init PROVE SmpInv
  OBVIOUS
<1>1. Machine
  <2>1. PICK n \in 1 .. SMP_MAX_CPU_COUNT : cpus \in [1 .. n -> CPU]
    BY DEF Init
  <2>2. n \in Nat
    BY <2>1, SmpAssumption
  <2>3. Len(cpus) = n
    BY <2>1, <2>2
  <2> QED
    BY <2>1, <2>3 DEF Init, Machine
<1>2. /\ i = 1 /\ at = [c \in CPU |-> IF c = smp_bsp_id THEN "next" ELSE "off"]
      /\ mags = [b \in Bins |-> Rounds] /\ count = [c \in CPU |-> NoRound]
      /\ smp_cpu_vec = [c \in CPU |-> NULL] /\ memory = [o \in Object |-> Zeroed]
      /\ waiting = {} /\ smp_lock = {} /\ smp_started_count = 1 /\ smp_enabled = FALSE
  BY DEF Init
<1>3. /\ BspAt \in 1 .. Len(cpus) /\ smp_bsp_id \in CPU /\ Bsp = "next"
      /\ \A c \in CPU : c # smp_bsp_id => at[c] = "off"
  BY <1>1, <1>2, MachineIs DEF Bsp
<1>4. Created = 0 /\ ApsBefore(i) = 0 /\ ~(BspAt < i)
  BY <1>2, <1>3 DEF Created, ApsBefore
<1>5. Timed = {}
  BY <1>2, <1>3, <1>4 DEF Timed, Started
<1>6. Where
  <2>1. "next" \in Places /\ "off" \in Places /\ "next" \in BspPlaces
    BY DEF Places, BspPlaces
  <2>2. at \in [CPU -> Places]
    BY <1>2, <2>1
  <2>3. \A k \in DOMAIN cpus : ~(k < i)
    BY <1>1, <1>2, MachineIs
  <2>4. \A k \in DOMAIN cpus : k # BspAt => at[cpus[k]] = "off"
    BY <1>1, <1>3, MachineIs
  <2>5. i \in 1 .. Len(cpus) + 1
    BY <1>1, <1>2, MachineIs
  <2>6. \A c \in CPU \ Ids : at[c] = "off"
    BY <1>1, <1>3 DEF Machine
  <2> QED
    BY <1>3, <2>1, <2>2, <2>3, <2>4, <2>5, <2>6 DEF Where
<1>7. Magazines
  <2>1. Rounds \in Nat /\ NoRound \in 0 .. NoRound /\ Bins = 1 .. 3
    BY <1>1, Numbers, BinValues
  <2>2. Cardinality(Timed) = 0
    BY <1>5, FS_EmptySet
  <2>3. \A c \in CPU : count[c] = NoRound /\ at[c] # "store"
    BY <1>2
  <2> QED
    BY <1>2, <1>3, <1>4, <2>1, <2>2, <2>3 DEF Magazines
<1>8. Records
  <2>1. Zeroed \in CpuType
    BY SmpAssumption DEF Zeroed, CpuType, Pointer, CPU
  <2>2. \A k \in DOMAIN cpus : ~(k <= Created) /\ smp_cpu_vec[cpus[k]] = NULL
    BY <1>1, <1>2, <1>4, MachineIs
  <2>3. memory \in [Object -> CpuType] /\ smp_cpu_vec \in [CPU -> Pointer]
    BY <1>2, <2>1 DEF Pointer
  <2>4. \A c \in CPU : smp_cpu_vec[c] = NULL
    BY <1>2
  <2> QED
    BY <1>4, <2>2, <2>3, <2>4 DEF Records
<1>9. SetUpSoFar
  BY <1>4 DEF SetUpSoFar
<1>10. Locked
  <2>1. {c \in AP : at[c] \in {"unlock", "parked"}} = {}
    BY <1>1, <1>3, MachineIs DEF AP
  <2>2. CountIsStarted
    BY <1>2, <2>1, FS_EmptySet DEF CountIsStarted
  <2> QED
    BY <1>2, <2>2 DEF Locked
<1>11. Waited
  BY <1>2, <1>3, <1>4 DEF Waited
<1> QED
  BY <1>1, <1>6, <1>7, <1>8, <1>9, <1>10, <1>11 DEF SmpInv

(* Every step keeps it. *)
LEMMA NextSmpInv == SmpInv /\ [Next]_vars => SmpInv'
<1> SUFFICES ASSUME SmpInv, [Next]_vars PROVE SmpInv'
  OBVIOUS
<1>1. CASE BspStep
  BY <1>1, NextCpuStep, AllocCpuStep, AllocListStep, AllocHeadStep, EnableStep DEF BspStep
<1>2. ASSUME NEW c \in CPU, Step(c) PROVE SmpInv'
  BY <1>2, LoadCountStep, SetUpStep, PitWaitStep, TimerInitStep, TimerCreateStep, AcquireStep,
     LoadStartedStep, StoreStartedStep, ReleaseStep DEF Step
<1>3. CASE pit_handler
  BY <1>3, PitHandlerStep
<1>4. CASE UNCHANGED vars
  <2>1. UNCHANGED <<machine, cpus, smp_bsp_id, i, at, mags, count, smp_cpu_vec, memory, waiting,
                    smp_lock, smp_started_count, smp_enabled>>
    BY <1>4 DEF vars, machine, heap
  <2>2. /\ Machine' /\ BspAt' = BspAt /\ Ids' = Ids /\ AP' = AP
        /\ \A k : ApsBefore(k)' = ApsBefore(k)
    BY <2>1, MachineKept DEF SmpInv
  <2>3. Bsp' = Bsp /\ Created' = Created /\ Timed' = Timed
    BY <2>1, <2>2 DEF Bsp, Created, Timed
  <2>4. Where' /\ Magazines' /\ Locked' /\ Waited'
    BY <2>1, <2>2, <2>3 DEF SmpInv, Where, Magazines, Locked, CountIsStarted, Waited, TicksArrive
  <2>5. Records' /\ SetUpSoFar'
    BY <2>1, <2>2, <2>3, RecordsKept DEF SmpInv, SetUpSoFar, CpuT
  <2> QED
    BY <2>2, <2>4, <2>5 DEF SmpInv
<1> QED
  BY <1>1, <1>2, <1>3, <1>4 DEF Next

LEMMA AlwaysSmpInv == Spec => []SmpInv
BY InitSmpInv, NextSmpInv, PTL DEF Spec

----------------------------------------------------------------------------
(* All CPUs counted: each AP is past its start. *)
LEMMA AllStarted ==
  ASSUME SmpInv, smp_started_count >= Len(cpus)
  PROVE  \A c \in AP : at[c] \in {"unlock", "parked"}
<1> USE DEF SmpInv
<1> DEFINE S == {c \in AP : at[c] \in {"unlock", "parked"}}
<1>1. S \subseteq AP /\ IsFiniteSet(AP) /\ Cardinality(AP) = Len(cpus) - 1
  BY FewCpus
<1>2. smp_started_count = 1 + Cardinality(S)
  BY DEF Locked, CountIsStarted
<1>3. S = AP
  <2>1. Cardinality(S) \in Nat /\ Cardinality(S) <= Cardinality(AP)
    BY <1>1, FS_Subset, FS_CardinalityType
  <2> HIDE DEF S
  <2>2. Cardinality(S) = Cardinality(AP)
    BY <1>1, <1>2, <2>1, MachineIs
  <2> QED
    BY <1>1, <2>2, FS_Subset
<1> QED
  BY <1>3

LEMMA SmpInvStartInv == SmpInv => StartInv
<1> SUFFICES ASSUME SmpInv PROVE StartInv
  OBVIOUS
<1> USE DEF SmpInv
<1>1. TypeOK
  BY StartedCount DEF TypeOK, Where, Magazines, Records, CpuType, Locked, Waited
<1>2. CountIsStarted
  BY DEF Locked
<1>3. ReadyWhenEnabled
  <2> SUFFICES ASSUME smp_enabled, NEW c \in Ids
               PROVE  /\ smp_cpu_vec[c] # NULL
                      /\ memory[smp_cpu_vec[c]].id = c
                      /\ memory[smp_cpu_vec[c]].ticks /\ memory[smp_cpu_vec[c]].timer # NULL
                      /\ c # smp_bsp_id => /\ memory[smp_cpu_vec[c]].list # NULL
                                           /\ memory[smp_cpu_vec[c]].head # NULL
                                           /\ at[c] \in {"unlock", "parked"}
    BY DEF ReadyWhenEnabled
  <2>1. Bsp = "done" /\ i = Len(cpus) + 1 /\ smp_started_count >= Len(cpus)
    BY DEF Waited, Where
  <2>2. PICK k \in 1 .. Len(cpus) : cpus[k] = c
    BY MachineIs
  <2>3. k \in 1 .. Created /\ k <= Created /\ k < i /\ BspAt < i /\ c \in CPU
    BY <2>1, <2>2, MachineIs DEF Created
  <2>4. smp_cpu_vec[c] = CpuT(k) /\ CpuT(k) # NULL
    BY <2>2, <2>3, MachineIs, Numbers DEF Records
  <2>5. c # smp_bsp_id => k # BspAt /\ at[c] \in {"unlock", "parked"}
    <3>1. c # smp_bsp_id => k # BspAt
      BY <2>2, MachineIs
    <3>2. \A d \in AP : at[d] \in {"unlock", "parked"}
      BY <2>1, AllStarted
    <3> QED
      BY <3>1, <3>2 DEF AP
  <2>6. c \in Timed
    BY <2>3, <2>5 DEF Timed, Started
  <2>7. /\ memory[CpuT(k)].id = c /\ memory[CpuT(k)].ticks /\ memory[CpuT(k)].timer # NULL
    BY <2>2, <2>3, <2>6 DEF SetUpSoFar
  <2>8. k # BspAt => memory[CpuT(k)].list # NULL /\ memory[CpuT(k)].head # NULL
    <3> DEFINE a == ApsBefore(k)
    <3>1. k # BspAt => /\ memory[CpuT(k)].list = <<2, Rounds - 2 * a>>
                       /\ memory[CpuT(k)].head = <<2, Rounds - 2 * a - 1>>
      BY <2>3 DEF Records
    <3>2. \A n : <<2, n>> # NULL
      BY DEF NULL
    <3> QED
      BY <3>1, <3>2, Zenon
  <2> QED
    BY <2>4, <2>5, <2>7, <2>8
<1>4. CalibrationNeedsCpu0
  <2>1. smp_enabled => BspAt < i
    BY MachineIs DEF Waited, Where
  <2> QED
    BY <2>1 DEF Waited, CalibrationNeedsCpu0
<1> QED
  BY <1>1, <1>2, <1>3, <1>4 DEF StartInv

(* What smp_late_init has allocated for one CPU. *)
LEMMA HeldIs ==
  ASSUME SmpInv, NEW c \in CPU, smp_cpu_vec[c] # NULL
  PROVE  \E k \in 1 .. Len(cpus) :
           /\ cpus[k] = c
           /\ \A o \in Held(c) : \/ o = <<3, NoRound - k>>
                                 \/ /\ k # BspAt
                                    /\ o \in {<<2, Rounds - 2 * ApsBefore(k)>>,
                                              <<2, Rounds - 2 * ApsBefore(k) - 1>>}
           /\ memory[smp_cpu_vec[c]].timer \in Timer \union {NULL}
<1> USE DEF SmpInv
<1>1. c \in Ids
  BY DEF Records
<1>2. PICK k \in 1 .. Len(cpus) : cpus[k] = c
  BY <1>1, MachineIs
<1>3. k \in 1 .. Created /\ smp_cpu_vec[c] = CpuT(k)
  <2>1. Created \in Int
    BY MachineIs DEF Where, Created
  <2> QED
    BY <1>2, <2>1, MachineIs DEF Records
<1>4. /\ memory[CpuT(k)].list \in {NULL, <<2, Rounds - 2 * ApsBefore(k)>>}
      /\ memory[CpuT(k)].head \in {NULL, <<2, Rounds - 2 * ApsBefore(k) - 1>>}
      /\ k = BspAt => memory[CpuT(k)].list = NULL /\ memory[CpuT(k)].head = NULL
      /\ memory[CpuT(k)].timer \in Timer \union {NULL}
  BY <1>3 DEF Records
<1> QED
  BY <1>2, <1>3, <1>4 DEF Held, CpuT

(* The lists are an even distance from the first one, the heads an odd one. *)
LEMMA Apart ==
  ASSUME NEW r \in Int, NEW x \in Int, NEW y \in Int, x # y
  PROVE  /\ r - 2 * x # r - 2 * y /\ r - 2 * x # r - 2 * y - 1
         /\ r - 2 * x - 1 # r - 2 * y /\ r - 2 * x - 1 # r - 2 * y - 1
OBVIOUS

LEMMA SmpInvQueues == SmpInv => OnlyTimersShared
<1> SUFFICES ASSUME SmpInv, NEW c \in CPU, NEW d \in CPU
             PROVE  /\ c # d => Held(c) \intersect Held(d) = {}
                    /\ smp_cpu_vec[d] # NULL => memory[smp_cpu_vec[d]].timer \notin Held(c)
  BY DEF OnlyTimersShared
<1> USE DEF SmpInv
<1>1. CASE smp_cpu_vec[c] = NULL
  BY <1>1 DEF Held
<1>2. CASE smp_cpu_vec[c] # NULL
  <2>1. PICK k \in 1 .. Len(cpus) :
          /\ cpus[k] = c
          /\ \A o \in Held(c) : \/ o = <<3, NoRound - k>>
                                \/ /\ k # BspAt
                                   /\ o \in {<<2, Rounds - 2 * ApsBefore(k)>>,
                                             <<2, Rounds - 2 * ApsBefore(k) - 1>>}
    BY <1>2, HeldIs
  <2>2. CASE smp_cpu_vec[d] = NULL
    BY <2>2 DEF Held
  <2>3. CASE smp_cpu_vec[d] # NULL
    <3>1. PICK j \in 1 .. Len(cpus) :
            /\ cpus[j] = d
            /\ \A o \in Held(d) : \/ o = <<3, NoRound - j>>
                                  \/ /\ j # BspAt
                                     /\ o \in {<<2, Rounds - 2 * ApsBefore(j)>>,
                                               <<2, Rounds - 2 * ApsBefore(j) - 1>>}
            /\ memory[smp_cpu_vec[d]].timer \in Timer \union {NULL}
      BY <2>3, HeldIs
    <3>2. memory[smp_cpu_vec[d]].timer \notin Held(c)
      <4>1. \A o \in Held(c) : o[1] \in {2, 3}
        BY <2>1
      <4>2. memory[smp_cpu_vec[d]].timer[1] \in {0, 1}
        BY <3>1 DEF Timer, NULL
      <4> QED
        BY <4>1, <4>2
    <3>3. ASSUME c # d, NEW o \in Held(c), o \in Held(d) PROVE FALSE
      <4>1. j # k /\ j \in Nat /\ k \in Nat /\ Rounds \in Nat /\ NoRound \in Nat /\ BspAt \in Nat
        BY <2>1, <3>1, <3>3, Numbers, MachineIs
      <4>2. o # <<3, NoRound - k>> \/ o # <<3, NoRound - j>>
        BY <4>1
      <4>3. /\ k # BspAt /\ j # BspAt
            /\ o \in {<<2, Rounds - 2 * ApsBefore(k)>>, <<2, Rounds - 2 * ApsBefore(k) - 1>>}
            /\ o \in {<<2, Rounds - 2 * ApsBefore(j)>>, <<2, Rounds - 2 * ApsBefore(j) - 1>>}
        BY <2>1, <3>1, <3>3, <4>2
      <4>4. ApsBefore(k) # ApsBefore(j) /\ ApsBefore(k) \in Int /\ ApsBefore(j) \in Int
        BY <4>1, <4>3 DEF ApsBefore
      <4>5. \/ Rounds - 2 * ApsBefore(k) = Rounds - 2 * ApsBefore(j)
            \/ Rounds - 2 * ApsBefore(k) = Rounds - 2 * ApsBefore(j) - 1
            \/ Rounds - 2 * ApsBefore(k) - 1 = Rounds - 2 * ApsBefore(j)
            \/ Rounds - 2 * ApsBefore(k) - 1 = Rounds - 2 * ApsBefore(j) - 1
        BY ONLY <4>3
      <4> QED
        BY ONLY <4>1, <4>4, <4>5, Apart
    <3> QED
      BY <3>2, <3>3
  <2> QED
    BY <2>2, <2>3
<1> QED
  BY <1>1, <1>2

(* Whatever the order in which the CPUs are named and in which they run,   *)
(* smp_started_count counts the CPUs that are up, no CPU is missing any of *)
(* its parts when smp_late_init sets smp_enabled, and it never does where  *)
(* CPU 0 was not up to take the ticks of the PIT.                          *)
THEOREM StartsRight == Spec => []StartInv
BY AlwaysSmpInv, SmpInvStartInv, PTL

(* The loads and stores of the bootstrap CPU's magazines interleave        *)
(* without a lock, and still no cpu_t and no queue is handed out twice.    *)
THEOREM QueuesUnshared == Spec => []OnlyTimersShared
BY AlwaysSmpInv, SmpInvQueues, PTL
=============================================================================
