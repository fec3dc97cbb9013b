------------------------------ MODULE SmpBoot ------------------------------
(***************************************************************************)
(* The start of the other CPUs: smp_late_init of                           *)
(* kernel/src/arch/generic/smp.c and what the CPUs do until smp_enabled.   *)
(*                                                                         *)
(* The bootstrap CPU goes through the boot loader's list of CPUs.  It      *)
(* allocates the cpu_t of each and, for each CPU but itself (below, an     *)
(* AP), a queue of threads, and lets the AP go.  The AP sets itself up at  *)
(* the same time: it calibrates its timer against the PIT and allocates a  *)
(* timer_t.  Until smp_enabled is set all CPUs allocate from the magazine  *)
(* of the bootstrap CPU, which has no lock.                                *)
(*                                                                         *)
(* A pop from a magazine is two steps, the load of its count and the rest. *)
(* pit_counter is known by the CPUs that wait for its next value.          *)
(***************************************************************************)
EXTENDS Naturals, Sequences, FiniteSets

CONSTANTS
  SMP_MAX_CPU_COUNT, \* slots of smp_cpu_vec
  Rounds             \* objects in the magazine of each size class, at the start

(* An AP takes two objects of a size class at most, and no refill is       *)
(* needed.                                                                 *)
ASSUME SmpAssumption ==
  SMP_MAX_CPU_COUNT \in Nat \ {0} /\ Rounds \in Nat /\ Rounds >= 2 * SMP_MAX_CPU_COUNT

CPU == 0 .. SMP_MAX_CPU_COUNT - 1

(* What is allocated, and its size. *)
SizeOf == [cpu_t |-> 56, list_t |-> 16, list_item_t |-> 24, timer_t |-> 8]

(* The bits of n: 64 - __builtin_clzll(n). *)
Bits(n) == CHOOSE k \in 0 .. 63 : n < 2^k /\ \A j \in 0 .. k - 1 : n >= 2^j
(* Mutant: the size classes are powers of four. *)
Mutant_alloc_get_bin(size) == IF size <= 8 THEN 0 ELSE (Bits(size - 1) - 2) \div 2
alloc_get_bin(size) == IF size <= 8 THEN 0 ELSE Bits(size - 1) - 3

(* alloc adds four bytes for the size. *)
BinOf(type) == alloc_get_bin(SizeOf[type] + 4)
Bins == {BinOf(type) : type \in DOMAIN SizeOf}
Object == Bins \X (1 .. Rounds)
NULL == <<0, 0>>
NoRound == Rounds + 1

VARIABLES
  cpus, smp_bsp_id,    \* the machine: mp_response->cpus, by LAPIC id
  i,                   \* the loop index of smp_late_init
  at,                  \* where each CPU is
  mags,                \* the count of the magazine of each size class
  count,               \* the count that each CPU has read
  smp_cpu_vec,
  memory,              \* the cpu_t in an object
  waiting,             \* the CPUs in pit_wait, until pit_counter advances
  smp_lock,            \* the CPUs that hold it
  smp_started_count, smp_enabled

machine == <<cpus, smp_bsp_id>>
heap    == <<mags, count>>
vars    == <<machine, i, at, heap, smp_cpu_vec, memory, waiting, smp_lock,
             smp_started_count, smp_enabled>>

Ids == {cpus[k] : k \in DOMAIN cpus}
AP  == Ids \ {smp_bsp_id}

Zeroed == [id |-> 0, ticks |-> FALSE, timer |-> NULL, list |-> NULL, head |-> NULL]

(* smp_bsp_id is also the index of a magazine: there are as many as CPUs. *)
Init ==
  /\ cpus \in UNION {[1 .. n -> CPU] : n \in 1 .. SMP_MAX_CPU_COUNT}
  /\ \A j, k \in DOMAIN cpus : cpus[j] = cpus[k] => j = k
  /\ smp_bsp_id \in Ids /\ smp_bsp_id < Len(cpus)
  /\ i = 1
  /\ at = [c \in CPU |-> IF c = smp_bsp_id THEN "next" ELSE "off"]
  /\ mags = [b \in Bins |-> Rounds] /\ count = [c \in CPU |-> NoRound]
  /\ smp_cpu_vec = [c \in CPU |-> NULL]
  /\ memory = [o \in Object |-> Zeroed]
  /\ waiting = {} /\ smp_lock = {} /\ smp_started_count = 1 /\ smp_enabled = FALSE

----------------------------------------------------------------------------
Go(c, where) == at' = [at EXCEPT ![c] = where]

(* alloc: load the count of the magazine, and later store it decremented   *)
(* and take the object it indexes.                                         *)
LoadCount(c) ==
  /\ at[c] \in DOMAIN SizeOf /\ count[c] = NoRound
  /\ count' = [count EXCEPT ![c] = mags[BinOf(at[c])]]
  /\ UNCHANGED <<machine, i, at, mags, smp_cpu_vec, memory, waiting, smp_lock,
                 smp_started_count, smp_enabled>>

Taken(c) == <<BinOf(at[c]), count[c]>>
(* Mutant: the count goes up. *)
Mutant_Take(c, type) ==
  /\ at[c] = type /\ count[c] # NoRound
  /\ mags' = [mags EXCEPT ![BinOf(type)] = count[c] + 1]
  /\ count' = [count EXCEPT ![c] = NoRound]

Take(c, type) ==
  /\ at[c] = type /\ count[c] # NoRound
  /\ mags' = [mags EXCEPT ![BinOf(type)] = count[c] - 1]
  /\ count' = [count EXCEPT ![c] = NoRound]

Outside == UNCHANGED <<machine, waiting, smp_lock, smp_started_count, smp_enabled>>

----------------------------------------------------------------------------
(* smp_late_init, on the bootstrap CPU *)

NextCpu ==
  LET c == smp_bsp_id
  IN  /\ at[c] = "next"
      /\ IF i <= Len(cpus) THEN Go(c, "cpu_t") ELSE Go(c, "spin")
      /\ UNCHANGED <<i, heap, smp_cpu_vec, memory>> /\ Outside

AllocCpu ==
  LET c == smp_bsp_id
  IN  /\ Take(c, "cpu_t")
      /\ memory' = [memory EXCEPT ![Taken(c)] = Zeroed]
      /\ smp_cpu_vec' = [smp_cpu_vec EXCEPT ![cpus[i]] = Taken(c)]
      /\ Go(c, IF cpus[i] = c THEN "setup" ELSE "list_t")
      /\ UNCHANGED i /\ Outside

AllocList ==
  LET c == smp_bsp_id
  IN  /\ Take(c, "list_t")
      /\ memory' = [memory EXCEPT ![smp_cpu_vec[cpus[i]]].list = Taken(c)]
      /\ Go(c, "list_item_t")
      /\ UNCHANGED <<i, smp_cpu_vec>> /\ Outside

(* list_create makes the head, and goto_address lets the AP go. *)
AllocHead ==
  LET c == smp_bsp_id
  IN  /\ Take(c, "list_item_t")
      /\ memory' = [memory EXCEPT ![smp_cpu_vec[cpus[i]]].head = Taken(c)]
      /\ at' = [at EXCEPT ![c] = "next", ![cpus[i]] = "setup"]
      /\ i' = i + 1
      /\ UNCHANGED smp_cpu_vec /\ Outside

(* Mutant: the loop does not wait for the last CPU. *)
Mutant_Enable ==
  LET c == smp_bsp_id
  IN  /\ at[c] = "spin" /\ smp_started_count + 1 >= Len(cpus)
      /\ Go(c, "done") /\ smp_enabled' = TRUE
      /\ UNCHANGED <<machine, i, heap, smp_cpu_vec, memory, waiting, smp_lock, smp_started_count>>

Enable ==
  LET c == smp_bsp_id
  IN  /\ at[c] = "spin" /\ smp_started_count >= Len(cpus)
      /\ Go(c, "done") /\ smp_enabled' = TRUE
      /\ UNCHANGED <<machine, i, heap, smp_cpu_vec, memory, waiting, smp_lock, smp_started_count>>

----------------------------------------------------------------------------
(* arch_setup_bsp and arch_start_cpu, each on the CPU that it is about *)

(* The AP enables interrupts and its local APIC; the bootstrap CPU has     *)
(* done so before.                                                         *)
SetUp(c) ==
  /\ at[c] = "setup"
  /\ memory' = [memory EXCEPT ![smp_cpu_vec[c]].id = c]
  /\ Go(c, "calibrate")
  /\ UNCHANGED <<i, heap, smp_cpu_vec>> /\ Outside

(* apic_timer_init: count down for one tick of the PIT. *)
pit_wait(c) ==
  /\ at[c] = "calibrate"
  /\ waiting' = waiting \union {c} /\ Go(c, "ticking")
  /\ UNCHANGED <<machine, i, heap, smp_cpu_vec, memory, smp_lock, smp_started_count, smp_enabled>>

(* Mutant: the tick is not waited for. *)
Mutant_apic_timer_init(c) ==
  /\ at[c] = "ticking"
  /\ memory' = [memory EXCEPT ![smp_cpu_vec[c]].ticks = TRUE]
  /\ Go(c, "timer_t")
  /\ UNCHANGED <<i, heap, smp_cpu_vec>> /\ Outside

apic_timer_init(c) ==
  /\ at[c] = "ticking" /\ c \notin waiting
  /\ memory' = [memory EXCEPT ![smp_cpu_vec[c]].ticks = TRUE]
  /\ Go(c, "timer_t")
  /\ UNCHANGED <<i, heap, smp_cpu_vec>> /\ Outside

(* The bootstrap CPU then goes on with its loop, an AP with smp_cpu_entry. *)
timer_create(c) ==
  /\ Take(c, "timer_t")
  /\ memory' = [memory EXCEPT ![smp_cpu_vec[c]].timer = Taken(c)]
  /\ Go(c, IF c = smp_bsp_id THEN "next" ELSE "lock")
  /\ i' = IF c = smp_bsp_id THEN i + 1 ELSE i
  /\ UNCHANGED smp_cpu_vec /\ Outside

----------------------------------------------------------------------------
(* The rest of smp_cpu_entry: smp_started_count++ under the lock, in two   *)
(* steps.                                                                  *)

(* Mutant: the lock is not waited for. *)
Mutant_Acquire(c) ==
  /\ at[c] = "lock"
  /\ smp_lock' = {c}
  /\ Go(c, "load")
  /\ UNCHANGED <<machine, i, heap, smp_cpu_vec, memory, waiting, smp_started_count, smp_enabled>>

Acquire(c) ==
  /\ at[c] = "lock" /\ smp_lock = {}
  /\ smp_lock' = {c}
  /\ Go(c, "load")
  /\ UNCHANGED <<machine, i, heap, smp_cpu_vec, memory, waiting, smp_started_count, smp_enabled>>

LoadStarted(c) ==
  /\ at[c] = "load"
  /\ count' = [count EXCEPT ![c] = smp_started_count]
  /\ Go(c, "store")
  /\ UNCHANGED <<machine, i, mags, smp_cpu_vec, memory, waiting, smp_lock,
                 smp_started_count, smp_enabled>>

StoreStarted(c) ==
  /\ at[c] = "store"
  /\ smp_started_count' = count[c] + 1
  /\ count' = [count EXCEPT ![c] = NoRound]
  /\ Go(c, "unlock")
  /\ UNCHANGED <<machine, i, mags, smp_cpu_vec, memory, waiting, smp_lock, smp_enabled>>

Release(c) ==
  /\ at[c] = "unlock"
  /\ smp_lock' = {}
  /\ Go(c, "parked")
  /\ UNCHANGED <<machine, i, heap, smp_cpu_vec, memory, waiting, smp_started_count, smp_enabled>>

----------------------------------------------------------------------------
(* interrupts_set_handler routes the PIT to the local APIC with id 0; the  *)
(* interrupt is lost on a CPU that has not been set up.                    *)
Ticking == 0 \in Ids /\ (smp_bsp_id = 0 \/ at[0] \notin {"off", "setup"})

pit_handler ==
  /\ Ticking /\ waiting # {}
  /\ waiting' = {}
  /\ UNCHANGED <<machine, i, at, heap, smp_cpu_vec, memory, smp_lock, smp_started_count, smp_enabled>>

BspStep == NextCpu \/ AllocCpu \/ AllocList \/ AllocHead \/ Enable
Step(c) ==
  \/ LoadCount(c) \/ SetUp(c) \/ pit_wait(c) \/ apic_timer_init(c) \/ timer_create(c)
  \/ Acquire(c) \/ LoadStarted(c) \/ StoreStarted(c) \/ Release(c)

Next == BspStep \/ (\E c \in CPU : Step(c)) \/ pit_handler

(* Each CPU goes on; one that waits for the lock gets it once it is free,  *)
(* since each takes it once.  The PIT keeps interrupting.                  *)
Fairness == WF_vars(BspStep) /\ WF_vars(pit_handler) /\ \A c \in CPU : WF_vars(Step(c))
Spec == Init /\ [][Next]_vars /\ Fairness

----------------------------------------------------------------------------
(* The shape of the state. *)
Places == {"off", "next", "setup", "calibrate", "ticking", "spin", "done",
           "lock", "load", "store", "unlock", "parked"} \union DOMAIN SizeOf
Pointer == Object \union {NULL}
TypeOK ==
  /\ i \in 1 .. Len(cpus) + 1
  /\ at \in [CPU -> Places]
  /\ mags \in [Bins -> 0 .. Rounds] /\ count \in [CPU -> 0 .. NoRound]
  /\ smp_cpu_vec \in [CPU -> Pointer]
  /\ memory \in [Object -> [id : CPU, ticks : BOOLEAN, timer : Pointer, list : Pointer, head : Pointer]]
  /\ waiting \subseteq CPU /\ smp_lock \subseteq CPU
  /\ smp_started_count \in 1 .. Len(cpus) /\ smp_enabled \in BOOLEAN

(* The CPUs share one magazine without a lock, and still only timer_t can  *)
(* be handed out twice: the bootstrap CPU alone allocates in the other two *)
(* size classes.                                                           *)
Held(c) ==
  IF smp_cpu_vec[c] = NULL THEN {}
  ELSE {smp_cpu_vec[c], memory[smp_cpu_vec[c]].list, memory[smp_cpu_vec[c]].head} \ {NULL}
OnlyTimersShared ==
  \A c, d \in CPU :
    /\ c # d => Held(c) \intersect Held(d) = {}
    /\ smp_cpu_vec[d] # NULL => memory[smp_cpu_vec[d]].timer \notin Held(c)

(* When smp_enabled is set every CPU is complete: its cpu_t, its timer and *)
(* calibration and, if it is an AP, its queue.  No AP is in the magazine   *)
(* of the bootstrap CPU any more.                                          *)
ReadyWhenEnabled ==
  smp_enabled => \A c \in Ids :
    /\ smp_cpu_vec[c] # NULL
    /\ memory[smp_cpu_vec[c]].id = c
    /\ memory[smp_cpu_vec[c]].ticks /\ memory[smp_cpu_vec[c]].timer # NULL
    /\ c # smp_bsp_id => /\ memory[smp_cpu_vec[c]].list # NULL
                         /\ memory[smp_cpu_vec[c]].head # NULL
                         /\ at[c] \in {"unlock", "parked"}

(* smp_started_count is the number of CPUs that have counted themselves,   *)
(* in whatever order and however closely they come.                        *)
CountIsStarted ==
  smp_started_count = 1 + Cardinality({c \in AP : at[c] \in {"unlock", "parked"}})

(* Start-up ends on each machine whose CPU 0 is running when the bootstrap *)
(* CPU calibrates its timer.                                               *)
TicksArrive ==
  \/ smp_bsp_id = 0
  \/ \E j, k \in DOMAIN cpus : j < k /\ cpus[j] = 0 /\ cpus[k] = smp_bsp_id
StartsUp == TicksArrive ~> smp_enabled

(* On the other machines it never ends. *)
CalibrationNeedsCpu0 == smp_enabled => TicksArrive

(* What holds at every moment of start-up, all CPUs interleaving: the      *)
(* count is right, no CPU is missing when smp_enabled is set, and that     *)
(* never happens on a machine where nobody counts the ticks.               *)
StartInv == TypeOK /\ CountIsStarted /\ ReadyWhenEnabled /\ CalibrationNeedsCpu0
=============================================================================
