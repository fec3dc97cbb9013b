-------------------------- MODULE SchedulerProofs --------------------------
(***************************************************************************)
(* What the scheduler keeps, for every number of CPUs and of threads.      *)
(***************************************************************************)
EXTENDS Scheduler, FiniteSetTheorems, WellFoundedInduction, TLAPS

(* The queues hold threads that exist, and an AP whose turn in sched_init  *)
(* has passed has one.                                                     *)
QueueInv ==
  /\ \A c \in CPU : \A k \in 1 .. Len(queue[c]) : queue[c][k] < thread_global_id
  /\ kmain = "sched_init" =>
       /\ thread_global_id <= i /\ i <= Cardinality(lapic_ids)
       /\ 0 .. i - 1 \subseteq lapic_ids
       /\ \A c \in AP : c < i => Len(queue[c]) > 0
  /\ kmain \in {"threads", "loop"} => \A c \in AP : Len(queue[c]) > 0

(* Until kmain has started the APs, and ever after on the bootstrap CPU,   *)
(* nothing of the handler has happened.                                    *)
QuietInv ==
  \A c \in CPU :
    /\ (kmain # "loop" \/ c \notin AP) =>
         /\ pc[c] = "run" /\ c \notin pending /\ c \notin timer
         /\ current_thread[c] = NoThread
    /\ current_thread[c] = NoThread =>
         /\ regs[c].thread = Boot /\ current_item[c] = ListHead /\ round[c] = {}

(* The threads of the round are those before the current item. *)
RoundInv ==
  \A c \in CPU :
    \/ current_item[c] = ListHead /\ (round[c] = {} \/ round[c] = Queued(c))
    \/ current_item[c] # ListHead /\ round[c] = {queue[c][k] : k \in 1 .. current_item[c] - 1}

IInv == TypeOK /\ QueueInv /\ QuietInv /\ RoundInv /\ OneQueuePerThread /\ ContextsKept
----------------------------------------------------------------------------
LEMMA Appended ==
  ASSUME NEW S, NEW q \in Seq(S), NEW t \in S
  PROVE  /\ Append(q, t) \in Seq(S) /\ Len(Append(q, t)) = Len(q) + 1
         /\ \A k \in 1 .. Len(q) : Append(q, t)[k] = q[k]
         /\ Append(q, t)[Len(q) + 1] = t
OBVIOUS

(* The machine is finite. *)
LEMMA MachineSize ==
  ASSUME TypeOK
  PROVE  /\ IsFiniteSet(lapic_ids) /\ Cardinality(lapic_ids) \in 0 .. SMP_MAX_CPU_COUNT
         /\ Cardinality(AP) \in 0 .. SMP_MAX_CPU_COUNT
<1>1. IsFiniteSet(CPU) /\ Cardinality(CPU) = SMP_MAX_CPU_COUNT
  BY FS_Interval, SchedulerAssumption DEF CPU
<1>2. lapic_ids \subseteq CPU /\ AP \subseteq CPU
  BY DEF TypeOK, AP
<1> QED BY <1>1, <1>2, FS_Subset, FS_CardinalityType, SchedulerAssumption

LEMMA InitIInv == Init => IInv
<1> SUFFICES ASSUME Init PROVE IInv
  OBVIOUS
<1> USE SchedulerAssumption
<1>1. TypeOK
  <2>1. \A t \in Thread \union {Boot} : Fresh(t) \in Context
    BY DEF Fresh, Context
  <2>2. ctx \in [Thread -> Context] /\ regs \in [CPU -> Context]
    BY <2>1 DEF Init
  <2>3. /\ queue \in [CPU -> Seq(Thread)] /\ current_item \in [CPU -> Nat]
        /\ \A c \in CPU : current_item[c] <= Len(queue[c])
    BY DEF Init, ListHead
  <2>4. /\ current_thread \in [CPU -> Thread \union {NoThread}]
        /\ cr3 \in [CPU -> Thread \union {NoThread}]
        /\ pc \in [CPU -> {"run", "handler", "eoi"}]
        /\ progress \in [Thread -> 0 .. Steps - 1] /\ round \in [CPU -> SUBSET Thread]
    BY DEF Init
  <2> QED BY <2>2, <2>3, <2>4 DEF Init, TypeOK
<1>2. QueueInv
  BY <1>1, MachineSize DEF Init, QueueInv, CPU, AP
<1>3. QuietInv /\ RoundInv
  BY DEF Init, QuietInv, RoundInv, ListHead, Fresh
<1>4. OneQueuePerThread
  BY DEF Init, OneQueuePerThread, NoThread
<1>5. ContextsKept
  BY DEF Init, ContextsKept, NoThread, Fresh
<1> QED BY <1>1, <1>2, <1>3, <1>4, <1>5 DEF IInv

(* Everything but kmain, i, thread_global_id and the queues. *)
rest == <<machine, threads, regs, pc, apic, progress>>

(* A new thread is in no queue, and no AP has started yet. *)
LEMMA SpawnKeeps ==
  ASSUME IInv, NEW c \in AP, kmain # "loop", Spawn(c), UNCHANGED rest,
         thread_global_id \in Thread
  PROVE  /\ queue' \in [CPU -> Seq(Thread)]
         /\ \A d \in CPU : Len(queue'[d]) >= Len(queue[d])
         /\ Len(queue'[c]) > 0
         /\ \A d \in CPU : \A k \in 1 .. Len(queue'[d]) : queue'[d][k] < thread_global_id'
         /\ OneQueuePerThread' /\ RoundInv' /\ QuietInv' /\ ContextsKept'
<1>1. c \in CPU /\ queue \in [CPU -> Seq(Thread)]
  BY DEF IInv, TypeOK, AP
<1>2. queue' = [queue EXCEPT ![c] = Append(queue[c], thread_global_id)] /\ thread_global_id' = thread_global_id + 1
  BY DEF Spawn
<1>3. \A d \in CPU : queue[d] \in Seq(Thread) /\ Len(queue[d]) \in Nat
  BY <1>1
<1>4. /\ queue'[c] \in Seq(Thread) /\ Len(queue'[c]) = Len(queue[c]) + 1
      /\ \A k \in 1 .. Len(queue[c]) : queue'[c][k] = queue[c][k]
      /\ queue'[c][Len(queue[c]) + 1] = thread_global_id
  BY <1>1, <1>2, <1>3, Appended
<1>5. \A d \in CPU \ {c} : queue'[d] = queue[d]
  BY <1>1, <1>2
<1>6. queue' \in [CPU -> Seq(Thread)]
  BY <1>1, <1>2, <1>4
<1>7. \A d \in CPU : Len(queue'[d]) >= Len(queue[d])
  BY <1>3, <1>4, <1>5
<1>8. Len(queue'[c]) > 0
  BY <1>1, <1>3, <1>4
<1>9. \A d \in CPU : \A k \in 1 .. Len(queue[d]) : queue[d][k] < thread_global_id /\ queue[d][k] \in Nat
  BY <1>1, SchedulerAssumption DEF IInv, QueueInv, Thread
<1>10. thread_global_id \in Nat
  BY DEF IInv, TypeOK
<1>11. \A d \in CPU : \A k \in 1 .. Len(queue'[d]) : queue'[d][k] < thread_global_id'
  BY <1>2, <1>3, <1>4, <1>5, <1>9, <1>10
<1>12. \A d \in CPU : /\ current_thread[d] = NoThread /\ current_thread'[d] = NoThread
                      /\ cr3'[d] = NoThread /\ round'[d] = {} /\ current_item'[d] = ListHead
  BY DEF IInv, QuietInv, rest, threads, OneQueuePerThread
<1>13. OneQueuePerThread'
  <2>1. \A d, e \in CPU : \A k \in 1 .. Len(queue[d]), m \in 1 .. Len(queue[e]) :
          queue[d][k] = queue[e][m] => d = e /\ k = m
    BY DEF IInv, OneQueuePerThread
  <2>2. ASSUME NEW d \in CPU, NEW e \in CPU, NEW k \in 1 .. Len(queue'[d]),
               NEW m \in 1 .. Len(queue'[e]), queue'[d][k] = queue'[e][m]
        PROVE  d = e /\ k = m
    <3>1. ASSUME NEW x \in CPU, NEW n \in 1 .. Len(queue'[x])
          PROVE  \/ n \in 1 .. Len(queue[x]) /\ queue'[x][n] = queue[x][n]
                 \/ x = c /\ n = Len(queue[c]) + 1 /\ queue'[x][n] = thread_global_id
      <4>1. CASE x = c
        BY <3>1, <4>1, <1>1, <1>3, <1>4
      <4>2. CASE x # c
        BY <3>1, <4>2, <1>5
      <4> QED BY <4>1, <4>2
    <3>2. \/ k \in 1 .. Len(queue[d]) /\ queue'[d][k] = queue[d][k]
          \/ d = c /\ k = Len(queue[c]) + 1 /\ queue'[d][k] = thread_global_id
      BY <3>1
    <3>3. \/ m \in 1 .. Len(queue[e]) /\ queue'[e][m] = queue[e][m]
          \/ e = c /\ m = Len(queue[c]) + 1 /\ queue'[e][m] = thread_global_id
      BY <3>1
    <3>4. /\ k \in 1 .. Len(queue[d]) => queue[d][k] # thread_global_id
          /\ m \in 1 .. Len(queue[e]) => queue[e][m] # thread_global_id
      BY <1>9, <1>10
    <3> QED BY <3>2, <3>3, <3>4, <2>1, <2>2
  <2> QED BY <2>2, <1>12 DEF OneQueuePerThread
<1>14. RoundInv'
  BY <1>12 DEF RoundInv
<1>15. QuietInv' /\ ContextsKept'
  <2>2. UNCHANGED <<lapic_ids, smp_bsp_id, pc, pending, timer, current_thread, regs, current_item, round, ctx, progress>>
    BY DEF rest, machine, threads, apic
  <2>3. QuietInv'
    BY <2>2 DEF QuietInv, IInv, AP
  <2>4. ContextsKept'
    BY <2>2 DEF ContextsKept, IInv
  <2> QED BY <2>3, <2>4
<1> QED BY <1>6, <1>7, <1>8, <1>11, <1>13, <1>14, <1>15

LEMMA BootIInv == IInv /\ BootStep => IInv'
<1> SUFFICES ASSUME IInv, BootStep PROVE IInv'
  OBVIOUS
<1> USE SchedulerAssumption
<1>1. /\ Cardinality(lapic_ids) \in 0 .. SMP_MAX_CPU_COUNT
      /\ Cardinality(AP) \in 0 .. SMP_MAX_CPU_COUNT /\ AP \subseteq CPU
  BY MachineSize DEF IInv, TypeOK, AP
<1>2. ASSUME UNCHANGED rest, kmain # "loop",
             kmain' \in {"sched_init", "threads", "loop", "fault"},
             i' \in 0 .. SMP_MAX_CPU_COUNT, thread_global_id' \in Nat,
             queue' \in [CPU -> Seq(Thread)],
             \A d \in CPU : Len(queue'[d]) >= Len(queue[d])
      PROVE  TypeOK'
  <2>1. UNCHANGED <<lapic_ids, smp_bsp_id, pc, pending, in_service, timer, current_thread, regs,
                    current_item, round, ctx, cr3, progress>>
    BY <1>2 DEF rest, machine, threads, apic
  <2>2. \A c \in CPU : current_item'[c] <= Len(queue'[c])
    BY <2>1, <1>2 DEF IInv, QuietInv, ListHead, TypeOK
  <2> QED BY <1>2, <2>1, <2>2 DEF IInv, TypeOK
<1>3. ASSUME UNCHANGED rest, UNCHANGED queue
      PROVE  OneQueuePerThread' /\ RoundInv' /\ ContextsKept'
  <2>1. UNCHANGED <<current_thread, regs, current_item, round, ctx, cr3, progress>>
    BY <1>3 DEF rest, threads
  <2>2. OneQueuePerThread'
    BY <1>3, <2>1 DEF IInv, OneQueuePerThread, Queued
  <2>3. RoundInv'
    BY <1>3, <2>1 DEF IInv, RoundInv, Queued
  <2>4. ContextsKept'
    BY <2>1 DEF IInv, ContextsKept
  <2> QED BY <2>2, <2>3, <2>4
<1>4. ASSUME UNCHANGED rest, kmain # "loop" PROVE QuietInv' /\ AP' = AP
  BY <1>4 DEF IInv, QuietInv, rest, machine, threads, apic, AP
<1>5. ASSUME sched_init PROVE IInv'
  <2>1. /\ kmain = "sched_init" /\ i < Cardinality(lapic_ids) /\ UNCHANGED rest
        /\ thread_global_id <= i /\ thread_global_id \in Nat /\ i \in Nat /\ kmain # "loop"
    BY <1>5 DEF sched_init, rest, IInv, QueueInv, TypeOK
  <2>2. CASE Fault
    <3>1. kmain' = "fault" /\ UNCHANGED <<i, thread_global_id, queue>>
      BY <2>2 DEF Fault
    <3>2. TypeOK'
      <4>1. queue \in [CPU -> Seq(Thread)] /\ \A d \in CPU : Len(queue[d]) \in Nat
        BY DEF IInv, TypeOK
      <4>2. i \in 0 .. SMP_MAX_CPU_COUNT
        BY DEF IInv, TypeOK
      <4> QED BY <3>1, <4>1, <4>2, <2>1, <1>2
    <3>3. QueueInv'
      BY <3>1 DEF IInv, QueueInv
    <3> QED BY <3>1, <3>2, <3>3, <2>1, <1>3, <1>4 DEF IInv
  <2>3. CASE i = smp_bsp_id /\ i' = i + 1 /\ kmain' = kmain /\ UNCHANGED <<queue, thread_global_id>>
    <3>1. TypeOK'
      <4>1. queue \in [CPU -> Seq(Thread)] /\ \A d \in CPU : Len(queue[d]) \in Nat
        BY DEF IInv, TypeOK
      <4> QED BY <4>1, <2>1, <2>3, <1>1, <1>2
    <3>2. AP' = AP /\ lapic_ids' = lapic_ids /\ i \in lapic_ids
      BY <2>1, <2>3, <1>4 DEF rest, machine, IInv, TypeOK
    <3>3. \A c \in AP : c < i' => Len(queue[c]) > 0
      BY <2>1, <2>3, <1>1 DEF IInv, QueueInv, AP, CPU
    <3>4. QueueInv'
      BY <3>2, <3>3, <2>1, <2>3, <1>1 DEF IInv, QueueInv
    <3> QED BY <3>1, <3>4, <2>1, <2>3, <1>3, <1>4 DEF IInv
  <2>4. CASE i \in lapic_ids /\ i # smp_bsp_id /\ i' = i + 1 /\ kmain' = kmain /\ Spawn(i)
    <3>1. i \in AP /\ thread_global_id \in Thread
      BY <2>1, <2>4, <1>1 DEF AP, Thread
    <3>2. /\ queue' \in [CPU -> Seq(Thread)]
          /\ \A d \in CPU : Len(queue'[d]) >= Len(queue[d])
          /\ Len(queue'[i]) > 0
          /\ \A d \in CPU : \A k \in 1 .. Len(queue'[d]) : queue'[d][k] < thread_global_id'
          /\ OneQueuePerThread' /\ RoundInv' /\ QuietInv' /\ ContextsKept'
      BY <2>1, <2>4, <3>1, SpawnKeeps
    <3>3. thread_global_id' = thread_global_id + 1
      BY <2>4 DEF Spawn
    <3>4. TypeOK'
      BY <2>1, <2>4, <3>2, <3>3, <1>1, <1>2
    <3>5. AP' = AP /\ lapic_ids' = lapic_ids
      BY <2>1, <1>4 DEF rest, machine
    <3>6. \A c \in AP : c < i' => Len(queue'[c]) > 0
      <4>1. ASSUME NEW c \in AP, c < i', c # i PROVE Len(queue'[c]) > 0
        <5>1. c \in CPU /\ c < i
          BY <4>1, <2>1, <2>4, <1>1 DEF CPU
        <5>2. Len(queue[c]) > 0
          BY <4>1, <5>1, <2>1 DEF IInv, QueueInv
        <5>3. Len(queue[c]) \in Nat
          BY <5>1 DEF IInv, TypeOK
        <5>4. Len(queue'[c]) \in Nat
          BY <5>1, <3>2
        <5> QED BY <5>1, <5>2, <5>3, <5>4, <3>2
      <4> QED BY <4>1, <3>2
    <3>7. QueueInv'
      BY <3>2, <3>3, <3>5, <3>6, <2>1, <2>4, <1>1 DEF IInv, QueueInv
    <3> QED BY <3>2, <3>4, <3>7 DEF IInv
  <2> QED BY <1>5, <2>1, <2>2, <2>3, <2>4 DEF sched_init
<1>6. ASSUME sched_init_done PROVE IInv'
  <2>1. /\ kmain = "sched_init" /\ i = Cardinality(lapic_ids) /\ kmain' = "threads"
        /\ UNCHANGED rest /\ UNCHANGED <<i, thread_global_id, queue>> /\ kmain # "loop"
    BY <1>6 DEF sched_init_done, rest
  <2>2. TypeOK'
    BY <2>1, <1>2 DEF IInv, TypeOK
  <2>3. 0 .. i - 1 \subseteq lapic_ids
    BY <2>1 DEF IInv, QueueInv
  <2>4. lapic_ids = 0 .. i - 1
    <3>1. IsFiniteSet(lapic_ids) /\ i \in Nat
      BY MachineSize DEF IInv, TypeOK
    <3>2. Cardinality(0 .. i - 1) = i
      BY <3>1, FS_Interval
    <3> QED BY <2>1, <2>3, <3>1, <3>2, FS_Subset
  <2>5. \A c \in AP : Len(queue[c]) > 0
    <3>1. \A c \in AP : c < i
      BY <2>4, <1>1 DEF AP, IInv, TypeOK
    <3> QED BY <3>1, <2>1 DEF IInv, QueueInv
  <2>6. QueueInv'
    BY <2>1, <2>5, <1>4 DEF IInv, QueueInv
  <2> QED BY <2>1, <2>2, <2>6, <1>3, <1>4 DEF IInv
<1>7. ASSUME sched_add_thread PROVE IInv'
  <2>1. /\ kmain = "threads" /\ thread_global_id < Cardinality(AP) + NThreads /\ UNCHANGED rest
        /\ thread_global_id \in Nat /\ i \in 0 .. SMP_MAX_CPU_COUNT /\ kmain # "loop"
    BY <1>7 DEF sched_add_thread, rest, IInv, TypeOK
  <2>2. CASE Fault
    <3>1. kmain' = "fault" /\ UNCHANGED <<i, thread_global_id, queue>>
      BY <2>2 DEF Fault
    <3>2. TypeOK'
      <4>1. queue \in [CPU -> Seq(Thread)] /\ \A d \in CPU : Len(queue[d]) \in Nat
        BY DEF IInv, TypeOK
      <4>2. i \in 0 .. SMP_MAX_CPU_COUNT
        BY DEF IInv, TypeOK
      <4> QED BY <3>1, <4>1, <4>2, <2>1, <1>2
    <3>3. QueueInv'
      BY <3>1 DEF IInv, QueueInv
    <3> QED BY <3>1, <3>2, <3>3, <2>1, <1>3, <1>4 DEF IInv
  <2>3. ASSUME NEW c \in AP, Spawn(c), UNCHANGED <<kmain, i>> PROVE IInv'
    <3>1. thread_global_id \in Thread
      BY <2>1, <1>1 DEF Thread
    <3>2. /\ queue' \in [CPU -> Seq(Thread)]
          /\ \A d \in CPU : Len(queue'[d]) >= Len(queue[d])
          /\ \A d \in CPU : \A k \in 1 .. Len(queue'[d]) : queue'[d][k] < thread_global_id'
          /\ OneQueuePerThread' /\ RoundInv' /\ QuietInv' /\ ContextsKept'
      BY <2>1, <2>3, <3>1, SpawnKeeps
    <3>3. thread_global_id' = thread_global_id + 1
      BY <2>3 DEF Spawn
    <3>4. TypeOK'
      BY <2>1, <2>3, <3>2, <3>3, <1>1, <1>2
    <3>5. \A d \in AP : Len(queue'[d]) > 0
      <4>1. ASSUME NEW d \in AP PROVE Len(queue'[d]) > 0
        <5>1. d \in CPU /\ Len(queue[d]) > 0
          BY <4>1, <2>1, <1>1 DEF IInv, QueueInv
        <5>2. Len(queue[d]) \in Nat /\ Len(queue'[d]) \in Nat
          BY <5>1, <3>2 DEF IInv, TypeOK
        <5> QED BY <5>1, <5>2, <3>2
      <4> QED BY <4>1
    <3>6. QueueInv'
      BY <3>2, <3>5, <2>1, <2>3, <1>4 DEF QueueInv
    <3> QED BY <3>2, <3>4, <3>6 DEF IInv
  <2> QED BY <1>7, <2>2, <2>3 DEF sched_add_thread
<1>8. ASSUME sched_start PROVE IInv'
  <2>1. /\ kmain = "threads" /\ kmain' = "loop" /\ pending' = pending \union AP
        /\ UNCHANGED <<lapic_ids, smp_bsp_id, i, thread_global_id, queue, current_item,
                       current_thread, ctx, cr3, round, regs, pc, in_service, timer, progress>>
    BY <1>8 DEF sched_start, machine, threads
  <2>2. TypeOK'
    BY <2>1, <1>1 DEF IInv, TypeOK
  <2>3. QueueInv' /\ RoundInv' /\ OneQueuePerThread' /\ ContextsKept'
    BY <2>1 DEF IInv, QueueInv, RoundInv, OneQueuePerThread, ContextsKept, Queued, AP
  <2>4. QuietInv'
    BY <2>1 DEF IInv, QuietInv, AP
  <2> QED BY <2>2, <2>3, <2>4 DEF IInv
<1> QED BY <1>5, <1>6, <1>7, <1>8 DEF BootStep

(* What the steps of an AP other than Execute and sched_preempt leave, and *)
(* what is left of the invariant to show.                                  *)
LEMMA ApicIInv ==
  ASSUME IInv, NEW c \in CPU, TimerExpires(c) \/ interrupts_handle_int(c) \/ interrupts_eoi(c)
  PROVE  IInv'
<1>1. UNCHANGED <<lapic_ids, smp_bsp_id, kmain, i, thread_global_id, queue, current_item,
                  current_thread, ctx, cr3, round, regs, progress>>
  BY DEF TimerExpires, interrupts_handle_int, interrupts_eoi, machine, boot, threads
<1>2. QueueInv' /\ RoundInv' /\ OneQueuePerThread' /\ ContextsKept' /\ AP' = AP
  BY <1>1 DEF IInv, QueueInv, RoundInv, OneQueuePerThread, ContextsKept, Queued, AP
<1>3. /\ pc' \in [CPU -> {"run", "handler", "eoi"}]
      /\ pending' \subseteq CPU /\ in_service' \subseteq CPU /\ timer' \subseteq CPU
  <2>1. CASE TimerExpires(c)
    BY <2>1 DEF TimerExpires, IInv, TypeOK
  <2>2. CASE interrupts_handle_int(c)
    BY <2>2 DEF interrupts_handle_int, IInv, TypeOK
  <2>3. CASE interrupts_eoi(c)
    BY <2>3 DEF interrupts_eoi, IInv, TypeOK
  <2> QED BY <2>1, <2>2, <2>3
<1>4. TypeOK'
  BY <1>1, <1>3 DEF IInv, TypeOK
<1>5. kmain = "loop" /\ c \in AP
  BY DEF TimerExpires, interrupts_handle_int, interrupts_eoi, IInv, QuietInv
<1>6. \A d \in CPU \ {c} :
        /\ pc'[d] = pc[d]
        /\ d \in pending' <=> d \in pending
        /\ d \in timer' <=> d \in timer
  BY DEF TimerExpires, interrupts_handle_int, interrupts_eoi, IInv, TypeOK
<1>7. QuietInv'
  BY <1>1, <1>2, <1>5, <1>6 DEF IInv, QuietInv
<1> QED BY <1>2, <1>4, <1>7 DEF IInv

LEMMA ExecuteIInv ==
  ASSUME IInv, NEW c \in CPU, Execute(c)
  PROVE  IInv'
<1> DEFINE t == regs[c].thread
<1>1. /\ t # Boot
      /\ regs' = [regs EXCEPT ![c] = [thread |-> t, at |-> (regs[c].at + 1) % Steps]]
      /\ progress' = [progress EXCEPT ![t] = (progress[t] + 1) % Steps]
      /\ UNCHANGED <<lapic_ids, smp_bsp_id, kmain, i, thread_global_id, queue, current_item,
                     current_thread, ctx, cr3, round, pc, pending, in_service, timer>>
  BY DEF Execute, machine, boot, threads, apic
<1>2. regs[c] \in Context /\ regs \in [CPU -> Context] /\ progress \in [Thread -> 0 .. Steps - 1]
  BY DEF IInv, TypeOK
<1>3. t \in Thread /\ regs[c].at \in 0 .. Steps - 1
  BY <1>1, <1>2 DEF Context
<1>4. \A n \in 0 .. Steps - 1 : (n + 1) % Steps \in 0 .. Steps - 1
  BY SchedulerAssumption
<1>5. /\ current_thread[c] = t /\ regs[c] = [thread |-> t, at |-> progress[t]]
      /\ regs'[c] = [thread |-> t, at |-> progress'[t]]
  <2>1. current_thread[c] # NoThread
    BY <1>1 DEF IInv, QuietInv
  <2>2. regs[c] = [thread |-> current_thread[c], at |-> progress[current_thread[c]]]
    BY <2>1 DEF IInv, ContextsKept
  <2> QED BY <1>1, <1>2, <1>3, <2>2
<1>6. TypeOK'
  <2>1. [thread |-> t, at |-> (regs[c].at + 1) % Steps] \in Context
    BY <1>3, <1>4 DEF Context
  <2>2. regs' \in [CPU -> Context] /\ progress' \in [Thread -> 0 .. Steps - 1]
    BY <1>1, <1>2, <1>3, <1>4, <2>1
  <2> QED BY <1>1, <2>2 DEF IInv, TypeOK
<1>7. QueueInv' /\ RoundInv' /\ OneQueuePerThread' /\ AP' = AP
  BY <1>1 DEF IInv, QueueInv, RoundInv, OneQueuePerThread, Queued, AP
<1>8. QuietInv'
  BY <1>1, <1>2, <1>5, <1>7 DEF IInv, QuietInv
<1>9. ContextsKept'
  <2>1. \A d \in CPU \ {c} : current_thread[d] # NoThread => current_thread[d] # t
    BY <1>5 DEF IInv, OneQueuePerThread, Queued, NoThread
  <2>2. \A u \in Thread \ {t} : progress'[u] = progress[u]
    BY <1>1, <1>2
  <2>3. \A d \in CPU \ {c} : regs'[d] = regs[d]
    BY <1>1, <1>2
  <2>4. \A d \in CPU : current_thread[d] # NoThread => current_thread[d] \in Thread
    BY DEF IInv, TypeOK
  <2>5. ASSUME NEW d \in CPU, current_thread'[d] # NoThread
        PROVE  regs'[d] = [thread |-> current_thread'[d], at |-> progress'[current_thread'[d]]]
    <3>1. CASE d = c
      BY <3>1, <1>1, <1>5
    <3>2. CASE d # c
      BY <3>2, <2>1, <2>2, <2>3, <2>4, <2>5, <1>1 DEF IInv, ContextsKept
    <3> QED BY <3>1, <3>2
  <2>6. ASSUME NEW u \in Thread, \A d \in CPU : current_thread'[d] # u
        PROVE  ctx'[u] = [thread |-> u, at |-> progress'[u]]
    <3>1. u # t /\ progress'[u] = progress[u] /\ ctx' = ctx
      BY <2>6, <1>1, <1>5, <2>2
    <3> QED BY <3>1, <2>6, <1>1 DEF IInv, ContextsKept
  <2> QED BY <2>5, <2>6 DEF ContextsKept
<1> QED BY <1>6, <1>7, <1>8, <1>9 DEF IInv

(* sched_preempt has an item to run: it never reads the data of the head.  *)
LEMMA ItemToRun ==
  ASSUME IInv, NEW c \in CPU, pc[c] = "handler"
  PROVE  /\ kmain = "loop" /\ c \in AP
         /\ ToRun(c) \in 1 .. Len(queue[c]) /\ queue[c][ToRun(c)] \in Thread \intersect Queued(c)
         /\ ToRun(c) = IF current_item[c] = ListHead THEN 1 ELSE current_item[c]
         /\ NextItem(c, ToRun(c)) \in 0 .. Len(queue[c])
<1>1. kmain = "loop" /\ c \in AP
  BY DEF IInv, QuietInv
<1>2. Len(queue[c]) > 0
  BY <1>1 DEF IInv, QueueInv
<1>3. /\ queue[c] \in Seq(Thread) /\ Len(queue[c]) \in Nat
      /\ current_item[c] \in Nat /\ current_item[c] <= Len(queue[c])
  BY DEF IInv, TypeOK
<1>4. ToRun(c) = IF current_item[c] = ListHead THEN 1 ELSE current_item[c]
  BY <1>2, <1>3 DEF ToRun, NextItem, ListHead
<1>5. ToRun(c) \in 1 .. Len(queue[c])
  BY <1>2, <1>3, <1>4 DEF ListHead
<1>6. queue[c][ToRun(c)] \in Thread
  BY <1>3, <1>5
<1>7. queue[c][ToRun(c)] \in Queued(c)
  BY <1>5 DEF Queued
<1>8. NextItem(c, ToRun(c)) \in 0 .. Len(queue[c])
  BY <1>3, <1>5 DEF NextItem, ListHead
<1> QED BY <1>1, <1>4, <1>5, <1>6, <1>7, <1>8

(* The thread to run is new to the round, or the round is complete. *)
LEMMA NewToRound ==
  ASSUME IInv, NEW c \in CPU, pc[c] = "handler"
  PROVE  queue[c][ToRun(c)] \notin round[c] \/ round[c] = Queued(c)
<1>1. /\ ToRun(c) \in 1 .. Len(queue[c]) /\ Len(queue[c]) \in Nat
      /\ ToRun(c) = IF current_item[c] = ListHead THEN 1 ELSE current_item[c]
  BY ItemToRun DEF IInv, TypeOK
<1>2. CASE current_item[c] = ListHead
  BY <1>2 DEF IInv, RoundInv
<1>3. CASE current_item[c] # ListHead
  <2>1. round[c] = {queue[c][k] : k \in 1 .. ToRun(c) - 1}
    BY <1>1, <1>3 DEF IInv, RoundInv
  <2>2. ASSUME NEW k \in 1 .. ToRun(c) - 1 PROVE queue[c][k] # queue[c][ToRun(c)]
    BY <1>1 DEF IInv, OneQueuePerThread
  <2> QED BY <2>1, <2>2
<1> QED BY <1>2, <1>3

LEMMA PreemptIInv ==
  ASSUME IInv, NEW c \in CPU, sched_preempt(c)
  PROVE  IInv'
<1> DEFINE n == ToRun(c)
           t == queue[c][n]
           old == current_thread[c]
<1>1. /\ pc[c] = "handler"
      /\ UNCHANGED <<lapic_ids, smp_bsp_id, kmain, i, thread_global_id, queue, pending, in_service, progress>>
      /\ current_item' = [current_item EXCEPT ![c] = NextItem(c, n)]
      /\ ctx' = IF old = NoThread THEN ctx ELSE [ctx EXCEPT ![old] = regs[c]]
      /\ cr3' = [cr3 EXCEPT ![c] = t] /\ regs' = [regs EXCEPT ![c] = ctx'[t]]
      /\ current_thread' = [current_thread EXCEPT ![c] = t]
      /\ round' = [round EXCEPT ![c] = IF round[c] = Queued(c) THEN {t} ELSE round[c] \union {t}]
      /\ timer' = timer \union {c} /\ pc' = [pc EXCEPT ![c] = "eoi"]
  BY DEF sched_preempt, sched_switch_thread, machine, boot
<1>2. /\ kmain = "loop" /\ c \in AP /\ n \in 1 .. Len(queue[c])
      /\ t \in Thread /\ t \in Queued(c)
      /\ n = IF current_item[c] = ListHead THEN 1 ELSE current_item[c]
      /\ NextItem(c, n) \in 0 .. Len(queue[c])
  BY <1>1, ItemToRun
<1>3. /\ ctx \in [Thread -> Context] /\ regs \in [CPU -> Context]
      /\ current_thread \in [CPU -> Thread \union {NoThread}]
      /\ cr3 \in [CPU -> Thread \union {NoThread}]
      /\ current_item \in [CPU -> Nat] /\ \A d \in CPU : current_item[d] <= Len(queue[d])
      /\ round \in [CPU -> SUBSET Thread] /\ pc \in [CPU -> {"run", "handler", "eoi"}]
      /\ Len(queue[c]) \in Nat
  BY DEF IInv, TypeOK
<1>4. NoThread \notin Thread
  BY SchedulerAssumption DEF NoThread, Boot, Thread
<1> HIDE DEF n, t, old
<1>5. /\ current_thread'[c] = t /\ cr3'[c] = t /\ regs'[c] = ctx'[t]
      /\ current_item'[c] = NextItem(c, n)
      /\ \A d \in CPU \ {c} : /\ current_thread'[d] = current_thread[d] /\ cr3'[d] = cr3[d]
                               /\ regs'[d] = regs[d] /\ current_item'[d] = current_item[d]
                               /\ round'[d] = round[d] /\ pc'[d] = pc[d]
  BY <1>1, <1>3
<1>6. TypeOK'
  <2>1. ctx' \in [Thread -> Context]
    BY <1>1, <1>3 DEF old
  <2>2. regs' \in [CPU -> Context]
    BY <1>1, <1>2, <1>3, <2>1
  <2>3. round' \in [CPU -> SUBSET Thread]
    BY <1>1, <1>2, <1>3
  <2>4. current_item' \in [CPU -> Nat] /\ \A d \in CPU : current_item'[d] <= Len(queue'[d])
    BY <1>1, <1>2, <1>3, <1>5
  <2> QED BY <1>1, <1>2, <1>3, <2>1, <2>2, <2>3, <2>4 DEF IInv, TypeOK
<1>7. QueueInv' /\ AP' = AP /\ \A d \in CPU : Queued(d)' = Queued(d)
  BY <1>1 DEF IInv, QueueInv, AP, Queued
<1>8. QuietInv'
  BY <1>1, <1>2, <1>3, <1>4, <1>5, <1>7 DEF IInv, QuietInv
<1>9. OneQueuePerThread'
  <2>1. \A d \in CPU : current_thread'[d] \in Queued(d)' \union {NoThread} /\ cr3'[d] = current_thread'[d]
    BY <1>2, <1>5, <1>7 DEF IInv, OneQueuePerThread
  <2> QED BY <2>1, <1>1 DEF IInv, OneQueuePerThread
<1>10. RoundInv'
  <2>1. round'[c] = {queue[c][k] : k \in 1 .. n}
    <3>1. CASE current_item[c] = ListHead
      <4>1. round'[c] = {t} /\ n = 1
        BY <3>1, <1>1, <1>2, <1>3 DEF IInv, RoundInv
      <4> QED BY <4>1 DEF t
    <3>2. CASE current_item[c] # ListHead
      <4>1. round[c] = {queue[c][k] : k \in 1 .. n - 1}
        BY <3>2, <1>2 DEF IInv, RoundInv
      <4>2. \A k \in 1 .. n - 1 : queue[c][k] # t
        <5>1. ASSUME NEW k \in 1 .. n - 1, queue[c][k] = queue[c][n] PROVE FALSE
          <6>1. k \in 1 .. Len(queue[c]) /\ k # n
            BY <1>2, <1>3
          <6> QED BY <5>1, <6>1, <1>2 DEF IInv, OneQueuePerThread
        <5> QED BY <5>1 DEF t
      <4>3. round'[c] = round[c] \union {t}
        BY <4>1, <4>2, <1>1, <1>2, <1>3
      <4>4. 1 .. n = (1 .. n - 1) \union {n}
        BY <1>2, <1>3
      <4>5. \A x : x \in round'[c] <=> \E k \in 1 .. n : x = queue[c][k]
        BY <4>1, <4>3, <4>4, Zenon DEF t
      <4> QED BY <4>5
    <3> QED BY <3>1, <3>2
  <2> DEFINE AtHead(d) == current_item'[d] = ListHead /\ (round'[d] = {} \/ round'[d] = Queued(d)')
             Within(d) == /\ current_item'[d] # ListHead
                          /\ round'[d] = {queue'[d][k] : k \in 1 .. current_item'[d] - 1}
  <2>2. AtHead(c) \/ Within(c)
    <3>1. CASE n = Len(queue[c])
      <4>1. current_item'[c] = ListHead
        BY <3>1, <1>5 DEF NextItem
      <4>2. Queued(c)' = {queue[c][k] : k \in 1 .. n}
        BY <3>1, <1>1 DEF Queued
      <4> QED BY <2>1, <4>1, <4>2
    <3>2. CASE n # Len(queue[c])
      <4>1. current_item'[c] = n + 1 /\ current_item'[c] # ListHead /\ current_item'[c] - 1 = n
        BY <3>2, <1>2, <1>3, <1>5 DEF NextItem, ListHead
      <4> QED BY <2>1, <4>1, <1>1
    <3> QED BY <3>1, <3>2
  <2>3. ASSUME NEW d \in CPU \ {c} PROVE AtHead(d) \/ Within(d)
    BY <1>1, <1>5, <1>7 DEF IInv, RoundInv
  <2> QED BY <2>2, <2>3 DEF RoundInv
<1>11. ContextsKept'
  <2>1. \A d \in CPU \ {c} : current_thread[d] # t /\ (old # NoThread => current_thread[d] # old)
    <3> SUFFICES ASSUME NEW d \in CPU \ {c}
                 PROVE  current_thread[d] # t /\ (old # NoThread => current_thread[d] # old)
      OBVIOUS
    <3>1. Queued(c) \intersect Queued(d) = {}
      <4>1. \A k \in 1 .. Len(queue[c]), m \in 1 .. Len(queue[d]) : queue[c][k] # queue[d][m]
        BY <1>2 DEF IInv, OneQueuePerThread, AP
      <4> QED
        BY <4>1 DEF Queued
    <3>2. current_thread[d] \in Queued(d) \union {NoThread} /\ old \in Queued(c) \union {NoThread}
      BY <1>2 DEF IInv, OneQueuePerThread, old
    <3> QED
      BY <3>1, <3>2, <1>2, <1>4
  <2>2. old # NoThread => regs[c] = [thread |-> old, at |-> progress[old]] /\ old \in Thread
    BY <1>3 DEF IInv, ContextsKept, old
  <2>3. ctx'[t] = [thread |-> t, at |-> progress[t]]
    <3>1. CASE old = t
      BY <3>1, <2>2, <1>1, <1>2, <1>3, <1>4
    <3>2. CASE old # t
      <4>1. ctx'[t] = ctx[t]
        BY <3>2, <1>1, <1>2, <1>3
      <4>2. \A d \in CPU : current_thread[d] # t
        BY <3>2, <2>1 DEF old
      <4> QED BY <4>1, <4>2, <1>2 DEF IInv, ContextsKept
    <3> QED BY <3>1, <3>2
  <2>4. ASSUME NEW d \in CPU, current_thread'[d] # NoThread
        PROVE  regs'[d] = [thread |-> current_thread'[d], at |-> progress'[current_thread'[d]]]
    <3>1. CASE d = c
      BY <3>1, <2>3, <1>1, <1>5
    <3>2. CASE d # c
      BY <3>2, <2>4, <1>1, <1>5 DEF IInv, ContextsKept
    <3> QED BY <3>1, <3>2
  <2>5. ASSUME NEW u \in Thread, \A d \in CPU : current_thread'[d] # u
        PROVE  ctx'[u] = [thread |-> u, at |-> progress'[u]]
    <3>1. CASE u = old
      BY <3>1, <2>2, <1>1, <1>3, <1>4
    <3>2. CASE u # old
      <4>1. ctx'[u] = ctx[u]
        BY <3>2, <1>1, <1>3
      <4>2. \A d \in CPU : current_thread[d] # u
        BY <3>2, <2>5, <1>5 DEF old
      <4> QED BY <4>1, <4>2, <1>1 DEF IInv, ContextsKept
    <3> QED BY <3>1, <3>2
  <2> QED BY <2>4, <2>5 DEF ContextsKept
<1> QED BY <1>6, <1>7, <1>8, <1>9, <1>10, <1>11 DEF IInv

LEMMA NextIInv == IInv /\ [Next]_vars => IInv'
<1> SUFFICES ASSUME IInv, [Next]_vars PROVE IInv'
  OBVIOUS
<1>1. CASE BootStep
  BY <1>1, BootIInv
<1>2. ASSUME NEW c \in CPU, Execute(c) PROVE IInv'
  BY <1>2, ExecuteIInv
<1>3. ASSUME NEW c \in CPU, TimerExpires(c) PROVE IInv'
  BY <1>3, ApicIInv
<1>4. ASSUME NEW c \in CPU, Switch(c) PROVE IInv'
  <2>1. CASE interrupts_handle_int(c) \/ interrupts_eoi(c)
    BY <2>1, ApicIInv
  <2>2. CASE sched_preempt(c)
    BY <2>2, PreemptIInv
  <2> QED BY <1>4, <2>1, <2>2 DEF Switch
<1>5. CASE UNCHANGED vars
  <2>1. UNCHANGED <<lapic_ids, smp_bsp_id, kmain, i, thread_global_id, queue, current_item,
                    current_thread, ctx, cr3, round, regs, pc, pending, in_service, timer, progress>>
    BY <1>5 DEF vars, machine, boot, threads, apic
  <2>2. TypeOK' /\ QueueInv'
    BY <2>1 DEF IInv, TypeOK, QueueInv, AP
  <2>3. QuietInv' /\ RoundInv'
    BY <2>1 DEF IInv, QuietInv, RoundInv, AP, Queued
  <2>4. OneQueuePerThread' /\ ContextsKept'
    BY <2>1 DEF IInv, OneQueuePerThread, ContextsKept, Queued
  <2> QED BY <2>2, <2>3, <2>4 DEF IInv
<1> QED BY <1>1, <1>2, <1>3, <1>4, <1>5 DEF Next

----------------------------------------------------------------------------
LEMMA Invariance == Spec => []IInv
<1>1. Init => IInv
  BY InitIInv
<1>2. IInv /\ [Next]_vars => IInv'
  BY NextIInv
<1> QED BY <1>1, <1>2, PTL DEF Spec

(* The state keeps its shape, and current_item stays in its queue: the     *)
(* handler never takes the head of the list for a thread.                  *)
THEOREM TypeCorrect == Spec => []TypeOK
<1>1. IInv => TypeOK
  BY DEF IInv
<1> QED BY <1>1, Invariance, PTL

(* No thread is in two places, and a CPU runs only threads of its queue,   *)
(* each with its own page map.                                             *)
THEOREM OneQueue == Spec => []OneQueuePerThread
<1>1. IInv => OneQueuePerThread
  BY DEF IInv
<1> QED BY <1>1, Invariance, PTL

(* No switch of sched_switch_thread loses or mixes up a context. *)
THEOREM SwitchKeepsContexts == Spec => []ContextsKept
<1>1. IInv => ContextsKept
  BY DEF IInv
<1> QED BY <1>1, Invariance, PTL

(* sched_preempt goes round its queue. *)
THEOREM PreemptIsRoundRobin == Spec => RoundRobin
<1>1. ASSUME IInv, [Next]_vars, NEW c \in CPU, pc[c] = "handler", pc'[c] # "handler"
      PROVE  current_thread'[c] \notin round[c] \/ round[c] = Queued(c)
  <2>1. kmain = "loop" /\ pc \in [CPU -> {"run", "handler", "eoi"}]
        /\ current_thread \in [CPU -> Thread \union {NoThread}]
    BY <1>1, ItemToRun DEF IInv, TypeOK
  <2>2. sched_preempt(c)
    <3>1. CASE BootStep
      BY <3>1, <1>1 DEF BootStep, sched_init, sched_init_done, sched_add_thread, sched_start
    <3>2. ASSUME NEW d \in CPU, Execute(d) \/ TimerExpires(d) PROVE FALSE
      BY <3>2, <1>1 DEF Execute, TimerExpires
    <3>3. ASSUME NEW d \in CPU, Switch(d) PROVE sched_preempt(c)
      BY <3>3, <2>1, <1>1 DEF Switch, interrupts_handle_int, sched_preempt, interrupts_eoi
    <3>4. CASE UNCHANGED vars
      BY <3>4, <1>1 DEF vars
    <3> QED BY <1>1, <3>1, <3>2, <3>3, <3>4 DEF Next
  <2>3. current_thread'[c] = queue[c][ToRun(c)]
    BY <2>1, <2>2 DEF sched_preempt, sched_switch_thread
  <2> QED BY <2>3, <1>1, NewToRound
<1>2. IInv /\ [Next]_vars =>
        [\A c \in CPU : (pc[c] = "handler" /\ pc'[c] # "handler") =>
           (current_thread'[c] \notin round[c] \/ round[c] = Queued(c))]_vars
  BY <1>1
<1> QED BY <1>2, Invariance, PTL DEF Spec, RoundRobin
----------------------------------------------------------------------------
(* Where threads are placed.  In sched_init the APs before i have their    *)
(* idle thread; when it is done the ids of the CPUs are known to count up. *)
PlaceInv ==
  /\ kmain = "sched_init" =>
       \A c \in CPU : Len(queue[c]) = IF c \in AP /\ c < i THEN 1 ELSE 0
  /\ kmain \in {"threads", "loop"} => lapic_ids = 0 .. Cardinality(lapic_ids) - 1
  /\ ThreadsPlaced

LEMMA LeastOf ==
  ASSUME NEW T \in SUBSET Nat, T # {}
  PROVE  \E n \in T : \A m \in T : n <= m
<1> DEFINE R == OpToRel(<, Nat)
<1>1. IsWellFoundedOn(R, Nat)
  BY NatLessThanWellFounded
<1>2. \E n \in T : \A m \in T : <<m, n>> \notin R
  <2> HIDE DEF R
  <2> QED BY <1>1, WFMin
<1>3. \A m, n \in Nat : <<m, n>> \notin R => n <= m
  BY DEF OpToRel
<1> QED BY <1>2, <1>3

(* sched_pick_cpu returns a candidate with a shortest queue. *)
LEMMA PickedHasLeast ==
  ASSUME TypeOK, Candidates # {}
  PROVE  /\ sched_pick_cpu \in Candidates
         /\ \A d \in Candidates : Len(queue[sched_pick_cpu]) <= Len(queue[d])
<1>1. Cardinality(lapic_ids) \in 0 .. SMP_MAX_CPU_COUNT
  BY MachineSize
<1>2. \A c \in Candidates : c \in Nat /\ Load(c) \in Nat
  BY <1>1, SchedulerAssumption DEF TypeOK, Candidates, CPU, Load
<1>3. PICK least \in {Load(c) : c \in Candidates} : \A l \in {Load(c) : c \in Candidates} : least <= l
  <2>1. {Load(c) : c \in Candidates} \in SUBSET Nat /\ {Load(c) : c \in Candidates} # {}
    BY <1>2
  <2> QED BY <2>1, LeastOf
<1>4. PICK c \in {d \in Candidates : Load(d) = least} : \A d \in {d \in Candidates : Load(d) = least} : c <= d
  <2>1. {d \in Candidates : Load(d) = least} \in SUBSET Nat /\ {d \in Candidates : Load(d) = least} # {}
    BY <1>2
  <2> QED BY <2>1, LeastOf
<1> DEFINE Picks(x) == \A d \in Candidates : Load(x) < Load(d) \/ (Load(x) = Load(d) /\ x <= d)
<1>5. c \in Candidates /\ Picks(c)
  BY <1>2, <1>3, <1>4
<1>6. sched_pick_cpu = CHOOSE x \in Candidates : Picks(x)
  BY DEF sched_pick_cpu
<1>7. sched_pick_cpu \in Candidates /\ Picks(sched_pick_cpu)
  <2> HIDE DEF Picks
  <2> QED BY <1>5, <1>6
<1> QED BY <1>2, <1>7 DEF Load

LEMMA InitPlaced == Init => PlaceInv
<1> SUFFICES ASSUME Init PROVE PlaceInv
  OBVIOUS
<1>1. \A c \in CPU : Len(queue[c]) = 0 /\ ~(c < i)
  BY SchedulerAssumption DEF Init, CPU
<1> QED BY <1>1 DEF Init, PlaceInv, ThreadsPlaced, FaultCauses, Balanced

(* How long the queues are after a thread was added. *)
LEMMA SpawnLengthens ==
  ASSUME TypeOK, NEW c \in CPU, Spawn(c)
  PROVE  /\ Len(queue'[c]) = Len(queue[c]) + 1
         /\ \A d \in CPU \ {c} : queue'[d] = queue[d]
         /\ \A d \in CPU : Len(queue[d]) \in Nat
<1>1. queue \in [CPU -> Seq(Thread)]
  BY DEF TypeOK
<1>2. queue' = [queue EXCEPT ![c] = Append(queue[c], thread_global_id)]
  BY DEF Spawn
<1>3. Len(Append(queue[c], thread_global_id)) = Len(queue[c]) + 1
  BY <1>1
<1> QED BY <1>1, <1>2, <1>3

LEMMA BootPlaced == IInv /\ PlaceInv /\ BootStep => PlaceInv'
<1> SUFFICES ASSUME IInv, PlaceInv, BootStep PROVE PlaceInv'
  OBVIOUS
<1> USE SchedulerAssumption
<1>1. TypeOK /\ UNCHANGED <<lapic_ids, smp_bsp_id>>
  BY DEF IInv, BootStep, sched_init, sched_init_done, sched_add_thread, sched_start, machine
<1>2. Cardinality(lapic_ids) \in 0 .. SMP_MAX_CPU_COUNT /\ IsFiniteSet(lapic_ids)
  BY <1>1, MachineSize
<1>3. AP' = AP /\ AP \subseteq CPU /\ \A c \in CPU : Len(queue[c]) \in Nat
  BY <1>1 DEF TypeOK, AP
<1>4. i \in Nat
  BY <1>1 DEF TypeOK
<1>5. CASE sched_init
  <2>1. CASE i \notin lapic_ids
    <3>1. kmain' = "fault" /\ i < Cardinality(lapic_ids)
      BY <1>5, <2>1 DEF sched_init, Fault
    <3>2. lapic_ids' # 0 .. Cardinality(lapic_ids') - 1
      BY <1>1, <1>2, <1>4, <2>1, <3>1
    <3> QED BY <3>1, <3>2 DEF PlaceInv, ThreadsPlaced, FaultCauses, Balanced
  <2>2. CASE i \in lapic_ids
    <3>1. kmain = "sched_init" /\ kmain' = "sched_init" /\ i' = i + 1
      BY <1>5, <2>2 DEF sched_init
    <3>2. \A c \in CPU : Len(queue[c]) = IF c \in AP /\ c < i THEN 1 ELSE 0
      BY <3>1 DEF PlaceInv
    <3>3. \A c \in CPU : c \in Nat
      BY DEF CPU
    <3>4. \A c \in CPU : Len(queue'[c]) = IF c \in AP /\ c < i + 1 THEN 1 ELSE 0
      <4>1. CASE i = smp_bsp_id
        <5>1. queue' = queue /\ i \notin AP
          BY <1>5, <2>2, <4>1 DEF sched_init, AP
        <5> QED BY <5>1, <3>2, <3>3, <1>4
      <4>2. CASE i # smp_bsp_id
        <5>1. Spawn(i) /\ i \in AP /\ i \in CPU
          BY <1>1, <1>5, <2>2, <4>2 DEF sched_init, AP, TypeOK
        <5>2. Len(queue'[i]) = Len(queue[i]) + 1 /\ \A d \in CPU \ {i} : queue'[d] = queue[d]
          BY <1>1, <5>1, SpawnLengthens
        <5> QED BY <5>1, <5>2, <3>2, <3>3, <1>4
      <4> QED BY <4>1, <4>2
    <3>5. \A c \in CPU : Len(queue'[c]) = IF c \in AP' /\ c < i' THEN 1 ELSE 0
      BY <3>1, <3>4, <1>3
    <3> QED BY <3>1, <3>5 DEF PlaceInv, ThreadsPlaced, FaultCauses, Balanced
  <2> QED BY <2>1, <2>2
<1>6. CASE sched_init_done
  <2>1. /\ kmain = "sched_init" /\ kmain' = "threads" /\ i = Cardinality(lapic_ids)
        /\ queue' = queue
    BY <1>6 DEF sched_init_done
  <2>2. 0 .. i - 1 \subseteq lapic_ids
    BY <2>1 DEF IInv, QueueInv
  <2>3. lapic_ids = 0 .. Cardinality(lapic_ids) - 1
    <3>1. Cardinality(0 .. i - 1) = i
      BY <1>4, FS_Interval
    <3> QED BY <1>2, <2>1, <2>2, <3>1, FS_Subset
  <2>4. \A c \in AP : Len(queue[c]) = 1
    <3>1. \A c \in AP : c \in CPU /\ c < i
      BY <1>2, <1>3, <2>1, <2>3 DEF AP
    <3> QED BY <2>1, <3>1 DEF PlaceInv
  <2>5. Balanced'
    <3>1. \A c \in AP : queue[c] # <<>>
      BY <2>4
    <3> QED BY <1>3, <2>1, <2>4, <3>1 DEF Balanced
  <2> QED BY <1>1, <2>1, <2>3, <2>5 DEF PlaceInv, ThreadsPlaced, FaultCauses
<1>7. CASE sched_add_thread
  <2>1. /\ kmain = "threads" /\ thread_global_id < Cardinality(AP) + NThreads
        /\ lapic_ids = 0 .. Cardinality(lapic_ids) - 1 /\ Balanced
    BY <1>7 DEF sched_add_thread, PlaceInv, ThreadsPlaced
  <2>2. Candidates = AP
    BY <2>1 DEF Candidates, AP
  <2>3. CASE sched_pick_cpu \notin AP
    <3>1. AP = {}
      BY <1>1, <2>2, <2>3, PickedHasLeast
    <3>2. Cardinality(AP) = 0
      BY <3>1, FS_EmptySet
    <3>3. NThreads > 0
      BY <1>1, <2>1, <3>2 DEF TypeOK
    <3>4. kmain' = "fault"
      BY <1>7, <2>3 DEF sched_add_thread, Fault
    <3> QED BY <1>3, <3>1, <3>3, <3>4 DEF PlaceInv, ThreadsPlaced, FaultCauses, Balanced
  <2>4. CASE sched_pick_cpu \in AP
    <3> DEFINE c == sched_pick_cpu
    <3>1. c \in CPU /\ Spawn(c) /\ kmain' = "threads"
      BY <1>3, <1>7, <2>1, <2>4 DEF sched_add_thread
    <3>2. \A d \in AP : Len(queue[c]) <= Len(queue[d])
      BY <1>1, <2>2, <2>4, PickedHasLeast
    <3> HIDE DEF c
    <3>3. Len(queue'[c]) = Len(queue[c]) + 1 /\ \A d \in CPU \ {c} : queue'[d] = queue[d]
      BY <1>1, <3>1, SpawnLengthens
    <3>4. \A d, e \in AP : Len(queue[d]) <= Len(queue[e]) + 1 /\ queue[d] # <<>>
      BY <2>1 DEF Balanced
    <3>5. queue'[c] # <<>>
      <4>1. Len(queue'[c]) # 0
        BY <1>3, <3>1, <3>3
      <4> QED BY <4>1
    <3>6. \A d, e \in AP : Len(queue'[d]) <= Len(queue'[e]) + 1 /\ queue'[d] # <<>>
      BY <1>3, <3>1, <3>2, <3>3, <3>4, <3>5
    <3> QED BY <1>1, <1>3, <2>1, <3>1, <3>6 DEF PlaceInv, ThreadsPlaced, FaultCauses, Balanced
  <2> QED BY <2>3, <2>4
<1>8. CASE sched_start
  <2>1. kmain = "threads" /\ kmain' = "loop" /\ queue' = queue
    BY <1>8 DEF sched_start
  <2> QED BY <1>1, <1>3, <2>1 DEF PlaceInv, ThreadsPlaced, FaultCauses, Balanced
<1> QED BY <1>5, <1>6, <1>7, <1>8 DEF BootStep

(* kmain finds a CPU for every thread, on every machine but those without  *)
(* an AP or with a gap in the ids, and loads the APs alike.                *)
THEOREM EveryThreadPlaced == Spec => []ThreadsPlaced
<1>1. IInv /\ PlaceInv /\ [Next]_vars => PlaceInv'
  <2> SUFFICES ASSUME IInv, PlaceInv, [Next]_vars PROVE PlaceInv'
    OBVIOUS
  <2>1. CASE BootStep
    BY <2>1, BootPlaced
  <2>2. CASE UNCHANGED <<machine, boot>>
    BY <2>2 DEF machine, boot, PlaceInv, ThreadsPlaced, FaultCauses, Balanced, AP
  <2>3. ASSUME NEW c \in CPU, Execute(c) \/ TimerExpires(c) \/ Switch(c)
        PROVE  UNCHANGED <<machine, boot>>
    BY <2>3 DEF Execute, TimerExpires, Switch, interrupts_handle_int, sched_preempt, interrupts_eoi
  <2> QED BY <2>1, <2>2, <2>3 DEF Next, vars
<1>2. PlaceInv => ThreadsPlaced
  BY DEF PlaceInv
<1> QED BY <1>1, <1>2, InitPlaced, Invariance, PTL DEF Spec
============================================================================
