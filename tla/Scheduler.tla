----------------------------- MODULE Scheduler -----------------------------
(***************************************************************************)
(* The scheduler, kernel/src/sys/scheduler.c, as kmain starts it.          *)
(*                                                                         *)
(* The bootstrap CPU creates an idle thread for each other CPU (below, an  *)
(* AP), spreads the threads of kmain over the APs and sends one interrupt  *)
(* to all of them.  From then on each AP switches thread in the handler of *)
(* that interrupt, and arms its one-shot timer to raise it again.          *)
(*                                                                         *)
(* A queue is the circular list without its head: item k is queue[c][k],   *)
(* and ListHead is its head.  A context is the thread whose code it is     *)
(* in and how far that has got, modulo Steps.  While an AP is in the       *)
(* handler, regs is the frame that the stub pushed, which trap_frame       *)
(* points to and iretq loads.                                              *)
(***************************************************************************)
EXTENDS Naturals, Sequences, FiniteSets

CONSTANTS
  SMP_MAX_CPU_COUNT, \* slots of smp_cpu_vec
  NThreads,          \* threads that kmain creates
  Steps              \* bound: distinct points of a thread's execution

ASSUME SchedulerAssumption ==
  SMP_MAX_CPU_COUNT \in Nat \ {0} /\ NThreads \in Nat /\ Steps \in Nat \ {0}

CPU    == 0 .. SMP_MAX_CPU_COUNT - 1
Thread == 0 .. SMP_MAX_CPU_COUNT + NThreads - 1
Boot   == SMP_MAX_CPU_COUNT + NThreads  \* what an AP runs before its first thread
NoThread == Boot
NoCPU  == SMP_MAX_CPU_COUNT
ListHead   == 0
Context == [thread : Thread \union {Boot}, at : 0 .. Steps - 1]
Fresh(t) == [thread |-> t, at |-> 0]

VARIABLES
  lapic_ids, smp_bsp_id,       \* the machine: its CPUs, by LAPIC id
  kmain,                       \* where the bootstrap CPU is
  i,                           \* its loop index in sched_init
  thread_global_id,
  queue, current_item,         \* thread_queue of each CPU
  current_thread,
  ctx,                         \* the saved context of each thread
  regs, cr3,                   \* registers of each CPU; whose page map it uses
  pc,                          \* where each AP is in the handler
  pending, in_service, timer,  \* the CPUs whose local APIC has sched_vec requested, or is
                               \* serving it, and whose timer is armed
  progress,                    \* history: how far the code of each thread has got
  round                        \* history: threads of each queue switched to in this round

machine == <<lapic_ids, smp_bsp_id>>
boot    == <<kmain, i, thread_global_id, queue>>
threads == <<current_item, current_thread, ctx, cr3, round>>
apic    == <<pending, in_service, timer>>
vars    == <<machine, boot, threads, regs, pc, apic, progress>>

AP == lapic_ids \ {smp_bsp_id}
Queued(c) == {queue[c][k] : k \in 1 .. Len(queue[c])}

Init ==
  /\ lapic_ids \in SUBSET CPU /\ smp_bsp_id \in lapic_ids
  /\ kmain = "sched_init" /\ i = 0 /\ thread_global_id = 0
  /\ queue = [c \in CPU |-> <<>>] /\ current_item = [c \in CPU |-> ListHead]
  /\ current_thread = [c \in CPU |-> NoThread]
  /\ ctx = [t \in Thread |-> Fresh(t)]
  /\ regs = [c \in CPU |-> Fresh(Boot)] /\ cr3 = [c \in CPU |-> NoThread]
  /\ pc = [c \in CPU |-> "run"]
  /\ pending = {} /\ in_service = {} /\ timer = {}
  /\ progress = [t \in Thread |-> 0]
  /\ round = [c \in CPU |-> {}]

----------------------------------------------------------------------------
(* The bootstrap CPU *)

(* It dereferences a null cpu or a null list, and stops. *)
Fault == kmain' = "fault" /\ UNCHANGED <<i, thread_global_id, queue>>

(* Create the next thread and put it at the end of the queue of CPU c.     *)
(* Mutant: the ids of threads are not counted. *)
Mutant_Spawn(c) ==
  /\ queue' = [queue EXCEPT ![c] = Append(@, thread_global_id)]
  /\ thread_global_id' = thread_global_id

Spawn(c) ==
  /\ queue' = [queue EXCEPT ![c] = Append(@, thread_global_id)]
  /\ thread_global_id' = thread_global_id + 1

(* One turn of the loop of sched_init.  It counts from 0 to the number of  *)
(* CPUs, and takes the count for a LAPIC id.                               *)
sched_init ==
  /\ kmain = "sched_init" /\ i < Cardinality(lapic_ids)
  /\ IF i \notin lapic_ids THEN Fault
     ELSE /\ i' = i + 1 /\ kmain' = kmain
          /\ IF i = smp_bsp_id THEN UNCHANGED <<queue, thread_global_id>> ELSE Spawn(i)
  /\ UNCHANGED <<machine, threads, regs, pc, apic, progress>>

sched_init_done ==
  /\ kmain = "sched_init" /\ i = Cardinality(lapic_ids)
  /\ kmain' = "threads"
  /\ UNCHANGED <<machine, i, thread_global_id, queue, threads, regs, pc, apic, progress>>

(* The first of the APs with the shortest queue, by its own count of ids.  *)
Candidates == 0 .. Cardinality(lapic_ids) - 1 \ {smp_bsp_id}
Load(c) == Len(queue[c])
(* Mutant: the bootstrap CPU is a candidate too. *)
Mutant_sched_pick_cpu_bsp ==
  CHOOSE c \in 0 .. Cardinality(lapic_ids) - 1 :
    \A d \in 0 .. Cardinality(lapic_ids) - 1 : Load(c) < Load(d) \/ (Load(c) = Load(d) /\ c <= d)
(* Mutant: the comparison is the other way round. *)
Mutant_sched_pick_cpu ==
  IF Candidates = {} THEN NoCPU
  ELSE CHOOSE c \in Candidates :
         \A d \in Candidates : Load(c) > Load(d) \/ (Load(c) = Load(d) /\ c <= d)

sched_pick_cpu ==
  IF Candidates = {} THEN NoCPU
  ELSE CHOOSE c \in Candidates :
         \A d \in Candidates : Load(c) < Load(d) \/ (Load(c) = Load(d) /\ c <= d)

(* kmain creates a thread and adds it.  Only APs were given a list.        *)
sched_add_thread ==
  /\ kmain = "threads" /\ thread_global_id < Cardinality(AP) + NThreads
  /\ IF sched_pick_cpu \notin AP THEN Fault
     ELSE Spawn(sched_pick_cpu) /\ UNCHANGED <<kmain, i>>
  /\ UNCHANGED <<machine, threads, regs, pc, apic, progress>>

sched_start ==
  /\ kmain = "threads" /\ thread_global_id = Cardinality(AP) + NThreads
  /\ kmain' = "loop"
  /\ pending' = pending \union AP
  /\ UNCHANGED <<machine, i, thread_global_id, queue, threads, regs, pc, in_service, timer, progress>>

----------------------------------------------------------------------------
(* An AP *)

(* The code it is in goes on. *)
Execute(c) ==
  LET t == regs[c].thread
  IN  /\ pc[c] = "run" /\ t # Boot
      /\ regs' = [regs EXCEPT ![c] = [thread |-> t, at |-> (regs[c].at + 1) % Steps]]
      /\ progress' = [progress EXCEPT ![t] = (@ + 1) % Steps]
      /\ UNCHANGED <<machine, boot, threads, pc, apic>>

TimerExpires(c) ==
  /\ c \in timer
  /\ timer' = timer \ {c} /\ pending' = pending \union {c}
  /\ UNCHANGED <<machine, boot, threads, regs, pc, in_service, progress>>

(* The interrupt is taken.  The gate disables interrupts until iretq. *)
interrupts_handle_int(c) ==
  /\ pc[c] = "run" /\ c \in pending \ in_service
  /\ pending' = pending \ {c} /\ in_service' = in_service \union {c}
  /\ pc' = [pc EXCEPT ![c] = "handler"]
  /\ UNCHANGED <<machine, boot, threads, regs, timer, progress>>

(* The item after item k of the circular list. *)
(* Mutant: the list does not come back to its head. *)
Mutant_NextItem(c, k) == k + 1
NextItem(c, k) == IF k = Len(queue[c]) THEN ListHead ELSE k + 1

(* Save the frame to the thread that was running, if there was one, and    *)
(* load the frame of the thread to run.                                    *)
(* Mutant: the frame is not saved. *)
Mutant_sched_switch_thread(c, t) ==
  /\ ctx' = ctx
  /\ cr3' = [cr3 EXCEPT ![c] = t]
  /\ regs' = [regs EXCEPT ![c] = ctx'[t]]
  /\ current_thread' = [current_thread EXCEPT ![c] = t]

sched_switch_thread(c, t) ==
  /\ ctx' = IF current_thread[c] = NoThread THEN ctx
            ELSE [ctx EXCEPT ![current_thread[c]] = regs[c]]
  /\ cr3' = [cr3 EXCEPT ![c] = t]
  /\ regs' = [regs EXCEPT ![c] = ctx'[t]]
  /\ current_thread' = [current_thread EXCEPT ![c] = t]

ToRun(c) == IF current_item[c] = ListHead THEN NextItem(c, ListHead) ELSE current_item[c]

(* sched_preempt until the timer is armed again. *)
(* Mutant: the queue stays at the item it has run. *)
Mutant_sched_preempt(c) ==
  LET t == queue[c][ToRun(c)]
  IN  /\ pc[c] = "handler"
      /\ current_item' = [current_item EXCEPT ![c] = ToRun(c)]
      /\ sched_switch_thread(c, t)
      /\ round' = [round EXCEPT ![c] = IF @ = Queued(c) THEN {t} ELSE @ \union {t}]
      /\ timer' = timer \union {c}
      /\ pc' = [pc EXCEPT ![c] = "eoi"]
      /\ UNCHANGED <<machine, boot, pending, in_service, progress>>

sched_preempt(c) ==
  LET t == queue[c][ToRun(c)]
  IN  /\ pc[c] = "handler"
      /\ current_item' = [current_item EXCEPT ![c] = NextItem(c, ToRun(c))]
      /\ sched_switch_thread(c, t)
      /\ round' = [round EXCEPT ![c] = IF @ = Queued(c) THEN {t} ELSE @ \union {t}]
      /\ timer' = timer \union {c}
      /\ pc' = [pc EXCEPT ![c] = "eoi"]
      /\ UNCHANGED <<machine, boot, pending, in_service, progress>>

(* The end of the handler, and iretq.  The timer may have expired already. *)
(* Mutant: the local APIC is not told. *)
Mutant_interrupts_eoi(c) ==
  /\ pc[c] = "eoi"
  /\ pc' = [pc EXCEPT ![c] = "run"]
  /\ UNCHANGED <<machine, boot, threads, regs, pending, in_service, timer, progress>>

interrupts_eoi(c) ==
  /\ pc[c] = "eoi"
  /\ in_service' = in_service \ {c}
  /\ pc' = [pc EXCEPT ![c] = "run"]
  /\ UNCHANGED <<machine, boot, threads, regs, pending, timer, progress>>

----------------------------------------------------------------------------
BootStep == sched_init \/ sched_init_done \/ sched_add_thread \/ sched_start
Switch(c) == interrupts_handle_int(c) \/ sched_preempt(c) \/ interrupts_eoi(c)

Next == BootStep \/ \E c \in CPU : Execute(c) \/ TimerExpires(c) \/ Switch(c)

(* kmain and the handlers go on, and an armed timer expires.  Threads need *)
(* not make progress.                                                      *)
Fairness == WF_vars(BootStep) /\ \A c \in CPU : WF_vars(TimerExpires(c)) /\ WF_vars(Switch(c))
Spec == Init /\ [][Next]_vars /\ Fairness

----------------------------------------------------------------------------
(* The shape of the state; current_item never leaves the queue. *)
TypeOK ==
  /\ lapic_ids \subseteq CPU /\ smp_bsp_id \in lapic_ids
  /\ kmain \in {"sched_init", "threads", "loop", "fault"}
  /\ i \in 0 .. SMP_MAX_CPU_COUNT /\ thread_global_id \in Nat
  /\ queue \in [CPU -> Seq(Thread)]
  /\ current_item \in [CPU -> Nat] /\ \A c \in CPU : current_item[c] <= Len(queue[c])
  /\ current_thread \in [CPU -> Thread \union {NoThread}]
  /\ cr3 \in [CPU -> Thread \union {NoThread}]
  /\ ctx \in [Thread -> Context] /\ regs \in [CPU -> Context]
  /\ pc \in [CPU -> {"run", "handler", "eoi"}]
  /\ pending \subseteq CPU /\ in_service \subseteq CPU /\ timer \subseteq CPU
  /\ progress \in [Thread -> 0 .. Steps - 1] /\ round \in [CPU -> SUBSET Thread]

(* kmain meets a null pointer in the scheduler only on a machine whose     *)
(* LAPIC ids do not count up from 0, or which has no AP to add a thread to.*)
FaultCauses ==
  kmain = "fault" => (lapic_ids # 0 .. Cardinality(lapic_ids) - 1 \/ (AP = {} /\ NThreads > 0))

(* sched_pick_cpu keeps the queues of the APs within one thread of each    *)
(* other, once each has its idle thread.                                   *)
Balanced ==
  kmain \in {"threads", "loop"} =>
    \A c, d \in AP : Len(queue[c]) <= Len(queue[d]) + 1 /\ queue[c] # <<>>

(* Every thread that kmain adds finds a CPU, and a fair one: kmain dies in *)
(* sched_init and sched_pick_cpu on the machines of FaultCauses only, and  *)
(* elsewhere loads the APs alike.                                          *)
ThreadsPlaced == FaultCauses /\ Balanced

(* A thread is in one place of one queue, and a CPU runs a thread of its   *)
(* own queue, with the page map of that thread.                            *)
OneQueuePerThread ==
  /\ \A c, d \in CPU : \A k \in 1 .. Len(queue[c]), m \in 1 .. Len(queue[d]) :
       queue[c][k] = queue[d][m] => c = d /\ k = m
  /\ \A c \in CPU : /\ current_thread[c] \in Queued(c) \union {NoThread}
                     /\ cr3[c] = current_thread[c]

(* Switching loses no context: a thread that runs has the registers that   *)
(* its code has reached, and a thread that waits has them saved.           *)
ContextsKept ==
  /\ \A c \in CPU : current_thread[c] # NoThread =>
       regs[c] = [thread |-> current_thread[c], at |-> progress[current_thread[c]]]
  /\ \A t \in Thread : (\A c \in CPU : current_thread[c] # t) =>
       ctx[t] = [thread |-> t, at |-> progress[t]]

(* An AP does not switch to a thread for the second time before it has     *)
(* switched to each other thread of its queue.                             *)
RoundRobin ==
  [][\A c \in CPU : (pc[c] = "handler" /\ pc'[c] # "handler") =>
       (current_thread'[c] \notin round[c] \/ round[c] = Queued(c))]_vars

(* Every thread that kmain starts, and every idle thread, runs again and   *)
(* again, unless the kernel did not start.                                 *)
Created(t) == t < Cardinality(AP) + NThreads
ThreadsScheduled ==
  \A t \in Thread :
    []<>(~Created(t) \/ kmain = "fault" \/ \E c \in AP : pc[c] = "run" /\ regs[c].thread = t)
============================================================================
