----------------------------- MODULE SlabCache -----------------------------
(***************************************************************************)
(* One object cache of the slab allocator, kernel/src/mm/slab.c.           *)
(*                                                                         *)
(* A cache hands objects out of per-CPU magazines.  An empty magazine is   *)
(* refilled from the slab at the head of the usable list, under the lock   *)
(* of that slab; a slab with too few objects left is moved to the full     *)
(* list and the refill goes on from the next usable slab, or a new one.    *)
(* slab_free puts an object into magazine 0 if it has room, else back into *)
(* its slab, which becomes usable again if it had no free object.          *)
(*                                                                         *)
(* CPUs interleave at the lock operations and between the moment a load    *)
(* reads free_count and the moment it stores it.  The functions that run   *)
(* under cache->lock are single steps, and so is a pop from or a push to a *)
(* magazine.  fault means that the kernel has dereferenced a null list     *)
(* pointer or read free_objs below its start; it stops there.              *)
(***************************************************************************)
EXTENDS Naturals, FiniteSets

CONSTANTS
  NCPU,        \* smp_cpu_count
  total_count, \* objects of a slab
  SLAB_MAG_OBJS, \* slots of a magazine: 32
  MaxSlabs,    \* bound: slabs there is memory for
  WithFree     \* whether callers free objects

objs_per_mag ==
  IF total_count \div 2 > SLAB_MAG_OBJS THEN SLAB_MAG_OBJS ELSE total_count \div 2

ASSUME SlabAssumption ==
  /\ NCPU \in Nat \ {0} /\ MaxSlabs \in Nat \ {0} /\ WithFree \in BOOLEAN
  /\ total_count \in Nat /\ total_count >= 2 /\ SLAB_MAG_OBJS \in Nat \ {0}

CPU   == 0 .. NCPU - 1
Slab  == 1 .. MaxSlabs
Index == 1 .. total_count
NULL  == 0
NoCPU == NCPU

(* An object is a slab and an index in it; Junk is what a magazine slot    *)
(* holds that was never filled.                                            *)
Object == Slab \X Index
Junk   == <<NULL, 0>>

VARIABLES
  usable_slab_list, full_slab_list, next, prev,   \* the lists of slabs
  free_objs, free_count,                          \* the pool of each slab
  lock,         \* who holds the lock of each slab (the code keeps a bit)
  mags,         \* loaded_mag: [objects, count] of each CPU
  nslabs,       \* slabs created so far
  cpu,          \* where each CPU is: [pc, slab, count, free]; free is the free_count it read
  fault,
  own,          \* whether this is slab_mem, whose objects describe the slabs
  held,         \* history: the objects callers have
  outstanding,  \* history: allocations minus frees
  short         \* history: some refill found fewer objects than it needed, but some

lists == <<usable_slab_list, full_slab_list, next, prev>>
pool  == <<free_objs, free_count>>
history == <<held, outstanding, short>>
vars  == <<lists, pool, lock, mags, nslabs, cpu, fault, own, history>>

----------------------------------------------------------------------------
(* The lists: circular and doubly linked.  slab_remove_from and            *)
(* slab_add_to follow next and prev without testing them.                  *)

(* The slabs on the list with this head: all that next leads to from it.   *)
Closed(S) == \A s \in S : next[s] # NULL => next[s] \in S
Reachable(head) ==
  {s \in Slab : \A S \in SUBSET Slab : {head} \ {NULL} \subseteq S /\ Closed(S) => s \in S}

slab_remove_from(s, head) ==
  LET p == [prev EXCEPT ![next[s]] = prev[s]]
      n == [next EXCEPT ![p[s]] = next[s]]
  IN  [next |-> [n EXCEPT ![s] = NULL],
       prev |-> [p EXCEPT ![s] = NULL],
       head |-> IF head # s THEN head ELSE IF n[s] = s THEN NULL ELSE n[s]]
RemoveFaults(s) == next[s] = NULL \/ prev[s] = NULL

(* Mutant: prev of the head is left as it was. *)
Mutant_slab_add_to(s, head) ==
  IF head = NULL
  THEN [next |-> [next EXCEPT ![s] = s], prev |-> [prev EXCEPT ![s] = s], head |-> s]
  ELSE LET last == prev[head]
       IN  [next |-> [next EXCEPT ![s] = head, ![last] = s],
            prev |-> [prev EXCEPT ![s] = last],
            head |-> head]

slab_add_to(s, head) ==
  IF head = NULL
  THEN [next |-> [next EXCEPT ![s] = s], prev |-> [prev EXCEPT ![s] = s], head |-> s]
  ELSE LET last == prev[head]
       IN  [next |-> [next EXCEPT ![s] = head, ![last] = s],
            prev |-> [prev EXCEPT ![s] = last, ![head] = s],
            head |-> head]
AddFaults(head) == head # NULL /\ prev[head] = NULL

SetLinks(l) == next' = l.next /\ prev' = l.prev

----------------------------------------------------------------------------
(* slab_load_mag asks for n objects but fills only the slots from count up *)
(* to n, and then counts n more.                                           *)
Loaded(mag, n) == IF n > mag.count THEN n - mag.count ELSE 0
(* Mutant: free_count is decremented after the read, not before. *)
Mutant_slab_load_mag(mag, s, free, n) ==
  [objects |-> [k \in DOMAIN mag.objects |->
                  IF k > mag.count /\ k <= n /\ free + mag.count + 2 - k \in Index
                  THEN <<s, free_objs[s][free + mag.count + 2 - k]>>
                  ELSE mag.objects[k]],
   count |-> mag.count + n]

slab_load_mag(mag, s, free, n) ==
  [objects |-> [k \in DOMAIN mag.objects |->
                  IF k > mag.count /\ k <= n /\ free + mag.count + 1 - k \in Index
                  THEN <<s, free_objs[s][free + mag.count + 1 - k]>>
                  ELSE mag.objects[k]],
   count |-> mag.count + n]

(* objects[--count]: what the caller gets, and the magazine after it. *)
TopOf(mag) == mag.objects[mag.count]
Pop(mag) == [mag EXCEPT !.count = @ - 1]
Push(mag, o) == [objects |-> [mag.objects EXCEPT ![mag.count + 1] = o], count |-> mag.count + 1]

IdleCPU == [pc |-> "idle", slab |-> NULL, count |-> 0, free |-> 0]
Goto(c, pc) == cpu' = [cpu EXCEPT ![c].pc = pc]

(* slab_create_cache creates the first slab, and slab_setup_mag fills the  *)
(* magazines from it until it is empty.  Fresh memory reads as zero.       *)
LeftFor(c) == IF total_count > c * objs_per_mag THEN total_count - c * objs_per_mag ELSE 0
slab_setup_mag(c) ==
  [objects |-> [k \in 1 .. objs_per_mag |->
                  IF k <= LeftFor(c) THEN <<1, LeftFor(c) + 1 - k>> ELSE Junk],
   count |-> IF LeftFor(c) > objs_per_mag THEN objs_per_mag ELSE LeftFor(c)]

Init ==
  /\ usable_slab_list = 1 /\ full_slab_list = NULL
  /\ next = [s \in Slab |-> IF s = 1 THEN 1 ELSE NULL] /\ prev = next
  /\ free_objs = [s \in Slab |-> [i \in Index |-> i]]
  /\ free_count = [s \in Slab |-> IF s = 1 THEN LeftFor(NCPU) ELSE 0]
  /\ lock = [s \in Slab |-> NoCPU]
  /\ mags = [c \in CPU |-> slab_setup_mag(c)]
  /\ nslabs = 1
  /\ cpu = [c \in CPU |-> IdleCPU]
  /\ fault = FALSE /\ own \in BOOLEAN /\ held = {} /\ outstanding = 0 /\ short = FALSE

----------------------------------------------------------------------------
(* slab_alloc by CPU c *)

(* The kernel stops where it is. *)
Fault == fault' = TRUE /\ UNCHANGED <<lists, pool, lock, mags, nslabs, cpu, history>>

HandOut(c, mag) ==
  /\ mags' = [mags EXCEPT ![c] = Pop(mag)]
  /\ held' = held \union {TopOf(mag)}
  /\ outstanding' = outstanding + 1

(* The fast path: a round is left in the magazine. *)
AllocRound(c) ==
  /\ cpu[c].pc = "idle" /\ mags[c].count > 0
  /\ HandOut(c, mags[c])
  /\ UNCHANGED <<lists, pool, lock, nslabs, cpu, fault, short>>

(* The slow path reads the head of the usable list before it takes a lock. *)
slab_alloc(c) ==
  /\ cpu[c].pc = "idle" /\ mags[c].count = 0
  /\ IF usable_slab_list = NULL THEN Fault
     ELSE /\ cpu' = [cpu EXCEPT ![c] = [IdleCPU EXCEPT !.pc = "lock", !.slab = usable_slab_list]]
          /\ UNCHANGED <<lists, pool, lock, mags, nslabs, fault, history>>

(* Mutant: the lock is not waited for. *)
Mutant_Acquire(c) ==
  /\ cpu[c].pc = "lock"
  /\ lock' = [lock EXCEPT ![cpu[c].slab] = c]
  /\ cpu' = [cpu EXCEPT ![c].pc = "load", ![c].free = free_count[cpu[c].slab]]
  /\ UNCHANGED <<lists, pool, mags, nslabs, fault, history>>

Acquire(c) ==
  /\ cpu[c].pc = "lock" /\ lock[cpu[c].slab] = NoCPU
  /\ lock' = [lock EXCEPT ![cpu[c].slab] = c]
  /\ cpu' = [cpu EXCEPT ![c].pc = "load", ![c].free = free_count[cpu[c].slab]]
  /\ UNCHANGED <<lists, pool, mags, nslabs, fault, history>>

(* Load the rounds, release the lock of the slab and hand out the last.    *)
(* Mutant: the lock is not released. *)
Mutant_LoadAndReturn(c, n) ==
  LET s == cpu[c].slab
      loaded == Loaded(mags[c], n)
  IN  IF loaded > cpu[c].free THEN Fault
      ELSE /\ HandOut(c, slab_load_mag(mags[c], s, cpu[c].free, n))
           /\ free_count' = [free_count EXCEPT ![s] = cpu[c].free - loaded]
           /\ cpu' = [cpu EXCEPT ![c] = IdleCPU]
           /\ UNCHANGED <<lists, free_objs, lock, nslabs, fault, short>>

(* Mutant: the new free_count is not stored. *)
Mutant_LoadAndReturn_count(c, n) ==
  LET s == cpu[c].slab
      loaded == Loaded(mags[c], n)
  IN  IF loaded > cpu[c].free THEN Fault
      ELSE /\ HandOut(c, slab_load_mag(mags[c], s, cpu[c].free, n))
           /\ lock' = [lock EXCEPT ![s] = NoCPU]
           /\ cpu' = [cpu EXCEPT ![c] = IdleCPU]
           /\ UNCHANGED <<lists, pool, nslabs, fault, short>>

LoadAndReturn(c, n) ==
  LET s == cpu[c].slab
      loaded == Loaded(mags[c], n)
  IN  IF loaded > cpu[c].free THEN Fault
      ELSE /\ HandOut(c, slab_load_mag(mags[c], s, cpu[c].free, n))
           /\ free_count' = [free_count EXCEPT ![s] = cpu[c].free - loaded]
           /\ lock' = [lock EXCEPT ![s] = NoCPU]
           /\ cpu' = [cpu EXCEPT ![c] = IdleCPU]
           /\ UNCHANGED <<lists, free_objs, nslabs, fault, short>>

LoadFull(c) ==
  /\ cpu[c].pc = "load" /\ cpu[c].free >= objs_per_mag
  /\ LoadAndReturn(c, objs_per_mag)

(* Too few objects: load what the slab has and retire it. *)
LoadRest(c) ==
  LET s == cpu[c].slab
      rest == cpu[c].free
  IN  /\ cpu[c].pc = "load" /\ rest < objs_per_mag
      /\ mags' = [mags EXCEPT ![c] = slab_load_mag(@, s, rest, rest)]
      /\ free_count' = [free_count EXCEPT ![s] = rest - Loaded(mags[c], rest)]
      /\ cpu' = [cpu EXCEPT ![c].pc = "remove", ![c].count = objs_per_mag - rest]
      /\ short' = (short \/ rest > 0)
      /\ UNCHANGED <<lists, free_objs, lock, nslabs, fault, held, outstanding>>

Remove(c) ==
  /\ cpu[c].pc = "remove"
  /\ IF RemoveFaults(cpu[c].slab) THEN Fault
     ELSE /\ LET l == slab_remove_from(cpu[c].slab, usable_slab_list)
             IN  SetLinks(l) /\ usable_slab_list' = l.head
          /\ Goto(c, "retire")
          /\ UNCHANGED <<full_slab_list, pool, lock, mags, nslabs, fault, history>>

Retire(c) ==
  /\ cpu[c].pc = "retire"
  /\ IF AddFaults(full_slab_list) THEN Fault
     ELSE /\ LET l == slab_add_to(cpu[c].slab, full_slab_list)
             IN  SetLinks(l) /\ full_slab_list' = l.head
          /\ Goto(c, "next")
          /\ UNCHANGED <<usable_slab_list, pool, lock, mags, nslabs, fault, history>>

(* The refill goes on from the next usable slab.  Its lock is not taken.   *)
NextUsable(c) ==
  /\ cpu[c].pc = "next" /\ usable_slab_list # NULL
  /\ cpu' = [cpu EXCEPT ![c].pc = "reload", ![c].slab = usable_slab_list,
                        ![c].free = free_count[usable_slab_list]]
  /\ UNCHANGED <<lists, pool, lock, mags, nslabs, fault, history>>

(* A new slab joins the usable list.  Its buffer and free_objs come from   *)
(* elsewhere, and so does its slab_t, but in slab_mem: there the slab_t is *)
(* popped from the magazine that is being refilled (DescribedBy), and if   *)
(* it is empty the inner slab_alloc follows the empty usable list.         *)
DescribedBy(c) == IF own THEN {TopOf(mags[c])} ELSE {}

slab_create_slab(c) ==
  LET s == nslabs + 1
  IN  /\ cpu[c].pc = "next" /\ usable_slab_list = NULL
      /\ IF own /\ mags[c].count = 0 THEN Fault
         ELSE /\ nslabs < MaxSlabs
              /\ nslabs' = s
              /\ mags' = IF own THEN [mags EXCEPT ![c] = Pop(@)] ELSE mags
              /\ held' = held \union DescribedBy(c)
              /\ outstanding' = outstanding + Cardinality(DescribedBy(c))
              /\ free_count' = [free_count EXCEPT ![s] = total_count]
              /\ LET l == slab_add_to(s, usable_slab_list)
                 IN  SetLinks(l) /\ usable_slab_list' = l.head
              /\ cpu' = [cpu EXCEPT ![c].pc = "reload", ![c].slab = s, ![c].free = total_count]
              /\ UNCHANGED <<full_slab_list, free_objs, lock, fault, short>>

Reload(c) == cpu[c].pc = "reload" /\ LoadAndReturn(c, cpu[c].count)

----------------------------------------------------------------------------
(* slab_free of object o by CPU c.  Magazine 0 is used whoever frees, and  *)
(* no lock is taken.                                                       *)

(* Mutant: a full magazine is taken to have room. *)
Mutant_FreeToMagazine(c, o) ==
  /\ cpu[c].pc = "idle" /\ o \in held \ {Junk} /\ mags[0].count <= objs_per_mag
  /\ mags' = [mags EXCEPT ![0] = Push(@, o)]
  /\ held' = held \ {o} /\ outstanding' = outstanding - 1
  /\ UNCHANGED <<lists, pool, lock, nslabs, cpu, fault, short>>

FreeToMagazine(c, o) ==
  /\ cpu[c].pc = "idle" /\ o \in held \ {Junk} /\ mags[0].count < objs_per_mag
  /\ mags' = [mags EXCEPT ![0] = Push(@, o)]
  /\ held' = held \ {o} /\ outstanding' = outstanding - 1
  /\ UNCHANGED <<lists, pool, lock, nslabs, cpu, fault, short>>

(* Mutant: the slab is made usable whatever it had. *)
Mutant_FreeToSlab(c, o) ==
  LET s == o[1]
      n == free_count[s]
  IN  /\ cpu[c].pc = "idle" /\ o \in held \ {Junk} /\ mags[0].count >= objs_per_mag
      /\ IF n = total_count THEN Fault
         ELSE /\ free_objs' = [free_objs EXCEPT ![s][n + 1] = o[2]]
              /\ free_count' = [free_count EXCEPT ![s] = n + 1]
              /\ held' = held \ {o} /\ outstanding' = outstanding - 1
              /\ cpu' = [cpu EXCEPT ![c] = [IdleCPU EXCEPT !.pc = "unretire", !.slab = s]]
              /\ UNCHANGED <<lists, lock, mags, nslabs, fault, short>>

FreeToSlab(c, o) ==
  LET s == o[1]
      n == free_count[s]
  IN  /\ cpu[c].pc = "idle" /\ o \in held \ {Junk} /\ mags[0].count >= objs_per_mag
      /\ IF n = total_count THEN Fault
         ELSE /\ free_objs' = [free_objs EXCEPT ![s][n + 1] = o[2]]
              /\ free_count' = [free_count EXCEPT ![s] = n + 1]
              /\ held' = held \ {o} /\ outstanding' = outstanding - 1
              /\ cpu' = IF n > 0 THEN cpu
                        ELSE [cpu EXCEPT ![c] = [IdleCPU EXCEPT !.pc = "unretire", !.slab = s]]
              /\ UNCHANGED <<lists, lock, mags, nslabs, fault, short>>

(* The slab had no free object, so it is taken to be on the full list.     *)
Unretire(c) ==
  /\ cpu[c].pc = "unretire"
  /\ IF RemoveFaults(cpu[c].slab) THEN Fault
     ELSE /\ LET l == slab_remove_from(cpu[c].slab, full_slab_list)
             IN  SetLinks(l) /\ full_slab_list' = l.head
          /\ Goto(c, "reuse")
          /\ UNCHANGED <<usable_slab_list, pool, lock, mags, nslabs, fault, history>>

Reuse(c) ==
  /\ cpu[c].pc = "reuse"
  /\ IF AddFaults(usable_slab_list) THEN Fault
     ELSE /\ LET l == slab_add_to(cpu[c].slab, usable_slab_list)
             IN  SetLinks(l) /\ usable_slab_list' = l.head
          /\ cpu' = [cpu EXCEPT ![c] = IdleCPU]
          /\ UNCHANGED <<full_slab_list, pool, lock, mags, nslabs, fault, history>>

----------------------------------------------------------------------------
Begin(c) ==
  \/ AllocRound(c) \/ slab_alloc(c)
  \/ WithFree /\ ~own /\ \E o \in held : FreeToMagazine(c, o) \/ FreeToSlab(c, o)

Continue(c) ==
  \/ Acquire(c) \/ LoadFull(c) \/ LoadRest(c) \/ Remove(c) \/ Retire(c)
  \/ NextUsable(c) \/ slab_create_slab(c) \/ Reload(c)
  \/ Unretire(c) \/ Reuse(c)

(* Nobody frees a slab_t. *)
Next == ~fault /\ UNCHANGED own /\ \E c \in CPU : Begin(c) \/ Continue(c)

(* A CPU inside a call goes on executing it. *)
Spec == Init /\ [][Next]_vars /\ \A c \in CPU : WF_vars(~fault /\ UNCHANGED own /\ Continue(c))

----------------------------------------------------------------------------
(* The shape of the cache's state; the count of a magazine never leaves    *)
(* its array.                                                              *)
TypeOK ==
  /\ usable_slab_list \in Slab \union {NULL} /\ full_slab_list \in Slab \union {NULL}
  /\ next \in [Slab -> Slab \union {NULL}] /\ prev \in [Slab -> Slab \union {NULL}]
  /\ free_objs \in [Slab -> [Index -> Index]]
  /\ free_count \in [Slab -> 0 .. total_count]
  /\ lock \in [Slab -> CPU \union {NoCPU}]
  /\ \A c \in CPU : /\ mags[c].count \in 0 .. objs_per_mag
                     /\ mags[c].objects \in [1 .. objs_per_mag -> Object \union {Junk}]
  /\ nslabs \in Slab /\ fault \in BOOLEAN /\ short \in BOOLEAN
  /\ held \subseteq Object \union {Junk}

(* The objects that the cache still has, slab by slab and round by round.  *)
Rounds   == {r \in CPU \X (1 .. objs_per_mag) : r[2] <= mags[r[1]].count}
PoolSlots == {p \in Slab \X Index : p[2] <= free_count[p[1]]}
RoundObject(r) == mags[r[1]].objects[r[2]]
PoolObject(p) == <<p[1], free_objs[p[1]][p[2]]>>
InCache == {RoundObject(r) : r \in Rounds} \union {PoolObject(p) : p \in PoolSlots}

(* Every object of every slab is in exactly one place: with a caller, in   *)
(* one round of one magazine, or in one slot of its slab's pool.           *)
EveryObjectOnce ==
  /\ held \union InCache = (1 .. nslabs) \X Index
  /\ Cardinality(held) + Cardinality(Rounds) + Cardinality(PoolSlots) = nslabs * total_count

(* With one CPU, the only thing that ever breaks this is a refill that     *)
(* finds some objects in the slab but too few.                             *)
ExclusiveUnlessShort == short \/ EveryObjectOnce

(* With one CPU, between calls, each slab is on exactly one of the lists,  *)
(* both lists are properly linked, and there is a usable slab: no sequence *)
(* of allocations and frees that the kernel survives loses a slab.  But    *)
(* the lock of a retired slab stays held, since slab_alloc then releases   *)
(* the lock of the slab it went on to (slab.c:200): if a free makes the    *)
(* retired one usable again, the next refill from it may wait for ever.    *)
ListsWellFormed ==
  (\A c \in CPU : cpu[c].pc = "idle") =>
    /\ TypeOK
    /\ \A s \in Reachable(full_slab_list) : lock[s] # NoCPU
    /\ Reachable(usable_slab_list) \union Reachable(full_slab_list) = 1 .. nslabs
    /\ Reachable(usable_slab_list) \intersect Reachable(full_slab_list) = {}
    /\ usable_slab_list # NULL
    /\ \A s \in 1 .. nslabs : next[s] # NULL /\ prev[next[s]] = s

(* With one CPU, the kernel can die in the cache in three ways only, short *)
(* refills apart: a refill runs on into a slab that has too few objects;   *)
(* slab_mem needs a new slab and has no slab_t left to describe it with;   *)
(* or slab_free unlinks from the full list a slab that heads the usable    *)
(* one, because its last object was loaded but no refill has missed yet.   *)
FaultCauses ==
  fault =>
    \/ short
    \/ \E c \in CPU : cpu[c].pc = "reload" /\ cpu[c].count > cpu[c].free
    \/ own /\ \E c \in CPU : cpu[c].pc = "next" /\ mags[c].count = 0
    \/ \E c \in CPU : /\ cpu[c].pc = "reuse" /\ usable_slab_list = cpu[c].slab
                      /\ free_count[cpu[c].slab] = 1

(* slab_alloc: "If there aren't enough objects to fill the mag then load   *)
(* what we have and create another slab."  What a refill leaves in a       *)
(* magazine are objects that nobody has.                                   *)
RefillsWithFreeObjects == \A r \in Rounds : RoundObject(r) \notin held \union {Junk}

(* A call of slab_alloc returns, unless memory runs out or the kernel dies *)
(* in it.                                                                  *)
AllocReturns ==
  \A c \in CPU : cpu[c].pc # "idle" ~>
    (cpu[c].pc = "idle" \/ fault \/ (nslabs = MaxSlabs /\ usable_slab_list = NULL))

(* The cache is a pool of objects: what slab_alloc returns nobody has.     *)
Pool == INSTANCE ObjectPool
IsObjectPool == Pool!Spec
============================================================================
