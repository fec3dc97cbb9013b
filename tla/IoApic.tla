------------------------------- MODULE IoApic -------------------------------
(***************************************************************************)
(* How the kernel learns of the I/O APICs (acpi_find_table of              *)
(* kernel/src/arch/x86_64/acpi.c, madt_init of madt.c) and routes device   *)
(* interrupts through them (interrupts_set_handler of interrupts.c, and    *)
(* apic.c).                                                                *)
(*                                                                         *)
(* The firmware's tables are any that the constants allow.  The walk over  *)
(* the MADT takes one entry a step.  An I/O APIC is known by its place in  *)
(* madt_ioapic_vec; its input p is interrupt gsi_base + p of the machine.  *)
(***************************************************************************)
EXTENDS Naturals, Sequences, FiniteSets

CONSTANTS
  Tables,      \* bound: the tables that the firmware may list, by signature
  Entries,     \* bound: the entries a MADT is made of, see Entry
  MaxEntries,  \* bound: entries of a MADT
  VecSize,     \* slots of madt_ioapic_vec and of madt_iso_vec: 32
  Pins,        \* inputs of an I/O APIC
  Irqs         \* bound: the IRQs that get a handler

(* The flags of an override are two bits of polarity and two of trigger    *)
(* mode; 2 is reserved in both.  len0 is an entry whose length is 0.       *)
Flags == {p + 4 * t : p \in {0, 1, 3}, t \in {0, 1, 3}}
Entry == [type : {"ioapic"}, gsi_base : Nat, len0 : BOOLEAN]
         \union [type : {"iso"}, irq_src : Nat, gsi : Nat, flags : Flags, len0 : BOOLEAN]
         \union [type : {"lapic_override", "other"}, len0 : BOOLEAN]

ASSUME IoApicAssumption ==
  /\ Entries \subseteq Entry /\ MaxEntries \in Nat
  /\ VecSize \in Nat \ {0} /\ Pins \in Nat \ {0} /\ Irqs \subseteq 0 .. 15

VARIABLES
  tables, madt,       \* the firmware's: the signatures in order, the entries of the MADT
  at, i,              \* where the kernel is, and the index of its loop
  madt_ioapic_vec, madt_iso_vec,
  madt_apic_addr,
  redir,              \* the redirection table of each I/O APIC
  routed              \* history: the interrupts that were given a handler, and the last one

firmware == <<tables, madt>>
parsed   == <<madt_ioapic_vec, madt_iso_vec, madt_apic_addr>>
vars     == <<firmware, at, i, parsed, redir, routed>>

NoRoute == [vec |-> 0, low |-> FALSE, level |-> FALSE]
Pin == 0 .. Pins - 1
Vector(irq) == irq + 32

Init ==
  /\ tables \in UNION {[1 .. n -> Tables] : n \in 0 .. 2}
  /\ madt \in UNION {[1 .. n -> Entries] : n \in 0 .. MaxEntries}
  /\ at = "find" /\ i = 1
  /\ madt_ioapic_vec = <<>> /\ madt_iso_vec = <<>> /\ madt_apic_addr = "none"
  /\ redir = [k \in 1 .. VecSize |-> [p \in Pin |-> NoRoute]]
  /\ routed = [g \in {} |-> NoRoute]

----------------------------------------------------------------------------
(* acpi_find_table("APIC"), and the assertion of madt_init: a table that   *)
(* is missing is a null pointer, but the assertion subtracts hhdm_offset   *)
(* from it first, and passes.                                              *)
acpi_find_table ==
  /\ at = "find"
  /\ \/ /\ i <= Len(tables) /\ tables[i] # "APIC"
        /\ i' = i + 1 /\ UNCHANGED <<at, madt_apic_addr>>
     \/ /\ i <= Len(tables) /\ tables[i] = "APIC"
        /\ at' = "walk" /\ i' = 1 /\ madt_apic_addr' = "table"
     \/ /\ i > Len(tables)
        /\ at' = "null" /\ UNCHANGED <<i, madt_apic_addr>>
  /\ UNCHANGED <<firmware, madt_ioapic_vec, madt_iso_vec, redir, routed>>

(* One turn of the loop of madt_init.  A table with too many entries makes *)
(* it write past the end of a vector.                                      *)
(* Mutant: entries of unknown types are not stepped over. *)
Mutant_NextEntry(e) == IF e.len0 \/ e.type = "other" THEN i ELSE i + 1
NextEntry(e) == IF e.len0 THEN i ELSE i + 1

(* Mutant: the vectors are taken to be one slot shorter. *)
Mutant_Overflows(e) ==
  \/ e.type = "ioapic" /\ Len(madt_ioapic_vec) = VecSize - 1
  \/ e.type = "iso" /\ Len(madt_iso_vec) = VecSize - 1
(* Mutant: a write to the slot after the last is none past the end. *)
Mutant_Overflows_late(e) ==
  \/ e.type = "ioapic" /\ Len(madt_ioapic_vec) = VecSize + 1
  \/ e.type = "iso" /\ Len(madt_iso_vec) = VecSize + 1
Overflows(e) ==
  \/ e.type = "ioapic" /\ Len(madt_ioapic_vec) = VecSize
  \/ e.type = "iso" /\ Len(madt_iso_vec) = VecSize
Added(vec, e, type) == IF e.type = type THEN Append(vec, e) ELSE vec

madt_init ==
  /\ at = "walk" /\ i <= Len(madt)
  /\ LET e == madt[i]
     IN  IF Overflows(e) THEN at' = "overflow" /\ UNCHANGED <<i, parsed>>
         ELSE /\ madt_ioapic_vec' = Added(madt_ioapic_vec, e, "ioapic")
              /\ madt_iso_vec' = Added(madt_iso_vec, e, "iso")
              /\ madt_apic_addr' = IF e.type = "lapic_override" THEN "override" ELSE madt_apic_addr
              /\ i' = NextEntry(e)
              /\ at' = at
  /\ UNCHANGED <<firmware, redir, routed>>

madt_init_done ==
  /\ at = "walk" /\ i > Len(madt)
  /\ at' = "run"
  /\ UNCHANGED <<firmware, i, parsed, redir, routed>>

----------------------------------------------------------------------------
(* ioapic_map_irq: the first override for the IRQ, if there is one.        *)
Bit(n, b) == (n \div 2^b) % 2 = 1
Overrides(irq) == {k \in DOMAIN madt_iso_vec : madt_iso_vec[k].irq_src = irq}
(* Mutant: the bits of the trigger mode and the polarity are swapped. *)
Mutant_ioapic_map_irq(irq) ==
  IF Overrides(irq) = {} THEN [gsi |-> irq, low |-> FALSE, level |-> FALSE]
  ELSE LET iso == madt_iso_vec[CHOOSE k \in Overrides(irq) : \A j \in Overrides(irq) : k <= j]
       IN  [gsi |-> iso.gsi, low |-> Bit(iso.flags, 3), level |-> Bit(iso.flags, 1)]

ioapic_map_irq(irq) ==
  IF Overrides(irq) = {} THEN [gsi |-> irq, low |-> FALSE, level |-> FALSE]
  ELSE LET iso == madt_iso_vec[CHOOSE k \in Overrides(irq) : \A j \in Overrides(irq) : k <= j]
       IN  [gsi |-> iso.gsi, low |-> Bit(iso.flags, 1), level |-> Bit(iso.flags, 3)]

(* ioapic_map_gsi: the loop over the I/O APICs stops at the last, or where *)
(* the interrupt lies between an I/O APIC and the next.                    *)
StopsAt(k, gsi) ==
  \/ k = Len(madt_ioapic_vec)
  \/ madt_ioapic_vec[k].gsi_base <= gsi /\ madt_ioapic_vec[k + 1].gsi_base > gsi
FoundFor(gsi) ==
  CHOOSE k \in DOMAIN madt_ioapic_vec :
    StopsAt(k, gsi) /\ \A j \in 1 .. k - 1 : ~StopsAt(j, gsi)

(* The entry is numbered by the interrupt, not by the input of the I/O     *)
(* APIC; an I/O APIC ignores the entries that it does not have.            *)
interrupts_set_handler(irq) ==
  LET r == ioapic_map_irq(irq)
      route == [vec |-> Vector(irq), low |-> r.low, level |-> r.level]
  IN  /\ at = "run"
      /\ IF madt_ioapic_vec = <<>> THEN at' = "null" /\ UNCHANGED <<redir, routed>>
         ELSE /\ redir' = IF r.gsi \in Pin
                          THEN [redir EXCEPT ![FoundFor(r.gsi)][r.gsi] = route]
                          ELSE redir
              /\ routed' = [g \in DOMAIN routed \union {r.gsi} |->
                              IF g = r.gsi THEN [vec |-> Vector(irq), irq |-> irq] ELSE routed[g]]
              /\ at' = at
      /\ UNCHANGED <<firmware, i, parsed>>

Next ==
  \/ acpi_find_table \/ madt_init \/ madt_init_done
  \/ \E irq \in Irqs : interrupts_set_handler(irq)

(* Start-up goes on until drivers run. *)
Start == acpi_find_table \/ madt_init \/ madt_init_done
Spec == Init /\ [][Next]_vars /\ WF_vars(Start)

----------------------------------------------------------------------------
(* The shape of the state. *)
TypeOK ==
  /\ at \in {"find", "walk", "overflow", "null", "run"} /\ i \in Nat \ {0}
  /\ Len(madt_ioapic_vec) <= VecSize /\ Len(madt_iso_vec) <= VecSize
  /\ madt_apic_addr \in {"none", "table", "override"}
  /\ redir \in [1 .. VecSize -> [Pin -> [vec : {0} \union {Vector(irq) : irq \in Irqs},
                                         low : BOOLEAN, level : BOOLEAN]]]

(* What the MADT asks for: 3 means low, or level.                          *)
Asked(irq) ==
  LET isos == {k \in DOMAIN madt : madt[k].type = "iso" /\ madt[k].irq_src = irq}
      iso  == madt[CHOOSE k \in isos : \A j \in isos : k <= j]
  IN  IF isos = {} THEN [vec |-> Vector(irq), low |-> FALSE, level |-> FALSE]
      ELSE [vec |-> Vector(irq), low |-> iso.flags % 4 = 3, level |-> iso.flags \div 4 = 3]

(* No two I/O APICs have an interrupt in common. *)
Ascending == \A j, k \in DOMAIN madt_ioapic_vec :
  j < k => madt_ioapic_vec[j].gsi_base + Pins <= madt_ioapic_vec[k].gsi_base

(* If the firmware lists the I/O APICs in the order of their interrupts,   *)
(* the first of them, from interrupt 0, routes the interrupts that were    *)
(* given a handler as the MADT asks, each to the handler it was given      *)
(* last, and no other.                                                     *)
RoutedAsAsked ==
  at = "run" /\ Ascending => \A k \in DOMAIN madt_ioapic_vec :
    madt_ioapic_vec[k].gsi_base = 0 =>
      redir[k] = [p \in Pin |-> IF p \in DOMAIN routed THEN Asked(routed[p].irq) ELSE NoRoute]

(* At every moment the tables are well-formed and the routes right. *)
RoutesSound == TypeOK /\ RoutedAsAsked

(* The kernel dies only on a machine without a MADT or without an I/O      *)
(* APIC, or on a MADT with too many entries or one of length 0.            *)
Count(type) == Cardinality({k \in DOMAIN madt : madt[k].type = type})
HasLen0 == \E k \in DOMAIN madt : madt[k].len0
FaultCauses ==
  /\ at = "null" => \/ \A k \in DOMAIN tables : tables[k] # "APIC"
                    \/ Count("ioapic") = 0
  /\ at = "overflow" => Count("ioapic") > VecSize \/ Count("iso") > VecSize \/ HasLen0

(* The walk over the MADT ends, unless an entry has length 0. *)
WalkEnds == at = "walk" /\ ~HasLen0 ~> at # "walk"
=============================================================================
