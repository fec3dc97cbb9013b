----------------------------- MODULE BootProofs -----------------------------
(***************************************************************************)
(* Proofs about the three components that make something of what the boot  *)
(* loader and the firmware hand to the kernel, whatever that is: the MADT  *)
(* (IoApic), the memory map (PmmInit) and the archive of files (Vfs).      *)
(* They share no state.                                                    *)
(***************************************************************************)
EXTENDS IoApic, PmmInit, Vfs, Integers, TLAPS, FiniteSetTheorems, SequenceTheorems

(* The MADT. *)
(* What the walk has read when it is past the first n entries of the MADT: *)
(* all of them are in the vectors, and the first override of an IRQ in the *)
(* vector is the first one in the MADT.                                    *)
Of(type, n)  == {k \in 1 .. n : madt[k].type = type}
Isos(irq, n) == {k \in Of("iso", n) : madt[k].irq_src = irq}
IsFirst(k, S) == k \in S /\ \A j \in S : k <= j
SameFirst(irq, n) ==
  \/ Overrides(irq) = {} /\ Isos(irq, n) = {}
  \/ \E j \in Overrides(irq), k \in Isos(irq, n) :
       IsFirst(j, Overrides(irq)) /\ IsFirst(k, Isos(irq, n)) /\ madt_iso_vec[j] = madt[k]
Read(n) ==
  /\ Len(madt_ioapic_vec) = Cardinality(Of("ioapic", n))
  /\ Len(madt_iso_vec) = Cardinality(Of("iso", n))
  /\ \A irq \in Irqs : SameFirst(irq, n)

Firmware == tables \in Seq(Tables) /\ madt \in Seq(Entries)

Vectors ==
  /\ madt_ioapic_vec \in Seq(Entries) /\ Len(madt_ioapic_vec) <= VecSize
  /\ \A k \in 1 .. Len(madt_ioapic_vec) : madt_ioapic_vec[k].type = "ioapic"
  /\ madt_iso_vec \in Seq(Entries) /\ Len(madt_iso_vec) <= VecSize
  /\ madt_apic_addr \in {"none", "table", "override"}

Walked ==
  /\ at \in {"find", "walk", "overflow", "null", "run"} /\ i \in Nat \ {0}
  /\ at = "find" => /\ madt_ioapic_vec = <<>> /\ madt_iso_vec = <<>>
                    /\ i <= Len(tables) + 1 /\ \A k \in 1 .. i - 1 : tables[k] # "APIC"
  /\ at = "walk" => /\ i <= Len(madt) + 1
                    /\ i > Len(madt) \/ ~madt[i].len0 => Read(i - 1)
  /\ at = "run" => Read(Len(madt))

(* No route is set before the walk is over; then the first I/O APIC has    *)
(* the routes that were asked for.                                         *)
NoRoutes == [p \in Pin |-> NoRoute]
Routes ==
  /\ redir \in [1 .. VecSize -> [Pin -> [vec : {0} \union {Vector(irq) : irq \in Irqs},
                                         low : BOOLEAN, level : BOOLEAN]]]
  /\ at \in {"find", "walk"} => DOMAIN routed = {} /\ redir = [k \in 1 .. VecSize |-> NoRoutes]
  /\ at = "run" => \A g \in DOMAIN routed : routed[g].irq \in Irqs
  /\ at = "run" /\ Ascending /\ madt_ioapic_vec # <<>> /\ madt_ioapic_vec[1].gsi_base = 0
       => \A p \in Pin :
            /\ p \notin DOMAIN routed => redir[1][p] = NoRoute
            /\ \A irq \in Irqs : p \in DOMAIN routed /\ routed[p].irq = irq => redir[1][p] = Asked(irq)

IoInv == Firmware /\ Vectors /\ Walked /\ Routes /\ FaultCauses

(* The entries of the MADT, by type. *)
LEMMA EntryIs ==
  ASSUME NEW e \in Entries
  PROVE  /\ e.len0 \in BOOLEAN
         /\ e.type = "ioapic" => e.gsi_base \in Nat
         /\ e.type = "iso" => e.irq_src \in Nat /\ e.gsi \in Nat /\ e.flags \in Flags
BY IoApicAssumption DEF Entry

LEMMA MadtIs ==
  ASSUME Firmware
  PROVE  /\ Len(madt) \in Nat /\ DOMAIN madt = 1 .. Len(madt)
         /\ \A k \in 1 .. Len(madt) : madt[k] \in Entries
         /\ Len(tables) \in Nat /\ DOMAIN tables = 1 .. Len(tables)
BY DEF Firmware

(* The entries of a type are finitely many. *)
LEMMA OfSize ==
  ASSUME NEW n \in Nat, NEW type
  PROVE  /\ IsFiniteSet(Of(type, n)) /\ Cardinality(Of(type, n)) \in Nat
         /\ \A k \in Of(type, n) : k \in Nat /\ k <= n
<1>1. IsFiniteSet(1 .. n) /\ Of(type, n) \subseteq 1 .. n
  BY FS_Interval DEF Of
<1> QED
  BY <1>1, FS_Subset, FS_CardinalityType DEF Of

LEMMA OfOneMore ==
  ASSUME NEW n \in Nat \ {0}, NEW type
  PROVE  /\ madt[n].type = type => /\ Of(type, n) = Of(type, n - 1) \union {n}
                                   /\ Cardinality(Of(type, n)) = Cardinality(Of(type, n - 1)) + 1
         /\ madt[n].type # type => Of(type, n) = Of(type, n - 1)
<1>1. madt[n].type = type => Of(type, n) = Of(type, n - 1) \union {n}
  BY DEF Of
<1>2. madt[n].type # type => Of(type, n) = Of(type, n - 1)
  BY DEF Of
<1>3. IsFiniteSet(Of(type, n - 1)) /\ n \notin Of(type, n - 1)
  BY OfSize
<1>4. Cardinality(Of(type, n - 1) \union {n}) = Cardinality(Of(type, n - 1)) + 1
  BY <1>3, FS_AddElement
<1> QED
  BY <1>1, <1>2, <1>4

(* The first element of a set is the one that CHOOSE finds. *)
LEMMA FirstIs ==
  ASSUME NEW S, NEW k, S \subseteq Nat, IsFirst(k, S)
  PROVE  (CHOOSE j \in S : \A m \in S : j <= m) = k
<1> DEFINE P(j) == \A m \in S : j <= m
<1>1. \A j \in S : P(j) => j = k
  BY DEF IsFirst
<1>2. k \in S /\ P(k)
  BY DEF IsFirst
<1> HIDE DEF P
<1>3. (CHOOSE j \in S : P(j)) = k
  BY <1>1, <1>2
<1> QED
  BY <1>3 DEF P

(* The two bits that the kernel looks at say what the flags mean. *)
LEMMA BitsOfFlags ==
  ASSUME NEW f \in Flags
  PROVE  (Bit(f, 1) <=> f % 4 = 3) /\ (Bit(f, 3) <=> f \div 4 = 3)
<1>1. f \in {0, 1, 3, 4, 5, 7, 12, 13, 15}
  BY DEF Flags
<1>2. 2^1 = 2 /\ 2^3 = 8
  OBVIOUS
<1> QED
  BY <1>1, <1>2 DEF Bit

(* An entry of another type, or for another IRQ, is the override of no     *)
(* IRQ; one for the IRQ comes after those before it in both.               *)
LEMMA ReadOne ==
  ASSUME Firmware, Vectors, NEW n \in 1 .. Len(madt), NEW e, e = madt[n], Read(n - 1), madt' = madt,
         madt_ioapic_vec' = Added(madt_ioapic_vec, e, "ioapic"),
         madt_iso_vec' = Added(madt_iso_vec, e, "iso")
  PROVE  Read(n)'
<1>1. /\ n \in Nat \ {0} /\ e \in Entries /\ madt_ioapic_vec \in Seq(Entries)
      /\ madt_iso_vec \in Seq(Entries) /\ Len(madt_ioapic_vec) \in Nat /\ Len(madt_iso_vec) \in Nat
  BY MadtIs DEF Vectors
<1>2. \A type : Of(type, n)' = Of(type, n) /\ Of(type, n - 1)' = Of(type, n - 1)
  BY DEF Of
<1>3. Len(madt_ioapic_vec') = Cardinality(Of("ioapic", n))
  <2>1. Len(madt_ioapic_vec) = Cardinality(Of("ioapic", n - 1))
    BY DEF Read
  <2>2. CASE e.type = "ioapic"
    <3>1. Len(madt_ioapic_vec') = Len(madt_ioapic_vec) + 1
      BY <1>1, <2>2, AppendProperties DEF Added
    <3>2. Cardinality(Of("ioapic", n)) = Cardinality(Of("ioapic", n - 1)) + 1
      BY <1>1, <2>2, OfOneMore
    <3> QED
      BY <2>1, <3>1, <3>2
  <2>3. CASE e.type # "ioapic"
    BY <1>1, <2>1, <2>3, OfOneMore DEF Added
  <2> QED
    BY <2>2, <2>3
<1>4. Len(madt_iso_vec') = Cardinality(Of("iso", n))
  <2>1. Len(madt_iso_vec) = Cardinality(Of("iso", n - 1))
    BY DEF Read
  <2>2. CASE e.type = "iso"
    BY <1>1, <2>1, <2>2, OfOneMore, AppendProperties DEF Added
  <2>3. CASE e.type # "iso"
    BY <1>1, <2>1, <2>3, OfOneMore DEF Added
  <2> QED
    BY <2>2, <2>3
<1>5. ASSUME NEW irq \in Irqs PROVE SameFirst(irq, n)'
  <2>1. SameFirst(irq, n - 1)
    BY DEF Read
  <2>2. Isos(irq, n)' = Isos(irq, n)
    BY <1>2 DEF Isos
  <2>3. CASE e.type # "iso"
    <3>1. Isos(irq, n) = Isos(irq, n - 1) /\ madt_iso_vec' = madt_iso_vec
      BY <1>1, <2>3, OfOneMore DEF Isos, Added
    <3>2. Overrides(irq)' = Overrides(irq)
      BY <3>1 DEF Overrides
    <3> QED
      BY <2>1, <2>2, <3>1, <3>2 DEF SameFirst
  <2>4. CASE e.type = "iso"
    <3> DEFINE L == Len(madt_iso_vec)
    <3>1. /\ DOMAIN madt_iso_vec = 1 .. L /\ DOMAIN madt_iso_vec' = 1 .. L + 1
          /\ \A j \in 1 .. L : madt_iso_vec'[j] = madt_iso_vec[j]
          /\ madt_iso_vec'[L + 1] = e
      BY <1>1, <2>4, AppendProperties DEF Added
    <3>2. Of("iso", n) = Of("iso", n - 1) \union {n}
      BY <1>1, <2>4, OfOneMore
    <3>3. CASE e.irq_src # irq
      <4>1. Overrides(irq)' = Overrides(irq) /\ \A j \in Overrides(irq) : madt_iso_vec'[j] = madt_iso_vec[j]
        BY <1>1, <3>1, <3>3 DEF Overrides
      <4>2. Isos(irq, n) = Isos(irq, n - 1)
        BY <3>2, <3>3 DEF Isos
      <4> QED
        BY <2>1, <2>2, <4>1, <4>2 DEF SameFirst
    <3>4. CASE e.irq_src = irq
      <4>1. /\ Overrides(irq)' = Overrides(irq) \union {L + 1}
            /\ \A j \in Overrides(irq) : madt_iso_vec'[j] = madt_iso_vec[j] /\ j \in Nat /\ j <= L
        BY <1>1, <3>1, <3>4 DEF Overrides
      <4>2. /\ Isos(irq, n) = Isos(irq, n - 1) \union {n}
            /\ \A k \in Isos(irq, n - 1) : k \in Nat /\ k <= n - 1
        BY <1>1, <3>2, <3>4, OfSize DEF Isos
      <4>3. CASE Overrides(irq) = {} /\ Isos(irq, n - 1) = {}
        <5>1. Overrides(irq)' = {L + 1} /\ Isos(irq, n)' = {n}
          BY <2>2, <4>1, <4>2, <4>3
        <5>2. L + 1 <= L + 1 /\ n <= n /\ madt_iso_vec'[L + 1] = madt'[n]
          BY <1>1, <3>1
        <5> QED
          BY <5>1, <5>2 DEF SameFirst, IsFirst
      <4>4. ASSUME NEW j \in Overrides(irq), NEW k \in Isos(irq, n - 1), IsFirst(j, Overrides(irq)),
                   IsFirst(k, Isos(irq, n - 1)), madt_iso_vec[j] = madt[k]
            PROVE  SameFirst(irq, n)'
        <5>1. IsFirst(j, Overrides(irq) \union {L + 1}) /\ IsFirst(k, Isos(irq, n - 1) \union {n})
          BY <1>1, <4>1, <4>2, <4>4 DEF IsFirst
        <5>2. madt_iso_vec'[j] = madt'[k]
          BY <4>1, <4>4
        <5>3. j \in Overrides(irq)' /\ k \in Isos(irq, n)'
          BY <2>2, <4>1, <4>2, <4>4
        <5>4. IsFirst(j, Overrides(irq)') /\ IsFirst(k, Isos(irq, n)')
          BY <2>2, <4>1, <4>2, <5>1
        <5> QED
          BY <5>2, <5>3, <5>4 DEF SameFirst, IsFirst
      <4> QED
        BY <2>1, <4>3, <4>4 DEF SameFirst
    <3> QED
      BY <3>3, <3>4
  <2> QED
    BY <2>3, <2>4
<1> QED
  BY <1>2, <1>3, <1>4, <1>5 DEF Read

(* What has been read stays read. *)
LEMMA ReadKept ==
  ASSUME NEW n \in Nat, Read(n), UNCHANGED <<madt, madt_ioapic_vec, madt_iso_vec>>
  PROVE  Read(n)'
<1>1. \A type : Of(type, n)' = Of(type, n)
  BY DEF Of
<1>2. \A irq : Overrides(irq)' = Overrides(irq) /\ Isos(irq, n)' = Isos(irq, n)
  BY <1>1 DEF Overrides, Isos
<1> QED
  BY <1>1, <1>2 DEF Read, SameFirst

(* After the walk the kernel asks for what the MADT asks for. *)
LEMMA MapsAsAsked ==
  ASSUME Firmware, Vectors, Read(Len(madt)), NEW irq \in Irqs
  PROVE  /\ Asked(irq) = [vec |-> Vector(irq), low |-> ioapic_map_irq(irq).low,
                          level |-> ioapic_map_irq(irq).level]
         /\ ioapic_map_irq(irq).low \in BOOLEAN /\ ioapic_map_irq(irq).level \in BOOLEAN
<1> DEFINE S == {k \in DOMAIN madt : madt[k].type = "iso" /\ madt[k].irq_src = irq}
<1>1. S = Isos(irq, Len(madt)) /\ S \subseteq Nat /\ Overrides(irq) \subseteq Nat
  BY MadtIs DEF Isos, Of, Overrides, Vectors
<1>2. SameFirst(irq, Len(madt))
  BY DEF Read
<1>3. CASE Overrides(irq) = {} /\ S = {}
  BY <1>3 DEF ioapic_map_irq, Asked
<1>4. ASSUME NEW j \in Overrides(irq), NEW k \in S, IsFirst(j, Overrides(irq)), IsFirst(k, S),
             madt_iso_vec[j] = madt[k]
      PROVE  /\ Asked(irq) = [vec |-> Vector(irq), low |-> ioapic_map_irq(irq).low,
                              level |-> ioapic_map_irq(irq).level]
             /\ ioapic_map_irq(irq).low \in BOOLEAN /\ ioapic_map_irq(irq).level \in BOOLEAN
  <2> DEFINE e == madt[k]
  <2>1. (CHOOSE m \in Overrides(irq) : \A x \in Overrides(irq) : m <= x) = j
    BY <1>1, <1>4, FirstIs
  <2>2. (CHOOSE m \in S : \A x \in S : m <= x) = k
    BY <1>1, <1>4, FirstIs
  <2>3. e.flags \in Flags
    BY MadtIs, EntryIs
  <2>4. Overrides(irq) # {} /\ S # {}
    BY <1>4
  <2>5. ioapic_map_irq(irq) = [gsi |-> e.gsi, low |-> Bit(e.flags, 1), level |-> Bit(e.flags, 3)]
    BY <1>4, <2>1, <2>4 DEF ioapic_map_irq
  <2>6. Asked(irq) = [vec |-> Vector(irq), low |-> e.flags % 4 = 3, level |-> e.flags \div 4 = 3]
    BY <2>2, <2>4 DEF Asked
  <2>7. /\ Bit(e.flags, 1) \in BOOLEAN /\ Bit(e.flags, 3) \in BOOLEAN
        /\ Bit(e.flags, 1) = (e.flags % 4 = 3) /\ Bit(e.flags, 3) = (e.flags \div 4 = 3)
    BY <2>3, BitsOfFlags DEF Bit
  <2> QED
    BY <2>5, <2>6, <2>7
<1> QED
  BY <1>1, <1>2, <1>3, <1>4 DEF SameFirst

----------------------------------------------------------------------------
(* The invariant holds at the start. *)
LEMMA InitIoInv == Init => IoInv
<1> SUFFICES ASSUME Init PROVE IoInv
  OBVIOUS
<1>1. Firmware
  <2>1. PICK n \in 0 .. 2 : tables \in [1 .. n -> Tables]
    BY DEF Init
  <2>2. PICK m \in 0 .. MaxEntries : madt \in [1 .. m -> Entries]
    BY DEF Init
  <2> QED
    BY <2>1, <2>2, IoApicAssumption DEF Firmware
<1>2. /\ at = "find" /\ i = 1 /\ madt_ioapic_vec = <<>> /\ madt_iso_vec = <<>>
      /\ madt_apic_addr = "none"
      /\ redir = [k \in 1 .. VecSize |-> [p \in Pin |-> NoRoute]] /\ routed = [g \in {} |-> NoRoute]
  BY DEF Init
<1>3. Vectors
  BY <1>2, IoApicAssumption DEF Vectors
<1>4. Walked
  BY <1>1, <1>2, MadtIs DEF Walked
<1>5. Routes
  BY <1>2 DEF Routes, NoRoutes, NoRoute
<1>6. FaultCauses
  BY <1>2 DEF FaultCauses
<1> QED
  BY <1>1, <1>3, <1>4, <1>5, <1>6 DEF IoInv

(* The search for the MADT. *)
LEMMA FindTableStep ==
  ASSUME IoInv, acpi_find_table
  PROVE  IoInv'
<1> USE DEF IoInv
<1>1. /\ at = "find" /\ UNCHANGED <<tables, madt, madt_ioapic_vec, madt_iso_vec, redir, routed>>
  BY DEF acpi_find_table, firmware
<1>2. /\ i \in Nat \ {0} /\ i <= Len(tables) + 1 /\ \A k \in 1 .. i - 1 : tables[k] # "APIC"
      /\ madt_ioapic_vec = <<>> /\ madt_iso_vec = <<>>
      /\ Len(tables) \in Nat /\ DOMAIN tables = 1 .. Len(tables) /\ Len(madt) \in Nat
  BY <1>1, MadtIs DEF Walked
<1>3. Firmware'
  BY <1>1 DEF Firmware
<1>4. CASE i <= Len(tables) /\ tables[i] # "APIC" /\ i' = i + 1 /\ UNCHANGED <<at, madt_apic_addr>>
  <2>1. i' \in Nat \ {0} /\ i' <= Len(tables) + 1 /\ \A k \in 1 .. i' - 1 : tables[k] # "APIC"
    BY <1>2, <1>4
  <2>2. Vectors' /\ FaultCauses' /\ Routes'
    BY <1>1, <1>4 DEF Vectors, FaultCauses, Routes
  <2> QED
    BY <1>1, <1>2, <1>3, <1>4, <2>1, <2>2 DEF Walked
<1>5. CASE tables[i] = "APIC" /\ at' = "walk" /\ i' = 1 /\ madt_apic_addr' = "table"
  <2>1. Read(0)'
    <3>1. \A type : Of(type, 0)' = {}
      BY DEF Of
    <3>2. Len(madt_ioapic_vec') = 0 /\ Len(madt_iso_vec') = 0 /\ DOMAIN madt_iso_vec' = {}
      BY <1>1, <1>2
    <3>3. \A irq : Overrides(irq)' = {} /\ Isos(irq, 0)' = {}
      BY <3>1, <3>2 DEF Overrides, Isos
    <3> QED
      BY <3>1, <3>2, <3>3, FS_EmptySet DEF Read, SameFirst
  <2>2. i' - 1 = 0 /\ i' \in Nat \ {0} /\ i' <= Len(madt') + 1
    BY <1>1, <1>2, <1>5
  <2>3. Walked'
    BY <1>1, <1>5, <2>1, <2>2 DEF Walked
  <2>4. Vectors' /\ FaultCauses' /\ Routes'
    BY <1>1, <1>5 DEF Vectors, FaultCauses, Routes
  <2> QED
    BY <1>3, <2>3, <2>4
<1>6. CASE i > Len(tables) /\ at' = "null" /\ UNCHANGED <<i, madt_apic_addr>>
  <2>1. \A k \in DOMAIN tables : tables[k] # "APIC"
    BY <1>2, <1>6
  <2>2. FaultCauses'
    BY <1>1, <1>6, <2>1 DEF FaultCauses
  <2>3. Vectors' /\ Routes' /\ Walked'
    BY <1>1, <1>6 DEF Vectors, Routes, Walked
  <2> QED
    BY <1>3, <2>2, <2>3
<1> QED
  BY <1>4, <1>5, <1>6 DEF acpi_find_table

(* One entry: into its vector, or past the end of a full one, which holds  *)
(* as many entries as the MADT has had until here.                         *)
LEMMA MadtInitStep ==
  ASSUME IoInv, madt_init
  PROVE  IoInv'
<1> USE DEF IoInv
<1> DEFINE e == madt[i]
<1>1. /\ at = "walk" /\ i <= Len(madt) /\ UNCHANGED <<tables, madt, redir, routed>>
  BY DEF madt_init, firmware
<1>2. /\ i \in 1 .. Len(madt) /\ Len(madt) \in Nat /\ e \in Entries
      /\ e.len0 \in BOOLEAN /\ (~e.len0 => Read(i - 1))
  <2>1. i \in 1 .. Len(madt) /\ Len(madt) \in Nat
    BY <1>1, MadtIs DEF Walked
  <2>2. e \in Entries
    BY <2>1, MadtIs
  <2> QED
    BY <1>1, <2>1, <2>2, EntryIs DEF Walked
<1>3. Firmware'
  BY <1>1 DEF Firmware
<1>4. CASE Overflows(e)
  <2>1. at' = "overflow" /\ UNCHANGED <<i, madt_ioapic_vec, madt_iso_vec, madt_apic_addr>>
    BY <1>4 DEF madt_init, parsed
  <2>2. ASSUME NEW type \in {"ioapic", "iso"}, e.type = type, ~e.len0,
               Cardinality(Of(type, i - 1)) = VecSize
        PROVE  Count(type) > VecSize
    <3>1. Cardinality(Of(type, i)) = VecSize + 1
      BY <1>2, <2>2, OfOneMore
    <3>2. Of(type, i) \subseteq Of(type, Len(madt))
      BY <1>2 DEF Of
    <3>3. /\ Cardinality(Of(type, i)) <= Cardinality(Of(type, Len(madt)))
          /\ Cardinality(Of(type, Len(madt))) \in Nat
      BY <1>2, <3>2, OfSize, FS_Subset
    <3>4. Count(type) = Cardinality(Of(type, Len(madt)))
      BY MadtIs DEF Count, Of
    <3> QED
      BY <3>1, <3>3, <3>4, IoApicAssumption
  <2>3. HasLen0 \/ Count("ioapic") > VecSize \/ Count("iso") > VecSize
    <3>1. CASE e.len0
      BY <1>2, <3>1, MadtIs DEF HasLen0
    <3>2. CASE ~e.len0
      <4>1. /\ Len(madt_ioapic_vec) = Cardinality(Of("ioapic", i - 1))
            /\ Len(madt_iso_vec) = Cardinality(Of("iso", i - 1))
        BY <1>2, <3>2 DEF Read
      <4> QED
        BY <1>4, <2>2, <3>2, <4>1 DEF Overflows
    <3> QED
      BY <3>1, <3>2
  <2>4. FaultCauses'
    BY <1>1, <2>1, <2>3 DEF FaultCauses, Count, HasLen0
  <2>5. Vectors' /\ Walked' /\ Routes'
    BY <1>1, <2>1 DEF Vectors, Walked, Routes
  <2> QED
    BY <1>3, <2>4, <2>5
<1>5. CASE ~Overflows(e)
  <2>1. /\ madt_ioapic_vec' = Added(madt_ioapic_vec, e, "ioapic")
        /\ madt_iso_vec' = Added(madt_iso_vec, e, "iso")
        /\ madt_apic_addr' = (IF e.type = "lapic_override" THEN "override" ELSE madt_apic_addr)
        /\ i' = (IF e.len0 THEN i ELSE i + 1) /\ at' = "walk"
    BY <1>1, <1>5 DEF madt_init, NextEntry
  <2>2. Vectors'
    <3>1. /\ madt_ioapic_vec' \in Seq(Entries) /\ Len(madt_ioapic_vec') <= VecSize
          /\ \A k \in 1 .. Len(madt_ioapic_vec') : madt_ioapic_vec'[k].type = "ioapic"
      <4>1. CASE e.type = "ioapic"
        <5>1. /\ madt_ioapic_vec' = Append(madt_ioapic_vec, e) /\ Len(madt_ioapic_vec) # VecSize
              /\ Len(madt_ioapic_vec) \in Nat /\ Len(madt_ioapic_vec) <= VecSize
          BY <1>5, <2>1, <4>1 DEF Added, Overflows, Vectors
        <5>2. /\ madt_ioapic_vec' \in Seq(Entries) /\ Len(madt_ioapic_vec') = Len(madt_ioapic_vec) + 1
              /\ \A k \in 1 .. Len(madt_ioapic_vec) : madt_ioapic_vec'[k] = madt_ioapic_vec[k]
              /\ madt_ioapic_vec'[Len(madt_ioapic_vec) + 1] = e
          BY <1>2, <5>1, AppendProperties DEF Vectors
        <5>3. Len(madt_ioapic_vec') <= VecSize
          BY <5>1, <5>2, IoApicAssumption
        <5>4. ASSUME NEW k \in 1 .. Len(madt_ioapic_vec') PROVE madt_ioapic_vec'[k].type = "ioapic"
          <6>1. k = Len(madt_ioapic_vec) + 1 \/ k \in 1 .. Len(madt_ioapic_vec)
            BY <5>1, <5>2
          <6> QED
            BY <4>1, <5>2, <6>1 DEF Vectors
        <5> QED
          BY <5>2, <5>3, <5>4
      <4>2. CASE e.type # "ioapic"
        BY <2>1, <4>2 DEF Added, Vectors
      <4> QED
        BY <4>1, <4>2
    <3>2. madt_iso_vec' \in Seq(Entries) /\ Len(madt_iso_vec') <= VecSize
      <4>1. CASE e.type = "iso"
        <5>1. /\ madt_iso_vec' = Append(madt_iso_vec, e) /\ Len(madt_iso_vec) # VecSize
              /\ Len(madt_iso_vec) \in Nat /\ Len(madt_iso_vec) <= VecSize
          BY <1>5, <2>1, <4>1 DEF Added, Overflows, Vectors
        <5>2. madt_iso_vec' \in Seq(Entries) /\ Len(madt_iso_vec') = Len(madt_iso_vec) + 1
          BY <1>2, <5>1, AppendProperties DEF Vectors
        <5> QED
          BY <5>1, <5>2, IoApicAssumption
      <4>2. CASE e.type # "iso"
        BY <2>1, <4>2 DEF Added, Vectors
      <4> QED
        BY <4>1, <4>2
    <3> QED
      BY <2>1, <3>1, <3>2 DEF Vectors
  <2>3. Walked'
    <3>1. CASE e.len0
      <4>1. i' = i /\ madt'[i'].len0 /\ ~(i' > Len(madt'))
        BY <1>1, <1>2, <2>1, <3>1
      <4> QED
        BY <1>1, <1>2, <2>1, <4>1 DEF Walked
    <3>2. CASE ~e.len0
      <4>1. PICK n \in 1 .. Len(madt) : n = i
        BY <1>2
      <4>2. Read(n)'
        BY <1>1, <1>2, <2>1, <3>2, <4>1, ReadOne
      <4>3. i' - 1 = n /\ i' \in Nat \ {0} /\ i' <= Len(madt') + 1
        BY <1>1, <1>2, <2>1, <3>2, <4>1
      <4> QED
        BY <2>1, <4>2, <4>3 DEF Walked
    <3> QED
      BY <1>2, <3>1, <3>2
  <2>4. FaultCauses' /\ Routes'
    BY <1>1, <2>1 DEF FaultCauses, Routes
  <2> QED
    BY <1>3, <2>2, <2>3, <2>4
<1> QED
  BY <1>4, <1>5

(* The walk is over: no entry without a length has held it up. *)
LEMMA MadtDoneStep ==
  ASSUME IoInv, madt_init_done
  PROVE  IoInv'
<1> USE DEF IoInv
<1>1. /\ at = "walk" /\ i > Len(madt) /\ at' = "run"
      /\ UNCHANGED <<tables, madt, i, madt_ioapic_vec, madt_iso_vec, madt_apic_addr, redir, routed>>
  BY DEF madt_init_done, firmware, parsed
<1>2. i \in Nat /\ Len(madt) \in Nat /\ i <= Len(madt) + 1 /\ Read(i - 1)
  BY <1>1, MadtIs DEF Walked
<1>3. i - 1 = Len(madt)
  BY <1>1, <1>2
<1>4. Read(Len(madt))
  BY <1>2, <1>3
<1>5. PICK n \in Nat : n = Len(madt)
  BY <1>2
<1>6. Read(n)'
  BY <1>1, <1>4, <1>5, ReadKept
<1>7. Walked'
  BY <1>1, <1>2, <1>5, <1>6 DEF Walked
<1>8. Firmware' /\ Vectors' /\ FaultCauses'
  BY <1>1 DEF Firmware, Vectors, FaultCauses
<1>9. Routes'
  <2>1. DOMAIN routed = {} /\ redir = [k \in 1 .. VecSize |-> NoRoutes] /\ 1 \in 1 .. VecSize
    BY <1>1, IoApicAssumption DEF Routes
  <2>2. \A p \in Pin : redir[1][p] = NoRoute
    BY <1>1, <2>1 DEF NoRoutes
  <2> QED
    BY <1>1, <2>1, <2>2 DEF Routes
<1> QED
  BY <1>7, <1>8, <1>9

(* The loop of ioapic_map_gsi stops at the first I/O APIC for an interrupt *)
(* that this one has.                                                      *)
LEMMA FoundFirst ==
  ASSUME Vectors, Ascending, madt_ioapic_vec # <<>>, madt_ioapic_vec[1].gsi_base = 0,
         NEW gsi \in Pin
  PROVE  FoundFor(gsi) = 1
<1>1. /\ Len(madt_ioapic_vec) \in Nat \ {0} /\ DOMAIN madt_ioapic_vec = 1 .. Len(madt_ioapic_vec)
      /\ 1 \in DOMAIN madt_ioapic_vec
  <2>1. madt_ioapic_vec \in Seq(Entries)
    BY DEF Vectors
  <2> QED
    BY <2>1
<1>2. gsi \in Nat /\ gsi < Pins
  BY IoApicAssumption DEF Pin
<1>3. StopsAt(1, gsi)
  <2>1. CASE Len(madt_ioapic_vec) = 1
    BY <2>1 DEF StopsAt
  <2>2. CASE Len(madt_ioapic_vec) # 1
    <3>1. 2 \in DOMAIN madt_ioapic_vec /\ madt_ioapic_vec[2] \in Entries /\ madt_ioapic_vec[2].type = "ioapic"
      BY <1>1, <2>2 DEF Vectors
    <3>2. madt_ioapic_vec[2].gsi_base \in Nat
      BY <3>1, EntryIs
    <3>3. 0 + Pins <= madt_ioapic_vec[2].gsi_base
      BY <1>1, <3>1 DEF Ascending
    <3>4. madt_ioapic_vec[1 + 1].gsi_base > gsi
      BY <1>2, <3>2, <3>3, IoApicAssumption
    <3> QED
      BY <1>2, <3>4 DEF StopsAt
  <2> QED
    BY <2>1, <2>2
<1> DEFINE P(k) == StopsAt(k, gsi) /\ \A j \in 1 .. k - 1 : ~StopsAt(j, gsi)
<1>4. P(1)
  BY <1>3
<1>5. \A k \in DOMAIN madt_ioapic_vec : P(k) => k = 1
  BY <1>1, <1>3
<1> HIDE DEF P
<1>6. (CHOOSE k \in DOMAIN madt_ioapic_vec : P(k)) = 1
  BY <1>1, <1>4, <1>5
<1> QED
  BY <1>6 DEF FoundFor, P

(* A device gets its interrupt. *)
LEMMA SetHandlerStep ==
  ASSUME IoInv, NEW irq \in Irqs, interrupts_set_handler(irq)
  PROVE  IoInv'
<1> USE DEF IoInv
<1> DEFINE r     == ioapic_map_irq(irq)
           route == [vec |-> Vector(irq), low |-> r.low, level |-> r.level]
<1>1. /\ at = "run"
      /\ UNCHANGED <<tables, madt, i, madt_ioapic_vec, madt_iso_vec, madt_apic_addr>>
  BY DEF interrupts_set_handler, firmware, parsed
<1>2. Read(Len(madt)) /\ Len(madt) \in Nat
  BY <1>1, MadtIs DEF Walked
<1>3. Firmware' /\ Vectors'
  BY <1>1 DEF Firmware, Vectors
<1>4. CASE madt_ioapic_vec = <<>>
  <2>1. at' = "null" /\ UNCHANGED <<redir, routed>>
    BY <1>4 DEF interrupts_set_handler
  <2>2. Count("ioapic") = 0
    <3>1. Cardinality(Of("ioapic", Len(madt))) = 0
      BY <1>2, <1>4 DEF Read
    <3> QED
      BY <3>1, MadtIs DEF Count, Of
  <2>3. FaultCauses'
    BY <1>1, <2>1, <2>2 DEF FaultCauses, Count
  <2>4. Walked' /\ Routes'
    BY <1>1, <2>1 DEF Walked, Routes
  <2> QED
    BY <1>3, <2>3, <2>4
<1>5. CASE madt_ioapic_vec # <<>>
  <2>1. /\ redir' = (IF r.gsi \in Pin THEN [redir EXCEPT ![FoundFor(r.gsi)][r.gsi] = route] ELSE redir)
        /\ routed' = [g \in DOMAIN routed \union {r.gsi} |->
                        IF g = r.gsi THEN [vec |-> Vector(irq), irq |-> irq] ELSE routed[g]]
        /\ at' = "run"
    BY <1>1, <1>5 DEF interrupts_set_handler
  <2>2. Asked(irq) = route /\ r.low \in BOOLEAN /\ r.level \in BOOLEAN
    BY <1>2, MapsAsAsked
  <2> HIDE DEF r
  <2>3. PICK n \in Nat : n = Len(madt)
    BY <1>2
  <2>4. Read(n)'
    BY <1>1, <1>2, <2>3, ReadKept
  <2>5. Walked' /\ FaultCauses'
    BY <1>1, <2>1, <2>3, <2>4 DEF Walked, FaultCauses
  <2>6. \A g \in DOMAIN routed' : routed'[g].irq \in Irqs
    BY <1>1, <2>1 DEF Routes
  <2>7. redir' \in [1 .. VecSize -> [Pin -> [vec : {0} \union {Vector(q) : q \in Irqs},
                                             low : BOOLEAN, level : BOOLEAN]]]
    <3> DEFINE Route == [vec : {0} \union {Vector(q) : q \in Irqs}, low : BOOLEAN, level : BOOLEAN]
    <3>1. route \in Route /\ redir \in [1 .. VecSize -> [Pin -> Route]]
      BY <2>2 DEF Routes
    <3> HIDE DEF Route, route
    <3>2. ASSUME r.gsi \in Pin PROVE redir' \in [1 .. VecSize -> [Pin -> Route]]
      <4> DEFINE f == FoundFor(r.gsi)
      <4>1. redir' = [redir EXCEPT ![f] = [redir[f] EXCEPT ![r.gsi] = route]]
        BY <2>1, <3>2
      <4> HIDE DEF f
      <4>2. CASE f \in 1 .. VecSize
        <5>1. [redir[f] EXCEPT ![r.gsi] = route] \in [Pin -> Route]
          BY <3>1, <3>2, <4>2
        <5> QED
          BY <3>1, <4>1, <5>1
      <4>3. CASE f \notin 1 .. VecSize
        BY <3>1, <4>1, <4>3
      <4> QED
        BY <4>2, <4>3
    <3>3. ASSUME r.gsi \notin Pin PROVE redir' \in [1 .. VecSize -> [Pin -> Route]]
      BY <2>1, <3>1, <3>3
    <3> QED
      BY <3>2, <3>3 DEF Route
  <2>8. ASSUME Ascending, madt_ioapic_vec[1].gsi_base = 0, NEW p \in Pin
        PROVE  /\ p \notin DOMAIN routed' => redir'[1][p] = NoRoute
               /\ \A q \in Irqs : p \in DOMAIN routed' /\ routed'[p].irq = q => redir'[1][p] = Asked(q)
    <3>1. /\ p \notin DOMAIN routed => redir[1][p] = NoRoute
          /\ \A q \in Irqs : p \in DOMAIN routed /\ routed[p].irq = q => redir[1][p] = Asked(q)
      BY <1>1, <1>5, <2>8 DEF Routes
    <3>2. CASE r.gsi \in Pin
      <4>1. FoundFor(r.gsi) = 1
        BY <1>5, <2>8, <3>2, FoundFirst
      <4>2. redir \in [1 .. VecSize -> [Pin -> [vec : {0} \union {Vector(q) : q \in Irqs},
                                                low : BOOLEAN, level : BOOLEAN]]]
            /\ 1 \in 1 .. VecSize
        BY IoApicAssumption DEF Routes
      <4>3. redir'[1] = [redir[1] EXCEPT ![r.gsi] = Asked(irq)] /\ DOMAIN redir[1] = Pin
        BY <2>1, <2>2, <3>2, <4>1, <4>2
      <4>4. CASE p = r.gsi
        BY <2>1, <4>3, <4>4
      <4>5. CASE p # r.gsi
        BY <2>1, <3>1, <4>3, <4>5
      <4> QED
        BY <4>4, <4>5
    <3>3. CASE r.gsi \notin Pin
      <4>1. /\ redir' = redir
            /\ p \in DOMAIN routed' <=> p \in DOMAIN routed
            /\ p \in DOMAIN routed => routed'[p] = routed[p]
        BY <2>1, <3>3
      <4> QED
        BY <3>1, <4>1
    <3> QED
      BY <3>2, <3>3
  <2>9. \A q : Asked(q)' = Asked(q)
    BY <1>1 DEF Asked
  <2>10. Routes'
    BY <1>1, <1>5, <2>1, <2>6, <2>7, <2>8, <2>9 DEF Routes, Ascending
  <2> QED
    BY <1>3, <2>5, <2>10
<1> QED
  BY <1>4, <1>5

(* Every step keeps the invariant. *)
LEMMA NextIoInv == IoInv /\ [Next]_vars => IoInv'
<1> SUFFICES ASSUME IoInv, [Next]_vars PROVE IoInv'
  OBVIOUS
<1>1. CASE UNCHANGED vars
  <2>1. UNCHANGED <<tables, madt, at, i, madt_ioapic_vec, madt_iso_vec, madt_apic_addr, redir, routed>>
    BY <1>1 DEF vars, firmware, parsed
  <2>2. Firmware' /\ Vectors' /\ FaultCauses'
    BY <2>1 DEF IoInv, Firmware, Vectors, FaultCauses, Count, HasLen0
  <2>3. Walked'
    <3>1. \A n \in Nat : Read(n) => Read(n)'
      BY <2>1, ReadKept
    <3>2. Len(madt) \in Nat /\ i - 1 \in Nat
      BY MadtIs DEF IoInv, Walked
    <3> QED
      BY <2>1, <3>1, <3>2 DEF IoInv, Walked
  <2>4. Routes'
    <3>1. \A q : Asked(q)' = Asked(q)
      BY <2>1 DEF Asked
    <3> QED
      BY <2>1, <3>1 DEF IoInv, Routes, Ascending
  <2> QED
    BY <2>2, <2>3, <2>4 DEF IoInv
<1> QED
  BY <1>1, FindTableStep, MadtInitStep, MadtDoneStep, SetHandlerStep DEF Next

LEMMA AlwaysIoInv == Spec => []IoInv
BY InitIoInv, NextIoInv, PTL DEF Spec

----------------------------------------------------------------------------
(* If the firmware lists the I/O APICs in the order of their interrupts    *)
(* the first one has, at every moment, the routes that the MADT asks for   *)
(* for the interrupts that were given a handler, and no other.             *)
THEOREM RoutesAsTheMadtAsks == Spec => []RoutesSound
<1>1. IoInv => RoutesSound
  <2> SUFFICES ASSUME IoInv PROVE RoutesSound
    OBVIOUS
  <2>1. TypeOK
    BY DEF IoInv, Vectors, Walked, Routes, TypeOK
  <2>2. ASSUME at = "run", Ascending, NEW k \in DOMAIN madt_ioapic_vec, madt_ioapic_vec[k].gsi_base = 0
        PROVE  redir[k] = [p \in Pin |-> IF p \in DOMAIN routed THEN Asked(routed[p].irq) ELSE NoRoute]
    <3>1. /\ DOMAIN madt_ioapic_vec = 1 .. Len(madt_ioapic_vec) /\ Len(madt_ioapic_vec) \in Nat
          /\ madt_ioapic_vec # <<>>
      <4>1. madt_ioapic_vec \in Seq(Entries)
        BY DEF IoInv, Vectors
      <4> QED
        BY <2>2, <4>1
    <3>2. k = 1
      <4> SUFFICES ASSUME k # 1 PROVE FALSE
        OBVIOUS
      <4>1. 1 \in DOMAIN madt_ioapic_vec /\ 1 < k
        BY <3>1
      <4>2. madt_ioapic_vec[1] \in Entries /\ madt_ioapic_vec[1].type = "ioapic"
        BY <3>1, <4>1 DEF IoInv, Vectors
      <4>3. madt_ioapic_vec[1].gsi_base \in Nat
        BY <4>2, EntryIs
      <4>4. madt_ioapic_vec[1].gsi_base + Pins <= 0
        BY <2>2, <4>1 DEF Ascending
      <4> QED
        BY <4>3, <4>4, IoApicAssumption
    <3>3. \A p \in Pin : redir[1][p] = IF p \in DOMAIN routed THEN Asked(routed[p].irq) ELSE NoRoute
      BY <2>2, <3>1, <3>2 DEF IoInv, Routes
    <3>4. redir[1] \in [Pin -> [vec : {0} \union {Vector(q) : q \in Irqs}, low : BOOLEAN, level : BOOLEAN]]
      BY IoApicAssumption DEF IoInv, Routes
    <3> QED
      BY <3>2, <3>3, <3>4
  <2> QED
    BY <2>1, <2>2 DEF RoutesSound, RoutedAsAsked
<1> QED
  BY <1>1, AlwaysIoInv, PTL

(* The kernel dies only without a MADT, without an I/O APIC, or of a MADT  *)
(* with too many entries or with one that has no length.                   *)
THEOREM WalkDiesForAReason == Spec => []FaultCauses
BY AlwaysIoInv, PTL DEF IoInv

----------------------------------------------------------------------------
(* The memory map. *)

LastEntry == memmap[Len(memmap)]

(* The map is the boot loader's. *)
BootMap == memmap # <<>> /\ memmap \in Seq(MapEntry) /\ Sorted(memmap)

(* Nothing is placed or freed before its turn, and the bitmap is placed in *)
(* an entry that holds it.                                                 *)
Turns ==
  /\ init_at \in {"sum", "place", "assert"} => free = {} /\ pmm_last_free = 0
  /\ init_at \in {"sum", "place"} => bitmap_entry = NONE
  /\ init_at \in {"clear", "done"} => bitmap_entry # NONE /\ Fits(memmap[bitmap_entry])
  /\ init_at = "done" => init_i > Len(memmap)

(* On a map without gaps the sum of the lengths is an address. *)
Summed ==
  init_at = "sum" /\ Contiguous =>
    pmm_bitmap_size = IF init_i <= Len(memmap) THEN memmap[init_i].base ELSE End(LastEntry)

(* The bitmap is in whole pages, and reaches the end of such a map. *)
Sized ==
  init_at # "sum" => /\ pmm_bitmap_size % PAGE_SIZE = 0
                     /\ Contiguous => End(LastEntry) <= Bits \/ Residue \in 1 .. 7

(* The bits that are clear are those of the usable entries that the last   *)
(* loop has passed.                                                        *)
Cleared ==
  init_at \in {"clear", "done"} =>
    \A f : f \in free <=> /\ f \notin PagesOfBitmap
                          /\ \E k \in 1 .. init_i - 1 : memmap[k].usable /\ f \in Pages(k)

(* The hint is below what is free and below what is still to come; as long *)
(* as it is not set, or taken for not set, nothing or page 0 is free.      *)
Hinted ==
  init_at \in {"clear", "done"} =>
    /\ pmm_last_free = 0 => free = {} \/ 0 \in free
    /\ (\A f \in free : pmm_last_free <= f) \/ 0 \in free
    /\ \A k \in init_i .. Len(memmap) : pmm_last_free <= memmap[k].base

InitInv == BootMap /\ PmmInitTypeOK /\ Turns /\ Summed /\ Sized /\ Cleared /\ Hinted

----------------------------------------------------------------------------
(* Division with a remainder is unique. *)
LEMMA DivUnique ==
  ASSUME NEW n \in Nat \ {0}, NEW q \in Nat, NEW r \in 0 .. n - 1
  PROVE  (n * q + r) \div n = q /\ (n * q + r) % n = r
<1> DEFINE a == n * q + r
           d == a \div n
           m == a % n
<1>1. a \in Nat /\ d \in Nat /\ m \in 0 .. n - 1 /\ a = n * d + m
  OBVIOUS
<1>2. ASSUME d >= q + 1 PROVE FALSE
  <2>1. n * d >= n * (q + 1)
    BY ONLY <1>1, <1>2, n \in Nat \ {0}, q \in Nat
  <2> QED
    BY <2>1, <1>1
<1>3. ASSUME q >= d + 1 PROVE FALSE
  <2>1. n * q >= n * (d + 1)
    BY ONLY <1>1, <1>3, n \in Nat \ {0}, q \in Nat
  <2> QED
    BY <2>1, <1>1
<1>4. d = q
  BY <1>1, <1>2, <1>3
<1> QED
  BY <1>1, <1>4

(* ALIGN_UP returns whole pages, and no fewer than it was given. *)
LEMMA AlignUp ==
  ASSUME NEW x \in Nat
  PROVE  /\ ALIGN_UP(x) \in Nat /\ ALIGN_UP(x) % PAGE_SIZE = 0
         /\ ALIGN_UP(x) >= x
<1> DEFINE n == PAGE_SIZE
           c == (x + (n - 1)) \div n
<1>1. n \in Nat \ {0} /\ c \in Nat
  BY PmmInitAssumption
<1>2. ALIGN_UP(x) = n * c + 0
  BY <1>1 DEF ALIGN_UP
<1>3. (n * c + 0) % n = 0
  BY ONLY <1>1, DivUnique, 0 \in 0 .. n - 1
<1>4. x + (n - 1) <= n * c + (n - 1)
  BY ONLY <1>1, x \in Nat
<1>5. n * c \in Nat /\ n * c + 0 = n * c
  BY <1>1
<1>6. n * c >= x
  BY ONLY <1>1, <1>4, <1>5, x \in Nat
<1> QED
  BY ONLY <1>2, <1>3, <1>5, <1>6, x \in Nat, n = PAGE_SIZE

(* The bitmap has a bit for each of t pages, unless t is up to 7 more than *)
(* whole pages of bits hold.                                               *)
LEMMA BitsEnough ==
  ASSUME NEW t \in Nat, t % (8 * PAGE_SIZE) \notin 1 .. 7
  PROVE  t <= 8 * ALIGN_UP(t \div 8)
<1> DEFINE n == PAGE_SIZE
           u == t \div 8
           r == t % 8
           q == t \div (8 * n)
           s == t % (8 * n)
<1>1. n \in Nat \ {0} /\ u \in Nat /\ r \in 0 .. 7 /\ t = 8 * u + r
  BY PmmInitAssumption
<1>2. ALIGN_UP(u) \in Nat /\ ALIGN_UP(u) >= u /\ ALIGN_UP(u) % n = 0
  BY <1>1, AlignUp
<1>3. CASE r = 0
  BY <1>1, <1>2, <1>3
<1>4. CASE r # 0 /\ ALIGN_UP(u) > u
  BY <1>1, <1>2, <1>4
<1>5. CASE r # 0 /\ ALIGN_UP(u) = u
  (* u is in whole pages, and r is the remainder of t. *)
  <2>1. u = (n * (u \div n)) + (u % n) /\ u \div n \in Nat /\ u % n = 0
    BY <1>1, <1>2, <1>5
  <2>2. 8 * n \in Nat \ {0} /\ r \in 0 .. 8 * n - 1
    BY <1>1
  <2>3. t = (8 * n) * (u \div n) + r
    <3>1. (8 * n) * (u \div n) = 8 * (n * (u \div n))
      BY ONLY <1>1, <2>1
    <3>2. u = n * (u \div n)
      BY ONLY <1>1, <2>1
    <3> QED
      BY <1>1, <3>1, <3>2
  <2> DEFINE w == 8 * n
             v == u \div n
  <2>4. t % w = r
    <3>1. w \in Nat \ {0} /\ v \in Nat /\ r \in 0 .. w - 1 /\ t = w * v + r
      BY <2>1, <2>2, <2>3
    <3> HIDE DEF w, v, r
    <3> QED
      BY <3>1, DivUnique
  <2> QED
    BY <1>1, <1>5, <2>4
<1> QED
  BY <1>1, <1>2, <1>3, <1>4, <1>5

----------------------------------------------------------------------------
(* An entry has pages, and the next one starts behind it. *)
LEMMA MapEntryIs ==
  ASSUME BootMap, NEW k \in DOMAIN memmap
  PROVE  /\ memmap[k].base \in Nat /\ memmap[k].length \in Nat \ {0} /\ memmap[k].usable \in BOOLEAN
         /\ End(memmap[k]) \in Nat /\ End(memmap[k]) = memmap[k].base + memmap[k].length
         /\ DOMAIN memmap = 1 .. Len(memmap) /\ Len(memmap) \in Nat \ {0}
<1>1. memmap[k] \in MapEntry
  BY DEF BootMap
<1>2. DOMAIN memmap = 1 .. Len(memmap) /\ Len(memmap) \in Nat \ {0}
  BY DEF BootMap
<1> QED
  BY <1>1, <1>2 DEF MapEntry, End

LEMMA MapLength ==
  ASSUME BootMap
  PROVE  DOMAIN memmap = 1 .. Len(memmap) /\ Len(memmap) \in Nat \ {0}
BY DEF BootMap

(* The number of pages of the bitmap. *)
LEMMA BitmapPagesNat ==
  ASSUME PmmInitTypeOK
  PROVE  BitmapPages \in Nat
BY PmmInitAssumption DEF PmmInitTypeOK, BitmapPages

(* The invariant holds at the start. *)
LEMMA InitHolds == PmmInitInit => InitInv
<1> SUFFICES ASSUME PmmInitInit PROVE InitInv
  OBVIOUS
<1>1. BootMap
  BY PmmInitAssumption DEF PmmInitInit, BootMap
<1>2. Len(memmap) \in Nat \ {0} /\ 1 \in DOMAIN memmap
  BY <1>1, MapLength
<1>3. PmmInitTypeOK
  BY <1>2 DEF PmmInitInit, PmmInitTypeOK, NONE
<1>4. Summed
  BY <1>2 DEF PmmInitInit, Summed, Contiguous
<1>5. Turns /\ Sized /\ Cleared /\ Hinted
  BY DEF PmmInitInit, Turns, Sized, Cleared, Hinted
<1> QED
  BY <1>1, <1>3, <1>4, <1>5 DEF InitInv

LEMMA SumStep ==
  ASSUME InitInv, AddUp
  PROVE  InitInv'
<1>1. /\ init_at = "sum" /\ init_at' = "sum" /\ init_i <= Len(memmap) /\ init_i' = init_i + 1
      /\ UNCHANGED <<memmap, bitmap_entry, free, pmm_last_free>>
      /\ pmm_bitmap_size' = pmm_bitmap_size + memmap[init_i].length
  BY DEF AddUp
<1>2. BootMap /\ PmmInitTypeOK /\ Turns /\ Summed
  BY DEF InitInv
<1>3. BootMap'
  BY <1>1, <1>2 DEF BootMap, Sorted, End
<1>4. init_i \in DOMAIN memmap /\ init_i \in Nat /\ Len(memmap) \in Nat
  BY <1>1, <1>2, MapLength DEF PmmInitTypeOK
<1>5. /\ memmap[init_i].base \in Nat /\ memmap[init_i].length \in Nat
      /\ End(memmap[init_i]) = memmap[init_i].base + memmap[init_i].length
  BY <1>2, <1>4, MapEntryIs
<1>6. PmmInitTypeOK'
  BY <1>1, <1>2, <1>4, <1>5 DEF PmmInitTypeOK
<1>7. Summed'
  <2> SUFFICES ASSUME Contiguous
               PROVE  pmm_bitmap_size' = IF init_i + 1 <= Len(memmap)
                                           THEN memmap[init_i + 1].base ELSE End(LastEntry)
    BY <1>1 DEF Summed, Contiguous, LastEntry, End
  <2>1. pmm_bitmap_size' = End(memmap[init_i])
    BY <1>1, <1>2, <1>5 DEF Summed
  <2>2. CASE init_i + 1 <= Len(memmap)
    BY <2>1, <2>2, <1>4, MapLength, <1>2 DEF Contiguous
  <2>3. CASE ~(init_i + 1 <= Len(memmap))
    <3>1. init_i = Len(memmap)
      BY <2>3, <1>1, <1>4
    <3> QED
      BY <2>1, <2>3, <3>1 DEF LastEntry
  <2> QED
    BY <2>2, <2>3
<1>8. Turns' /\ Sized' /\ Cleared' /\ Hinted'
  BY <1>1, <1>2 DEF Turns, Sized, Cleared, Hinted
<1> QED
  BY <1>3, <1>6, <1>7, <1>8 DEF InitInv

LEMMA SizeStep ==
  ASSUME InitInv, Size
  PROVE  InitInv'
<1>1. /\ init_at = "sum" /\ init_at' = "place" /\ init_i > Len(memmap) /\ init_i' = 1
      /\ UNCHANGED <<memmap, bitmap_entry, free, pmm_last_free>>
      /\ pmm_bitmap_size' = ALIGN_UP(pmm_bitmap_size \div 8)
  BY DEF Size
<1>2. BootMap /\ PmmInitTypeOK /\ Turns /\ Summed
  BY DEF InitInv
<1>3. BootMap'
  BY <1>1, <1>2 DEF BootMap, Sorted, End
<1>4. Len(memmap) \in Nat \ {0} /\ Len(memmap) \in DOMAIN memmap /\ init_i \in Nat
  BY <1>2, MapLength DEF PmmInitTypeOK
<1>5. End(LastEntry) \in Nat
  BY <1>2, <1>4, MapEntryIs DEF LastEntry
<1>6. pmm_bitmap_size \in Nat /\ pmm_bitmap_size \div 8 \in Nat
  BY <1>2 DEF PmmInitTypeOK
<1>7. pmm_bitmap_size' \in Nat /\ pmm_bitmap_size' % PAGE_SIZE = 0
  BY <1>1, <1>6, AlignUp
<1>8. PmmInitTypeOK'
  BY <1>1, <1>2, <1>4, <1>7 DEF PmmInitTypeOK
<1>9. Sized'
  <2> SUFFICES ASSUME Contiguous, Residue \notin 1 .. 7
               PROVE  End(LastEntry) <= 8 * pmm_bitmap_size'
    BY <1>1, <1>7 DEF Sized, Contiguous, Residue, LastEntry, End, Bits
  <2>1. pmm_bitmap_size = End(LastEntry)
    BY <1>1, <1>2, <1>4 DEF Summed
  <2>2. End(LastEntry) % (8 * PAGE_SIZE) \notin 1 .. 7
    BY DEF Residue, LastEntry
  <2> QED
    BY <2>1, <2>2, <1>1, <1>5, BitsEnough
<1>10. Turns' /\ Summed' /\ Cleared' /\ Hinted'
  BY <1>1, <1>2 DEF Turns, Summed, Cleared, Hinted
<1> QED
  BY <1>3, <1>8, <1>9, <1>10 DEF InitInv

LEMMA PlaceStep ==
  ASSUME InitInv, Place
  PROVE  InitInv'
<1>1. init_at = "place" /\ UNCHANGED <<memmap, pmm_bitmap_size, free, pmm_last_free>>
  BY DEF Place
<1>2. BootMap /\ PmmInitTypeOK /\ Turns /\ Sized
  BY DEF InitInv
<1>3. BootMap'
  BY <1>1, <1>2 DEF BootMap, Sorted, End
<1>4. Len(memmap) \in Nat \ {0} /\ DOMAIN memmap = 1 .. Len(memmap) /\ init_i \in 1 .. Len(memmap) + 1
  BY <1>2, MapLength DEF PmmInitTypeOK
<1>5. free = {} /\ pmm_last_free = 0 /\ bitmap_entry = NONE
  BY <1>1, <1>2 DEF Turns
<1>6. Sized' /\ Summed'
  <2>1. init_at' # "sum"
    BY <1>1 DEF Place
  <2> QED
    BY <2>1, <1>1, <1>2 DEF Sized, Summed, Contiguous, Residue, LastEntry, End, Bits
<1>7. CASE
        /\ init_at' \in {"place", "assert"} /\ init_i' \in 1 .. Len(memmap) + 1
        /\ bitmap_entry' = bitmap_entry
  <2>1. PmmInitTypeOK'
    BY <1>1, <1>2, <1>7 DEF PmmInitTypeOK
  <2>2. Turns' /\ Cleared' /\ Hinted'
    BY <1>1, <1>5, <1>7 DEF Turns, Cleared, Hinted
  <2> QED
    BY <2>1, <2>2, <1>3, <1>6 DEF InitInv
<1>8. CASE
        /\ init_at' = "clear" /\ init_i' = 1 /\ init_i \in DOMAIN memmap
        /\ bitmap_entry' = init_i /\ Fits(memmap[init_i])
  <2>1. PmmInitTypeOK'
    BY <1>1, <1>2, <1>4, <1>8 DEF PmmInitTypeOK, Sized, NONE
  <2>2. Turns'
    BY <1>1, <1>4, <1>8 DEF Turns, Fits, BitmapPages, NONE
  <2>3. Cleared'
    BY <1>1, <1>5, <1>8 DEF Cleared
  <2>4. Hinted'
    <3>1. \A k \in 1 .. Len(memmap) : 0 <= memmap[k].base
      BY <1>2, <1>4, MapEntryIs
    <3> QED
      BY <3>1, <1>1, <1>5, <1>8 DEF Hinted
  <2> QED
    BY <2>1, <2>2, <2>3, <2>4, <1>3, <1>6 DEF InitInv
<1>9. \/ /\ init_at' \in {"place", "assert"} /\ init_i' \in 1 .. Len(memmap) + 1
         /\ bitmap_entry' = bitmap_entry
      \/ /\ init_at' = "clear" /\ init_i' = 1 /\ init_i \in DOMAIN memmap
         /\ bitmap_entry' = init_i /\ Fits(memmap[init_i])
  BY <1>1, <1>4 DEF Place
<1> QED
  BY <1>7, <1>8, <1>9

(* An interval without its first p numbers, and intervals that lie apart.  *)
LEMMA Intervals ==
  ASSUME NEW a \in Nat, NEW b \in Nat, NEW c \in Nat, NEW p \in Nat
  PROVE  /\ a + p <= b =>
              \A f : f \in a + p .. b - 1 <=> f \in a .. b - 1 /\ f \notin a .. a + p - 1
         /\ b <= c \/ c + p <= a => \A f \in a .. b - 1 : f \notin c .. c + p - 1
OBVIOUS

(* What is cleared for an entry are its pages but those of the bitmap.  No *)
(* other entry has pages of the bitmap: it is in an entry that holds it.   *)
LEMMA RestIs ==
  ASSUME InitInv, init_at = "clear", init_i \in DOMAIN memmap
  PROVE  /\ Rest(init_i).base \in Nat /\ memmap[init_i].base <= Rest(init_i).base
         /\ Rest(init_i).base <= End(memmap[init_i])
         /\ \A f : f \in Rest(init_i).base .. End(Rest(init_i)) - 1
                      <=> f \in Pages(init_i) /\ f \notin PagesOfBitmap
<1>1. BootMap /\ PmmInitTypeOK /\ Turns
  BY DEF InitInv
<1>2. bitmap_entry \in DOMAIN memmap /\ Fits(memmap[bitmap_entry]) /\ BitmapPages \in Nat
  BY <1>1, MapLength, BitmapPagesNat DEF PmmInitTypeOK, Turns, NONE
<1> DEFINE e == memmap[init_i]
           b == memmap[bitmap_entry]
<1>3. /\ e.base \in Nat /\ e.length \in Nat \ {0} /\ End(e) \in Nat /\ End(e) = e.base + e.length
      /\ b.base \in Nat /\ b.length \in Nat \ {0} /\ End(b) \in Nat /\ End(b) = b.base + b.length
  BY <1>1, <1>2, MapEntryIs
<1>4. BitmapPages <= b.length
  BY <1>2, <1>3 DEF Fits
<1>5. Pages(init_i) = e.base .. End(e) - 1 /\ PagesOfBitmap = b.base .. b.base + BitmapPages - 1
  BY DEF Pages, PagesOfBitmap
<1>6. CASE init_i = bitmap_entry
  <2>1. /\ Rest(init_i).base = e.base + BitmapPages /\ Rest(init_i).length = e.length - BitmapPages
    BY <1>6 DEF Rest
  <2>2. End(Rest(init_i)) = End(e)
    BY <2>1, <1>2, <1>3 DEF End
  <2>3. e = b
    BY <1>6
  <2> DEFINE start == Rest(init_i).base
  <2> HIDE DEF e, b, start
  <2>4. start = b.base + BitmapPages /\ End(Rest(init_i)) = End(b)
    BY <2>1, <2>2, <2>3 DEF start
  <2>5. Pages(init_i) = b.base .. End(b) - 1
    BY <2>3, <1>5
  <2>6. \A f : f \in start .. End(Rest(init_i)) - 1 <=> f \in Pages(init_i) /\ f \notin PagesOfBitmap
    <3>1. b.base + BitmapPages <= End(b)
      BY <1>2, <1>3, <1>4
    <3> QED
      BY <3>1, <2>4, <2>5, <1>2, <1>3, <1>5, Intervals
  <2>7. start \in Nat /\ b.base <= start /\ start <= End(b)
    BY ONLY <2>4, <1>2, <1>3, <1>4
  <2> QED
    BY <2>3, <2>6, <2>7 DEF e, start
<1>7. CASE init_i # bitmap_entry
  <2>1. Rest(init_i).base = e.base /\ Rest(init_i).length = e.length
    BY <1>7, <1>3 DEF Rest
  <2>2. End(Rest(init_i)) = End(e)
    BY <2>1, <1>3 DEF End
  <2>3. End(e) <= b.base \/ End(b) <= e.base
    <3>1. init_i \in Nat /\ bitmap_entry \in Nat
      BY <1>1, <1>2, MapLength
    <3>2. init_i < bitmap_entry \/ bitmap_entry < init_i
      BY <3>1, <1>7
    <3> QED
      BY <3>2, <1>1, <1>2 DEF BootMap, Sorted
  <2>4. Rest(init_i).base .. End(Rest(init_i)) - 1 = Pages(init_i)
    BY <2>1, <2>2, <1>5
  <2>5. \A f \in Pages(init_i) : f \notin PagesOfBitmap
    <3>1. e.base \in Nat /\ End(e) \in Nat /\ b.base \in Nat
      BY <1>3
    <3>2. End(e) <= b.base \/ b.base + BitmapPages <= e.base
      BY <2>3, <1>2, <1>3, <1>4
    <3> HIDE DEF e, b
    <3> QED
      BY <3>1, <3>2, <1>2, <1>5, Intervals
  <2>6. Rest(init_i).base \in Nat /\ e.base <= Rest(init_i).base /\ Rest(init_i).base <= End(e)
    BY <2>1, <1>3
  <2> QED
    BY <2>4, <2>5, <2>6
<1> QED
  BY <1>6, <1>7

LEMMA ClearStep ==
  ASSUME InitInv, Clear
  PROVE  InitInv'
<1>1. /\ init_at = "clear" /\ init_at' = "clear" /\ init_i <= Len(memmap) /\ init_i' = init_i + 1
      /\ UNCHANGED <<memmap, pmm_bitmap_size, bitmap_entry>>
  BY DEF Clear
<1>2. BootMap /\ PmmInitTypeOK /\ Turns /\ Sized /\ Cleared /\ Hinted
  BY DEF InitInv
<1>3. BootMap'
  BY <1>1, <1>2 DEF BootMap, Sorted, End
<1>4. Len(memmap) \in Nat /\ DOMAIN memmap = 1 .. Len(memmap) /\ init_i \in Nat /\ init_i \in DOMAIN memmap
  BY <1>1, <1>2, MapLength DEF PmmInitTypeOK
<1> DEFINE e == memmap[init_i]
           new == Rest(init_i).base .. End(Rest(init_i)) - 1
<1>5. /\ Rest(init_i).base \in Nat /\ e.base <= Rest(init_i).base /\ Rest(init_i).base <= End(e)
      /\ \A f : f \in new <=> f \in Pages(init_i) /\ f \notin PagesOfBitmap
  BY <1>1, <1>4, RestIs
<1>6. e.base \in Nat /\ e.usable \in BOOLEAN /\ End(e) \in Nat
  BY <1>2, <1>4, MapEntryIs
<1>7. \/ e.usable /\ pmm_last_free' = Hint(Rest(init_i).base) /\ free' = free \union new
      \/ ~e.usable /\ pmm_last_free' = pmm_last_free /\ free' = free
  BY <1>1, <1>6 DEF Clear
<1>8. pmm_last_free \in Nat /\ pmm_last_free' \in Nat
  BY <1>2, <1>5, <1>7 DEF PmmInitTypeOK, Hint
<1>9. PmmInitTypeOK'
  BY <1>1, <1>2, <1>4, <1>8 DEF PmmInitTypeOK
<1>10. Turns' /\ Sized' /\ Summed'
  BY <1>1, <1>2 DEF Turns, Fits, BitmapPages, Sized, Summed, Contiguous, Residue, LastEntry, End, Bits
<1>11. Cleared'
  <2>1. \A k : Pages(k)' = Pages(k)
    BY <1>1 DEF Pages, End
  <2>2. PagesOfBitmap' = PagesOfBitmap
    BY <1>1 DEF PagesOfBitmap, BitmapPages
  <2> SUFFICES ASSUME NEW f
               PROVE  f \in free' <=> /\ f \notin PagesOfBitmap
                                      /\ \E k \in 1 .. init_i : memmap[k].usable /\ f \in Pages(k)
    BY <1>1, <1>4, <2>1, <2>2 DEF Cleared
  <2>3. f \in free <=> /\ f \notin PagesOfBitmap
                       /\ \E k \in 1 .. init_i - 1 : memmap[k].usable /\ f \in Pages(k)
    BY <1>1, <1>2 DEF Cleared
  <2>4. (\E k \in 1 .. init_i : memmap[k].usable /\ f \in Pages(k))
          <=> \/ \E k \in 1 .. init_i - 1 : memmap[k].usable /\ f \in Pages(k)
              \/ e.usable /\ f \in Pages(init_i)
    <3>1. 1 .. init_i = (1 .. init_i - 1) \union {init_i}
      BY <1>4
    <3> QED
      BY <3>1
  <2>5. f \in free' <=> f \in free \/ (e.usable /\ f \in new)
    BY <1>7
  <2>6. f \in new <=> f \in Pages(init_i) /\ f \notin PagesOfBitmap
    BY <1>5
  <2> HIDE DEF new
  <2> QED
    BY <2>3, <2>4, <2>5, <2>6
<1>12. Hinted'
  <2>1. /\ pmm_last_free = 0 => free = {} \/ 0 \in free
        /\ (\A f \in free : pmm_last_free <= f) \/ 0 \in free
        /\ \A k \in init_i .. Len(memmap) : pmm_last_free <= memmap[k].base
    BY <1>1, <1>2 DEF Hinted
  <2>2. \A k \in init_i + 1 .. Len(memmap) : memmap[k].base \in Nat /\ End(e) <= memmap[k].base
    BY <1>2, <1>4, MapEntryIs DEF BootMap, Sorted
  <2>3. CASE ~e.usable
    <3>1. pmm_last_free' = pmm_last_free /\ free' = free
      BY <2>3, <1>7
    <3>2. \A k \in init_i + 1 .. Len(memmap) : pmm_last_free <= memmap[k].base
      BY <2>1, <1>4
    <3> QED
      BY <1>1, <2>1, <3>1, <3>2 DEF Hinted
  <2>4. CASE e.usable
    <3>1. pmm_last_free' = Hint(Rest(init_i).base) /\ free' = free \union new
      BY <2>4, <1>7
    <3>2. \A f \in new : f \in Nat /\ Rest(init_i).base <= f
      BY <1>5
    <3>3. new = {} \/ Rest(init_i).base \in new
      <4>1. End(Rest(init_i)) \in Int
        BY <1>2, <1>4, <1>6, MapEntryIs, BitmapPagesNat DEF Rest, End
      <4> QED
        BY <4>1, <1>5
    <3> DEFINE start == Rest(init_i).base
    <3>4. start \in Nat /\ e.base <= start /\ start <= End(e)
      BY <1>5
    <3> HIDE DEF start, new
    <3>5. CASE pmm_last_free = 0
      <4>1. pmm_last_free' = start
        BY <3>1, <3>5 DEF Hint, start
      <4>2. CASE free = {}
        <5>1. free' = new
          BY <3>1, <4>2
        <5>2. \A f \in new : start <= f
          BY <3>2 DEF start
        <5>3. start = 0 => new = {} \/ 0 \in new
          BY <3>3 DEF start
        <5>4. \A k \in init_i + 1 .. Len(memmap) : start <= memmap[k].base
          BY <3>4, <2>2, <1>6
        <5> QED
          BY <4>1, <5>1, <5>2, <5>3, <5>4, <1>1 DEF Hinted
      <4>3. CASE 0 \in free
        <5>1. 0 \in free'
          BY <3>1, <4>3
        <5>2. \A k \in init_i + 1 .. Len(memmap) : start <= memmap[k].base
          BY <3>4, <2>2, <1>6
        <5> QED
          BY <4>1, <5>1, <5>2, <1>1 DEF Hinted
      <4> QED
        BY <4>2, <4>3, <2>1, <3>5
    <3>6. CASE pmm_last_free # 0
      <4>1. pmm_last_free' = pmm_last_free
        BY <3>1, <3>6 DEF Hint
      <4>2. \A f \in new : pmm_last_free <= f
        <5>1. pmm_last_free <= e.base
          BY <2>1, <1>4
        <5> QED
          BY <5>1, <3>2, <3>4, <1>6, <1>8 DEF start
      <4>3. (\A f \in free' : pmm_last_free <= f) \/ 0 \in free'
        BY <2>1, <3>1, <4>2
      <4>4. \A k \in init_i + 1 .. Len(memmap) : pmm_last_free <= memmap[k].base
        BY <2>1, <1>4
      <4> QED
        BY <4>1, <4>3, <4>4, <3>6, <1>1 DEF Hinted
    <3> QED
      BY <3>5, <3>6
  <2> QED
    BY <2>3, <2>4, <1>6
<1> QED
  BY <1>3, <1>9, <1>10, <1>11, <1>12 DEF InitInv

LEMMA DoneStep ==
  ASSUME InitInv, Done
  PROVE  InitInv'
<1>1. /\ init_at = "clear" /\ init_at' = "done" /\ init_i > Len(memmap)
      /\ UNCHANGED <<memmap, init_i, pmm_bitmap_size, bitmap_entry, free, pmm_last_free>>
  BY DEF Done
<1>2. BootMap' /\ PmmInitTypeOK' /\ Turns' /\ Summed' /\ Sized'
  BY <1>1 DEF InitInv, BootMap, Sorted, PmmInitTypeOK, Turns, Fits, BitmapPages, Summed, Sized, Contiguous,
              Residue, LastEntry, End, Bits
<1>3. Cleared' /\ Hinted'
  BY <1>1 DEF InitInv, Cleared, Hinted, Pages, PagesOfBitmap, BitmapPages, End
<1> QED
  BY <1>2, <1>3 DEF InitInv

LEMMA InitInvStep == InitInv /\ [PmmInitNext]_pmm_init_vars => InitInv'
<1> SUFFICES ASSUME InitInv, [PmmInitNext]_pmm_init_vars PROVE InitInv'
  OBVIOUS
<1>1. CASE AddUp
  BY <1>1, SumStep
<1>2. CASE Size
  BY <1>2, SizeStep
<1>3. CASE Place
  BY <1>3, PlaceStep
<1>4. CASE Clear
  BY <1>4, ClearStep
<1>5. CASE Done
  BY <1>5, DoneStep
<1>6. CASE UNCHANGED pmm_init_vars
  BY <1>6 DEF pmm_init_vars, InitInv, BootMap, Sorted, PmmInitTypeOK, Turns, Fits, BitmapPages,
              Summed, Sized, Contiguous, Residue, LastEntry, End, Bits, Cleared, Hinted, Pages, PagesOfBitmap
<1> QED
  BY <1>1, <1>2, <1>3, <1>4, <1>5, <1>6 DEF PmmInitNext

(* What has been cleared at the end is what is usable, and lies below the  *)
(* end of the map.                                                         *)
LEMMA InvLeavesUsable == InitInv => LeavesUsable
<1> SUFFICES ASSUME InitInv PROVE LeavesUsable
  OBVIOUS
<1>1. BootMap /\ PmmInitTypeOK /\ Turns /\ Sized /\ Cleared /\ Hinted
  BY DEF InitInv
<1>2. Len(memmap) \in Nat \ {0} /\ DOMAIN memmap = 1 .. Len(memmap) /\ init_i \in 1 .. Len(memmap) + 1
  BY <1>1, MapLength DEF PmmInitTypeOK
<1>3. init_at = "done" => \A f : f \in free <=> /\ f \notin PagesOfBitmap
                                          /\ \E k \in DOMAIN memmap : memmap[k].usable /\ f \in Pages(k)
  <2> SUFFICES ASSUME init_at = "done" PROVE 1 .. init_i - 1 = DOMAIN memmap
    BY <1>1 DEF Cleared
  <2>1. init_i = Len(memmap) + 1
    BY <1>1, <1>2 DEF Turns
  <2> QED
    BY <2>1, <1>2
<1>4. FreeIsUsable
  BY <1>3 DEF FreeIsUsable, UsablePages
<1>5. HintBelowFree
  BY <1>1 DEF Hinted, HintBelowFree
<1>6. UncoveredCauses
  <2> SUFFICES ASSUME init_at = "done", Contiguous, Residue \notin 1 .. 7, NEW f \in free
               PROVE  f < Bits
    BY DEF UncoveredCauses
  <2>1. PICK k \in DOMAIN memmap : f \in Pages(k)
    BY <1>3
  <2>2. /\ memmap[k].base \in Nat /\ End(memmap[k]) \in Nat /\ LastEntry.base \in Nat
        /\ End(LastEntry) \in Nat /\ LastEntry.base <= End(LastEntry)
    <3>1. Len(memmap) \in DOMAIN memmap
      BY <1>2
    <3>2. memmap[k].base \in Nat /\ End(memmap[k]) \in Nat
      BY <1>1, MapEntryIs
    <3>3. /\ LastEntry.base \in Nat /\ LastEntry.length \in Nat /\ End(LastEntry) \in Nat
          /\ End(LastEntry) = LastEntry.base + LastEntry.length
      BY <1>1, <3>1, MapEntryIs DEF LastEntry
    <3> QED
      BY <3>2, <3>3
  <2>3. End(memmap[k]) <= End(LastEntry)
    <3>1. k \in Nat /\ k <= Len(memmap)
      BY <1>2
    <3>2. CASE k = Len(memmap)
      BY <3>2, <2>2 DEF LastEntry
    <3>3. CASE k < Len(memmap)
      <4>1. k \in DOMAIN memmap /\ Len(memmap) \in DOMAIN memmap
        BY <1>2
      <4>2. End(memmap[k]) <= LastEntry.base
        BY <1>1, <3>3, <4>1 DEF BootMap, Sorted, LastEntry
      <4> QED
        BY ONLY <2>2, <4>2
    <3> QED
      BY <3>1, <3>2, <3>3, <1>2
  <2>4. f \in Nat /\ f < End(memmap[k])
    BY <2>1, <2>2 DEF Pages
  <2>5. Bits \in Nat /\ End(LastEntry) <= Bits
    BY <1>1 DEF Sized, Bits, PmmInitTypeOK
  <2> QED
    BY ONLY <2>2, <2>3, <2>4, <2>5
<1> QED
  BY <1>1, <1>4, <1>5, <1>6 DEF LeavesUsable

----------------------------------------------------------------------------
(* For every memory map, what pmm_init frees is what the map calls usable  *)
(* without the pages under the bitmap; nothing below the hint is free,     *)
(* unless page 0 is; and every page that is free has a bit, but on the     *)
(* maps with gaps and on those that are up to 7 pages longer than whole    *)
(* pages of bits.                                                          *)
THEOREM BitmapCoversMemory == PmmInitSpec => []LeavesUsable
<1>1. PmmInitSpec => []InitInv
  BY InitHolds, InitInvStep, PTL DEF PmmInitSpec
<1> QED
  BY <1>1, InvLeavesUsable, PTL

----------------------------------------------------------------------------
(* The search for a path. *)

(* What mounted holds. *)
MountList == mounted \in Seq(Mounts) /\ IsInjective(mounted) /\ last_next \in {0, 1}

(* How far vfs_find has come: the mounts that it has passed are others, and *)
(* the node it is at is named by the names that it has passed.             *)
OnPath == IF overread THEN IsPrefix(path.names, current) /\ name_i = Len(path.names) + 1
          ELSE current = SubSeq(path.names, 1, name_i - 1)
Search ==
  /\ find_at \in {"idle", "mount", "walk", "fault"} /\ path \in Path \union {NoPath}
  /\ find_at \in {"mount", "walk"} => path \in Path
  /\ mount_i \in 0 .. Len(mounted) /\ name_i \in 1 .. Len(path.names) + 1
  /\ current \in Tree /\ result \in Tree \union {NULL} /\ overread \in BOOLEAN
  /\ find_at = "mount" => name_i = 1 /\ ~overread /\ \A j \in 1 .. mount_i : mounted[j] # path.mount
  /\ find_at = "walk" => OnPath

(* A search has one copy of its path. *)
Copies ==
  /\ finds \in 0 .. MaxFinds /\ temps \in Nat /\ found \in Nat
  /\ found <= temps /\ temps <= finds
  /\ TempsAreFound /\ (find_at \in {"mount", "walk"} => temps = found + 1)

VfsInv == MountList /\ Search /\ Copies /\ FoundOnPath /\ NullCauses /\ FindFaultCauses

(* A path is a sequence of names. *)
LEMMA PathNames ==
  ASSUME NEW p \in Path \union {NoPath}
  PROVE  p.names \in Seq(Names) /\ Len(p.names) \in 0 .. MaxPath
<1>1. CASE p = NoPath
  BY <1>1, VfsAssumption DEF NoPath
<1>2. CASE p \in Path
  <2>1. PICK n \in 0 .. MaxPath : p.names \in [1 .. n -> Names]
    BY <1>2 DEF Path
  <2>2. n \in Nat
    BY <2>1, VfsAssumption
  <2>3. Len(p.names) = n /\ p.names \in Seq(Names)
    BY <2>1, <2>2
  <2> QED
    BY <2>1, <2>3
<1> QED
  BY <1>1, <1>2

(* The nodes are sequences of names. *)
LEMMA Nodes ==
  /\ \A n \in Tree : n \in Seq(Names) /\ n # NULL /\ Len(n) \in Nat
  /\ <<>> \in Tree /\ Dirs \subseteq Tree /\ MaxPath \in Nat /\ MaxFinds \in Nat
BY VfsAssumption

(* arc_lookup finds the node with the name, if there is one. *)
LEMMA LookupIs ==
  ASSUME NEW node \in Tree, NEW name
  PROVE  /\ arc_lookup(node, name) \in Tree \union {NULL}
         /\ arc_lookup(node, name) # NULL => arc_lookup(node, name) = Append(node, name)
         /\ node \in Dirs /\ Append(node, name) \in Tree => arc_lookup(node, name) # NULL
BY Nodes DEF arc_lookup

(* The names up to the n-th are those before it and the n-th. *)
LEMMA OneMore ==
  ASSUME NEW s \in Seq(Names), NEW n \in 1 .. Len(s)
  PROVE  SubSeq(s, 1, n) = Append(SubSeq(s, 1, n - 1), s[n])
<1>1. Len(s) \in Nat /\ n \in Nat
  OBVIOUS
<1>2. SubSeq(s, 1, n) = SubSeq(s, 1, n - 1) \o <<s[n]>>
  BY <1>1, SubSeqRecursiveSecond
<1>3. SubSeq(s, 1, n - 1) \in Seq(Names) /\ s[n] \in Names
  <2>1. \A j \in 1 .. n - 1 : s[j] \in Names
    BY <1>1
  <2> QED
    BY <1>1, <2>1, SubSeqProperties
<1> QED
  BY <1>2, <1>3, AppendIsConcat

(* A longer path has the prefixes of the shorter one. *)
LEMMA StillPrefix ==
  ASSUME NEW s \in Seq(Names), NEW t \in Seq(Names), NEW x \in Names, IsPrefix(s, t)
  PROVE  IsPrefix(s, Append(t, x))
<1>1. Len(s) \in Nat /\ Len(t) \in Nat /\ Len(s) <= Len(t) /\ SubSeq(s, 1, Len(s)) = SubSeq(t, 1, Len(s))
  BY DEF IsPrefix
<1>2. /\ Append(t, x) \in Seq(Names) /\ Len(Append(t, x)) = Len(t) + 1
      /\ \A j \in 1 .. Len(t) : Append(t, x)[j] = t[j]
  BY AppendProperties
<1>3. SubSeq(Append(t, x), 1, Len(s)) = SubSeq(t, 1, Len(s))
  <2>1. \A j \in 1 .. Len(s) : t[j] \in Names /\ Append(t, x)[j] \in Names /\ Append(t, x)[j] = t[j]
    BY <1>1, <1>2
  <2>2. /\ SubSeq(t, 1, Len(s)) \in Seq(Names) /\ Len(SubSeq(t, 1, Len(s))) = Len(s)
        /\ \A j \in 1 .. Len(s) : SubSeq(t, 1, Len(s))[j] = t[j]
    BY <1>1, <2>1
  <2>3. /\ SubSeq(Append(t, x), 1, Len(s)) \in Seq(Names)
        /\ Len(SubSeq(Append(t, x), 1, Len(s))) = Len(s)
        /\ \A j \in 1 .. Len(s) : SubSeq(Append(t, x), 1, Len(s))[j] = Append(t, x)[j]
    BY <1>1, <1>2, <2>1
  <2> QED
    BY <2>1, <2>2, <2>3, SeqEqual
<1> QED
  BY <1>1, <1>2, <1>3 DEF IsPrefix

----------------------------------------------------------------------------
(* The invariant holds at the start. *)
LEMMA InitVfsInv == VfsInit => VfsInv
<1> SUFFICES ASSUME VfsInit PROVE VfsInv
  OBVIOUS
<1>1. /\ mounted = <<>> /\ last_next = 0 /\ find_at = "idle" /\ path = NoPath /\ mount_i = 0 /\ name_i = 1
      /\ current = <<>> /\ temps = 0 /\ result = NULL /\ finds = 0 /\ found = 0 /\ overread = FALSE
  BY DEF VfsInit
<1>2. MountList
  BY <1>1 DEF MountList, IsInjective
<1>3. Search
  <2>1. Len(path.names) = 0
    BY <1>1 DEF NoPath
  <2>2. mount_i \in 0 .. Len(mounted) /\ name_i \in 1 .. Len(path.names) + 1
    BY <1>1, <2>1
  <2> QED
    BY <1>1, <2>2, Nodes DEF Search
<1>4. Copies /\ FoundOnPath /\ NullCauses /\ FindFaultCauses
  BY <1>1, Nodes DEF Copies, TempsAreFound, FoundOnPath, NullCauses, FindFaultCauses, Returned
<1> QED
  BY <1>2, <1>3, <1>4 DEF VfsInv

(* A mount changes no answer. *)
LEMMA RegisterStep ==
  ASSUME VfsInv, NEW m \in Mounts, vfs_register(m)
  PROVE  VfsInv'
<1> USE DEF VfsInv
<1>1. /\ find_at = "idle" /\ ~Contains(mounted, m)
      /\ UNCHANGED <<path, mount_i, name_i, current, temps, result, finds, found, overread>>
  BY DEF vfs_register
<1>2. /\ mounted \in Seq(Mounts) /\ IsInjective(mounted) /\ last_next \in {0, 1}
      /\ Len(mounted) \in Nat
  BY DEF MountList
<1>3. \/ last_next # 0 /\ find_at' = "fault" /\ mounted' = mounted /\ last_next' = last_next
      \/ mounted' = Append(mounted, m) /\ last_next' \in {0, 1} /\ find_at' = "idle"
  BY <1>1 DEF vfs_register
<1>4. MountList' /\ mount_i \in 0 .. Len(mounted')
  <2>1. CASE mounted' = mounted
    BY <1>2, <1>3, <2>1 DEF MountList, Search
  <2>2. CASE mounted' = Append(mounted, m)
    <3>1. /\ mounted' \in Seq(Mounts) /\ Len(mounted') = Len(mounted) + 1
          /\ \A j \in 1 .. Len(mounted) : mounted'[j] = mounted[j] /\ mounted[j] # m
          /\ mounted'[Len(mounted) + 1] = m
      BY <1>1, <1>2, <2>2, AppendProperties DEF Contains
    <3>2. IsInjective(mounted')
      BY <1>2, <3>1 DEF IsInjective
    <3> QED
      BY <1>2, <1>3, <3>1, <3>2 DEF MountList, Search
  <2> QED
    BY <1>3, <2>1, <2>2
<1>5. Search'
  BY <1>1, <1>3, <1>4 DEF Search
<1>6. Copies' /\ FoundOnPath' /\ NullCauses' /\ FindFaultCauses'
  BY <1>1, <1>3 DEF Copies, TempsAreFound, FoundOnPath, NullCauses, FindFaultCauses, Returned
<1> QED
  BY <1>4, <1>5, <1>6

(* A search begins, with a copy of its path. *)
LEMMA FindStep ==
  ASSUME VfsInv, NEW p \in Path, vfs_find(p)
  PROVE  VfsInv'
<1> USE DEF VfsInv
<1>1. /\ find_at = "idle" /\ finds < MaxFinds /\ find_at' = "mount" /\ path' = p
      /\ mount_i' = 0 /\ name_i' = 1 /\ current' = <<>> /\ temps' = temps + 1 /\ finds' = finds + 1 /\ overread' = FALSE
      /\ UNCHANGED <<mounted, last_next, result, found>>
  BY DEF vfs_find
<1>2. MountList'
  BY <1>1 DEF MountList
<1>3. Search'
  <2>1. Len(path'.names) \in Nat /\ Len(mounted') \in Nat
    BY <1>1, PathNames DEF MountList
  <2>2. mount_i' \in 0 .. Len(mounted') /\ name_i' \in 1 .. Len(path'.names) + 1
    BY <1>1, <2>1
  <2>3. \A j \in 1 .. mount_i' : FALSE
    BY <1>1
  <2>4. result' \in Tree \union {NULL}
    BY <1>1 DEF Search
  <2> QED
    BY <1>1, <2>2, <2>3, <2>4, Nodes DEF Search
<1>4. Copies' /\ FoundOnPath' /\ NullCauses' /\ FindFaultCauses'
  BY <1>1, Nodes DEF Copies, TempsAreFound, FoundOnPath, NullCauses, FindFaultCauses, Returned
<1> QED
  BY <1>2, <1>3, <1>4

(* The search for the mount: it ends at the mount, or behind the last one. *)
LEMMA FindMountStep ==
  ASSUME VfsInv, FindMount
  PROVE  VfsInv'
<1> USE DEF VfsInv
<1>1. /\ find_at = "mount"
      /\ UNCHANGED <<mounted, last_next, path, name_i, temps, result, finds, found, overread>>
  BY DEF FindMount
<1>2. /\ MountList' /\ mounted \in Seq(Mounts) /\ Len(mounted) \in Nat
      /\ name_i = 1 /\ ~overread /\ mount_i \in 0 .. Len(mounted)
      /\ \A j \in 1 .. mount_i : mounted[j] # path.mount
      /\ path.names \in Seq(Names) /\ path \in Path
  BY <1>1, PathNames DEF MountList, Search
<1>3. CASE mount_i = Len(mounted) /\ find_at' = "fault" /\ UNCHANGED <<mount_i, current>>
  <2>1. ~Contains(mounted, path.mount)
    BY <1>2, <1>3 DEF Contains
  <2>2. Search' /\ Copies' /\ FoundOnPath' /\ NullCauses'
    BY <1>1, <1>3 DEF Search, Copies, TempsAreFound, FoundOnPath, NullCauses, Returned
  <2> QED
    BY <1>1, <1>2, <2>1, <2>2 DEF FindFaultCauses
<1>4. CASE find_at' = "walk" /\ current' = <<>> /\ UNCHANGED mount_i
  <2>1. SubSeq(path.names, 1, name_i - 1) = <<>>
    BY <1>2, SubSeqEmpty
  <2>2. Search'
    BY <1>1, <1>2, <1>4, <2>1, Nodes DEF Search, OnPath
  <2> QED
    BY <1>1, <1>2, <1>4, <2>2 DEF Copies, TempsAreFound, FoundOnPath, NullCauses, FindFaultCauses, Returned
<1>5. CASE
        /\ mount_i < Len(mounted) /\ mounted[mount_i + 1] # path.mount
        /\ mount_i' = mount_i + 1 /\ UNCHANGED <<find_at, current>>
  <2>1. mount_i' \in 0 .. Len(mounted) /\ \A j \in 1 .. mount_i' : mounted[j] # path.mount
    BY <1>2, <1>5
  <2>2. Search'
    BY <1>1, <1>2, <1>5, <2>1 DEF Search
  <2> QED
    BY <1>1, <1>2, <1>5, <2>2 DEF Copies, TempsAreFound, FoundOnPath, NullCauses, FindFaultCauses, Returned
<1> QED
  BY <1>3, <1>4, <1>5 DEF FindMount

(* What both kinds of step of the walk do. *)
LEMMA LookupStep ==
  ASSUME VfsInv, find_at = "walk", NEW name \in Names, Lookup(name),
         UNCHANGED <<mounted, last_next, path, mount_i, finds, found>>
  PROVE  /\ MountList' /\ Copies' /\ FindFaultCauses'
         /\ mount_i' \in 0 .. Len(mounted') /\ path' \in Path
         /\ current \in Seq(Names) /\ current \in Tree /\ path.names \in Seq(Names)
         /\ Len(path.names) \in 0 .. MaxPath
         /\ \/ /\ current' = Append(current, name) /\ current' \in Tree /\ find_at' = "walk"
               /\ result' = result
            \/ /\ ~(current \in Dirs /\ Append(current, name) \in Tree)
               /\ current' = current /\ find_at' = "idle" /\ result' = NULL
<1> USE DEF VfsInv
<1>1. /\ path \in Path /\ current \in Tree /\ current \in Seq(Names) /\ path.names \in Seq(Names)
      /\ Len(path.names) \in 0 .. MaxPath /\ mount_i \in 0 .. Len(mounted)
  BY PathNames, Nodes DEF Search
<1>2. MountList'
  BY DEF MountList
<1>3. CASE arc_lookup(current, name) # NULL
  <2>1. /\ current' = Append(current, name) /\ current' \in Tree
        /\ UNCHANGED <<find_at, temps, result>>
    BY <1>1, <1>3, LookupIs DEF Lookup
  <2>2. Copies' /\ FindFaultCauses'
    BY <2>1 DEF Copies, TempsAreFound, FindFaultCauses
  <2> QED
    BY <1>1, <1>2, <2>1, <2>2
<1>4. CASE arc_lookup(current, name) = NULL
  <2>1. find_at' = "idle" /\ result' = NULL /\ temps' = temps - 1 /\ UNCHANGED current
    BY <1>4 DEF Lookup
  <2>2. Copies'
    BY <2>1, Nodes DEF Copies, TempsAreFound
  <2>3. FindFaultCauses'
    BY <2>1 DEF FindFaultCauses
  <2> QED
    BY <1>1, <1>2, <1>4, <2>1, <2>2, <2>3, LookupIs
<1> QED
  BY <1>3, <1>4

(* One name of the path: if the lookup fails the path leads nowhere. *)
LEMMA WalkStep ==
  ASSUME VfsInv, Walk
  PROVE  VfsInv'
<1> USE DEF VfsInv
<1> DEFINE s == path.names
<1>1. /\ find_at = "walk" /\ name_i <= Len(s) /\ Lookup(s[name_i]) /\ name_i' = name_i + 1
      /\ UNCHANGED <<mounted, last_next, path, mount_i, finds, found, overread>>
  BY DEF Walk
<1>2. /\ s \in Seq(Names) /\ Len(s) \in Nat /\ name_i \in 1 .. Len(s) /\ s[name_i] \in Names
      /\ ~overread /\ current = SubSeq(s, 1, name_i - 1)
  BY <1>1, PathNames DEF Search, OnPath
<1>3. /\ MountList' /\ Copies' /\ FindFaultCauses'
      /\ mount_i' \in 0 .. Len(mounted') /\ path' \in Path /\ current \in Tree
      /\ \/ /\ current' = Append(current, s[name_i]) /\ current' \in Tree /\ find_at' = "walk"
            /\ result' = result
         \/ /\ ~(current \in Dirs /\ Append(current, s[name_i]) \in Tree)
            /\ current' = current /\ find_at' = "idle" /\ result' = NULL
  BY <1>1, <1>2, LookupStep
<1>4. Append(current, s[name_i]) = SubSeq(s, 1, name_i)
  BY <1>2, OneMore
<1>5. name_i' \in 1 .. Len(s) + 1 /\ name_i' - 1 = name_i
  BY <1>1, <1>2
<1>6. s \in Tree => current \in Dirs /\ SubSeq(s, 1, name_i) \in Tree
  <2> SUFFICES ASSUME s \in Tree PROVE current \in Dirs /\ SubSeq(s, 1, name_i) \in Tree
    OBVIOUS
  <2>1. \A m \in 0 .. Len(s) - 1 : SubSeq(s, 1, m) \in Dirs
    BY VfsAssumption
  <2>2. current \in Dirs
    <3>1. name_i - 1 \in 0 .. Len(s) - 1
      BY <1>2
    <3> QED
      BY <1>2, <2>1, <3>1
  <2>3. CASE name_i = Len(s)
    BY <1>2, <2>2, <2>3, SubSeqFull
  <2>4. CASE name_i # Len(s)
    <3>1. name_i \in 0 .. Len(s) - 1
      BY <1>2, <2>4
    <3> QED
      BY <2>1, <2>2, <3>1, Nodes
  <2> QED
    BY <2>3, <2>4
<1> HIDE DEF s
<1>7. s' = s /\ path'.names = s /\ path.names = s
  BY <1>1 DEF s
<1>8. Search'
  BY <1>1, <1>2, <1>3, <1>4, <1>5, <1>7 DEF Search, OnPath
<1>9. FoundOnPath' /\ NullCauses'
  BY <1>3, <1>4, <1>6, <1>7 DEF FoundOnPath, NullCauses, Returned
<1> QED
  BY <1>3, <1>8, <1>9

(* The end of the path: the node is the one with the path's names, unless  *)
(* there were more.                                                        *)
LEMMA ReturnStep ==
  ASSUME VfsInv, Return
  PROVE  VfsInv'
<1> USE DEF VfsInv
<1>1. /\ find_at = "walk" /\ name_i > Len(path.names) /\ find_at' = "idle" /\ result' = current
      /\ found' = found + 1
      /\ UNCHANGED <<mounted, last_next, path, mount_i, name_i, current, temps, finds, overread>>
  BY DEF Return
<1>2. /\ path.names \in Seq(Names) /\ Len(path.names) \in Nat /\ name_i = Len(path.names) + 1
      /\ current \in Tree /\ current # NULL /\ overread \in BOOLEAN
  BY <1>1, PathNames, Nodes DEF Search
<1>3. IF overread THEN IsPrefix(path.names, current) ELSE current = path.names
  <2>1. SubSeq(path.names, 1, Len(path.names)) = path.names
    BY <1>2, SubSeqFull
  <2> QED
    BY <1>1, <1>2, <2>1 DEF Search, OnPath
<1>4. IsPrefix(path.names, path.names)
  BY <1>2 DEF IsPrefix
<1>5. MountList' /\ Search'
  BY <1>1 DEF MountList, Search
<1>6. Copies'
  BY <1>1 DEF Copies, TempsAreFound
<1>7. FoundOnPath' /\ NullCauses' /\ FindFaultCauses'
  BY <1>1, <1>2, <1>3, <1>4 DEF FoundOnPath, NullCauses, FindFaultCauses, Returned
<1> QED
  BY <1>5, <1>6, <1>7

(* A name behind the copy: from here on the answer is for another path. *)
LEMMA OverreadStep ==
  ASSUME VfsInv, NEW name \in Names, Overread(name)
  PROVE  VfsInv'
<1> USE DEF VfsInv
<1>1. /\ find_at = "walk" /\ name_i > Len(path.names) /\ overread' = TRUE /\ Lookup(name)
      /\ UNCHANGED <<mounted, last_next, path, mount_i, name_i, finds, found>>
  BY DEF Overread
<1>2. /\ MountList' /\ Copies' /\ FindFaultCauses'
      /\ mount_i' \in 0 .. Len(mounted') /\ path' \in Path
      /\ current \in Seq(Names) /\ current \in Tree /\ path.names \in Seq(Names)
      /\ Len(path.names) \in 0 .. MaxPath
      /\ \/ /\ current' = Append(current, name) /\ current' \in Tree /\ find_at' = "walk"
            /\ result' = result
         \/ current' = current /\ find_at' = "idle" /\ result' = NULL
  BY <1>1, LookupStep
<1>3. name_i = Len(path.names) + 1 /\ Len(path.names) \in Nat
  BY <1>1, <1>2 DEF Search
<1>4. IsPrefix(path.names, current)
  <2>1. CASE overread
    BY <1>1, <2>1 DEF Search, OnPath
  <2>2. CASE ~overread
    <3>1. current = path.names
      BY <1>1, <1>2, <1>3, <2>2, SubSeqFull DEF Search, OnPath
    <3> QED
      BY <1>2, <3>1 DEF IsPrefix
  <2> QED
    BY <2>1, <2>2
<1>5. IsPrefix(path.names, Append(current, name))
  BY <1>2, <1>4, StillPrefix
<1>6. Search'
  BY <1>1, <1>2, <1>3, <1>5 DEF Search, OnPath
<1>7. FoundOnPath' /\ NullCauses'
  BY <1>1, <1>2 DEF FoundOnPath, NullCauses, Returned
<1> QED
  BY <1>2, <1>6, <1>7

(* Every step keeps the invariant. *)
LEMMA NextVfsInv == VfsInv /\ [VfsNext]_vfs_vars => VfsInv'
<1> SUFFICES ASSUME VfsInv, [VfsNext]_vfs_vars PROVE VfsInv'
  OBVIOUS
<1>1. CASE \E m \in Mounts : vfs_register(m)
  BY <1>1, RegisterStep
<1>2. CASE \E p \in Path : vfs_find(p)
  BY <1>2, FindStep
<1>3. CASE Continue
  BY <1>3, FindMountStep, WalkStep, ReturnStep, OverreadStep DEF Continue
<1>4. CASE UNCHANGED vfs_vars
  BY <1>4 DEF vfs_vars, VfsInv, MountList, Search, OnPath, Copies, TempsAreFound, FoundOnPath, NullCauses,
              FindFaultCauses, Returned
<1> QED
  BY <1>1, <1>2, <1>3, <1>4 DEF VfsNext

LEMMA AlwaysVfsInv == VfsSpec => []VfsInv
BY InitVfsInv, NextVfsInv, PTL DEF VfsSpec

----------------------------------------------------------------------------
(* What a search returns is what the path names, or it has read behind its *)
(* copy of the path; NULL means that the path leads nowhere; and the copy  *)
(* is kept exactly by the searches that find something.                    *)
THEOREM FindsTheRightNode == VfsSpec => []FindSound
<1>1. VfsInv => FindSound
  <2> SUFFICES ASSUME VfsInv PROVE FindSound
    OBVIOUS
  <2>1. path.names \in Seq(Names) /\ Len(path.names) \in 0 .. MaxPath
    BY PathNames DEF VfsInv, Search
  <2>2. Range(mounted) \subseteq Mounts
    BY DEF VfsInv, MountList, Range
  <2>3. VfsTypeOK
    BY <2>1, <2>2, Nodes DEF VfsInv, MountList, Search, Copies, VfsTypeOK
  <2> QED
    BY <2>3 DEF VfsInv, Copies, FindSound
<1> QED
  BY <1>1, AlwaysVfsInv, PTL

(* The kernel dies in this layer only of a mount that does not exist, or   *)
(* of a mount behind one whose next is not NULL.                           *)
THEOREM SearchDiesForAReason == VfsSpec => []FindFaultCauses
BY AlwaysVfsInv, PTL DEF VfsInv
=============================================================================
