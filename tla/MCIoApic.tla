------------------------------ MODULE MCIoApic ------------------------------
(***************************************************************************)
(* Firmware tables for IoApic: two I/O APICs of four inputs, overrides     *)
(* that move an IRQ within the first or to the second, and entries that    *)
(* the kernel skips or that have no length.                                *)
(***************************************************************************)
EXTENDS IoApic

MCIoapic(base, zero) == [type |-> "ioapic", gsi_base |-> base, len0 |-> zero]
MCIso(irq, gsi, flags) ==
  [type |-> "iso", irq_src |-> irq, gsi |-> gsi, flags |-> flags, len0 |-> FALSE]
MCEntries ==
  {MCIoapic(0, FALSE), MCIoapic(4, FALSE), MCIoapic(0, TRUE),
   MCIso(0, 2, 13), MCIso(0, 5, 0), MCIso(1, 2, 7),
   [type |-> "lapic_override", len0 |-> FALSE], [type |-> "other", len0 |-> FALSE],
   [type |-> "other", len0 |-> TRUE]}
=============================================================================
