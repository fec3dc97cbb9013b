----------------------------- MODULE MCPmmInit -----------------------------
(***************************************************************************)
(* Memory maps for PmmInit, made of up to three entries with gaps.  A page *)
(* of two bytes holds sixteen bits, and the lengths add up to less than a  *)
(* page of bits, to one, to a few more and to more than two.               *)
(***************************************************************************)
EXTENDS PmmInit

MaxEntries == 3
Gaps       == {0, 3}
Lengths    == {1, 2, 6, 9}
Parts      == [gap : Gaps, length : Lengths, usable : BOOLEAN]

MapOf(parts) ==
  LET base[k \in DOMAIN parts] ==
        parts[k].gap + IF k = 1 THEN 0 ELSE base[k - 1] + parts[k - 1].length
  IN  [k \in DOMAIN parts |->
        [base |-> base[k], length |-> parts[k].length, usable |-> parts[k].usable]]

MCMaps == {MapOf(parts) : parts \in UNION {[1 .. n -> Parts] : n \in 1 .. MaxEntries}}
=============================================================================
