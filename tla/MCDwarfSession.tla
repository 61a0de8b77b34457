--------------------------- MODULE MCDwarfSession ---------------------------
(* DwarfSession for three units.  The code of the first two is adjacent;   *)
(* the third has its code, address 1, in DW_AT_ranges, so no low_pc; 5 is  *)
(* the first address after all code, and 6 is in none.                     *)
EXTENDS DwarfSession

MinusOne == -1

ThreeCode == <<2 .. 2, 3 .. 4, {1}>>
ThreeLow  == <<2, 3, 0>>
ThreeHigh == <<3, 5, 0>>

(* "both" is in the first and the second unit, "late" only in the last.    *)
ThreeTables ==
  <<[both |-> 2, late |-> -1], [both |-> 4, late |-> -1], [both |-> -1, late |-> 1]>>
=============================================================================
