------------------------------ MODULE MCScaley ------------------------------
(* Scaley for two threads over a heap of two blocks. *)
EXTENDS Scaley, TLC

Symmetry == Permutations(Threads) \cup Permutations(Blocks)

(* What a float with one bit of significand holds: three bytes are rounded *)
(* to two or to four.                                                      *)
OneBitFloats == {-8, -4, -2, -1, 0, 1, 2, 4, 8}
=============================================================================
