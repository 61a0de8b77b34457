--------------------------- MODULE MCSampledTaps ---------------------------
(* SampledTaps for two lists of TAPs. *)
EXTENDS SampledTaps, TLC

CONSTANTS sampled, watcher, basic

ThreadSymmetry == Permutations(Threads)

(* Every library has a key variable of its own, or, as in the two shipped  *)
(* TAPs that both call theirs dkey, one variable serves all.               *)
OwnKey == [p \in Taps |-> p]
OneKey == [p \in Taps |-> "dkey"]

FullList   == <<basic, sampled, watcher>>
TwoShipped == <<sampled, watcher>>
=============================================================================
