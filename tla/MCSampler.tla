----------------------------- MODULE MCSampler -----------------------------
(* SampledThreadMonitor on small instances. *)
EXTENDS SampledThreadMonitor, TLC

(* The program's threads are interchangeable; used only where no property  *)
(* is a liveness property.                                                 *)
ThreadSymmetry == Permutations(Threads)
=============================================================================
