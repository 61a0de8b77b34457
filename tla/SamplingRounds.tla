--------------------------- MODULE SamplingRounds ---------------------------
(***************************************************************************)
(* What temporal sampling promises a TAP, with no signals, locks or slots. *)
(* The process is always in one of two sampling phases.  A round tells     *)
(* every member thread, one at a time, that the phase is about to change,  *)
(* and then changes it; a member that has been told moves its own view to  *)
(* the phase it was told of before the next round starts.  Threads join    *)
(* and leave between rounds, and a thread that joins starts in the current *)
(* phase.                                                                  *)
(***************************************************************************)
CONSTANT Threads

VARIABLES
  phase,    (* TRUE while the process as a whole is sampling              *)
  members,  (* the threads taking part in the rounds                      *)
  told,     (* the members told of the change the current round makes     *)
  view      (* view[t]: the phase thread t believes it is in              *)

vars == <<phase, members, told, view>>

(* The phase a member has last been told to be in. *)
Target(t) == IF t \in told THEN ~phase ELSE phase

Init ==
  /\ phase = FALSE
  /\ members = {}
  /\ told = {}
  /\ view \in [Threads -> BOOLEAN]

Join(t) ==
  /\ t \notin members
  /\ told = {}
  /\ members' = members \cup {t}
  /\ view' = [view EXCEPT ![t] = phase]
  /\ UNCHANGED <<phase, told>>

Leave(t) ==
  /\ t \in members
  /\ told = {}
  /\ members' = members \ {t}
  /\ UNCHANGED <<phase, told, view>>

Tell(t) ==
  /\ t \in members \ told
  /\ view[t] = phase
  /\ told' = told \cup {t}
  /\ UNCHANGED <<phase, members, view>>

Flip ==
  /\ told = members
  /\ phase' = ~phase
  /\ told' = {}
  /\ UNCHANGED <<members, view>>

(* A member catches up with what it was told: a level, not a toggle. *)
Learn(t) ==
  /\ t \in members
  /\ view[t] # Target(t)
  /\ view' = [view EXCEPT ![t] = Target(t)]
  /\ UNCHANGED <<phase, members, told>>

(* Nothing is promised about the view of a thread that is not a member. *)
Drift(t) ==
  /\ t \notin members
  /\ view' \in {[view EXCEPT ![t] = b] : b \in BOOLEAN}
  /\ UNCHANGED <<phase, members, told>>

Next ==
  \/ \E t \in Threads :
       Join(t) \/ Leave(t) \/ Tell(t) \/ Learn(t) \/ Drift(t)
  \/ Flip

Spec == Init /\ [][Next]_vars
=============================================================================
