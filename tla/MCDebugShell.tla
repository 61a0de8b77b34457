---------------------------- MODULE MCDebugShell ----------------------------
(* DebugShell for a program of one or two threads and a few lines.         *)
EXTENDS DebugShell

(* One line of every kind, and one where a file name decides, in the first *)
(* shell of the main thread; the others go to no other frame and read no   *)
(* address.                                                                *)
TypedLines(t, i) ==
  {{"help"}, {"quit"}, {"run"}} \cup
    IF <<t, i>> = <<Main, 1>>
    THEN {{"cont"}, {"up"}, {"down"}, {"deref"}, {"fscope", "run"}} ELSE {}

(* One signal handled by the program or an earlier library, the other not. *)
OneStart == {[SEGV |-> "DFL", ABRT |-> "prog"]}
=============================================================================
