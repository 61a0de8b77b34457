----------------------------- MODULE DebugShell -----------------------------
(***************************************************************************)
(* The debug shell of libldm (legerdemain.c).  A library constructor puts  *)
(* terminationHandler in place of the program's handlers of SIGSEGV and    *)
(* SIGABRT and, if the environment asks for it, opens a shell before main. *)
(* The handler opens a shell in the thread that got the signal; when the   *)
(* user leaves it, the handler calls the handler it replaced and has the   *)
(* signal end the process.                                                 *)
(*                                                                         *)
(* A signal is blocked in the thread that handles it and in no other, so   *)
(* a shell that faults may open another one inside itself, and several     *)
(* threads may each have a shell, all with one pair of globals for the     *)
(* frame they look at, in which they also walk: a step of a walk is one    *)
(* load or one store of a global.  Shells allocate memory, and the program *)
(* may have been stopped in the allocator.                                 *)
(***************************************************************************)
EXTENDS Naturals, Sequences, FiniteSets, SequencesExt

CONSTANTS
  Threads,
  Main,      (* the thread that runs the library constructors               *)
  NoThread,
  Lines(_, _), (* Lines(t, i): what the user may type in shell i of thread *)
             (* t; a line is the set of the command words that it contains  *)
  InitDisps, (* the dispositions the process may start with                 *)
  Handles,   (* the signals the program installs handlers for while it runs *)
  MaxOdd,    (* bound: signals from outside and aborts of the allocator     *)
             (* under a shell                                               *)
  MaxDepth   (* bound: callers a frame pointer chain has before it ends     *)

ASSUME ShellAssumption ==
  /\ Main \in Threads
  /\ NoThread \notin Threads
  /\ InitDisps \subseteq [{"SEGV", "ABRT"} -> {"DFL", "IGN", "prog"}]
  /\ Handles \subseteq {"SEGV", "ABRT"}
  /\ MaxOdd \in Nat
  /\ MaxDepth \in Nat

Signals == {"SEGV", "ABRT"}
INIT_CTX == "INIT"

(* What is done about a signal: the default, nothing, a handler of the     *)
(* program, or terminationHandler.                                         *)
Dispositions == {"DFL", "IGN", "prog", "LDM"}

Phases == {"segv", "abrt", "debug", "main", "exited", "killed"}
Ends   == {"exited", "killed"}

(* Where a shell is: printing the trace and setting the instruction,       *)
(* setting the frame pointer, waiting for a line, about to load the frame  *)
(* pointer in the walk to another frame, about to read through what it has *)
(* loaded, or, once the user has left it, calling the handler LDM replaced *)
(* and restoring the default, sending the signal, and returning from the   *)
(* handler.                                                                *)
Places ==
  {"trace", "fptr", "prompt", "walk", "link", "chain", "kill", "ret"}

(* A frame pointer or an instruction address: that of the frame n links up *)
(* the chain that begins in the registers of shell i of thread t, where    *)
(* <<t, i>> is of.  Frame MaxDepth + 1 is what the last link leads to, and *)
(* no frame.  A shell without a context has null for its frame 0.          *)
FrameOf(of, n) == [of |-> of, n |-> n]

Nobody  == <<Main, 0>>
NoFrame == FrameOf(Nobody, 0)
Unset   == [owner |-> Nobody, fp |-> NoFrame, pc |-> NoFrame]

VARIABLES
  phase,    (* how far LDM_init is, and how the process has ended           *)
  disp,     (* the disposition of each signal                               *)
  saver,    (* sigSEGVSaver, sigABRTSaver                                   *)
  touched,  (* history: the program has set the signal's disposition itself *)
  pending,  (* signals sent to the process                                  *)
  shells,   (* the shells each thread has open, the innermost last          *)
  cur,      (* fp and pc: curDebugFramePtr and curDebugInstr; owner:        *)
            (* history, the shell that was the last to begin to set them,   *)
            (* Nobody once another has stored into them since               *)
  eof,      (* standard input has come to its end                           *)
  heap,     (* the thread that is inside the allocator                      *)
  odd       (* how many of those there have been                            *)

sigVars == <<disp, saver, touched>>
vars == <<phase, sigVars, pending, shells, cur, eof, heap, odd>>

Init ==
  /\ phase = "segv"
  /\ disp \in InitDisps
  /\ saver = [s \in Signals |-> "DFL"]
  /\ touched = {}
  /\ pending = {}
  /\ shells = [t \in Threads |-> <<>>]
  /\ cur = Unset
  /\ eof = FALSE
  /\ heap = NoThread
  /\ odd = 0

Alive == phase \notin Ends
Exists(t) == Alive /\ (t = Main \/ phase = "main")
Runs(t) == Exists(t) /\ shells[t] = <<>>

Top(t) == Last(shells[t])
InShell(t) == shells[t] # <<>>
At(t, p) == InShell(t) /\ Top(t).at = p
SetTop(t, sh) == [shells EXCEPT ![t] = Append(Front(@), sh)]
Goto(t, p) == shells' = SetTop(t, [Top(t) EXCEPT !.at = p])
Me(t) == <<t, Len(shells[t])>>

Blocked(t) == {s \in Signals : \E i \in DOMAIN shells[t] : shells[t][i].ctx = s}

(* The end of the process, by exit or by a signal.                         *)
End(how) ==
  /\ phase' = how
  /\ shells' = [t \in Threads |-> <<>>]
  /\ pending' = {}
  /\ heap' = NoThread
  /\ cur' = Unset
  /\ UNCHANGED <<sigVars, eof>>

-----------------------------------------------------------------------------
(* LDM_init. *)

setupSignals(s, here, next) ==
  /\ phase = here
  /\ Runs(Main)
  /\ saver' = [saver EXCEPT ![s] = disp[s]]
  /\ disp' = [disp EXCEPT ![s] = "LDM"]
  /\ phase' = next
  /\ UNCHANGED <<touched, pending, shells, cur, eof, heap, odd>>

(* LDM_debug up to its first line: print_trace, and with it an allocation, *)
(* comes before the globals are set.                                       *)
Open(t, ctx, aborting) ==
  shells' = [shells EXCEPT ![t] =
               Append(@, [ctx |-> ctx, at |-> "trace", frame |-> 0, left |-> 0,
                          reg |-> NoFrame, aborting |-> aborting])]

(* LDM_DEBUG may be in the environment or not.                             *)
OpenInit ==
  /\ phase = "debug"
  /\ Runs(Main)
  /\ Open(Main, INIT_CTX, FALSE)
  /\ UNCHANGED <<phase, sigVars, pending, cur, eof, heap, odd>>

NoInitShell ==
  /\ phase = "debug"
  /\ Runs(Main)
  /\ phase' = "main"
  /\ UNCHANGED <<sigVars, pending, shells, cur, eof, heap, odd>>

-----------------------------------------------------------------------------
(* Signals. *)

(* A handler of the program may exit or jump back into the program, which  *)
(* it cannot do from inside the allocator.                                 *)
ProgramExits == End("exited")

ProgramJumps(t) ==
  /\ phase = "main"
  /\ heap # t
  /\ shells' = [shells EXCEPT ![t] = <<>>]
  /\ UNCHANGED <<phase, sigVars, cur, eof, heap>>

OpenFor(t, s, aborting) ==
  /\ Open(t, s, aborting)
  /\ UNCHANGED <<phase, sigVars, pending, cur, eof, heap>>

(* Mutant: SA_NODEFER, a fault in the handler of a fault is caught too.    *)
FaultNoDefer(t) ==
  \/ disp["SEGV"] \in {"DFL", "IGN"} /\ End("killed")
  \/ disp["SEGV"] = "LDM" /\ OpenFor(t, "SEGV", FALSE)
  \/ /\ disp["SEGV"] = "prog"
     /\ ProgramExits \/ (ProgramJumps(t) /\ UNCHANGED pending)

(* A bad access by thread t: the kernel ends the process if the signal is  *)
(* blocked or ignored.  A handler of the program that returns has the same *)
(* access fault again.                                                     *)
Fault(t) ==
  \/ /\ "SEGV" \in Blocked(t) \/ disp["SEGV"] \in {"DFL", "IGN"}
     /\ End("killed")
  \/ /\ "SEGV" \notin Blocked(t)
     /\ disp["SEGV"] = "LDM"
     /\ OpenFor(t, "SEGV", FALSE)
  \/ /\ "SEGV" \notin Blocked(t)
     /\ disp["SEGV"] = "prog"
     /\ ProgramExits \/ (ProgramJumps(t) /\ UNCHANGED pending)

(* abort() unblocks the signal, raises it and, if a handler returns,       *)
(* raises it again with the default disposition.                           *)
Abort(t) ==
  \/ disp["ABRT"] \in {"DFL", "IGN", "prog"} /\ End("killed")
  \/ disp["ABRT"] = "LDM" /\ OpenFor(t, "ABRT", TRUE)
  \/ disp["ABRT"] = "prog" /\ ProgramJumps(t) /\ UNCHANGED pending

ProgramFaults(t) == Runs(t) /\ Fault(t) /\ UNCHANGED odd
ProgramAborts(t) == Runs(t) /\ Abort(t) /\ UNCHANGED odd

(* Bound: signals from outside and aborts under a shell come only while    *)
(* every shell looks at its own frame, and once MaxOdd of them have come   *)
(* no shell goes to another.                                               *)
OddMayHappen ==
  /\ odd < MaxOdd
  /\ \A t \in Threads : \A i \in DOMAIN shells[t] : shells[t][i].frame = 0

(* A signal from outside.                                                  *)
Send(s) ==
  /\ Alive
  /\ OddMayHappen
  /\ odd' = odd + 1
  /\ pending' = pending \cup {s}
  /\ UNCHANGED <<phase, sigVars, shells, cur, eof, heap>>

(* A signal sent to the process is taken by a thread that does not block   *)
(* it.                                                                     *)
Deliver(t, s) ==
  /\ Exists(t)
  /\ s \in pending \ Blocked(t)
  /\ \/ disp[s] = "DFL" /\ End("killed")
     \/ /\ disp[s] = "LDM"
        /\ Open(t, s, FALSE)
        /\ pending' = pending \ {s}
        /\ UNCHANGED <<phase, sigVars, cur, eof, heap>>
     \/ /\ disp[s] \in {"IGN", "prog"}
        /\ pending' = pending \ {s}
        /\ UNCHANGED <<phase, sigVars, shells, cur, eof, heap>>
     \/ /\ disp[s] = "prog"
        /\ ProgramExits \/ (ProgramJumps(t) /\ pending' = pending \ {s})
  /\ UNCHANGED odd

(* The program installs a handler itself; LDM does not wrap sigaction.     *)
ProgramSets(t, s) ==
  /\ Runs(t)
  /\ phase = "main"
  /\ disp[s] # "prog"
  /\ disp' = [disp EXCEPT ![s] = "prog"]
  /\ touched' = touched \cup {s}
  /\ UNCHANGED <<phase, saver, pending, shells, cur, eof, heap, odd>>

EnterAllocator(t) ==
  /\ Runs(t)
  /\ heap = NoThread
  /\ heap' = t
  /\ UNCHANGED <<phase, sigVars, pending, shells, cur, eof, odd>>

LeaveAllocator(t) ==
  /\ Runs(t)
  /\ heap = t
  /\ heap' = NoThread
  /\ UNCHANGED <<phase, sigVars, pending, shells, cur, eof, odd>>

-----------------------------------------------------------------------------
(* LDM_debug. *)

(* Stores into the globals: the first of a walk and those that follow it.  *)
Begins(t, new) == cur' = [new EXCEPT !.owner = Me(t)]

Stores(t, new) ==
  cur' = [new EXCEPT !.owner = IF @ = Me(t) THEN @ ELSE Nobody]

(* Mutant: shells are kept apart by waiting for one another.               *)
TraceOneAtATime(t) ==
  /\ At(t, "trace")
  /\ heap = NoThread
  /\ \A u \in Threads \ {t} : ~InShell(u)
  /\ Goto(t, "fptr")
  /\ Begins(t, [cur EXCEPT !.pc = FrameOf(Me(t), 0)])
  /\ UNCHANGED <<phase, sigVars, pending, eof, heap, odd>>

(* print_trace, and the globals set to the interrupted frame (or to null), *)
(* the instruction first.                                                  *)
Trace(t) ==
  /\ At(t, "trace")
  /\ heap = NoThread
  /\ Goto(t, "fptr")
  /\ Begins(t, [cur EXCEPT !.pc = FrameOf(Me(t), 0)])
  /\ UNCHANGED <<phase, sigVars, pending, eof, heap, odd>>

SetFramePtr(t) ==
  /\ At(t, "fptr")
  /\ Goto(t, "prompt")
  /\ Stores(t, [cur EXCEPT !.fp = FrameOf(Me(t), 0)])
  /\ UNCHANGED <<phase, sigVars, pending, eof, heap, odd>>

(* Nothing ever assigns LDM_runstate.                                      *)
LDM_runstate == FALSE

(* The tests of the command loop in their order.  Each is strstr, so it is *)
(* the first of them that the line contains that decides, wherever in the  *)
(* line it is; help, cont when not running and run when running fall       *)
(* through to the tests after them.                                        *)
Tests == <<"fptr", "quit", "cont", "run", "source", "deref", "showvars", "up",
           "down", "string", "inspect", "dumpdwarf", "ascope", "fscope",
           "linetoaddr", "bt">>

FallsThrough == {IF LDM_runstate THEN "run" ELSE "cont"}

Command(line) ==
  LET hits == SelectSeq(Tests, LAMBDA c : c \in line \ FallsThrough)
  IN  IF hits = <<>> THEN "unsupported" ELSE Head(hits)

(* Leaving the shell at startup lets the program start.                    *)
Leave(t) ==
  /\ IF Top(t).ctx = INIT_CTX
     THEN phase' = "main" /\ shells' = [shells EXCEPT ![t] = Front(@)]
     ELSE /\ shells' = SetTop(t, [Top(t) EXCEPT !.at = "chain", !.frame = 0,
                                               !.left = 0])
          /\ UNCHANGED phase
  /\ UNCHANGED <<sigVars, pending, cur, eof, heap>>

(* Selects frame n, and begins the walk to it at the context's own frame.  *)
Select(t, n) ==
  /\ shells' = SetTop(t, [Top(t) EXCEPT !.at = "walk", !.frame = n, !.left = n])
  /\ Begins(t, [cur EXCEPT !.fp = FrameOf(Me(t), 0)])
  /\ UNCHANGED <<phase, sigVars, pending, eof, heap>>

(* Mutant: up goes on from the global instead of from the context.         *)
UpFromCurrent(t) ==
  LET n == Top(t).frame + 1
  IN  \/ Top(t).ctx = INIT_CTX /\ UNCHANGED vars
      \/ /\ Top(t).ctx # INIT_CTX
         /\ n <= MaxDepth + 1
         /\ shells' = SetTop(t, [Top(t) EXCEPT !.at = "walk", !.frame = n,
                                               !.left = n])
         /\ Begins(t, cur)
         /\ UNCHANGED <<phase, sigVars, pending, eof, heap>>

(* Bound: no up from beyond the end of the chain; the code has no test.    *)
Up(t) ==
  LET n == Top(t).frame + 1
  IN  \/ Top(t).ctx = INIT_CTX /\ UNCHANGED vars
      \/ Top(t).ctx # INIT_CTX /\ n <= MaxDepth + 1 /\ Select(t, n)

(* Mutant: down below the interrupted frame.                               *)
DownUnchecked(t) ==
  \/ Top(t).ctx = INIT_CTX /\ UNCHANGED vars
  \/ Top(t).ctx # INIT_CTX /\ Select(t, Top(t).frame - 1)

Down(t) ==
  \/ Top(t).ctx = INIT_CTX /\ UNCHANGED vars
  \/ /\ Top(t).ctx # INIT_CTX
     /\ Select(t, IF Top(t).frame > 0 THEN Top(t).frame - 1 ELSE 0)

(* Commands that read the address, the variable or the file they are given *)
(* without a test.                                                         *)
Reads == {"source", "deref", "string", "inspect"}

Read(t) == UNCHANGED vars \/ Fault(t)

CommandStep(t) ==
  /\ At(t, "prompt")
  /\ ~eof
  /\ heap = NoThread
  /\ \E line \in Lines(t, Len(shells[t])) :
       LET c == Command(line)
       IN  \/ c = "quit" /\ End("exited")
           \/ c \in {"cont", "run"} /\ Leave(t)
           \/ c = "up" /\ odd < MaxOdd /\ Up(t)
           \/ c = "down" /\ odd < MaxOdd /\ Down(t)
           \/ c \in Reads /\ Read(t)
           \/ /\ c \notin Reads \cup {"quit", "cont", "run", "up", "down"}
              /\ UNCHANGED vars
  /\ UNCHANGED odd

(* The allocator finds the heap damaged under a command and aborts.        *)
ShellAborts(t) ==
  /\ At(t, "prompt")
  /\ heap = NoThread
  /\ OddMayHappen
  /\ odd' = odd + 1
  /\ Abort(t)

(* The walk, in the globals themselves.  Only the interrupted frame's      *)
(* instruction is not read through the frame pointer.                      *)
LoadFramePtr(t) ==
  /\ At(t, "walk")
  /\ \/ /\ Top(t).frame > 0
        /\ shells' = SetTop(t, [Top(t) EXCEPT !.at = "link", !.reg = cur.fp])
        /\ UNCHANGED cur
     \/ /\ Top(t).frame = 0
        /\ Goto(t, "prompt")
        /\ Stores(t, [cur EXCEPT !.pc = FrameOf(Me(t), 0)])
  /\ UNCHANGED <<phase, sigVars, pending, eof, heap, odd>>

(* The word at a frame pointer is the next one, and the word after it the  *)
(* instruction the next frame will resume at.  The chain has no end that   *)
(* is tested for: past it, or where the program uses the register for      *)
(* something else, the read faults.                                        *)
ReadLink(t) ==
  LET next == [Top(t).reg EXCEPT !.n = @ + 1]
  IN  /\ At(t, "link")
      /\ \/ /\ next.n <= MaxDepth + 1
            /\ Top(t).left > 0
            /\ shells' = SetTop(t, [Top(t) EXCEPT !.at = "walk", !.left = @ - 1,
                                                  !.reg = NoFrame])
            /\ Stores(t, [cur EXCEPT !.fp = next])
            /\ UNCHANGED <<phase, sigVars, pending, eof, heap>>
         \/ /\ next.n <= MaxDepth + 1
            /\ Top(t).left = 0
            /\ shells' = SetTop(t, [Top(t) EXCEPT !.at = "prompt", !.reg = NoFrame])
            /\ Stores(t, [cur EXCEPT !.pc = next])
            /\ UNCHANGED <<phase, sigVars, pending, eof, heap>>
         \/ Fault(t)
      /\ UNCHANGED odd

(* Only a shell at its prompt notices.                                     *)
InputEnds ==
  /\ ~eof
  /\ \E t \in Threads : At(t, "prompt")
  /\ eof' = TRUE
  /\ UNCHANGED <<phase, sigVars, pending, shells, cur, heap, odd>>

(* Mutant: no line is treated like an empty line.                          *)
EndOfInputIgnored(t) ==
  /\ At(t, "prompt")
  /\ eof
  /\ heap = NoThread
  /\ UNCHANGED vars

(* No line: the last test is of strstr(NULL, "backtrace").                 *)
EndOfInput(t) ==
  /\ At(t, "prompt")
  /\ eof
  /\ heap = NoThread
  /\ Fault(t)
  /\ UNCHANGED odd

-----------------------------------------------------------------------------
(* terminationHandler after the shell. *)

(* Mutant: the signal is sent with terminationHandler still installed.     *)
ChainNoReset(t) ==
  /\ At(t, "chain")
  /\ Goto(t, "kill")
  /\ UNCHANGED <<phase, sigVars, pending, cur, eof, heap, odd>>

(* The handler LDM replaced, if there was one, which may not return, and   *)
(* then signal(signum, SIG_DFL).                                           *)
Chain(t) ==
  /\ At(t, "chain")
  /\ \/ /\ disp' = [disp EXCEPT ![Top(t).ctx] = "DFL"]
        /\ Goto(t, "kill")
        /\ UNCHANGED <<phase, saver, touched, pending, cur, eof, heap>>
     \/ /\ saver[Top(t).ctx] = "prog"
        /\ ProgramExits \/ (ProgramJumps(t) /\ UNCHANGED pending)
  /\ UNCHANGED odd

(* kill(getpid(), signum): to the process, not to this thread, which       *)
(* blocks it.                                                              *)
Kill(t) ==
  /\ At(t, "kill")
  /\ pending' = pending \cup {Top(t).ctx}
  /\ Goto(t, "ret")
  /\ UNCHANGED <<phase, sigVars, cur, eof, heap, odd>>

(* The return from the handler unblocks the signal, and a signal that is   *)
(* pending with the default disposition ends the process there and then.   *)
(* A return to abort() does in any case.                                   *)
HandlerReturn(t) ==
  /\ At(t, "ret")
  /\ LET rest == [shells EXCEPT ![t] = Front(@)]
         fatal == {s \in pending : disp[s] = "DFL"
                                    /\ \A i \in DOMAIN rest[t] : rest[t][i].ctx # s}
     IN  \/ (Top(t).aborting \/ fatal # {}) /\ End("killed")
         \/ /\ ~Top(t).aborting
            /\ fatal = {}
            /\ shells' = rest
            /\ UNCHANGED <<phase, sigVars, pending, cur, eof, heap>>
  /\ UNCHANGED odd

-----------------------------------------------------------------------------
LDM_init ==
  \/ setupSignals("SEGV", "segv", "abrt")
  \/ setupSignals("ABRT", "abrt", "debug")
  \/ OpenInit \/ NoInitShell

HandlerStep(t) ==
  \/ Trace(t) \/ SetFramePtr(t) \/ LoadFramePtr(t) \/ ReadLink(t)
  \/ EndOfInput(t) \/ Chain(t) \/ Kill(t) \/ HandlerReturn(t)

Program(t) ==
  \/ ProgramFaults(t) \/ ProgramAborts(t)
  \/ \E s \in Handles : ProgramSets(t, s)
  \/ EnterAllocator(t) \/ LeaveAllocator(t)

Next ==
  \/ LDM_init
  \/ InputEnds
  \/ \E s \in Signals : Send(s)
  \/ \E t \in Threads, s \in Signals : Deliver(t, s)
  \/ \E t \in Threads :
       Program(t) \/ HandlerStep(t) \/ CommandStep(t) \/ ShellAborts(t)

Spec == Init /\ [][Next]_vars

(* Every thread is scheduled, and one that waits for the allocator gets it *)
(* if it is free again and again.  The user owes nothing; the program only *)
(* has to return from the allocator.                                       *)
Fairness ==
  \A t \in Threads :
    /\ WF_vars(HandlerStep(t))
    /\ SF_vars(Trace(t))
    /\ SF_vars(EndOfInput(t))
    /\ WF_vars(LeaveAllocator(t))

FairSpec == Spec /\ Fairness

-----------------------------------------------------------------------------
(* Properties. *)

Pointers == [of : Threads \X Nat, n : 0 .. MaxDepth + 1]
Globals  == [owner : Threads \X Nat, fp : Pointers, pc : Pointers]

Shell == [ctx : Signals \cup {INIT_CTX}, at : Places, frame : 0 .. MaxDepth + 1,
          left : 0 .. MaxDepth + 1, reg : Pointers, aborting : BOOLEAN]

(* Every variable has its type; frame numbers do not become negative.      *)
TypeOK ==
  /\ phase \in Phases
  /\ disp \in [Signals -> Dispositions]
  /\ saver \in [Signals -> Dispositions]
  /\ touched \subseteq Signals
  /\ pending \subseteq Signals
  /\ shells \in [Threads -> Seq(Shell)]
  /\ cur \in Globals
  /\ eof \in BOOLEAN
  /\ heap \in Threads \cup {NoThread}
  /\ odd \in 0 .. MaxOdd

(* A shell that waits for a line looks at a frame that exists, with that   *)
(* frame's pointer and the instruction read beside it, if it was the last  *)
(* to begin to set the globals and no other shell stored into them since:  *)
(* a walk past the end of the chain never comes back to the prompt, shells *)
(* opened and left meanwhile do not matter as long as they are not in a    *)
(* walk themselves, and a walk that one interrupted is not taken for       *)
(* finished (legerdemain.c:264-265, 348-357, 376-390).                     *)
FrameWalk ==
  LET t == cur.owner[1]
      i == cur.owner[2]
  IN  i \in DOMAIN shells[t] /\ shells[t][i].at = "prompt" =>
        LET n == shells[t][i].frame
        IN  /\ n <= MaxDepth
            /\ cur.fp = FrameOf(cur.owner, n)
            /\ cur.pc = FrameOf(cur.owner, IF n = 0 THEN 0 ELSE n + 1)

(* A shell opened by a fault is never stacked on another one: a bad        *)
(* address typed there ends the process (legerdemain.c:536-537).           *)
FaultsOnce ==
  \A t \in Threads :
    Cardinality({i \in DOMAIN shells[t] : shells[t][i].ctx = "SEGV"}) <= 1

(* A thread that has left a shell never goes back to what it was doing     *)
(* when the signal came, as long as the program has set no disposition     *)
(* itself (legerdemain.c:518-519: the handler resets the disposition of    *)
(* the process and signals the process, in two steps).                     *)
ReturnsOnlyToDie ==
  [][\A t \in Threads :
       At(t, "ret") /\ shells'[t] # shells[t] /\ Len(shells'[t]) < Len(shells[t])
         => phase' \in Ends \/ touched # {}]_vars

AllocatorStopped == heap # NoThread /\ InShell(heap)

(* A process whose input has ended does not stay in the debugger: its      *)
(* shells fault on the missing line until that kills it.  Excepted are a   *)
(* thread stopped inside the allocator, which every shell then waits for,  *)
(* and a program that has set SIGSEGV itself (legerdemain.c:464).          *)
EofDies ==
  \A t \in Threads :
    InShell(t) /\ eof ~> ~InShell(t) \/ AllocatorStopped \/ "SEGV" \in touched

(* A shell that was opened gets to its prompt however many shells other    *)
(* threads have open, unless a thread was stopped inside the allocator     *)
(* (print_trace allocates, legerdemain.c:183).                             *)
Opens ==
  \A t \in Threads :
    At(t, "trace") ~> At(t, "prompt") \/ ~InShell(t) \/ AllocatorStopped

(* The instruction and the frame pointer that inspect looks a variable up  *)
(* with belong to one frame, when a shell waits for a line and no other    *)
(* one stored into the globals since it set them (legerdemain.c:115-119,   *)
(* 139).                                                                   *)
FramePairs ==
  \A t \in Threads :
    At(t, "prompt") /\ cur.owner = Me(t) => cur.fp = cur.pc
=============================================================================
