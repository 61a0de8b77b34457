-------------------------- MODULE DebugShellProofs --------------------------
(***************************************************************************)
(* Proofs about DebugShell, for any threads, lines, initial dispositions   *)
(* and bounds.                                                             *)
(***************************************************************************)
EXTENDS DebugShell, SequenceTheorems, FiniteSetTheorems, TLAPS

-----------------------------------------------------------------------------
(* The innermost shell of a stack, replaced or left. *)
LEMMA FrontType ==
  ASSUME NEW S, NEW s \in Seq(S), s # <<>>
  PROVE  /\ Front(s) \in Seq(S)
         /\ Len(Front(s)) = Len(s) - 1
         /\ \A i \in 1 .. Len(s) - 1 : Front(s)[i] = s[i]
         /\ Len(s) \in Nat \ {0}
         /\ Last(s) \in S
<1>1. Len(s) \in Nat \ {0}
  BY EmptySeq, LenProperties
<1>2. \A i \in 1 .. Len(s) : s[i] \in S
  BY ElementOfSeq
<1> DEFINE n == Len(s) - 1
<1>3. n \in Nat /\ n - 1 + 1 = n /\ \A i \in 1 .. n : s[i] \in S /\ 1 + i - 1 = i
  BY <1>1, <1>2
<1>4. /\ SubSeq(s, 1, n) \in Seq(S)
      /\ Len(SubSeq(s, 1, n)) = IF 1 <= n THEN n - 1 + 1 ELSE 0
      /\ \A i \in 1 .. n - 1 + 1 : SubSeq(s, 1, n)[i] = s[1 + i - 1]
  <2> HIDE DEF n
  <2> QED
    BY <1>3, SubSeqProperties
<1>5. Len(SubSeq(s, 1, n)) = n /\ \A i \in 1 .. n : SubSeq(s, 1, n)[i] = s[i]
  <2> HIDE DEF n
  <2> QED
    BY <1>3, <1>4
<1> QED
  BY <1>1, <1>2, <1>4, <1>5 DEF Front, Last

LEMMA ReplaceType ==
  ASSUME NEW S, NEW s \in Seq(S), s # <<>>, NEW e \in S
  PROVE  LET r == Append(Front(s), e)
         IN  /\ r \in Seq(S)
             /\ Len(r) = Len(s)
             /\ \A i \in 1 .. Len(s) - 1 : r[i] = s[i]
             /\ r[Len(s)] = e
<1>1. /\ Front(s) \in Seq(S)
      /\ Len(Front(s)) = Len(s) - 1
      /\ Len(s) \in Nat \ {0}
  BY FrontType
<1>2. \A i \in 1 .. Len(s) - 1 : Front(s)[i] = s[i]
  BY FrontType
<1>3. /\ Append(Front(s), e) \in Seq(S)
      /\ Len(Append(Front(s), e)) = Len(Front(s)) + 1
      /\ \A i \in 1 .. Len(Front(s)) : Append(Front(s), e)[i] = Front(s)[i]
      /\ Append(Front(s), e)[Len(Front(s)) + 1] = e
  BY <1>1, AppendProperties
<1> QED
  BY <1>1, <1>2, <1>3

-----------------------------------------------------------------------------
(* A shell opened by a signal that was delivered, which the thread did not *)
(* block, is the only one of its signal at or below it; only abort's       *)
(* raise gets past a block.                                                *)
Sound(s) ==
  \A i \in 1 .. Len(s) :
    /\ s[i].aborting => s[i].ctx = "ABRT"
    /\ ~s[i].aborting => \A j \in 1 .. i - 1 : s[j].ctx # s[i].ctx
    /\ s[i].at \in {"chain", "kill", "ret"} => s[i].ctx \in Signals
    /\ s[i].at \in {"trace", "fptr"} => s[i].frame = 0

Stacked == \A t \in Threads : Sound(shells[t])

(* Who is not there has no shell, and the shell of the start is left       *)
(* before the program starts.                                              *)
OthersEmpty == \A t \in Threads : ~Exists(t) => shells[t] = <<>>

InitFirst ==
  \A t \in Threads : \A i \in 1 .. Len(shells[t]) :
    shells[t][i].ctx = INIT_CTX => phase = "debug"

(* Unless the program sets a disposition, a signal once reset stays reset, *)
(* and one that was sent by Kill stays pending.                            *)
Reset ==
  touched = {} =>
    \A t \in Threads : \A i \in 1 .. Len(shells[t]) :
      /\ shells[t][i].at \in {"kill", "ret"} => disp[shells[t][i].ctx] = "DFL"
      /\ shells[t][i].at = "ret" => shells[t][i].ctx \in pending

Installed ==
  /\ phase \in {"abrt", "debug", "main"} /\ "SEGV" \notin touched
       => disp["SEGV"] \in {"LDM", "DFL"}
  /\ phase \in {"debug", "main"} /\ "ABRT" \notin touched
       => disp["ABRT"] \in {"LDM", "DFL"}

(* How far the globals c are set when they are those of shell sh: one link *)
(* after the other, and at the prompt to a frame that exists.              *)
Fits(sh, c) ==
  /\ sh.at = "fptr" => c.pc = FrameOf(c.owner, 0)
  /\ sh.at \in {"walk", "link"} =>
       /\ sh.left <= sh.frame
       /\ c.fp = FrameOf(c.owner, sh.frame - sh.left)
  /\ sh.at = "link" => sh.frame > 0 /\ sh.reg = c.fp
  /\ sh.at = "prompt" =>
       /\ sh.frame <= MaxDepth
       /\ c.fp = FrameOf(c.owner, sh.frame)
       /\ c.pc = FrameOf(c.owner, IF sh.frame = 0 THEN 0 ELSE sh.frame + 1)

WalkInv ==
  cur.owner[2] \in DOMAIN shells[cur.owner[1]] =>
    Fits(shells[cur.owner[1]][cur.owner[2]], cur)

IInv == /\ TypeOK /\ WalkInv
        /\ Stacked /\ OthersEmpty /\ InitFirst /\ Reset /\ Installed

LEMMA UnsetType == Unset \in Globals
  BY ShellAssumption DEF Unset, Globals, Nobody, NoFrame, FrameOf, Pointers

LEMMA NoFrameType == NoFrame \in Pointers
  BY ShellAssumption DEF NoFrame, Nobody, FrameOf, Pointers

LEMMA InitIInv == Init => IInv
<1> SUFFICES ASSUME Init PROVE IInv
  OBVIOUS
<1>1. TypeOK
  <2>1. disp \in [Signals -> Dispositions]
    BY ShellAssumption DEF Init, Signals, Dispositions
  <2>2. /\ saver \in [Signals -> Dispositions]
        /\ shells \in [Threads -> Seq(Shell)]
        /\ odd \in 0 .. MaxOdd
    BY ShellAssumption DEF Init, Signals, Dispositions
  <2>3. cur \in Globals
    BY UnsetType DEF Init
  <2>4. eof \in BOOLEAN
    BY DEF Init
  <2> QED
    BY <2>1, <2>2, <2>3, <2>4 DEF Init, TypeOK, Phases
<1>2. WalkInv
  BY ShellAssumption DEF Init, WalkInv, Unset, Nobody
<1>3. Stacked /\ InitFirst /\ Reset
  BY DEF Init, Stacked, Sound, InitFirst, Reset
<1>4. OthersEmpty
  BY DEF Init, OthersEmpty
<1>5. Installed
  BY DEF Init, Installed
<1> QED
  BY <1>1, <1>2, <1>3, <1>4, <1>5 DEF IInv

-----------------------------------------------------------------------------
(* What a step does to the stacks of shells is one of a few things, each   *)
(* of which keeps the invariant and takes no thread back to the program    *)
(* from a shell it has left.                                               *)
Returns ==
  \A t \in Threads :
    At(t, "ret") /\ Len(shells'[t]) < Len(shells[t]) =>
      phase' \in Ends \/ touched # {}

Keeps == IInv' /\ Returns

LEMMA EndKeeps ==
  ASSUME IInv, NEW how \in Ends, End(how), odd' \in 0 .. MaxOdd
  PROVE  Keeps
<1> USE DEF IInv, End, sigVars
<1>1. shells' = [t \in Threads |-> <<>>] /\ ~(phase' \in {"abrt", "debug", "main"})
  BY DEF Ends
<1>2. TypeOK'
  <2>1. shells' \in [Threads -> Seq(Shell)]
    BY <1>1
  <2>2. cur' \in Globals
    BY UnsetType
  <2> QED
    BY <2>1, <2>2 DEF TypeOK, Phases, Ends
<1>3. WalkInv'
  BY <1>1, ShellAssumption DEF WalkInv, Unset, Nobody
<1>4. Stacked' /\ InitFirst' /\ Reset'
  BY <1>1 DEF Stacked, Sound, InitFirst, Reset
<1>5. OthersEmpty'
  BY <1>1 DEF OthersEmpty
<1>6. Installed'
  BY <1>1 DEF Installed
<1>7. Returns
  BY DEF Returns
<1> QED
  BY <1>2, <1>3, <1>4, <1>5, <1>6, <1>7 DEF Keeps

(* A signal may be taken from those pending if it is not one that kills.   *)
Takes == pending' = pending \/ \E s \in Signals : disp[s] # "DFL" /\ pending' = pending \ {s}

LEMMA JumpKeeps ==
  ASSUME IInv, NEW t \in Threads, ProgramJumps(t), Takes,
         touched # {} \/ ~At(t, "ret"), odd' \in 0 .. MaxOdd
  PROVE  Keeps
<1> USE DEF IInv, ProgramJumps, sigVars
<1>1. /\ shells'[t] = <<>>
      /\ \A u \in Threads \ {t} : shells'[u] = shells[u]
      /\ UNCHANGED <<phase, disp, touched, saver, cur>>
  BY DEF TypeOK
<1>2. pending' \subseteq pending
  BY DEF Takes
<1>3. TypeOK'
  <2>1. shells' \in [Threads -> Seq(Shell)]
    BY DEF TypeOK
  <2> QED
    BY <1>2, <2>1 DEF TypeOK
<1>4. WalkInv'
  <2>1. cur.owner[1] \in Threads
    BY DEF TypeOK, Globals
  <2> QED
    BY <1>1, <2>1 DEF WalkInv
<1>5. Stacked' /\ InitFirst'
  BY <1>1 DEF Stacked, Sound, InitFirst
<1>6. Reset'
  BY <1>1 DEF Reset, Takes
<1>7. OthersEmpty' /\ Installed'
  BY <1>1 DEF OthersEmpty, Exists, Alive, Installed
<1>8. Returns
  BY <1>1 DEF Returns, TypeOK
<1> QED
  BY <1>3, <1>4, <1>5, <1>6, <1>7, <1>8 DEF Keeps

(* A shell is opened for a signal the thread does not block, or by abort.  *)
LEMMA OpenKeeps ==
  ASSUME IInv, NEW t \in Threads, Exists(t),
         NEW ctx \in Signals \cup {INIT_CTX}, NEW aborting \in BOOLEAN,
         ctx = INIT_CTX => phase = "debug" /\ shells[t] = <<>>,
         IF aborting THEN ctx = "ABRT" ELSE ctx \notin Blocked(t),
         Open(t, ctx, aborting),
         UNCHANGED <<phase, sigVars, cur, eof, heap>>, Takes,
         odd' \in 0 .. MaxOdd
  PROVE  Keeps
<1> USE DEF IInv, sigVars
<1> DEFINE sh == [ctx |-> ctx, at |-> "trace", frame |-> 0, left |-> 0,
                  reg |-> NoFrame, aborting |-> aborting]
<1>1. sh \in Shell
  BY ShellAssumption DEF Shell, Places, NoFrame, Nobody, FrameOf, Pointers
<1>2. /\ shells[t] \in Seq(Shell)
      /\ shells' = [shells EXCEPT ![t] = Append(@, sh)]
  BY DEF Open, TypeOK
<1> HIDE DEF sh
<1>3. /\ Append(shells[t], sh) \in Seq(Shell)
      /\ Len(Append(shells[t], sh)) = Len(shells[t]) + 1
      /\ \A i \in 1 .. Len(shells[t]) : Append(shells[t], sh)[i] = shells[t][i]
      /\ Append(shells[t], sh)[Len(shells[t]) + 1] = sh
      /\ Len(shells[t]) \in Nat
  BY <1>1, <1>2, AppendProperties, LenProperties
<1>4. /\ shells'[t] = Append(shells[t], sh)
      /\ \A u \in Threads \ {t} : shells'[u] = shells[u]
  BY <1>2 DEF TypeOK
<1>5. sh.ctx = ctx /\ sh.at = "trace" /\ sh.aborting = aborting /\ sh.frame = 0
  BY DEF sh
<1>6. TypeOK'
  <2>1. shells' \in [Threads -> Seq(Shell)]
    BY <1>2, <1>3 DEF TypeOK
  <2>2. pending' \subseteq Signals
    BY DEF TypeOK, Takes
  <2> QED
    BY <2>1, <2>2 DEF TypeOK
<1>7. WalkInv'
  <2>1. cur.owner[1] \in Threads /\ cur.owner[2] \in Nat
    BY DEF TypeOK, Globals
  <2>2. \A u \in Threads, i \in Nat :
          i \in DOMAIN shells'[u] /\ shells'[u][i].at # "trace" =>
            i \in DOMAIN shells[u] /\ shells'[u][i] = shells[u][i]
    <3>1. DOMAIN shells[t] = 1 .. Len(shells[t]) /\ DOMAIN shells'[t] = 1 .. Len(shells[t]) + 1
      BY <1>2, <1>3, <1>4, LenProperties
    <3> SUFFICES ASSUME NEW u \in Threads, NEW i \in Nat, i \in DOMAIN shells'[u],
                        shells'[u][i].at # "trace"
                 PROVE  i \in DOMAIN shells[u] /\ shells'[u][i] = shells[u][i]
      OBVIOUS
    <3>2. CASE u # t
      BY <1>4, <3>2
    <3>3. CASE u = t
      <4>1. i # Len(shells[t]) + 1
        BY <1>3, <1>4, <1>5, <3>3
      <4>2. i \in 1 .. Len(shells[t])
        BY <1>3, <3>1, <3>3, <4>1
      <4> QED
        BY <1>3, <1>4, <3>1, <3>3, <4>2
    <3> QED
      BY <3>2, <3>3
  <2>3. CASE shells'[cur.owner[1]][cur.owner[2]].at = "trace"
    BY <2>3 DEF WalkInv, Fits
  <2> QED
    BY <2>1, <2>2, <2>3 DEF WalkInv
<1>8. Stacked'
  <2>1. \A i \in 1 .. Len(shells[t]) : ~aborting => shells[t][i].ctx # ctx
    <3>1. DOMAIN shells[t] = 1 .. Len(shells[t])
      BY <1>2, LenProperties
    <3> SUFFICES ASSUME NEW i \in 1 .. Len(shells[t]), ~aborting, shells[t][i].ctx = ctx
                 PROVE  FALSE
      OBVIOUS
    <3>2. ctx = INIT_CTX \/ ctx \in Signals
      OBVIOUS
    <3>3. CASE ctx = INIT_CTX
      BY <3>3, EmptySeq
    <3>4. CASE ctx \in Signals
      BY <3>1, <3>4 DEF Blocked
    <3> QED
      BY <3>2, <3>3, <3>4
  <2>2. Sound(shells[t])
    BY DEF Stacked
  <2>3. Sound(shells'[t])
    BY <1>3, <1>4, <1>5, <2>1, <2>2 DEF Sound
  <2> QED
    BY <1>4, <2>3 DEF Stacked
<1>9. OthersEmpty' /\ Installed'
  BY <1>4 DEF OthersEmpty, Exists, Alive, Installed
<1>10. InitFirst'
  <2>1. \A i \in 1 .. Len(shells'[t]) :
          \/ i \in 1 .. Len(shells[t]) /\ shells'[t][i] = shells[t][i]
          \/ shells'[t][i] = sh
    BY <1>3, <1>4
  <2>2. UNCHANGED phase /\ (sh.ctx = INIT_CTX => phase = "debug")
    BY <1>5
  <2> QED
    BY <1>4, <2>1, <2>2 DEF InitFirst
<1>11. Reset'
  <2>1. \A i \in 1 .. Len(shells'[t]) :
          \/ i \in 1 .. Len(shells[t]) /\ shells'[t][i] = shells[t][i]
          \/ shells'[t][i].at = "trace"
    BY <1>3, <1>4, <1>5
  <2>2. \A s \in pending : disp[s] = "DFL" => s \in pending'
    BY DEF Takes
  <2> SUFFICES ASSUME touched = {}, NEW u \in Threads, NEW i \in 1 .. Len(shells'[u]),
                      shells'[u][i].at \in {"kill", "ret"}
               PROVE  /\ disp[shells'[u][i].ctx] = "DFL"
                      /\ shells'[u][i].at = "ret" => shells'[u][i].ctx \in pending'
    BY DEF Reset
  <2>3. i \in 1 .. Len(shells[u]) /\ shells'[u][i] = shells[u][i]
    BY <1>4, <2>1
  <2> QED
    BY <2>2, <2>3 DEF Reset
<1>12. Returns
  BY <1>3, <1>4, LenProperties DEF Returns, TypeOK
<1> QED
  BY <1>6, <1>7, <1>8, <1>9, <1>10, <1>11, <1>12 DEF Keeps

(* The innermost shell goes on. *)
LEMMA TopKeeps ==
  ASSUME IInv, NEW t \in Threads, InShell(t),
         NEW sh \in Shell, sh.ctx = Top(t).ctx, sh.aborting = Top(t).aborting,
         sh.at # "trace", sh.at = "fptr" => sh.frame = 0,
         sh.at \in {"chain", "kill", "ret"} => sh.ctx \in Signals,
         touched = {} /\ sh.at \in {"kill", "ret"} => disp'[sh.ctx] = "DFL",
         sh.at = "ret" => sh.ctx \in pending',
         shells' = SetTop(t, sh),
         cur' \in Globals,
         \/ cur' = cur /\ cur.owner # Me(t)
         \/ cur'.owner = Nobody
         \/ cur'.owner = Me(t) /\ Fits(sh, cur'),
         disp' \in [Signals -> Dispositions],
         \A s \in Signals : disp'[s] \in {disp[s], "DFL"},
         pending \subseteq pending', pending' \subseteq Signals,
         UNCHANGED <<phase, saver, touched, eof, heap>>, odd' \in 0 .. MaxOdd
  PROVE  Keeps
<1> USE DEF IInv
<1>1. shells[t] \in Seq(Shell) /\ shells[t] # <<>> /\ Len(shells[t]) \in Nat \ {0}
  BY FrontType DEF InShell, TypeOK
<1>2. /\ shells'[t] = Append(Front(shells[t]), sh)
      /\ \A u \in Threads \ {t} : shells'[u] = shells[u]
  BY DEF SetTop, TypeOK
<1>3. /\ shells'[t] \in Seq(Shell)
      /\ Len(shells'[t]) = Len(shells[t])
      /\ \A i \in 1 .. Len(shells[t]) - 1 : shells'[t][i] = shells[t][i]
      /\ shells'[t][Len(shells[t])] = sh
  BY <1>1, <1>2, ReplaceType
<1>4. Top(t) = shells[t][Len(shells[t])]
  BY DEF Top, Last
<1>5. TypeOK'
  <2>1. shells' \in [Threads -> Seq(Shell)]
    BY <1>1, <1>2, <1>3 DEF SetTop, TypeOK
  <2> QED
    BY <2>1 DEF TypeOK
<1>6. WalkInv'
  <2>1. CASE cur' = cur /\ cur.owner # Me(t)
    <3> DEFINE u == cur.owner[1]
               i == cur.owner[2]
    <3>1. u \in Threads /\ i \in Nat /\ cur.owner = <<u, i>>
      BY DEF TypeOK, Globals
    <3>2. u # t \/ i # Len(shells[t])
      BY <2>1, <3>1 DEF Me
    <3>3. DOMAIN shells'[u] = DOMAIN shells[u]
      BY <1>1, <1>2, <1>3, <3>1, LenProperties
    <3>4. i \in DOMAIN shells[u] => shells'[u][i] = shells[u][i]
      <4>1. CASE u # t
        BY <1>2, <3>1, <4>1
      <4>2. CASE u = t /\ i \in DOMAIN shells[u]
        <5>1. i \in 1 .. Len(shells[t]) - 1
          BY <1>1, <3>1, <3>2, <4>2, LenProperties
        <5> QED
          BY <1>3, <4>2, <5>1
      <4> QED
        BY <4>1, <4>2
    <3> QED
      BY <2>1, <3>3, <3>4 DEF WalkInv
  <2>2. CASE cur'.owner = Nobody
    <3>1. \A u \in Threads : shells'[u] \in Seq(Shell)
      BY <1>5 DEF TypeOK
    <3>2. cur'.owner[1] \in Threads /\ cur'.owner[2] = 0
      BY <2>2, ShellAssumption DEF Nobody
    <3>3. cur'.owner[2] \notin DOMAIN shells'[cur'.owner[1]]
      BY <3>1, <3>2, LenProperties
    <3> QED
      BY <3>3 DEF WalkInv
  <2>3. CASE cur'.owner = Me(t) /\ Fits(sh, cur')
    <3>1. cur'.owner[1] = t /\ cur'.owner[2] = Len(shells[t])
      BY <2>3 DEF Me
    <3> QED
      BY <1>3, <2>3, <3>1 DEF WalkInv
  <2> QED
    BY <2>1, <2>2, <2>3
<1>7. Stacked'
  <2>1. Sound(shells[t])
    BY DEF Stacked
  <2>2. \A i \in 1 .. Len(shells[t]) :
          /\ shells'[t][i].ctx = shells[t][i].ctx
          /\ shells'[t][i].aborting = shells[t][i].aborting
    BY <1>1, <1>3, <1>4
  <2>3. \A i \in 1 .. Len(shells[t]) :
          \/ shells'[t][i] = shells[t][i]
          \/ shells'[t][i] = sh
    BY <1>1, <1>3
  <2>4. \A i \in 1 .. Len(shells[t]) : \A j \in 1 .. i - 1 : j \in 1 .. Len(shells[t])
    BY <1>1
  <2>5. ASSUME NEW i \in 1 .. Len(shells[t])
        PROVE  /\ shells'[t][i].aborting => shells'[t][i].ctx = "ABRT"
               /\ ~shells'[t][i].aborting =>
                    \A j \in 1 .. i - 1 : shells'[t][j].ctx # shells'[t][i].ctx
    BY <2>1, <2>2, <2>4 DEF Sound
  <2>6. ASSUME NEW i \in 1 .. Len(shells[t])
        PROVE  /\ shells'[t][i].at \in {"chain", "kill", "ret"} => shells'[t][i].ctx \in Signals
               /\ shells'[t][i].at \in {"trace", "fptr"} => shells'[t][i].frame = 0
    BY <2>1, <2>3 DEF Sound
  <2>7. Sound(shells'[t])
    BY <1>3, <2>5, <2>6 DEF Sound
  <2> QED
    BY <1>2, <2>7 DEF Stacked
<1>8. OthersEmpty'
  BY <1>2 DEF OthersEmpty, Exists, Alive, InShell
<1>9. InitFirst'
  <2>1. \A i \in 1 .. Len(shells'[t]) : shells'[t][i].ctx = shells[t][i].ctx
    BY <1>1, <1>3, <1>4
  <2> SUFFICES ASSUME NEW u \in Threads, NEW i \in 1 .. Len(shells'[u]),
                      shells'[u][i].ctx = INIT_CTX
               PROVE  phase = "debug"
    BY DEF InitFirst
  <2>2. i \in 1 .. Len(shells[u]) /\ shells[u][i].ctx = INIT_CTX
    BY <1>2, <1>3, <2>1
  <2> QED
    BY <2>2 DEF InitFirst
<1>10. Reset'
  <2> SUFFICES ASSUME touched = {}, NEW u \in Threads, NEW i \in 1 .. Len(shells'[u])
               PROVE  /\ shells'[u][i].at \in {"kill", "ret"} => disp'[shells'[u][i].ctx] = "DFL"
                      /\ shells'[u][i].at = "ret" => shells'[u][i].ctx \in pending'
    BY DEF Reset
  <2>1. CASE u = t /\ i = Len(shells[t])
    BY <1>3, <2>1
  <2>2. CASE ~(u = t /\ i = Len(shells[t]))
    <3>1. i \in 1 .. Len(shells[u]) /\ shells'[u][i] = shells[u][i]
      BY <1>1, <1>2, <1>3, <2>2
    <3>2. shells[u][i].at \in {"kill", "ret"} => shells[u][i].ctx \in Signals
      BY <3>1 DEF Stacked, Sound
    <3> QED
      BY <3>1, <3>2 DEF Reset
  <2> QED
    BY <2>1, <2>2
<1>11. Installed'
  BY DEF Installed, Signals
<1>12. Returns
  <2>1. \A u \in Threads : Len(shells'[u]) = Len(shells[u]) /\ Len(shells[u]) \in Nat
    BY <1>2, <1>3, LenProperties DEF TypeOK
  <2> QED
    BY <2>1 DEF Returns
<1> QED
  BY <1>5, <1>6, <1>7, <1>8, <1>9, <1>10, <1>11, <1>12 DEF Keeps

(* The innermost shell is left: a return from the handler, or the end of   *)
(* the shell of the start.                                                 *)
LEMMA PopKeeps ==
  ASSUME IInv, NEW t \in Threads, InShell(t),
         shells' = [shells EXCEPT ![t] = Front(@)],
         phase' = phase \/ (phase' = "main" /\ Top(t).ctx = INIT_CTX),
         At(t, "ret") => touched # {},
         UNCHANGED <<sigVars, pending, cur, eof, heap>>, odd' \in 0 .. MaxOdd
  PROVE  Keeps
<1> USE DEF IInv, sigVars
<1>1. shells[t] \in Seq(Shell) /\ shells[t] # <<>>
  BY DEF InShell, TypeOK
<1>2. /\ shells'[t] = Front(shells[t])
      /\ \A u \in Threads \ {t} : shells'[u] = shells[u]
  BY DEF TypeOK
<1>3. /\ shells'[t] \in Seq(Shell)
      /\ Len(shells'[t]) = Len(shells[t]) - 1
      /\ \A i \in 1 .. Len(shells[t]) - 1 : shells'[t][i] = shells[t][i]
      /\ Len(shells[t]) \in Nat \ {0}
      /\ Top(t) = shells[t][Len(shells[t])]
  BY <1>1, <1>2, FrontType DEF Top, Last
<1>4. \A u \in Threads : \A i \in 1 .. Len(shells'[u]) :
        i \in 1 .. Len(shells[u]) /\ shells'[u][i] = shells[u][i]
  BY <1>2, <1>3
<1>5. phase' # phase => phase = "debug" /\ t = Main
  <2>1. Exists(t)
    BY DEF OthersEmpty, InShell
  <2>2. Top(t).ctx = INIT_CTX => phase = "debug"
    BY <1>3 DEF InitFirst
  <2> QED
    BY <2>1, <2>2 DEF Exists
<1>6. TypeOK'
  <2>1. shells' \in [Threads -> Seq(Shell)]
    BY <1>2, <1>3 DEF TypeOK
  <2> QED
    BY <2>1 DEF TypeOK, Phases
<1>7. WalkInv'
  <2>1. cur.owner[1] \in Threads /\ cur.owner[2] \in Nat
    BY DEF TypeOK, Globals
  <2>2. \A u \in Threads : shells[u] \in Seq(Shell) /\ shells'[u] \in Seq(Shell)
    BY <1>2, <1>3 DEF TypeOK
  <2>3. \A u \in Threads : /\ DOMAIN shells[u] = 1 .. Len(shells[u])
                           /\ DOMAIN shells'[u] = 1 .. Len(shells'[u])
    BY <2>2, LenProperties
  <2> QED
    BY <1>4, <2>1, <2>3 DEF WalkInv
<1>8. Stacked'
  <2>1. Sound(shells[t])
    BY DEF Stacked
  <2>2. \A i \in 1 .. Len(shells'[t]) :
          /\ i \in 1 .. Len(shells[t])
          /\ shells'[t][i] = shells[t][i]
          /\ \A j \in 1 .. i - 1 : shells'[t][j] = shells[t][j]
    BY <1>3
  <2>3. Sound(shells'[t])
    BY <2>1, <2>2 DEF Sound
  <2> QED
    BY <1>2, <2>3 DEF Stacked
<1>9. OthersEmpty'
  BY <1>2, <1>5 DEF OthersEmpty, Exists, Alive, Ends, InShell
<1>10. InitFirst'
  <2>1. CASE phase' = phase
    BY <1>4, <2>1 DEF InitFirst
  <2>2. CASE phase' # phase
    <3>1. Top(t).ctx = INIT_CTX /\ phase = "debug" /\ t = Main
      BY <1>5, <2>2
    <3>2. \A i \in 1 .. Len(shells'[t]) : shells'[t][i].ctx # INIT_CTX
      <4>1. Sound(shells[t]) /\ Len(shells[t]) \in 1 .. Len(shells[t])
        BY <1>3 DEF Stacked
      <4>2. ~Top(t).aborting
        BY <1>3, <3>1, <4>1 DEF Sound, INIT_CTX
      <4>3. \A j \in 1 .. Len(shells[t]) - 1 : shells[t][j].ctx # INIT_CTX
        BY <1>3, <3>1, <4>1, <4>2 DEF Sound
      <4> QED
        BY <1>3, <4>3
    <3>3. \A u \in Threads \ {t} : shells'[u] = <<>>
      BY <1>2, <3>1 DEF OthersEmpty, Exists
    <3> QED
      BY <3>2, <3>3 DEF InitFirst
  <2> QED
    BY <2>1, <2>2
<1>11. Reset'
  BY <1>4 DEF Reset
<1>12. Installed'
  BY <1>5 DEF Installed
<1>13. Returns
  BY <1>2, LenProperties DEF Returns, TypeOK
<1> QED
  BY <1>6, <1>7, <1>8, <1>9, <1>10, <1>11, <1>12, <1>13 DEF Keeps

(* No shell and no disposition changes. *)
LEMMA QuietKeeps ==
  ASSUME IInv, UNCHANGED <<phase, disp, saver, touched, shells, cur>>,
         (pending \subseteq pending' /\ pending' \subseteq Signals) \/ Takes,
         eof' \in BOOLEAN, heap' \in Threads \cup {NoThread}, odd' \in 0 .. MaxOdd
  PROVE  Keeps
<1> USE DEF IInv
<1>1. TypeOK'
  <2>1. pending' \subseteq Signals
    BY DEF TypeOK, Takes
  <2>2. eof' \in BOOLEAN
    OBVIOUS
  <2> QED
    BY <2>1, <2>2 DEF TypeOK
<1>2. WalkInv' /\ Stacked' /\ InitFirst'
  BY DEF WalkInv, Stacked, Sound, InitFirst
<1>3. OthersEmpty' /\ Installed'
  BY DEF OthersEmpty, Exists, Alive, Installed
<1>4. Reset'
  <2>1. \A s \in pending : disp[s] = "DFL" => s \in pending'
    BY DEF Takes
  <2> QED
    BY <2>1 DEF Reset
<1>5. Returns
  <2>1. \A t \in Threads : Len(shells[t]) \in Nat
    BY LenProperties DEF TypeOK
  <2> QED
    BY <2>1 DEF Returns
<1> QED
  BY <1>1, <1>2, <1>3, <1>4, <1>5 DEF Keeps

LEMMA FaultKeeps ==
  ASSUME IInv, NEW t \in Threads, Exists(t), ~At(t, "ret"), Fault(t),
         odd' \in 0 .. MaxOdd
  PROVE  Keeps
<1>1. CASE End("killed") \/ ProgramExits
  BY <1>1, EndKeeps DEF ProgramExits, Ends
<1>2. CASE "SEGV" \notin Blocked(t) /\ OpenFor(t, "SEGV", FALSE)
  <2>1. Takes /\ UNCHANGED <<phase, sigVars, cur, eof, heap>> /\ Open(t, "SEGV", FALSE)
    BY <1>2 DEF OpenFor, Takes
  <2> QED
    BY <1>2, <2>1, OpenKeeps DEF Signals, INIT_CTX
<1>3. CASE ProgramJumps(t) /\ UNCHANGED pending
  BY <1>3, JumpKeeps DEF Takes
<1> QED
  BY <1>1, <1>2, <1>3 DEF Fault

LEMMA AbortKeeps ==
  ASSUME IInv, NEW t \in Threads, Exists(t), ~At(t, "ret"), Abort(t),
         odd' \in 0 .. MaxOdd
  PROVE  Keeps
<1>1. CASE End("killed")
  BY <1>1, EndKeeps DEF Ends
<1>2. CASE OpenFor(t, "ABRT", TRUE)
  <2>1. Takes /\ UNCHANGED <<phase, sigVars, cur, eof, heap>> /\ Open(t, "ABRT", TRUE)
    BY <1>2 DEF OpenFor, Takes
  <2> QED
    BY <2>1, OpenKeeps DEF Signals, INIT_CTX
<1>3. CASE ProgramJumps(t) /\ UNCHANGED pending
  BY <1>3, JumpKeeps DEF Takes
<1> QED
  BY <1>1, <1>2, <1>3 DEF Abort

-----------------------------------------------------------------------------
(* The actions. *)
LEMMA InitKeeps == IInv /\ LDM_init => Keeps
<1> SUFFICES ASSUME IInv, LDM_init PROVE Keeps
  OBVIOUS
<1> USE DEF IInv
<1>1. ASSUME NEW s \in Signals, NEW here, NEW next, setupSignals(s, here, next),
             \/ s = "SEGV" /\ here = "segv" /\ next = "abrt"
             \/ s = "ABRT" /\ here = "abrt" /\ next = "debug"
      PROVE  Keeps
  <2> USE <1>1 DEF setupSignals
  <2>1. \A t \in Threads : shells[t] = <<>>
    BY DEF Runs, OthersEmpty, Exists
  <2>2. TypeOK'
    <3>1. disp' \in [Signals -> Dispositions] /\ saver' \in [Signals -> Dispositions]
      BY DEF TypeOK, Dispositions
    <3>2. phase' \in Phases
      BY DEF Phases
    <3> QED
      BY <3>1, <3>2 DEF TypeOK
  <2>3. WalkInv' /\ Stacked' /\ InitFirst' /\ Reset' /\ OthersEmpty' /\ Returns
    BY <2>1 DEF WalkInv, Stacked, Sound, InitFirst, Reset, OthersEmpty, Returns,
                At, InShell, TypeOK
  <2>4. Installed'
    BY DEF Installed, TypeOK
  <2> QED
    BY <2>2, <2>3, <2>4 DEF Keeps
<1>2. CASE setupSignals("SEGV", "segv", "abrt") \/ setupSignals("ABRT", "abrt", "debug")
  BY <1>1, <1>2 DEF Signals
<1>3. CASE OpenInit
  <2>1. /\ Exists(Main) /\ shells[Main] = <<>> /\ phase = "debug"
        /\ Open(Main, INIT_CTX, FALSE) /\ Takes
        /\ UNCHANGED <<phase, sigVars, cur, eof, heap>>
        /\ odd' \in 0 .. MaxOdd
    BY <1>3 DEF OpenInit, Runs, Takes, TypeOK
  <2>2. INIT_CTX \notin Blocked(Main)
    BY DEF Blocked, Signals, INIT_CTX
  <2> QED
    BY <2>1, <2>2, OpenKeeps, ShellAssumption DEF Signals
<1>4. CASE NoInitShell
  <2> USE <1>4 DEF NoInitShell, sigVars
  <2>1. \A t \in Threads : shells[t] = <<>>
    BY DEF Runs, OthersEmpty, Exists
  <2>2. TypeOK'
    BY DEF TypeOK, Phases
  <2>3. WalkInv' /\ Stacked' /\ InitFirst' /\ Reset' /\ OthersEmpty' /\ Returns
    BY <2>1 DEF WalkInv, Stacked, Sound, InitFirst, Reset, OthersEmpty, Returns,
                At, InShell, TypeOK
  <2>4. Installed'
    BY DEF Installed
  <2> QED
    BY <2>2, <2>3, <2>4 DEF Keeps
<1> QED
  BY <1>2, <1>3, <1>4 DEF LDM_init

LEMMA DeliverKeeps ==
  ASSUME IInv, NEW t \in Threads, NEW s \in Signals, Deliver(t, s)
  PROVE  Keeps
<1>1. Exists(t) /\ s \notin Blocked(t) /\ odd' \in 0 .. MaxOdd
  BY DEF Deliver, IInv, TypeOK
<1>2. CASE End("killed") \/ ProgramExits
  BY <1>1, <1>2, EndKeeps DEF ProgramExits, Ends
<1>3. CASE /\ disp[s] = "LDM"
           /\ Open(t, s, FALSE)
           /\ pending' = pending \ {s}
           /\ UNCHANGED <<phase, sigVars, cur, eof, heap>>
  <2>1. Takes /\ s # INIT_CTX
    BY <1>3 DEF Takes, Signals, INIT_CTX
  <2> QED
    BY <1>1, <1>3, <2>1, OpenKeeps
<1>4. CASE /\ disp[s] \in {"IGN", "prog"}
           /\ pending' = pending \ {s}
           /\ UNCHANGED <<phase, sigVars, shells, cur, eof, heap>>
  <2>1. Takes /\ UNCHANGED <<phase, disp, saver, touched, shells, cur>>
    BY <1>4 DEF Takes, sigVars
  <2>2. eof' \in BOOLEAN
    BY <1>4 DEF IInv, TypeOK
  <2>3. heap' \in Threads \cup {NoThread}
    BY <1>4 DEF IInv, TypeOK
  <2> QED
    BY <1>1, <2>1, <2>2, <2>3, QuietKeeps
<1>5. CASE disp[s] = "prog" /\ ProgramJumps(t) /\ pending' = pending \ {s}
  <2>1. Takes
    BY <1>5 DEF Takes
  <2>2. touched # {}
    BY <1>5 DEF ProgramJumps, IInv, Installed, Signals
  <2> QED
    BY <1>1, <1>5, <2>1, <2>2, JumpKeeps
<1> QED
  BY <1>2, <1>3, <1>4, <1>5 DEF Deliver

LEMMA ProgramKeeps ==
  ASSUME IInv, NEW t \in Threads, Program(t)
  PROVE  Keeps
<1> USE DEF IInv
<1>0. shells[t] = <<>> /\ Exists(t) /\ ~At(t, "ret")
  BY DEF Program, ProgramFaults, ProgramAborts, ProgramSets, EnterAllocator,
         LeaveAllocator, Runs, At, InShell
<1>1. CASE ProgramFaults(t)
  BY <1>0, <1>1, FaultKeeps DEF ProgramFaults, TypeOK
<1>2. CASE ProgramAborts(t)
  BY <1>0, <1>2, AbortKeeps DEF ProgramAborts, TypeOK
<1>3. ASSUME NEW s \in Handles, ProgramSets(t, s) PROVE Keeps
  <2> USE <1>3, ShellAssumption DEF ProgramSets
  <2>1. s \in Signals
    BY DEF Signals
  <2>2. disp' = [disp EXCEPT ![s] = "prog"] /\ touched' = touched \cup {s}
        /\ disp \in [Signals -> Dispositions]
    BY DEF TypeOK
  <2>3. TypeOK'
    <3>1. disp' \in [Signals -> Dispositions]
      BY <2>2 DEF Dispositions
    <3>2. touched' \subseteq Signals
      BY <2>1 DEF TypeOK
    <3>3. /\ phase' \in Phases /\ saver' \in [Signals -> Dispositions]
          /\ pending' \subseteq Signals /\ shells' \in [Threads -> Seq(Shell)]
      BY DEF TypeOK
    <3>4. /\ cur' \in Globals
          /\ heap' \in Threads \cup {NoThread} /\ odd' \in 0 .. MaxOdd
      BY DEF TypeOK
    <3>5. eof' \in BOOLEAN
      BY DEF TypeOK
    <3> QED
      BY <3>1, <3>2, <3>3, <3>4, <3>5 DEF TypeOK
  <2>4. WalkInv' /\ Stacked' /\ InitFirst'
    BY DEF WalkInv, Stacked, Sound, InitFirst
  <2>5. OthersEmpty' /\ Reset'
    BY DEF OthersEmpty, Exists, Alive, Reset
  <2>6. Installed'
    BY <2>2 DEF Installed, Signals
  <2>7. Returns
    <3>1. \A u \in Threads : Len(shells[u]) \in Nat
      BY LenProperties DEF TypeOK
    <3> QED
      BY <3>1 DEF Returns
  <2> QED
    BY <2>3, <2>4, <2>5, <2>6, <2>7 DEF Keeps
<1>4. CASE EnterAllocator(t) \/ LeaveAllocator(t)
  <2>1. /\ UNCHANGED <<phase, disp, saver, touched, shells, cur>>
        /\ pending' = pending
        /\ heap' \in Threads \cup {NoThread}
        /\ odd' \in 0 .. MaxOdd
    BY <1>4 DEF EnterAllocator, LeaveAllocator, sigVars, TypeOK
  <2>2. eof' \in BOOLEAN
    BY <1>4 DEF EnterAllocator, LeaveAllocator, TypeOK
  <2> QED
    BY <2>1, <2>2, QuietKeeps DEF Takes
<1> QED
  BY <1>1, <1>2, <1>3, <1>4 DEF Program

LEMMA Entered ==
  ASSUME IInv, NEW t \in Threads, InShell(t)
  PROVE  Exists(t) /\ Top(t) \in Shell /\ shells[t] \in Seq(Shell)
         /\ Len(shells[t]) \in Nat \ {0} /\ Top(t) = shells[t][Len(shells[t])]
<1>1. shells[t] \in Seq(Shell) /\ shells[t] # <<>>
  BY DEF IInv, TypeOK, InShell
<1> QED
  BY <1>1, FrontType DEF IInv, OthersEmpty, InShell, Top, Last

(* A shell that has been left goes on; the globals are as they were. *)
LEMMA LeftKeeps ==
  ASSUME IInv, NEW t \in Threads, InShell(t),
         NEW sh \in Shell, sh.ctx = Top(t).ctx, sh.aborting = Top(t).aborting,
         sh.at \in {"chain", "kill", "ret"}, sh.ctx \in Signals,
         shells' = SetTop(t, sh),
         touched = {} /\ sh.at \in {"kill", "ret"} => disp'[sh.ctx] = "DFL",
         sh.at = "ret" => sh.ctx \in pending',
         disp' \in [Signals -> Dispositions],
         \A s \in Signals : disp'[s] \in {disp[s], "DFL"},
         pending \subseteq pending', pending' \subseteq Signals,
         UNCHANGED <<phase, saver, touched, cur, eof, heap>>, odd' \in 0 .. MaxOdd
  PROVE  Keeps
<1>1. cur' \in Globals
  BY DEF IInv, TypeOK
<1>2. Fits(sh, cur')
  BY DEF Fits
<1> QED
  BY <1>1, <1>2, TopKeeps

LEMMA GotoKeeps ==
  ASSUME IInv, NEW t \in Threads, InShell(t),
         NEW p \in {"chain", "kill", "ret"}, Goto(t, p), Top(t).ctx \in Signals,
         touched = {} /\ p \in {"kill", "ret"} => disp'[Top(t).ctx] = "DFL",
         p = "ret" => Top(t).ctx \in pending',
         disp' \in [Signals -> Dispositions],
         \A s \in Signals : disp'[s] \in {disp[s], "DFL"},
         pending \subseteq pending', pending' \subseteq Signals,
         UNCHANGED <<phase, saver, touched, cur, eof, heap>>, odd' \in 0 .. MaxOdd
  PROVE  Keeps
<1> DEFINE sh == [Top(t) EXCEPT !.at = p]
<1>1. /\ sh \in Shell /\ sh.ctx = Top(t).ctx /\ sh.aborting = Top(t).aborting
      /\ sh.at = p
  BY Entered DEF Shell, Places
<1>2. shells' = SetTop(t, sh)
  BY DEF Goto
<1> HIDE DEF sh
<1> QED
  BY <1>1, <1>2, LeftKeeps

(* A shell stores into the globals, or loads from them, and goes on: only  *)
(* if they are its own then does it matter what it stored.                 *)
LEMMA SetKeeps ==
  ASSUME IInv, NEW t \in Threads, InShell(t),
         NEW sh \in Shell, sh.ctx = Top(t).ctx, sh.aborting = Top(t).aborting,
         sh.at \in {"fptr", "walk", "link", "prompt"}, sh.at = "fptr" => sh.frame = 0,
         shells' = SetTop(t, sh),
         cur' \in Globals,
         \/ cur' = cur /\ cur.owner # Me(t)
         \/ cur'.owner = Nobody
         \/ cur'.owner = Me(t) /\ Fits(sh, cur'),
         UNCHANGED <<phase, sigVars, pending, eof, heap>>, odd' \in 0 .. MaxOdd
  PROVE  Keeps
<1>1. UNCHANGED <<phase, disp, saver, touched, pending, eof, heap>>
  BY DEF sigVars
<1>2. /\ disp' \in [Signals -> Dispositions] /\ \A s \in Signals : disp'[s] = disp[s]
      /\ pending' \subseteq Signals /\ pending \subseteq pending'
  BY <1>1 DEF IInv, TypeOK
<1> QED
  BY <1>1, <1>2, TopKeeps

LEMMA CurType ==
  ASSUME IInv, NEW t \in Threads, InShell(t)
  PROVE  /\ cur \in Globals /\ cur.fp \in Pointers /\ cur.pc \in Pointers
         /\ cur.owner \in Threads \X Nat /\ Me(t) \in Threads \X Nat
         /\ Nobody \in Threads \X Nat /\ Me(t) # Nobody
         /\ FrameOf(Me(t), 0) \in Pointers
         /\ cur.owner = Me(t) => Fits(Top(t), cur)
<1>1. cur \in Globals /\ Len(shells[t]) \in Nat \ {0}
  BY Entered DEF IInv, TypeOK
<1>2. cur.fp \in Pointers /\ cur.pc \in Pointers /\ cur.owner \in Threads \X Nat
  BY <1>1 DEF Globals
<1>3. Me(t) \in Threads \X Nat /\ Nobody \in Threads \X Nat /\ Me(t) # Nobody
  BY <1>1, ShellAssumption DEF Me, Nobody
<1>4. FrameOf(Me(t), 0) \in Pointers
  BY <1>3, ShellAssumption DEF FrameOf, Pointers
<1>5. ASSUME cur.owner = Me(t) PROVE Fits(Top(t), cur)
  <2>1. cur.owner[1] = t /\ cur.owner[2] = Len(shells[t])
    BY <1>5 DEF Me
  <2>2. Len(shells[t]) \in DOMAIN shells[t] /\ Top(t) = shells[t][Len(shells[t])]
    BY <1>1, Entered, LenProperties
  <2> QED
    BY <2>1, <2>2 DEF IInv, WalkInv
<1> QED
  BY <1>1, <1>2, <1>3, <1>4, <1>5

LEMMA SelectKeeps ==
  ASSUME IInv, NEW t \in Threads, At(t, "prompt"),
         NEW n \in 0 .. MaxDepth + 1, Select(t, n), odd' \in 0 .. MaxOdd
  PROVE  Keeps
<1> DEFINE sh == [Top(t) EXCEPT !.at = "walk", !.frame = n, !.left = n]
<1>1. InShell(t)
  BY DEF At
<1>2. /\ sh \in Shell /\ sh.ctx = Top(t).ctx /\ sh.aborting = Top(t).aborting
      /\ sh.at = "walk" /\ sh.frame = n /\ sh.left = n
  BY <1>1, Entered DEF Shell, Places
<1>3. shells' = SetTop(t, sh)
  BY DEF Select
<1> HIDE DEF sh
<1>4. cur' = [cur EXCEPT !.fp = FrameOf(Me(t), 0), !.owner = Me(t)]
  BY <1>1, CurType DEF Select, Begins, Globals
<1>5. cur' \in Globals /\ cur'.owner = Me(t) /\ cur'.fp = FrameOf(Me(t), 0)
  BY <1>1, <1>4, CurType DEF Globals
<1>6. Fits(sh, cur')
  <2>1. n - n = 0 /\ n <= n
    BY ShellAssumption
  <2> QED
    BY <1>2, <1>5, <2>1 DEF Fits
<1>7. UNCHANGED <<phase, sigVars, pending, eof, heap>>
  BY DEF Select
<1> QED
  BY <1>1, <1>2, <1>3, <1>5, <1>6, <1>7, SetKeeps

LEMMA TraceKeeps ==
  ASSUME IInv, NEW t \in Threads, Trace(t)
  PROVE  Keeps
<1> DEFINE sh == [Top(t) EXCEPT !.at = "fptr"]
<1>1. InShell(t) /\ Top(t).at = "trace" /\ shells' = SetTop(t, sh)
  BY DEF Trace, At, Goto
<1>2. Top(t).frame = 0
  BY <1>1, Entered DEF IInv, Stacked, Sound
<1>3. /\ sh \in Shell /\ sh.ctx = Top(t).ctx /\ sh.aborting = Top(t).aborting
      /\ sh.at = "fptr" /\ sh.frame = 0
  BY <1>1, <1>2, Entered DEF Shell, Places
<1> HIDE DEF sh
<1>4. cur' = [cur EXCEPT !.pc = FrameOf(Me(t), 0), !.owner = Me(t)]
  BY <1>1, CurType DEF Trace, Begins, Globals
<1>5. cur' \in Globals /\ cur'.owner = Me(t) /\ cur'.pc = FrameOf(Me(t), 0)
  BY <1>1, <1>4, CurType DEF Globals
<1>6. Fits(sh, cur')
  BY <1>3, <1>5 DEF Fits
<1>7. UNCHANGED <<phase, sigVars, pending, eof, heap>> /\ odd' \in 0 .. MaxOdd
  BY DEF Trace, IInv, TypeOK
<1> QED
  BY <1>1, <1>3, <1>5, <1>6, <1>7, SetKeeps

(* What a later store leaves. *)
LEMMA StoresType ==
  ASSUME IInv, NEW t \in Threads, InShell(t), NEW new \in Globals,
         new.owner = cur.owner, Stores(t, new)
  PROVE  /\ cur' \in Globals /\ cur'.fp = new.fp /\ cur'.pc = new.pc
         /\ cur'.owner = Nobody \/ (cur'.owner = Me(t) /\ cur.owner = Me(t))
  BY CurType DEF Stores, Globals

LEMMA SetFramePtrKeeps ==
  ASSUME IInv, NEW t \in Threads, SetFramePtr(t)
  PROVE  Keeps
<1> DEFINE sh  == [Top(t) EXCEPT !.at = "prompt"]
           new == [cur EXCEPT !.fp = FrameOf(Me(t), 0)]
<1>1. InShell(t) /\ Top(t).at = "fptr" /\ shells' = SetTop(t, sh) /\ Stores(t, new)
  BY DEF SetFramePtr, At, Goto
<1>2. Top(t).frame = 0
  BY <1>1, Entered DEF IInv, Stacked, Sound
<1>3. /\ sh \in Shell /\ sh.ctx = Top(t).ctx /\ sh.aborting = Top(t).aborting
      /\ sh.at = "prompt" /\ sh.frame = 0
  BY <1>1, <1>2, Entered DEF Shell, Places
<1>4. /\ new \in Globals /\ new.owner = cur.owner /\ new.pc = cur.pc
      /\ new.fp = FrameOf(Me(t), 0)
  BY <1>1, CurType DEF Globals
<1> HIDE DEF sh, new
<1>5. /\ cur' \in Globals /\ cur'.fp = FrameOf(Me(t), 0) /\ cur'.pc = cur.pc
      /\ cur'.owner = Nobody \/ (cur'.owner = Me(t) /\ cur.owner = Me(t))
  BY <1>1, <1>4, StoresType
<1>6. cur'.owner = Me(t) /\ cur.owner = Me(t) => Fits(sh, cur')
  BY <1>1, <1>3, <1>5, CurType, ShellAssumption DEF Fits
<1>7. UNCHANGED <<phase, sigVars, pending, eof, heap>> /\ odd' \in 0 .. MaxOdd
  BY DEF SetFramePtr, IInv, TypeOK
<1> QED
  BY <1>1, <1>3, <1>5, <1>6, <1>7, SetKeeps

LEMMA LoadFramePtrKeeps ==
  ASSUME IInv, NEW t \in Threads, LoadFramePtr(t)
  PROVE  Keeps
<1>1. InShell(t) /\ Top(t).at = "walk" /\ Top(t) \in Shell
  BY Entered DEF LoadFramePtr, At
<1>2. UNCHANGED <<phase, sigVars, pending, eof, heap>> /\ odd' \in 0 .. MaxOdd
  BY DEF LoadFramePtr, IInv, TypeOK
<1>3. CASE /\ Top(t).frame > 0
           /\ shells' = SetTop(t, [Top(t) EXCEPT !.at = "link", !.reg = cur.fp])
           /\ UNCHANGED cur
  <2> DEFINE sh == [Top(t) EXCEPT !.at = "link", !.reg = cur.fp]
  <2>1. /\ sh \in Shell /\ sh.ctx = Top(t).ctx /\ sh.aborting = Top(t).aborting
        /\ sh.at = "link" /\ sh.frame = Top(t).frame /\ sh.left = Top(t).left
        /\ sh.reg = cur.fp
    BY <1>1, CurType DEF Shell, Places
  <2> HIDE DEF sh
  <2>2. cur.owner = Me(t) => Fits(sh, cur)
    BY <1>1, <1>3, <2>1, CurType DEF Fits
  <2>3. shells' = SetTop(t, sh) /\ cur' \in Globals /\ cur' = cur
    BY <1>1, <1>3, CurType DEF sh
  <2> QED
    BY <1>1, <1>2, <2>1, <2>2, <2>3, SetKeeps
<1>4. CASE /\ Top(t).frame = 0
           /\ Goto(t, "prompt")
           /\ Stores(t, [cur EXCEPT !.pc = FrameOf(Me(t), 0)])
  <2> DEFINE sh  == [Top(t) EXCEPT !.at = "prompt"]
             new == [cur EXCEPT !.pc = FrameOf(Me(t), 0)]
  <2>1. /\ sh \in Shell /\ sh.ctx = Top(t).ctx /\ sh.aborting = Top(t).aborting
        /\ sh.at = "prompt" /\ sh.frame = 0 /\ shells' = SetTop(t, sh)
    BY <1>1, <1>4 DEF Shell, Places, Goto
  <2>2. /\ new \in Globals /\ new.owner = cur.owner /\ new.fp = cur.fp
        /\ new.pc = FrameOf(Me(t), 0) /\ Stores(t, new)
    BY <1>1, <1>4, CurType DEF Globals
  <2> HIDE DEF sh, new
  <2>3. /\ cur' \in Globals /\ cur'.pc = FrameOf(Me(t), 0) /\ cur'.fp = cur.fp
        /\ cur'.owner = Nobody \/ (cur'.owner = Me(t) /\ cur.owner = Me(t))
    BY <1>1, <2>2, StoresType
  <2>4. cur'.owner = Me(t) /\ cur.owner = Me(t) => Fits(sh, cur')
    <3> SUFFICES ASSUME cur'.owner = Me(t), cur.owner = Me(t) PROVE Fits(sh, cur')
      OBVIOUS
    <3>1. Top(t).left <= 0 /\ cur.fp = FrameOf(Me(t), 0 - Top(t).left)
      BY <1>1, <1>4, CurType DEF Fits
    <3>2. Top(t).left = 0
      BY <1>1, <3>1, ShellAssumption DEF Shell
    <3>3. cur.fp = FrameOf(Me(t), 0)
      BY <3>1, <3>2
    <3> QED
      BY <2>1, <2>3, <3>3, ShellAssumption DEF Fits
  <2> QED
    BY <1>1, <1>2, <2>1, <2>3, <2>4, SetKeeps
<1> QED
  BY <1>3, <1>4 DEF LoadFramePtr

LEMMA ReadLinkKeeps ==
  ASSUME IInv, NEW t \in Threads, ReadLink(t)
  PROVE  Keeps
<1> DEFINE next == [Top(t).reg EXCEPT !.n = @ + 1]
<1>1. /\ InShell(t) /\ Top(t).at = "link" /\ Top(t) \in Shell /\ Exists(t)
      /\ ~At(t, "ret") /\ odd' \in 0 .. MaxOdd
  BY Entered DEF ReadLink, At, IInv, TypeOK
<1>2. /\ Top(t).reg \in Pointers /\ Top(t).frame \in 0 .. MaxDepth + 1
      /\ Top(t).left \in 0 .. MaxDepth + 1
  BY <1>1 DEF Shell
<1>3. next.n = Top(t).reg.n + 1 /\ next.of = Top(t).reg.of /\ Top(t).reg.n \in Nat
  BY <1>2, ShellAssumption DEF Pointers
<1>4. next.n <= MaxDepth + 1 => next \in Pointers
  BY <1>2, <1>3, ShellAssumption DEF Pointers
<1>5. ASSUME cur.owner = Me(t)
      PROVE  /\ Top(t).frame > 0 /\ Top(t).left <= Top(t).frame
             /\ next = FrameOf(Me(t), Top(t).frame - Top(t).left + 1)
  <2>1. /\ Top(t).frame > 0 /\ Top(t).left <= Top(t).frame
        /\ Top(t).reg = FrameOf(Me(t), Top(t).frame - Top(t).left)
    BY <1>1, <1>5, CurType DEF Fits
  <2> QED
    BY <2>1 DEF FrameOf
<1> HIDE DEF next
<1>6. CASE /\ next.n <= MaxDepth + 1
           /\ Top(t).left > 0
           /\ shells' = SetTop(t, [Top(t) EXCEPT !.at = "walk", !.left = @ - 1,
                                                 !.reg = NoFrame])
           /\ Stores(t, [cur EXCEPT !.fp = next])
           /\ UNCHANGED <<phase, sigVars, pending, eof, heap>>
  <2> DEFINE sh  == [Top(t) EXCEPT !.at = "walk", !.left = @ - 1, !.reg = NoFrame]
             new == [cur EXCEPT !.fp = next]
  <2>0. Top(t).left - 1 \in 0 .. MaxDepth + 1
    BY <1>2, <1>6, ShellAssumption
  <2>1. /\ sh \in Shell /\ sh.ctx = Top(t).ctx /\ sh.aborting = Top(t).aborting
        /\ sh.at = "walk" /\ sh.frame = Top(t).frame /\ sh.left = Top(t).left - 1
    BY <1>1, <2>0, NoFrameType DEF Shell, Places
  <2>2. /\ new \in Globals /\ new.owner = cur.owner /\ new.fp = next /\ Stores(t, new)
    BY <1>1, <1>4, <1>6, CurType DEF Globals
  <2>3. shells' = SetTop(t, sh)
    BY <1>6
  <2> HIDE DEF sh, new
  <2>4. /\ cur' \in Globals /\ cur'.fp = next
        /\ cur'.owner = Nobody \/ (cur'.owner = Me(t) /\ cur.owner = Me(t))
    BY <1>1, <2>2, StoresType
  <2>5. cur'.owner = Me(t) /\ cur.owner = Me(t) => Fits(sh, cur')
    <3> SUFFICES ASSUME cur'.owner = Me(t), cur.owner = Me(t) PROVE Fits(sh, cur')
      OBVIOUS
    <3>1. Top(t).frame - (Top(t).left - 1) = Top(t).frame - Top(t).left + 1
          /\ Top(t).left - 1 <= Top(t).frame
      BY <1>2, <1>5, ShellAssumption
    <3>2. cur'.fp = FrameOf(cur'.owner, sh.frame - sh.left) /\ sh.left <= sh.frame
      BY <1>5, <2>1, <2>4, <3>1
    <3> QED
      BY <2>1, <3>2 DEF Fits
  <2> QED
    BY <1>1, <1>6, <2>1, <2>3, <2>4, <2>5, SetKeeps
<1>7. CASE /\ next.n <= MaxDepth + 1
           /\ Top(t).left = 0
           /\ shells' = SetTop(t, [Top(t) EXCEPT !.at = "prompt", !.reg = NoFrame])
           /\ Stores(t, [cur EXCEPT !.pc = next])
           /\ UNCHANGED <<phase, sigVars, pending, eof, heap>>
  <2> DEFINE sh  == [Top(t) EXCEPT !.at = "prompt", !.reg = NoFrame]
             new == [cur EXCEPT !.pc = next]
  <2>1. /\ sh \in Shell /\ sh.ctx = Top(t).ctx /\ sh.aborting = Top(t).aborting
        /\ sh.at = "prompt" /\ sh.frame = Top(t).frame
    BY <1>1, NoFrameType DEF Shell, Places
  <2>2. /\ new \in Globals /\ new.owner = cur.owner /\ new.pc = next
        /\ new.fp = cur.fp /\ Stores(t, new)
    BY <1>1, <1>4, <1>7, CurType DEF Globals
  <2>3. shells' = SetTop(t, sh)
    BY <1>7
  <2> HIDE DEF sh, new
  <2>4. /\ cur' \in Globals /\ cur'.pc = next /\ cur'.fp = cur.fp
        /\ cur'.owner = Nobody \/ (cur'.owner = Me(t) /\ cur.owner = Me(t))
    BY <1>1, <2>2, StoresType
  <2>5. cur'.owner = Me(t) /\ cur.owner = Me(t) => Fits(sh, cur')
    <3> SUFFICES ASSUME cur'.owner = Me(t), cur.owner = Me(t) PROVE Fits(sh, cur')
      OBVIOUS
    <3>1. Top(t).frame - Top(t).left = Top(t).frame
      BY <1>2, <1>7, ShellAssumption
    <3>2. /\ Top(t).frame > 0 /\ next = FrameOf(Me(t), Top(t).frame + 1)
          /\ cur.fp = FrameOf(Me(t), Top(t).frame)
      BY <1>1, <1>5, <3>1, CurType DEF Fits
    <3>3. Top(t).frame + 1 <= MaxDepth + 1
      BY <1>7, <3>2 DEF FrameOf
    <3>4. Top(t).frame <= MaxDepth /\ Top(t).frame # 0
      BY <1>2, <3>2, <3>3, ShellAssumption
    <3> QED
      BY <2>1, <2>4, <3>2, <3>4 DEF Fits
  <2> QED
    BY <1>1, <1>7, <2>1, <2>3, <2>4, <2>5, SetKeeps
<1>8. CASE Fault(t)
  BY <1>1, <1>8, FaultKeeps
<1> QED
  BY <1>6, <1>7, <1>8 DEF ReadLink, next

LEMMA ChainKeeps ==
  ASSUME IInv, NEW t \in Threads, Chain(t)
  PROVE  Keeps
<1>1. InShell(t) /\ Top(t).at = "chain" /\ ~At(t, "ret") /\ Exists(t) /\ odd' \in 0 .. MaxOdd
  BY Entered DEF Chain, At, IInv, TypeOK
<1>2. Top(t).ctx \in Signals
  BY <1>1, Entered DEF IInv, Stacked, Sound
<1>3. CASE /\ disp' = [disp EXCEPT ![Top(t).ctx] = "DFL"]
           /\ Goto(t, "kill")
           /\ UNCHANGED <<phase, saver, touched, pending, cur, eof, heap>>
  <2>1. /\ disp' \in [Signals -> Dispositions] /\ disp'[Top(t).ctx] = "DFL"
        /\ \A s \in Signals : disp'[s] \in {disp[s], "DFL"}
    BY <1>2, <1>3 DEF IInv, TypeOK, Dispositions
  <2>2. pending' \subseteq Signals /\ pending \subseteq pending'
    BY <1>3 DEF IInv, TypeOK
  <2> QED
    BY <1>1, <1>2, <1>3, <2>1, <2>2, GotoKeeps DEF Places
<1>4. CASE ProgramExits
  BY <1>1, <1>4, EndKeeps DEF ProgramExits, Ends
<1>5. CASE ProgramJumps(t) /\ UNCHANGED pending
  BY <1>1, <1>5, JumpKeeps DEF Takes
<1> QED
  BY <1>3, <1>4, <1>5 DEF Chain

LEMMA KillKeeps ==
  ASSUME IInv, NEW t \in Threads, Kill(t)
  PROVE  Keeps
<1>1. InShell(t) /\ Top(t).at = "kill" /\ odd' \in 0 .. MaxOdd
  BY DEF Kill, At, IInv, TypeOK
<1>2. Top(t).ctx \in Signals
  BY <1>1, Entered DEF IInv, Stacked, Sound
<1>3. UNCHANGED <<phase, disp, saver, touched, cur, eof, heap>>
  BY DEF Kill, sigVars
<1>4. touched = {} => disp'[Top(t).ctx] = "DFL"
  BY <1>1, <1>3, Entered DEF IInv, Reset
<1>5. /\ disp' \in [Signals -> Dispositions] /\ \A s \in Signals : disp'[s] = disp[s]
  BY <1>3 DEF IInv, TypeOK
<1>6. pending' \subseteq Signals /\ pending \subseteq pending' /\ Top(t).ctx \in pending'
  BY <1>2 DEF Kill, IInv, TypeOK
<1> QED
  BY <1>1, <1>2, <1>3, <1>4, <1>5, <1>6, GotoKeeps DEF Kill, Places

(* Unless the program has set the disposition, the signal that Kill sent is *)
(* still pending with the default disposition and no shell below blocks it. *)
LEMMA HandlerReturnKeeps ==
  ASSUME IInv, NEW t \in Threads, HandlerReturn(t)
  PROVE  Keeps
<1>1. InShell(t) /\ Top(t).at = "ret" /\ odd' \in 0 .. MaxOdd
  BY DEF HandlerReturn, At, IInv, TypeOK
<1>2. CASE End("killed")
  BY <1>1, <1>2, EndKeeps DEF Ends
<1> DEFINE rest == [shells EXCEPT ![t] = Front(@)]
<1>3. CASE /\ ~Top(t).aborting
           /\ {s \in pending : disp[s] = "DFL"
                 /\ \A i \in DOMAIN rest[t] : rest[t][i].ctx # s} = {}
           /\ shells' = rest
           /\ UNCHANGED <<phase, sigVars, pending, cur, eof, heap>>
  <2>1. touched # {}
    <3> SUFFICES ASSUME touched = {} PROVE FALSE
      OBVIOUS
    <3>1. shells[t] \in Seq(Shell) /\ shells[t] # <<>> /\ Top(t) = shells[t][Len(shells[t])]
      BY <1>1, Entered DEF InShell
    <3>2. rest[t] = Front(shells[t])
      BY DEF IInv, TypeOK
    <3>3. /\ rest[t] \in Seq(Shell) /\ Len(rest[t]) = Len(shells[t]) - 1
          /\ \A i \in 1 .. Len(shells[t]) - 1 : rest[t][i] = shells[t][i]
          /\ Len(shells[t]) \in Nat \ {0}
      BY <3>1, <3>2, FrontType
    <3>4. DOMAIN rest[t] = 1 .. Len(shells[t]) - 1
      BY <3>3, LenProperties
    <3>5. Sound(shells[t]) /\ Len(shells[t]) \in 1 .. Len(shells[t])
      BY <3>3 DEF IInv, Stacked
    <3>6. \A j \in 1 .. Len(shells[t]) - 1 : shells[t][j].ctx # Top(t).ctx
      BY <1>3, <3>1, <3>5 DEF Sound
    <3>7. Top(t).ctx \in pending /\ disp[Top(t).ctx] = "DFL"
      BY <1>1, <3>1, <3>5 DEF IInv, Reset
    <3>8. \A i \in DOMAIN rest[t] : rest[t][i].ctx # Top(t).ctx
      BY <3>3, <3>4, <3>6
    <3> HIDE DEF rest
    <3> QED
      BY <1>3, <3>7, <3>8
  <2>2. shells' = [shells EXCEPT ![t] = Front(@)]
    BY <1>3
  <2>3. UNCHANGED <<phase, sigVars, pending, cur, eof, heap>>
    BY <1>3
  <2> HIDE DEF rest
  <2> QED
    BY <1>1, <2>1, <2>2, <2>3, PopKeeps
<1> QED
  BY <1>2, <1>3 DEF HandlerReturn

LEMMA CommandKeeps ==
  ASSUME IInv, NEW t \in Threads, CommandStep(t)
  PROVE  Keeps
<1>1. /\ At(t, "prompt") /\ InShell(t) /\ Top(t).at = "prompt" /\ ~At(t, "ret")
      /\ Exists(t) /\ odd' \in 0 .. MaxOdd
  BY Entered DEF CommandStep, At, IInv, TypeOK
<1>2. Top(t).frame \in 0 .. MaxDepth + 1 /\ Top(t).ctx \in Signals \cup {INIT_CTX}
  BY <1>1, Entered DEF Shell
<1>3. CASE UNCHANGED vars
  <2>1. UNCHANGED <<phase, disp, saver, touched, shells, cur>> /\ pending' = pending
    BY <1>3 DEF vars, sigVars
  <2>2. eof' \in BOOLEAN
    BY <1>3 DEF vars, IInv, TypeOK
  <2>3. heap' \in Threads \cup {NoThread}
    BY <1>3 DEF vars, IInv, TypeOK
  <2> QED
    BY <1>1, <2>1, <2>2, <2>3, QuietKeeps DEF Takes
<1>4. CASE End("exited")
  BY <1>1, <1>4, EndKeeps DEF Ends
<1>5. CASE Leave(t)
  <2>1. UNCHANGED <<disp, saver, touched, pending, cur, eof, heap>>
    BY <1>5 DEF Leave, sigVars
  <2>2. CASE Top(t).ctx = INIT_CTX
    BY <1>1, <1>5, <2>2, PopKeeps DEF Leave
  <2>3. CASE Top(t).ctx # INIT_CTX
    <3> DEFINE sh == [Top(t) EXCEPT !.at = "chain", !.frame = 0, !.left = 0]
    <3>1. shells' = SetTop(t, sh) /\ UNCHANGED phase
      BY <1>5, <2>3 DEF Leave
    <3>2. Top(t) \in Shell
      BY <1>1, Entered
    <3>3. 0 \in 0 .. MaxDepth + 1 /\ "chain" \in Places
      BY ShellAssumption DEF Places
    <3>4. /\ sh \in Shell /\ sh.ctx = Top(t).ctx /\ sh.aborting = Top(t).aborting
          /\ sh.at = "chain"
      BY <3>2, <3>3 DEF Shell
    <3>5. /\ disp' \in [Signals -> Dispositions] /\ \A s \in Signals : disp'[s] = disp[s]
          /\ pending' \subseteq Signals /\ pending \subseteq pending'
      BY <2>1 DEF IInv, TypeOK
    <3> HIDE DEF sh
    <3> QED
      BY <1>1, <1>2, <2>1, <2>3, <3>1, <3>4, <3>5, LeftKeeps
  <2> QED
    BY <2>2, <2>3
<1>6. CASE Fault(t)
  BY <1>1, <1>6, FaultKeeps
<1>7. CASE Up(t)
  <2>1. CASE Top(t).frame + 1 <= MaxDepth + 1 /\ Select(t, Top(t).frame + 1)
    <3>1. Top(t).frame + 1 \in 0 .. MaxDepth + 1
      BY <1>2, <2>1, ShellAssumption
    <3> QED
      BY <1>1, <2>1, <3>1, SelectKeeps
  <2> QED
    BY <1>3, <1>7, <2>1 DEF Up
<1>8. CASE Down(t)
  <2>1. ASSUME Select(t, IF Top(t).frame > 0 THEN Top(t).frame - 1 ELSE 0) PROVE Keeps
    <3>1. (IF Top(t).frame > 0 THEN Top(t).frame - 1 ELSE 0) \in 0 .. MaxDepth + 1
      BY <1>2, ShellAssumption
    <3> QED
      BY <1>1, <2>1, <3>1, SelectKeeps
  <2> QED
    BY <1>3, <1>8, <2>1 DEF Down
<1>9. CASE Read(t)
  BY <1>3, <1>6, <1>9 DEF Read
<1> QED
  BY <1>3, <1>4, <1>5, <1>7, <1>8, <1>9 DEF CommandStep

LEMMA NextKeeps == IInv /\ Next => Keeps
<1> SUFFICES ASSUME IInv, Next PROVE Keeps
  OBVIOUS
<1>1. CASE LDM_init
  BY <1>1, InitKeeps
<1>2. CASE InputEnds
  <2>1. /\ UNCHANGED <<phase, disp, saver, touched, shells, cur>> /\ pending' = pending
        /\ heap' \in Threads \cup {NoThread} /\ odd' \in 0 .. MaxOdd
    BY <1>2 DEF InputEnds, sigVars, IInv, TypeOK
  <2>2. eof' \in BOOLEAN
    BY <1>2 DEF InputEnds
  <2> QED
    BY <2>1, <2>2, QuietKeeps DEF Takes
<1>3. ASSUME NEW s \in Signals, Send(s) PROVE Keeps
  <2>1. /\ UNCHANGED <<phase, disp, saver, touched, shells, cur>>
        /\ heap' \in Threads \cup {NoThread}
    BY <1>3 DEF Send, sigVars, IInv, TypeOK
  <2>2. odd' \in 0 .. MaxOdd
    BY <1>3, ShellAssumption DEF Send, OddMayHappen, IInv, TypeOK
  <2>3. eof' \in BOOLEAN
    BY <1>3 DEF Send, IInv, TypeOK
  <2>4. pending \subseteq pending' /\ pending' \subseteq Signals
    BY <1>3 DEF Send, IInv, TypeOK
  <2> QED
    BY <2>1, <2>2, <2>3, <2>4, QuietKeeps
<1>4. ASSUME NEW t \in Threads, NEW s \in Signals, Deliver(t, s) PROVE Keeps
  BY <1>4, DeliverKeeps
<1>5. ASSUME NEW t \in Threads, Program(t) PROVE Keeps
  BY <1>5, ProgramKeeps
<1>6. ASSUME NEW t \in Threads, HandlerStep(t) PROVE Keeps
  <2>1. CASE EndOfInput(t)
    <3>1. Exists(t) /\ ~At(t, "ret") /\ Fault(t) /\ odd' \in 0 .. MaxOdd
      BY <2>1, Entered DEF EndOfInput, At, IInv, TypeOK
    <3> QED
      BY <3>1, FaultKeeps
  <2> QED
    BY <1>6, <2>1, TraceKeeps, SetFramePtrKeeps, LoadFramePtrKeeps, ReadLinkKeeps, ChainKeeps, KillKeeps, HandlerReturnKeeps DEF HandlerStep
<1>7. ASSUME NEW t \in Threads, CommandStep(t) PROVE Keeps
  BY <1>7, CommandKeeps
<1>8. ASSUME NEW t \in Threads, ShellAborts(t) PROVE Keeps
  <2>1. Exists(t) /\ ~At(t, "ret") /\ Abort(t)
    BY <1>8, Entered DEF ShellAborts, At
  <2>2. odd' \in 0 .. MaxOdd
    BY <1>8, ShellAssumption DEF ShellAborts, OddMayHappen, IInv, TypeOK
  <2> QED
    BY <2>1, <2>2, AbortKeeps
<1> QED
  BY <1>1, <1>2, <1>3, <1>4, <1>5, <1>6, <1>7, <1>8 DEF Next

-----------------------------------------------------------------------------
(* The strengthened invariant of the debugger holds in every reachable     *)
(* state: the stacks of shells are sound, the signals that were reset and  *)
(* sent stay so (legerdemain.c:499-540).                                   *)
THEOREM Invariant == Spec => []IInv
<1>1. IInv /\ UNCHANGED vars => IInv'
  <2> SUFFICES ASSUME IInv, UNCHANGED vars PROVE IInv'
    OBVIOUS
  <2>1. TypeOK'
    BY DEF vars, sigVars, IInv, TypeOK
  <2>2. WalkInv'
    BY DEF vars, IInv, WalkInv
  <2>3. Stacked' /\ OthersEmpty' /\ InitFirst'
    BY DEF vars, IInv, Stacked, Sound, OthersEmpty, Exists, Alive, InitFirst
  <2>4. Reset' /\ Installed'
    BY DEF vars, sigVars, IInv, Reset, Installed
  <2> QED
    BY <2>1, <2>2, <2>3, <2>4 DEF IInv
<1>2. IInv /\ [Next]_vars => IInv'
  BY <1>1, NextKeeps DEF Keeps
<1> QED
  BY InitIInv, <1>2, PTL DEF Spec

(* Every variable has its type; frame numbers do not become negative.      *)
THEOREM TypeCorrect == Spec => []TypeOK
<1>1. IInv => TypeOK
  BY DEF IInv
<1> QED
  BY <1>1, Invariant, PTL

(* A shell at its prompt that was the last to begin to set the globals,    *)
(* and whose walk no other shell stored into, looks at a frame that exists *)
(* with that frame's pointer and the instruction read beside it, for any   *)
(* threads, nesting and chains (legerdemain.c:264-265, 348-357, 376-390).  *)
THEOREM UndisturbedWalks == Spec => []FrameWalk
<1>1. IInv => FrameWalk
  BY DEF IInv, WalkInv, FrameWalk, Fits
<1> QED
  BY <1>1, Invariant, PTL

LEMMA SingleOrNone ==
  ASSUME NEW S, \A x, y \in S : x = y
  PROVE  Cardinality(S) <= 1
<1>1. CASE S = {}
  BY <1>1, FS_EmptySet
<1>2. CASE S # {}
  <2> PICK x \in S : TRUE
    BY <1>2
  <2>1. S = {x}
    OBVIOUS
  <2> QED
    BY <2>1, FS_Singleton
<1> QED
  BY <1>1, <1>2

(* A fault under a shell opened by a fault ends the process, for any       *)
(* number of threads, shells and lines (legerdemain.c:536-537).            *)
THEOREM ShellsOfFaultsNeverStack == Spec => []FaultsOnce
<1>1. IInv => FaultsOnce
  <2> SUFFICES ASSUME IInv, NEW t \in Threads
               PROVE  Cardinality({i \in DOMAIN shells[t] : shells[t][i].ctx = "SEGV"}) <= 1
    BY DEF FaultsOnce
  <2>1. DOMAIN shells[t] = 1 .. Len(shells[t]) /\ Len(shells[t]) \in Nat
    BY LenProperties DEF IInv, TypeOK
  <2>2. ASSUME NEW i \in 1 .. Len(shells[t]), NEW j \in 1 .. Len(shells[t]), j < i,
               shells[t][i].ctx = "SEGV", shells[t][j].ctx = "SEGV"
        PROVE  FALSE
    <3>1. ~shells[t][i].aborting /\ j \in 1 .. i - 1
      BY <2>2 DEF IInv, Stacked, Sound
    <3> QED
      BY <2>2, <3>1 DEF IInv, Stacked, Sound
  <2>3. \A x, y \in {i \in DOMAIN shells[t] : shells[t][i].ctx = "SEGV"} : x = y
    <3> SUFFICES ASSUME NEW x \in 1 .. Len(shells[t]), NEW y \in 1 .. Len(shells[t]),
                        shells[t][x].ctx = "SEGV", shells[t][y].ctx = "SEGV", x # y
                 PROVE  FALSE
      BY <2>1
    <3>1. x < y \/ y < x
      OBVIOUS
    <3> QED
      BY <2>2, <3>1
  <2> QED
    BY <2>3, SingleOrNone
<1> QED
  BY <1>1, Invariant, PTL

(* As long as the program sets no disposition itself, the return from the  *)
(* handler of a shell the user has left ends the process, whatever other   *)
(* threads and shells did between the reset, the signal and the return     *)
(* (legerdemain.c:518-519).                                                *)
THEOREM LeavesOnlyToDie == Spec => ReturnsOnlyToDie
<1> DEFINE A == \A t \in Threads :
                  At(t, "ret") /\ shells'[t] # shells[t] /\ Len(shells'[t]) < Len(shells[t])
                    => phase' \in Ends \/ touched # {}
<1>1. IInv /\ [Next]_vars => [A]_vars
  BY NextKeeps DEF Keeps, Returns
<1>2. ReturnsOnlyToDie <=> [][A]_vars
  BY DEF ReturnsOnlyToDie
<1> HIDE DEF A
<1> QED
  BY <1>1, <1>2, Invariant, PTL DEF Spec
=============================================================================
