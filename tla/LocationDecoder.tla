-------------------------- MODULE LocationDecoder --------------------------
(***************************************************************************)
(* decode_location (dwarfclient.c) and its operand stack (stack.c): an     *)
(* interpreter of DWARF location expressions that computes an offset.  One *)
(* step is one operation of the expression.  An operation is a record:     *)
(* op is lr_atom without its DW_OP_, num is lr_number, off is lr_offset,   *)
(* the operation's place in the encoded expression.                        *)
(*                                                                         *)
(* Stack_Top returns an int, and -1 when the stack is empty; the entries   *)
(* are longs.  Both widths are parameters.                                 *)
(***************************************************************************)
EXTENDS Integers, Sequences, SequencesExt

CONSTANTS
  Exprs,      (* the location expressions                                  *)
  STACK_MAX,  (* entries of the operand stack                              *)
  IntBits,    (* the width of an int                                       *)
  LongBits    (* the width of a long                                       *)

(* What the program's build gives them. *)
WidthAssumption ==
  /\ STACK_MAX \in Nat \ {0}
  /\ IntBits \in Nat \ {0}
  /\ LongBits \in Nat
  /\ 2 * IntBits <= LongBits

VARIABLES
  expr,      (* the operations, the first of the locations of the list     *)
  i,         (* the operation the loop is at, from 1                       *)
  stack,     (* opStack                                                    *)
  frameRel,  (* *frameRel: an fbreg was seen                               *)
  status,    (* how the call is going                                      *)
  offset     (* *offset, once it has ended                                 *)

vars == <<expr, i, stack, frameRel, status, offset>>

Statuses == {"run", "done", "gaveup", "trap"}

-----------------------------------------------------------------------------
(* Machine integers. *)

Power[k \in 0 .. LongBits] == IF k = 0 THEN 1 ELSE 2 * Power[k - 1]

Wrap(w, x) == ((x + Power[w - 1]) % Power[w]) - Power[w - 1]
ToInt(x)  == Wrap(IntBits, x)
ToLong(x) == Wrap(LongBits, x)

(* A long as the set of its one bits.                                      *)
Bits(x) == {k \in 0 .. LongBits - 1 : (x \div Power[k]) % 2 = 1}
FromBits(B) ==
  LET below[k \in 0 .. LongBits] ==
        IF k = 0 THEN 0
        ELSE below[k - 1] + (IF k - 1 \in B THEN Power[k - 1] ELSE 0)
  IN  ToLong(below[LongBits])

(* C's division rounds towards zero, and its remainder goes with it.       *)
Magnitude(x) == IF x < 0 THEN -x ELSE x
Quotient(x, y) ==
  LET q == Magnitude(x) \div Magnitude(y)
  IN  IF (x < 0) = (y < 0) THEN q ELSE -q
Remainder(x, y) == x - y * Quotient(x, y)

Truth(b) == IF b THEN 1 ELSE 0

-----------------------------------------------------------------------------
(* stack.c *)

Top(s) == IF s = <<>> THEN -1 ELSE ToInt(Last(s))

(* Mutant: nothing stops a push on a full stack.                           *)
PushUnbounded(s, x) == Append(s, ToLong(x))

(* Mutant: the last entry of the array is never used.                      *)
PushOneShort(s, x) ==
  IF Len(s) + 1 < STACK_MAX THEN Append(s, ToLong(x)) ELSE s

(* A push on a full stack and a pop of an empty one do nothing.            *)
Push(s, x) == IF Len(s) < STACK_MAX THEN Append(s, ToLong(x)) ELSE s
Pop(s) == IF s = <<>> THEN s ELSE Front(s)

-----------------------------------------------------------------------------
(* What one operation does. *)

Constants == {"lit", "addr", "const", "fbreg"}
Nothings  == {"piece", "nop"}
(* The register operations, the dereferences and whatever has no case.     *)
RunTime   == {"reg", "breg", "deref", "unknown"}
Shuffles  == {"dup", "drop", "over", "swap", "rot", "pick"}
Unaries   == {"abs", "neg", "not", "plus_uconst"}
Orders    == {"le", "ge", "lt", "gt"}
Binaries  == {"and", "or", "xor", "plus", "minus", "mul", "div", "mod", "shl",
              "shr", "shra", "eq", "ne"} \cup Orders
Ops == Constants \cup Nothings \cup RunTime \cup Shuffles \cup Unaries
         \cup Binaries \cup {"bra", "skip"}

Shuffled(op, s) ==
  LET first  == Top(s)
      second == Top(Pop(s))
      third  == Top(Pop(Pop(s)))
  IN  CASE op = "dup"  -> Push(s, first)
        [] op = "drop" -> Pop(s)
        [] op = "over" -> Push(Push(Push(Pop(Pop(s)), second), first), second)
        [] op = "swap" -> Push(Push(Pop(Pop(s)), first), second)
        [] op = "rot"  -> Push(Push(Push(Pop(Pop(Pop(s))), first), third), second)

(* The loops of pick count with an i of their own, which hides the         *)
(* operation's: they stop at the first operation whose operand is not      *)
(* above its index, and past the end of the expression at any place.  A    *)
(* negative operand is a large unsigned one.                               *)
PickCounts ==
  LET stops == {k \in 0 .. Len(expr) - 1 : expr[k + 1].num \in 0 .. k}
  IN  IF stops = {} THEN Len(expr) .. Len(expr) + STACK_MAX ELSE {Min(stops)}

(* n entries go to a second stack, which holds STACK_MAX of them, the one  *)
(* below is copied, and the n come back, as ints.                          *)
Picked(s, n) ==
  LET m     == Min({n, STACK_MAX})
      rest  == SubSeq(s, 1, Len(s) - m)
      moved == [k \in 1 .. m |-> IF Len(s) - m + k > 0
                                  THEN ToInt(s[Len(s) - m + k]) ELSE -1]
  IN  Push(rest \o moved, Top(rest))

Unary(o, first) ==
  CASE o.op = "abs" -> ToInt(Magnitude(first))
    [] o.op = "neg" -> -first
    [] o.op = "not" -> -first - 1
    [] o.op = "plus_uconst" -> first + o.num

(* first is the entry that was on top.  The machine takes a shift's count  *)
(* modulo the width.                                                       *)
Binary(op, second, first) ==
  CASE op = "and"   -> FromBits(Bits(second) \cap Bits(first))
    [] op = "or"    -> FromBits(Bits(second) \cup Bits(first))
    [] op = "xor"   -> FromBits(SymDiff(Bits(second), Bits(first)))
    [] op = "plus"  -> second + first
    [] op = "minus" -> second - first
    [] op = "mul"   -> second * first
    [] op = "div"   -> Quotient(second, first)
    [] op = "mod"   -> Remainder(second, first)
    [] op = "shl"   -> second * Power[first % LongBits]
    [] op = "shr"   -> (second % Power[LongBits]) \div Power[first % LongBits]
    [] op = "shra"  -> second \div Power[first % LongBits]
    [] op = "eq"    -> Truth(first = second)
    [] op = "ne"    -> Truth(first # second)
    [] op = "le"    -> Truth(first <= second)
    [] op = "ge"    -> Truth(first >= second)
    [] op = "lt"    -> Truth(first < second)
    [] op = "gt"    -> Truth(first > second)

(* A division by zero traps.                                               *)
Traps(op, first) == op \in {"div", "mod"} /\ first = 0

-----------------------------------------------------------------------------
(* The loop over the operations. *)

Init ==
  /\ expr \in Exprs
  /\ i = 1
  /\ stack = <<>>
  /\ frameRel = FALSE
  /\ status = "run"
  /\ offset = 0

At(ops) == status = "run" /\ i \in DOMAIN expr /\ expr[i].op \in ops

(* The operation leaves s and the loop goes on with the next.              *)
Leaves(s) ==
  /\ stack' = s
  /\ i' = i + 1
  /\ UNCHANGED <<expr, status, offset>>

PushConstant ==
  /\ At(Constants)
  /\ Leaves(Push(stack, expr[i].num))
  /\ frameRel' = (frameRel \/ expr[i].op = "fbreg")

Shuffle ==
  /\ At(Shuffles \ {"pick"})
  /\ Leaves(Shuffled(expr[i].op, stack))
  /\ UNCHANGED frameRel

Pick ==
  /\ At({"pick"})
  /\ \E n \in PickCounts : Leaves(Picked(stack, n))
  /\ UNCHANGED frameRel

ApplyUnary ==
  /\ At(Unaries)
  /\ Leaves(Push(Pop(stack), Unary(expr[i], Top(stack))))
  /\ UNCHANGED frameRel

ApplyBinary ==
  /\ At(Binaries)
  /\ ~Traps(expr[i].op, Top(stack))
  /\ Leaves(Push(Pop(Pop(stack)),
                 Binary(expr[i].op, Top(Pop(stack)), Top(stack))))
  /\ UNCHANGED frameRel

(* piece, nop; and bra, which does not branch: it pops unless the top is   *)
(* zero.                                                                   *)
Ignore ==
  /\ At(Nothings \cup {"bra"})
  /\ Leaves(IF At(Nothings) \/ Top(stack) = 0 THEN stack ELSE Pop(stack))
  /\ UNCHANGED frameRel

(* Mutant: the search forward begins at the skip itself.                   *)
SkipFromHere ==
  LET target == expr[i].off + expr[i].num
      hits   == {j \in DOMAIN expr :
                   expr[j].off = target /\ (j < i) = (expr[i].num < 0)}
  IN  IF hits = {} THEN Len(expr) + 1 ELSE CHOOSE j \in hits : TRUE

(* The distance is taken from the skip itself.  The operation found there, *)
(* behind it or before it, is the next; without one the loop ends.         *)
SkipTo ==
  LET target == expr[i].off + expr[i].num
      hits   == {j \in DOMAIN expr \ {i} :
                   expr[j].off = target /\ (j < i) = (expr[i].num < 0)}
  IN  IF hits = {} THEN Len(expr) + 1 ELSE CHOOSE j \in hits : TRUE

Skip ==
  /\ At({"skip"})
  /\ i' = SkipTo
  /\ UNCHANGED <<expr, stack, frameRel, status, offset>>

Stop(st, off) ==
  /\ status' = st
  /\ offset' = off
  /\ UNCHANGED <<expr, i, stack, frameRel>>

GiveUp == At(RunTime) /\ Stop("gaveup", -1)

Trap ==
  /\ At(Binaries)
  /\ Traps(expr[i].op, Top(stack))
  /\ Stop("trap", offset)

Finish ==
  /\ status = "run"
  /\ i \notin DOMAIN expr
  /\ Stop("done", Top(stack))

Next ==
  \/ PushConstant \/ Shuffle \/ Pick \/ ApplyUnary \/ ApplyBinary
  \/ Ignore \/ Skip \/ GiveUp \/ Trap \/ Finish

Spec == Init /\ [][Next]_vars

(* The call runs on.                                                       *)
FairSpec == Spec /\ WF_vars(Next)

-----------------------------------------------------------------------------
(* Properties. *)

Operation == [op : Ops, num : Int, off : Nat]

(* Every variable has its type, and the stack stays within its array.      *)
TypeOK ==
  /\ expr \in Seq(Operation)
  /\ i \in Nat \ {0}
  /\ stack \in Seq(-Power[LongBits - 1] .. Power[LongBits - 1] - 1)
  /\ Len(stack) <= STACK_MAX
  /\ frameRel \in BOOLEAN
  /\ status \in Statuses
  /\ offset \in Int

(* What DWARF says an operation does to a stack that has what it needs, on *)
(* integers and stacks without bounds.                                     *)
Meaning(o, s) ==
  LET n    == Len(s)
      Below(k) == SubSeq(s, 1, n - k)
  IN  CASE o.op \in Constants -> Append(s, o.num)
        [] o.op \in Nothings  -> s
        [] o.op = "dup"   -> Append(s, s[n])
        [] o.op = "drop"  -> Below(1)
        [] o.op = "over"  -> Append(s, s[n - 1])
        [] o.op = "swap"  -> Below(2) \o <<s[n], s[n - 1]>>
        [] o.op = "rot"   -> Below(3) \o <<s[n], s[n - 2], s[n - 1]>>
        [] o.op = "neg"   -> Append(Below(1), 0 - s[n])
        [] o.op = "plus_uconst" -> Append(Below(1), s[n] + o.num)
        [] o.op = "plus"  -> Append(Below(2), s[n - 1] + s[n])
        [] o.op = "minus" -> Append(Below(2), s[n - 1] - s[n])
        [] o.op = "mul"   -> Append(Below(2), s[n - 1] * s[n])

Needs(op) == CASE op = "rot" -> 3
               [] op \in {"over", "swap", "plus", "minus", "mul"} -> 2
               [] op \in {"dup", "drop", "neg", "plus_uconst"} -> 1
               [] OTHER -> 0

(* The stack after so many operations of expression e, while they have     *)
(* what they need; <<>> from there on.                                     *)
Meanings(e) ==
  LET after[k \in 0 .. Len(e)] ==
        IF k = 0 THEN <<>>
        ELSE IF Len(after[k - 1]) < Needs(e[k].op) THEN <<>>
             ELSE Meaning(e[k], after[k - 1])
  IN  after

Arithmetic == Constants \cup Nothings
  \cup {"dup", "drop", "over", "swap", "rot", "neg", "plus_uconst", "plus",
        "minus", "mul"}

(* Nothing in the expression leaves what the decoder can represent: every  *)
(* operation has its operands, every stack fits, every entry is an int.    *)
Plain ==
  /\ \A k \in DOMAIN expr : expr[k].op \in Arithmetic
  /\ LET m == Meanings(expr)
     IN  /\ \A k \in DOMAIN expr : Len(m[k - 1]) >= Needs(expr[k].op)
         /\ \A k \in DOMAIN m :
              /\ Len(m[k]) <= STACK_MAX
              /\ \A e \in Range(m[k]) : ToInt(e) = e
         /\ m[Len(expr)] # <<>>

(* An expression of constants, sums, differences, products and moves that  *)
(* stays within the stack and within int is decoded to the offset DWARF    *)
(* gives it (dwarfclient.c:291: "The top of the stack is the computed      *)
(* location").  It cannot be said of pick and of the order comparisons,    *)
(* which the code takes the wrong way round.                               *)
DecodesRight ==
  status = "done" /\ Plain =>
    /\ offset = Last(Meanings(expr)[Len(expr)])
    /\ frameRel = (\E k \in DOMAIN expr : expr[k].op = "fbreg")

(* A call ends if no skip goes back; one that does may be taken for ever,  *)
(* since bra does not branch (dwarfclient.c:254-275).                      *)
DecodeEnds ==
  (\A k \in DOMAIN expr : expr[k].op = "skip" => expr[k].num >= 0)
    ~> status # "run"
=============================================================================
