----------------------------- MODULE MCInspect -----------------------------
(* Inspect for units of a handful of dies, in two families: many shapes of *)
(* scopes with plain locations, and one shape with many locations.         *)
EXTENDS Inspect

-----------------------------------------------------------------------------
(* Names. *)
VarNames == {"i", "index", "n"}
Begins == {<<m, n>> \in VarNames \X VarNames : m = n \/ <<m, n>> = <<"i", "index">>}
Nameless == "?"
None == 0
Absent == -1
NoExpr == <<>>

-----------------------------------------------------------------------------
(* Location expressions. *)
O == INSTANCE LocationDecoder WITH Exprs <- {}

Op(op, num, size) == [op |-> op, num |-> num, size |-> size]

Assemble(os) ==
  LET at[k \in 1 .. Len(os)] ==
        IF k = 1 THEN 0 ELSE at[k - 1] + os[k - 1].size
  IN  [k \in DOMAIN os |->
         [op |-> os[k].op, num |-> os[k].num, off |-> at[k]]]

InFrame(n) == Assemble(<<Op("fbreg", n, 2)>>)

(* 40 does not fit an int of the model.                                    *)
Pushes == {Op("fbreg", -20, 2), Op("const", 3, 2), Op("lit", 0, 1), Op("const", 40, 2)}
OneByte == {Op(o, 0, 1) : o \in O!Ops \ (O!Constants \cup {"skip", "bra", "plus_uconst", "pick"})}
WithOperand == {Op("plus_uconst", 2, 2), Op("bra", 3, 3)} \cup {Op("pick", n, 2) : n \in 0 .. 2}
Skips == {Op("skip", n, 3) : n \in {-2, 0, 3, 4}}

SomeLocations ==
  {Assemble(<<a, o>>) : a \in Pushes, o \in OneByte \cup WithOperand}
  \cup {Assemble(<<a, b, o>>) : a \in Pushes, b \in Pushes, o \in OneByte \cup WithOperand}
  \cup {Assemble(<<a, b, Op("lit", 2, 1), o>>) :
          a \in Pushes, b \in Pushes, o \in {p \in OneByte \cup WithOperand : p.op \in O!Shuffles}}
  \cup {Assemble(<<a, s, b>>) : a \in Pushes, s \in Skips, b \in Pushes}

-----------------------------------------------------------------------------
(* Dies. *)
Die(tag, parent) ==
  [tag |-> tag, parent |-> parent, low |-> Absent, high |-> Absent,
   name |-> Nameless, type |-> None, size |-> 0, loc |-> NoExpr]

Scope(tag, parent, low, high) ==
  [Die(tag, parent) EXCEPT !.low = low, !.high = high]

Var(parent, name, type, where) ==
  [Die("variable", parent) EXCEPT !.name = name, !.type = type, !.loc = where]

Type(tag, of, size) == [Die(tag, 1) EXCEPT !.type = of, !.size = size]

(* A unit with a variable of its own; a function with a parameter and two  *)
(* blocks, the second in the first or after it, each with a variable;      *)
(* after the blocks, a variable of the function or something else; and     *)
(* types, one of which has a nameless parameter.                           *)
Unit(names, second, block, last, type) ==
  << Die("compile_unit", None),
     Var(1, names[1], 10, InFrame(-28)),
     Scope("subprogram", 1, 0, 4),
     [Var(3, names[2], 10, InFrame(-20)) EXCEPT !.tag = "formal_parameter"],
     Scope("lexical_block", 3, block[1], block[2]),
     Var(5, names[3], type, InFrame(-24)),
     IF second = 5 THEN Scope("lexical_block", 5, 2, 3)
                   ELSE Scope("lexical_block", 3, 3, 4),
     Var(7, names[4], 10, NoExpr),
     last,
     Type("base_type", None, 2),
     Type("pointer_type", 10, 3),
     Type("pointer_type", None, 3),
     Type("array_type", 11, 0),
     Type("typedef", 13, 0),
     Type("subroutine_type", 10, 0),
     [Var(15, Nameless, 10, NoExpr) EXCEPT !.tag = "formal_parameter"] >>

Blocks == {<<1, 3>>, <<Absent, Absent>>}
Lasts == {Die("label", 3), Var(3, "n", 10, InFrame(-28)), Var(3, "n", None, InFrame(-28)),
          Var(3, Nameless, None, InFrame(-28))}

(* The least a variable needs around it.                                   *)
PlainUnit(where) ==
  << Die("compile_unit", None),
     Scope("subprogram", 1, 0, 4),
     Var(2, "i", 4, where),
     Type("base_type", None, 2) >>

Shapes ==
  {Unit(names, second, block, last, 10) :
     names \in [1 .. 4 -> {"i", "index"}], second \in {3, 5}, block \in Blocks, last \in Lasts}
  \cup {Unit(<<"n", "n", "i", "index">>, 5, <<1, 3>>, Die("label", 3), type) : type \in 10 .. 14}

(* Of a shape everything is asked, of a plain unit the one variable.       *)
MCQueries ==
  [unit : Shapes, addr : {0, 2, 3, 4}, varname : VarNames, kind : Listings \cup {"location"}]
  \cup [unit : {PlainUnit(e) : e \in SomeLocations}, addr : {2}, varname : {"i"}, kind : {"location"}]

(* The hypotheses of the theorems are met: a type ranks above those of its *)
(* chain.                                                                  *)
ASSUME UnitsAreProper ==
  \A q \in MCQueries :
    /\ ProperUnit(q.unit)
    /\ ProperData(q.unit)
    /\ Grounded(q.unit, [d \in DOMAIN q.unit |-> Len(ChainsOf(q.unit)[d])])
=============================================================================
