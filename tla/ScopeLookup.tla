----------------------------- MODULE ScopeLookup -----------------------------
(***************************************************************************)
(* Looking up variables in the tree of dies of a compilation unit          *)
(* (dwarfclient.c): the three recursive walks                              *)
(* DC_get_info_for_scoped_variable, DC_show_vars_for_containing_pc_ranges  *)
(* and DC_show_info_for_containing_pc_ranges, which visit a die before its *)
(* children and its children in order, and the walk up the chain of types  *)
(* of DC_resolve_type.  One step is the visit of one die or one type.      *)
(*                                                                         *)
(* The dies of a unit are numbered in the order of the walk, the unit's    *)
(* own being 1.  A die is a record: its tag; its parent; low and high, the *)
(* values of DW_AT_low_pc and DW_AT_high_pc; its name; type, the die that  *)
(* DW_AT_type refers to; size, its DW_AT_byte_size; and loc, its           *)
(* DW_AT_location.  Strings are compared by their beginnings, so Prefix is *)
(* all the model knows about names.                                        *)
(***************************************************************************)
EXTENDS Integers, Sequences, FiniteSets, FiniteSetsExt

CONSTANTS
  Queries,  (* what may be asked: records of a unit, which is a sequence   *)
            (* of dies, an address in it, the name of a variable and a     *)
            (* kind                                                        *)
  Names,    (* the names of variables                                      *)
  Prefix,   (* the pairs of a name and a name it is the beginning of       *)
  NoName,   (* no DW_AT_name                                               *)
  NoAddr,   (* no DW_AT_low_pc                                             *)
  NoDie,    (* a die that is not there: no parent, no type, not found      *)
  NoLoc     (* no DW_AT_location                                           *)

Listings == {"vars", "scopes"}
Searches == {"location", "type"}

ASSUME LookupAssumption ==
  /\ \A q \in Queries :
       /\ q.addr \in Int
       /\ q.varname \in Names
       /\ q.kind \in Listings \cup Searches
       /\ Len(q.unit) \in Nat \ {0} /\ DOMAIN q.unit = 1 .. Len(q.unit)
       /\ q.unit[1].parent = NoDie
       /\ \A d \in 2 .. Len(q.unit) : q.unit[d].parent \in 1 .. d - 1
       /\ \A d \in 1 .. Len(q.unit) :
            q.unit[d].type \in DOMAIN q.unit \cup {NoDie} /\ q.unit[d].size \in Nat
  /\ NoDie \notin Nat \ {0}
  /\ NoName \notin Names
  /\ Prefix \subseteq Names \X Names
  /\ \A n \in Names : <<n, n>> \in Prefix

VARIABLES
  unit,     (* the tree                                                    *)
  addr,     (* iaddr                                                       *)
  varname,
  kind,     (* which of the walks it is, and what for                      *)
  todo,     (* the calls of the walk that are open: the die each is to      *)
            (* visit next among its siblings, with its "enclosing"         *)
  v,        (* *retDie; in a list of variables, the one being printed      *)
  res,      (* DC_resolve_type: typeDie, points and arrs                   *)
  shown,    (* what was printed of scopes and variables                    *)
  state     (* how the walk is going                                       *)

vars == <<unit, addr, varname, kind, todo, v, res, shown, state>>

States == {"walk", "resolve", "done", "null", "fault"}
Dies == DOMAIN unit
Start == <<[die |-> 1, enclosing |-> FALSE]>>
NoType == [die |-> NoDie, points |-> 0, arrs |-> 0]

Init ==
  /\ \E q \in Queries :
       unit = q.unit /\ addr = q.addr /\ varname = q.varname /\ kind = q.kind
  /\ todo = Start
  /\ v = NoDie
  /\ res = NoType
  /\ shown = <<>>
  /\ state = "walk"

-----------------------------------------------------------------------------
(* The walk. *)

ScopeTags == {"subprogram", "lexical_block"}

Declares(d) == unit[d].tag \in {"variable", "formal_parameter"}

(* enc: what a die tells its children.  Both ends count as inside, and a   *)
(* scope without DW_AT_low_pc encloses nothing.                            *)
Encloses(d) ==
  /\ unit[d].tag \in ScopeTags
  /\ unit[d].low # NoAddr
  /\ unit[d].low <= addr /\ addr <= unit[d].high

(* dwarf_child and dwarf_siblingof: the first of the dies below d, and of  *)
(* those beside it that come after it.                                     *)
Kids(d) == {k \in Dies : unit[k].parent = d}
Siblings(d) == {k \in Dies : k > d /\ unit[k].parent = unit[d].parent}
FirstOf(dies, enc) ==
  IF dies = {} THEN <<>> ELSE <<[die |-> Min(dies), enclosing |-> enc]>>

(* The visit of d and of what is below it is over.                         *)
MoveOn(d) == FirstOf(Siblings(d), Head(todo).enclosing) \o Tail(todo)

(* Mutant: the children of a scope that encloses are told so, and so are   *)
(* those of a scope in one.                                                *)
DescendInherits(d) ==
  todo' = FirstOf(Kids(d), Encloses(d) \/ Head(todo).enclosing) \o MoveOn(d)

(* The children of d come next, and what comes after d comes after them.   *)
Descend(d) == todo' = FirstOf(Kids(d), Encloses(d)) \o MoveOn(d)

Visiting(d) ==
  /\ state = "walk"
  /\ todo # <<>>
  /\ d = Head(todo).die

(* The die is a variable in a scope that encloses the address.             *)
InScope(d) == Declares(d) /\ Head(todo).enclosing

(* strncmp(name, varname, strlen(name)): equal as far as the die's name    *)
(* goes.                                                                   *)
Matches(d) == <<unit[d].name, varname>> \in Prefix

(* A later match replaces an earlier one.                                  *)
Take(d) ==
  /\ Visiting(d)
  /\ kind \in Searches
  /\ InScope(d)
  /\ Matches(d)
  /\ v' = d
  /\ todo' = MoveOn(d)
  /\ UNCHANGED <<unit, addr, varname, kind, res, shown, state>>

(* dwarf_diename leaves name as it was, and it was never set.              *)
ReadNoName(d) ==
  /\ Visiting(d)
  /\ InScope(d)
  /\ unit[d].name = NoName
  /\ \/ state' = "fault" /\ UNCHANGED <<v, todo>>
     \/ kind \in Searches /\ v' = d /\ todo' = MoveOn(d) /\ UNCHANGED state
     \/ Descend(d) /\ UNCHANGED <<v, state>>
  /\ UNCHANGED <<unit, addr, varname, kind, res, shown>>

(* A variable in scope is printed, in a list of variables with its type,   *)
(* if it has one.                                                          *)
ShowVariable(d) ==
  /\ Visiting(d)
  /\ kind \in Listings
  /\ InScope(d)
  /\ unit[d].name # NoName
  /\ Descend(d)
  /\ \/ kind = "vars" /\ unit[d].type # NoDie /\ v' = d /\ state' = "resolve"
          /\ res' = [NoType EXCEPT !.die = unit[d].type] /\ UNCHANGED shown
     \/ kind = "vars" /\ unit[d].type = NoDie /\ state' = "null"
          /\ UNCHANGED <<v, res, shown>>
     \/ kind = "scopes" /\ shown' = Append(shown, [NoType EXCEPT !.die = d])
          /\ UNCHANGED <<v, state, res>>
  /\ UNCHANGED <<unit, addr, varname, kind>>

(* Any other die: only a scope in a list of scopes is printed.             *)
Pass(d) ==
  /\ Visiting(d)
  /\ InScope(d) => kind \in Searches /\ unit[d].name # NoName /\ ~Matches(d)
  /\ Descend(d)
  /\ shown' = IF kind = "scopes" /\ Encloses(d)
              THEN Append(shown, [NoType EXCEPT !.die = d]) ELSE shown
  /\ UNCHANGED <<unit, addr, varname, kind, v, res, state>>

(* The die found has the attribute it is asked for.                        *)
Has(attr) ==
  /\ v # NoDie
  /\ attr = "loc" => unit[v].loc # NoLoc
  /\ attr = "type" => unit[v].type # NoDie

(* A search that found nothing left 0 in v, which is not the -1 it is      *)
(* compared with: the null die is asked for its attributes, and so is a    *)
(* die that does not have them.                                            *)
WalkEnds ==
  /\ state = "walk"
  /\ todo = <<>>
  /\ \/ kind \in Listings /\ state' = "done" /\ UNCHANGED res
     \/ kind = "location" /\ Has("loc") /\ state' = "done" /\ UNCHANGED res
     \/ kind = "type" /\ Has("type") /\ state' = "resolve"
          /\ res' = [NoType EXCEPT !.die = unit[v].type]
     \/ kind = "location" /\ ~Has("loc") /\ state' = "null" /\ UNCHANGED res
     \/ kind = "type" /\ ~Has("type") /\ state' = "null" /\ UNCHANGED res
  /\ UNCHANGED <<unit, addr, varname, kind, todo, v, shown>>

-----------------------------------------------------------------------------
(* DC_resolve_type *)

(* Mutant: typedefs and qualifiers count as pointers.                      *)
UnwrapCountsAll ==
  /\ state = "resolve"
  /\ unit[res.die].type # NoDie
  /\ res' = [die |-> unit[res.die].type,
             points |-> res.points + (IF unit[res.die].tag = "array_type" THEN 0 ELSE 1),
             arrs |-> res.arrs + (IF unit[res.die].tag = "array_type" THEN 1 ELSE 0)]
  /\ UNCHANGED <<unit, addr, varname, kind, todo, v, shown, state>>

(* This type has a type.                                                   *)
Unwrap ==
  /\ state = "resolve"
  /\ LET t == unit[res.die]
     IN  /\ t.type # NoDie
         /\ res' = [die    |-> t.type,
                    points |-> res.points + (IF t.tag = "pointer_type" THEN 1 ELSE 0),
                    arrs   |-> res.arrs + (IF t.tag = "array_type" THEN 1 ELSE 0)]
  /\ UNCHANGED <<unit, addr, varname, kind, todo, v, shown, state>>

(* This one has none.                                                      *)
Resolved ==
  /\ state = "resolve"
  /\ unit[res.die].type = NoDie
  /\ \/ /\ kind = "vars"
        /\ shown' = Append(shown, [res EXCEPT !.die = v])
        /\ v' = NoDie
        /\ state' = "walk"
     \/ /\ kind = "type"
        /\ state' = "done"
        /\ UNCHANGED <<shown, v>>
  /\ UNCHANGED <<unit, addr, varname, kind, todo, res>>

Visit ==
  \E d \in Dies : Take(d) \/ ReadNoName(d) \/ ShowVariable(d) \/ Pass(d)

Next == Visit \/ WalkEnds \/ Unwrap \/ Resolved

Spec == Init /\ [][Next]_vars

-----------------------------------------------------------------------------
(* Properties. *)

(* Every variable has its type; a type is resolved for a die only.         *)
TypeOK ==
  /\ addr \in Int
  /\ varname \in Names
  /\ kind \in Listings \cup Searches
  /\ todo \in Seq([die : Dies, enclosing : BOOLEAN])
  /\ v \in Dies \cup {NoDie}
  /\ res \in [die : Dies \cup {NoDie}, points : Nat, arrs : Nat]
  /\ shown \in Seq([die : Dies, points : Nat, arrs : Nat])
  /\ state \in States
  /\ state = "resolve" => v # NoDie /\ res.die # NoDie

(* The dies that each die of unit u is below, the unit's own apart.        *)
DiesAbove(u) ==
  LET above[k \in DOMAIN u] ==
        IF u[k].parent \in {1, NoDie} THEN {}
        ELSE {u[k].parent} \cup above[u[k].parent]
  IN  above

ScopesOf(d) == DiesAbove(unit)[d]

(* C's view: a declaration is visible in its scope and the scopes in that. *)
Visible(d) ==
  /\ Declares(d)
  /\ ScopesOf(d) # {}
  /\ \A s \in ScopesOf(d) :
       unit[s].tag \in ScopeTags /\ unit[s].low <= addr /\ addr < unit[s].high

(* An inner declaration hides an outer one.                                *)
Innermost ==
  LET same == {d \in Dies : Visible(d) /\ unit[d].name = varname}
  IN  {d \in same : \A e \in same : ScopesOf(e) \subseteq ScopesOf(d)}

(* Where the code agrees with C: every scope is one range of addresses     *)
(* and none ends at addr (both ends count as inside), every declaration in *)
(* a scope has its name, and no scope has one after a scope in it.         *)
Regular ==
  /\ \A s \in Dies :
       unit[s].tag \in ScopeTags => unit[s].low # NoAddr /\ unit[s].high # addr
  /\ \A d \in Dies \ {1} :
       Declares(d) /\ unit[unit[d].parent].tag \in ScopeTags =>
         /\ unit[d].name # NoName
         /\ \A s \in Dies :
              unit[s].tag = "lexical_block" /\ unit[s].parent = unit[d].parent => d < s

(* What a compiler writes of a unit's scopes: a subprogram is in the unit  *)
(* itself, a block in a subprogram or a block, within its range of         *)
(* addresses and beside the ranges of the other blocks there.              *)
ProperUnit(u) ==
  LET scopes == {d \in DOMAIN u : u[d].tag \in ScopeTags}
      ranges == {d \in scopes : u[d].low # NoAddr}
  IN  /\ u[1].tag \notin ScopeTags \cup {"variable", "formal_parameter"}
      /\ \A d \in scopes :
           IF u[d].tag = "subprogram" THEN u[d].parent = 1 ELSE u[d].parent \in scopes
      /\ \A d \in ranges :
           /\ u[d].low \in Int /\ u[d].high \in Int
           /\ u[d].parent \in ranges =>
                u[u[d].parent].low <= u[d].low /\ u[d].high <= u[u[d].parent].high
      /\ \A d, e \in ranges :
           d # e /\ u[d].parent = u[e].parent => u[d].high <= u[e].low \/ u[e].high <= u[d].low

(* No visible name is a beginning of varname other than itself.            *)
PrefixFree ==
  \A d \in Dies : Visible(d) /\ Matches(d) => unit[d].name = varname

WalkOver == todo = <<>> /\ state # "fault"

(* A search ends at the declaration that C means, the innermost visible    *)
(* one, and asks a null die exactly when a function's scopes have none: a  *)
(* variable of the unit itself is never found (dwarfclient.c:570-616).     *)
FindsInnermost ==
  WalkOver /\ kind \in Searches /\ Regular /\ PrefixFree =>
    IF Innermost = {} THEN v = NoDie ELSE v \in Innermost

(* A type is a chain; what a declaration is made of, from its own end.     *)
ChainsOf(u) ==
  LET up[k \in DOMAIN u \cup {NoDie}] ==
        IF k = NoDie THEN <<>> ELSE <<k>> \o up[u[k].type]
  IN  up

Chain(d) == ChainsOf(unit)[unit[d].type]

(* Every chain of types in u ends, as DC_resolve_type assumes: a type      *)
(* ranks above the one it refers to.                                       *)
Grounded(u, rank) ==
  /\ rank \in [DOMAIN u -> 1 .. Len(u)]
  /\ \A d \in DOMAIN u : u[d].type \in DOMAIN u => rank[u[d].type] < rank[d]

(* How many of the types of chain c that lead on to another have tag t.    *)
Count(c, t) == Cardinality({k \in 1 .. Len(c) - 1 : unit[c[k]].tag = t})

(* A list of variables has every visible one, inner scopes after outer     *)
(* ones, with the stars and brackets of its type, and nothing else; a list *)
(* of scopes has the same variables (dwarfclient.c:636-690, 699-767).      *)
ListsVisible ==
  kind \in Listings /\ state = "done" /\ Regular =>
    LET rows == {k \in DOMAIN shown : Declares(shown[k].die)}
    IN  /\ {shown[k].die : k \in rows} = {d \in Dies : Visible(d)}
        /\ \A k, l \in rows :
             k < l => ScopesOf(shown[k].die) \subseteq ScopesOf(shown[l].die)
        /\ kind = "vars" =>
             \A k \in rows :
               LET c == Chain(shown[k].die)
               IN  /\ shown[k].points = Count(c, "pointer_type")
                   /\ shown[k].arrs = Count(c, "array_type")
=============================================================================
