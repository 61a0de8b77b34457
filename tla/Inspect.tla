------------------------------- MODULE Inspect -------------------------------
(***************************************************************************)
(* LDM_inspect (legerdemain.c) over the two parts of the DWARF client it   *)
(* drives: get_location_of_scoped_variable searches the scopes of the      *)
(* address for the variable and decodes the location of the die it finds;  *)
(* get_type_of_scoped_variable searches again and resolves its type; and   *)
(* the bytes at the location are printed.  The lists of variables and of   *)
(* scopes, which are a walk and nothing else, are here as well.            *)
(***************************************************************************)
EXTENDS ScopeLookup

CONSTANTS
  STACK_MAX, IntBits, LongBits,   (* of LocationDecoder                    *)
  FrameBase                       (* the distance from the frame pointer   *)
                                  (* to the canonical frame address        *)

VARIABLES
  expr, i, stack, frameRel, status, offset,   (* of LocationDecoder        *)
  stage,    (* where the command is                                        *)
  loc,      (* what get_location_of_scoped_variable returned               *)
  printed   (* the bytes printed, by their distance from curDebugFramePtr  *)

decoderVars == <<expr, i, stack, frameRel, status, offset>>
inspectVars == <<vars, decoderVars, stage, loc, printed>>

Locations ==
  (UNION {{q.unit[d].loc : d \in DOMAIN q.unit} : q \in Queries}) \ {NoLoc}

D == INSTANCE LocationDecoder WITH Exprs <- Locations

ASSUME DecoderAssumption ==
  /\ D!WidthAssumption
  /\ Locations \subseteq Seq(D!Operation)

InspectInit ==
  /\ Init
  /\ kind # "type"
  /\ expr = <<>>
  /\ i = 1
  /\ stack = <<>>
  /\ frameRel = FALSE
  /\ status = "done"
  /\ offset = 0
  /\ stage = "search"
  /\ loc = 0
  /\ printed = {}

Search ==
  /\ stage = "search"
  /\ Next
  /\ UNCHANGED <<decoderVars, stage, loc, printed>>

(* DC_get_location_attr_value: the first location of the list is decoded.  *)
DecodeLocation ==
  /\ stage = "search"
  /\ kind = "location"
  /\ state = "done"
  /\ stage' = "decode"
  /\ expr' = unit[v].loc
  /\ i' = 1
  /\ stack' = <<>>
  /\ frameRel' = FALSE
  /\ status' = "run"
  /\ UNCHANGED <<vars, offset, loc, printed>>

Decode ==
  /\ stage = "decode"
  /\ D!Next
  /\ UNCHANGED <<vars, stage, loc, printed>>

(* The location is known, whether or not the decoder gave up: the second   *)
(* search begins.                                                          *)
SearchType ==
  /\ stage = "decode"
  /\ status \in {"done", "gaveup"}
  /\ loc' = offset
  /\ stage' = "search"
  /\ kind' = "type"
  /\ todo' = Start
  /\ v' = NoDie
  /\ state' = "walk"
  /\ UNCHANGED <<unit, addr, varname, res, shown, decoderVars, printed>>

(* Mutant: offsets are taken to be from the frame pointer.                 *)
FromFramePtrPlain == loc

(* A negative offset is taken to be from the canonical frame address, any  *)
(* other from the frame pointer; whether the decoder saw a frame base is   *)
(* not asked.                                                              *)
FromFramePtr == IF loc < 0 THEN loc + 16 ELSE loc

ShowBytes ==
  /\ stage = "search"
  /\ kind = "type"
  /\ state = "done"
  /\ stage' = "end"
  /\ printed' = {FromFramePtr + unit[res.die].size - k : k \in 1 .. unit[res.die].size}
  /\ UNCHANGED <<vars, decoderVars, loc>>

InspectNext == Search \/ DecodeLocation \/ Decode \/ SearchType \/ ShowBytes

(* The command runs on.                                                    *)
InspectSpec == InspectInit /\ [][InspectNext]_inspectVars
                 /\ WF_inspectVars(InspectNext)

-----------------------------------------------------------------------------
(* Properties. *)

(* Types of the decoder's variables and the command's own.                 *)
InspectTypeOK ==
  /\ TypeOK
  /\ D!TypeOK
  /\ stage \in {"search", "decode", "end"}
  /\ loc \in Int
  /\ printed \subseteq Int

(* As in LocationDecoder (dwarfclient.c:291).                              *)
DecodesRight == D!DecodesRight

(* What sizeof gives for a declaration, if its type is not an array.       *)
Sizeof(d) ==
  LET c == Chain(d)
      named == {k \in DOMAIN c : unit[c[k]].size > 0}
  IN  unit[c[CHOOSE k \in named : \A l \in named : k <= l]].size

(* inspect prints the object C means: the innermost declaration of the     *)
(* name, at its place in the frame, all its bytes and no other.  Said of   *)
(* variables below the frame base whose type is not a pointer or an array: *)
(* of a pointer the code prints as many bytes as the thing pointed to has, *)
(* and a place not below the frame base, or not in the frame at all, is    *)
(* not where it looks (legerdemain.c:120-143).                             *)
InspectReads ==
  stage = "end" /\ Regular /\ PrefixFree /\ res.points = 0 /\ res.arrs = 0 =>
    \A d \in Innermost :
      LET place == unit[d].loc[1]
      IN  Len(unit[d].loc) = 1 /\ place.op = "fbreg" /\ place.num < 0 =>
            printed = {FrameBase + place.num + k : k \in 0 .. Sizeof(d) - 1}

(* What a compiler writes of the data of unit u: no scope declares a name  *)
(* twice; a type that refers to another has a size of its own only if it   *)
(* is a pointer or an array; what a variable is made of has a size; and    *)
(* distances in a frame are ints.                                          *)
ProperData(u) ==
  LET declared == {d \in DOMAIN u : u[d].tag \in {"variable", "formal_parameter"}}
      types == {u[d].type : d \in DOMAIN u} \ {NoDie}
  IN  /\ \A d, e \in declared :
           u[d].parent = u[e].parent /\ u[d].name = u[e].name /\ u[d].name # NoName => d = e
      /\ \A t \in types :
           u[t].type # NoDie /\ u[t].tag \notin {"pointer_type", "array_type"} =>
             u[t].size = 0
      /\ \A d \in declared :
           u[d].type # NoDie =>
             LET c == ChainsOf(u)[u[d].type]
             IN  \E k \in DOMAIN c : u[c[k]].size > 0
      /\ \A d \in declared :
           Len(u[d].loc) = 1 /\ u[d].loc[1].op = "fbreg" =>
             D!ToInt(D!ToLong(u[d].loc[1].num)) = u[d].loc[1].num

(* Every command comes to an end, if only by asking a null die, when no    *)
(* location skips backward; one that does may be taken for ever, since bra *)
(* does not branch (dwarfclient.c:254-275, 926).                           *)
Ended ==
  \/ stage = "end"
  \/ kind \in Listings /\ state = "done"
  \/ state \in {"null", "fault"}
  \/ status = "trap"

SkipsBack == \E k \in DOMAIN expr : expr[k].op = "skip" /\ expr[k].num < 0

InspectEnds == <>(Ended \/ SkipsBack)
=============================================================================
