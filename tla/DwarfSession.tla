---------------------------- MODULE DwarfSession ----------------------------
(***************************************************************************)
(* The queries of libdwarfclient (dwarfclient.c) over one libdwarf handle. *)
(* The handle has a cursor: dwarf_next_cu_header moves it to the next      *)
(* compilation unit, and past the last one back to the start.  A query     *)
(* that stops at the unit it looked for leaves the cursor there, so those  *)
(* that look an address up call reset_cu_header_info before and after,     *)
(* which moves the cursor until it wraps.  Those that look a line up and   *)
(* the dump start wherever the cursor is.                                  *)
(*                                                                         *)
(* A client is a debug shell: one thread may have a shell open while       *)
(* another thread's is in a query, a query that faults is followed by the  *)
(* queries of the shell nested in it, and a query may be given up half way.*)
(***************************************************************************)
EXTENDS Integers, Sequences

CONSTANTS
  Clients,
  NumCUs,     (* compilation units                                          *)
  Addrs,      (* instruction addresses                                      *)
  NoAddr,     (* 0xffffffffffffffff                                         *)
  code,       (* code[u]: the addresses of the code of unit u               *)
  low, high,  (* low[u], high[u]: DW_AT_low_pc and DW_AT_high_pc of unit u, *)
              (* the first address of its code and the first after it;      *)
              (* equal for a unit without DW_AT_low_pc, whose code is in    *)
              (* DW_AT_ranges, which nothing reads                          *)
  SrcLines,   (* source lines, with the name of their file                  *)
  lineaddr,   (* lineaddr[u][l]: where the line table of unit u has l first *)
  MaxQueries  (* bound: queries asked                                       *)

CUs == 1 .. NumCUs

ASSUME SessionAssumption ==
  /\ NumCUs \in Nat
  /\ Addrs \subseteq Nat
  /\ NoAddr \notin Addrs /\ NoAddr \in Int
  /\ low \in [CUs -> Nat] /\ high \in [CUs -> Nat]
  /\ \A u \in CUs : low[u] < high[u] => code[u] = low[u] .. (high[u] - 1)
  /\ lineaddr \in [CUs -> [SrcLines -> Addrs \cup {NoAddr}]]
  /\ MaxQueries \in Nat

HasPC(u) == low[u] < high[u]

NoCU == -1

Queries ==
  [kind : {"linetoaddr", "fscope"}, arg : SrcLines]
    \cup [kind : {"scope", "inspect"}, arg : Addrs]
    \cup {[kind |-> "dump", arg |-> NoAddr]}

Loops == {"reset", "line", "cu", "dump"}

VARIABLES
  cursor,  (* the unit the handle is at, 0 at the start                     *)
  broken,  (* the unit whose header libdwarf rejects, 0 if none; 1 also     *)
           (* stands for a handle that dwarf_init has not set               *)
  asked,   (* the number of queries asked                                   *)
  st       (* what each client is doing                                     *)

vars == <<cursor, broken, asked, st>>

(* todo: the loops the query has left; at: between its header and its dies *)
(* or not; addr: the address it is about; cus: the units it has found;     *)
(* from, alone: history, where the cursor was when linetoaddr began, and   *)
(* that no other query was under way meanwhile.                            *)
Idle == [todo |-> <<>>, at |-> "header", addr |-> NoAddr, cus |-> <<>>,
         query |-> [kind |-> "dump", arg |-> NoAddr], from |-> 0,
         alone |-> FALSE]

Init ==
  /\ cursor = 0
  /\ broken \in 0 .. NumCUs
  /\ asked = 0
  /\ st = [c \in Clients |-> Idle]

Busy(c) == st[c].todo # <<>>
In(c, loop) == Busy(c) /\ Head(st[c].todo) = loop

-----------------------------------------------------------------------------
(* libdwarf *)

Result ==
  IF cursor + 1 = broken THEN "ERROR"
  ELSE IF cursor = NumCUs THEN "NO_ENTRY" ELSE "OK"

dwarf_next_cu_header ==
  cursor' = CASE Result = "ERROR"    -> cursor
              [] Result = "NO_ENTRY" -> 0
              [] Result = "OK"       -> cursor + 1

-----------------------------------------------------------------------------
(* Queries. *)

(* Mutant: an address is looked up from wherever the cursor is.            *)
LoopsNoFirstReset(kind) ==
  CASE kind = "linetoaddr" -> <<"line">>
    [] kind = "fscope"     -> <<"line", "cu", "reset">>
    [] kind = "scope"      -> <<"cu", "reset">>
    [] kind = "inspect"    -> <<"cu", "reset", "cu", "reset">>
    [] kind = "dump"       -> <<"dump">>

(* Mutant: the cursor is left where the unit was found.                    *)
LoopsNoLastReset(kind) ==
  CASE kind = "linetoaddr" -> <<"line">>
    [] kind = "fscope"     -> <<"line", "reset", "cu">>
    [] kind = "scope"      -> <<"reset", "cu">>
    [] kind = "inspect"    -> <<"reset", "cu", "reset", "cu">>
    [] kind = "dump"       -> <<"dump">>

(* The loops over the units that each query runs.  inspect asks for the    *)
(* location and then for the type.                                         *)
LoopsOf(kind) ==
  CASE kind = "linetoaddr" -> <<"line">>
    [] kind = "fscope"     -> <<"line", "reset", "cu", "reset">>
    [] kind = "scope"      -> <<"reset", "cu", "reset">>
    [] kind = "inspect"    -> <<"reset", "cu", "reset", "reset", "cu", "reset">>
    [] kind = "dump"       -> <<"dump">>

Ask(c, q) ==
  /\ ~Busy(c)
  /\ asked < MaxQueries
  /\ asked' = asked + 1
  /\ st' = [b \in Clients |->
       IF b = c
       THEN [todo |-> LoopsOf(q.kind), at |-> "header",
             addr |-> IF q.kind \in {"scope", "inspect"} THEN q.arg ELSE NoAddr,
             cus |-> <<>>, query |-> q,
             from |-> IF q.kind = "linetoaddr" THEN cursor ELSE 0,
             alone |-> \A x \in Clients \ {c} : ~Busy(x)]
       ELSE IF Busy(b) THEN [st[b] EXCEPT !.alone = FALSE] ELSE st[b]]
  /\ UNCHANGED <<cursor, broken>>

(* Mutant: the next loop starts between a header and its dies.             *)
EndLoopAsIs(c, s) == st' = [st EXCEPT ![c] = [s EXCEPT !.todo = Tail(@)]]

EndLoop(c, s) == st' = [st EXCEPT ![c] = [s EXCEPT !.todo = Tail(@), !.at = "header"]]
GoTo(c, at) == st' = [st EXCEPT ![c].at = at]

(* reset_cu_header_info goes on until there is no next unit, an error or   *)
(* not.                                                                    *)
Reset(c) ==
  /\ In(c, "reset")
  /\ dwarf_next_cu_header
  /\ \/ Result = "NO_ENTRY" /\ EndLoop(c, st[c])
     \/ Result # "NO_ENTRY" /\ UNCHANGED st
  /\ UNCHANGED <<broken, asked>>

(* Mutant: when no unit has the address, the last one is returned.         *)
HeaderReturnsLast(c) ==
  /\ In(c, "line") \/ In(c, "cu") \/ In(c, "dump")
  /\ st[c].at = "header"
  /\ dwarf_next_cu_header
  /\ \/ Result = "OK" /\ GoTo(c, "dies")
     \/ /\ Result # "OK"
        /\ EndLoop(c, IF In(c, "cu")
                      THEN [st[c] EXCEPT !.cus = Append(@, NumCUs)] ELSE st[c])
  /\ UNCHANGED <<broken, asked>>

(* Mutant: only an error ends a loop.                                      *)
HeaderUntilError(c) ==
  /\ In(c, "line") \/ In(c, "cu") \/ In(c, "dump")
  /\ st[c].at = "header"
  /\ dwarf_next_cu_header
  /\ \/ Result # "ERROR" /\ GoTo(c, "dies")
     \/ /\ Result = "ERROR"
        /\ EndLoop(c, IF In(c, "cu")
                      THEN [st[c] EXCEPT !.cus = Append(@, NoCU)] ELSE st[c])
  /\ UNCHANGED <<broken, asked>>

(* The loops that look at dies go on while there is a next unit.           *)
Header(c) ==
  /\ In(c, "line") \/ In(c, "cu") \/ In(c, "dump")
  /\ st[c].at = "header"
  /\ dwarf_next_cu_header
  /\ \/ Result = "OK" /\ GoTo(c, "dies")
     \/ /\ Result # "OK"
        /\ EndLoop(c, IF In(c, "cu")
                      THEN [st[c] EXCEPT !.cus = Append(@, NoCU)] ELSE st[c])
  /\ UNCHANGED <<broken, asked>>

(* Mutant: only the first unit's lines are searched.                       *)
LineDiesOnce(c) ==
  /\ In(c, "line")
  /\ st[c].at = "dies"
  /\ LET l == st[c].query.arg
         a == IF cursor = 0 THEN NoAddr ELSE lineaddr[cursor][l]
     IN  EndLoop(c, [st[c] EXCEPT !.addr = a])
  /\ UNCHANGED <<cursor, broken, asked>>

(* The dies are those of the unit the cursor is at by now, and there are   *)
(* none if it is at none.                                                  *)
LineDies(c) ==
  /\ In(c, "line")
  /\ st[c].at = "dies"
  /\ LET l == st[c].query.arg
         a == IF cursor = 0 THEN NoAddr ELSE lineaddr[cursor][l]
     IN  \/ a # NoAddr /\ EndLoop(c, [st[c] EXCEPT !.addr = a])
         \/ a = NoAddr /\ GoTo(c, "header")
  /\ UNCHANGED <<cursor, broken, asked>>

Contains(u, a) == HasPC(u) /\ a >= low[u] /\ a <= high[u]

CuDies(c) ==
  /\ In(c, "cu")
  /\ st[c].at = "dies"
  /\ \/ /\ cursor # 0 /\ Contains(cursor, st[c].addr)
        /\ EndLoop(c, [st[c] EXCEPT !.cus = Append(@, cursor)])
     \/ /\ ~(cursor # 0 /\ Contains(cursor, st[c].addr))
        /\ GoTo(c, "header")
  /\ UNCHANGED <<cursor, broken, asked>>

DumpDies(c) ==
  /\ In(c, "dump")
  /\ st[c].at = "dies"
  /\ GoTo(c, "header")
  /\ UNCHANGED <<cursor, broken, asked>>

(* The shell is left by a jump out of a handler, in the middle of a query. *)
GiveUp(c) ==
  /\ Busy(c)
  /\ st' = [st EXCEPT ![c] = Idle]
  /\ UNCHANGED <<cursor, broken, asked>>

-----------------------------------------------------------------------------
Step(c) == Reset(c) \/ Header(c) \/ LineDies(c) \/ CuDies(c) \/ DumpDies(c)

Next ==
  \E c \in Clients :
    (\E q \in Queries : Ask(c, q)) \/ Step(c) \/ GiveUp(c)

Spec == Init /\ [][Next]_vars

(* A query runs on.                                                        *)
FairSpec == Spec /\ \A c \in Clients : WF_vars(Step(c))

-----------------------------------------------------------------------------
(* Properties. *)

ClientState ==
  [todo : Seq(Loops), at : {"header", "dies"}, addr : Addrs \cup {NoAddr},
   cus : Seq(CUs \cup {NoCU}), query : Queries, from : 0 .. NumCUs,
   alone : BOOLEAN]

(* Every variable has its type, and a client is at the dies of a unit only *)
(* in a loop that looks at dies.                                           *)
TypeOK ==
  /\ cursor \in 0 .. NumCUs
  /\ broken \in 0 .. NumCUs
  /\ asked \in 0 .. MaxQueries
  /\ st \in [Clients -> ClientState]
  /\ \A c \in Clients :
       st[c].at = "dies" => In(c, "line") \/ In(c, "cu") \/ In(c, "dump")

Done(c) == ~Busy(c) /\ st[c].alone

(* The unit an address belongs to, and those whose code ends before it.    *)
Home(a) == {u \in CUs : a \in code[u]}
Ending(a) == {u \in CUs : HasPC(u) /\ high[u] = a}

(* A query about an address that runs alone finds the unit the address     *)
(* belongs to, whatever was asked, given up or interleaved before it began.*)
(* At worst it is off by one: the comparison counts the address after the  *)
(* last one of a unit as the unit's (dwarfclient.c:523).  It finds none    *)
(* only for an address of no unit, or of one that the code cannot find,    *)
(* for want of a low_pc (dwarfclient.c:512).                               *)
AddressFound ==
  \A c \in Clients :
    Done(c) /\ st[c].addr # NoAddr =>
      \A i \in DOMAIN st[c].cus :
        IF st[c].cus[i] = NoCU
        THEN \A u \in Home(st[c].addr) : ~HasPC(u)
        ELSE st[c].cus[i] \in Home(st[c].addr) \cup Ending(st[c].addr)

(* The two halves of inspect look in the same unit, also if another client *)
(* moved the cursor in between, or one of them finds none.                 *)
(* (dwarfclient.c:953-1029)                                                *)
HalvesAgree ==
  \A c \in Clients :
    ~Busy(c) /\ Len(st[c].cus) = 2 /\ Ending(st[c].addr) = {} =>
      \/ st[c].cus[1] = st[c].cus[2]
      \/ NoCU \in {st[c].cus[1], st[c].cus[2]} /\ ~st[c].alone

(* Once a query that does not search for a line ends, having run alone,    *)
(* the cursor is at the start, where the next query expects it             *)
(* (dwarfclient.c:857, 870, 883, 962, 1002).                               *)
CursorHome ==
  [][\A c \in Clients :
       Busy(c) /\ ~Busy(c)' /\ Done(c)' /\ broken = 0 /\ st[c].query.kind # "linetoaddr"
         => cursor' = 0]_vars

(* The address of line l in the first unit after the cursor that has it.   *)
FirstFrom(k, l) ==
  LET has == {u \in CUs : u > k /\ lineaddr[u][l] # NoAddr}
  IN  IF has = {} THEN NoAddr
      ELSE lineaddr[CHOOSE u \in has : \A v \in has : u <= v][l]

(* A query about a line that runs alone answers for the units after the    *)
(* place its predecessors left the cursor at, and for all units only when  *)
(* that is the start (dwarfclient.c:780-811).                              *)
LineFromCursor ==
  \A c \in Clients :
    Done(c) /\ broken = 0 /\ st[c].query.kind = "linetoaddr" =>
      st[c].addr = FirstFrom(st[c].from, st[c].query.arg)

(* Every query ends, also while others are asked, if libdwarf accepts the  *)
(* headers; if it does not, reset_cu_header_info never ends                *)
(* (dwarfclient.c:567).                                                    *)
QueriesEnd ==
  \A c \in Clients : Busy(c) /\ broken = 0 ~> ~Busy(c)

(* linetoaddr finds a line that some unit has (legerdemain.c:241: "Prints  *)
(* the instruction address of the first instruction of he code on line     *)
(* <line> in <file>").                                                     *)
LineAnswers ==
  \A c \in Clients :
    Done(c) /\ st[c].query.kind = "linetoaddr" /\ broken = 0
    /\ (\E u \in CUs : lineaddr[u][st[c].query.arg] # NoAddr)
      => st[c].addr # NoAddr
=============================================================================
