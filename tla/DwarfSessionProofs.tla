------------------------- MODULE DwarfSessionProofs -------------------------
(***************************************************************************)
(* Proofs about DwarfSession, for any clients, units, addresses, line      *)
(* tables and number of queries.                                           *)
(***************************************************************************)
EXTENDS DwarfSession, SequenceTheorems, TLAPS

-----------------------------------------------------------------------------
(* The invariant. *)

(* What a query has left to do is the end of its plan, and it has found no *)
(* unit before its first loop ends.                                        *)
Following(s) ==
  LET all == LoopsOf(s.query.kind)
  IN  /\ Len(s.todo) <= Len(all)
      /\ \A i \in 1 .. Len(s.todo) : s.todo[i] = all[Len(all) - Len(s.todo) + i]
      /\ Len(s.todo) = Len(all) => s.cus = <<>>

Next1(s, loop) == s.todo # <<>> /\ s.todo[1] = loop

(* The units found have the address, whoever moved the cursor.             *)
Found(s) ==
  \A i \in 1 .. Len(s.cus) :
    s.cus[i] # NoCU => s.cus[i] \in CUs /\ Contains(s.cus[i], s.addr)

(* The last unit that a loop has looked through, with the cursor at k.     *)
Searched(s, k) == IF s.at = "dies" THEN k - 1 ELSE k

NoneUpTo(k, a) == \A u \in CUs : u <= k => ~Contains(u, a)

(* A query that runs alone looks through the units from the first on and   *)
(* has found the first that has the address.                               *)
Swept(s, k) ==
  /\ Next1(s, "cu") => 0 <= Searched(s, k) /\ NoneUpTo(Searched(s, k), s.addr)
  /\ \A i \in 1 .. Len(s.cus) :
       NoneUpTo(IF s.cus[i] = NoCU THEN NumCUs ELSE s.cus[i] - 1, s.addr)

(* linetoaddr, alone, looks through the units after where it began.        *)
LineSwept(s, k) ==
  s.query.kind = "linetoaddr" =>
    IF s.todo = <<>> THEN s.addr = FirstFrom(s.from, s.query.arg)
    ELSE /\ s.addr = NoAddr
         /\ s.from <= Searched(s, k)
         /\ \A u \in CUs : s.from < u /\ u <= Searched(s, k) =>
              lineaddr[u][s.query.arg] = NoAddr

(* A header that libdwarf rejects is never passed, and no loop that comes  *)
(* after a reset is ever entered.                                          *)
Stuck(s) == broken # 0 => ~Next1(s, "cu") /\ s.cus = <<>>

Alone(c) == \A b \in Clients \ {c} : ~Busy(b)

Sound(c) ==
  /\ Following(st[c]) /\ Found(st[c]) /\ Stuck(st[c])
  /\ st[c].alone => Swept(st[c], cursor)
  /\ st[c].alone /\ broken = 0 => LineSwept(st[c], cursor)
  /\ st[c].alone /\ Busy(c) => Alone(c)

IInv ==
  /\ TypeOK
  /\ broken # 0 => cursor < broken
  /\ \A c \in Clients : Sound(c)

-----------------------------------------------------------------------------
(* What the plans of the queries have in common. *)
Kinds == {"linetoaddr", "fscope", "scope", "inspect", "dump"}

LEMMA QueryType ==
  ASSUME NEW q \in Queries
  PROVE  /\ q.kind \in Kinds
         /\ q.kind \in {"linetoaddr", "fscope"} => q.arg \in SrcLines
         /\ q.kind \in {"scope", "inspect"} => q.arg \in Addrs
BY DEF Queries, Kinds

LEMMA PlanShape ==
  ASSUME NEW kind \in Kinds
  PROVE  LET all == LoopsOf(kind)
         IN  /\ all \in Seq(Loops)
             /\ Len(all) \in Nat \ {0}
             /\ kind = "linetoaddr" => Len(all) = 1 /\ all[1] = "line"
             /\ \A i \in 1 .. Len(all) :
                  /\ all[i] = "line" => i = 1 /\ kind \in {"linetoaddr", "fscope"}
                  /\ all[i] = "cu" => i > 1 /\ all[i - 1] = "reset"
                  /\ i = Len(all) /\ kind # "linetoaddr" => all[i] \in {"reset", "dump"}
<1>1. CASE kind = "linetoaddr"
  BY <1>1 DEF LoopsOf, Loops
<1>2. CASE kind = "fscope"
  BY <1>2 DEF LoopsOf, Loops
<1>3. CASE kind = "scope"
  BY <1>3 DEF LoopsOf, Loops
<1>4. CASE kind = "inspect"
  BY <1>4 DEF LoopsOf, Loops
<1>5. CASE kind = "dump"
  BY <1>5 DEF LoopsOf, Loops
<1> QED
  BY <1>1, <1>2, <1>3, <1>4, <1>5 DEF Kinds

(* The end t of a plan p, and what is left of it after its first loop. *)
LEMMA EndOfPlan ==
  ASSUME NEW S, NEW p \in Seq(S), NEW t \in Seq(S), t # <<>>, Len(t) <= Len(p),
         \A j \in 1 .. Len(t) : t[j] = p[Len(p) - Len(t) + j]
  PROVE  /\ Tail(t) \in Seq(S) /\ Head(t) = t[1] /\ t[1] \in S
         /\ Len(Tail(t)) = Len(t) - 1 /\ Len(t) \in Nat \ {0} /\ Len(p) \in Nat
         /\ \A j \in 1 .. Len(Tail(t)) : Tail(t)[j] = p[Len(p) - Len(Tail(t)) + j]
         /\ \E i \in 1 .. Len(p) :
              /\ t[1] = p[i]
              /\ Len(t) = Len(p) <=> i = 1
              /\ Tail(t) = <<>> <=> i = Len(p)
              /\ Tail(t) # <<>> => i + 1 \in 1 .. Len(p) /\ Tail(t)[1] = p[i + 1]
<1>1. Len(p) \in Nat /\ Len(t) \in Nat \ {0}
  BY LenProperties, EmptySeq
<1> DEFINE r == Tail(t)
<1>2. /\ r \in Seq(S) /\ Head(t) = t[1] /\ Len(r) = Len(t) - 1
      /\ \A j \in 1 .. Len(r) : r[j] = t[j + 1]
  BY HeadTailProperties
<1>3. t[1] \in S
  BY <1>1, ElementOfSeq
<1>4. r = <<>> <=> Len(r) = 0
  BY <1>2, EmptySeq
<1> HIDE DEF r
<1>5. ASSUME NEW j \in 1 .. Len(r)
      PROVE  r[j] = p[Len(p) - Len(r) + j]
  <2>1. j + 1 \in 1 .. Len(t) /\ Len(p) - Len(t) + (j + 1) = Len(p) - Len(r) + j
    BY <1>1, <1>2
  <2> QED
    BY <1>2, <2>1
<1> DEFINE i == Len(p) - Len(t) + 1
<1>6. i \in 1 .. Len(p) /\ t[1] = p[i] /\ (Len(t) = Len(p) <=> i = 1)
  BY <1>1
<1>7. r = <<>> <=> i = Len(p)
  BY <1>1, <1>2, <1>4
<1>8. r # <<>> => i + 1 \in 1 .. Len(p) /\ r[1] = p[i + 1]
  <2> SUFFICES ASSUME r # <<>> PROVE i + 1 \in 1 .. Len(p) /\ r[1] = p[i + 1]
    OBVIOUS
  <2>1. 1 \in 1 .. Len(r) /\ Len(p) - Len(r) + 1 = i + 1 /\ i + 1 \in 1 .. Len(p)
    BY <1>1, <1>2, <1>4
  <2> QED
    BY <1>5, <2>1
<1> HIDE DEF i
<1> QED
  BY <1>1, <1>2, <1>3, <1>5, <1>6, <1>7, <1>8 DEF r

(* The loop a query is in, and the one after it. *)
LEMMA Ahead ==
  ASSUME NEW s \in ClientState, Following(s), s.todo # <<>>
  PROVE  LET all == LoopsOf(s.query.kind)
             rest == Tail(s.todo)
         IN  /\ s.todo[1] = "line" =>
                  /\ s.query.kind \in {"linetoaddr", "fscope"}
                  /\ s.query.arg \in SrcLines
                  /\ s.cus = <<>>
             /\ rest \in Seq(Loops) /\ Len(rest) < Len(all)
             /\ \A i \in 1 .. Len(rest) : rest[i] = all[Len(all) - Len(rest) + i]
             /\ rest # <<>> /\ rest[1] = "cu" => s.todo[1] = "reset"
             /\ rest = <<>> /\ s.query.kind # "linetoaddr" => s.todo[1] \in {"reset", "dump"}
             /\ s.query.kind = "linetoaddr" => rest = <<>> /\ s.todo[1] = "line"
             /\ s.todo[1] = Head(s.todo) /\ s.todo[1] \in Loops
<1>1. s.query \in Queries /\ s.todo \in Seq(Loops)
  BY DEF ClientState
<1> DEFINE kind == s.query.kind
           all == LoopsOf(kind)
           todo == s.todo
           rest == Tail(todo)
<1>2. kind \in Kinds /\ (kind \in {"linetoaddr", "fscope"} => s.query.arg \in SrcLines)
  BY <1>1, QueryType
<1>3. /\ Len(todo) <= Len(all) /\ (Len(todo) = Len(all) => s.cus = <<>>)
      /\ \A i \in 1 .. Len(todo) : todo[i] = all[Len(all) - Len(todo) + i]
  BY DEF Following
<1>4. todo \in Seq(Loops) /\ todo # <<>>
  BY <1>1
<1> HIDE DEF kind, todo
<1>5. /\ all \in Seq(Loops) /\ Len(all) \in Nat \ {0}
      /\ kind = "linetoaddr" => Len(all) = 1 /\ all[1] = "line"
      /\ \A i \in 1 .. Len(all) :
           /\ all[i] = "line" => i = 1 /\ kind \in {"linetoaddr", "fscope"}
           /\ all[i] = "cu" => i > 1 /\ all[i - 1] = "reset"
           /\ i = Len(all) /\ kind # "linetoaddr" => all[i] \in {"reset", "dump"}
  BY <1>2, PlanShape
<1> HIDE DEF all
<1>6. /\ rest \in Seq(Loops) /\ Head(todo) = todo[1] /\ todo[1] \in Loops
      /\ Len(rest) = Len(todo) - 1 /\ Len(todo) \in Nat \ {0} /\ Len(all) \in Nat
      /\ \A j \in 1 .. Len(rest) : rest[j] = all[Len(all) - Len(rest) + j]
      /\ \E i \in 1 .. Len(all) :
           /\ todo[1] = all[i]
           /\ Len(todo) = Len(all) <=> i = 1
           /\ rest = <<>> <=> i = Len(all)
           /\ rest # <<>> => i + 1 \in 1 .. Len(all) /\ rest[1] = all[i + 1]
  <2>1. all \in Seq(Loops) /\ Len(all) \in Nat
    BY <1>5
  <2>2. /\ Len(todo) <= Len(all)
        /\ \A j \in 1 .. Len(todo) : todo[j] = all[Len(all) - Len(todo) + j]
    BY <1>3
  <2> QED
    BY <1>4, <2>1, <2>2, EndOfPlan
<1> HIDE DEF rest
<1> PICK i \in 1 .. Len(all) :
           /\ todo[1] = all[i]
           /\ Len(todo) = Len(all) <=> i = 1
           /\ rest = <<>> <=> i = Len(all)
           /\ rest # <<>> => i + 1 \in 1 .. Len(all) /\ rest[1] = all[i + 1]
  BY <1>6
<1>7. todo[1] = "line" => kind \in {"linetoaddr", "fscope"} /\ s.cus = <<>>
  BY <1>3, <1>5
<1>8. rest # <<>> /\ rest[1] = "cu" => todo[1] = "reset"
  <2> SUFFICES ASSUME rest # <<>>, rest[1] = "cu" PROVE all[i] = "reset"
    OBVIOUS
  <2>1. i + 1 \in 1 .. Len(all) /\ all[i + 1] = "cu" /\ i + 1 - 1 = i
    OBVIOUS
  <2> QED
    BY <1>5, <2>1
<1>9. rest = <<>> /\ kind # "linetoaddr" => todo[1] \in {"reset", "dump"}
  BY <1>5
<1>10. kind = "linetoaddr" => rest = <<>> /\ todo[1] = "line"
  <2> SUFFICES ASSUME kind = "linetoaddr" PROVE rest = <<>> /\ todo[1] = "line"
    OBVIOUS
  <2>1. Len(all) = 1 /\ all[1] = "line" /\ i = 1
    BY <1>5
  <2> QED
    BY <2>1
<1>11. Len(rest) < Len(all)
  BY <1>3, <1>6
<1> QED
  BY <1>2, <1>6, <1>7, <1>8, <1>9, <1>10, <1>11 DEF all, rest, todo, kind

-----------------------------------------------------------------------------
(* The steps of a query change its client and, maybe, the cursor. *)
LEMMA StepFrame ==
  ASSUME IInv, NEW c \in Clients, Busy(c),
         NEW n \in ClientState, st' = [st EXCEPT ![c] = n], n.alone => st[c].alone,
         UNCHANGED <<broken, asked>>,
         cursor' \in 0 .. NumCUs, broken # 0 => cursor' < broken,
         n.at = "dies" => n.todo # <<>> /\ n.todo[1] \in {"line", "cu", "dump"},
         Following(n), Found(n), Stuck(n),
         n.alone => Swept(n, cursor'),
         n.alone /\ broken = 0 => LineSwept(n, cursor')
  PROVE  IInv'
<1>1. st'[c] = n /\ \A b \in Clients \ {c} : st'[b] = st[b]
  BY DEF IInv, TypeOK
<1>2. TypeOK'
  <2>1. st' \in [Clients -> ClientState]
    BY DEF IInv, TypeOK
  <2>2. \A b \in Clients : st'[b].at = "dies" =>
          st'[b].todo # <<>> /\ Head(st'[b].todo) \in {"line", "cu", "dump"}
    <3>1. Head(n.todo) = n.todo[1]
      BY DEF ClientState
    <3> QED
      BY <1>1, <3>1 DEF IInv, TypeOK, In, Busy
  <2> QED
    BY <2>1, <2>2 DEF IInv, TypeOK, In, Busy
<1>3. Sound(c)'
  <2>1. n.alone /\ n.todo # <<>> => \A b \in Clients \ {c} : st'[b].todo = <<>>
    BY <1>1 DEF IInv, Sound, Alone, Busy
  <2>2. Stuck(n)'
    BY DEF Stuck
  <2>3. (Following(n) /\ Found(n))' /\ broken' = broken
    BY DEF Following, Found
  <2>4. n.alone => Swept(n, cursor)'
    BY DEF Swept, Next1, NoneUpTo, Searched
  <2>5. n.alone /\ broken' = 0 => LineSwept(n, cursor)'
    BY DEF LineSwept, Searched
  <2> QED
    BY <1>1, <2>1, <2>2, <2>3, <2>4, <2>5 DEF Sound, Alone, Busy
<1>4. ASSUME NEW b \in Clients \ {c} PROVE Sound(b)'
  <2>1. Sound(b) /\ st'[b] = st[b] /\ broken' = broken
    BY <1>1 DEF IInv
  <2>2. st[b].alone => st[b].todo = <<>>
    BY <2>1 DEF Sound, Alone, Busy
  <2> QED
    BY <2>1, <2>2 DEF Sound, Busy, Swept, Next1, LineSwept, Stuck
<1> QED
  BY <1>2, <1>3, <1>4 DEF IInv

(* A loop ends, with the client's address and units as they are in s. *)
LEMMA EndKeeps ==
  ASSUME IInv, NEW c \in Clients, Busy(c),
         NEW s \in ClientState, EndLoop(c, s),
         s.todo = st[c].todo, s.query = st[c].query, s.from = st[c].from,
         s.alone = st[c].alone,
         UNCHANGED <<broken, asked>>,
         cursor' \in 0 .. NumCUs, broken # 0 => cursor' < broken,
         s.todo[1] = "reset" => cursor' = 0 /\ broken = 0,
         Found(s), broken # 0 => s.cus = <<>>,
         s.alone => \A i \in 1 .. Len(s.cus) :
           NoneUpTo(IF s.cus[i] = NoCU THEN NumCUs ELSE s.cus[i] - 1, s.addr),
         s.alone /\ broken = 0 /\ s.query.kind = "linetoaddr" =>
           s.addr = FirstFrom(s.from, s.query.arg)
  PROVE  IInv'
<1> DEFINE all == LoopsOf(s.query.kind)
           rest == Tail(s.todo)
           n == [s EXCEPT !.todo = Tail(@), !.at = "header"]
<1>1. st[c] \in ClientState /\ Following(st[c]) /\ st[c].todo # <<>>
  BY DEF IInv, TypeOK, Sound, Busy
<1>2. /\ rest \in Seq(Loops) /\ Len(rest) < Len(all)
      /\ \A i \in 1 .. Len(rest) : rest[i] = all[Len(all) - Len(rest) + i]
      /\ rest # <<>> /\ rest[1] = "cu" => s.todo[1] = "reset"
      /\ s.query.kind = "linetoaddr" => rest = <<>>
  BY <1>1, Ahead
<1>3. /\ n \in ClientState /\ n.todo = rest /\ n.at = "header"
      /\ n.query = s.query /\ n.from = s.from /\ n.addr = s.addr /\ n.cus = s.cus
      /\ n.alone = s.alone
  BY <1>2 DEF ClientState
<1>4. st' = [st EXCEPT ![c] = n]
  BY DEF EndLoop
<1> HIDE DEF n, rest, all
<1>5. Following(n)
  <2>1. LoopsOf(n.query.kind) = all /\ Len(all) \in Nat /\ Len(rest) \in Nat
    <3>1. all \in Seq(Loops)
      BY <1>1, QueryType, PlanShape DEF all, ClientState
    <3> QED
      BY <1>2, <1>3, <3>1, LenProperties DEF all
  <2> QED
    BY <1>2, <1>3, <2>1 DEF Following
<1>6. Found(n)
  BY <1>3 DEF Found
<1>7. Stuck(n)
  BY <1>2, <1>3 DEF Stuck, Next1
<1>8. n.alone => Swept(n, cursor')
  <2>1. \A a : NoneUpTo(0, a)
    BY SessionAssumption DEF NoneUpTo, CUs
  <2> QED
    BY <1>2, <1>3, <2>1 DEF Swept, Searched, Next1
<1>9. n.alone /\ broken = 0 => LineSwept(n, cursor')
  BY <1>2, <1>3 DEF LineSwept
<1>10. n.at = "dies" => n.todo # <<>> /\ n.todo[1] \in {"line", "cu", "dump"}
  BY <1>3
<1> QED
  BY <1>3, <1>4, <1>5, <1>6, <1>7, <1>8, <1>9, <1>10, StepFrame

(* A loop goes on to a unit's dies, or from them, having searched the      *)
(* units up to k.                                                          *)
LEMMA GoToKeeps ==
  ASSUME IInv, NEW c \in Clients, Busy(c),
         NEW at \in {"header", "dies"}, GoTo(c, at),
         at = "dies" => st[c].todo[1] \in {"line", "cu", "dump"},
         UNCHANGED <<broken, asked>>,
         cursor' \in 0 .. NumCUs, broken # 0 => cursor' < broken,
         NEW k, k = IF at = "dies" THEN cursor' - 1 ELSE cursor',
         st[c].alone /\ st[c].todo[1] = "cu" => 0 <= k /\ NoneUpTo(k, st[c].addr),
         st[c].alone /\ broken = 0 /\ st[c].query.kind = "linetoaddr" =>
           /\ st[c].from <= k
           /\ \A u \in CUs : st[c].from < u /\ u <= k => lineaddr[u][st[c].query.arg] = NoAddr
  PROVE  IInv'
<1> DEFINE s == st[c]
           n == [s EXCEPT !.at = at]
<1>1. /\ s \in ClientState /\ Sound(c) /\ s.todo # <<>>
  BY DEF IInv, TypeOK, Busy
<1>2. /\ n \in ClientState /\ n.todo = s.todo /\ n.at = at
      /\ n.query = s.query /\ n.from = s.from /\ n.addr = s.addr /\ n.cus = s.cus
      /\ n.alone = s.alone
  BY <1>1 DEF ClientState
<1>3. st' = [st EXCEPT ![c] = n]
  BY DEF GoTo
<1>4. Searched(n, cursor') = k
  BY <1>2 DEF Searched
<1> HIDE DEF n
<1>5. Following(n) /\ Found(n) /\ Stuck(n)
  BY <1>1, <1>2 DEF Sound, Following, Found, Stuck, Next1
<1>6. n.alone => Swept(n, cursor')
  BY <1>1, <1>2, <1>4 DEF Sound, Swept, Next1
<1>7. n.alone /\ broken = 0 => LineSwept(n, cursor')
  BY <1>1, <1>2, <1>4 DEF Sound, LineSwept
<1>8. n.at = "dies" => n.todo # <<>> /\ n.todo[1] \in {"line", "cu", "dump"}
  BY <1>1, <1>2
<1> QED
  BY <1>2, <1>3, <1>5, <1>6, <1>7, <1>8, StepFrame

-----------------------------------------------------------------------------
(* The actions. *)
(* A client that asks nothing. *)
LEMMA IdleIs ==
  /\ Idle \in ClientState /\ Following(Idle) /\ Found(Idle) /\ Stuck(Idle)
  /\ ~Idle.alone /\ Idle.at = "header"
<1>1. Idle.query \in Queries
  BY DEF Idle, Queries
<1>2. Idle.from \in 0 .. NumCUs
  BY SessionAssumption DEF Idle
<1>3. <<>> \in Seq(Loops) /\ <<>> \in Seq(CUs \cup {NoCU})
  OBVIOUS
<1>4. Idle.alone \in BOOLEAN
  BY DEF Idle
<1>5. Idle \in ClientState
  BY <1>1, <1>2, <1>3, <1>4 DEF Idle, ClientState
<1>6. Following(Idle)
  BY DEF Following, Idle, LoopsOf
<1>7. Found(Idle) /\ Stuck(Idle) /\ ~Idle.alone /\ Idle.at = "header"
  BY DEF Found, Stuck, Next1, Idle
<1> QED
  BY <1>5, <1>6, <1>7

LEMMA InitIInv == Init => IInv
<1> SUFFICES ASSUME Init PROVE IInv
  OBVIOUS
<1>2. TypeOK
  BY IdleIs, SessionAssumption DEF Init, TypeOK
<1>3. broken # 0 => cursor < broken
  BY SessionAssumption DEF Init
<1>4. ASSUME NEW c \in Clients PROVE Sound(c)
  <2>1. st[c] = Idle
    BY DEF Init
  <2> QED
    BY <2>1, IdleIs DEF Sound
<1> QED
  BY <1>2, <1>3, <1>4 DEF IInv

LEMMA CursorMoves ==
  ASSUME IInv, dwarf_next_cu_header
  PROVE  /\ cursor' \in 0 .. NumCUs /\ (broken # 0 => cursor' < broken)
         /\ Result \in {"OK", "NO_ENTRY", "ERROR"}
         /\ Result = "OK" => cursor < NumCUs /\ cursor' = cursor + 1
         /\ Result = "NO_ENTRY" => cursor = NumCUs /\ cursor' = 0 /\ broken = 0
         /\ Result = "ERROR" => broken # 0
<1>1. /\ NumCUs \in Nat /\ cursor \in 0 .. NumCUs /\ broken \in 0 .. NumCUs
      /\ broken # 0 => cursor < broken
  BY SessionAssumption DEF IInv, TypeOK
<1>2. CASE cursor + 1 = broken
  <2>1. Result = "ERROR" /\ cursor' = cursor
    BY <1>2 DEF Result, dwarf_next_cu_header
  <2> QED
    BY <1>1, <1>2, <2>1
<1>3. CASE cursor + 1 # broken /\ cursor = NumCUs
  <2>1. Result = "NO_ENTRY" /\ cursor' = 0
    BY <1>3 DEF Result, dwarf_next_cu_header
  <2> QED
    BY <1>1, <1>3, <2>1
<1>4. CASE cursor + 1 # broken /\ cursor # NumCUs
  <2>1. Result = "OK" /\ cursor' = cursor + 1
    BY <1>4 DEF Result, dwarf_next_cu_header
  <2> QED
    BY <1>1, <1>4, <2>1
<1> QED
  BY <1>2, <1>3, <1>4

(* A step starts in the first loop the client has left. *)
LEMMA InLoop ==
  ASSUME IInv, NEW c \in Clients, NEW loop, In(c, loop)
  PROVE  /\ Busy(c) /\ st[c].todo # <<>> /\ st[c].todo[1] = loop
         /\ st[c] \in ClientState /\ Sound(c)
         /\ cursor \in 0 .. NumCUs /\ (broken # 0 => cursor < broken)
BY DEF IInv, TypeOK, In, Busy

LEMMA ResetKeeps ==
  ASSUME IInv, NEW c \in Clients, Reset(c)
  PROVE  IInv'
<1>1. /\ Busy(c) /\ st[c].todo # <<>> /\ st[c].todo[1] = "reset"
      /\ st[c] \in ClientState /\ Sound(c)
  BY InLoop DEF Reset
<1>2. dwarf_next_cu_header /\ UNCHANGED <<broken, asked>>
  BY DEF Reset
<1>3. st[c].query.kind # "linetoaddr"
  BY <1>1, Ahead DEF Sound
<1>4. CASE Result = "NO_ENTRY" /\ EndLoop(c, st[c])
  BY <1>1, <1>2, <1>3, <1>4, CursorMoves, EndKeeps DEF Sound, Stuck, Swept
<1>5. CASE Result # "NO_ENTRY" /\ UNCHANGED st
  <2>1. st' = [st EXCEPT ![c] = st[c]]
    BY <1>5 DEF IInv, TypeOK
  <2>2. st[c].at = "dies" => st[c].todo[1] \in {"line", "cu", "dump"}
    BY <1>1, InLoop DEF IInv, TypeOK
  <2>3. st[c].alone => Swept(st[c], cursor')
    BY <1>1 DEF Sound, Swept, Next1
  <2>4. LineSwept(st[c], cursor')
    BY <1>3 DEF LineSwept
  <2> QED
    BY <1>1, <1>2, <2>1, <2>2, <2>3, <2>4, CursorMoves, StepFrame DEF Sound
<1> QED
  BY <1>4, <1>5 DEF Reset

(* The units of a client, with one more. *)
LEMMA OneMore ==
  ASSUME NEW s \in ClientState, NEW u \in CUs \cup {NoCU}
  PROVE  LET n == [s EXCEPT !.cus = Append(@, u)]
         IN  /\ n \in ClientState /\ n.todo = s.todo /\ n.query = s.query
             /\ n.from = s.from /\ n.alone = s.alone /\ n.addr = s.addr
             /\ \A i \in 1 .. Len(n.cus) :
                  n.cus[i] = u \/ (i \in 1 .. Len(s.cus) /\ n.cus[i] = s.cus[i])
<1> DEFINE cus == s.cus
           more == Append(cus, u)
           n == [s EXCEPT !.cus = more]
<1>1. cus \in Seq(CUs \cup {NoCU})
  BY DEF ClientState
<1> HIDE DEF cus
<1>2. /\ more \in Seq(CUs \cup {NoCU}) /\ Len(more) = Len(cus) + 1 /\ Len(cus) \in Nat
      /\ \A i \in 1 .. Len(cus) : more[i] = cus[i]
      /\ more[Len(cus) + 1] = u
  BY <1>1, AppendProperties, LenProperties
<1> HIDE DEF more
<1>3. \A i \in 1 .. Len(more) : more[i] = u \/ (i \in 1 .. Len(cus) /\ more[i] = cus[i])
  BY <1>2
<1>4. /\ n \in ClientState /\ n.todo = s.todo /\ n.query = s.query
      /\ n.from = s.from /\ n.alone = s.alone /\ n.addr = s.addr /\ n.cus = more
  BY <1>2 DEF ClientState
<1> QED
  BY <1>3, <1>4 DEF cus, more

LEMMA HeaderKeeps ==
  ASSUME IInv, NEW c \in Clients, Header(c)
  PROVE  IInv'
<1> DEFINE s == st[c]
<1>0. In(c, "line") \/ In(c, "cu") \/ In(c, "dump")
  BY DEF Header
<1>1. /\ Busy(c) /\ s.todo # <<>> /\ s.todo[1] \in {"line", "cu", "dump"}
      /\ s \in ClientState /\ Sound(c) /\ cursor \in 0 .. NumCUs
  BY <1>0, InLoop
<1>2. dwarf_next_cu_header /\ UNCHANGED <<broken, asked>> /\ Searched(s, cursor) = cursor
  BY DEF Header, Searched
<1>3. In(c, "cu") <=> s.todo[1] = "cu"
  BY <1>1 DEF In, Busy, ClientState
<1>4. NumCUs \in Nat
  BY SessionAssumption
<1>5. CASE Result = "OK" /\ GoTo(c, "dies")
  <2>1. cursor' = cursor + 1 /\ cursor = cursor' - 1 /\ cursor' \in 0 .. NumCUs
        /\ (broken # 0 => cursor' < broken)
    BY <1>1, <1>2, <1>4, <1>5, CursorMoves
  <2>2. s.alone /\ s.todo[1] = "cu" => 0 <= cursor /\ NoneUpTo(cursor, s.addr)
    BY <1>1, <1>2 DEF Sound, Swept, Next1
  <2>3. s.alone /\ broken = 0 /\ s.query.kind = "linetoaddr" =>
          /\ s.from <= cursor
          /\ \A u \in CUs : s.from < u /\ u <= cursor => lineaddr[u][s.query.arg] = NoAddr
    BY <1>1, <1>2 DEF Sound, LineSwept
  <2> QED
    BY <1>1, <1>2, <1>5, <2>1, <2>2, <2>3, GoToKeeps
<1>6. CASE Result # "OK" /\ ~In(c, "cu") /\ EndLoop(c, s)
  <2>1. s.todo[1] # "reset"
    BY <1>1
  <2>2. Found(s) /\ (broken # 0 => s.cus = <<>>)
    BY <1>1 DEF Sound, Stuck
  <2>3. s.alone => \A i \in 1 .. Len(s.cus) :
           NoneUpTo(IF s.cus[i] = NoCU THEN NumCUs ELSE s.cus[i] - 1, s.addr)
    BY <1>1 DEF Sound, Swept
  <2>4. s.alone /\ broken = 0 /\ s.query.kind = "linetoaddr" =>
           s.addr = FirstFrom(s.from, s.query.arg)
    <3> SUFFICES ASSUME s.alone, broken = 0, s.query.kind = "linetoaddr"
                 PROVE  s.addr = FirstFrom(s.from, s.query.arg)
      OBVIOUS
    <3>1. cursor = NumCUs
      BY <1>2, <1>6, CursorMoves
    <3>2. /\ s.addr = NoAddr
          /\ \A u \in CUs : s.from < u /\ u <= cursor => lineaddr[u][s.query.arg] = NoAddr
      BY <1>1, <1>2 DEF Sound, LineSwept
    <3>3. \A u \in CUs : ~(u > s.from /\ lineaddr[u][s.query.arg] # NoAddr)
      <4>1. s.from \in Nat
        BY <1>1, <1>4 DEF ClientState
      <4> QED
        BY <1>4, <3>1, <3>2, <4>1 DEF CUs
    <3> QED
      BY <3>2, <3>3 DEF FirstFrom
  <2> QED
    BY <1>1, <1>2, <1>6, <2>1, <2>2, <2>3, <2>4, CursorMoves, EndKeeps
<1>7. CASE Result # "OK" /\ In(c, "cu") /\ EndLoop(c, [s EXCEPT !.cus = Append(@, NoCU)])
  <2> DEFINE n == [s EXCEPT !.cus = Append(@, NoCU)]
  <2>1. broken = 0 /\ cursor = NumCUs /\ cursor' = 0
    BY <1>1, <1>2, <1>3, <1>7, CursorMoves DEF Sound, Stuck, Next1
  <2>2. /\ n \in ClientState /\ n.todo = s.todo /\ n.query = s.query
        /\ n.from = s.from /\ n.alone = s.alone /\ n.addr = s.addr
        /\ \A i \in 1 .. Len(n.cus) :
             n.cus[i] = NoCU \/ (i \in 1 .. Len(s.cus) /\ n.cus[i] = s.cus[i])
    BY <1>1, OneMore
  <2>3. EndLoop(c, n)
    BY <1>7
  <2> HIDE DEF n
  <2>4. Found(n)
    BY <1>1, <2>2 DEF Sound, Found
  <2>5. s.alone => NoneUpTo(NumCUs, s.addr)
    BY <1>1, <1>2, <1>3, <1>7, <2>1 DEF Sound, Swept, Next1
  <2>6. n.alone => \A i \in 1 .. Len(n.cus) :
           NoneUpTo(IF n.cus[i] = NoCU THEN NumCUs ELSE n.cus[i] - 1, n.addr)
    BY <1>1, <2>2, <2>5 DEF Sound, Swept
  <2>7. s.query.kind # "linetoaddr"
    BY <1>1, <1>3, <1>7, Ahead DEF Sound
  <2>8. s.todo[1] # "reset"
    BY <1>3, <1>7
  <2> QED
    BY <1>1, <1>2, <1>4, <2>1, <2>2, <2>3, <2>4, <2>6, <2>7, <2>8, EndKeeps
<1> QED
  BY <1>5, <1>6, <1>7 DEF Header

(* The first unit after k with the line decides where linetoaddr finds it. *)
LEMMA FirstFromIs ==
  ASSUME NEW k, NEW l, NEW v \in CUs, v > k, lineaddr[v][l] # NoAddr,
         \A u \in CUs : k < u /\ u < v => lineaddr[u][l] = NoAddr, k \in Int
  PROVE  FirstFrom(k, l) = lineaddr[v][l]
<1> DEFINE has == {u \in CUs : u > k /\ lineaddr[u][l] # NoAddr}
<1>1. v \in has /\ \A u \in has : v <= u
  BY SessionAssumption DEF CUs
<1>2. \A u \in has : u \in Int
  BY SessionAssumption DEF CUs
<1> DEFINE w == CHOOSE u \in has : \A x \in has : u <= x
<1>3. w \in has /\ \A x \in has : w <= x
  BY <1>1
<1>4. w = v
  <2> HIDE DEF w, has
  <2> QED
    BY <1>1, <1>2, <1>3
<1> QED
  BY <1>1, <1>4 DEF FirstFrom

LEMMA LineDiesKeeps ==
  ASSUME IInv, NEW c \in Clients, LineDies(c)
  PROVE  IInv'
<1> DEFINE s == st[c]
           l == s.query.arg
           a == IF cursor = 0 THEN NoAddr ELSE lineaddr[cursor][l]
<1>1. /\ Busy(c) /\ s.todo # <<>> /\ s.todo[1] = "line"
      /\ s \in ClientState /\ Sound(c) /\ cursor \in 0 .. NumCUs
      /\ broken # 0 => cursor < broken
  BY InLoop DEF LineDies
<1>2. UNCHANGED <<cursor, broken, asked>> /\ s.at = "dies"
  BY DEF LineDies
<1>3. l \in SrcLines /\ s.cus = <<>>
  BY <1>1, Ahead DEF Sound
<1>4. NumCUs \in Nat /\ (cursor # 0 => cursor \in CUs)
  BY <1>1, SessionAssumption DEF CUs
<1>5. a \in Addrs \cup {NoAddr}
  BY <1>3, <1>4, SessionAssumption
<1>6. s.from \in Nat
  BY <1>1, <1>4 DEF ClientState
<1>7. s.alone /\ broken = 0 /\ s.query.kind = "linetoaddr" =>
        /\ s.from <= cursor - 1
        /\ \A u \in CUs : s.from < u /\ u <= cursor - 1 => lineaddr[u][l] = NoAddr
  BY <1>1, <1>2 DEF Sound, LineSwept, Searched
<1>8. CASE a # NoAddr /\ EndLoop(c, [s EXCEPT !.addr = a])
  <2> DEFINE n == [s EXCEPT !.addr = a]
  <2>1. /\ n \in ClientState /\ n.todo = s.todo /\ n.query = s.query
        /\ n.from = s.from /\ n.alone = s.alone /\ n.addr = a /\ n.cus = s.cus
    BY <1>1, <1>5 DEF ClientState
  <2>2. EndLoop(c, n)
    BY <1>8
  <2>3. cursor \in CUs /\ a = lineaddr[cursor][l] /\ a # NoAddr
    BY <1>4, <1>8
  <2> HIDE DEF n, a
  <2>4. Found(n) /\ Len(n.cus) = 0
    BY <1>3, <2>1 DEF Found
  <2>5. s.alone /\ broken = 0 /\ s.query.kind = "linetoaddr" => a = FirstFrom(s.from, l)
    <3> SUFFICES ASSUME s.alone, broken = 0, s.query.kind = "linetoaddr"
                 PROVE  a = FirstFrom(s.from, l)
      OBVIOUS
    <3>1. cursor > s.from /\ \A u \in CUs : s.from < u /\ u < cursor => lineaddr[u][l] = NoAddr
      BY <1>1, <1>4, <1>6, <1>7 DEF CUs
    <3> QED
      BY <1>6, <2>3, <3>1, FirstFromIs
  <2>6. n.todo[1] # "reset" /\ n.alone = st[c].alone /\ n.query = st[c].query
    BY <1>1, <2>1
  <2>7. cursor' \in 0 .. NumCUs /\ (broken # 0 => cursor' < broken) /\ (broken # 0 => n.cus = <<>>)
    BY <1>1, <1>2, <1>3, <2>1
  <2>8. \A i \in 1 .. Len(n.cus) :
          NoneUpTo(IF n.cus[i] = NoCU THEN NumCUs ELSE n.cus[i] - 1, n.addr)
    BY <2>4
  <2>9. n.alone /\ broken = 0 /\ n.query.kind = "linetoaddr" =>
          n.addr = FirstFrom(n.from, n.query.arg)
    BY <2>1, <2>5
  <2> QED
    BY <1>1, <1>2, <2>1, <2>2, <2>4, <2>6, <2>7, <2>8, <2>9, EndKeeps
<1>9. CASE a = NoAddr /\ GoTo(c, "header")
  <2>1. s.alone /\ broken = 0 /\ s.query.kind = "linetoaddr" =>
          /\ s.from <= cursor
          /\ \A u \in CUs : s.from < u /\ u <= cursor => lineaddr[u][l] = NoAddr
    <3> SUFFICES ASSUME s.alone, broken = 0, s.query.kind = "linetoaddr"
                 PROVE  /\ s.from <= cursor
                        /\ \A u \in CUs : s.from < u /\ u <= cursor => lineaddr[u][l] = NoAddr
      OBVIOUS
    <3>1. cursor # 0 /\ lineaddr[cursor][l] = NoAddr
      BY <1>1, <1>6, <1>7, <1>9
    <3>2. \A u \in CUs : u <= cursor => u <= cursor - 1 \/ u = cursor
      BY <1>1, <1>4 DEF CUs
    <3> QED
      BY <1>1, <1>6, <1>7, <3>1, <3>2
  <2>2. s.todo[1] # "cu"
    BY <1>1
  <2> QED
    BY <1>1, <1>2, <1>9, <2>1, <2>2, GoToKeeps
<1> QED
  BY <1>8, <1>9 DEF LineDies

LEMMA CuDiesKeeps ==
  ASSUME IInv, NEW c \in Clients, CuDies(c)
  PROVE  IInv'
<1> DEFINE s == st[c]
<1>1. /\ Busy(c) /\ s.todo # <<>> /\ s.todo[1] = "cu"
      /\ s \in ClientState /\ Sound(c) /\ cursor \in 0 .. NumCUs
      /\ broken # 0 => cursor < broken
  BY InLoop DEF CuDies
<1>2. UNCHANGED <<cursor, broken, asked>> /\ s.at = "dies"
  BY DEF CuDies
<1>3. s.query.kind # "linetoaddr" /\ broken = 0
  BY <1>1, Ahead DEF Sound, Stuck, Next1
<1>4. s.alone => 0 <= cursor - 1 /\ NoneUpTo(cursor - 1, s.addr)
  BY <1>1, <1>2 DEF Sound, Swept, Next1, Searched
<1>5. NumCUs \in Nat /\ (cursor # 0 => cursor \in CUs)
  BY <1>1, SessionAssumption DEF CUs
<1>6. CASE /\ cursor # 0 /\ Contains(cursor, s.addr)
           /\ EndLoop(c, [s EXCEPT !.cus = Append(@, cursor)])
  <2> DEFINE n == [s EXCEPT !.cus = Append(@, cursor)]
  <2>1. /\ n \in ClientState /\ n.todo = s.todo /\ n.query = s.query
        /\ n.from = s.from /\ n.alone = s.alone /\ n.addr = s.addr
        /\ \A i \in 1 .. Len(n.cus) :
             n.cus[i] = cursor \/ (i \in 1 .. Len(s.cus) /\ n.cus[i] = s.cus[i])
    BY <1>1, <1>5, <1>6, OneMore
  <2>2. EndLoop(c, n)
    BY <1>6
  <2> HIDE DEF n
  <2>3. cursor \in CUs /\ Contains(cursor, s.addr) /\ cursor # NoCU
    BY <1>5, <1>6 DEF CUs, NoCU
  <2>4. Found(n)
    BY <1>1, <2>1, <2>3 DEF Sound, Found
  <2>5. n.alone => \A i \in 1 .. Len(n.cus) :
           NoneUpTo(IF n.cus[i] = NoCU THEN NumCUs ELSE n.cus[i] - 1, n.addr)
    BY <1>1, <1>4, <2>1, <2>3 DEF Sound, Swept
  <2>6. n.todo[1] # "reset" /\ n.query.kind # "linetoaddr"
    BY <1>1, <1>3, <2>1
  <2>7. cursor' \in 0 .. NumCUs
    BY <1>1, <1>2
  <2> QED
    BY <1>1, <1>2, <1>3, <2>1, <2>2, <2>4, <2>5, <2>6, <2>7, EndKeeps
<1>7. CASE ~(cursor # 0 /\ Contains(cursor, s.addr)) /\ GoTo(c, "header")
  <2>1. s.alone => 0 <= cursor /\ NoneUpTo(cursor, s.addr)
    <3> SUFFICES ASSUME s.alone, NEW u \in CUs, u <= cursor PROVE ~Contains(u, s.addr)
      BY <1>1 DEF NoneUpTo
    <3>1. u <= cursor - 1 \/ u = cursor
      BY <1>1, <1>5 DEF CUs
    <3>2. CASE u <= cursor - 1
      BY <1>4, <3>2 DEF NoneUpTo
    <3>3. CASE u = cursor
      BY <1>5, <1>7, <3>3 DEF CUs
    <3> QED
      BY <3>1, <3>2, <3>3
  <2> QED
    BY <1>1, <1>2, <1>3, <1>7, <2>1, GoToKeeps
<1> QED
  BY <1>6, <1>7 DEF CuDies

LEMMA DumpDiesKeeps ==
  ASSUME IInv, NEW c \in Clients, DumpDies(c)
  PROVE  IInv'
<1>1. /\ Busy(c) /\ st[c].todo # <<>> /\ st[c].todo[1] = "dump"
      /\ st[c] \in ClientState /\ Sound(c) /\ cursor \in 0 .. NumCUs
      /\ broken # 0 => cursor < broken
  BY InLoop DEF DumpDies
<1>2. st[c].query.kind # "linetoaddr"
  BY <1>1, Ahead DEF Sound
<1> QED
  BY <1>1, <1>2, GoToKeeps DEF DumpDies

LEMMA GiveUpKeeps ==
  ASSUME IInv, NEW c \in Clients, GiveUp(c)
  PROVE  IInv'
<1>1. Busy(c) /\ st' = [st EXCEPT ![c] = Idle] /\ UNCHANGED <<cursor, broken, asked>>
  BY DEF GiveUp
<1>2. cursor' \in 0 .. NumCUs /\ (broken # 0 => cursor' < broken)
  BY <1>1 DEF IInv, TypeOK
<1> QED
  BY <1>1, <1>2, IdleIs, StepFrame

LEMMA AskKeeps ==
  ASSUME IInv, NEW c \in Clients, NEW q \in Queries, Ask(c, q)
  PROVE  IInv'
<1> DEFINE todo == LoopsOf(q.kind)
           addr == IF q.kind \in {"scope", "inspect"} THEN q.arg ELSE NoAddr
           from == IF q.kind = "linetoaddr" THEN cursor ELSE 0
           alone == \A x \in Clients \ {c} : ~Busy(x)
           n == [todo |-> todo, at |-> "header", addr |-> addr, cus |-> <<>>,
                 query |-> q, from |-> from, alone |-> alone]
           hurt(b) == [st[b] EXCEPT !.alone = FALSE]
<1>1. /\ UNCHANGED <<cursor, broken>> /\ asked' \in 0 .. MaxQueries
      /\ cursor \in 0 .. NumCUs /\ broken \in 0 .. NumCUs /\ NumCUs \in Nat
      /\ broken # 0 => cursor < broken
  BY SessionAssumption DEF Ask, IInv, TypeOK
<1>2. /\ st'[c] = n
      /\ \A b \in Clients \ {c} : st'[b] = IF Busy(b) THEN hurt(b) ELSE st[b]
      /\ st' = [b \in Clients |-> IF b = c THEN n ELSE IF Busy(b) THEN hurt(b) ELSE st[b]]
  BY DEF Ask
<1>3. /\ todo \in Seq(Loops) /\ Len(todo) \in Nat \ {0}
      /\ todo[1] # "cu" /\ todo # <<>>
  BY QueryType, PlanShape, EmptySeq
<1>4. n \in ClientState
  <2>1. addr \in Addrs \cup {NoAddr} /\ from \in 0 .. NumCUs
    BY <1>1, QueryType
  <2>2. alone \in BOOLEAN /\ <<>> \in Seq(CUs \cup {NoCU})
    OBVIOUS
  <2> HIDE DEF todo, addr, from, alone
  <2> QED
    BY <1>3, <2>1, <2>2 DEF ClientState
<1>5. /\ n.todo = todo /\ n.at = "header" /\ n.addr = addr /\ n.cus = <<>>
      /\ n.query = q /\ n.from = from /\ n.alone = alone
  OBVIOUS
<1> HIDE DEF n
<1>6. ASSUME NEW b \in Clients
      PROVE  /\ st[b] \in ClientState /\ Sound(b)
             /\ hurt(b) \in ClientState /\ hurt(b).todo = st[b].todo /\ hurt(b).at = st[b].at
             /\ hurt(b).query = st[b].query /\ hurt(b).cus = st[b].cus
             /\ hurt(b).addr = st[b].addr /\ ~hurt(b).alone
  BY DEF IInv, TypeOK, ClientState
<1> HIDE DEF hurt
<1>7. TypeOK'
  <2>1. st' \in [Clients -> ClientState]
    BY <1>2, <1>4, <1>6
  <2>2. \A b \in Clients : st'[b].at = "dies" =>
          st'[b].todo # <<>> /\ Head(st'[b].todo) \in {"line", "cu", "dump"}
    BY <1>2, <1>5, <1>6 DEF IInv, TypeOK, In, Busy
  <2> QED
    BY <1>1, <2>1, <2>2 DEF IInv, TypeOK, In, Busy
<1>8. Sound(c)'
  <2>1. Following(n)
    <3>1. \A i \in 1 .. Len(todo) : Len(todo) - Len(todo) + i = i
      BY <1>3
    <3> QED
      BY <1>3, <1>5, <3>1 DEF Following
  <2>2. Found(n) /\ (broken' # 0 => ~Next1(n, "cu") /\ n.cus = <<>>)
    BY <1>3, <1>5 DEF Found, Next1
  <2>3. Swept(n, cursor')
    BY <1>3, <1>5 DEF Swept, Next1
  <2>4. LineSwept(n, cursor')
    <3>1. q.kind = "linetoaddr" => n.from = cursor /\ n.addr = NoAddr
      BY <1>5
    <3>2. Searched(n, cursor') = cursor
      BY <1>1, <1>5 DEF Searched
    <3>3. \A u \in CUs : ~(cursor < u /\ u <= cursor)
      BY <1>1 DEF CUs
    <3> QED
      BY <1>1, <1>3, <1>5, <3>1, <3>2, <3>3 DEF LineSwept, Searched
  <2>5. n.alone => \A b \in Clients \ {c} : st'[b].todo = <<>>
    BY <1>2, <1>5 DEF Busy
  <2> QED
    BY <1>2, <2>1, <2>2, <2>3, <2>4, <2>5 DEF Sound, Stuck, Alone, Busy
<1>9. ASSUME NEW b \in Clients \ {c} PROVE Sound(b)'
  <2>1. CASE Busy(b)
    <3>1. st'[b] = hurt(b) /\ ~hurt(b).alone /\ broken' = broken
      BY <1>1, <1>2, <1>6, <2>1
    <3>2. Following(st[b]) /\ Found(st[b]) /\ Stuck(st[b])
      BY <1>6 DEF Sound
    <3>3. /\ Following(hurt(b)) /\ Found(hurt(b))
          /\ broken' # 0 => ~Next1(hurt(b), "cu") /\ hurt(b).cus = <<>>
      BY <1>6, <3>1, <3>2 DEF Following, Found, Stuck, Next1
    <3> QED
      BY <3>1, <3>3 DEF Sound, Stuck
  <2>2. CASE ~Busy(b)
    <3>1. st'[b] = st[b] /\ UNCHANGED <<cursor, broken>> /\ Sound(b)
      BY <1>1, <1>2, <1>6, <2>2
    <3> QED
      BY <2>2, <3>1 DEF Sound, Busy, Stuck
  <2> QED
    BY <2>1, <2>2
<1> QED
  BY <1>1, <1>7, <1>8, <1>9 DEF IInv

LEMMA NextKeeps == IInv /\ [Next]_vars => IInv'
<1> SUFFICES ASSUME IInv, [Next]_vars PROVE IInv'
  OBVIOUS
<1>1. ASSUME NEW c \in Clients, NEW q \in Queries, Ask(c, q) PROVE IInv'
  BY <1>1, AskKeeps
<1>2. ASSUME NEW c \in Clients, Step(c) PROVE IInv'
  BY <1>2, ResetKeeps, HeaderKeeps, LineDiesKeeps, CuDiesKeeps, DumpDiesKeeps DEF Step
<1>3. ASSUME NEW c \in Clients, GiveUp(c) PROVE IInv'
  BY <1>3, GiveUpKeeps
<1>4. CASE UNCHANGED vars
  BY <1>4 DEF vars, IInv, TypeOK, In, Busy, Sound, Stuck, Alone
<1> QED
  BY <1>1, <1>2, <1>3, <1>4 DEF Next

-----------------------------------------------------------------------------
(* What every query has left to do, has searched and has found, whatever   *)
(* the other clients do with the one cursor (dwarfclient.c:539-570).       *)
THEOREM Invariant == Spec => []IInv
  BY InitIInv, NextKeeps, PTL DEF Spec

(* Every variable has its type, and a client is at the dies of a unit only *)
(* in a loop that looks at dies.                                           *)
THEOREM TypeCorrect == Spec => []TypeOK
<1>1. IInv => TypeOK
  BY DEF IInv
<1> QED
  BY <1>1, Invariant, PTL

LEMMA AddrIsInt ==
  ASSUME NEW s \in ClientState
  PROVE  s.addr \in Int
<1>1. s.addr \in Addrs \cup {NoAddr}
  BY DEF ClientState
<1>2. Addrs \subseteq Nat /\ NoAddr \in Int
  BY SessionAssumption
<1>3. \A a \in Addrs \cup {NoAddr} : a \in Int
  BY <1>2
<1> QED
  BY <1>1, <1>3

LEMMA HomeIs ==
  ASSUME NEW a \in Int, NEW u \in CUs
  PROVE  Contains(u, a) <=> HasPC(u) /\ u \in Home(a) \cup Ending(a)
<1>1. /\ low[u] \in Nat /\ high[u] \in Nat
      /\ HasPC(u) => code[u] = low[u] .. (high[u] - 1)
  BY SessionAssumption DEF HasPC
<1> QED
  BY <1>1 DEF Contains, Ending, Home, HasPC

(* A query about an address that runs alone finds the unit the address     *)
(* belongs to, whatever was asked, given up or interleaved before it       *)
(* began, or the one that ends right before it, and none only if no unit   *)
(* with a low_pc has the address (dwarfclient.c:487-532, 560-568,          *)
(* 953-1029).                                                              *)
THEOREM QueriesFindTheirUnit == Spec => []AddressFound
<1>1. IInv => AddressFound
  <2> SUFFICES ASSUME IInv, NEW c \in Clients, Done(c), NEW i \in DOMAIN st[c].cus
               PROVE  IF st[c].cus[i] = NoCU
                      THEN \A u \in Home(st[c].addr) : ~HasPC(u)
                      ELSE st[c].cus[i] \in Home(st[c].addr) \cup Ending(st[c].addr)
    BY DEF AddressFound
  <2>1. /\ st[c] \in ClientState /\ Found(st[c]) /\ Swept(st[c], cursor)
        /\ st[c].addr \in Int
    <3>1. st[c] \in ClientState /\ Sound(c) /\ st[c].alone
      BY DEF IInv, TypeOK, Done
    <3> QED
      BY <3>1, AddrIsInt DEF Sound
  <2>2. i \in 1 .. Len(st[c].cus)
    BY <2>1, LenProperties DEF ClientState
  <2>3. CASE st[c].cus[i] = NoCU
    <3>1. \A u \in CUs : ~Contains(u, st[c].addr)
      BY <2>1, <2>2, <2>3, SessionAssumption DEF Swept, NoneUpTo, CUs
    <3>2. \A u \in Home(st[c].addr) : ~HasPC(u)
      BY <2>1, <3>1, HomeIs DEF Home
    <3> QED
      BY <2>3, <3>2
  <2>4. CASE st[c].cus[i] # NoCU
    BY <2>1, <2>2, <2>4, HomeIs DEF Found
  <2> QED
    BY <2>3, <2>4
<1> QED
  BY <1>1, Invariant, PTL

(* Units whose code overlaps are two answers to one question; if none do,  *)
(* the two halves of inspect look in the same unit or one finds none, also *)
(* if other clients move the cursor (dwarfclient.c:953-1029).              *)
UnitsDisjoint ==
  \A u, v \in CUs :
    u # v /\ HasPC(u) /\ HasPC(v) => high[u] <= low[v] \/ high[v] <= low[u]

THEOREM HalvesLookInOneUnit ==
  ASSUME UnitsDisjoint
  PROVE  Spec => []HalvesAgree
<1>1. IInv => HalvesAgree
  <2> SUFFICES ASSUME IInv, NEW c \in Clients, Len(st[c].cus) = 2, Ending(st[c].addr) = {},
                      st[c].cus[1] # st[c].cus[2]
               PROVE  NoCU \in {st[c].cus[1], st[c].cus[2]} /\ ~st[c].alone
    BY DEF HalvesAgree
  <2> DEFINE u == st[c].cus[1]
             v == st[c].cus[2]
             a == st[c].addr
  <2>1. /\ st[c] \in ClientState /\ Found(st[c]) /\ (st[c].alone => Swept(st[c], cursor))
        /\ a \in Int
    <3>1. st[c] \in ClientState /\ Sound(c)
      BY DEF IInv, TypeOK
    <3> QED
      BY <3>1, AddrIsInt DEF Sound
  <2>2. /\ u # NoCU => u \in CUs /\ Contains(u, a)
        /\ v # NoCU => v \in CUs /\ Contains(v, a)
    BY <2>1 DEF Found
  <2>3. NoCU \in {u, v}
    <3> SUFFICES ASSUME u # NoCU, v # NoCU PROVE FALSE
      OBVIOUS
    <3>1. /\ u \in CUs /\ v \in CUs /\ u # v
          /\ Contains(u, a) /\ Contains(v, a)
          /\ u \notin Ending(a) /\ v \notin Ending(a)
      BY <2>1, <2>2
    <3>2. low[u] \in Nat /\ high[u] \in Nat /\ low[v] \in Nat /\ high[v] \in Nat
      BY <3>1, SessionAssumption
    <3>3. /\ low[u] <= a /\ a < high[u] /\ low[v] <= a /\ a < high[v]
          /\ HasPC(u) /\ HasPC(v)
      <4> HIDE DEF u, v, a
      <4> QED
        BY <2>1, <3>1, <3>2 DEF Contains, Ending
    <3> HIDE DEF u, v, a
    <3> QED
      BY <2>1, <3>1, <3>2, <3>3 DEF UnitsDisjoint
  <2>4. ~st[c].alone
    <3> SUFFICES ASSUME st[c].alone PROVE FALSE
      OBVIOUS
    <3>1. /\ u = NoCU => NoneUpTo(NumCUs, a)
          /\ v = NoCU => NoneUpTo(NumCUs, a)
      BY <2>1 DEF Swept
    <3>2. \A w \in CUs : ~Contains(w, a)
      BY <2>3, <3>1, SessionAssumption DEF NoneUpTo, CUs
    <3> QED
      BY <2>2, <2>3, <3>2
  <2> QED
    BY <2>3, <2>4
<1> QED
  BY <1>1, Invariant, PTL

(* A query about a line that runs alone answers for the units after the    *)
(* place its predecessors left the cursor at (dwarfclient.c:780-811).      *)
THEOREM LinesAreSearchedFromTheCursor == Spec => []LineFromCursor
<1>1. IInv => LineFromCursor
  BY DEF IInv, Sound, LineSwept, LineFromCursor, Done, Busy
<1> QED
  BY <1>1, Invariant, PTL

(* Every query but linetoaddr that has run alone to its end leaves the     *)
(* cursor at the start (dwarfclient.c:857, 870, 883, 962, 1002).           *)
THEOREM CursorIsTakenHome == Spec => CursorHome
<1> DEFINE A == \A c \in Clients :
                  Busy(c) /\ ~Busy(c)' /\ Done(c)' /\ broken = 0
                  /\ st[c].query.kind # "linetoaddr" => cursor' = 0
<1>1. IInv /\ [Next]_vars => A
  <2> SUFFICES ASSUME IInv, [Next]_vars, NEW c \in Clients,
                      Busy(c), st'[c].todo = <<>>, st'[c].alone, broken = 0,
                      st[c].query.kind # "linetoaddr"
               PROVE  cursor' = 0
    BY DEF Done, Busy
  <2>1. st[c] \in ClientState /\ Following(st[c]) /\ st[c].todo # <<>> /\ st'[c] # st[c]
    BY DEF IInv, TypeOK, Sound, Busy
  <2>2. ASSUME NEW b \in Clients, NEW q \in Queries, Ask(b, q) PROVE FALSE
    BY <2>1, <2>2 DEF Ask, Busy
  <2>3. ASSUME NEW b \in Clients, GiveUp(b) PROVE FALSE
    BY <2>1, <2>3, IdleIs DEF GiveUp, IInv, TypeOK
  <2>4. ASSUME NEW b \in Clients, Step(b) PROVE cursor' = 0
    <3>1. b = c
      BY <2>1, <2>4 DEF Step, Reset, Header, LineDies, CuDies, DumpDies, EndLoop, GoTo, IInv, TypeOK
    <3>2. ASSUME NEW s \in ClientState, s.todo = st[c].todo, EndLoop(c, s)
          PROVE  st[c].todo[1] \in {"reset", "dump"}
      <4>1. st'[c].todo = Tail(st[c].todo)
        BY <3>2 DEF EndLoop, IInv, TypeOK, ClientState
      <4> QED
        BY <2>1, <4>1, Ahead
    <3>3. ASSUME NEW at, GoTo(c, at) PROVE FALSE
      BY <2>1, <3>3 DEF GoTo, IInv, TypeOK, ClientState
    <3>4. CASE Reset(c)
      BY <2>1, <3>4, CursorMoves DEF Reset
    <3>5. CASE Header(c)
      BY <2>1, <3>3, <3>5, CursorMoves DEF Header
    <3>6. CASE LineDies(c) \/ CuDies(c) \/ DumpDies(c)
      <4>1. ASSUME NEW s \in ClientState, s.todo = st[c].todo, EndLoop(c, s),
                   st[c].todo[1] \in {"line", "cu"}
            PROVE  FALSE
        BY <3>2, <4>1
      <4>2. CASE LineDies(c)
        <5> DEFINE a == IF cursor = 0 THEN NoAddr ELSE lineaddr[cursor][st[c].query.arg]
        <5>1. st[c].todo[1] = "line" /\ cursor \in 0 .. NumCUs
          BY <4>2, InLoop DEF LineDies
        <5>2. a \in Addrs \cup {NoAddr}
          <6>1. st[c].query.arg \in SrcLines
            BY <2>1, <5>1, Ahead
          <6>2. cursor # 0 => cursor \in CUs
            BY <5>1, SessionAssumption DEF CUs
          <6> QED
            BY <6>1, <6>2, SessionAssumption
        <5>3. \/ EndLoop(c, [st[c] EXCEPT !.addr = a])
              \/ GoTo(c, "header")
          BY <4>2 DEF LineDies
        <5> HIDE DEF a
        <5>4. /\ [st[c] EXCEPT !.addr = a] \in ClientState
              /\ [st[c] EXCEPT !.addr = a].todo = st[c].todo
          BY <2>1, <5>2 DEF ClientState
        <5> QED
          BY <3>3, <4>1, <5>1, <5>3, <5>4
      <4>3. CASE CuDies(c)
        <5>1. st[c].todo[1] = "cu" /\ cursor \in 0 .. NumCUs
          BY <4>3, InLoop DEF CuDies
        <5>2. \/ cursor # 0 /\ EndLoop(c, [st[c] EXCEPT !.cus = Append(@, cursor)])
              \/ GoTo(c, "header")
          BY <4>3 DEF CuDies
        <5>3. cursor # 0 => cursor \in CUs
          BY <5>1, SessionAssumption DEF CUs
        <5> QED
          BY <2>1, <3>3, <4>1, <5>1, <5>2, <5>3, OneMore
      <4>4. CASE DumpDies(c)
        BY <3>3, <4>4 DEF DumpDies
      <4> QED
        BY <3>6, <4>2, <4>3, <4>4
    <3> QED
      BY <2>4, <3>1, <3>4, <3>5, <3>6 DEF Step
  <2> QED
    BY <2>1, <2>2, <2>3, <2>4 DEF Next, vars
<1>2. CursorHome <=> [][A]_vars
  BY DEF CursorHome
<1>3. IInv /\ [Next]_vars => [A]_vars
  BY <1>1
<1> HIDE DEF A
<1> QED
  BY <1>2, <1>3, Invariant, PTL DEF Spec
=============================================================================
