---------------------------- MODULE InspectProofs ----------------------------
(***************************************************************************)
(* Proofs about Inspect: what ScopeLookupProofs shows of one walk holds of *)
(* the command's walks, and what the command prints in the end.            *)
(***************************************************************************)
EXTENDS Inspect, ScopeLookupProofs

(* What holds of the walk, whichever of the command's two it is.           *)
WalkInv == IInv /\ FoundInv /\ AllApart(todo) /\ ShownInv /\ TypesInv /\ EndInv

LEMMA InitWalk ==
  ASSUME Init
  PROVE  WalkInv
<1>1. IInv
  BY InitIInv
<1>2. FoundInv
  BY <1>1, NothingFoundYet DEF Init, IInv
<1>3. AllApart(todo) /\ ShownInv
  BY StartPending, NothingShownYet DEF Init
<1>4. TypesInv /\ EndInv
  BY DEF Init, TypesInv, EndInv
<1> QED
  BY <1>1, <1>2, <1>3, <1>4 DEF WalkInv

LEMMA NextKeepsWalk ==
  ASSUME ProperUnits, TypesEnd, WalkInv, [Next]_vars
  PROVE  WalkInv'
BY NextKeepsIInv, NextKeepsFoundInv, NextKeepsApart, NextKeepsShown, NextKeepsTypes,
   NextKeepsEnd DEF WalkInv

(* A second walk begins as the first did.                                  *)
LEMMA AtTheStart ==
  TypeOK /\ Asked /\ todo = Start /\ v = NoDie /\ state = "walk" /\ kind = "type" => WalkInv
<1> SUFFICES ASSUME TypeOK, Asked, todo = Start, v = NoDie, state = "walk", kind = "type"
             PROVE  WalkInv
  OBVIOUS
<1> DEFINE c == [die |-> 1, enclosing |-> FALSE]
<1>1. Calls(todo) = {c}
  <2> HIDE DEF c
  <2>1. Len(<<c>>) = 1 /\ <<c>>[1] = c
    OBVIOUS
  <2>2. todo = <<c>>
    BY DEF Start, c
  <2> QED
    BY <2>1, <2>2 DEF Calls
<1>2. Told
  BY <1>1 DEF Told
<1>3. FoundInv /\ AllApart(todo)
  BY NothingFoundYet, StartPending
<1>4. ShownInv /\ TypesInv /\ EndInv
  BY DEF ShownInv, TypesInv, EndInv, Listings
<1> QED
  BY <1>2, <1>3, <1>4 DEF WalkInv, IInv

LEMMA SearchTypeKeepsWalk ==
  ASSUME IInv, SearchType
  PROVE  WalkInv'
<1>1. /\ UNCHANGED <<unit, addr, varname, res, shown>>
      /\ kind' = "type" /\ todo' = Start /\ v' = NoDie /\ state' = "walk"
  BY DEF SearchType
<1>2. Asked'
  BY <1>1 DEF IInv, Asked
<1>3. Start \in Seq(Visits)
  <2> DEFINE c == [die |-> 1, enclosing |-> FALSE]
  <2>1. c \in Visits /\ Start = <<c>>
    BY AskedFacts DEF IInv, Visits, Start
  <2> HIDE DEF c
  <2> QED
    BY <2>1
<1>4. TypeOK'
  BY <1>1, <1>3 DEF IInv, TypeOK, Visits, Dies, Searches, States
<1>5. (TypeOK /\ Asked /\ todo = Start /\ v = NoDie /\ state = "walk" /\ kind = "type"
         => WalkInv)'
  BY AtTheStart, PTL
<1>6. Start' = Start /\ NoDie' = NoDie
  BY DEF Start
<1> QED
  BY <1>1, <1>2, <1>4, <1>5, <1>6

LEMMA StepKeepsWalk ==
  ASSUME ProperUnits, TypesEnd, WalkInv, [InspectNext]_inspectVars
  PROVE  WalkInv'
<1>1. CASE Search
  BY <1>1, NextKeepsWalk DEF Search
<1>2. CASE SearchType
  BY <1>2, SearchTypeKeepsWalk DEF WalkInv
<1>3. CASE UNCHANGED vars
  BY <1>3, NextKeepsWalk
<1>4. DecodeLocation \/ Decode \/ ShowBytes \/ UNCHANGED inspectVars => UNCHANGED vars
  BY DEF DecodeLocation, Decode, ShowBytes, inspectVars
<1> QED
  BY <1>1, <1>2, <1>3, <1>4 DEF InspectNext

(* Both searches end at the declaration that C means                       *)
(* (dwarfclient.c:570-616, legerdemain.c:120-122).                         *)
THEOREM InspectFindsInnermost ==
  ASSUME ProperUnits, TypesEnd
  PROVE  InspectSpec => []FindsInnermost
<1>1. InspectInit => WalkInv
  BY InitWalk DEF InspectInit
<1>2. WalkInv /\ [InspectNext]_inspectVars => WalkInv'
  BY StepKeepsWalk
<1>3. WalkInv => FindsInnermost
  BY FoundIsInnermost DEF WalkInv
<1> QED
  BY <1>1, <1>2, <1>3, PTL DEF InspectSpec

(* The lists of variables and of scopes have what C sees                   *)
(* (dwarfclient.c:636-690, 699-767, 895-951).                              *)
THEOREM InspectListsVisible ==
  ASSUME ProperUnits, TypesEnd
  PROVE  InspectSpec => []ListsVisible
<1>1. InspectInit => WalkInv
  BY InitWalk DEF InspectInit
<1>2. WalkInv /\ [InspectNext]_inspectVars => WalkInv'
  BY StepKeepsWalk
<1>3. WalkInv => ListsVisible
  BY ListIsVisible DEF WalkInv
<1> QED
  BY <1>1, <1>2, <1>3, PTL DEF InspectSpec

-----------------------------------------------------------------------------
(* Induction, one number at a time: P is a set of numbers.                 *)
LEMMA OneByOne ==
  ASSUME NEW N \in Nat, NEW P, 0 \in P, \A n \in 1 .. N : n - 1 \in P => n \in P
  PROVE  \A n \in 0 .. N : n \in P
<1> DEFINE Bad == {n \in 0 .. N : n \notin P}
<1> SUFFICES ASSUME Bad # {} PROVE FALSE
  OBVIOUS
<1>1. Bad \subseteq Nat
  OBVIOUS
<1>2. PICK n \in Bad : \A j \in Bad : n <= j
  <2> HIDE DEF Bad
  <2> QED
    BY <1>1, LeastDie
<1>3. n \in 1 .. N
  OBVIOUS
<1>4. n - 1 \in P
  <2> SUFFICES ASSUME n - 1 \notin P PROVE FALSE
    OBVIOUS
  <2>1. n - 1 \in Bad /\ ~(n <= n - 1)
    BY <1>3
  <2> QED
    BY <1>2, <2>1
<1> QED
  BY <1>3, <1>4

(* A recursion from each number to the next: G is one step, of values V.   *)
Steps(G, N, V) == \A k \in 1 .. N, x \in V : G[<<k, x>>] \in V

Solves(f, G, N, V, base) ==
  /\ f \in [0 .. N -> V]
  /\ f[0] = base
  /\ \A k \in 1 .. N : f[k] = G[<<k, f[k - 1]>>]

LEMMA Recursion ==
  ASSUME NEW N \in Nat, NEW V, NEW base \in V, NEW G, Steps(G, N, V)
  PROVE  \E f : Solves(f, G, N, V, base)
<1> DEFINE P == {n \in 0 .. N : \E f : Solves(f, G, n, V, base)}
<1>1. 0 \in P
  <2> DEFINE f == [k \in 0 .. 0 |-> base]
  <2>1. Solves(f, G, 0, V, base)
    BY DEF Solves
  <2> QED
    BY <2>1
<1>2. ASSUME NEW n \in 1 .. N, n - 1 \in P
      PROVE  n \in P
  <2>1. PICK f : Solves(f, G, n - 1, V, base)
    BY <1>2
  <2> DEFINE g == [k \in 0 .. n |-> IF k = n THEN G[<<n, f[n - 1]>>] ELSE f[k]]
  <2>2. n \in Nat /\ n >= 1 /\ n - 1 \in 0 .. n - 1
    OBVIOUS
  <2>3. \A k \in 0 .. n - 1 : g[k] = f[k] /\ f[k] \in V
    BY <2>1, <2>2 DEF Solves
  <2>4. g[n] = G[<<n, f[n - 1]>>] /\ G[<<n, f[n - 1]>>] \in V
    <3>1. f[n - 1] \in V
      BY <2>2, <2>3
    <3>2. G[<<n, f[n - 1]>>] \in V
      BY <3>1 DEF Steps
    <3> QED
      BY <2>2, <3>2
  <2>5. g \in [0 .. n -> V]
    <3>1. \A k \in 0 .. n : k = n \/ k \in 0 .. n - 1
      BY <2>2
    <3> QED
      BY <2>3, <2>4, <3>1
  <2>6. ASSUME NEW k \in 1 .. n PROVE g[k] = G[<<k, g[k - 1]>>]
    <3>1. k - 1 \in 0 .. n - 1
      BY <2>2
    <3>2. g[k - 1] = f[k - 1]
      BY <2>3, <3>1
    <3>3. CASE k = n
      BY <2>4, <3>2, <3>3
    <3>4. CASE k # n
      <4>1. k \in 1 .. n - 1 /\ k \in 0 .. n - 1
        BY <2>2, <3>4
      <4>2. g[k] = f[k] /\ f[k] = G[<<k, f[k - 1]>>]
        BY <2>1, <2>3, <4>1 DEF Solves
      <4> QED
        BY <3>2, <4>2
    <3> QED
      BY <3>3, <3>4
  <2>7. g[0] = base
    BY <2>1, <2>2, <2>3 DEF Solves
  <2>8. Solves(g, G, n, V, base)
    <3> HIDE DEF g
    <3> QED
      BY <2>5, <2>6, <2>7 DEF Solves
  <2>9. n \in 0 .. N
    OBVIOUS
  <2> HIDE DEF g
  <2> QED
    BY <2>8, <2>9
<1>3. N \in P
  <2> HIDE DEF P
  <2>1. \A n \in 0 .. N : n \in P
    BY <1>1, <1>2, OneByOne
  <2> QED
    BY <2>1
<1> QED
  BY <1>3

-----------------------------------------------------------------------------
(* Machine integers. *)

Widths == /\ IntBits \in Nat \ {0} /\ LongBits \in Nat \ {0} /\ IntBits <= LongBits
          /\ STACK_MAX \in Nat \ {0}

LEMMA WidthsHold == Widths
BY DecoderAssumption DEF D!WidthAssumption, Widths

LEMMA PowerDef ==
  /\ D!Power[0] = 1
  /\ \A k \in 1 .. LongBits : D!Power[k] = 2 * D!Power[k - 1]
<1> DEFINE N == LongBits
           IsPower(p) == p = [k \in 0 .. N |-> IF k = 0 THEN 1 ELSE 2 * p[k - 1]]
           G == [x \in (1 .. N) \X Nat |-> 2 * x[2]]
<1>1. N \in Nat
  BY WidthsHold DEF Widths
<1>2. \A k \in 1 .. N, n \in Nat : G[<<k, n>>] = 2 * n
  OBVIOUS
<1> HIDE DEF G
<1>3. Steps(G, N, Nat)
  <2>1. \A n \in Nat : 2 * n \in Nat
    OBVIOUS
  <2> QED
    BY <1>2, <2>1 DEF Steps
<1>4. PICK f : Solves(f, G, N, Nat, 1)
  BY <1>1, <1>3, Recursion
<1>5. ASSUME NEW k \in 0 .. N PROVE f[k] = IF k = 0 THEN 1 ELSE 2 * f[k - 1]
  <2>1. CASE k = 0
    BY <1>4, <2>1 DEF Solves
  <2>2. CASE k # 0
    <3>1. k \in 1 .. N /\ k - 1 \in 0 .. N
      BY <1>1, <2>2
    <3>2. f[k - 1] \in Nat
      BY <1>4, <3>1 DEF Solves
    <3> QED
      BY <1>2, <1>4, <2>2, <3>1, <3>2 DEF Solves
  <2> QED
    BY <2>1, <2>2
<1>6. IsPower(f)
  <2>1. f = [k \in 0 .. N |-> f[k]]
    BY <1>4 DEF Solves
  <2> QED
    BY <1>5, <2>1
<1>7. IsPower(D!Power)
  <2>1. D!Power = CHOOSE p : IsPower(p)
    BY DEF D!Power
  <2> HIDE DEF IsPower
  <2> QED
    BY <1>6, <2>1
<1>8. ASSUME NEW k \in 0 .. N
      PROVE  D!Power[k] = IF k = 0 THEN 1 ELSE 2 * D!Power[k - 1]
  BY <1>7
<1>9. 0 \in 0 .. N /\ \A k \in 1 .. N : k \in 0 .. N /\ k # 0
  BY <1>1
<1> QED
  BY <1>8, <1>9

LEMMA PowersArePositive ==
  \A k \in 0 .. LongBits : D!Power[k] \in Nat \ {0}
<1> DEFINE P == {k \in 0 .. LongBits : D!Power[k] \in Nat \ {0}}
<1>1. LongBits \in Nat
  BY WidthsHold DEF Widths
<1>2. 0 \in P
  BY <1>1, PowerDef
<1>3. ASSUME NEW n \in 1 .. LongBits, n - 1 \in P
      PROVE  n \in P
  <2>1. D!Power[n] = 2 * D!Power[n - 1] /\ D!Power[n - 1] \in Nat \ {0}
    BY <1>3, PowerDef
  <2> QED
    BY <2>1
<1>4. \A n \in 0 .. LongBits : n \in P
  <2> HIDE DEF P
  <2> QED
    BY <1>1, <1>2, <1>3, OneByOne
<1> QED
  BY <1>4

LEMMA PowersGrow ==
  ASSUME NEW j \in 0 .. LongBits
  PROVE  \A k \in 0 .. LongBits : j <= k => D!Power[j] <= D!Power[k]
<1> DEFINE P == {k \in 0 .. LongBits : j <= k => D!Power[j] <= D!Power[k]}
<1>1. LongBits \in Nat
  BY WidthsHold DEF Widths
<1>2. 0 \in P
  <2>1. D!Power[0] \in Nat
    BY <1>1, PowersArePositive
  <2> QED
    BY <1>1, <2>1
<1>3. ASSUME NEW n \in 1 .. LongBits, n - 1 \in P
      PROVE  n \in P
  <2>1. D!Power[n] = 2 * D!Power[n - 1] /\ D!Power[n - 1] \in Nat /\ D!Power[n] \in Nat
        /\ D!Power[j] \in Nat
    BY <1>3, PowerDef, PowersArePositive
  <2>2. CASE j = n
    BY <2>1, <2>2
  <2>3. CASE j # n
    BY <1>3, <2>1, <2>3
  <2> QED
    BY <2>2, <2>3
<1>4. \A n \in 0 .. LongBits : n \in P
  <2> HIDE DEF P
  <2> QED
    BY <1>1, <1>2, <1>3, OneByOne
<1> QED
  BY <1>4

(* What a conversion to w bits gives, and what it leaves alone.            *)
LEMMA WrapFacts ==
  ASSUME NEW w \in 1 .. LongBits, NEW x \in Int
  PROVE  /\ D!Wrap(w, x) \in -D!Power[w - 1] .. D!Power[w - 1] - 1
         /\ x \in -D!Power[w - 1] .. D!Power[w - 1] - 1 => D!Wrap(w, x) = x
<1> DEFINE h == D!Power[w - 1]
<1>1. w \in 0 .. LongBits /\ w - 1 \in 0 .. LongBits
  BY WidthsHold DEF Widths
<1>2. h \in Nat \ {0} /\ D!Power[w] = 2 * h
  BY <1>1, PowerDef, PowersArePositive
<1>3. D!Wrap(w, x) = ((x + h) % (2 * h)) - h
  BY <1>2 DEF D!Wrap
<1> HIDE DEF h
<1>4. (x + h) % (2 * h) \in 0 .. 2 * h - 1
  BY <1>2
<1>5. x \in -h .. h - 1 => (x + h) % (2 * h) = x + h
  BY <1>2
<1> QED
  BY <1>2, <1>3, <1>4, <1>5 DEF h

Longs == -D!Power[LongBits - 1] .. D!Power[LongBits - 1] - 1

Fits(x) == x \in Int /\ D!ToInt(x) = x

LEMMA IntsAndLongs ==
  ASSUME NEW x \in Int
  PROVE  /\ D!ToInt(x) \in Int /\ D!ToInt(x) \in Longs
         /\ D!ToLong(x) \in Int /\ D!ToLong(x) \in Longs
         /\ Fits(x) => D!ToLong(x) = x
<1>1. /\ IntBits \in 1 .. LongBits /\ LongBits \in 1 .. LongBits
      /\ IntBits - 1 \in 0 .. LongBits /\ LongBits - 1 \in 0 .. LongBits
      /\ IntBits - 1 <= LongBits - 1
  BY WidthsHold DEF Widths
<1> DEFINE h == D!Power[IntBits - 1]
           l == D!Power[LongBits - 1]
<1>2. h \in Nat /\ l \in Nat /\ h <= l
  BY <1>1, PowersArePositive, PowersGrow
<1>3. D!ToInt(x) \in -h .. h - 1
  BY <1>1, WrapFacts DEF D!ToInt
<1>4. /\ D!ToLong(x) \in -l .. l - 1
      /\ x \in -l .. l - 1 => D!ToLong(x) = x
  BY <1>1, WrapFacts DEF D!ToLong
<1> HIDE DEF h, l
<1> QED
  BY <1>2, <1>3, <1>4 DEF Longs, Fits, l

(* A set of bits is an integer. *)
LEMMA FromBitsType ==
  ASSUME NEW B
  PROVE  D!FromBits(B) \in Int
<1> DEFINE N == LongBits
           bit(k) == IF k - 1 \in B THEN D!Power[k - 1] ELSE 0
           IsSum(p) == p = [k \in 0 .. N |-> IF k = 0 THEN 0 ELSE p[k - 1] + bit(k)]
           sum == CHOOSE p : IsSum(p)
           G == [x \in (1 .. N) \X Int |-> x[2] + bit(x[1])]
<1>1. N \in Nat
  BY WidthsHold DEF Widths
<1>2. ASSUME NEW k \in 1 .. N PROVE bit(k) \in Int
  <2>1. k - 1 \in 0 .. N
    BY <1>1
  <2> QED
    BY <2>1, PowersArePositive
<1> HIDE DEF bit
<1>3. \A k \in 1 .. N, n \in Int : G[<<k, n>>] = n + bit(k)
  OBVIOUS
<1> HIDE DEF G
<1>4. Steps(G, N, Int)
  <2>1. \A k \in 1 .. N, n \in Int : n + bit(k) \in Int
    BY <1>2
  <2> QED
    BY <1>3, <2>1 DEF Steps
<1>5. PICK f : Solves(f, G, N, Int, 0)
  BY <1>1, <1>4, Recursion
<1>6. ASSUME NEW k \in 0 .. N PROVE f[k] = IF k = 0 THEN 0 ELSE f[k - 1] + bit(k)
  <2>1. CASE k = 0
    BY <1>5, <2>1 DEF Solves
  <2>2. CASE k # 0
    <3>1. k \in 1 .. N /\ k - 1 \in 0 .. N
      BY <1>1, <2>2
    <3>2. f[k - 1] \in Int
      BY <1>5, <3>1 DEF Solves
    <3> QED
      BY <1>3, <1>5, <2>2, <3>1, <3>2 DEF Solves
  <2> QED
    BY <2>1, <2>2
<1>7. IsSum(f)
  <2>1. f = [k \in 0 .. N |-> f[k]]
    BY <1>5 DEF Solves
  <2> QED
    BY <1>6, <2>1
<1>8. IsSum(sum)
  <2> HIDE DEF IsSum
  <2> QED
    BY <1>7
<1>9. ASSUME NEW k \in 0 .. N
      PROVE  sum[k] = IF k = 0 THEN 0 ELSE sum[k - 1] + bit(k)
  <2> HIDE DEF sum
  <2> QED
    BY <1>8
<1> DEFINE P == {k \in 0 .. N : sum[k] \in Int}
<1>10. 0 \in P
  <2> HIDE DEF sum
  <2> QED
    BY <1>1, <1>9
<1>11. ASSUME NEW n \in 1 .. N, n - 1 \in P
       PROVE  n \in P
  <2> HIDE DEF sum
  <2>1. n \in 0 .. N /\ n # 0 /\ sum[n - 1] \in Int
    BY <1>1, <1>11
  <2> QED
    BY <1>2, <1>9, <2>1
<1>12. \A n \in 0 .. N : n \in P
  <2> HIDE DEF P, N
  <2> QED
    BY <1>1, <1>10, <1>11, OneByOne
<1>13. sum[N] \in Int
  <2> HIDE DEF sum
  <2> QED
    BY <1>1, <1>12
<1>14. D!FromBits(B) = D!ToLong(sum[N])
  BY DEF D!FromBits, bit
<1> HIDE DEF sum
<1> QED
  BY <1>13, <1>14, IntsAndLongs

-----------------------------------------------------------------------------
(* The operand stack. *)

Stacks == {s \in Seq(Longs) : Len(s) <= STACK_MAX}

LEMMA LongsAreInts == Longs \subseteq Int
BY PowersArePositive, WidthsHold DEF Longs, Widths

LEMMA TopType ==
  ASSUME NEW s \in Seq(Int)
  PROVE  D!Top(s) \in Int
<1>1. CASE s = <<>>
  BY <1>1 DEF D!Top
<1>2. CASE s # <<>>
  <2>1. s[Len(s)] \in Int
    BY <1>2
  <2>2. D!Top(s) = D!ToInt(s[Len(s)])
    BY <1>2 DEF D!Top, D!Last
  <2> QED
    BY <2>1, <2>2, IntsAndLongs
<1> QED
  BY <1>1, <1>2

LEMMA PopType ==
  ASSUME NEW s \in Stacks
  PROVE  D!Pop(s) \in Stacks
<1>1. CASE s = <<>>
  BY <1>1 DEF D!Pop
<1>2. CASE s # <<>>
  <2>1. D!Pop(s) = SubSeq(s, 1, Len(s) - 1)
    BY <1>2 DEF D!Pop, D!Front
  <2>2. s \in Seq(Longs) /\ Len(s) \in Nat \ {0} /\ Len(s) <= STACK_MAX
    BY <1>2, EmptySeq DEF Stacks
  <2>3. SubSeq(s, 1, Len(s) - 1) \in Seq(Longs) /\ Len(SubSeq(s, 1, Len(s) - 1)) = Len(s) - 1
    <3>1. 1 \in 1 .. Len(s) + 1 /\ Len(s) - 1 \in 1 - 1 .. Len(s) /\ Len(s) - 1 \in Nat
      BY <2>2
    <3> QED
      BY <2>2, <3>1, SubSeqProperties
  <2> QED
    BY <2>1, <2>2, <2>3, WidthsHold DEF Stacks, Widths
<1> QED
  BY <1>1, <1>2

LEMMA PushType ==
  ASSUME NEW s \in Stacks, NEW x \in Int
  PROVE  D!Push(s, x) \in Stacks
<1> DEFINE y == D!ToLong(x)
<1>1. y \in Longs
  BY IntsAndLongs
<1>2. D!Push(s, x) = IF Len(s) < STACK_MAX THEN Append(s, y) ELSE s
  BY DEF D!Push
<1>3. s \in Seq(Longs) /\ Len(s) \in Nat
  BY DEF Stacks
<1> HIDE DEF y
<1>4. Append(s, y) \in Seq(Longs) /\ Len(Append(s, y)) = Len(s) + 1
  BY <1>1, <1>3, AppendProperties
<1> QED
  BY <1>2, <1>3, <1>4, WidthsHold DEF Stacks, Widths

LEMMA StacksAreInts ==
  ASSUME NEW s \in Stacks
  PROVE  s \in Seq(Int) /\ D!Top(s) \in Int
BY TopType, LongsAreInts, SeqMonotonic DEF Stacks

LEMMA ShuffledType ==
  ASSUME NEW s \in Stacks, NEW op \in D!Shuffles \ {"pick"}
  PROVE  D!Shuffled(op, s) \in Stacks
<1>1. /\ D!Pop(s) \in Stacks /\ D!Pop(D!Pop(s)) \in Stacks /\ D!Pop(D!Pop(D!Pop(s))) \in Stacks
  BY PopType
<1>2. /\ D!Top(s) \in Int /\ D!Top(D!Pop(s)) \in Int /\ D!Top(D!Pop(D!Pop(s))) \in Int
  BY <1>1, StacksAreInts
<1>3. op \in {"dup", "drop", "over", "swap", "rot"}
  BY DEF D!Shuffles
<1>4. CASE op = "dup"
  BY <1>2, <1>4, PushType DEF D!Shuffled
<1>5. CASE op = "drop"
  BY <1>1, <1>5 DEF D!Shuffled
<1>6. CASE op = "over"
  BY <1>1, <1>2, <1>6, PushType DEF D!Shuffled
<1>7. CASE op = "swap"
  BY <1>1, <1>2, <1>7, PushType DEF D!Shuffled
<1>8. CASE op = "rot"
  BY <1>1, <1>2, <1>8, PushType DEF D!Shuffled
<1> QED
  BY <1>3, <1>4, <1>5, <1>6, <1>7, <1>8

(* The least of two numbers, and of some numbers.                          *)
LEMMA MinOfNats ==
  ASSUME NEW I, I \subseteq Nat, I # {}
  PROVE  D!Min(I) \in I /\ \A k \in I : D!Min(I) <= k
<1>1. PICK m \in I : \A k \in I : m <= k
  BY LeastDie
<1>2. D!Min(I) = CHOOSE x \in I : \A y \in I : x <= y
  BY DEF D!Min
<1> QED
  BY <1>1, <1>2

LEMMA PickedType ==
  ASSUME NEW s \in Stacks, NEW n \in Nat
  PROVE  D!Picked(s, n) \in Stacks
<1> DEFINE m     == D!Min({n, STACK_MAX})
           rest  == SubSeq(s, 1, Len(s) - m)
           entry(k) == IF Len(s) - m + k > 0 THEN D!ToInt(s[Len(s) - m + k]) ELSE -1
           moved == [k \in 1 .. m |-> entry(k)]
<1>1. m \in Nat /\ m <= STACK_MAX
  <2>1. STACK_MAX \in Nat
    BY WidthsHold DEF Widths
  <2>2. m \in {n, STACK_MAX} /\ \A k \in {n, STACK_MAX} : m <= k
    BY <2>1, MinOfNats
  <2> HIDE DEF m
  <2> QED
    BY <2>1, <2>2
<1> HIDE DEF m
<1>2. s \in Seq(Longs) /\ s \in Seq(Int) /\ Len(s) \in Nat /\ Len(s) <= STACK_MAX
  BY StacksAreInts DEF Stacks
<1>3. rest \in Seq(Longs) /\ Len(rest) = IF 1 <= Len(s) - m THEN Len(s) - m ELSE 0
  <2>1. \A k \in 1 .. Len(s) - m : s[k] \in Longs
    BY <1>1, <1>2
  <2>2. 1 \in Int /\ Len(s) - m \in Int /\ (Len(s) - m) - 1 + 1 = Len(s) - m
    BY <1>1, <1>2
  <2> QED
    BY <2>1, <2>2, SubSeqProperties
<1>4. moved \in Seq(Longs) /\ Len(moved) = m
  <2>1. ASSUME NEW k \in 1 .. m PROVE entry(k) \in Longs
    <3>1. CASE Len(s) - m + k > 0
      <4>1. Len(s) - m + k \in 1 .. Len(s)
        BY <1>1, <1>2, <3>1
      <4>2. s[Len(s) - m + k] \in Int
        BY <1>2, <4>1
      <4> QED
        BY <3>1, <4>2, IntsAndLongs
    <3>2. CASE ~(Len(s) - m + k > 0)
      <4>1. D!Power[LongBits - 1] \in Nat \ {0}
        BY WidthsHold, PowersArePositive DEF Widths
      <4>2. -1 \in Longs
        BY <4>1 DEF Longs
      <4> QED
        BY <3>2, <4>2
    <3> QED
      BY <3>1, <3>2
  <2> HIDE DEF entry
  <2> QED
    BY <1>1, <2>1
<1>5. rest \o moved \in Stacks
  <2> HIDE DEF rest, moved
  <2>1. rest \o moved \in Seq(Longs) /\ Len(rest \o moved) = Len(rest) + Len(moved)
    BY <1>3, <1>4, ConcatProperties
  <2> QED
    BY <1>1, <1>2, <1>3, <1>4, <2>1, WidthsHold DEF Stacks, Widths
<1>6. D!Top(rest) \in Int
  BY <1>3, LongsAreInts, SeqMonotonic, TopType
<1>7. D!Picked(s, n) = D!Push(rest \o moved, D!Top(rest))
  BY DEF D!Picked, m
<1> HIDE DEF rest, moved
<1> QED
  BY <1>5, <1>6, <1>7, PushType

LEMMA PickCountsType ==
  ASSUME expr \in Seq(D!Operation)
  PROVE  D!PickCounts \subseteq Nat
<1> DEFINE stops == {k \in 0 .. Len(expr) - 1 : expr[k + 1].num \in 0 .. k}
<1>1. Len(expr) \in Nat /\ STACK_MAX \in Nat
  BY WidthsHold DEF Widths
<1>2. stops # {} => D!Min(stops) \in Nat
  <2>1. stops \subseteq Nat
    OBVIOUS
  <2> HIDE DEF stops
  <2> QED
    BY <2>1, MinOfNats
<1>3. D!PickCounts = IF stops = {} THEN Len(expr) .. Len(expr) + STACK_MAX ELSE {D!Min(stops)}
  BY DEF D!PickCounts
<1> HIDE DEF stops
<1> QED
  BY <1>1, <1>2, <1>3

LEMMA UnaryType ==
  ASSUME NEW o \in D!Operation, o.op \in D!Unaries, NEW x \in Int
  PROVE  D!Unary(o, x) \in Int
<1>1. o.num \in Int
  BY DEF D!Operation
<1>2. D!Magnitude(x) \in Int /\ -x \in Int /\ -x - 1 \in Int /\ x + o.num \in Int
  BY <1>1 DEF D!Magnitude
<1>3. D!ToInt(D!Magnitude(x)) \in Int
  BY <1>2, IntsAndLongs
<1>4. o.op \in {"abs", "neg", "not", "plus_uconst"}
  BY DEF D!Unaries
<1>5. CASE o.op = "abs"
  BY <1>3, <1>5 DEF D!Unary
<1>6. CASE o.op = "neg"
  BY <1>2, <1>6 DEF D!Unary
<1>7. CASE o.op = "not"
  BY <1>2, <1>7 DEF D!Unary
<1>8. CASE o.op = "plus_uconst"
  BY <1>2, <1>8 DEF D!Unary
<1> QED
  BY <1>4, <1>5, <1>6, <1>7, <1>8

LEMMA QuotientType ==
  ASSUME NEW x \in Int, NEW y \in Int, y # 0
  PROVE  D!Quotient(x, y) \in Int
<1> DEFINE q == D!Magnitude(x) \div D!Magnitude(y)
<1>1. D!Magnitude(x) \in Int /\ D!Magnitude(y) \in Nat \ {0}
  BY DEF D!Magnitude
<1>2. q \in Int
  BY <1>1
<1>3. D!Quotient(x, y) = IF (x < 0) = (y < 0) THEN q ELSE -q
  BY DEF D!Quotient
<1> HIDE DEF q
<1>4. -q \in Int
  BY <1>2
<1> QED
  BY <1>2, <1>3, <1>4

LEMMA BinaryType ==
  ASSUME NEW op \in D!Binaries, NEW y \in Int, NEW x \in Int, ~D!Traps(op, x)
  PROVE  D!Binary(op, y, x) \in Int
<1>1. op \in {"and", "or", "xor"} \cup {"plus", "minus", "mul"} \cup {"div", "mod"}
           \cup {"shl", "shr", "shra"} \cup {"eq", "ne", "le", "ge", "lt", "gt"}
  BY DEF D!Binaries, D!Orders
<1>2. CASE op \in {"and", "or", "xor"}
  BY <1>2, FromBitsType DEF D!Binary
<1>3. CASE op \in {"plus", "minus", "mul"}
  <2>1. y + x \in Int /\ y - x \in Int /\ y * x \in Int
    OBVIOUS
  <2> QED
    BY <1>3, <2>1 DEF D!Binary
<1>4. CASE op \in {"div", "mod"}
  <2>1. x # 0
    BY <1>4 DEF D!Traps
  <2>2. D!Quotient(y, x) \in Int
    BY <2>1, QuotientType
  <2>3. D!Remainder(y, x) \in Int
    BY <2>2 DEF D!Remainder
  <2> QED
    BY <1>4, <2>2, <2>3 DEF D!Binary
<1>5. CASE op \in {"shl", "shr", "shra"}
  <2> DEFINE p == D!Power[x % LongBits]
             q == D!Power[LongBits]
  <2>1. x % LongBits \in 0 .. LongBits
    BY WidthsHold DEF Widths
  <2>2. p \in Nat \ {0} /\ q \in Nat \ {0}
    BY <2>1, WidthsHold, PowersArePositive DEF Widths
  <2> HIDE DEF p, q
  <2>3. y * p \in Int /\ (y % q) \div p \in Int /\ y \div p \in Int
    BY <2>2
  <2> QED
    BY <1>5, <2>3 DEF D!Binary, p, q
<1>6. CASE op \in {"eq", "ne", "le", "ge", "lt", "gt"}
  BY <1>6 DEF D!Binary, D!Truth
<1> QED
  BY <1>1, <1>2, <1>3, <1>4, <1>5, <1>6

-----------------------------------------------------------------------------
(* The decoder's types: every operation keeps the stack in its array and   *)
(* the entries longs.                                                      *)
LEMMA DecodeKeepsTypes ==
  ASSUME D!TypeOK, D!Next
  PROVE  D!TypeOK'
<1>1. /\ expr \in Seq(D!Operation) /\ i \in Nat \ {0} /\ stack \in Stacks
      /\ frameRel \in BOOLEAN /\ status \in D!Statuses /\ offset \in Int
  BY DEF D!TypeOK, Stacks, Longs
<1>2. stack \in Seq(Int) /\ D!Top(stack) \in Int
  BY <1>1, StacksAreInts
<1>3. /\ D!Pop(stack) \in Stacks /\ D!Pop(D!Pop(stack)) \in Stacks
      /\ D!Top(D!Pop(stack)) \in Int
  BY <1>1, PopType, StacksAreInts
<1>4. ASSUME NEW ops, D!At(ops)
      PROVE  i \in DOMAIN expr /\ expr[i] \in D!Operation /\ expr[i].op \in ops
  BY <1>1, <1>4 DEF D!At
<1>5. ASSUME NEW s \in Stacks, D!Leaves(s), frameRel' \in BOOLEAN
      PROVE  D!TypeOK'
  BY <1>1, <1>5 DEF D!Leaves, D!TypeOK, Stacks, Longs
<1>6. ASSUME NEW st \in D!Statuses, NEW off \in Int, D!Stop(st, off)
      PROVE  D!TypeOK'
  BY <1>1, <1>6 DEF D!Stop, D!TypeOK, Stacks, Longs
<1>7. CASE D!PushConstant
  <2>1. expr[i].num \in Int
    BY <1>4, <1>7 DEF D!PushConstant, D!Operation
  <2>2. D!Push(stack, expr[i].num) \in Stacks
    BY <1>1, <2>1, PushType
  <2> QED
    BY <1>1, <1>5, <1>7, <2>2 DEF D!PushConstant
<1>8. CASE D!Shuffle
  <2>1. D!Shuffled(expr[i].op, stack) \in Stacks
    BY <1>1, <1>4, <1>8, ShuffledType DEF D!Shuffle
  <2> QED
    BY <1>1, <1>5, <1>8, <2>1 DEF D!Shuffle
<1>9. CASE D!Pick
  <2>1. PICK n \in D!PickCounts : D!Leaves(D!Picked(stack, n))
    BY <1>9 DEF D!Pick
  <2>2. D!Picked(stack, n) \in Stacks
    BY <1>1, PickCountsType, PickedType
  <2> QED
    BY <1>1, <1>5, <1>9, <2>1, <2>2 DEF D!Pick
<1>10. CASE D!ApplyUnary
  <2>1. D!Unary(expr[i], D!Top(stack)) \in Int
    BY <1>2, <1>4, <1>10, UnaryType DEF D!ApplyUnary
  <2>2. D!Push(D!Pop(stack), D!Unary(expr[i], D!Top(stack))) \in Stacks
    BY <1>3, <2>1, PushType
  <2> QED
    BY <1>1, <1>5, <1>10, <2>2 DEF D!ApplyUnary
<1>11. CASE D!ApplyBinary
  <2>1. D!Binary(expr[i].op, D!Top(D!Pop(stack)), D!Top(stack)) \in Int
    BY <1>2, <1>3, <1>4, <1>11, BinaryType DEF D!ApplyBinary
  <2>2. D!Push(D!Pop(D!Pop(stack)),
               D!Binary(expr[i].op, D!Top(D!Pop(stack)), D!Top(stack))) \in Stacks
    BY <1>3, <2>1, PushType
  <2> QED
    BY <1>1, <1>5, <1>11, <2>2 DEF D!ApplyBinary
<1>12. CASE D!Ignore
  BY <1>1, <1>3, <1>5, <1>12 DEF D!Ignore
<1>13. CASE D!Skip
  <2>1. D!SkipTo \in Nat \ {0}
    <3> DEFINE target == expr[i].off + expr[i].num
               hits   == {j \in DOMAIN expr \ {i} :
                            expr[j].off = target /\ (j < i) = (expr[i].num < 0)}
    <3>1. D!SkipTo = IF hits = {} THEN Len(expr) + 1 ELSE CHOOSE j \in hits : TRUE
      BY DEF D!SkipTo
    <3>2. Len(expr) \in Nat /\ DOMAIN expr \subseteq Nat \ {0}
      BY <1>1, LenProperties
    <3>3. hits \subseteq Nat \ {0}
      BY <3>2
    <3> HIDE DEF hits
    <3>4. CASE hits = {}
      BY <3>1, <3>2, <3>4
    <3>5. CASE hits # {}
      <4>1. (CHOOSE j \in hits : TRUE) \in hits
        BY <3>5
      <4> QED
        BY <3>1, <3>3, <3>5, <4>1
    <3> QED
      BY <3>4, <3>5
  <2> QED
    BY <1>1, <1>13, <2>1 DEF D!Skip, D!TypeOK, Stacks, Longs
<1>14. CASE D!GiveUp
  BY <1>6, <1>14 DEF D!GiveUp, D!Statuses
<1>15. CASE D!Trap
  BY <1>1, <1>6, <1>15 DEF D!Trap, D!Statuses
<1>16. CASE D!Finish
  BY <1>2, <1>6, <1>16 DEF D!Finish, D!Statuses
<1> QED
  BY <1>7, <1>8, <1>9, <1>10, <1>11, <1>12, <1>13, <1>14, <1>15, <1>16 DEF D!Next

-----------------------------------------------------------------------------
(* What DWARF says operations do. *)

(* The first entries of s, all but k. *)
AllBut(s, k) == SubSeq(s, 1, Len(s) - k)

LEMMA AllButFacts ==
  ASSUME NEW s \in Seq(Int), NEW k \in 0 .. Len(s)
  PROVE  /\ AllBut(s, k) \in Seq(Int)
         /\ Len(AllBut(s, k)) = Len(s) - k
         /\ \A j \in 1 .. Len(s) - k : AllBut(s, k)[j] = s[j]
<1>1. Len(s) \in Nat /\ k \in Nat /\ k <= Len(s) /\ 1 \in Int /\ Len(s) - k \in Int
  OBVIOUS
<1>2. \A j \in 1 .. Len(s) - k : s[j] \in Int
  BY <1>1
<1>3. /\ SubSeq(s, 1, Len(s) - k) \in Seq(Int)
      /\ Len(SubSeq(s, 1, Len(s) - k)) = IF 1 <= Len(s) - k THEN (Len(s) - k) - 1 + 1 ELSE 0
      /\ \A j \in 1 .. (Len(s) - k) - 1 + 1 :
           SubSeq(s, 1, Len(s) - k)[j] = s[1 + j - 1]
  BY <1>1, <1>2, SubSeqProperties
<1>4. \A j \in 1 .. Len(s) - k : j \in 1 .. (Len(s) - k) - 1 + 1 /\ 1 + j - 1 = j
  BY <1>1
<1> QED
  BY <1>1, <1>3, <1>4 DEF AllBut

(* One entry more. *)
LEMMA AllButMore ==
  ASSUME NEW s \in Seq(Int), NEW k \in 1 .. Len(s)
  PROVE  /\ Append(AllBut(s, k), s[Len(s) + 1 - k]) = AllBut(s, k - 1)
         /\ AllBut(s, 0) = s
<1>1. /\ Len(s) \in Nat /\ k \in Nat /\ k >= 1 /\ k <= Len(s)
      /\ k \in 0 .. Len(s) /\ k - 1 \in 0 .. Len(s) /\ 0 \in 0 .. Len(s)
  OBVIOUS
<1> DEFINE t == AllBut(s, k)
           u == AllBut(s, k - 1)
           x == s[Len(s) + 1 - k]
<1>2. /\ t \in Seq(Int) /\ Len(t) = Len(s) - k /\ \A j \in 1 .. Len(s) - k : t[j] = s[j]
      /\ u \in Seq(Int) /\ Len(u) = Len(s) - (k - 1)
      /\ \A j \in 1 .. Len(s) - (k - 1) : u[j] = s[j]
  BY <1>1, AllButFacts
<1>3. x \in Int
  <2>1. Len(s) + 1 - k \in 1 .. Len(s)
    BY <1>1
  <2> QED
    BY <2>1
<1> HIDE DEF t, u, x
<1>4. /\ Append(t, x) \in Seq(Int) /\ Len(Append(t, x)) = Len(t) + 1
      /\ \A j \in 1 .. Len(t) : Append(t, x)[j] = t[j]
      /\ Append(t, x)[Len(t) + 1] = x
  <2> DEFINE I == Int
  <2>1. t \in Seq(I) /\ x \in I
    BY <1>2, <1>3
  <2> HIDE DEF I
  <2>2. /\ Append(t, x) \in Seq(I) /\ Len(Append(t, x)) = Len(t) + 1
        /\ \A j \in 1 .. Len(t) : Append(t, x)[j] = t[j]
        /\ Append(t, x)[Len(t) + 1] = x
    BY <2>1, AppendProperties
  <2> QED
    BY <2>2 DEF I
<1> DEFINE n == Len(t)
<1>n. n \in Nat /\ n = Len(s) - k /\ Len(s) - (k - 1) = n + 1 /\ Len(s) + 1 - k = n + 1
  BY <1>1, <1>2
<1> HIDE DEF n
<1>5. ASSUME NEW j \in 1 .. n + 1 PROVE Append(t, x)[j] = u[j]
  <2>1. u[j] = s[j]
    BY <1>2, <1>n
  <2>2. CASE j = n + 1
    <3>1. x = s[n + 1]
      BY <1>n DEF x
    <3> QED
      BY <1>4, <2>1, <2>2, <3>1 DEF n
  <2>3. CASE j # n + 1
    <3>1. j \in 1 .. n
      BY <1>n, <2>3
    <3> QED
      BY <1>2, <1>4, <1>n, <2>1, <3>1 DEF n
  <2> QED
    BY <2>2, <2>3
<1>6. Append(t, x) = u
  <2>1. Len(Append(t, x)) = n + 1 /\ Len(u) = n + 1
    BY <1>2, <1>4, <1>n DEF n
  <2> QED
    BY <1>2, <1>4, <1>5, <2>1, SeqEqual
<1>7. AllBut(s, 0) = s
  <2>1. /\ AllBut(s, 0) \in Seq(Int) /\ Len(AllBut(s, 0)) = Len(s) - 0
        /\ \A j \in 1 .. Len(s) - 0 : AllBut(s, 0)[j] = s[j]
    BY <1>1, AllButFacts
  <2>2. Len(s) - 0 = Len(s)
    BY <1>1
  <2> QED
    BY <2>1, <2>2, SeqEqual
<1> QED
  BY <1>6, <1>7 DEF t, u, x

(* Entries that fit an int are seen as they are. *)
Plainly(s) == s \in Seq(Int) /\ Len(s) <= STACK_MAX /\ \A j \in 1 .. Len(s) : Fits(s[j])

LEMMA TopOfPlain ==
  ASSUME NEW s, Plainly(s), NEW k \in 0 .. Len(s), k < Len(s)
  PROVE  /\ D!Top(AllBut(s, k)) = s[Len(s) - k]
         /\ D!Pop(AllBut(s, k)) = AllBut(s, k + 1)
         /\ Fits(s[Len(s) - k])
<1> DEFINE t == AllBut(s, k)
<1>1. /\ s \in Seq(Int) /\ Len(s) \in Nat /\ k \in Nat /\ Len(s) - k \in 1 .. Len(s)
      /\ Len(s) - k \in 1 .. Len(s) - k /\ k + 1 \in 0 .. Len(s)
  BY DEF Plainly
<1>2. t \in Seq(Int) /\ Len(t) = Len(s) - k /\ \A j \in 1 .. Len(s) - k : t[j] = s[j]
  BY <1>1, AllButFacts
<1>3. Fits(s[Len(s) - k])
  BY <1>1 DEF Plainly
<1> HIDE DEF t
<1>4. t # <<>>
  BY <1>1, <1>2
<1>5. D!Top(t) = D!ToInt(t[Len(t)])
  BY <1>4 DEF D!Top, D!Last
<1>6. t[Len(t)] = s[Len(s) - k]
  BY <1>1, <1>2
<1>7. D!Pop(t) = SubSeq(t, 1, Len(t) - 1)
  BY <1>4 DEF D!Pop, D!Front
<1>8. SubSeq(t, 1, Len(t) - 1) = AllBut(s, k + 1)
  <2>1. 1 \in 0 .. Len(t) /\ SubSeq(t, 1, Len(t) - 1) = AllBut(t, 1)
    BY <1>1, <1>2 DEF AllBut
  <2>2. /\ AllBut(t, 1) \in Seq(Int) /\ Len(AllBut(t, 1)) = Len(t) - 1
        /\ \A j \in 1 .. Len(t) - 1 : AllBut(t, 1)[j] = t[j]
    BY <1>2, <2>1, AllButFacts
  <2>3. /\ AllBut(s, k + 1) \in Seq(Int) /\ Len(AllBut(s, k + 1)) = Len(s) - (k + 1)
        /\ \A j \in 1 .. Len(s) - (k + 1) : AllBut(s, k + 1)[j] = s[j]
    BY <1>1, AllButFacts
  <2>4. Len(AllBut(t, 1)) = Len(AllBut(s, k + 1))
    BY <1>1, <1>2, <2>2, <2>3
  <2>5. ASSUME NEW j \in 1 .. Len(AllBut(t, 1)) PROVE AllBut(t, 1)[j] = AllBut(s, k + 1)[j]
    <3>1. j \in 1 .. Len(t) - 1
      BY <2>2
    <3>2. \A m \in 1 .. (Len(s) - k) - 1 : m \in 1 .. Len(s) - (k + 1) /\ m \in 1 .. Len(s) - k
      BY <1>1
    <3>3. j \in 1 .. Len(s) - (k + 1) /\ j \in 1 .. Len(s) - k
      BY <1>2, <3>1, <3>2
    <3> QED
      BY <1>2, <2>2, <2>3, <3>1, <3>3
  <2>6. AllBut(t, 1) = AllBut(s, k + 1)
    BY <2>2, <2>3, <2>4, <2>5, SeqEqual
  <2> QED
    BY <2>1, <2>6
<1> QED
  BY <1>3, <1>5, <1>6, <1>7, <1>8 DEF Fits, t

LEMMA PushPlainly ==
  ASSUME NEW s, NEW x, Fits(x), Len(s) < STACK_MAX
  PROVE  D!Push(s, x) = Append(s, x)
BY IntsAndLongs DEF Fits, D!Push

LEMMA TwoMore ==
  ASSUME NEW t \in Seq(Int), NEW x \in Int, NEW y \in Int
  PROVE  Append(Append(t, x), y) = t \o <<x, y>>
OBVIOUS

LEMMA ThreeMore ==
  ASSUME NEW t \in Seq(Int), NEW x \in Int, NEW y \in Int, NEW z \in Int
  PROVE  Append(Append(Append(t, x), y), z) = t \o <<x, y, z>>
OBVIOUS

(* The entries on top of a stack of ints, as the code takes them. *)
LEMMA TopEntries ==
  ASSUME NEW s, Plainly(s)
  PROVE  LET n == Len(s)
         IN  /\ n \in Nat /\ n <= STACK_MAX /\ s \in Seq(Int) /\ STACK_MAX \in Nat
             /\ AllBut(s, 0) = s
             /\ n >= 1 => D!Top(s) = s[n] /\ D!Pop(s) = AllBut(s, 1) /\ Fits(s[n])
             /\ n >= 2 => /\ D!Top(AllBut(s, 1)) = s[n - 1]
                         /\ D!Pop(AllBut(s, 1)) = AllBut(s, 2) /\ Fits(s[n - 1])
             /\ n >= 3 => /\ D!Top(AllBut(s, 2)) = s[n - 2]
                         /\ D!Pop(AllBut(s, 2)) = AllBut(s, 3) /\ Fits(s[n - 2])
             /\ n >= 1 => AllBut(s, 1) \in Seq(Int) /\ Len(AllBut(s, 1)) = n - 1
             /\ n >= 2 => AllBut(s, 2) \in Seq(Int) /\ Len(AllBut(s, 2)) = n - 2 /\ n >= 1
             /\ n >= 3 => AllBut(s, 3) \in Seq(Int) /\ Len(AllBut(s, 3)) = n - 3 /\ n >= 2
<1> DEFINE n == Len(s)
           B(k) == AllBut(s, k)
<1>1. n \in Nat /\ n <= STACK_MAX /\ s \in Seq(Int) /\ STACK_MAX \in Nat
  BY WidthsHold DEF Plainly, Widths
<1>2. /\ n >= 1 => 0 \in 0 .. n /\ 1 \in 0 .. n /\ 1 \in 1 .. n /\ 0 < n
      /\ n >= 2 => 2 \in 0 .. n /\ 2 \in 1 .. n /\ 1 < n
      /\ n >= 3 => 3 \in 0 .. n /\ 3 \in 1 .. n /\ 2 < n
  BY <1>1
<1>3. B(0) = s
  <2>1. n >= 1 => B(0) = s
    BY <1>1, <1>2, AllButMore
  <2>2. n = 0 => B(0) = s
    <3>1. ASSUME n = 0 PROVE B(0) = s
      <4>1. s = <<>>
        BY <1>1, <3>1
      <4>2. SubSeq(s, 1, n - 0) = <<>>
        BY <3>1, SubSeqEmpty
      <4> QED
        BY <4>1, <4>2 DEF AllBut
    <3> QED
      BY <3>1
  <2> QED
    BY <1>1, <2>1, <2>2
<1>4. n >= 1 => D!Top(s) = s[n] /\ D!Pop(s) = B(1) /\ Fits(s[n])
  <2>1. n >= 1 => D!Top(B(0)) = s[n - 0] /\ D!Pop(B(0)) = B(0 + 1) /\ Fits(s[n - 0])
    BY <1>2, TopOfPlain
  <2>2. n - 0 = n /\ 0 + 1 = 1
    BY <1>1
  <2> QED
    BY <1>3, <2>1, <2>2
<1>5. n >= 2 => D!Top(B(1)) = s[n - 1] /\ D!Pop(B(1)) = B(2) /\ Fits(s[n - 1])
  <2>1. n >= 2 => D!Top(B(1)) = s[n - 1] /\ D!Pop(B(1)) = B(1 + 1) /\ Fits(s[n - 1])
    <3>1. n >= 2 => 1 \in 0 .. n /\ 1 < n
      BY <1>1
    <3> QED
      BY <3>1, TopOfPlain
  <2> QED
    BY <2>1
<1>6. n >= 3 => D!Top(B(2)) = s[n - 2] /\ D!Pop(B(2)) = B(3) /\ Fits(s[n - 2])
  <2>1. n >= 3 => D!Top(B(2)) = s[n - 2] /\ D!Pop(B(2)) = B(2 + 1) /\ Fits(s[n - 2])
    BY <1>2, TopOfPlain
  <2> QED
    BY <2>1
<1>7. /\ n >= 1 => B(1) \in Seq(Int) /\ Len(B(1)) = n - 1
      /\ n >= 2 => B(2) \in Seq(Int) /\ Len(B(2)) = n - 2 /\ n >= 1
      /\ n >= 3 => B(3) \in Seq(Int) /\ Len(B(3)) = n - 3 /\ n >= 2
  <2>1. /\ n >= 1 => B(1) \in Seq(Int) /\ Len(B(1)) = n - 1
        /\ n >= 2 => B(2) \in Seq(Int) /\ Len(B(2)) = n - 2
        /\ n >= 3 => B(3) \in Seq(Int) /\ Len(B(3)) = n - 3
    BY <1>1, <1>2, AllButFacts
  <2> QED
    BY <1>1, <2>1
<1> QED
  BY <1>1, <1>3, <1>4, <1>5, <1>6, <1>7

LEMMA PlainAppend ==
  ASSUME NEW t \in Seq(Int), NEW x \in Int, Plainly(Append(t, x))
  PROVE  D!Push(t, x) = Append(t, x) /\ Fits(x)
<1> DEFINE I == Int
           u == Append(t, x)
<1>1. t \in Seq(I) /\ x \in I /\ Len(t) \in Nat /\ STACK_MAX \in Nat
  BY WidthsHold DEF Widths
<1> HIDE DEF I
<1>2. Len(u) = Len(t) + 1 /\ u[Len(t) + 1] = x
  BY <1>1, AppendProperties
<1>3. Len(u) <= STACK_MAX /\ \A j \in 1 .. Len(u) : Fits(u[j])
  BY DEF Plainly
<1> HIDE DEF u
<1>4. Len(t) < STACK_MAX /\ Len(t) + 1 \in 1 .. Len(u)
  BY <1>1, <1>2, <1>3
<1>5. Fits(x)
  BY <1>2, <1>3, <1>4
<1> QED
  BY <1>4, <1>5, PushPlainly

(* The code does to a stack of ints what DWARF says, if what comes out is  *)
(* one, too.                                                               *)
LEMMA ShufflesRight ==
  ASSUME NEW s, Plainly(s), NEW o \in D!Operation, D!Needs(o.op) <= Len(s),
         Plainly(D!Meaning(o, s)), o.op \in {"dup", "drop", "over", "swap", "rot"}
  PROVE  D!Shuffled(o.op, s) = D!Meaning(o, s)
<1> DEFINE n == Len(s)
           B(k) == AllBut(s, k)
<1>1. n \in Nat /\ n <= STACK_MAX /\ s \in Seq(Int) /\ STACK_MAX \in Nat
  BY TopEntries
<1>3. B(0) = s
  BY TopEntries
<1>4. n >= 1 => D!Top(s) = s[n] /\ D!Pop(s) = B(1) /\ Fits(s[n])
  BY TopEntries
<1>5. n >= 2 => D!Top(B(1)) = s[n - 1] /\ D!Pop(B(1)) = B(2) /\ Fits(s[n - 1])
  BY TopEntries
<1>6. n >= 3 => D!Top(B(2)) = s[n - 2] /\ D!Pop(B(2)) = B(3) /\ Fits(s[n - 2])
  BY TopEntries
<1>7. /\ n >= 1 => B(1) \in Seq(Int) /\ Len(B(1)) = n - 1
      /\ n >= 2 => B(2) \in Seq(Int) /\ Len(B(2)) = n - 2 /\ n >= 1
      /\ n >= 3 => B(3) \in Seq(Int) /\ Len(B(3)) = n - 3 /\ n >= 2
  BY TopEntries
<1>8. n >= 2 => Append(B(2), s[n - 1]) = B(1) /\ Append(B(1), s[n]) = s
  <2>1. n >= 2 => Append(B(2), s[n + 1 - 2]) = B(2 - 1) /\ Append(B(1), s[n + 1 - 1]) = B(1 - 1)
    <3>1. n >= 2 => 1 \in 1 .. n /\ 2 \in 1 .. n
      BY <1>1
    <3> QED
      BY <1>1, <3>1, AllButMore
  <2>2. n + 1 - 2 = n - 1 /\ n + 1 - 1 = n /\ 2 - 1 = 1 /\ 1 - 1 = 0
    BY <1>1
  <2> QED
    BY <1>3, <2>1, <2>2
<1>9. ASSUME NEW t, NEW x, Fits(x), Len(t) < STACK_MAX
      PROVE  D!Push(t, x) = Append(t, x)
  BY <1>9, PushPlainly
<1> HIDE DEF B
<1>10. ASSUME NEW t \in Seq(Int), NEW x, Fits(x)
       PROVE  Append(t, x) \in Seq(Int) /\ Len(Append(t, x)) = Len(t) + 1 /\ Len(t) \in Nat
  <2> DEFINE I == Int
  <2>1. t \in Seq(I) /\ x \in I
    BY <1>10 DEF Fits
  <2>2. Len(t) \in Nat
    OBVIOUS
  <2> HIDE DEF I
  <2>3. Append(t, x) \in Seq(I) /\ Len(Append(t, x)) = Len(t) + 1
    BY <2>1, AppendProperties
  <2> QED
    BY <2>2, <2>3 DEF I
<1>11. CASE o.op = "dup"
  <2>1. D!Meaning(o, s) = Append(s, s[n])
    BY <1>11 DEF D!Meaning, D!Constants, D!Nothings
  <2>2. n >= 1
    BY <1>11 DEF D!Needs
  <2>3. n < STACK_MAX
    BY <1>1, <1>4, <1>10, <2>1, <2>2 DEF Plainly
  <2> QED
    BY <1>4, <1>9, <1>11, <2>1, <2>2, <2>3 DEF D!Shuffled
<1>12. CASE o.op = "drop"
  <2>1. D!Meaning(o, s) = B(1)
    BY <1>12 DEF D!Meaning, D!Constants, D!Nothings, AllBut, B
  <2>2. n >= 1
    BY <1>12 DEF D!Needs
  <2> QED
    BY <1>4, <1>12, <2>1, <2>2 DEF D!Shuffled
<1>13. CASE o.op = "over"
  <2>1. D!Meaning(o, s) = Append(s, s[n - 1])
    BY <1>13 DEF D!Meaning, D!Constants, D!Nothings
  <2>2. n >= 2 /\ n >= 1
    BY <1>1, <1>13 DEF D!Needs
  <2>3. n < STACK_MAX
    BY <1>1, <1>5, <1>10, <2>1, <2>2 DEF Plainly
  <2>4. Len(B(2)) < STACK_MAX /\ Len(B(1)) < STACK_MAX
    BY <1>1, <1>7, <2>2, <2>3
  <2>5. D!Shuffled(o.op, s) = D!Push(D!Push(D!Push(B(2), s[n - 1]), s[n]), s[n - 1])
    BY <1>4, <1>5, <1>13, <2>2 DEF D!Shuffled
  <2>6. D!Push(B(2), s[n - 1]) = B(1)
    BY <1>5, <1>8, <1>9, <2>2, <2>4
  <2>7. D!Push(B(1), s[n]) = s
    BY <1>4, <1>8, <1>9, <2>2, <2>4
  <2>8. D!Push(s, s[n - 1]) = Append(s, s[n - 1])
    BY <1>5, <1>9, <2>2, <2>3
  <2> QED
    BY <2>1, <2>5, <2>6, <2>7, <2>8
<1>14. CASE o.op = "swap"
  <2>1. D!Meaning(o, s) = B(2) \o <<s[n], s[n - 1]>>
    BY <1>14 DEF D!Meaning, D!Constants, D!Nothings, AllBut, B
  <2>2. n >= 2 /\ n >= 1
    BY <1>1, <1>14 DEF D!Needs
  <2>3. D!Shuffled(o.op, s) = D!Push(D!Push(B(2), s[n]), s[n - 1])
    BY <1>4, <1>5, <1>14, <2>2 DEF D!Shuffled
  <2>4. B(2) \in Seq(Int) /\ Fits(s[n]) /\ Fits(s[n - 1]) /\ Len(B(2)) = n - 2
    BY <1>4, <1>5, <1>7, <2>2
  <2>7. Len(B(2)) < STACK_MAX
    BY <1>1, <2>4
  <2>8. D!Push(B(2), s[n]) = Append(B(2), s[n])
    BY <1>9, <2>4, <2>7
  <2>9. Len(Append(B(2), s[n])) = Len(B(2)) + 1
    BY <1>10, <2>4
  <2>10. Len(Append(B(2), s[n])) < STACK_MAX
    BY <1>1, <2>4, <2>9
  <2>5. D!Shuffled(o.op, s) = Append(Append(B(2), s[n]), s[n - 1])
    BY <1>9, <2>3, <2>4, <2>8, <2>10
  <2>6. Append(Append(B(2), s[n]), s[n - 1]) = B(2) \o <<s[n], s[n - 1]>>
    BY <1>4, <1>5, <1>7, <2>2, TwoMore DEF Fits
  <2> QED
    BY <2>1, <2>5, <2>6
<1>15. CASE o.op = "rot"
  <2>1. D!Meaning(o, s) = B(3) \o <<s[n], s[n - 2], s[n - 1]>>
    BY <1>15 DEF D!Meaning, D!Constants, D!Nothings, AllBut, B
  <2>2. n >= 3 /\ n >= 2 /\ n >= 1
    BY <1>1, <1>15 DEF D!Needs
  <2>3. D!Shuffled(o.op, s) = D!Push(D!Push(D!Push(B(3), s[n]), s[n - 2]), s[n - 1])
    BY <1>4, <1>5, <1>6, <1>15, <2>2 DEF D!Shuffled
  <2>4. /\ B(3) \in Seq(Int) /\ Len(B(3)) = n - 3
        /\ Fits(s[n]) /\ Fits(s[n - 1]) /\ Fits(s[n - 2])
    BY <1>4, <1>5, <1>6, <1>7, <2>2
  <2> DEFINE t == Append(B(3), s[n])
             u == Append(t, s[n - 2])
  <2>5. Len(B(3)) < STACK_MAX
    BY <1>1, <2>4
  <2>6. D!Push(B(3), s[n]) = t /\ t \in Seq(Int) /\ Len(t) = Len(B(3)) + 1
    BY <1>9, <1>10, <2>4, <2>5
  <2>9. Len(t) = n - 2 /\ Len(t) < STACK_MAX
    BY <1>1, <2>4, <2>6
  <2> HIDE DEF t
  <2>10. D!Push(t, s[n - 2]) = u /\ Len(u) = Len(t) + 1
    BY <1>9, <1>10, <2>4, <2>6, <2>9
  <2>11. Len(u) < STACK_MAX
    BY <1>1, <2>9, <2>10
  <2> HIDE DEF u
  <2>12. D!Push(u, s[n - 1]) = Append(u, s[n - 1])
    BY <1>9, <2>4, <2>11
  <2>7. D!Shuffled(o.op, s) = Append(Append(t, s[n - 2]), s[n - 1])
    BY <2>3, <2>6, <2>10, <2>12 DEF u
  <2>8. Append(Append(t, s[n - 2]), s[n - 1]) = B(3) \o <<s[n], s[n - 2], s[n - 1]>>
    BY <1>4, <1>5, <1>6, <1>7, <2>2, ThreeMore DEF Fits, t
  <2> QED
    BY <2>1, <2>7, <2>8
<1> QED
  BY <1>11, <1>12, <1>13, <1>14, <1>15

LEMMA ConstantsRight ==
  ASSUME NEW s, Plainly(s), NEW o \in D!Operation, o.op \in D!Constants,
         Plainly(D!Meaning(o, s))
  PROVE  D!Push(s, o.num) = D!Meaning(o, s)
<1>1. D!Meaning(o, s) = Append(s, o.num)
  BY DEF D!Meaning, D!Constants, D!Nothings
<1>2. s \in Seq(Int) /\ o.num \in Int
  BY DEF Plainly, D!Operation
<1> QED
  BY <1>1, <1>2, PlainAppend

LEMMA UnariesRight ==
  ASSUME NEW s, Plainly(s), NEW o \in D!Operation, D!Needs(o.op) <= Len(s),
         Plainly(D!Meaning(o, s)), o.op \in {"neg", "plus_uconst"}
  PROVE  D!Push(D!Pop(s), D!Unary(o, D!Top(s))) = D!Meaning(o, s)
<1> DEFINE n == Len(s)
           B == AllBut(s, 1)
<1>1. n >= 1
  BY DEF D!Needs
<1>2. /\ n \in Nat /\ D!Top(s) = s[n] /\ D!Pop(s) = B /\ s[n] \in Int
      /\ B \in Seq(Int) /\ o.num \in Int
  BY <1>1, TopEntries DEF Fits, D!Operation
<1>3. SubSeq(s, 1, n - 1) = B
  BY DEF AllBut
<1> HIDE DEF B
<1>4. CASE o.op = "neg"
  <2>1. D!Meaning(o, s) = Append(B, 0 - s[n])
    BY <1>3, <1>4 DEF D!Meaning, D!Constants, D!Nothings
  <2>2. D!Unary(o, s[n]) = -s[n]
    BY <1>4 DEF D!Unary
  <2>3. -s[n] = 0 - s[n] /\ 0 - s[n] \in Int
    BY <1>2
  <2> QED
    BY <1>2, <2>1, <2>2, <2>3, PlainAppend
<1>5. CASE o.op = "plus_uconst"
  <2>1. D!Meaning(o, s) = Append(B, s[n] + o.num)
    BY <1>3, <1>5 DEF D!Meaning, D!Constants, D!Nothings
  <2>2. D!Unary(o, s[n]) = s[n] + o.num
    BY <1>5 DEF D!Unary
  <2>3. s[n] + o.num \in Int
    BY <1>2
  <2> QED
    BY <1>2, <2>1, <2>2, <2>3, PlainAppend
<1> QED
  BY <1>4, <1>5

LEMMA BinariesRight ==
  ASSUME NEW s, Plainly(s), NEW o \in D!Operation, D!Needs(o.op) <= Len(s),
         Plainly(D!Meaning(o, s)), o.op \in {"plus", "minus", "mul"}
  PROVE  D!Push(D!Pop(D!Pop(s)), D!Binary(o.op, D!Top(D!Pop(s)), D!Top(s)))
           = D!Meaning(o, s)
<1> DEFINE n == Len(s)
           B == AllBut(s, 2)
<1>1. n >= 2 /\ n >= 1
  BY TopEntries DEF D!Needs
<1>2. /\ n \in Nat /\ D!Top(s) = s[n] /\ D!Pop(D!Pop(s)) = B /\ s[n] \in Int
      /\ D!Top(D!Pop(s)) = s[n - 1] /\ s[n - 1] \in Int /\ B \in Seq(Int)
  BY <1>1, TopEntries DEF Fits
<1>3. SubSeq(s, 1, n - 2) = B
  BY DEF AllBut
<1> HIDE DEF B
<1> DEFINE y == s[n - 1]
           x == s[n]
<1>4. y + x \in Int /\ y - x \in Int /\ y * x \in Int
  BY <1>2
<1>5. /\ o.op = "plus"  => D!Meaning(o, s) = Append(B, y + x) /\ D!Binary(o.op, y, x) = y + x
      /\ o.op = "minus" => D!Meaning(o, s) = Append(B, y - x) /\ D!Binary(o.op, y, x) = y - x
      /\ o.op = "mul"   => D!Meaning(o, s) = Append(B, y * x) /\ D!Binary(o.op, y, x) = y * x
  BY <1>3 DEF D!Meaning, D!Constants, D!Nothings, D!Binary
<1> HIDE DEF y, x
<1>6. D!Binary(o.op, y, x) \in Int /\ D!Meaning(o, s) = Append(B, D!Binary(o.op, y, x))
  BY <1>4, <1>5
<1> QED
  BY <1>2, <1>6, PlainAppend DEF y, x

LEMMA MeaningType ==
  ASSUME NEW s \in Seq(Int), NEW o \in D!Operation, o.op \in D!Arithmetic,
         D!Needs(o.op) <= Len(s)
  PROVE  D!Meaning(o, s) \in Seq(Int)
<1> DEFINE n == Len(s)
           I == Int
<1>1. n \in Nat /\ o.num \in I /\ s \in Seq(I)
  BY DEF D!Operation
<1>2. /\ n >= 1 => s[n] \in Int
      /\ n >= 2 => s[n - 1] \in Int
      /\ n >= 3 => s[n - 2] \in Int
  BY <1>1
<1>3. /\ n >= 1 => SubSeq(s, 1, n - 1) \in Seq(I)
      /\ n >= 2 => SubSeq(s, 1, n - 2) \in Seq(I)
      /\ n >= 3 => SubSeq(s, 1, n - 3) \in Seq(I)
  <2>1. \A k \in 0 .. n : AllBut(s, k) \in Seq(Int)
    BY AllButFacts
  <2>2. /\ n >= 1 => 1 \in 0 .. n
        /\ n >= 2 => 2 \in 0 .. n
        /\ n >= 3 => 3 \in 0 .. n
    BY <1>1
  <2> QED
    BY <2>1, <2>2 DEF AllBut
<1>4. ASSUME NEW t \in Seq(I), NEW x \in I
      PROVE  Append(t, x) \in Seq(I)
  <2> HIDE DEF I
  <2> QED
    BY AppendProperties
<1>5. ASSUME NEW t \in Seq(Int), NEW x \in Int, NEW y \in Int
      PROVE  t \o <<x, y>> \in Seq(I)
  BY <1>4, TwoMore
<1>6. ASSUME NEW t \in Seq(Int), NEW x \in Int, NEW y \in Int, NEW z \in Int
      PROVE  t \o <<x, y, z>> \in Seq(I)
  BY <1>4, ThreeMore
<1>7. CASE o.op \in D!Constants \cup D!Nothings
  BY <1>1, <1>4, <1>7 DEF D!Meaning, D!Constants, D!Nothings
<1>8. CASE o.op \in {"dup", "drop", "neg", "plus_uconst"}
  <2>1. n >= 1
    BY <1>8 DEF D!Needs
  <2>2. s[n] \in Int /\ 0 - s[n] \in I /\ s[n] + o.num \in I /\ SubSeq(s, 1, n - 1) \in Seq(I)
    BY <1>1, <1>2, <1>3, <2>1
  <2>3. /\ Append(s, s[n]) \in Seq(I)
        /\ Append(SubSeq(s, 1, n - 1), 0 - s[n]) \in Seq(I)
        /\ Append(SubSeq(s, 1, n - 1), s[n] + o.num) \in Seq(I)
    BY <1>1, <1>4, <2>2
  <2> QED
    BY <1>8, <2>2, <2>3 DEF D!Meaning, D!Constants, D!Nothings
<1>9. CASE o.op \in {"over", "swap", "plus", "minus", "mul"}
  <2>1. n >= 2 /\ n >= 1
    BY <1>1, <1>9 DEF D!Needs
  <2>2. /\ s[n] \in Int /\ s[n - 1] \in Int
        /\ s[n - 1] + s[n] \in I /\ s[n - 1] - s[n] \in I /\ s[n - 1] * s[n] \in I
        /\ SubSeq(s, 1, n - 2) \in Seq(I)
    BY <1>1, <1>2, <1>3, <2>1
  <2>3. /\ Append(s, s[n - 1]) \in Seq(I)
        /\ SubSeq(s, 1, n - 2) \o <<s[n], s[n - 1]>> \in Seq(I)
        /\ Append(SubSeq(s, 1, n - 2), s[n - 1] + s[n]) \in Seq(I)
        /\ Append(SubSeq(s, 1, n - 2), s[n - 1] - s[n]) \in Seq(I)
        /\ Append(SubSeq(s, 1, n - 2), s[n - 1] * s[n]) \in Seq(I)
    BY <1>1, <1>4, <1>5, <2>2
  <2> QED
    BY <1>9, <2>3 DEF D!Meaning, D!Constants, D!Nothings
<1>10. CASE o.op = "rot"
  <2>1. n >= 3 /\ n >= 2 /\ n >= 1
    BY <1>1, <1>10 DEF D!Needs
  <2>2. SubSeq(s, 1, n - 3) \o <<s[n], s[n - 2], s[n - 1]>> \in Seq(I)
    BY <1>2, <1>3, <1>6, <2>1
  <2> QED
    BY <1>10, <2>2 DEF D!Meaning, D!Constants, D!Nothings
<1> QED
  BY <1>7, <1>8, <1>9, <1>10 DEF D!Arithmetic

(* The recursion has its solution. *)
LEMMA MeaningsDef ==
  ASSUME NEW e \in Seq(D!Operation), \A k \in DOMAIN e : e[k].op \in D!Arithmetic
  PROVE  LET m == D!Meanings(e)
         IN  /\ m \in [0 .. Len(e) -> Seq(Int)]
             /\ m[0] = <<>>
             /\ \A k \in 1 .. Len(e) :
                  m[k] = IF Len(m[k - 1]) < D!Needs(e[k].op) THEN <<>>
                         ELSE D!Meaning(e[k], m[k - 1])
<1> DEFINE N == Len(e)
           S == Seq(Int)
           next(k, s) == IF Len(s) < D!Needs(e[k].op) THEN <<>> ELSE D!Meaning(e[k], s)
           IsAfter(p) == p = [k \in 0 .. N |-> IF k = 0 THEN <<>> ELSE next(k, p[k - 1])]
           G == [x \in (1 .. N) \X S |-> next(x[1], x[2])]
<1>1. N \in Nat /\ <<>> \in S
  OBVIOUS
<1>2. ASSUME NEW k \in 1 .. N, NEW s \in S
      PROVE  next(k, s) \in S
  <2>1. e[k] \in D!Operation /\ e[k].op \in D!Arithmetic
    OBVIOUS
  <2>2. CASE Len(s) < D!Needs(e[k].op)
    BY <1>1, <2>2
  <2>3. CASE ~(Len(s) < D!Needs(e[k].op))
    <3>1. D!Needs(e[k].op) \in Nat
      BY DEF D!Needs
    <3>2. D!Needs(e[k].op) <= Len(s)
      BY <2>3, <3>1
    <3>3. D!Meaning(e[k], s) \in Seq(Int)
      BY <2>1, <3>2, MeaningType
    <3> QED
      BY <2>3, <3>3
  <2> QED
    BY <2>2, <2>3
<1> HIDE DEF next, S
<1>3. \A k \in 1 .. N, s \in S : G[<<k, s>>] = next(k, s)
  OBVIOUS
<1> HIDE DEF G
<1>4. Steps(G, N, S)
  BY <1>2, <1>3 DEF Steps
<1>5. PICK f : Solves(f, G, N, S, <<>>)
  <2> HIDE DEF N
  <2> QED
    BY <1>1, <1>4, Recursion
<1>6. ASSUME NEW k \in 0 .. N PROVE f[k] = IF k = 0 THEN <<>> ELSE next(k, f[k - 1])
  <2>1. CASE k = 0
    BY <1>5, <2>1 DEF Solves
  <2>2. CASE k # 0
    <3>1. k \in 1 .. N /\ k - 1 \in 0 .. N
      BY <1>1, <2>2
    <3>2. f[k - 1] \in S
      BY <1>5, <3>1 DEF Solves
    <3> QED
      BY <1>3, <1>5, <2>2, <3>1, <3>2 DEF Solves
  <2> QED
    BY <2>1, <2>2
<1>7. IsAfter(f)
  <2>1. f = [k \in 0 .. N |-> f[k]]
    BY <1>5 DEF Solves
  <2> QED
    BY <1>6, <2>1
<1> DEFINE m == CHOOSE p : IsAfter(p)
<1>8. IsAfter(m)
  <2> HIDE DEF IsAfter
  <2> QED
    BY <1>7
<1>9. D!Meanings(e) = m
  BY DEF D!Meanings, next
<1> HIDE DEF m
<1>10. ASSUME NEW k \in 0 .. N
       PROVE  m[k] = IF k = 0 THEN <<>> ELSE next(k, m[k - 1])
  BY <1>8
<1>11. 0 \in 0 .. N /\ \A k \in 1 .. N : k \in 0 .. N /\ k # 0 /\ k - 1 \in 0 .. N
  BY <1>1
<1>12. m[0] = <<>> /\ \A k \in 1 .. N : m[k] = next(k, m[k - 1])
  BY <1>10, <1>11
<1>13. \A k \in 0 .. N : m[k] \in S
  <2> DEFINE P == {k \in 0 .. N : m[k] \in S}
  <2>1. 0 \in P
    BY <1>1, <1>11, <1>12
  <2>2. ASSUME NEW k \in 1 .. N, k - 1 \in P PROVE k \in P
    BY <1>2, <1>11, <1>12, <2>2
  <2>3. \A k \in 0 .. N : k \in P
    <3> HIDE DEF P, N
    <3> QED
      BY <1>1, <2>1, <2>2, OneByOne
  <2> QED
    BY <2>3
<1>14. m \in [0 .. N -> S]
  BY <1>8, <1>13
<1> QED
  BY <1>9, <1>12, <1>14 DEF next, S

(* What a plain expression promises. *)
LEMMA PlainFacts ==
  ASSUME expr \in Seq(D!Operation), D!Plain
  PROVE  LET m == D!Meanings(expr)
         IN  /\ \A k \in 1 .. Len(expr) :
                  /\ expr[k] \in D!Operation
                  /\ expr[k].op \in D!Arithmetic
                  /\ D!Needs(expr[k].op) <= Len(m[k - 1])
                  /\ m[k] = D!Meaning(expr[k], m[k - 1])
             /\ m[0] = <<>>
             /\ m[Len(expr)] # <<>>
             /\ \A k \in 0 .. Len(expr) : Plainly(m[k])
<1> DEFINE m == D!Meanings(expr)
           N == Len(expr)
<1>1. N \in Nat /\ DOMAIN expr = 1 .. N
  OBVIOUS
<1>2. /\ \A k \in DOMAIN expr : expr[k].op \in D!Arithmetic
      /\ \A k \in DOMAIN expr : Len(m[k - 1]) >= D!Needs(expr[k].op)
      /\ \A k \in DOMAIN m : /\ Len(m[k]) <= STACK_MAX
                            /\ \A e \in D!Range(m[k]) : D!ToInt(e) = e
      /\ m[N] # <<>>
  BY DEF D!Plain
<1>3. /\ m \in [0 .. N -> Seq(Int)] /\ m[0] = <<>>
      /\ \A k \in 1 .. N : m[k] = IF Len(m[k - 1]) < D!Needs(expr[k].op) THEN <<>>
                                 ELSE D!Meaning(expr[k], m[k - 1])
  BY <1>2, MeaningsDef
<1> HIDE DEF m
<1>4. ASSUME NEW k \in 1 .. N
      PROVE  /\ expr[k] \in D!Operation
             /\ expr[k].op \in D!Arithmetic
             /\ D!Needs(expr[k].op) <= Len(m[k - 1])
             /\ m[k] = D!Meaning(expr[k], m[k - 1])
  <2>1. expr[k] \in D!Operation /\ expr[k].op \in D!Arithmetic
        /\ Len(m[k - 1]) >= D!Needs(expr[k].op)
    BY <1>1, <1>2
  <2>2. Len(m[k - 1]) \in Nat /\ D!Needs(expr[k].op) \in Nat
    <3>1. k - 1 \in 0 .. N
      BY <1>1
    <3>2. m[k - 1] \in Seq(Int)
      BY <1>3, <3>1
    <3> QED
      BY <3>2 DEF D!Needs
  <2>3. ~(Len(m[k - 1]) < D!Needs(expr[k].op))
    BY <2>1, <2>2
  <2> QED
    BY <1>3, <2>1, <2>2, <2>3
<1>5. ASSUME NEW k \in 0 .. N
      PROVE  Plainly(m[k])
  <2>1. m[k] \in Seq(Int) /\ k \in DOMAIN m
    BY <1>3
  <2>2. \A j \in 1 .. Len(m[k]) : m[k][j] \in D!Range(m[k]) /\ m[k][j] \in Int
    BY <2>1 DEF D!Range
  <2> QED
    BY <1>2, <2>1, <2>2 DEF Plainly, Fits
<1> QED
  BY <1>2, <1>3, <1>4, <1>5 DEF m

(* A call that goes on has done to the stack what DWARF says, as far as it *)
(* has come.                                                               *)
Computing ==
  D!Plain =>
    /\ status = "run" =>
         /\ i \in 1 .. Len(expr) + 1
         /\ stack = D!Meanings(expr)[i - 1]
         /\ frameRel = (\E k \in 1 .. i - 1 : expr[k].op = "fbreg")
    /\ D!DecodesRight

LEMMA DecodeKeepsComputing ==
  ASSUME D!TypeOK, Computing, D!Next
  PROVE  Computing'
<1> DEFINE m == D!Meanings(expr)
           N == Len(expr)
<1>1. expr \in Seq(D!Operation) /\ N \in Nat /\ DOMAIN expr = 1 .. N /\ i \in Nat
      /\ frameRel \in BOOLEAN
  BY DEF D!TypeOK
<1>2. expr' = expr
  BY DEF D!Next, D!PushConstant, D!Shuffle, D!Pick, D!ApplyUnary, D!ApplyBinary, D!Ignore,
         D!Skip, D!GiveUp, D!Trap, D!Finish, D!Leaves, D!Stop
<1>3. D!Plain' <=> D!Plain
  BY <1>2 DEF D!Plain, D!Meanings, D!Meaning
<1>4. D!Meanings(expr)' = m
  BY <1>2 DEF D!Meanings, D!Meaning
<1> SUFFICES ASSUME D!Plain
             PROVE  /\ status' = "run" =>
                         /\ i' \in 1 .. N + 1
                         /\ stack' = m[i' - 1]
                         /\ frameRel' = (\E k \in 1 .. i' - 1 : expr[k].op = "fbreg")
                    /\ status' = "done" =>
                         /\ offset' = D!Last(m[N])
                         /\ frameRel' = (\E k \in 1 .. N : expr[k].op = "fbreg")
  BY <1>1, <1>2, <1>3, <1>4 DEF Computing, D!DecodesRight
<1>5. status = "run"
  BY DEF D!Next, D!PushConstant, D!Shuffle, D!Pick, D!ApplyUnary, D!ApplyBinary, D!Ignore,
         D!Skip, D!GiveUp, D!Trap, D!Finish, D!At
<1>6. /\ i \in 1 .. N + 1 /\ stack = m[i - 1]
      /\ frameRel = (\E k \in 1 .. i - 1 : expr[k].op = "fbreg")
  BY <1>5 DEF Computing
<1>7. /\ \A k \in 1 .. N :
           /\ expr[k] \in D!Operation
           /\ expr[k].op \in D!Arithmetic
           /\ D!Needs(expr[k].op) <= Len(m[k - 1])
           /\ m[k] = D!Meaning(expr[k], m[k - 1])
      /\ m[N] # <<>>
      /\ \A k \in 0 .. N : Plainly(m[k])
  BY <1>1, PlainFacts
<1> DEFINE o == expr[i]
<1>8. i \in 1 .. N =>
        /\ o \in D!Operation /\ o.op \in D!Arithmetic /\ D!Needs(o.op) <= Len(stack)
        /\ Plainly(stack) /\ Plainly(D!Meaning(o, stack)) /\ m[i] = D!Meaning(o, stack)
  <2>1. i \in 1 .. N => i - 1 \in 0 .. N /\ i \in 0 .. N
    BY <1>1
  <2> HIDE DEF m, N
  <2> QED
    BY <1>6, <1>7, <2>1
<1> HIDE DEF m
<1>9. ASSUME NEW ops, D!At(ops)
      PROVE  i \in 1 .. N /\ o.op \in ops
  BY <1>1, <1>9 DEF D!At
<1>10. ASSUME i \in 1 .. N, D!Leaves(m[i]),
              frameRel' = (frameRel \/ o.op = "fbreg")
       PROVE  /\ status' = "run" =>
                   /\ i' \in 1 .. N + 1
                   /\ stack' = m[i' - 1]
                   /\ frameRel' = (\E k \in 1 .. i' - 1 : expr[k].op = "fbreg")
              /\ status' # "done"
  <2>1. i' = i + 1 /\ stack' = m[i] /\ status' = "run"
    BY <1>5, <1>10 DEF D!Leaves
  <2>2. i' \in 1 .. N + 1 /\ i' - 1 = i
    BY <1>1, <1>10, <2>1
  <2>3. 1 .. i = (1 .. i - 1) \cup {i}
    BY <1>10
  <2>4. frameRel' = (\E k \in 1 .. i : expr[k].op = "fbreg")
    BY <1>6, <1>10, <2>3
  <2> QED
    BY <2>1, <2>2, <2>4
<1>11. CASE D!PushConstant
  <2>1. i \in 1 .. N /\ o.op \in D!Constants
    BY <1>9, <1>11 DEF D!PushConstant
  <2>2. D!Push(stack, o.num) = m[i]
    BY <1>8, <2>1, ConstantsRight
  <2> QED
    BY <1>10, <1>11, <2>1, <2>2 DEF D!PushConstant
<1>12. CASE D!Shuffle
  <2>1. i \in 1 .. N /\ o.op \in D!Shuffles \ {"pick"}
    BY <1>9, <1>12 DEF D!Shuffle
  <2>2. o.op \in {"dup", "drop", "over", "swap", "rot"} /\ o.op # "fbreg"
    BY <2>1 DEF D!Shuffles
  <2>3. D!Shuffled(o.op, stack) = m[i]
    BY <1>8, <2>1, <2>2, ShufflesRight
  <2> QED
    BY <1>1, <1>10, <1>12, <2>1, <2>2, <2>3 DEF D!Shuffle
<1>13. CASE D!Pick
  BY <1>8, <1>9, <1>13 DEF D!Pick, D!Arithmetic, D!Constants, D!Nothings
<1>14. CASE D!ApplyUnary
  <2>1. i \in 1 .. N /\ o.op \in D!Unaries
    BY <1>9, <1>14 DEF D!ApplyUnary
  <2>2. o.op \in {"neg", "plus_uconst"} /\ o.op # "fbreg"
    BY <1>8, <2>1 DEF D!Unaries, D!Arithmetic, D!Constants, D!Nothings
  <2>3. D!Push(D!Pop(stack), D!Unary(o, D!Top(stack))) = m[i]
    BY <1>8, <2>1, <2>2, UnariesRight
  <2> QED
    BY <1>1, <1>10, <1>14, <2>1, <2>2, <2>3 DEF D!ApplyUnary
<1>15. CASE D!ApplyBinary
  <2>1. i \in 1 .. N /\ o.op \in D!Binaries
    BY <1>9, <1>15 DEF D!ApplyBinary
  <2>2. o.op \in {"plus", "minus", "mul"} /\ o.op # "fbreg"
    BY <1>8, <2>1 DEF D!Binaries, D!Orders, D!Arithmetic, D!Constants, D!Nothings
  <2>3. D!Push(D!Pop(D!Pop(stack)), D!Binary(o.op, D!Top(D!Pop(stack)), D!Top(stack))) = m[i]
    BY <1>8, <2>1, <2>2, BinariesRight
  <2> QED
    BY <1>1, <1>10, <1>15, <2>1, <2>2, <2>3 DEF D!ApplyBinary
<1>16. CASE D!Ignore
  <2>1. i \in 1 .. N /\ o.op \in D!Nothings \cup {"bra"}
    BY <1>9, <1>16 DEF D!Ignore
  <2>2. o.op \in D!Nothings /\ o.op # "fbreg"
    BY <1>8, <2>1 DEF D!Arithmetic, D!Constants, D!Nothings
  <2>3. D!At(D!Nothings)
    BY <1>1, <1>5, <2>1, <2>2 DEF D!At
  <2>4. D!Meaning(o, stack) = stack
    BY <2>2 DEF D!Meaning, D!Constants, D!Nothings
  <2> QED
    BY <1>1, <1>8, <1>10, <1>16, <2>1, <2>2, <2>3, <2>4 DEF D!Ignore
<1>17. CASE D!Skip
  BY <1>8, <1>9, <1>17 DEF D!Skip, D!Arithmetic, D!Constants, D!Nothings
<1>18. CASE D!GiveUp
  BY <1>8, <1>9, <1>18 DEF D!GiveUp, D!RunTime, D!Arithmetic, D!Constants, D!Nothings
<1>19. CASE D!Trap
  BY <1>5, <1>19 DEF D!Trap, D!Stop
<1>20. CASE D!Finish
  <2>1. i = N + 1 /\ i - 1 = N
    BY <1>1, <1>6, <1>20 DEF D!Finish
  <2>2. status' = "done" /\ offset' = D!Top(stack) /\ frameRel' = frameRel
    BY <1>20 DEF D!Finish, D!Stop
  <2>3. stack = m[N] /\ Plainly(stack) /\ stack # <<>>
    BY <1>1, <1>6, <1>7, <2>1
  <2>4. D!Top(stack) = stack[Len(stack)]
    <3>1. stack \in Seq(Int) /\ Len(stack) \in Nat
      BY <2>3 DEF Plainly
    <3>2. Len(stack) >= 1
      BY <2>3, <3>1
    <3> QED
      BY <2>3, <3>2, TopEntries
  <2>5. D!Last(stack) = stack[Len(stack)]
    BY DEF D!Last
  <2> QED
    BY <1>6, <2>1, <2>2, <2>3, <2>4, <2>5
<1> QED
  BY <1>11, <1>12, <1>13, <1>14, <1>15, <1>16, <1>17, <1>18, <1>19, <1>20 DEF D!Next

-----------------------------------------------------------------------------
(* The whole command. *)

LEMMA LocationsHere ==
  ASSUME Asked, NEW d \in Dies, unit[d].loc # NoLoc
  PROVE  unit[d].loc \in Seq(D!Operation)
<1>1. PICK q \in Queries : unit = q.unit
  BY DEF Asked
<1>2. unit[d].loc \in {q.unit[x].loc : x \in DOMAIN q.unit}
  BY <1>1 DEF Dies
<1>3. unit[d].loc \in UNION {{r.unit[x].loc : x \in DOMAIN r.unit} : r \in Queries}
  BY <1>2
<1>4. unit[d].loc \in Locations
  BY <1>3 DEF Locations
<1> QED
  BY <1>4, DecoderAssumption

(* A walk that ends has found what it was for.                             *)
Located ==
  /\ kind = "location" /\ state = "done" => v \in Dies /\ unit[v].loc # NoLoc
  /\ kind = "type" /\ state = "done" => res.die \in Dies

LEMMA NextKeepsLocated ==
  ASSUME TypeOK, NoDie \notin Dies, Located, Next
  PROVE  Located'
<1>1. UNCHANGED <<unit, kind>>
  BY DEF Next, Visit, Take, ReadNoName, ShowVariable, Pass, WalkEnds, Unwrap, Resolved
<1>2. ASSUME kind = "location", state' = "done"
      PROVE  v' \in Dies /\ unit[v'].loc # NoLoc
  BY <1>2 DEF Next, Visit, Take, ReadNoName, ShowVariable, Pass, Visiting, WalkEnds, Has,
     Unwrap, Resolved, TypeOK, Listings
<1>3. ASSUME kind = "type", state' = "done"
      PROVE  res'.die \in Dies
  BY <1>3 DEF Next, Visit, Take, ReadNoName, ShowVariable, Pass, Visiting, WalkEnds, Has,
     Unwrap, Resolved, TypeOK, Listings
<1> QED
  BY <1>1, <1>2, <1>3 DEF Located, Dies

LEMMA NoEntries == <<>> \in Stacks
<1>1. <<>> \in Seq(Longs)
  OBVIOUS
<1> QED
  BY <1>1, WidthsHold, EmptySeq DEF Stacks, Widths

LEMMA TypesFromStacks ==
  ASSUME expr \in Seq(D!Operation), i = 1, stack \in Stacks, frameRel \in BOOLEAN,
         status \in D!Statuses, offset \in Int
  PROVE  D!TypeOK
BY DEF D!TypeOK, Stacks, Longs

LEMMA PlainStart == expr \in Seq(D!Operation) /\ D!Plain => D!Meanings(expr)[0] = <<>>
BY PlainFacts

(* What holds of the whole command, of whatever units it is asked.         *)
CommandInv == IInv /\ InspectTypeOK /\ Located /\ Computing

LEMMA InitCommand ==
  ASSUME InspectInit
  PROVE  CommandInv
<1>1. Init /\ IInv /\ TypeOK
  BY InitIInv DEF InspectInit, IInv
<1>2. D!TypeOK
  <2>1. expr = <<>> /\ i = 1 /\ stack = <<>> /\ frameRel = FALSE /\ status = "done" /\ offset = 0
    BY DEF InspectInit
  <2>2. expr \in Seq(D!Operation) /\ stack \in Stacks
    BY <2>1, NoEntries
  <2>3. frameRel \in BOOLEAN
    BY <2>1
  <2>4. status \in D!Statuses /\ i = 1 /\ offset \in Int
    BY <2>1 DEF D!Statuses
  <2> QED
    BY <2>2, <2>3, <2>4, TypesFromStacks
<1>3. InspectTypeOK
  BY <1>1, <1>2 DEF InspectTypeOK, InspectInit
<1>4. Located
  BY <1>1 DEF Init, Located
<1>5. ~D!Plain
  <2>1. expr = <<>>
    BY DEF InspectInit
  <2>2. Len(expr) = 0 /\ expr \in Seq(D!Operation)
    BY <2>1
  <2> QED
    BY <2>2, PlainFacts
<1> QED
  BY <1>1, <1>3, <1>4, <1>5 DEF CommandInv, Computing

LEMMA StepKeepsCommand ==
  ASSUME CommandInv, [InspectNext]_inspectVars
  PROVE  CommandInv'
<1>1. /\ IInv /\ TypeOK /\ Asked /\ D!TypeOK /\ NoDie \notin Dies
      /\ stage \in {"search", "decode", "end"} /\ loc \in Int /\ printed \subseteq Int
      /\ \A d \in Dies : unit[d].size \in Nat
      /\ Located /\ Computing
  BY AskedFacts DEF CommandInv, InspectTypeOK, IInv
<1>2. ASSUME UNCHANGED vars
      PROVE  IInv' /\ TypeOK' /\ Located'
  <2>1. IInv'
    BY <1>1, <1>2, NextKeepsIInv
  <2>2. Located'
    BY <1>1, <1>2 DEF vars, Located, Dies
  <2> QED
    BY <2>1, <2>2 DEF IInv
<1>3. ASSUME UNCHANGED decoderVars
      PROVE  D!TypeOK' /\ Computing'
  <2>1. /\ expr' = expr /\ i' = i /\ stack' = stack /\ frameRel' = frameRel
        /\ status' = status /\ offset' = offset
    BY <1>3 DEF decoderVars
  <2>2. D!TypeOK'
    BY <1>1, <2>1 DEF D!TypeOK
  <2>3. D!Meanings(expr)' = D!Meanings(expr)
    BY <2>1 DEF D!Meanings, D!Meaning
  <2>4. D!Plain' <=> D!Plain
    BY <2>1, <2>3 DEF D!Plain
  <2> QED
    BY <1>1, <2>1, <2>2, <2>3, <2>4 DEF Computing, D!DecodesRight
<1>4. CASE Search
  <2>1. Next /\ UNCHANGED <<decoderVars, stage, loc, printed>>
    BY <1>4 DEF Search
  <2>2. IInv' /\ TypeOK' /\ Located'
    BY <1>1, <2>1, NextKeepsIInv, NextKeepsLocated DEF IInv
  <2> QED
    BY <1>1, <1>3, <2>1, <2>2 DEF CommandInv, InspectTypeOK
<1>5. CASE DecodeLocation
  <2>1. /\ kind = "location" /\ state = "done"
        /\ stage' = "decode" /\ expr' = unit[v].loc /\ i' = 1 /\ stack' = <<>>
        /\ frameRel' = FALSE /\ status' = "run" /\ UNCHANGED <<vars, offset, loc, printed>>
    BY <1>5 DEF DecodeLocation
  <2>2. expr' \in Seq(D!Operation)
    BY <1>1, <2>1, LocationsHere DEF Located
  <2>3. D!TypeOK'
    <3>1. stack' \in Seq(-D!Power[LongBits - 1] .. D!Power[LongBits - 1] - 1)
          /\ Len(stack') <= STACK_MAX
      BY <2>1, NoEntries DEF Stacks, Longs
    <3>2. frameRel' \in BOOLEAN
      BY <2>1
    <3>3. status' \in D!Statuses /\ i' \in Nat \ {0} /\ offset' \in Int
      BY <1>1, <2>1 DEF D!TypeOK, D!Statuses
    <3> QED
      BY <2>2, <3>1, <3>2, <3>3 DEF D!TypeOK
  <2>4. Computing'
    <3>1. (expr \in Seq(D!Operation) /\ D!Plain => D!Meanings(expr)[0] = <<>>)'
      BY PlainStart, PTL
    <3>2. Len(expr') \in Nat /\ 1 \in 1 .. Len(expr') + 1 /\ 1 - 1 = 0 /\ 1 .. 0 = {}
      BY <2>2
    <3> QED
      BY <2>1, <2>2, <3>1, <3>2 DEF Computing, D!DecodesRight
  <2> QED
    BY <1>1, <1>2, <2>1, <2>3, <2>4 DEF CommandInv, InspectTypeOK
<1>6. CASE Decode
  <2>1. D!Next /\ UNCHANGED <<vars, stage, loc, printed>>
    BY <1>6 DEF Decode
  <2>2. D!TypeOK' /\ Computing'
    BY <1>1, <2>1, DecodeKeepsTypes, DecodeKeepsComputing
  <2> QED
    BY <1>1, <1>2, <2>1, <2>2 DEF CommandInv, InspectTypeOK
<1>7. CASE SearchType
  <2>1. /\ loc' = offset /\ stage' = "search" /\ kind' = "type" /\ state' = "walk"
        /\ UNCHANGED <<decoderVars, printed>>
    BY <1>7 DEF SearchType
  <2>2. IInv' /\ TypeOK'
    BY <1>1, <1>7, SearchTypeKeepsWalk DEF WalkInv, IInv
  <2>3. Located'
    BY <2>1 DEF Located
  <2>4. loc' \in Int
    BY <1>1, <2>1 DEF D!TypeOK
  <2> QED
    BY <1>1, <1>3, <2>1, <2>2, <2>3, <2>4 DEF CommandInv, InspectTypeOK
<1>8. CASE ShowBytes
  <2> DEFINE size == unit[res.die].size
  <2>1. /\ stage' = "end" /\ UNCHANGED <<vars, decoderVars, loc>>
        /\ printed' = {FromFramePtr + size - k : k \in 1 .. size}
        /\ kind = "type" /\ state = "done"
    BY <1>8 DEF ShowBytes
  <2>2. FromFramePtr \in Int /\ size \in Nat
    BY <1>1, <2>1 DEF FromFramePtr, Located
  <2>3. printed' \subseteq Int
    BY <2>1, <2>2
  <2> QED
    BY <1>1, <1>2, <1>3, <2>1, <2>3 DEF CommandInv, InspectTypeOK
<1>9. CASE UNCHANGED inspectVars
  BY <1>1, <1>2, <1>3, <1>9 DEF inspectVars, CommandInv, InspectTypeOK
<1> QED
  BY <1>4, <1>5, <1>6, <1>7, <1>8, <1>9 DEF InspectNext

(* The stack stays in its array and its entries longs, at any operations,  *)
(* and every variable of the command has its type (stack.c, dwarfclient.c: *)
(* 91-297).                                                                *)
THEOREM InspectTypes == InspectSpec => []InspectTypeOK
<1>1. InspectInit => CommandInv
  BY InitCommand
<1>2. CommandInv /\ [InspectNext]_inspectVars => CommandInv'
  BY StepKeepsCommand
<1>3. CommandInv => InspectTypeOK
  BY DEF CommandInv
<1> QED
  BY <1>1, <1>2, <1>3, PTL DEF InspectSpec

(* A plain expression is decoded to what DWARF gives it, at any length and *)
(* any widths (dwarfclient.c:291).                                         *)
THEOREM DecoderIsRight == InspectSpec => []DecodesRight
<1>1. InspectInit => CommandInv
  BY InitCommand
<1>2. CommandInv /\ [InspectNext]_inspectVars => CommandInv'
  BY StepKeepsCommand
<1>3. CommandInv => DecodesRight
  BY DEF CommandInv, Computing, DecodesRight, D!DecodesRight
<1> QED
  BY <1>1, <1>2, <1>3, PTL DEF InspectSpec

-----------------------------------------------------------------------------
(* What the command prints. *)

DataProper == \A q \in Queries : ProperData(q.unit)

LEMMA DataHere ==
  ASSUME DataProper, Asked
  PROVE  ProperData(unit) /\ \A d \in Dies : unit[d].loc # NoLoc => unit[d].loc \in Seq(D!Operation)
<1>1. ProperData(unit)
  BY DEF DataProper, Asked
<1> QED
  BY <1>1, LocationsHere

(* C means one declaration at most.                                        *)
LEMMA OneInnermost ==
  ASSUME DataProper, Asked, NEW d \in Innermost, NEW e \in Innermost
  PROVE  d = e
<1> DEFINE p == unit[d].parent
           q == unit[e].parent
<1>1. /\ Tree(unit) /\ Dies = 1 .. Len(unit) /\ DOMAIN unit = 1 .. Len(unit)
      /\ varname \in Names /\ ProperData(unit)
  BY AskedFacts, DataHere DEF Dies
<1>2. /\ d \in Dies /\ Visible(d) /\ unit[d].name = varname
      /\ e \in Dies /\ Visible(e) /\ unit[e].name = varname
      /\ Over(unit, d) = Over(unit, e)
  BY DEF Innermost, ScopesOf, Over
<1>3. Over(unit, d) # {} /\ Declares(d) /\ Declares(e)
  BY <1>2 DEF Visible, ScopesOf, Over
<1>4. /\ p \in 2 .. Len(unit) /\ Over(unit, d) = {p} \cup Over(unit, p)
      /\ q \in 2 .. Len(unit) /\ Over(unit, e) = {q} \cup Over(unit, q)
  BY <1>1, <1>2, <1>3, OverParent, ParentFacts
<1>5. /\ p \in 1 .. Len(unit) /\ q \in 1 .. Len(unit) /\ p \in Nat /\ q \in Nat
  BY <1>1, <1>4 DEF Tree
<1>6. Over(unit, p) \subseteq 2 .. p - 1 /\ Over(unit, q) \subseteq 2 .. q - 1
  BY <1>1, <1>5, OverRange
<1>7. p = q
  <2>1. p = q \/ (p \in Over(unit, q) /\ q \in Over(unit, p))
    BY <1>2, <1>4
  <2>2. p \in Over(unit, q) => p < q
    BY <1>5, <1>6
  <2>3. q \in Over(unit, p) => q < p
    BY <1>5, <1>6
  <2> QED
    BY <1>5, <2>1, <2>2, <2>3
<1>8. varname # NoName
  BY <1>1, LookupAssumption
<1> QED
  BY <1>1, <1>2, <1>3, <1>7, <1>8 DEF ProperData, Declares, Dies

(* A location that is one distance from the frame base.                    *)
Simple(e) ==
  Len(e) = 1 /\ e[1].op = "fbreg" /\ D!ToInt(D!ToLong(e[1].num)) = e[1].num

(* How the decoder takes such a location.                                  *)
Decoding ==
  Simple(expr) =>
    \/ status = "run" /\ i = 1 /\ stack = <<>>
    \/ status = "run" /\ i = 2 /\ stack = <<D!ToLong(expr[1].num)>>
    \/ status = "done" /\ offset = expr[1].num

LocKnown ==
  Regular /\ PrefixFree =>
    \A d \in Innermost :
      /\ unit[d].loc # NoLoc
      /\ Simple(unit[d].loc) => loc = unit[d].loc[1].num

StageInv ==
  /\ Located
  /\ stage = "decode" =>
       /\ kind = "location" /\ state = "done" /\ expr = unit[v].loc
       /\ Decoding
  /\ kind = "type" => LocKnown
  /\ stage = "end" =>
       /\ kind = "type" /\ state = "done"
       /\ printed = {FromFramePtr + unit[res.die].size - k : k \in 1 .. unit[res.die].size}

LEMMA DecodeKeeps ==
  ASSUME Decoding, expr \in Seq(D!Operation), D!Next
  PROVE  Decoding'
<1>1. expr' = expr
  BY DEF D!Next, D!PushConstant, D!Shuffle, D!Pick, D!ApplyUnary, D!ApplyBinary, D!Ignore,
         D!Skip, D!GiveUp, D!Trap, D!Finish, D!Leaves, D!Stop
<1> SUFFICES ASSUME Simple(expr)
             PROVE  \/ status' = "run" /\ i' = 1 /\ stack' = <<>>
                    \/ status' = "run" /\ i' = 2 /\ stack' = <<D!ToLong(expr[1].num)>>
                    \/ status' = "done" /\ offset' = expr[1].num
  BY <1>1 DEF Decoding
<1> DEFINE n == expr[1].num
<1>2. DOMAIN expr = {1} /\ expr[1].op = "fbreg" /\ D!ToInt(D!ToLong(n)) = n
  BY DEF Simple
<1>3. CASE status = "run" /\ i = 1 /\ stack = <<>>
  <2>1. D!At({"fbreg"}) /\ \A ops : D!At(ops) => "fbreg" \in ops
    BY <1>2, <1>3 DEF D!At
  <2>2. D!PushConstant
    BY <1>2, <1>3, <2>1 DEF D!Next, D!Shuffle, D!Pick, D!ApplyUnary, D!ApplyBinary, D!Ignore,
       D!Skip, D!GiveUp, D!Trap, D!Finish, D!Shuffles, D!Unaries, D!Binaries, D!Orders,
       D!Nothings, D!RunTime
  <2>3. stack' = D!Push(stack, n) /\ i' = 2 /\ status' = "run"
    BY <1>3, <2>2 DEF D!PushConstant, D!Leaves
  <2>4. D!Push(<<>>, n) = <<D!ToLong(n)>>
    <3>1. Len(<<>>) = 0 /\ STACK_MAX \in Nat \ {0}
      BY EmptySeq, DecoderAssumption DEF D!WidthAssumption
    <3>2. D!Push(<<>>, n) = Append(<<>>, D!ToLong(n))
      BY <3>1 DEF D!Push
    <3> QED
      BY <3>2
  <2> QED
    BY <1>3, <2>3, <2>4
<1>4. CASE status = "run" /\ i = 2 /\ stack = <<D!ToLong(n)>>
  <2>1. D!Finish
    BY <1>2, <1>4 DEF D!Next, D!At, D!PushConstant, D!Shuffle, D!Pick, D!ApplyUnary,
       D!ApplyBinary, D!Ignore, D!Skip, D!GiveUp, D!Trap
  <2>2. status' = "done" /\ offset' = D!Top(stack)
    BY <2>1 DEF D!Finish, D!Stop
  <2>3. D!Top(stack) = n
    <3> DEFINE x == D!ToLong(n)
    <3> HIDE DEF x
    <3>1. Len(<<x>>) = 1 /\ <<x>>[1] = x /\ <<x>> # <<>>
      OBVIOUS
    <3>2. D!Top(<<x>>) = D!ToInt(x)
      BY <3>1 DEF D!Top, D!Last
    <3> QED
      BY <1>2, <1>4, <3>2 DEF x
  <2> QED
    BY <2>2, <2>3
<1>5. status = "run"
  BY DEF D!Next, D!PushConstant, D!Shuffle, D!Pick, D!ApplyUnary, D!ApplyBinary, D!Ignore,
         D!Skip, D!GiveUp, D!Trap, D!Finish, D!At
<1> QED
  BY <1>3, <1>4, <1>5 DEF Decoding

LEMMA StepKeepsStage ==
  ASSUME ProperUnits, DataProper, WalkInv, StageInv, [InspectNext]_inspectVars
  PROVE  StageInv'
<1>1. /\ Asked /\ TypeOK /\ EndInv /\ FindsInnermost
      /\ NoDie \notin Dies
  BY AskedFacts, FoundIsInnermost DEF WalkInv, IInv
<1>2. UNCHANGED <<unit, addr, varname>>
  BY DEF InspectNext, Search, Next, Visit, Take, ReadNoName, ShowVariable, Pass, WalkEnds,
         Unwrap, Resolved, vars, DecodeLocation, Decode, SearchType, ShowBytes, inspectVars
<1>3. Innermost' = Innermost /\ (Regular' <=> Regular) /\ (PrefixFree' <=> PrefixFree)
  BY <1>2 DEF Innermost, Regular, PrefixFree, Visible, Matches, Declares, ScopesOf, Dies
<1>4. ASSUME UNCHANGED loc PROVE LocKnown' <=> LocKnown
  BY <1>2, <1>3, <1>4 DEF LocKnown
<1>5. ASSUME UNCHANGED vars
      PROVE  /\ UNCHANGED <<unit, kind, v, state, res>>
             /\ Located'
  BY <1>5 DEF vars, StageInv, Located, Dies
<1>6. CASE Search
  <2>1. stage = "search" /\ UNCHANGED <<decoderVars, stage, loc, printed, kind>>
    BY <1>6 DEF Search, Next, Visit, Take, ReadNoName, ShowVariable, Pass, WalkEnds,
       Unwrap, Resolved
  <2>2. Located'
    BY <1>1, <1>6, NextKeepsLocated DEF StageInv, Search
  <2> QED
    BY <1>2, <1>4, <2>1, <2>2 DEF StageInv, Dies
<1>7. CASE DecodeLocation
  <2>1. /\ UNCHANGED <<vars, loc, printed>> /\ stage' = "decode"
        /\ kind = "location" /\ state = "done"
        /\ expr' = unit[v].loc /\ i' = 1 /\ stack' = <<>> /\ status' = "run"
    BY <1>7 DEF DecodeLocation
  <2>2. Decoding'
    BY <2>1 DEF Decoding
  <2> QED
    BY <1>4, <1>5, <2>1, <2>2 DEF StageInv
<1>8. CASE Decode
  <2>1. UNCHANGED <<vars, stage, loc, printed>> /\ stage = "decode" /\ D!Next
    BY <1>8 DEF Decode
  <2>2. expr' = expr
    BY <2>1 DEF D!Next, D!PushConstant, D!Shuffle, D!Pick, D!ApplyUnary, D!ApplyBinary,
       D!Ignore, D!Skip, D!GiveUp, D!Trap, D!Finish, D!Leaves, D!Stop
  <2>3. Decoding'
    BY <1>1, <2>1, DecodeKeeps, DataHere DEF StageInv, Located
  <2> QED
    BY <1>4, <1>5, <2>1, <2>2, <2>3 DEF StageInv
<1>9. CASE SearchType
  <2>1. /\ stage = "decode" /\ status \in {"done", "gaveup"}
        /\ loc' = offset /\ stage' = "search" /\ kind' = "type" /\ state' = "walk"
    BY <1>9 DEF SearchType
  <2>2. /\ kind = "location" /\ state = "done" /\ todo = <<>>
        /\ expr = unit[v].loc /\ Decoding /\ unit[v].loc # NoLoc
    BY <1>1, <2>1 DEF StageInv, Located, EndInv
  <2>3. ASSUME Regular, PrefixFree, NEW d \in Innermost
        PROVE  /\ unit[d].loc # NoLoc
               /\ Simple(unit[d].loc) => offset = unit[d].loc[1].num
    <3>1. v \in Innermost
      BY <1>1, <2>2, <2>3 DEF FindsInnermost, WalkOver, Searches
    <3>2. v = d
      BY <1>1, <2>3, <3>1, OneInnermost
    <3> QED
      BY <2>1, <2>2, <2>3, <3>2 DEF Decoding
  <2>4. LocKnown'
    BY <1>2, <1>3, <2>1, <2>3 DEF LocKnown
  <2> QED
    BY <2>1, <2>4 DEF StageInv, Located
<1>10. CASE ShowBytes
  <2>1. /\ UNCHANGED <<vars, decoderVars, loc>> /\ stage' = "end"
        /\ kind = "type" /\ state = "done"
        /\ printed' = {FromFramePtr + unit[res.die].size - k : k \in 1 .. unit[res.die].size}
    BY <1>10 DEF ShowBytes
  <2>2. FromFramePtr' = FromFramePtr
    BY <2>1 DEF FromFramePtr
  <2> QED
    BY <1>4, <1>5, <2>1, <2>2 DEF StageInv
<1>11. CASE UNCHANGED inspectVars
  <2>1. UNCHANGED <<vars, stage, loc, printed, expr, i, stack, status, offset>>
    BY <1>11 DEF inspectVars, decoderVars
  <2>2. FromFramePtr' = FromFramePtr /\ (Decoding' <=> Decoding)
    BY <2>1 DEF FromFramePtr, Decoding
  <2> QED
    BY <1>4, <1>5, <2>1, <2>2 DEF StageInv
<1> QED
  BY <1>6, <1>7, <1>8, <1>9, <1>10, <1>11 DEF InspectNext

LEMMA EmptyCount ==
  ASSUME NEW u, NEW c, NEW t, NEW n \in Nat, Before(u, c, t, n) = 0
  PROVE  \A k \in 1 .. n - 1 : u[c[k]].tag # t
<1> DEFINE S == {k \in 1 .. n - 1 : u[c[k]].tag = t}
<1>1. IsFiniteSet(S)
  <2>1. IsFiniteSet(1 .. n - 1)
    BY FS_Interval
  <2> QED
    BY <2>1, FS_Subset
<1>2. S = {}
  <2>1. Cardinality(S) = 0
    BY DEF Before
  <2> HIDE DEF S
  <2> QED
    BY <1>1, <2>1, FS_EmptySet
<1> QED
  BY <1>2

(* Without a pointer or an array on the way the last type has the size.    *)
LEMMA SizeAtTheEnd ==
  ASSUME DataProper, TypesEnd, Asked, NEW d \in Dies, Declares(d),
         Reached(unit, res, d, Len(ChainIn(unit, d))), res.points = 0, res.arrs = 0
  PROVE  Sizeof(d) = unit[res.die].size /\ unit[res.die].size \in Nat
<1> DEFINE c == ChainIn(unit, d)
           n == Len(c)
           named == {k \in DOMAIN c : unit[c[k]].size > 0}
<1>1. /\ unit[d].type # NoDie /\ res.die = c[n]
      /\ Before(unit, c, "pointer_type", n) = 0 /\ Before(unit, c, "array_type", n) = 0
  BY DEF Reached, Counted
<1>2. /\ IsChain(unit, unit[d].type, c) /\ NoDie \notin DOMAIN unit /\ ProperData(unit)
      /\ \A e \in DOMAIN unit : unit[e].size \in Nat
  BY <1>1, ChainHere, AskedFacts, DataHere DEF Dies
<1> DEFINE types == {unit[e].type : e \in DOMAIN unit} \ {NoDie}
<1>3. /\ \E k \in DOMAIN c : unit[c[k]].size > 0
      /\ \A t \in types :
           unit[t].type # NoDie /\ unit[t].tag \notin {"pointer_type", "array_type"} =>
             unit[t].size = 0
  BY <1>1, <1>2 DEF ProperData, Declares, ChainIn, Dies
<1> HIDE DEF c
<1>4. /\ n \in Nat \ {0} /\ DOMAIN c = 1 .. n /\ c[1] = unit[d].type
      /\ \A k \in 1 .. n : c[k] \in DOMAIN unit
      /\ \A k \in 1 .. n - 1 : unit[c[k]].type = c[k + 1]
  BY <1>2, LenProperties DEF IsChain
<1>5. ASSUME NEW k \in 1 .. n PROVE c[k] \in types
  <2>1. CASE k = 1
    BY <1>1, <1>4, <2>1 DEF Dies
  <2>2. CASE k # 1
    <3>1. k - 1 \in 1 .. n - 1 /\ k - 1 \in 1 .. n /\ (k - 1) + 1 = k
      BY <1>4, <2>2
    <3>2. unit[c[k - 1]].type = c[(k - 1) + 1] /\ c[k - 1] \in DOMAIN unit
      BY <1>4, <3>1
    <3> QED
      BY <1>2, <1>4, <3>1, <3>2
  <2> QED
    BY <2>1, <2>2
<1> HIDE DEF types
<1>6. ASSUME NEW k \in 1 .. n - 1 PROVE unit[c[k]].size = 0
  <2>1. unit[c[k]].tag \notin {"pointer_type", "array_type"}
    BY <1>1, <1>4, EmptyCount
  <2>2. k \in 1 .. n /\ k + 1 \in 1 .. n
    BY <1>4
  <2>3. unit[c[k]].type # NoDie /\ c[k] \in types
    BY <1>2, <1>4, <1>5, <2>2
  <2> QED
    BY <1>3, <2>1, <2>3
<1>7. named = {n}
  <2>1. ASSUME NEW k \in 1 .. n PROVE k = n \/ k \in 1 .. n - 1
    <3>1. n \in Nat
      BY <1>4
    <3> HIDE DEF n
    <3> QED
      BY <3>1
  <2>2. ASSUME NEW k \in named PROVE k = n
    <3>1. k \in 1 .. n /\ unit[c[k]].size > 0
      BY <1>4
    <3>2. ~(0 > 0)
      OBVIOUS
    <3> QED
      BY <1>6, <2>1, <3>1, <3>2
  <2>3. named # {}
    BY <1>3
  <2> QED
    BY <2>2, <2>3
<1>8. Sizeof(d) = unit[c[n]].size
  <2>1. Sizeof(d) = unit[c[CHOOSE k \in named : \A l \in named : k <= l]].size
    BY DEF Sizeof, Chain, ChainIn, c
  <2>2. \A k \in named : k = n
    BY <1>7
  <2>3. \E k \in named : \A l \in named : k <= l
    <3>1. n <= n
      BY <1>4
    <3> HIDE DEF named, n
    <3> QED
      BY <1>7, <3>1
  <2> HIDE DEF named
  <2>4. (CHOOSE k \in named : \A l \in named : k <= l) \in named
    BY <2>3
  <2> QED
    BY <2>1, <2>2, <2>4
<1> QED
  BY <1>1, <1>2, <1>4, <1>8

LEMMA PrintsTheObject ==
  ASSUME ProperUnits, TypesEnd, DataProper, FrameBase = 16, WalkInv, StageInv
  PROVE  InspectReads
<1> SUFFICES ASSUME stage = "end", Regular, PrefixFree, res.points = 0, res.arrs = 0,
                    NEW d \in Innermost,
                    Len(unit[d].loc) = 1, unit[d].loc[1].op = "fbreg", unit[d].loc[1].num < 0
             PROVE  printed = {FrameBase + unit[d].loc[1].num + k : k \in 0 .. Sizeof(d) - 1}
  BY DEF InspectReads
<1>1. /\ Asked /\ EndInv /\ TypesInv /\ FindsInnermost
      /\ kind = "type" /\ state = "done" /\ LocKnown
  BY FoundIsInnermost DEF WalkInv, IInv, StageInv
<1>2. v \in Innermost
  BY <1>1 DEF FindsInnermost, WalkOver, Searches, EndInv
<1>3. v = d /\ d \in Dies /\ Declares(d)
  BY <1>1, <1>2, OneInnermost DEF Innermost, Visible
<1>4. Sizeof(d) = unit[res.die].size /\ unit[res.die].size \in Nat
  BY <1>1, <1>3, SizeAtTheEnd DEF TypesInv
<1> DEFINE num == unit[d].loc[1].num
           size == unit[res.die].size
<1>5. loc = num
  <2>1. Simple(unit[d].loc)
    BY <1>1, <1>3, DataHere DEF ProperData, Simple, Declares, Dies
  <2> QED
    BY <1>1, <2>1 DEF LocKnown
<1>6. num \in Int
  <2>1. unit[d].loc \in Seq(D!Operation) /\ 1 \in DOMAIN unit[d].loc
    BY <1>1, <1>3, DataHere DEF LocKnown
  <2>2. unit[d].loc[1] \in D!Operation
    BY <2>1
  <2> QED
    BY <2>2 DEF D!Operation
<1>7. FromFramePtr = num + 16
  BY <1>5 DEF FromFramePtr
<1>8. printed = {num + 16 + size - k : k \in 1 .. size}
  BY <1>7 DEF StageInv
<1> HIDE DEF num, size
<1>9. {num + 16 + size - k : k \in 1 .. size} = {16 + num + k : k \in 0 .. size - 1}
  <2>1. size \in Nat
    BY <1>4 DEF size
  <2>2. ASSUME NEW k \in 1 .. size
        PROVE  size - k \in 0 .. size - 1 /\ num + 16 + size - k = 16 + num + (size - k)
    BY <1>6, <2>1
  <2>3. ASSUME NEW k \in 0 .. size - 1
        PROVE  size - k \in 1 .. size /\ num + 16 + size - (size - k) = 16 + num + k
    BY <1>6, <2>1
  <2> QED
    BY <2>2, <2>3
<1> QED
  BY <1>4, <1>8, <1>9 DEF num, size

(* inspect prints the bytes of the object that C means, no others, for     *)
(* every unit that a compiler writes and every frame with 16 bytes between *)
(* its base and its frame pointer (legerdemain.c:120-143).                 *)
THEOREM InspectReadsTheObject ==
  ASSUME ProperUnits, TypesEnd, DataProper, FrameBase = 16
  PROVE  InspectSpec => []InspectReads
<1>1. InspectInit => WalkInv /\ StageInv
  BY InitWalk, AskedFacts DEF InspectInit, Init, StageInv, Located, Searches, Listings
<1>2. WalkInv /\ StageInv /\ [InspectNext]_inspectVars => WalkInv' /\ StageInv'
  BY StepKeepsWalk, StepKeepsStage
<1>3. WalkInv /\ StageInv => InspectReads
  BY PrintsTheObject
<1> QED
  BY <1>1, <1>2, <1>3, PTL DEF InspectSpec
=============================================================================
