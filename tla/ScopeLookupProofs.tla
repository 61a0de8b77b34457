------------------------- MODULE ScopeLookupProofs -------------------------
(***************************************************************************)
(* Proofs about ScopeLookup, for any units, names and questions.           *)
(***************************************************************************)
EXTENDS ScopeLookup, SequenceTheorems, FiniteSetTheorems, WellFoundedInduction, TLAPS

-----------------------------------------------------------------------------
(* Induction over the dies of a unit. *)

LEMMA LeastDie ==
  ASSUME NEW I, I \subseteq Nat, I # {}
  PROVE  \E i \in I : \A j \in I : i <= j
<1>1. PICK i \in I : \A j \in I : <<j, i>> \notin OpToRel(<, Nat)
  BY NatLessThanWellFounded, WFMin
<1>2. \A j \in I : ~(j < i)
  BY <1>1 DEF OpToRel
<1> QED
  BY <1>2

(* P is a set of dies; a die is in it if all before it are.                *)
LEMMA OverTheDies ==
  ASSUME NEW N \in Nat, NEW P,
         \A n \in 1 .. N : (\A k \in 1 .. n - 1 : k \in P) => n \in P
  PROVE  \A n \in 1 .. N : n \in P
<1> DEFINE Bad == {n \in 1 .. N : n \notin P}
<1> SUFFICES ASSUME Bad # {} PROVE FALSE
  OBVIOUS
<1>1. Bad \subseteq Nat
  OBVIOUS
<1>2. PICK n \in Bad : \A j \in Bad : n <= j
  <2> HIDE DEF Bad
  <2> QED
    BY <1>1, LeastDie
<1>3. \A k \in 1 .. n - 1 : k \in P
  <2> SUFFICES ASSUME NEW k \in 1 .. n - 1, k \notin P PROVE FALSE
    OBVIOUS
  <2>1. k \in Bad /\ ~(n <= k)
    OBVIOUS
  <2> QED
    BY <1>2, <2>1
<1> QED
  BY <1>3

-----------------------------------------------------------------------------
(* The tree of dies. *)

Tree(u) ==
  /\ Len(u) \in Nat \ {0}
  /\ DOMAIN u = 1 .. Len(u)
  /\ u[1].parent = NoDie
  /\ \A d \in 2 .. Len(u) : u[d].parent \in 1 .. d - 1

Up(u, f, d) ==
  IF u[d].parent \in {1, NoDie} THEN {} ELSE {u[d].parent} \cup f[u[d].parent]

UpTo(u, f, n) == f = [k \in 1 .. n |-> Up(u, f, k)]

LEMMA ParentFacts ==
  ASSUME NEW u, Tree(u), NEW d \in 1 .. Len(u), u[d].parent \notin {1, NoDie}
  PROVE  u[d].parent \in 2 .. d - 1 /\ u[d].parent \in 2 .. Len(u) /\ d \in Nat
<1>1. d # 1 /\ d \in 2 .. Len(u)
  BY DEF Tree
<1> QED
  BY <1>1 DEF Tree

(* The recursion that DiesAbove is defined by has a solution.              *)
LEMMA DiesAboveDef ==
  ASSUME NEW u, Tree(u)
  PROVE  \A d \in 1 .. Len(u) : DiesAbove(u)[d] = Up(u, DiesAbove(u), d)
<1> DEFINE N == Len(u)
           P == {n \in 1 .. N : \E f : UpTo(u, f, n)}
<1>1. N \in Nat \ {0} /\ DOMAIN u = 1 .. N
  BY DEF Tree
<1>2. ASSUME NEW n \in 1 .. N, \A k \in 1 .. n - 1 : k \in P
      PROVE  n \in P
  <2>1. \E f : UpTo(u, f, n - 1)
    <3>1. CASE n = 1
      <4> DEFINE f == [k \in 1 .. 0 |-> {}]
      <4>1. f = [k \in 1 .. 0 |-> Up(u, f, k)]
        OBVIOUS
      <4>2. UpTo(u, f, 0)
        BY <4>1 DEF UpTo
      <4> QED
        BY <3>1, <4>2
    <3>2. CASE n # 1
      BY <1>1, <1>2, <3>2
    <3> QED
      BY <3>1, <3>2
  <2> PICK f : UpTo(u, f, n - 1)
    BY <2>1
  <2> DEFINE g == [k \in 1 .. n |-> Up(u, f, k)]
  <2>2. n \in Nat /\ n >= 1 /\ 1 .. n - 1 \subseteq 1 .. n
    BY <1>1
  <2>3. \A k \in 1 .. n - 1 : f[k] = Up(u, f, k)
    BY DEF UpTo
  <2>4. \A k \in 1 .. n - 1 : g[k] = f[k]
    BY <2>2, <2>3
  <2>5. ASSUME NEW k \in 1 .. n PROVE Up(u, f, k) = Up(u, g, k)
    <3>1. CASE u[k].parent \in {1, NoDie}
      BY <3>1 DEF Up
    <3>2. CASE u[k].parent \notin {1, NoDie}
      <4>1. k \in 1 .. N
        BY <1>1, <2>2
      <4>2. u[k].parent \in 2 .. k - 1 /\ k \in Nat
        BY <3>2, <4>1, ParentFacts
      <4>3. u[k].parent \in 1 .. n - 1
        BY <2>2, <4>2
      <4> HIDE DEF g
      <4> QED
        BY <2>4, <4>3 DEF Up
    <3> QED
      BY <3>1, <3>2
  <2>6. UpTo(u, g, n)
    <3>1. [k \in 1 .. n |-> Up(u, f, k)] = [k \in 1 .. n |-> Up(u, g, k)]
      <4> HIDE DEF g
      <4> QED
        BY <2>5
    <3> QED
      BY <3>1 DEF UpTo
  <2> QED
    BY <2>6
<1>3. N \in P
  <2> HIDE DEF P
  <2>1. \A n \in 1 .. N : n \in P
    <3> HIDE DEF N
    <3> QED
      BY <1>1, <1>2, OverTheDies
  <2> QED
    BY <1>1, <2>1
<1>4. UpTo(u, DiesAbove(u), N)
  <2>1. DiesAbove(u) = CHOOSE f : UpTo(u, f, N)
    BY <1>1 DEF DiesAbove, UpTo, Up
  <2> QED
    BY <1>3, <2>1
<1> HIDE DEF N
<1>5. DiesAbove(u) = [k \in 1 .. N |-> Up(u, DiesAbove(u), k)]
  BY <1>4 DEF UpTo
<1> QED
  BY <1>5 DEF N

Over(u, d) == DiesAbove(u)[d]

LEMMA OverParent ==
  ASSUME NEW u, Tree(u), NEW d \in 1 .. Len(u)
  PROVE  /\ u[d].parent \in {1, NoDie} => Over(u, d) = {}
         /\ u[d].parent \notin {1, NoDie} =>
              Over(u, d) = {u[d].parent} \cup Over(u, u[d].parent)
BY DiesAboveDef DEF Over, Up

LEMMA OverRange ==
  ASSUME NEW u, Tree(u)
  PROVE  \A d \in 1 .. Len(u) : Over(u, d) \subseteq 2 .. d - 1
<1> DEFINE N == Len(u)
           P == {d \in 1 .. N : Over(u, d) \subseteq 2 .. d - 1}
<1>1. N \in Nat
  BY DEF Tree
<1>2. ASSUME NEW n \in 1 .. N, \A k \in 1 .. n - 1 : k \in P
      PROVE  n \in P
  <2>1. CASE u[n].parent \in {1, NoDie}
    BY <2>1, OverParent
  <2>2. CASE u[n].parent \notin {1, NoDie}
    <3>1. u[n].parent \in 2 .. n - 1 /\ n \in Nat
      BY <2>2, ParentFacts
    <3>2. Over(u, u[n].parent) \subseteq 2 .. u[n].parent - 1
      BY <1>2, <3>1
    <3>3. Over(u, n) = {u[n].parent} \cup Over(u, u[n].parent)
      BY <2>2, OverParent
    <3> QED
      BY <3>1, <3>2, <3>3
  <2> QED
    BY <2>1, <2>2
<1>3. \A n \in 1 .. N : n \in P
  <2> HIDE DEF N, P
  <2> QED
    BY <1>1, <1>2, OverTheDies
<1> QED
  BY <1>3

LEMMA OverOver ==
  ASSUME NEW u, Tree(u)
  PROVE  \A d \in 1 .. Len(u) : \A s \in Over(u, d) : Over(u, s) \subseteq Over(u, d)
<1> DEFINE N == Len(u)
           P == {d \in 1 .. N : \A s \in Over(u, d) : Over(u, s) \subseteq Over(u, d)}
<1>1. N \in Nat
  BY DEF Tree
<1>2. ASSUME NEW n \in 1 .. N, \A k \in 1 .. n - 1 : k \in P
      PROVE  n \in P
  <2>1. CASE u[n].parent \in {1, NoDie}
    BY <2>1, OverParent
  <2>2. CASE u[n].parent \notin {1, NoDie}
    <3>1. u[n].parent \in 2 .. n - 1 /\ n \in Nat
      BY <2>2, ParentFacts
    <3>2. u[n].parent \in P
      BY <1>2, <3>1
    <3>3. Over(u, n) = {u[n].parent} \cup Over(u, u[n].parent)
      BY <2>2, OverParent
    <3> QED
      BY <3>2, <3>3
  <2> QED
    BY <2>1, <2>2
<1>3. \A n \in 1 .. N : n \in P
  <2> HIDE DEF N, P
  <2> QED
    BY <1>1, <1>2, OverTheDies
<1> QED
  BY <1>3

(* From a die over d the way down to d begins with one of its children.    *)
LEMMA WayDown ==
  ASSUME NEW u, Tree(u)
  PROVE  \A d \in 2 .. Len(u) : \A s \in Over(u, d) \cup {1} :
           \E c \in Over(u, d) \cup {d} : u[c].parent = s
<1> DEFINE N == Len(u)
           P == {d \in 1 .. N : d # 1 =>
                   \A s \in Over(u, d) \cup {1} :
                     \E c \in Over(u, d) \cup {d} : u[c].parent = s}
<1>1. N \in Nat
  BY DEF Tree
<1>2. ASSUME NEW n \in 1 .. N, \A k \in 1 .. n - 1 : k \in P
      PROVE  n \in P
  <2> SUFFICES ASSUME n # 1, NEW s \in Over(u, n) \cup {1}
               PROVE  \E c \in Over(u, n) \cup {n} : u[c].parent = s
    OBVIOUS
  <2>1. CASE u[n].parent \in {1, NoDie}
    <3>1. n \in 2 .. Len(u)
      BY <1>1
    <3>2. u[n].parent \in 1 .. n - 1
      BY <3>1 DEF Tree
    <3>3. u[n].parent = 1
      BY <2>1, <3>2, LookupAssumption
    <3>4. s = 1
      BY <2>1, OverParent
    <3> QED
      BY <3>3, <3>4
  <2>2. CASE u[n].parent \notin {1, NoDie}
    <3> DEFINE p == u[n].parent
    <3>1. p \in 2 .. n - 1 /\ n \in Nat
      BY <2>2, ParentFacts
    <3>2. p \in P /\ p # 1
      <4>1. p \in 1 .. n - 1 /\ p # 1
        BY <3>1
      <4> HIDE DEF P, p
      <4> QED
        BY <1>2, <4>1
    <3>3. Over(u, n) = {p} \cup Over(u, p)
      BY <2>2, OverParent
    <3>4. CASE s = p
      BY <3>4
    <3>5. CASE s # p
      <4>1. s \in Over(u, p) \cup {1}
        BY <3>3, <3>5
      <4>2. \E c \in Over(u, p) \cup {p} : u[c].parent = s
        BY <3>2, <4>1
      <4> QED
        BY <3>3, <4>2
    <3> QED
      BY <3>4, <3>5
  <2> QED
    BY <2>1, <2>2
<1>3. \A n \in 1 .. N : n \in P
  <2> HIDE DEF N, P
  <2> QED
    BY <1>1, <1>2, OverTheDies
<1>4. ASSUME NEW d \in 2 .. Len(u)
      PROVE  d \in 1 .. N /\ d # 1
  BY <1>1
<1> QED
  BY <1>3, <1>4

-----------------------------------------------------------------------------
(* The scopes around an address. *)

(* Every scope has a range of addresses that does not end at a.            *)
OneRange(u, a) ==
  \A s \in DOMAIN u : u[s].tag \in ScopeTags => u[s].low # NoAddr /\ u[s].high # a

Holds(u, a, d) ==
  u[d].tag \in ScopeTags /\ u[d].low # NoAddr /\ u[d].low <= a /\ a < u[d].high

LEMMA ScopeParent ==
  ASSUME NEW u, Tree(u), ProperUnit(u), NEW d \in 1 .. Len(u), u[d].tag \in ScopeTags
  PROVE  /\ d \in 2 .. Len(u)
         /\ \/ u[d].tag = "subprogram" /\ u[d].parent = 1
            \/ /\ u[d].tag = "lexical_block"
               /\ u[d].parent \in 2 .. Len(u)
               /\ u[d].parent < d
               /\ u[u[d].parent].tag \in ScopeTags
<1>1. DOMAIN u = 1 .. Len(u) /\ Len(u) \in Nat
  BY DEF Tree
<1>2. d # 1 /\ u[1].tag \notin ScopeTags
  BY DEF ProperUnit
<1>3. d \in 2 .. Len(u) /\ u[d].parent \in 1 .. d - 1
  BY <1>1, <1>2 DEF Tree
<1>4. CASE u[d].tag = "subprogram"
  BY <1>1, <1>3, <1>4 DEF ProperUnit
<1>5. CASE u[d].tag = "lexical_block"
  <2>1. u[d].parent \in DOMAIN u /\ u[u[d].parent].tag \in ScopeTags
    BY <1>1, <1>5 DEF ProperUnit
  <2>2. u[d].parent # 1
    BY <1>2, <2>1
  <2> QED
    BY <1>1, <1>3, <1>5, <2>1, <2>2
<1> QED
  BY <1>4, <1>5, <1>3 DEF ScopeTags

(* What a scope holds the scopes over it hold.                             *)
LEMMA OverHolds ==
  ASSUME NEW u, Tree(u), ProperUnit(u), NEW a \in Int, OneRange(u, a)
  PROVE  \A d \in 1 .. Len(u) : Holds(u, a, d) => \A s \in Over(u, d) : Holds(u, a, s)
<1> DEFINE N == Len(u)
           P == {d \in 1 .. N : Holds(u, a, d) => \A s \in Over(u, d) : Holds(u, a, s)}
<1>1. N \in Nat /\ DOMAIN u = 1 .. N
  BY DEF Tree
<1>2. ASSUME NEW n \in 1 .. N, \A k \in 1 .. n - 1 : k \in P
      PROVE  n \in P
  <2> SUFFICES ASSUME Holds(u, a, n) PROVE \A s \in Over(u, n) : Holds(u, a, s)
    OBVIOUS
  <2>1. CASE u[n].parent \in {1, NoDie}
    BY <2>1, OverParent
  <2>2. CASE u[n].parent \notin {1, NoDie}
    <3> DEFINE p == u[n].parent
    <3>1. p \in 2 .. n - 1 /\ p \in 2 .. N /\ n \in Nat
      BY <2>2, ParentFacts
    <3>2. u[p].tag \in ScopeTags
      BY <2>2, ScopeParent DEF Holds
    <3>3. p \in DOMAIN u /\ n \in DOMAIN u
      BY <1>1, <3>1
    <3>4. u[p].low # NoAddr /\ u[p].high # a
      BY <3>2, <3>3 DEF OneRange
    <3>5. /\ u[p].low \in Int /\ u[p].high \in Int /\ u[n].low \in Int /\ u[n].high \in Int
          /\ u[p].low <= u[n].low /\ u[n].high <= u[p].high
      BY <3>2, <3>3, <3>4 DEF Holds, ProperUnit
    <3>6. Holds(u, a, p)
      BY <3>2, <3>4, <3>5 DEF Holds
    <3>7. p \in P
      BY <1>2, <3>1
    <3>8. Over(u, n) = {p} \cup Over(u, p)
      BY <2>2, OverParent
    <3> QED
      BY <3>6, <3>7, <3>8
  <2> QED
    BY <2>1, <2>2
<1>3. \A n \in 1 .. N : n \in P
  <2> HIDE DEF N, P
  <2> QED
    BY <1>1, <1>2, OverTheDies
<1> QED
  BY <1>3

LEMMA OneHolds ==
  ASSUME NEW u, ProperUnit(u), NEW a \in Int, NEW d \in DOMAIN u, NEW e \in DOMAIN u,
         Holds(u, a, d), Holds(u, a, e), u[d].parent = u[e].parent
  PROVE  d = e
<1>1. /\ u[d].low \in Int /\ u[d].high \in Int /\ u[e].low \in Int /\ u[e].high \in Int
      /\ d # e => u[d].high <= u[e].low \/ u[e].high <= u[d].low
  BY DEF Holds, ProperUnit
<1> QED
  BY <1>1 DEF Holds

(* Of two scopes that hold an address one is over the other.               *)
LEMMA ScopesNest ==
  ASSUME NEW u, Tree(u), ProperUnit(u), NEW a \in Int, OneRange(u, a)
  PROVE  \A d, e \in 1 .. Len(u) :
           Holds(u, a, d) /\ Holds(u, a, e) =>
             d = e \/ d \in Over(u, e) \/ e \in Over(u, d)
<1> DEFINE N == Len(u)
           Nest(d, e) == Holds(u, a, d) /\ Holds(u, a, e) =>
                           d = e \/ d \in Over(u, e) \/ e \in Over(u, d)
           P == {n \in 1 .. N : \A e \in 1 .. n : Nest(n, e)}
<1>1. N \in Nat /\ DOMAIN u = 1 .. N
  BY DEF Tree
<1>2. ASSUME NEW n \in 1 .. N, \A k \in 1 .. n - 1 : k \in P
      PROVE  n \in P
  <2> SUFFICES ASSUME NEW e \in 1 .. n, Holds(u, a, n), Holds(u, a, e), e # n
               PROVE  n \in Over(u, e) \/ e \in Over(u, n)
    OBVIOUS
  <2>1. e \in 1 .. N /\ e \in 1 .. n - 1 /\ n \in Nat
    BY <1>1
  <2>2. /\ n \in 2 .. N /\ e \in 2 .. N
        /\ u[n].parent = 1 \/ (u[n].parent \in 2 .. N /\ u[n].parent < n)
        /\ u[e].parent = 1 \/ (u[e].parent \in 2 .. N /\ u[e].parent < e)
    BY <2>1, ScopeParent DEF Holds
  <2> DEFINE p == u[n].parent
             q == u[e].parent
  <2>3. p # q
    BY <2>1, <1>1, OneHolds
  (* The way down from s, which is over y and the parent of x, is by x. *)
  <2>4. ASSUME NEW x \in 2 .. N, NEW y \in 2 .. N, Holds(u, a, x), Holds(u, a, y),
               u[x].parent \in Over(u, y) \cup {1}, u[x].parent # u[y].parent
        PROVE  x \in Over(u, y)
    <3>1. x \in 1 .. N /\ y \in 1 .. N /\ Over(u, y) \subseteq 1 .. N
      <4>1. y \in 1 .. N
        BY <1>1
      <4>2. Over(u, y) \subseteq 2 .. y - 1
        BY <4>1, OverRange
      <4> QED
        BY <1>1, <4>1, <4>2
    <3>2. PICK c \in Over(u, y) \cup {y} : u[c].parent = u[x].parent
      BY <2>4, WayDown
    <3>3. c # y /\ Holds(u, a, c)
      BY <2>4, <3>1, <3>2, OverHolds
    <3>4. c = x
      BY <1>1, <2>4, <3>1, <3>2, <3>3, OneHolds
    <3> QED
      BY <3>2, <3>3, <3>4
  <2>5. CASE p = 1 \/ q = 1
    BY <2>1, <2>2, <2>3, <2>4, <2>5
  <2>6. CASE p # 1 /\ q # 1
    <3>1. /\ p \in 1 .. N /\ q \in 1 .. N /\ p \in 1 .. n - 1 /\ q \in 1 .. n - 1
          /\ p \in 2 .. N /\ q \in 2 .. N /\ p # NoDie /\ q # NoDie
      BY <1>1, <2>1, <2>2, <2>6, LookupAssumption
    <3>2. Over(u, n) = {p} \cup Over(u, p) /\ Over(u, e) = {q} \cup Over(u, q)
      BY <2>1, <2>6, <3>1, OverParent
    <3>3. Holds(u, a, p) /\ Holds(u, a, q)
      BY <2>1, <3>2, OverHolds
    <3>4. Nest(p, q) \/ Nest(q, p)
      <4>1. p \in 1 .. q \/ q \in 1 .. p
        BY <3>1
      <4>2. p \in P /\ q \in P
        BY <1>2, <3>1
      <4> QED
        BY <4>1, <4>2
    <3>5. p \in Over(u, q) \/ q \in Over(u, p)
      BY <2>3, <3>3, <3>4
    <3>6. p \in Over(u, e) \/ q \in Over(u, n)
      BY <3>2, <3>5
    <3> QED
      BY <2>2, <2>3, <2>4, <3>6
  <2> QED
    BY <2>5, <2>6
<1>3. \A n \in 1 .. N : n \in P
  <2> HIDE DEF N, P
  <2> QED
    BY <1>1, <1>2, OverTheDies
<1> SUFFICES ASSUME NEW d \in 1 .. N, NEW e \in 1 .. N PROVE Nest(d, e)
  OBVIOUS
<1>4. e \in 1 .. d \/ d \in 1 .. e
  BY <1>1
<1>5. Nest(d, e) \/ Nest(e, d)
  BY <1>3, <1>4
<1> QED
  BY <1>5

-----------------------------------------------------------------------------
(* The calls of the walk that are open. *)

Visits == [die : Dies, enclosing : BOOLEAN]
Calls(s) == {s[i] : i \in 1 .. Len(s)}

LEMMA CallsOfConcat ==
  ASSUME NEW S, NEW s \in Seq(S), NEW t \in Seq(S)
  PROVE  s \o t \in Seq(S) /\ Calls(s \o t) = Calls(s) \cup Calls(t)
<1>1. Len(s) \in Nat /\ Len(t) \in Nat
  BY LenProperties
<1>2. /\ s \o t \in Seq(S) /\ Len(s \o t) = Len(s) + Len(t)
      /\ \A i \in 1 .. Len(s) + Len(t) :
           (s \o t)[i] = IF i <= Len(s) THEN s[i] ELSE t[i - Len(s)]
  BY ConcatProperties
<1> DEFINE st == s \o t
<1> HIDE DEF st
<1>3. ASSUME NEW i \in 1 .. Len(s) PROVE i \in 1 .. Len(s) + Len(t) /\ st[i] = s[i]
  BY <1>1, <1>2 DEF st
<1>4. ASSUME NEW i \in 1 .. Len(t)
      PROVE  Len(s) + i \in 1 .. Len(s) + Len(t) /\ st[Len(s) + i] = t[i]
  <2>1. Len(s) + i \in 1 .. Len(s) + Len(t) /\ ~(Len(s) + i <= Len(s)) /\ Len(s) + i - Len(s) = i
    BY <1>1
  <2> QED
    BY <1>2, <2>1 DEF st
<1>5. ASSUME NEW i \in 1 .. Len(s) + Len(t)
      PROVE  st[i] \in Calls(s) \cup Calls(t)
  <2>1. i \in 1 .. Len(s) \/ i - Len(s) \in 1 .. Len(t)
    BY <1>1
  <2> QED
    BY <1>1, <1>2, <2>1 DEF Calls, st
<1>6. Calls(st) \subseteq Calls(s) \cup Calls(t)
  BY <1>2, <1>5 DEF Calls, st
<1>7. Calls(s) \cup Calls(t) \subseteq Calls(st)
  <2>1. Len(st) = Len(s) + Len(t)
    BY <1>2 DEF st
  <2> QED
    BY <1>3, <1>4, <2>1 DEF Calls
<1> QED
  BY <1>2, <1>6, <1>7 DEF st

LEMMA CallsOfHeadAndTail ==
  ASSUME NEW S, NEW s \in Seq(S), s # <<>>
  PROVE  /\ Head(s) \in S /\ Tail(s) \in Seq(S)
         /\ Calls(s) = {Head(s)} \cup Calls(Tail(s))
<1>1. Len(s) \in Nat \ {0}
  BY EmptySeq
<1> DEFINE t == Tail(s)
<1>2. /\ Head(s) \in S /\ t \in Seq(S) /\ Len(t) = Len(s) - 1 /\ Head(s) = s[1]
      /\ \A i \in 1 .. Len(t) : t[i] = s[i + 1]
  BY HeadTailProperties
<1> HIDE DEF t
<1>3. ASSUME NEW i \in 1 .. Len(s) PROVE s[i] \in {Head(s)} \cup Calls(t)
  <2>1. CASE i = 1
    BY <1>2, <2>1
  <2>2. CASE i # 1
    <3>1. i - 1 \in 1 .. Len(t) /\ i - 1 + 1 = i
      BY <1>1, <1>2, <2>2
    <3> QED
      BY <1>2, <3>1 DEF Calls
  <2> QED
    BY <2>1, <2>2
<1>4. ASSUME NEW i \in 1 .. Len(t) PROVE t[i] \in Calls(s)
  <2>1. i + 1 \in 1 .. Len(s)
    BY <1>1, <1>2
  <2> QED
    BY <1>2, <2>1 DEF Calls
<1>5. Head(s) \in Calls(s)
  BY <1>1, <1>2 DEF Calls
<1>6. Calls(s) \subseteq {Head(s)} \cup Calls(t)
  BY <1>3 DEF Calls
<1>7. Calls(t) \subseteq Calls(s)
  BY <1>4 DEF Calls
<1> QED
  BY <1>2, <1>5, <1>6, <1>7 DEF t

LEMMA CallsOfFirstOf ==
  ASSUME Tree(unit), NEW D, D \subseteq Dies, NEW enc \in BOOLEAN
  PROVE  /\ FirstOf(D, enc) \in Seq(Visits)
         /\ D = {} => Calls(FirstOf(D, enc)) = {}
         /\ D # {} => \E m \in D :
              /\ \A x \in D : m <= x
              /\ Calls(FirstOf(D, enc)) = {[die |-> m, enclosing |-> enc]}
<1>1. CASE D = {}
  <2>1. FirstOf(D, enc) = <<>>
    BY <1>1 DEF FirstOf
  <2>2. <<>> \in Seq(Visits) /\ Len(<<>>) = 0
    BY EmptySeq
  <2>3. Calls(<<>>) = {}
    BY <2>2 DEF Calls
  <2> QED
    BY <1>1, <2>1, <2>2, <2>3
<1>2. CASE D # {}
  <2>1. D \subseteq Nat
    BY DEF Tree, Dies
  <2>2. \E m \in D : \A x \in D : m <= x
    BY <1>2, <2>1, LeastDie
  <2>3. Min(D) \in D /\ \A x \in D : Min(D) <= x
    BY <2>2 DEF Min
  <2> DEFINE r == [die |-> Min(D), enclosing |-> enc]
  <2>4. FirstOf(D, enc) = <<r>> /\ r \in Visits
    BY <1>2, <2>3 DEF FirstOf, Visits
  <2> HIDE DEF r
  <2>5. <<r>> \in Seq(Visits) /\ Len(<<r>>) = 1 /\ <<r>>[1] = r
    BY <2>4
  <2>6. Calls(<<r>>) = {r}
    BY <2>5 DEF Calls
  <2> QED
    BY <1>2, <2>3, <2>4, <2>5, <2>6 DEF r
<1> QED
  BY <1>1, <1>2

(* What is open when the visit of d, and of what is below it, is over, or  *)
(* when the children of d come next.                                       *)
First(D, enc, C) ==
  IF D = {} THEN C = {}
  ELSE \E m \in D : (\A x \in D : m <= x) /\ C = {[die |-> m, enclosing |-> enc]}

LEMMA CallsOfMoveOn ==
  ASSUME Tree(unit), todo \in Seq(Visits), todo # <<>>, NEW d, d = Head(todo).die
  PROVE  /\ d \in Dies /\ Head(todo).enclosing \in BOOLEAN
         /\ Calls(todo) = {Head(todo)} \cup Calls(Tail(todo))
         /\ MoveOn(d) \in Seq(Visits)
         /\ \E C : /\ First(Siblings(d), Head(todo).enclosing, C)
                   /\ Calls(MoveOn(d)) = C \cup Calls(Tail(todo))
<1>1. /\ Head(todo) \in Visits /\ Tail(todo) \in Seq(Visits)
      /\ Calls(todo) = {Head(todo)} \cup Calls(Tail(todo))
  BY CallsOfHeadAndTail
<1>2. d \in Dies /\ Head(todo).enclosing \in BOOLEAN
  BY <1>1 DEF Visits
<1>3. Siblings(d) \subseteq Dies
  BY DEF Siblings
<1> DEFINE f == FirstOf(Siblings(d), Head(todo).enclosing)
<1>4. f \in Seq(Visits) /\ First(Siblings(d), Head(todo).enclosing, Calls(f))
  BY <1>2, <1>3, CallsOfFirstOf DEF First
<1>5. MoveOn(d) = f \o Tail(todo)
  BY DEF MoveOn
<1> DEFINE t == Tail(todo)
<1>6. f \in Seq(Visits) /\ t \in Seq(Visits) /\ MoveOn(d) = f \o t
  BY <1>1, <1>4, <1>5
<1> HIDE DEF f, t
<1>7. MoveOn(d) \in Seq(Visits) /\ Calls(MoveOn(d)) = Calls(f) \cup Calls(t)
  <2>1. f \o t \in Seq(Visits) /\ Calls(f \o t) = Calls(f) \cup Calls(t)
    BY <1>6, CallsOfConcat
  <2> QED
    BY <1>6, <2>1
<1> QED
  BY <1>1, <1>2, <1>4, <1>7 DEF t

LEMMA CallsOfDescend ==
  ASSUME Tree(unit), todo \in Seq(Visits), todo # <<>>, NEW d, d = Head(todo).die,
         Descend(d)
  PROVE  /\ todo' \in Seq(Visits)
         /\ \E B, C : /\ First(Kids(d), Encloses(d), B)
                      /\ First(Siblings(d), Head(todo).enclosing, C)
                      /\ Calls(todo') = B \cup C \cup Calls(Tail(todo))
<1>1. /\ MoveOn(d) \in Seq(Visits)
      /\ \E C : /\ First(Siblings(d), Head(todo).enclosing, C)
                /\ Calls(MoveOn(d)) = C \cup Calls(Tail(todo))
  BY CallsOfMoveOn
<1>2. Kids(d) \subseteq Dies /\ Encloses(d) \in BOOLEAN
  BY DEF Kids, Encloses
<1> DEFINE f == FirstOf(Kids(d), Encloses(d))
<1>3. f \in Seq(Visits) /\ First(Kids(d), Encloses(d), Calls(f))
  BY <1>2, CallsOfFirstOf DEF First
<1>4. todo' = f \o MoveOn(d)
  BY DEF Descend
<1> HIDE DEF f
<1>5. todo' \in Seq(Visits) /\ Calls(todo') = Calls(f) \cup Calls(MoveOn(d))
  BY <1>1, <1>3, <1>4, CallsOfConcat
<1> QED
  BY <1>1, <1>3, <1>5

-----------------------------------------------------------------------------
(* What has been asked, and which dies are still to be visited. *)

ProperUnits == \A q \in Queries : ProperUnit(q.unit)

Asked == \E q \in Queries : unit = q.unit /\ addr = q.addr /\ varname = q.varname

LEMMA AskedFacts ==
  ASSUME Asked
  PROVE  /\ Tree(unit) /\ Dies = 1 .. Len(unit) /\ Len(unit) \in Nat \ {0}
         /\ addr \in Int /\ varname \in Names
         /\ NoDie \notin Dies
         /\ \A d \in Dies : unit[d].type \in Dies \cup {NoDie} /\ unit[d].size \in Nat
         /\ ProperUnits => ProperUnit(unit)
<1>1. PICK q \in Queries : unit = q.unit /\ addr = q.addr /\ varname = q.varname
  BY DEF Asked
<1>2. /\ q.addr \in Int /\ q.varname \in Names
      /\ Len(q.unit) \in Nat \ {0} /\ DOMAIN q.unit = 1 .. Len(q.unit)
      /\ q.unit[1].parent = NoDie
      /\ \A d \in 2 .. Len(q.unit) : q.unit[d].parent \in 1 .. d - 1
      /\ \A d \in 1 .. Len(q.unit) :
           q.unit[d].type \in DOMAIN q.unit \cup {NoDie} /\ q.unit[d].size \in Nat
      /\ NoDie \notin Nat \ {0}
  BY LookupAssumption
<1>3. Tree(unit)
  BY <1>1, <1>2 DEF Tree
<1>4. Dies = 1 .. Len(unit) /\ Len(unit) \in Nat \ {0}
  BY <1>1, <1>2 DEF Dies
<1>5. NoDie \notin Dies
  BY <1>2, <1>4
<1>6. \A d \in Dies : unit[d].type \in Dies \cup {NoDie} /\ unit[d].size \in Nat
  BY <1>1, <1>2 DEF Dies
<1> QED
  BY <1>1, <1>2, <1>3, <1>4, <1>5, <1>6 DEF ProperUnits

(* What a call of the walk is told is whether the die's parent encloses.   *)
Told ==
  \A c \in Calls(todo) : c.enclosing <=> c.die # 1 /\ Encloses(unit[c.die].parent)

Below(x, d) == d = x \/ x = 1 \/ x \in Over(unit, d)

(* A call for die x goes on to x's siblings, and through all below them.   *)
Covers(x, d) == \E y \in {x} \cup Siblings(x) : Below(y, d)
Pending(d) == \E c \in Calls(todo) : Covers(c.die, d)

LEMMA SameTree ==
  ASSUME UNCHANGED <<unit, addr>>
  PROVE  /\ \A x, d : Covers(x, d)' <=> Covers(x, d)
         /\ \A d : Encloses(d)' <=> Encloses(d)
         /\ Visits' = Visits /\ Dies' = Dies
BY DEF Covers, Siblings, Below, Encloses, Visits, Dies

LEMMA FirstCovers ==
  ASSUME Asked, NEW D, D \subseteq Dies, \A x, y \in D : unit[x].parent = unit[y].parent,
         NEW enc, NEW C, First(D, enc, C), NEW d, NEW y \in D, Below(y, d)
  PROVE  \E c \in C : Covers(c.die, d)
<1>1. PICK m \in D : (\A x \in D : m <= x) /\ C = {[die |-> m, enclosing |-> enc]}
  BY DEF First
<1>2. m \in Nat /\ y \in Nat /\ m <= y
  BY <1>1, AskedFacts
<1>3. y = m \/ y \in Siblings(m)
  BY <1>1, <1>2 DEF Siblings
<1>4. Covers(m, d)
  BY <1>3 DEF Covers
<1> QED
  BY <1>1, <1>4

LEMMA SiblingsAlike ==
  ASSUME NEW d
  PROVE  /\ Siblings(d) \subseteq Dies /\ Kids(d) \subseteq Dies
         /\ \A x, y \in Siblings(d) : unit[x].parent = unit[y].parent
         /\ \A x, y \in Kids(d) : unit[x].parent = unit[y].parent
BY DEF Siblings, Kids

(* After the visit of d all that was to be visited still is, d and what is *)
(* below it apart; or only d apart, when the walk descends.                *)
LEMMA MoveOnLeaves ==
  ASSUME Asked, todo \in Seq(Visits), todo # <<>>, NEW d, d = Head(todo).die,
         todo' = MoveOn(d), UNCHANGED <<unit, addr>>, NEW w, Pending(w)
  PROVE  Pending(w)' \/ Below(d, w)
<1>1. Tree(unit)
  BY AskedFacts
<1>2. PICK C : /\ First(Siblings(d), Head(todo).enclosing, C)
               /\ Calls(todo') = C \cup Calls(Tail(todo))
  BY <1>1, CallsOfMoveOn
<1>3. Calls(todo) = {Head(todo)} \cup Calls(Tail(todo))
  BY <1>1, CallsOfMoveOn
<1>4. PICK c \in Calls(todo) : Covers(c.die, w)
  BY DEF Pending
<1>5. CASE c \in Calls(Tail(todo))
  <2>1. c \in Calls(todo')
    BY <1>2, <1>5
  <2> QED
    BY <1>4, <2>1, SameTree DEF Pending, Calls
<1>6. CASE c = Head(todo)
  <2>1. PICK y \in {d} \cup Siblings(d) : Below(y, w)
    BY <1>4, <1>6 DEF Covers
  <2>2. CASE y \in Siblings(d)
    <3>1. \E b \in C : Covers(b.die, w)
      BY <1>2, <2>1, <2>2, FirstCovers, SiblingsAlike
    <3>2. \E b \in Calls(todo') : Covers(b.die, w)
      BY <1>2, <3>1
    <3> QED
      BY <3>2, SameTree DEF Pending, Calls
  <2> QED
    BY <2>1, <2>2
<1> QED
  BY <1>3, <1>4, <1>5, <1>6

LEMMA DescendLeaves ==
  ASSUME Asked, todo \in Seq(Visits), todo # <<>>, NEW d, d = Head(todo).die,
         Descend(d), UNCHANGED <<unit, addr>>, NEW w \in 2 .. Len(unit), Pending(w)
  PROVE  Pending(w)' \/ w = d
<1>1. Tree(unit)
  BY AskedFacts
<1>2. PICK B, C : /\ First(Kids(d), Encloses(d), B)
                  /\ First(Siblings(d), Head(todo).enclosing, C)
                  /\ Calls(todo') = B \cup C \cup Calls(Tail(todo))
  BY <1>1, CallsOfDescend
<1>3. Calls(todo) = {Head(todo)} \cup Calls(Tail(todo)) /\ d \in Dies
  BY <1>1, CallsOfMoveOn
<1>4. PICK c \in Calls(todo) : Covers(c.die, w)
  BY DEF Pending
<1>5. ASSUME NEW b \in Calls(todo'), Covers(b.die, w)
      PROVE  Pending(w)'
  BY <1>5, SameTree DEF Pending, Calls
<1>6. CASE c \in Calls(Tail(todo))
  BY <1>2, <1>4, <1>5, <1>6
<1>7. CASE c = Head(todo)
  <2>1. PICK y \in {d} \cup Siblings(d) : Below(y, w)
    BY <1>4, <1>7 DEF Covers
  <2>2. CASE y \in Siblings(d)
    <3>1. \E b \in C : Covers(b.die, w)
      BY <1>2, <2>1, <2>2, FirstCovers, SiblingsAlike
    <3> QED
      BY <1>2, <1>5, <3>1
  <2>3. CASE y = d /\ w # d
    <3>1. d \in Over(unit, w) \cup {1}
      BY <2>1, <2>3 DEF Below
    <3>2. PICK k \in Over(unit, w) \cup {w} : unit[k].parent = d
      BY <1>1, <3>1, WayDown
    <3>3. k \in Dies
      <4>1. w \in 1 .. Len(unit) /\ Over(unit, w) \subseteq 2 .. w - 1 /\ Len(unit) \in Nat
        BY <1>1, AskedFacts, OverRange
      <4> QED
        BY <4>1, AskedFacts
    <3>4. k \in Kids(d) /\ Below(k, w)
      BY <3>2, <3>3 DEF Kids, Below
    <3>5. \E b \in B : Covers(b.die, w)
      BY <1>2, <3>4, FirstCovers, SiblingsAlike
    <3> QED
      BY <1>2, <1>5, <3>5
  <2> QED
    BY <2>1, <2>2, <2>3
<1> QED
  BY <1>3, <1>4, <1>6, <1>7

(* The next calls are told the truth, too.                                 *)
LEMMA MoveOnTold ==
  ASSUME Asked, todo \in Seq(Visits), Told, todo # <<>>, NEW d, d = Head(todo).die,
         todo' = MoveOn(d) \/ Descend(d), UNCHANGED <<unit, addr>>
  PROVE  todo' \in Seq(Visits') /\ Told'
<1>1. Tree(unit)
  BY AskedFacts
<1>2. /\ Calls(todo) = {Head(todo)} \cup Calls(Tail(todo)) /\ d \in Dies
      /\ MoveOn(d) \in Seq(Visits)
  BY <1>1, CallsOfMoveOn
<1> DEFINE T(c) == c.enclosing <=> c.die # 1 /\ Encloses(unit[c.die].parent)
<1>3. T(Head(todo)) /\ \A c \in Calls(Tail(todo)) : T(c)
  BY <1>2 DEF Told
<1>4. ASSUME NEW C, First(Siblings(d), Head(todo).enclosing, C), NEW c \in C
      PROVE  T(c)
  <2>1. PICK m \in Siblings(d) : c = [die |-> m, enclosing |-> Head(todo).enclosing]
    BY <1>4 DEF First
  <2>2. m > d /\ unit[m].parent = unit[d].parent /\ d >= 1
    BY <2>1, <1>2, AskedFacts DEF Siblings
  <2>3. d # 1
    <3>1. m \in 2 .. Len(unit)
      BY <1>2, <2>1, <2>2, AskedFacts DEF Siblings
    <3>2. unit[m].parent \in Dies
      BY <1>1, <3>1, AskedFacts DEF Tree
    <3> QED
      BY <1>1, <2>2, <3>2, AskedFacts DEF Tree
  <2>4. m # 1
    BY <2>2, <1>2, AskedFacts
  <2>5. Head(todo).enclosing <=> Encloses(unit[d].parent)
    BY <1>3, <2>3
  <2> QED
    BY <2>1, <2>2, <2>4, <2>5
<1>5. ASSUME NEW B, First(Kids(d), Encloses(d), B), NEW c \in B
      PROVE  T(c)
  <2>1. PICK m \in Kids(d) : c = [die |-> m, enclosing |-> Encloses(d)]
    BY <1>5 DEF First
  <2>2. unit[m].parent = d /\ m # 1
    BY <1>1, <1>2, <2>1, AskedFacts DEF Kids, Tree
  <2> QED
    BY <2>1, <2>2
<1>6. todo' \in Seq(Visits) /\ \A c \in Calls(todo') : T(c)
  <2>1. CASE todo' = MoveOn(d)
    <3>1. PICK C : /\ First(Siblings(d), Head(todo).enclosing, C)
                   /\ Calls(todo') = C \cup Calls(Tail(todo))
      BY <1>1, <2>1, CallsOfMoveOn
    <3> QED
      BY <1>2, <1>3, <1>4, <2>1, <3>1
  <2>2. CASE Descend(d)
    <3>1. todo' \in Seq(Visits)
      BY <1>1, <2>2, CallsOfDescend
    <3>2. PICK B, C : /\ First(Kids(d), Encloses(d), B)
                      /\ First(Siblings(d), Head(todo).enclosing, C)
                      /\ Calls(todo') = B \cup C \cup Calls(Tail(todo))
      BY <1>1, <2>2, CallsOfDescend
    <3> QED
      BY <1>3, <1>4, <1>5, <3>1, <3>2
  <2> QED
    BY <2>1, <2>2
<1>7. \A c \in Calls(todo') : c.enclosing <=> c.die # 1 /\ Encloses(unit[c.die].parent)'
  BY <1>6, SameTree
<1> QED
  BY <1>6, <1>7, SameTree DEF Told, Calls

-----------------------------------------------------------------------------
(* The declarations that the address is in the scope of. *)

Local(d) == d \in 2 .. Len(unit) /\ Declares(d) /\ Encloses(unit[d].parent)

LEMMA LocalScope ==
  ASSUME Asked, ProperUnit(unit), Regular, NEW d, Local(d)
  PROVE  LET p == unit[d].parent
         IN  /\ p \in 2 .. Len(unit) /\ Holds(unit, addr, p)
             /\ Over(unit, d) = {p} \cup Over(unit, p)
<1> DEFINE p == unit[d].parent
<1>1. Tree(unit) /\ DOMAIN unit = 1 .. Len(unit) /\ Len(unit) \in Nat /\ NoDie \notin 1 .. Len(unit)
  BY AskedFacts DEF Dies
<1>2. d \in 1 .. Len(unit) /\ p \in 1 .. Len(unit) /\ p \in DOMAIN unit
  BY <1>1 DEF Local, Tree
<1>3. p # 1 /\ p # NoDie
  BY <1>1, <1>2 DEF Local, Encloses, ProperUnit
<1>4. unit[p].tag \in ScopeTags /\ unit[p].low # NoAddr /\ unit[p].low <= addr /\ addr <= unit[p].high
  BY DEF Local, Encloses
<1>5. unit[p].high # addr
  BY <1>2, <1>4 DEF Regular, Dies
<1>6. unit[p].low \in Int /\ unit[p].high \in Int /\ addr \in Int
  BY <1>2, <1>4, AskedFacts DEF ProperUnit
<1>7. Holds(unit, addr, p)
  BY <1>4, <1>5, <1>6 DEF Holds
<1>8. Over(unit, d) = {p} \cup Over(unit, p)
  BY <1>1, <1>2, <1>3, OverParent
<1> QED
  BY <1>1, <1>2, <1>3, <1>7, <1>8

LEMMA RangesOf ==
  ASSUME Asked, Regular
  PROVE  OneRange(unit, addr)
BY DEF Regular, OneRange, Dies

(* They are the ones C can see.                                            *)
LEMMA LocalIsVisible ==
  ASSUME Asked, ProperUnit(unit), Regular, NEW d \in Dies
  PROVE  Local(d) <=> Visible(d)
<1> DEFINE p == unit[d].parent
<1>1. /\ Tree(unit) /\ Dies = 1 .. Len(unit) /\ Len(unit) \in Nat /\ addr \in Int
      /\ NoDie \notin Dies /\ OneRange(unit, addr)
  BY AskedFacts, RangesOf
<1>2. ScopesOf(d) = Over(unit, d)
  BY DEF ScopesOf, Over
<1>3. ASSUME Local(d) PROVE Visible(d)
  <2>1. p \in 1 .. Len(unit) /\ Holds(unit, addr, p) /\ Over(unit, d) = {p} \cup Over(unit, p)
    BY <1>3, LocalScope
  <2>2. \A s \in Over(unit, d) : Holds(unit, addr, s)
    BY <1>1, <2>1, OverHolds
  <2> QED
    BY <1>2, <1>3, <2>1, <2>2 DEF Visible, Local, Holds
<1>4. ASSUME Visible(d) PROVE Local(d)
  <2>1. Over(unit, d) # {}
    BY <1>2, <1>4 DEF Visible
  <2>2. p \notin {1, NoDie} /\ p \in Over(unit, d)
    BY <1>1, <2>1, OverParent
  <2>3. p \in 2 .. d - 1 /\ p \in 2 .. Len(unit) /\ d \in 2 .. Len(unit)
    BY <1>1, <2>2, ParentFacts
  <2>4. unit[p].tag \in ScopeTags /\ unit[p].low <= addr /\ addr < unit[p].high
    BY <1>2, <1>4, <2>2 DEF Visible
  <2>5. p \in DOMAIN unit /\ unit[p].low # NoAddr
    BY <1>1, <2>3, <2>4 DEF Regular, Dies
  <2>6. unit[p].low \in Int /\ unit[p].high \in Int
    BY <2>4, <2>5 DEF ProperUnit
  <2>7. Encloses(p)
    BY <1>1, <2>4, <2>5, <2>6 DEF Encloses
  <2> QED
    BY <1>4, <2>3, <2>7 DEF Local, Visible
<1> QED
  BY <1>3, <1>4

(* A declaration whose scopes are not all the scopes of another is below   *)
(* one that comes after that other in its scope.                           *)
LEMMA LaterOrOuter ==
  ASSUME Asked, ProperUnit(unit), Regular, NEW d, Local(d), NEW w, Local(w)
  PROVE  Over(unit, w) \subseteq Over(unit, d) \/ \E c \in Siblings(d) : Below(c, w)
<1> DEFINE p == unit[d].parent
           q == unit[w].parent
           N == Len(unit)
<1>1. /\ Tree(unit) /\ Dies = 1 .. N /\ DOMAIN unit = 1 .. N /\ N \in Nat /\ addr \in Int
      /\ OneRange(unit, addr)
  BY AskedFacts, RangesOf DEF Dies
<1>2. /\ p \in 2 .. N /\ Holds(unit, addr, p) /\ Over(unit, d) = {p} \cup Over(unit, p)
      /\ q \in 2 .. N /\ Holds(unit, addr, q) /\ Over(unit, w) = {q} \cup Over(unit, q)
  BY LocalScope
<1>3. p \in 1 .. N /\ q \in 1 .. N
  BY <1>1, <1>2
<1>4. p = q \/ p \in Over(unit, q) \/ q \in Over(unit, p)
  BY <1>1, <1>2, <1>3, ScopesNest
<1>5. CASE p = q
  BY <1>2, <1>5
<1>6. CASE q \in Over(unit, p)
  BY <1>1, <1>2, <1>3, <1>6, OverOver
<1>7. CASE p \in Over(unit, q)
  <2>1. PICK c \in Over(unit, q) \cup {q} : unit[c].parent = p
    BY <1>1, <1>2, <1>7, WayDown
  <2>2. Holds(unit, addr, c) /\ c \in 1 .. N
    <3>1. Over(unit, q) \subseteq 2 .. q - 1
      BY <1>1, <1>3, OverRange
    <3> QED
      BY <1>1, <1>2, <1>3, <2>1, <3>1, OverHolds
  <2>3. unit[c].tag = "lexical_block"
    BY <1>1, <1>2, <2>1, <2>2, ScopeParent DEF Holds
  <2>4. d < c
    BY <1>1, <1>2, <2>1, <2>2, <2>3 DEF Regular, Local, Holds
  <2>5. c \in Siblings(d)
    BY <1>1, <2>1, <2>2, <2>4 DEF Siblings, Local
  <2>6. Below(c, w)
    BY <1>2, <2>1 DEF Below
  <2> QED
    BY <2>5, <2>6
<1> QED
  BY <1>4, <1>5, <1>6, <1>7

(* Nothing that C sees is below a declaration.                             *)
LEMMA NothingBelow ==
  ASSUME Asked, ProperUnit(unit), Regular, NEW d, Local(d), NEW w, Local(w), Below(d, w)
  PROVE  w = d
<1> DEFINE q == unit[w].parent
<1>1. Tree(unit) /\ addr \in Int /\ OneRange(unit, addr) /\ Len(unit) \in Nat
  BY AskedFacts, RangesOf
<1>2. /\ q \in 1 .. Len(unit) /\ Holds(unit, addr, q)
      /\ Over(unit, w) = {q} \cup Over(unit, q)
  BY <1>1, LocalScope
<1>3. \A s \in Over(unit, w) : unit[s].tag \in ScopeTags
  BY <1>1, <1>2, OverHolds DEF Holds
<1>4. d # 1 /\ unit[d].tag \notin ScopeTags
  BY <1>1 DEF Local, Declares, ScopeTags
<1> QED
  BY <1>3, <1>4 DEF Below

-----------------------------------------------------------------------------
(* The invariant. *)

IInv == TypeOK /\ Asked /\ Told

LEMMA InitIInv == Init => IInv
<1> SUFFICES ASSUME Init PROVE IInv
  OBVIOUS
<1>1. PICK q \in Queries :
        unit = q.unit /\ addr = q.addr /\ varname = q.varname /\ kind = q.kind
  BY DEF Init
<1>2. Asked /\ kind \in Listings \cup Searches
  BY <1>1, LookupAssumption DEF Asked
<1> DEFINE c == [die |-> 1, enclosing |-> FALSE]
<1>3. c \in Visits /\ todo = <<c>>
  BY <1>2, AskedFacts DEF Visits, Init, Start
<1>4. todo \in Seq(Visits) /\ Calls(todo) = {c}
  <2> HIDE DEF c
  <2>1. <<c>> \in Seq(Visits) /\ Len(<<c>>) = 1 /\ <<c>>[1] = c
    BY <1>3
  <2> QED
    BY <1>3, <2>1 DEF Calls
<1>5. Told
  BY <1>4 DEF Told
<1>6. shown = <<>> /\ shown \in Seq([die : Dies, points : Nat, arrs : Nat])
  BY DEF Init
<1>7. TypeOK
  BY <1>2, <1>4, <1>6, AskedFacts DEF TypeOK, Init, Visits, NoType, States
<1> QED
  BY <1>2, <1>5, <1>7 DEF IInv

LEMMA NextKeepsIInv == IInv /\ [Next]_vars => IInv'
<1> SUFFICES ASSUME IInv, [Next]_vars PROVE IInv'
  OBVIOUS
<1> USE DEF IInv
<1>1. /\ Dies = 1 .. Len(unit) /\ NoDie \notin Dies
      /\ \A d \in Dies : unit[d].type \in Dies \cup {NoDie}
  BY AskedFacts
<1>2. todo \in Seq(Visits)
  BY DEF TypeOK, Visits
<1>3. ASSUME UNCHANGED <<unit, addr, varname>> PROVE Asked' /\ Visits' = Visits /\ Dies' = Dies
  BY <1>3 DEF Asked, Visits, Dies
<1>4. ASSUME UNCHANGED <<unit, addr, todo>> PROVE Told'
  BY <1>4 DEF Told, Calls, Encloses
<1>5. ASSUME NEW d \in Dies, Take(d) \/ ReadNoName(d) \/ ShowVariable(d) \/ Pass(d)
      PROVE  IInv'
  <2>1. /\ UNCHANGED <<unit, addr, varname, kind>>
        /\ todo # <<>> /\ d = Head(todo).die /\ state = "walk"
        /\ todo' = MoveOn(d) \/ Descend(d) \/ (todo' = todo /\ state' = "fault")
    BY <1>5 DEF Take, ReadNoName, ShowVariable, Pass, Visiting
  <2>2. todo' \in Seq(Visits') /\ Told'
    <3>1. CASE todo' = todo
      BY <1>2, <1>3, <1>4, <2>1, <3>1
    <3>2. CASE todo' = MoveOn(d) \/ Descend(d)
      BY <1>2, <2>1, <3>2, MoveOnTold
    <3> QED
      BY <2>1, <3>1, <3>2
  <2>3. Asked' /\ Dies' = Dies
    BY <1>3, <2>1
  <2>4. /\ v' \in Dies \cup {NoDie} /\ state' \in States
        /\ res' \in [die : Dies \cup {NoDie}, points : Nat, arrs : Nat]
        /\ state' = "resolve" => v' # NoDie /\ res'.die # NoDie
    BY <1>1, <1>5, <2>1 DEF Take, ReadNoName, ShowVariable, Pass, TypeOK, States, NoType
  <2>5. shown' \in Seq([die : Dies, points : Nat, arrs : Nat])
    <3> DEFINE Shown == [die : Dies, points : Nat, arrs : Nat]
               e == [NoType EXCEPT !.die = d]
    <3>1. shown' = shown \/ shown' = Append(shown, e)
      BY <1>5 DEF Take, ReadNoName, ShowVariable, Pass
    <3>2. e \in Shown
      BY DEF NoType
    <3>3. shown \in Seq(Shown)
      BY DEF TypeOK
    <3> HIDE DEF Shown, e
    <3>4. Append(shown, e) \in Seq(Shown)
      BY <3>2, <3>3, AppendProperties
    <3>5. shown' \in Seq(Shown)
      BY <3>1, <3>3, <3>4
    <3> QED
      BY <3>5 DEF Shown
  <2>6. addr' \in Int /\ varname' \in Names /\ kind' \in Listings \cup Searches
    BY <2>1 DEF TypeOK
  <2>7. TypeOK'
    BY <2>2, <2>3, <2>4, <2>5, <2>6 DEF TypeOK, Visits
  <2> QED
    BY <2>2, <2>3, <2>7
<1>6. CASE WalkEnds
  <2>1. /\ UNCHANGED <<unit, addr, varname, kind, todo, v, shown>>
        /\ \/ state' \in {"done", "null"} /\ res' = res
           \/ /\ state' = "resolve" /\ Has("type")
              /\ res' = [NoType EXCEPT !.die = unit[v].type]
    BY <1>6 DEF WalkEnds
  <2>2. Has("type") => v \in Dies /\ v # NoDie /\ unit[v].type \in Dies /\ unit[v].type # NoDie
    BY <1>1 DEF Has, TypeOK
  <2>3. /\ state' \in States
        /\ res' \in [die : Dies \cup {NoDie}, points : Nat, arrs : Nat]
        /\ state' = "resolve" => v' # NoDie /\ res'.die # NoDie
    BY <2>1, <2>2 DEF TypeOK, States, NoType
  <2> QED
    BY <1>3, <1>4, <2>1, <2>3 DEF TypeOK
<1>7. CASE Unwrap
  <2>1. /\ UNCHANGED <<unit, addr, varname, kind, todo, v, shown, state>>
        /\ res' \in [die : Dies \cup {NoDie}, points : Nat, arrs : Nat]
        /\ state' = "resolve" => v' # NoDie /\ res'.die # NoDie
    BY <1>1, <1>7 DEF Unwrap, TypeOK
  <2> QED
    BY <1>3, <1>4, <2>1 DEF TypeOK
<1>8. CASE Resolved
  <2>1. UNCHANGED <<unit, addr, varname, kind, todo, res>> /\ state = "resolve"
    BY <1>8 DEF Resolved
  <2>2. state' \in States /\ v' \in Dies \cup {NoDie} /\ state' # "resolve"
    BY <1>8 DEF Resolved, TypeOK, States
  <2>3. shown' \in Seq([die : Dies, points : Nat, arrs : Nat])
    <3> DEFINE Shown == [die : Dies, points : Nat, arrs : Nat]
               e == [res EXCEPT !.die = v]
    <3>1. shown' = shown \/ shown' = Append(shown, e)
      BY <1>8 DEF Resolved
    <3>2. e \in Shown
      BY <2>1 DEF TypeOK
    <3>3. shown \in Seq(Shown)
      BY DEF TypeOK
    <3> HIDE DEF Shown, e
    <3>4. Append(shown, e) \in Seq(Shown)
      BY <3>2, <3>3, AppendProperties
    <3>5. shown' \in Seq(Shown)
      BY <3>1, <3>3, <3>4
    <3> QED
      BY <3>5 DEF Shown
  <2> QED
    BY <1>3, <1>4, <2>1, <2>2, <2>3 DEF TypeOK
<1>9. CASE UNCHANGED vars
  BY <1>3, <1>4, <1>9 DEF vars, TypeOK
<1> QED
  BY <1>5, <1>6, <1>7, <1>8, <1>9 DEF Next, Visit

THEOREM Invariant == Spec => []IInv
BY InitIInv, NextKeepsIInv, PTL DEF Spec

(* Every variable has its type, and a type is resolved only for a die that *)
(* was found and has one (dwarfclient.c:895-951).                          *)
THEOREM TypeCorrect == Spec => []TypeOK
<1>1. IInv => TypeOK
  BY DEF IInv
<1> QED
  BY <1>1, Invariant, PTL

-----------------------------------------------------------------------------
(* What a search has found: a declaration in whose scopes are the scopes   *)
(* of every other that it has come past.                                   *)

Candidate(d) == Local(d) /\ Matches(d)

FoundInv ==
  kind \in Searches /\ Regular /\ state # "fault" =>
    /\ v # NoDie => Candidate(v)
    /\ \A w : Candidate(w) /\ ~Pending(w) =>
         v # NoDie /\ Over(unit, w) \subseteq Over(unit, v)

LEMMA NothingFoundYet ==
  ASSUME Asked, todo = Start, v = NoDie
  PROVE  FoundInv
<1> DEFINE c == [die |-> 1, enclosing |-> FALSE]
<1>1. c \in Calls(todo)
  <2> HIDE DEF c
  <2>1. Len(<<c>>) = 1 /\ <<c>>[1] = c
    OBVIOUS
  <2>2. todo = <<c>>
    BY DEF Start, c
  <2> QED
    BY <2>1, <2>2 DEF Calls
<1>2. \A w : Covers(c.die, w)
  BY DEF Covers, Below
<1>3. \A w : Pending(w)
  BY <1>1, <1>2 DEF Pending
<1> QED
  BY <1>3 DEF FoundInv

LEMMA SameQuestion ==
  ASSUME UNCHANGED <<unit, addr, varname>>
  PROVE  /\ Regular' <=> Regular
         /\ \A w : Candidate(w)' <=> Candidate(w)
BY DEF Regular, Dies, Declares, Candidate, Local, Encloses, Matches

LEMMA NextKeepsFoundInv ==
  ASSUME ProperUnits, IInv, FoundInv, [Next]_vars
  PROVE  FoundInv'
<1>1. /\ Asked /\ Told /\ todo \in Seq(Visits) /\ ProperUnit(unit)
      /\ Dies = 1 .. Len(unit) /\ NoDie \notin Dies /\ Tree(unit)
  BY AskedFacts DEF IInv, TypeOK, Visits
<1>2. UNCHANGED <<unit, addr, varname, kind>>
  BY DEF Next, Visit, Take, ReadNoName, ShowVariable, Pass, WalkEnds, Unwrap, Resolved, vars
<1>3. /\ Regular' <=> Regular
      /\ \A w : Candidate(w)' <=> Candidate(w)
  BY <1>2, SameQuestion
<1> SUFFICES ASSUME kind \in Searches, Regular, state' # "fault"
             PROVE  /\ v' # NoDie => Candidate(v')
                    /\ \A w : Candidate(w) /\ ~Pending(w)' =>
                         v' # NoDie /\ Over(unit, w) \subseteq Over(unit, v')
  BY <1>2, <1>3 DEF FoundInv
<1>4. CASE UNCHANGED <<todo, v, state>>
  BY <1>2, <1>4, SameTree DEF FoundInv, Pending, Calls
<1>5. ASSUME NEW d \in Dies, Visiting(d)
      PROVE  /\ todo # <<>> /\ d = Head(todo).die /\ state # "fault"
             /\ \A w : Covers(d, w) => Pending(w)
             /\ InScope(d) <=> Local(d)
  <2>1. todo # <<>> /\ d = Head(todo).die /\ state # "fault"
    BY <1>5 DEF Visiting
  <2>2. Head(todo) \in Calls(todo)
    BY <1>1, <2>1, CallsOfHeadAndTail
  <2>3. Head(todo).enclosing <=> d # 1 /\ Encloses(unit[d].parent)
    BY <1>1, <2>1, <2>2 DEF Told
  <2>4. d \in 2 .. Len(unit) <=> d # 1
    BY <1>1, AskedFacts
  <2> QED
    BY <2>1, <2>2, <2>3, <2>4 DEF Pending, InScope, Local
<1>6. ASSUME NEW d \in Dies, Take(d)
      PROVE  /\ v' # NoDie => Candidate(v')
             /\ \A w : Candidate(w) /\ ~Pending(w)' =>
                  v' # NoDie /\ Over(unit, w) \subseteq Over(unit, v')
  <2>1. Visiting(d) /\ InScope(d) /\ Matches(d) /\ v' = d /\ todo' = MoveOn(d)
    BY <1>6 DEF Take
  <2>2. Local(d) /\ todo # <<>> /\ d = Head(todo).die
    BY <1>5, <2>1
  <2> SUFFICES ASSUME NEW w, Candidate(w), ~Pending(w)'
               PROVE  Over(unit, w) \subseteq Over(unit, d)
    BY <1>1, <2>1, <2>2 DEF Candidate
  <2>3. CASE Pending(w)
    <3>1. Below(d, w)
      BY <1>1, <1>2, <2>1, <2>2, <2>3, MoveOnLeaves
    <3> QED
      BY <1>1, <2>2, <3>1, NothingBelow DEF Candidate
  <2>4. CASE ~Pending(w)
    <3>1. \A c \in Siblings(d) : ~Below(c, w)
      BY <1>5, <2>1, <2>4 DEF Covers
    <3> QED
      BY <1>1, <2>2, <3>1, LaterOrOuter DEF Candidate
  <2> QED
    BY <2>3, <2>4
<1>7. ASSUME NEW d \in Dies, ReadNoName(d)
      PROVE  FALSE
  <2>1. Local(d) /\ unit[d].name = NoName
    BY <1>5, <1>7 DEF ReadNoName
  <2> QED
    BY <2>1 DEF Regular, Local, Encloses
<1>8. ASSUME NEW d \in Dies, ShowVariable(d)
      PROVE  FALSE
  BY <1>8 DEF ShowVariable, Listings, Searches
<1>9. ASSUME NEW d \in Dies, Pass(d)
      PROVE  /\ v' # NoDie => Candidate(v')
             /\ \A w : Candidate(w) /\ ~Pending(w)' =>
                  v' # NoDie /\ Over(unit, w) \subseteq Over(unit, v')
  <2>1. Visiting(d) /\ Descend(d) /\ UNCHANGED <<v, state>> /\ (InScope(d) => ~Matches(d))
    BY <1>9 DEF Pass
  <2>2. ~Candidate(d) /\ todo # <<>> /\ d = Head(todo).die
    BY <1>5, <2>1 DEF Candidate
  <2>3. ASSUME NEW w, Candidate(w), ~Pending(w)'
        PROVE  ~Pending(w)
    <3>1. w \in 2 .. Len(unit) /\ w # d
      BY <2>2, <2>3 DEF Candidate, Local
    <3> QED
      BY <1>1, <1>2, <2>1, <2>2, <2>3, <3>1, DescendLeaves
  <2> QED
    BY <2>1, <2>3 DEF FoundInv
<1>10. CASE WalkEnds \/ Unwrap \/ Resolved
  <2>1. UNCHANGED <<todo, v>> /\ state # "fault"
    BY <1>10 DEF WalkEnds, Unwrap, Resolved, Searches
  <2> QED
    BY <1>2, <2>1, SameTree DEF FoundInv, Pending, Calls
<1> QED
  BY <1>4, <1>6, <1>7, <1>8, <1>9, <1>10 DEF Next, Visit, vars

LEMMA FoundIsInnermost ==
  ASSUME ProperUnits, IInv, FoundInv
  PROVE  FindsInnermost
<1>1. Asked /\ ProperUnit(unit) /\ Dies = 1 .. Len(unit) /\ Len(unit) \in Nat /\ varname \in Names
  BY AskedFacts DEF IInv
<1> SUFFICES ASSUME todo = <<>>, state # "fault", kind \in Searches, Regular, PrefixFree
             PROVE  IF Innermost = {} THEN v = NoDie ELSE v \in Innermost
  BY DEF FindsInnermost, WalkOver
<1> DEFINE same == {d \in Dies : Visible(d) /\ unit[d].name = varname}
<1>2. \A d : Candidate(d) <=> d \in same
  <2>1. \A d : Local(d) => d \in Dies
    BY <1>1 DEF Local
  <2>2. \A d \in Dies : Local(d) <=> Visible(d)
    BY <1>1, LocalIsVisible
  <2>3. \A d \in Dies : Visible(d) => (Matches(d) <=> unit[d].name = varname)
    BY <1>1, LookupAssumption DEF PrefixFree, Matches
  <2> QED
    BY <2>1, <2>2, <2>3 DEF Candidate
<1>3. \A w : ~Pending(w)
  <2>1. Calls(todo) = {}
    <3>1. Len(<<>>) = 0
      BY EmptySeq
    <3> QED
      BY <3>1 DEF Calls
  <2> QED
    BY <2>1 DEF Pending
<1>4. /\ v # NoDie => v \in same
      /\ \A w \in same : v # NoDie /\ ScopesOf(w) \subseteq ScopesOf(v)
  <2> HIDE DEF same
  <2> QED
    BY <1>2, <1>3 DEF FoundInv, ScopesOf, Over
<1>5. v # NoDie => v \in Innermost
  BY <1>4 DEF Innermost
<1>6. v = NoDie => Innermost = {}
  BY <1>4 DEF Innermost
<1> QED
  BY <1>5, <1>6

(* A search ends at the declaration that C means, for every unit that a    *)
(* compiler writes, every address and every name (dwarfclient.c:570-616).  *)
THEOREM SearchFindsInnermost ==
  ASSUME ProperUnits
  PROVE  Spec => []FindsInnermost
<1>1. Init => FoundInv
  <2> SUFFICES ASSUME Init PROVE FoundInv
    OBVIOUS
  <2>1. Asked
    BY InitIInv DEF IInv
  <2> QED
    BY <2>1, NothingFoundYet DEF Init
<1>2. IInv /\ FoundInv /\ [Next]_vars => FoundInv'
  BY NextKeepsFoundInv
<1>3. IInv /\ FoundInv => FindsInnermost
  BY FoundIsInnermost
<1> QED
  BY <1>1, <1>2, <1>3, Invariant, PTL DEF Spec

-----------------------------------------------------------------------------
(* No die is visited twice. *)

(* The dies over d, and d, are in a line.                                  *)
LEMMA OverInLine ==
  ASSUME NEW u, Tree(u)
  PROVE  \A d \in 1 .. Len(u) : \A x, y \in Over(u, d) \cup {d} :
           x = y \/ x \in Over(u, y) \/ y \in Over(u, x)
<1> DEFINE N == Len(u)
           P == {d \in 1 .. N : \A x, y \in Over(u, d) \cup {d} :
                   x = y \/ x \in Over(u, y) \/ y \in Over(u, x)}
<1>1. N \in Nat
  BY DEF Tree
<1>2. ASSUME NEW n \in 1 .. N, \A k \in 1 .. n - 1 : k \in P
      PROVE  n \in P
  <2>1. CASE u[n].parent \in {1, NoDie}
    BY <2>1, OverParent
  <2>2. CASE u[n].parent \notin {1, NoDie}
    <3>1. u[n].parent \in 2 .. n - 1 /\ n \in Nat
      BY <2>2, ParentFacts
    <3>2. u[n].parent \in P
      BY <1>2, <3>1
    <3>3. Over(u, n) = {u[n].parent} \cup Over(u, u[n].parent)
      BY <2>2, OverParent
    <3> QED
      BY <3>2, <3>3
  <2> QED
    BY <2>1, <2>2
<1>3. \A n \in 1 .. N : n \in P
  <2> HIDE DEF N, P
  <2> QED
    BY <1>1, <1>2, OverTheDies
<1> QED
  BY <1>3

(* A die is below one of its siblings only. *)
LEMMA BelowOneSibling ==
  ASSUME NEW u, Tree(u), NEW d \in 1 .. Len(u),
         NEW x \in Over(u, d) \cup {d}, NEW y \in Over(u, d) \cup {d},
         u[x].parent = u[y].parent
  PROVE  x = y
<1>1. /\ Len(u) \in Nat /\ x \in 1 .. Len(u) /\ y \in 1 .. Len(u)
  <2>1. Over(u, d) \subseteq 2 .. d - 1
    BY OverRange
  <2> QED
    BY <2>1 DEF Tree
<1>2. ASSUME NEW a \in 1 .. Len(u), NEW b \in 1 .. Len(u), a \in Over(u, b),
             u[a].parent = u[b].parent
      PROVE  FALSE
  <2>1. u[b].parent \notin {1, NoDie}
    BY <1>2, OverParent
  <2>2. a \in {u[b].parent} \cup Over(u, u[b].parent) /\ u[b].parent \in 2 .. Len(u)
    BY <1>2, <2>1, OverParent, ParentFacts
  <2>3. u[a].parent < a
    BY <1>1, <1>2, <2>1, ParentFacts
  <2>4. Over(u, u[b].parent) \subseteq 2 .. u[b].parent - 1
    BY <1>1, <2>2, OverRange
  <2> QED
    BY <1>1, <1>2, <2>2, <2>3, <2>4
<1> QED
  BY <1>1, <1>2, OverInLine

Apart(x, y) == \A d \in 2 .. Len(unit) : ~(Covers(x, d) /\ Covers(y, d))

AllApart(s) == \A i, j \in 1 .. Len(s) : i < j => Apart(s[i].die, s[j].die)

LEMMA ApartHead ==
  ASSUME NEW s \in Seq(Visits), s # <<>>
  PROVE  AllApart(s) <=> /\ AllApart(Tail(s))
                         /\ \A c \in Calls(Tail(s)) : Apart(Head(s).die, c.die)
<1> DEFINE t == Tail(s)
<1>1. Len(s) \in Nat \ {0}
  BY EmptySeq
<1>2. /\ t \in Seq(Visits) /\ Len(t) = Len(s) - 1 /\ Head(s) = s[1]
      /\ \A i \in 1 .. Len(t) : t[i] = s[i + 1]
  BY HeadTailProperties
<1> HIDE DEF t
<1>3. ASSUME AllApart(s)
      PROVE  AllApart(t) /\ \A c \in Calls(t) : Apart(Head(s).die, c.die)
  <2>1. ASSUME NEW i \in 1 .. Len(t), NEW j \in 1 .. Len(t), i < j
        PROVE  Apart(t[i].die, t[j].die)
    <3>1. i + 1 \in 1 .. Len(s) /\ j + 1 \in 1 .. Len(s) /\ i + 1 < j + 1
      BY <1>1, <1>2, <2>1
    <3> QED
      BY <1>2, <1>3, <3>1 DEF AllApart
  <2>2. ASSUME NEW i \in 1 .. Len(t)
        PROVE  Apart(Head(s).die, t[i].die)
    <3>1. i + 1 \in 1 .. Len(s) /\ 1 \in 1 .. Len(s) /\ 1 < i + 1
      BY <1>1, <1>2
    <3> QED
      BY <1>2, <1>3, <3>1 DEF AllApart
  <2> QED
    BY <2>1, <2>2 DEF AllApart, Calls
<1>4. ASSUME AllApart(t), \A c \in Calls(t) : Apart(Head(s).die, c.die)
      PROVE  AllApart(s)
  <2> SUFFICES ASSUME NEW i \in 1 .. Len(s), NEW j \in 1 .. Len(s), i < j
               PROVE  Apart(s[i].die, s[j].die)
    BY DEF AllApart
  <2>1. j - 1 \in 1 .. Len(t) /\ s[j] = t[j - 1]
    BY <1>1, <1>2
  <2>2. CASE i = 1
    BY <1>2, <1>4, <2>1, <2>2 DEF Calls
  <2>3. CASE i # 1
    <3>1. i - 1 \in 1 .. Len(t) /\ s[i] = t[i - 1] /\ i - 1 < j - 1
      BY <1>1, <1>2, <2>3
    <3> QED
      BY <1>4, <2>1, <3>1 DEF AllApart
  <2> QED
    BY <2>2, <2>3
<1> QED
  BY <1>3, <1>4 DEF t

(* What a call for the first of D covers, for the siblings after d or its  *)
(* children, was covered by the call for d.                                *)
LEMMA FirstOfSiblings ==
  ASSUME Asked, NEW d \in Dies, NEW w \in 2 .. Len(unit), NEW m \in Siblings(d), Covers(m, w)
  PROVE  Covers(d, w) /\ ~Below(d, w)
<1>1. /\ Tree(unit) /\ Dies = 1 .. Len(unit) /\ Len(unit) \in Nat /\ NoDie \notin Dies
  BY AskedFacts
<1>2. PICK y \in {m} \cup Siblings(m) : Below(y, w)
  BY DEF Covers
<1>3. y \in Siblings(d) /\ y > d /\ y \in Dies /\ unit[y].parent = unit[d].parent
  BY <1>1, <1>2 DEF Siblings
<1>4. Covers(d, w)
  BY <1>2, <1>3 DEF Covers
<1>5. y \in 2 .. Len(unit) /\ unit[y].parent \in Dies /\ d # 1
  <2>1. y \in 2 .. Len(unit)
    BY <1>1, <1>3
  <2>2. unit[y].parent \in Dies
    BY <1>1, <2>1 DEF Tree
  <2> QED
    BY <1>1, <1>3, <2>1, <2>2 DEF Tree
<1>6. ASSUME Below(d, w) PROVE FALSE
  <2>1. d \in Over(unit, w) \cup {w} /\ y \in Over(unit, w) \cup {w} /\ w \in 1 .. Len(unit)
    BY <1>1, <1>2, <1>5, <1>6 DEF Below
  <2>2. d = y
    BY <1>1, <1>3, <2>1, BelowOneSibling
  <2> QED
    BY <1>1, <1>3, <2>2
<1> QED
  BY <1>4, <1>6

LEMMA FirstOfKids ==
  ASSUME Asked, NEW d \in Dies, NEW w \in 2 .. Len(unit), NEW m \in Kids(d), Covers(m, w)
  PROVE  Covers(d, w) /\ Below(d, w) /\ w # d
<1>1. /\ Tree(unit) /\ Dies = 1 .. Len(unit) /\ Len(unit) \in Nat /\ NoDie \notin Dies
  BY AskedFacts
<1>2. PICK y \in {m} \cup Siblings(m) : Below(y, w)
  BY DEF Covers
<1>3. y \in Dies /\ unit[y].parent = d
  BY <1>2 DEF Siblings, Kids
<1>4. y \in 2 .. Len(unit) /\ d < y
  <2>1. y # 1
    BY <1>1, <1>3 DEF Tree
  <2> QED
    BY <1>1, <1>3, <2>1 DEF Tree
<1>5. w \in 1 .. Len(unit) /\ Over(unit, w) \subseteq 2 .. w - 1
  BY <1>1, OverRange
<1>6. y \in Over(unit, w) \cup {w}
  BY <1>1, <1>2, <1>4 DEF Below
<1>7. d < w
  BY <1>1, <1>4, <1>5, <1>6
<1>8. Below(d, w)
  <2>1. CASE d = 1
    BY <2>1 DEF Below
  <2>2. CASE d # 1
    <3>1. Over(unit, y) = {d} \cup Over(unit, d)
      BY <1>1, <1>3, <2>2, OverParent
    <3>2. Over(unit, y) \subseteq Over(unit, w)
      BY <1>1, <1>5, <1>6, OverOver
    <3> QED
      BY <3>1, <3>2 DEF Below
  <2> QED
    BY <2>1, <2>2
<1> QED
  BY <1>1, <1>7, <1>8 DEF Covers

LEMMA ApartWithFirst ==
  ASSUME Asked, NEW D, D \subseteq Dies, NEW enc \in BOOLEAN, NEW s \in Seq(Visits),
         AllApart(s), \A m \in D : \A c \in Calls(s) : Apart(m, c.die)
  PROVE  AllApart(FirstOf(D, enc) \o s)
<1>1. CASE D = {}
  <2>1. FirstOf(D, enc) = <<>>
    BY <1>1 DEF FirstOf
  <2>2. <<>> \o s = s
    BY ConcatEmptySeq
  <2> QED
    BY <2>1, <2>2
<1>2. CASE D # {}
  <2> DEFINE r == [die |-> Min(D), enclosing |-> enc]
  <2>1. Min(D) \in D
    <3>1. D \subseteq Nat
      BY AskedFacts
    <3>2. \E m \in D : \A x \in D : m <= x
      BY <1>2, <3>1, LeastDie
    <3> QED
      BY <3>2 DEF Min
  <2>2. FirstOf(D, enc) = <<r>> /\ r \in Visits /\ r.die \in D
    BY <1>2, <2>1 DEF FirstOf, Visits
  <2> HIDE DEF r
  <2>3. <<r>> \in Seq(Visits) /\ Len(<<r>>) = 1 /\ <<r>>[1] = r /\ Len(s) \in Nat
    BY <2>2, LenProperties
  <2> DEFINE q == <<r>>
  <2>4. q \in Seq(Visits) /\ Len(q) = 1 /\ q[1] = r
    BY <2>3
  <2> HIDE DEF q
  <2> DEFINE t == q \o s
  <2>5. Len(t) = Len(q) + Len(s) /\ \A i \in 1 .. Len(q) + Len(s) :
          t[i] = IF i <= Len(q) THEN q[i] ELSE s[i - Len(q)]
    BY <2>4, ConcatProperties
  <2> HIDE DEF t
  <2>6. ASSUME NEW i \in 1 .. Len(t), NEW j \in 1 .. Len(t), i < j
        PROVE  Apart(t[i].die, t[j].die)
    <3>1. j - 1 \in 1 .. Len(s) /\ t[j] = s[j - 1]
      BY <2>3, <2>4, <2>5, <2>6
    <3>2. CASE i = 1
      <4>1. t[i] = r
        BY <2>3, <2>4, <2>5, <3>2
      <4> QED
        BY <2>2, <3>1, <4>1 DEF Calls
    <3>3. CASE i # 1
      <4>1. i - 1 \in 1 .. Len(s) /\ t[i] = s[i - 1] /\ i - 1 < j - 1
        BY <2>3, <2>4, <2>5, <2>6, <3>3
      <4> QED
        BY <3>1, <4>1 DEF AllApart
    <3> QED
      BY <3>2, <3>3
  <2>7. AllApart(t)
    BY <2>6 DEF AllApart
  <2> QED
    BY <2>2, <2>7 DEF t, q
<1> QED
  BY <1>1, <1>2

LEMMA MoveOnApart ==
  ASSUME Asked, todo \in Seq(Visits), AllApart(todo), todo # <<>>, NEW d, d = Head(todo).die
  PROVE  /\ AllApart(MoveOn(d))
         /\ \A c \in Calls(MoveOn(d)) : \A w \in 2 .. Len(unit) :
              Covers(c.die, w) => ~Below(d, w) /\ Pending(w)
<1>1. Tree(unit)
  BY AskedFacts
<1>2. /\ d \in Dies /\ Head(todo).enclosing \in BOOLEAN
      /\ Calls(todo) = {Head(todo)} \cup Calls(Tail(todo))
  BY <1>1, CallsOfMoveOn
<1>3. PICK C : /\ First(Siblings(d), Head(todo).enclosing, C)
               /\ Calls(MoveOn(d)) = C \cup Calls(Tail(todo))
  BY <1>1, CallsOfMoveOn
<1> DEFINE t == Tail(todo)
<1>4. t \in Seq(Visits) /\ AllApart(t) /\ \A c \in Calls(t) : Apart(d, c.die)
  BY ApartHead, HeadTailProperties
<1>5. MoveOn(d) = FirstOf(Siblings(d), Head(todo).enclosing) \o t
  BY DEF MoveOn
<1> HIDE DEF t
<1>6. \A m \in Siblings(d) : \A c \in Calls(t) : Apart(m, c.die)
  BY <1>2, <1>4, FirstOfSiblings DEF Apart
<1>7. AllApart(MoveOn(d))
  BY <1>2, <1>4, <1>5, <1>6, SiblingsAlike, ApartWithFirst
<1>8. ASSUME NEW c \in Calls(MoveOn(d)), NEW w \in 2 .. Len(unit), Covers(c.die, w)
      PROVE  ~Below(d, w) /\ Pending(w)
  <2>1. CASE c \in C
    <3>1. c.die \in Siblings(d)
      BY <1>3, <2>1 DEF First
    <3>2. Covers(d, w) /\ ~Below(d, w)
      BY <1>2, <1>8, <3>1, FirstOfSiblings
    <3> QED
      BY <1>2, <3>2 DEF Pending
  <2>2. CASE c \in Calls(t)
    <3>1. ~Covers(d, w)
      BY <1>4, <1>8, <2>2 DEF Apart
    <3> QED
      BY <1>2, <1>8, <2>2, <3>1 DEF Covers, Pending, t
  <2> QED
    BY <1>3, <2>1, <2>2 DEF t
<1> QED
  BY <1>7, <1>8

LEMMA DescendApart ==
  ASSUME Asked, todo \in Seq(Visits), AllApart(todo), todo # <<>>, NEW d, d = Head(todo).die,
         Descend(d)
  PROVE  /\ AllApart(todo')
         /\ \A c \in Calls(todo') : \A w \in 2 .. Len(unit) :
              Covers(c.die, w) => w # d /\ Pending(w)
<1>1. Tree(unit)
  BY AskedFacts
<1>2. /\ d \in Dies /\ MoveOn(d) \in Seq(Visits)
      /\ Calls(todo) = {Head(todo)} \cup Calls(Tail(todo))
  BY <1>1, CallsOfMoveOn
<1>3. /\ AllApart(MoveOn(d))
      /\ \A c \in Calls(MoveOn(d)) : \A w \in 2 .. Len(unit) :
           Covers(c.die, w) => ~Below(d, w) /\ Pending(w)
  BY MoveOnApart
<1>4. \A m \in Kids(d) : \A w \in 2 .. Len(unit) :
        Covers(m, w) => Covers(d, w) /\ Below(d, w) /\ w # d
  BY <1>2, FirstOfKids
<1>5. todo' = FirstOf(Kids(d), Encloses(d)) \o MoveOn(d) /\ Encloses(d) \in BOOLEAN
  BY DEF Descend, Encloses
<1>6. \A m \in Kids(d) : \A c \in Calls(MoveOn(d)) : Apart(m, c.die)
  BY <1>3, <1>4 DEF Apart
<1>7. AllApart(FirstOf(Kids(d), Encloses(d)) \o MoveOn(d))
  BY <1>2, <1>3, <1>5, <1>6, SiblingsAlike, ApartWithFirst
<1>8. PICK B : /\ First(Kids(d), Encloses(d), B)
               /\ Calls(todo') = B \cup Calls(MoveOn(d))
  <2> DEFINE f == FirstOf(Kids(d), Encloses(d))
  <2>1. f \in Seq(Visits) /\ First(Kids(d), Encloses(d), Calls(f))
    BY <1>1, <1>5, SiblingsAlike, CallsOfFirstOf DEF First
  <2>2. todo' = f \o MoveOn(d)
    BY <1>5
  <2> HIDE DEF f
  <2>3. Calls(f \o MoveOn(d)) = Calls(f) \cup Calls(MoveOn(d))
    BY <1>2, <2>1, CallsOfConcat
  <2> QED
    BY <2>1, <2>2, <2>3
<1>9. ASSUME NEW c \in Calls(todo'), NEW w \in 2 .. Len(unit), Covers(c.die, w)
      PROVE  w # d /\ Pending(w)
  <2>1. CASE c \in B
    <3>1. c.die \in Kids(d)
      BY <1>8, <2>1 DEF First
    <3> QED
      BY <1>2, <1>4, <1>9, <3>1 DEF Pending
  <2>2. CASE c \in Calls(MoveOn(d))
    BY <1>3, <1>9, <2>2 DEF Below
  <2> QED
    BY <1>8, <2>1, <2>2
<1> QED
  BY <1>5, <1>7, <1>9

LEMMA NextKeepsApart ==
  ASSUME IInv, AllApart(todo), [Next]_vars
  PROVE  AllApart(todo)'
<1>1. Asked /\ todo \in Seq(Visits)
  BY DEF IInv, TypeOK, Visits
<1>2. UNCHANGED <<unit, addr>>
  BY DEF Next, Visit, Take, ReadNoName, ShowVariable, Pass, WalkEnds, Unwrap, Resolved, vars
<1>3. \A x, y : Apart(x, y)' <=> Apart(x, y)
  BY <1>2, SameTree DEF Apart
<1>4. todo' = todo \/ \E d : /\ todo # <<>> /\ d = Head(todo).die
                             /\ todo' = MoveOn(d) \/ Descend(d)
  BY DEF Next, Visit, Take, ReadNoName, ShowVariable, Pass, WalkEnds, Unwrap, Resolved, vars, Visiting
<1>5. AllApart(todo')
  BY <1>1, <1>4, MoveOnApart, DescendApart
<1> QED
  BY <1>3, <1>5 DEF AllApart

-----------------------------------------------------------------------------
(* What a list of variables or of scopes has shown: the declarations that  *)
(* the walk has come past, inner ones after outer ones.                    *)

Rows == {k \in DOMAIN shown : Declares(shown[k].die)}

ShownInv ==
  kind \in Listings /\ Regular /\ state \notin {"fault", "null"} =>
    /\ \A k \in Rows : Local(shown[k].die) /\ ~Pending(shown[k].die)
    /\ \A w : Local(w) /\ ~Pending(w) =>
         (state = "resolve" /\ w = v) \/ \E k \in Rows : shown[k].die = w
    /\ \A k, l \in Rows : k < l => Over(unit, shown[k].die) \subseteq Over(unit, shown[l].die)
    /\ state = "resolve" =>
         /\ kind = "vars" /\ Local(v) /\ ~Pending(v)
         /\ \A k \in Rows : Over(unit, shown[k].die) \subseteq Over(unit, v)

IInvListing == IInv /\ AllApart(todo) /\ ShownInv

LEMMA StartPending ==
  ASSUME todo = Start
  PROVE  AllApart(todo) /\ \A w : Pending(w)
<1> DEFINE c == [die |-> 1, enclosing |-> FALSE]
<1>1. Len(todo) = 1 /\ c \in Calls(todo)
  <2> HIDE DEF c
  <2>1. Len(<<c>>) = 1 /\ <<c>>[1] = c
    OBVIOUS
  <2>2. todo = <<c>>
    BY DEF Start, c
  <2> QED
    BY <2>1, <2>2 DEF Calls
<1>2. \A w : Covers(c.die, w)
  BY DEF Covers, Below
<1>3. AllApart(todo)
  BY <1>1 DEF AllApart
<1> QED
  BY <1>1, <1>2, <1>3 DEF Pending

LEMMA NothingShownYet ==
  ASSUME todo = Start, shown = <<>>, state = "walk"
  PROVE  ShownInv
<1>1. \A w : Pending(w)
  BY StartPending
<1>2. Rows = {}
  BY DEF Rows
<1> QED
  BY <1>1, <1>2 DEF ShownInv

(* A row more: e comes after all that was shown.                           *)
LEMMA OneMoreRow ==
  ASSUME TypeOK, NEW e \in [die : Dies, points : Nat, arrs : Nat],
         shown' = Append(shown, e), UNCHANGED unit
  PROVE  /\ Len(shown) \in Nat
         /\ Rows' = Rows \cup {k \in {Len(shown) + 1} : Declares(e.die)}
         /\ \A k \in Rows : shown'[k] = shown[k] /\ k \in 1 .. Len(shown)
         /\ shown'[Len(shown) + 1] = e
<1> DEFINE Shown == [die : Dies, points : Nat, arrs : Nat]
<1>1. shown \in Seq(Shown) /\ e \in Shown
  BY DEF TypeOK
<1> HIDE DEF Shown
<1>2. /\ Len(Append(shown, e)) = Len(shown) + 1
      /\ \A i \in 1 .. Len(shown) : Append(shown, e)[i] = shown[i]
      /\ Append(shown, e)[Len(shown) + 1] = e
      /\ Append(shown, e) \in Seq(Shown)
  BY <1>1, AppendProperties
<1>3. Len(shown) \in Nat /\ DOMAIN shown = 1 .. Len(shown)
  BY <1>1, LenProperties
<1>4. DOMAIN shown' = 1 .. Len(shown) + 1
  BY <1>2, LenProperties
<1>5. \A k \in 1 .. Len(shown) + 1 : k \in 1 .. Len(shown) \/ k = Len(shown) + 1
  BY <1>3
<1>6. 1 .. Len(shown) \subseteq 1 .. Len(shown) + 1 /\ Len(shown) + 1 \in 1 .. Len(shown) + 1
  BY <1>3
<1>7. Rows' = {k \in DOMAIN shown' : Declares(shown'[k].die)}
  BY DEF Rows, Declares
<1> QED
  BY <1>2, <1>3, <1>4, <1>5, <1>6, <1>7 DEF Rows

(* A declaration in the scope of the address is printed, or taken to be    *)
(* printed next: it is no outer one than those before it.                  *)
LEMMA VisitLast ==
  ASSUME ProperUnits, IInv, AllApart(todo), ShownInv, kind \in Listings, Regular,
         NEW d \in Dies, Visiting(d), Descend(d), UNCHANGED <<unit, addr>>
  PROVE  /\ \A w : Local(w) /\ ~Pending(w) => ~Pending(w)'
         /\ \A w : Local(w) /\ ~Pending(w)' => ~Pending(w) \/ w = d
         /\ InScope(d) => /\ Local(d) /\ ~Pending(d)'
                          /\ \A k \in Rows : Over(unit, shown[k].die) \subseteq Over(unit, d)
         /\ Local(d) => InScope(d)
<1>1. /\ Asked /\ Told /\ todo \in Seq(Visits) /\ ProperUnit(unit)
      /\ Dies = 1 .. Len(unit) /\ NoDie \notin Dies /\ Tree(unit)
  BY AskedFacts DEF IInv, TypeOK, Visits
<1>2. todo # <<>> /\ d = Head(todo).die /\ state \notin {"fault", "null"}
  BY DEF Visiting
<1>3. Head(todo) \in Calls(todo)
  BY <1>1, <1>2, CallsOfHeadAndTail
<1>4. InScope(d) <=> Local(d)
  <2>1. Head(todo).enclosing <=> d # 1 /\ Encloses(unit[d].parent)
    BY <1>1, <1>2, <1>3 DEF Told
  <2>2. d \in 2 .. Len(unit) <=> d # 1
    BY <1>1, AskedFacts
  <2> QED
    BY <2>1, <2>2 DEF InScope, Local
<1>5. \A w \in 2 .. Len(unit) : Pending(w)' => w # d /\ Pending(w)
  BY <1>1, <1>2, DescendApart, SameTree DEF Pending, Calls
<1>6. \A w \in 2 .. Len(unit) : Pending(w) => Pending(w)' \/ w = d
  BY <1>1, <1>2, DescendLeaves
<1>7. ASSUME Local(d), NEW k \in Rows
      PROVE  Over(unit, shown[k].die) \subseteq Over(unit, d)
  <2>1. Local(shown[k].die) /\ ~Pending(shown[k].die)
    BY <1>2 DEF ShownInv
  <2>2. \A c \in Siblings(d) : ~Below(c, shown[k].die)
    BY <1>2, <1>3, <2>1 DEF Pending, Covers
  <2> QED
    BY <1>1, <1>7, <2>1, <2>2, LaterOrOuter
<1> QED
  BY <1>4, <1>5, <1>6, <1>7 DEF Local

LEMMA NextKeepsShown ==
  ASSUME ProperUnits, IInv, AllApart(todo), ShownInv, [Next]_vars
  PROVE  ShownInv'
<1>1. UNCHANGED <<unit, addr, varname, kind>>
  BY DEF Next, Visit, Take, ReadNoName, ShowVariable, Pass, WalkEnds, Unwrap, Resolved, vars
<1>2. /\ Regular' <=> Regular
      /\ \A w : Local(w)' <=> Local(w)
      /\ \A x : Declares(x)' <=> Declares(x)
  BY <1>1 DEF Regular, Dies, Declares, Local, Encloses
<1>3. ASSUME UNCHANGED todo PROVE \A w : Pending(w)' <=> Pending(w)
  BY <1>1, <1>3, SameTree DEF Pending, Calls
<1>4. ASSUME UNCHANGED shown PROVE Rows' = Rows
  BY <1>2, <1>4 DEF Rows
<1> SUFFICES ASSUME kind \in Listings, Regular, state' \notin {"fault", "null"}
             PROVE  ShownInv'
  BY <1>1, <1>2 DEF ShownInv
<1>12. state = "walk" =>
         /\ \A k \in Rows : Local(shown[k].die) /\ ~Pending(shown[k].die)
         /\ \A w : Local(w) /\ ~Pending(w) => \E k \in Rows : shown[k].die = w
         /\ \A k, l \in Rows : k < l => Over(unit, shown[k].die) \subseteq Over(unit, shown[l].die)
  BY DEF ShownInv
<1>5. ASSUME NEW d \in Dies, ShowVariable(d)
      PROVE  ShownInv'
  <2>1. /\ Visiting(d) /\ InScope(d) /\ Descend(d) /\ state = "walk"
        /\ \/ /\ kind = "vars" /\ v' = d /\ state' = "resolve" /\ UNCHANGED shown
           \/ /\ kind = "scopes" /\ state' = "walk"
              /\ shown' = Append(shown, [NoType EXCEPT !.die = d])
    BY <1>5 DEF ShowVariable, Visiting
  <2>2. /\ \A w : Local(w) /\ ~Pending(w) => ~Pending(w)'
        /\ \A w : Local(w) /\ ~Pending(w)' => ~Pending(w) \/ w = d
        /\ Local(d) /\ ~Pending(d)'
        /\ \A k \in Rows : Over(unit, shown[k].die) \subseteq Over(unit, d)
    BY <1>1, <2>1, VisitLast
  <2>3. /\ \A w : (\E k \in Rows : shown[k].die = w) => Local(w) /\ ~Pending(w)'
        /\ \A w : Local(w) /\ ~Pending(w)' => w = d \/ \E k \in Rows : shown[k].die = w
        /\ \A k, l \in Rows : k < l => Over(unit, shown[k].die) \subseteq Over(unit, shown[l].die)
    BY <1>12, <2>1, <2>2
  <2>4. CASE v' = d /\ state' = "resolve" /\ UNCHANGED shown /\ kind = "vars"
    BY <1>1, <1>2, <1>4, <2>2, <2>3, <2>4 DEF ShownInv
  <2>5. CASE state' = "walk" /\ shown' = Append(shown, [NoType EXCEPT !.die = d])
    <3> DEFINE e == [NoType EXCEPT !.die = d]
               n == Len(shown) + 1
    <3>1. e \in [die : Dies, points : Nat, arrs : Nat] /\ e.die = d
      BY DEF NoType
    <3> HIDE DEF e
    <3>2. shown' = Append(shown, e)
      BY <2>5 DEF e
    <3>3. Declares(d)
      BY <2>2 DEF Local
    <3>4. /\ n \in Nat \ {0} /\ Rows' = Rows \cup {n}
          /\ \A k \in Rows : shown'[k].die = shown[k].die /\ k \in 1 .. n - 1
          /\ shown'[n].die = d
      BY <1>1, <3>1, <3>2, <3>3, OneMoreRow DEF IInv
    <3> HIDE DEF n
    <3>5. \A w : (\E k \in Rows' : shown'[k].die = w) => Local(w) /\ ~Pending(w)'
      BY <2>2, <2>3, <3>4
    <3>6. \A w : Local(w) /\ ~Pending(w)' => \E k \in Rows' : shown'[k].die = w
      BY <2>3, <3>4
    <3>7. ASSUME NEW k \in Rows', NEW l \in Rows', k < l
          PROVE  Over(unit, shown'[k].die) \subseteq Over(unit, shown'[l].die)
      <4>1. k \in Rows /\ k \in Nat /\ (l \in Rows \/ l = n)
        BY <3>4, <3>7
      <4> QED
        BY <2>2, <2>3, <3>4, <3>7, <4>1
    <3> QED
      BY <1>1, <1>2, <2>5, <3>5, <3>6, <3>7 DEF ShownInv
  <2> QED
    BY <2>1, <2>4, <2>5
<1>6. ASSUME NEW d \in Dies, Pass(d)
      PROVE  ShownInv'
  <2>1. /\ Visiting(d) /\ ~InScope(d) /\ Descend(d) /\ state = "walk" /\ UNCHANGED <<v, state>>
        /\ \/ UNCHANGED shown
           \/ Encloses(d) /\ shown' = Append(shown, [NoType EXCEPT !.die = d])
    BY <1>6 DEF Pass, Visiting, Listings, Searches
  <2>2. /\ \A w : Local(w) /\ ~Pending(w) => ~Pending(w)'
        /\ \A w : Local(w) /\ ~Pending(w)' => ~Pending(w) \/ w = d
        /\ ~Local(d)
    BY <1>1, <2>1, VisitLast
  <2>3. /\ \A w : (\E k \in Rows : shown[k].die = w) => Local(w) /\ ~Pending(w)'
        /\ \A w : Local(w) /\ ~Pending(w)' => \E k \in Rows : shown[k].die = w
        /\ \A k, l \in Rows : k < l => Over(unit, shown[k].die) \subseteq Over(unit, shown[l].die)
    BY <1>12, <2>1, <2>2
  <2>4. Rows' = Rows /\ \A k \in Rows : shown'[k].die = shown[k].die
    <3>1. CASE UNCHANGED shown
      BY <1>4, <3>1
    <3>2. CASE Encloses(d) /\ shown' = Append(shown, [NoType EXCEPT !.die = d])
      <4> DEFINE e == [NoType EXCEPT !.die = d]
      <4>1. e \in [die : Dies, points : Nat, arrs : Nat] /\ e.die = d
        BY DEF NoType
      <4> HIDE DEF e
      <4>2. shown' = Append(shown, e) /\ ~Declares(e.die)
        BY <3>2, <4>1 DEF e, Encloses, Declares, ScopeTags
      <4> QED
        BY <1>1, <4>1, <4>2, OneMoreRow DEF IInv
    <3> QED
      BY <2>1, <3>1, <3>2
  <2> QED
    BY <1>1, <1>2, <2>1, <2>3, <2>4 DEF ShownInv
<1>7. ASSUME NEW d \in Dies, Take(d) \/ ReadNoName(d)
      PROVE  FALSE
  <2>1. ReadNoName(d) /\ Visiting(d) /\ InScope(d) /\ unit[d].name = NoName
    BY <1>7 DEF Take, Listings, Searches, ReadNoName
  <2>2. Descend(d)
    BY <1>7, <2>1 DEF ReadNoName, Listings, Searches
  <2>3. Local(d)
    BY <1>1, <2>1, <2>2, VisitLast
  <2> QED
    BY <2>1, <2>3 DEF Regular, Local, Encloses
<1>8. CASE WalkEnds
  BY <1>1, <1>2, <1>3, <1>4, <1>8 DEF WalkEnds, ShownInv, Listings
<1>9. CASE Unwrap
  BY <1>1, <1>2, <1>3, <1>4, <1>9 DEF Unwrap, ShownInv
<1>10. CASE Resolved
  <2>1. /\ state = "resolve" /\ UNCHANGED <<todo, res>> /\ state' = "walk"
        /\ shown' = Append(shown, [res EXCEPT !.die = v])
    BY <1>10 DEF Resolved, Listings
  <2> DEFINE e == [res EXCEPT !.die = v]
             n == Len(shown) + 1
  <2>2. /\ Local(v) /\ ~Pending(v)
        /\ \A k \in Rows : Over(unit, shown[k].die) \subseteq Over(unit, v)
        /\ \A k \in Rows : Local(shown[k].die) /\ ~Pending(shown[k].die)
        /\ \A w : Local(w) /\ ~Pending(w) => w = v \/ \E k \in Rows : shown[k].die = w
        /\ \A k, l \in Rows : k < l => Over(unit, shown[k].die) \subseteq Over(unit, shown[l].die)
    BY <2>1 DEF ShownInv
  <2>3. e \in [die : Dies, points : Nat, arrs : Nat] /\ e.die = v
    BY <2>1 DEF IInv, TypeOK
  <2> HIDE DEF e
  <2>4. shown' = Append(shown, e)
    BY <2>1 DEF e
  <2>5. Declares(v)
    BY <2>2 DEF Local
  <2>6. /\ n \in Nat \ {0} /\ Rows' = Rows \cup {n}
        /\ \A k \in Rows : shown'[k].die = shown[k].die /\ k \in 1 .. n - 1
        /\ shown'[n].die = v
    BY <1>1, <2>3, <2>4, <2>5, OneMoreRow DEF IInv
  <2> HIDE DEF n
  <2>7. \A w : Pending(w)' <=> Pending(w)
    BY <1>3, <2>1
  <2>8. \A k \in Rows' : Local(shown'[k].die) /\ ~Pending(shown'[k].die)
    BY <2>2, <2>6
  <2>9. \A w : Local(w) /\ ~Pending(w) => \E k \in Rows' : shown'[k].die = w
    BY <2>2, <2>6
  <2>10. ASSUME NEW k \in Rows', NEW l \in Rows', k < l
         PROVE  Over(unit, shown'[k].die) \subseteq Over(unit, shown'[l].die)
    <3>1. k \in Rows /\ k \in Nat /\ (l \in Rows \/ l = n)
      BY <2>6, <2>10
    <3> QED
      BY <2>2, <2>6, <2>10, <3>1
  <2> QED
    BY <1>1, <1>2, <2>1, <2>7, <2>8, <2>9, <2>10 DEF ShownInv
<1>11. CASE UNCHANGED vars
  <2>1. UNCHANGED <<todo, shown, v, state>>
    BY <1>11 DEF vars
  <2> QED
    BY <1>1, <1>2, <1>3, <1>4, <2>1 DEF ShownInv
<1> QED
  BY <1>5, <1>6, <1>7, <1>8, <1>9, <1>10, <1>11 DEF Next, Visit

-----------------------------------------------------------------------------
(* The chain of types from a type on. *)

TypesEnd == \A q \in Queries : \E rank : Grounded(q.unit, rank)

ChainFrom(u, f, k) == IF k = NoDie THEN <<>> ELSE <<k>> \o f[u[k].type]

Ranked(u, rank, n) == {k \in DOMAIN u : rank[k] <= n} \cup {NoDie}

ChainsTo(u, f, S) == f = [k \in S |-> ChainFrom(u, f, k)]

TypesIn(u) == \A d \in DOMAIN u : u[d].type \in DOMAIN u \cup {NoDie}

(* The recursion that ChainsOf is defined by has a solution.               *)
LEMMA ChainsOfDef ==
  ASSUME NEW u, Tree(u), TypesIn(u), NoDie \notin DOMAIN u, NEW rank, Grounded(u, rank)
  PROVE  \A k \in DOMAIN u \cup {NoDie} : ChainsOf(u)[k] = ChainFrom(u, ChainsOf(u), k)
<1> DEFINE N == Len(u)
           P == {n \in 1 .. N : \E f : ChainsTo(u, f, Ranked(u, rank, n))}
<1>1. N \in Nat \ {0} /\ DOMAIN u = 1 .. N
  BY DEF Tree
<1>2. \A k \in DOMAIN u : rank[k] \in 1 .. N
  BY DEF Grounded
<1>3. \A d \in DOMAIN u : u[d].type \in DOMAIN u => rank[u[d].type] < rank[d]
  BY DEF Grounded
<1>4. ASSUME NEW n \in 1 .. N, \A k \in 1 .. n - 1 : k \in P
      PROVE  n \in P
  <2> DEFINE S == Ranked(u, rank, n - 1)
             T == Ranked(u, rank, n)
  <2>1. \E f : ChainsTo(u, f, S)
    <3>1. CASE n = 1
      <4>1. S = {NoDie}
        BY <1>1, <1>2, <3>1 DEF Ranked
      <4> DEFINE f == [k \in {NoDie} |-> <<>>]
      <4>2. \A k \in {NoDie} : ChainFrom(u, f, k) = <<>>
        BY DEF ChainFrom
      <4>3. f = [k \in {NoDie} |-> ChainFrom(u, f, k)]
        <5> HIDE DEF f
        <5>1. [k \in {NoDie} |-> ChainFrom(u, f, k)] = [k \in {NoDie} |-> <<>>]
          BY <4>2
        <5> QED
          BY <5>1 DEF f
      <4>4. ChainsTo(u, f, {NoDie})
        BY <4>3 DEF ChainsTo
      <4> QED
        BY <4>1, <4>4
    <3>2. CASE n # 1
      BY <1>1, <1>4, <3>2
    <3> QED
      BY <3>1, <3>2
  <2> PICK f : ChainsTo(u, f, S)
    BY <2>1
  <2> DEFINE g == [k \in T |-> ChainFrom(u, f, k)]
  <2>2. S \subseteq T
    BY <1>1, <1>2 DEF Ranked
  <2>3. \A k \in S : f[k] = ChainFrom(u, f, k)
    BY DEF ChainsTo
  <2>4. \A k \in S : g[k] = f[k]
    BY <2>2, <2>3
  <2>5. ASSUME NEW k \in T PROVE ChainFrom(u, f, k) = ChainFrom(u, g, k)
    <3>1. CASE k = NoDie
      BY <3>1 DEF ChainFrom
    <3>2. CASE k # NoDie
      <4>1. k \in DOMAIN u /\ rank[k] <= n /\ u[k].type \in DOMAIN u \cup {NoDie}
        BY <3>2 DEF Ranked, TypesIn
      <4>2. u[k].type \in DOMAIN u => rank[u[k].type] <= n - 1
        BY <1>1, <1>2, <1>3, <4>1
      <4>3. u[k].type \in S
        BY <4>1, <4>2 DEF Ranked
      <4> HIDE DEF g, S
      <4> QED
        BY <2>4, <4>3, <3>2 DEF ChainFrom
    <3> QED
      BY <3>1, <3>2
  <2>6. ChainsTo(u, g, T)
    <3>1. [k \in T |-> ChainFrom(u, f, k)] = [k \in T |-> ChainFrom(u, g, k)]
      <4> HIDE DEF g, T
      <4> QED
        BY <2>5
    <3> QED
      BY <3>1 DEF ChainsTo
  <2> QED
    BY <2>6
<1>5. N \in P
  <2> HIDE DEF P
  <2>1. \A n \in 1 .. N : n \in P
    <3> HIDE DEF N
    <3> QED
      BY <1>1, <1>4, OverTheDies
  <2> QED
    BY <1>1, <2>1
<1>6. Ranked(u, rank, N) = DOMAIN u \cup {NoDie}
  BY <1>1, <1>2 DEF Ranked
<1>7. ChainsTo(u, ChainsOf(u), DOMAIN u \cup {NoDie})
  <2>1. ChainsOf(u) = CHOOSE f : ChainsTo(u, f, DOMAIN u \cup {NoDie})
    BY DEF ChainsOf, ChainsTo, ChainFrom
  <2> QED
    BY <1>5, <1>6, <2>1
<1> DEFINE c == ChainsOf(u)
<1>8. c = [k \in DOMAIN u \cup {NoDie} |-> ChainFrom(u, c, k)]
  BY <1>7 DEF ChainsTo
<1> HIDE DEF c
<1>9. \A k \in DOMAIN u \cup {NoDie} : c[k] = ChainFrom(u, c, k)
  BY <1>8
<1> QED
  BY <1>9 DEF c

(* A chain of types begins with the type, goes on from each to the type it *)
(* refers to, and ends with one that refers to none.                       *)
IsChain(u, d, c) ==
  /\ c \in Seq(DOMAIN u)
  /\ Len(c) \in Nat \ {0}
  /\ c[1] = d
  /\ \A k \in 1 .. Len(c) - 1 : u[c[k]].type = c[k + 1]
  /\ u[c[Len(c)]].type = NoDie

LEMMA ChainsAre ==
  ASSUME NEW u, Tree(u), TypesIn(u), NoDie \notin DOMAIN u, NEW rank, Grounded(u, rank)
  PROVE  \A d \in DOMAIN u : IsChain(u, d, ChainsOf(u)[d])
<1> DEFINE N == Len(u)
           C(d) == ChainsOf(u)[d]
           P == {n \in 1 .. N : \A d \in DOMAIN u : rank[d] = n => IsChain(u, d, C(d))}
<1>1. N \in Nat \ {0} /\ DOMAIN u = 1 .. N
  BY DEF Tree
<1>2. \A k \in DOMAIN u : rank[k] \in 1 .. N
  BY DEF Grounded
<1>3. \A d \in DOMAIN u : u[d].type \in DOMAIN u => rank[u[d].type] < rank[d]
  BY DEF Grounded
<1>4. /\ C(NoDie) = <<>>
      /\ \A d \in DOMAIN u : C(d) = <<d>> \o C(u[d].type)
  BY ChainsOfDef DEF ChainFrom
<1>5. ASSUME NEW n \in 1 .. N, \A k \in 1 .. n - 1 : k \in P
      PROVE  n \in P
  <2> SUFFICES ASSUME NEW d \in DOMAIN u, rank[d] = n PROVE IsChain(u, d, C(d))
    OBVIOUS
  <2> DEFINE h == <<d>>
             t == C(u[d].type)
             c == C(d)
  <2>1. h \in Seq(DOMAIN u) /\ Len(h) = 1 /\ h[1] = d
    OBVIOUS
  <2>2. c = h \o t
    BY <1>4
  <2>3. \/ t = <<>> /\ u[d].type = NoDie
        \/ IsChain(u, u[d].type, t)
    <3>1. CASE u[d].type = NoDie
      BY <1>4, <3>1
    <3>2. CASE u[d].type # NoDie
      <4>1. u[d].type \in DOMAIN u
        BY <3>2 DEF TypesIn
      <4>2. rank[u[d].type] \in 1 .. n - 1
        BY <1>1, <1>2, <1>3, <4>1
      <4> QED
        BY <1>5, <4>1, <4>2
    <3> QED
      BY <3>1, <3>2
  <2>4. t \in Seq(DOMAIN u) /\ Len(t) \in Nat
    <3>1. CASE t = <<>>
      <4>1. <<>> \in Seq(DOMAIN u) /\ Len(<<>>) = 0
        BY EmptySeq
      <4> QED
        BY <3>1, <4>1
    <3>2. CASE IsChain(u, u[d].type, t)
      BY <3>2 DEF IsChain
    <3> QED
      BY <2>3, <3>1, <3>2
  <2> HIDE DEF h, t, c
  <2>5. /\ c \in Seq(DOMAIN u) /\ Len(c) = 1 + Len(t) /\ c[1] = d
        /\ \A i \in 1 .. Len(t) : c[i + 1] = t[i]
    <3>1. /\ h \o t \in Seq(DOMAIN u) /\ Len(h \o t) = Len(h) + Len(t)
          /\ \A i \in 1 .. Len(h) + Len(t) :
               (h \o t)[i] = IF i <= Len(h) THEN h[i] ELSE t[i - Len(h)]
      BY <2>1, <2>4, ConcatProperties
    <3>2. /\ c \in Seq(DOMAIN u) /\ Len(c) = 1 + Len(t)
          /\ \A i \in 1 .. 1 + Len(t) : c[i] = IF i <= 1 THEN h[i] ELSE t[i - 1]
      BY <2>1, <2>2, <3>1
    <3>3. c[1] = h[1]
      BY <2>4, <3>2
    <3>4. ASSUME NEW i \in 1 .. Len(t) PROVE c[i + 1] = t[i]
      <4>1. i + 1 \in 1 .. 1 + Len(t) /\ ~(i + 1 <= 1) /\ i + 1 - 1 = i
        BY <2>4
      <4> QED
        BY <3>2, <4>1
    <3> QED
      BY <2>1, <3>2, <3>3, <3>4
  <2>6. CASE t = <<>> /\ u[d].type = NoDie
    <3>1. Len(t) = 0
      BY <2>6
    <3> QED
      BY <2>5, <2>6, <3>1 DEF IsChain, c
  <2>7. CASE IsChain(u, u[d].type, t)
    <3>1. /\ Len(t) \in Nat \ {0} /\ t[1] = u[d].type /\ u[t[Len(t)]].type = NoDie
          /\ \A k \in 1 .. Len(t) - 1 : u[t[k]].type = t[k + 1]
      BY <2>7 DEF IsChain
    <3>2. c[Len(c)] = t[Len(t)] /\ c[2] = t[1]
      <4>1. Len(t) \in 1 .. Len(t) /\ Len(c) = Len(t) + 1 /\ 1 \in 1 .. Len(t) /\ 1 + 1 = 2
        BY <2>5, <3>1
      <4> QED
        BY <2>5, <4>1
    <3>3. ASSUME NEW k \in 1 .. Len(c) - 1 PROVE u[c[k]].type = c[k + 1]
      <4>1. CASE k = 1
        BY <2>5, <3>1, <3>2, <4>1
      <4>2. CASE k # 1
        <5>1. k - 1 \in 1 .. Len(t) - 1 /\ k \in 1 .. Len(t) /\ k - 1 \in 1 .. Len(t)
              /\ (k - 1) + 1 = k
          BY <2>5, <3>1, <4>2
        <5>2. c[k + 1] = t[k] /\ c[k] = t[k - 1] /\ u[t[k - 1]].type = t[k]
          <6>1. c[k + 1] = t[k]
            BY <2>5, <5>1
          <6>2. c[(k - 1) + 1] = t[k - 1]
            BY <2>5, <5>1
          <6>3. u[t[k - 1]].type = t[(k - 1) + 1]
            BY <3>1, <5>1
          <6> QED
            BY <5>1, <6>1, <6>2, <6>3
        <5> QED
          BY <5>2
      <4> QED
        BY <4>1, <4>2
    <3>4. Len(c) \in Nat \ {0}
      BY <2>5, <3>1
    <3> QED
      BY <2>5, <3>1, <3>2, <3>3, <3>4 DEF IsChain, c
  <2> QED
    BY <2>3, <2>6, <2>7
<1>6. \A n \in 1 .. N : n \in P
  <2> HIDE DEF N, P
  <2> QED
    BY <1>1, <1>5, OverTheDies
<1> QED
  BY <1>2, <1>6

-----------------------------------------------------------------------------
(* What DC_resolve_type has counted on its way up the chain.               *)

ChainIn(u, d) == ChainsOf(u)[u[d].type]

Before(u, c, t, n) == Cardinality({k \in 1 .. n - 1 : u[c[k]].tag = t})

Counted(u, r, c, n) ==
  /\ r.points = Before(u, c, "pointer_type", n)
  /\ r.arrs = Before(u, c, "array_type", n)

(* r has come to the nth type of the chain from declaration d's type.      *)
Reached(u, r, d, n) ==
  LET c == ChainIn(u, d)
  IN  u[d].type # NoDie /\ n \in 1 .. Len(c) /\ r.die = c[n] /\ Counted(u, r, c, n)

(* r is what is shown of declaration r.die.                                *)
Typed(u, r) == Counted(u, r, ChainIn(u, r.die), Len(ChainIn(u, r.die)))

TypesInv ==
  /\ state = "resolve" => \E n : Reached(unit, res, v, n)
  /\ kind = "type" /\ state = "done" => Reached(unit, res, v, Len(ChainIn(unit, v)))
  /\ kind = "vars" => \A k \in DOMAIN shown : Typed(unit, shown[k])

LEMMA NoneBefore ==
  ASSUME NEW u, NEW c, NEW t
  PROVE  Before(u, c, t, 1) = 0
<1>1. {k \in 1 .. 1 - 1 : u[c[k]].tag = t} = {}
  OBVIOUS
<1> QED
  BY <1>1, FS_EmptySet DEF Before

LEMMA OneMoreBefore ==
  ASSUME NEW u, NEW c, NEW t, NEW n \in Nat \ {0}
  PROVE  Before(u, c, t, n + 1) = Before(u, c, t, n) + (IF u[c[n]].tag = t THEN 1 ELSE 0)
<1> DEFINE S == {k \in 1 .. n - 1 : u[c[k]].tag = t}
           T == {k \in 1 .. (n + 1) - 1 : u[c[k]].tag = t}
<1>1. IsFiniteSet(S) /\ Cardinality(S) \in Nat
  <2>1. IsFiniteSet(1 .. n - 1)
    BY FS_Interval
  <2>2. IsFiniteSet(S)
    BY <2>1, FS_Subset
  <2> QED
    BY <2>2, FS_CardinalityType
<1>2. CASE u[c[n]].tag = t
  <2>1. T = S \cup {n} /\ n \notin S
    BY <1>2
  <2>2. Cardinality(S \cup {n}) = Cardinality(S) + 1
    <3> HIDE DEF S
    <3> QED
      BY <1>1, <2>1, FS_AddElement
  <2>3. Cardinality(T) = Cardinality(S) + 1
    BY <2>1, <2>2
  <2> QED
    BY <1>2, <2>3 DEF Before
<1>3. CASE u[c[n]].tag # t
  <2>1. T = S
    BY <1>3
  <2>2. Cardinality(T) = Cardinality(S) + 0
    <3> HIDE DEF S, T
    <3> QED
      BY <1>1, <2>1
  <2> QED
    BY <1>3, <2>2 DEF Before
<1> QED
  BY <1>2, <1>3

LEMMA ChainHere ==
  ASSUME TypesEnd, Asked
  PROVE  \A d \in Dies : unit[d].type # NoDie => IsChain(unit, unit[d].type, ChainIn(unit, d))
<1>1. PICK rank : Grounded(unit, rank)
  BY DEF TypesEnd, Asked
<1>2. Tree(unit) /\ TypesIn(unit) /\ NoDie \notin DOMAIN unit
  BY AskedFacts DEF TypesIn, Dies
<1>3. \A d \in DOMAIN unit : IsChain(unit, d, ChainsOf(unit)[d])
  BY <1>1, <1>2, ChainsAre
<1> QED
  BY <1>2, <1>3 DEF ChainIn, TypesIn, Dies

(* The first type of the chain is reached before any is counted.           *)
LEMMA FirstReached ==
  ASSUME TypesEnd, Asked, NEW d \in Dies, unit[d].type # NoDie
  PROVE  Reached(unit, [NoType EXCEPT !.die = unit[d].type], d, 1)
<1> DEFINE r == [NoType EXCEPT !.die = unit[d].type]
           c == ChainIn(unit, d)
<1>1. IsChain(unit, unit[d].type, c)
  BY ChainHere
<1>2. r.die = unit[d].type /\ r.points = 0 /\ r.arrs = 0
  BY DEF NoType
<1> HIDE DEF r, c
<1>3. 1 \in 1 .. Len(c) /\ r.die = c[1] /\ Counted(unit, r, c, 1)
  BY <1>1, <1>2, NoneBefore DEF IsChain, Counted
<1> QED
  BY <1>3 DEF Reached, r, c

LEMMA NextKeepsTypes ==
  ASSUME TypesEnd, IInv, TypesInv, [Next]_vars
  PROVE  TypesInv'
<1>1. Asked /\ NoDie \notin Dies /\ TypeOK
  BY AskedFacts DEF IInv
<1>2. UNCHANGED <<unit, kind>>
  BY DEF Next, Visit, Take, ReadNoName, ShowVariable, Pass, WalkEnds, Unwrap, Resolved, vars
<1>3. ASSUME NEW d \in Dies, Take(d) \/ ReadNoName(d) \/ ShowVariable(d) \/ Pass(d)
      PROVE  TypesInv'
  <2>1. /\ state = "walk"
        /\ kind = "vars" => shown' = shown
        /\ state' # "done"
    BY <1>3 DEF Take, ReadNoName, ShowVariable, Pass, Visiting
  <2>2. ASSUME state' = "resolve"
        PROVE  Reached(unit, res', v', 1)
    <3>1. /\ v' = d /\ unit[d].type # NoDie
          /\ res' = [NoType EXCEPT !.die = unit[d].type]
      BY <1>3, <2>1, <2>2 DEF Take, ReadNoName, ShowVariable, Pass
    <3> QED
      BY <1>1, <3>1, FirstReached
  <2> QED
    BY <1>2, <2>1, <2>2 DEF TypesInv
<1>4. CASE WalkEnds
  <2>1. /\ UNCHANGED <<v, shown>>
        /\ state' = "done" => kind # "type"
        /\ state' = "resolve" =>
             /\ v # NoDie /\ unit[v].type # NoDie
             /\ res' = [NoType EXCEPT !.die = unit[v].type]
    BY <1>4 DEF WalkEnds, Has, Listings
  <2>2. state' = "resolve" => Reached(unit, res', v', 1)
    BY <1>1, <2>1, FirstReached DEF TypeOK
  <2> QED
    BY <1>2, <2>1, <2>2 DEF TypesInv
<1>5. CASE Unwrap
  <2> DEFINE c == ChainIn(unit, v)
             t == unit[res.die]
  <2>1. /\ UNCHANGED <<v, shown, state>> /\ state = "resolve"
        /\ t.type # NoDie
        /\ res'.die = t.type
        /\ res'.points = res.points + (IF t.tag = "pointer_type" THEN 1 ELSE 0)
        /\ res'.arrs = res.arrs + (IF t.tag = "array_type" THEN 1 ELSE 0)
    BY <1>5 DEF Unwrap
  <2>2. PICK n \in 1 .. Len(c) :
          unit[v].type # NoDie /\ res.die = c[n] /\ Counted(unit, res, c, n)
    BY <2>1 DEF TypesInv, Reached
  <2>3. IsChain(unit, unit[v].type, c)
    BY <1>1, <2>1, <2>2, ChainHere DEF TypeOK
  <2> HIDE DEF c
  <2>4. Len(c) \in Nat \ {0} /\ n \in Nat \ {0} /\ n # Len(c)
    BY <2>1, <2>2, <2>3 DEF IsChain
  <2>5. n \in 1 .. Len(c) - 1 /\ n + 1 \in 1 .. Len(c)
    BY <2>4
  <2>6. res'.die = c[n + 1]
    BY <2>1, <2>2, <2>3, <2>5 DEF IsChain
  <2>7. Counted(unit, res', c, n + 1)
    <3>1. \A tag : Before(unit, c, tag, n + 1)
                     = Before(unit, c, tag, n) + (IF unit[c[n]].tag = tag THEN 1 ELSE 0)
      BY <2>4, OneMoreBefore
    <3> QED
      BY <2>1, <2>2, <3>1 DEF Counted
  <2>8. Reached(unit, res', v, n + 1)
    BY <2>2, <2>5, <2>6, <2>7 DEF Reached, c
  <2> QED
    BY <1>2, <2>1, <2>8 DEF TypesInv
<1>6. CASE Resolved
  <2> DEFINE c == ChainIn(unit, v)
  <2>1. /\ state = "resolve" /\ unit[res.die].type = NoDie /\ res' = res
        /\ state' # "resolve"
    BY <1>6 DEF Resolved
  <2>2. PICK n \in 1 .. Len(c) :
          unit[v].type # NoDie /\ res.die = c[n] /\ Counted(unit, res, c, n)
    BY <2>1 DEF TypesInv, Reached
  <2>3. v \in Dies /\ IsChain(unit, unit[v].type, c)
    BY <1>1, <2>1, <2>2, ChainHere DEF TypeOK
  <2> HIDE DEF c
  <2>4. n = Len(c)
    <3>1. Len(c) \in Nat /\ (n = Len(c) \/ n \in 1 .. Len(c) - 1)
      BY <2>3 DEF IsChain
    <3>2. n \in 1 .. Len(c) - 1 => c[n + 1] = NoDie /\ n + 1 \in 1 .. Len(c)
      BY <2>1, <2>2, <2>3, <3>1 DEF IsChain
    <3>3. \A k \in 1 .. Len(c) : c[k] \in Dies
      BY <2>3 DEF IsChain, Dies
    <3> QED
      BY <1>1, <3>1, <3>2, <3>3
  <2>5. Reached(unit, res, v, Len(c))
    BY <2>2, <2>4 DEF Reached, c
  <2>6. CASE kind = "type" /\ UNCHANGED <<shown, v>>
    BY <1>2, <2>1, <2>5, <2>6 DEF TypesInv, c
  <2>7. CASE kind = "vars" /\ shown' = Append(shown, [res EXCEPT !.die = v])
    <3> DEFINE e == [res EXCEPT !.die = v]
    <3>1. e \in [die : Dies, points : Nat, arrs : Nat] /\ e.die = v
          /\ e.points = res.points /\ e.arrs = res.arrs
      BY <1>1, <2>3 DEF TypeOK
    <3> HIDE DEF e
    <3>2. Typed(unit, e)
      BY <2>2, <2>4, <3>1 DEF Typed, Counted, c
    <3>3. \A k \in DOMAIN shown' : shown'[k] = e \/ (k \in DOMAIN shown /\ shown'[k] = shown[k])
      <4> DEFINE Shown == [die : Dies, points : Nat, arrs : Nat]
      <4>1. shown \in Seq(Shown) /\ e \in Shown
        BY <1>1, <3>1 DEF TypeOK
      <4> HIDE DEF Shown
      <4>2. /\ Len(Append(shown, e)) = Len(shown) + 1
            /\ \A i \in 1 .. Len(shown) : Append(shown, e)[i] = shown[i]
            /\ Append(shown, e)[Len(shown) + 1] = e
            /\ Append(shown, e) \in Seq(Shown)
        BY <4>1, AppendProperties
      <4>3. /\ Len(shown) \in Nat /\ DOMAIN shown = 1 .. Len(shown)
            /\ DOMAIN Append(shown, e) = 1 .. Len(shown) + 1
        BY <4>1, <4>2, LenProperties
      <4>4. \A k \in 1 .. Len(shown) + 1 : k \in 1 .. Len(shown) \/ k = Len(shown) + 1
        BY <4>3
      <4>5. shown' = Append(shown, e)
        BY <2>7 DEF e
      <4> QED
        BY <4>2, <4>3, <4>4, <4>5
    <3>4. \A k \in DOMAIN shown' : Typed(unit, shown'[k])
      BY <2>7, <3>2, <3>3 DEF TypesInv
    <3> QED
      BY <1>2, <2>1, <2>7, <3>4 DEF TypesInv
  <2> QED
    BY <1>6, <2>6, <2>7 DEF Resolved
<1>7. CASE UNCHANGED vars
  BY <1>7 DEF vars, TypesInv
<1> QED
  BY <1>3, <1>4, <1>5, <1>6, <1>7 DEF Next, Visit

(* A list that is done, and a type that is resolved, come after the walk.  *)
EndInv == state = "done" \/ (state = "resolve" /\ kind = "type") => todo = <<>>

LEMMA NextKeepsEnd ==
  ASSUME EndInv, [Next]_vars
  PROVE  EndInv'
<1>1. CASE Visit
  BY <1>1 DEF Visit, Take, ReadNoName, ShowVariable, Pass, Visiting, EndInv
<1>2. CASE WalkEnds
  BY <1>2 DEF WalkEnds, EndInv
<1>3. CASE Unwrap
  BY <1>3 DEF Unwrap, EndInv
<1>4. CASE Resolved
  BY <1>4 DEF Resolved, EndInv
<1>5. CASE UNCHANGED vars
  BY <1>5 DEF vars, EndInv
<1> QED
  BY <1>1, <1>2, <1>3, <1>4, <1>5 DEF Next

LEMMA ListIsVisible ==
  ASSUME ProperUnits, IInv, ShownInv, TypesInv, EndInv
  PROVE  ListsVisible
<1>1. Asked /\ ProperUnit(unit) /\ Dies = 1 .. Len(unit) /\ Len(unit) \in Nat
  BY AskedFacts DEF IInv
<1> SUFFICES ASSUME kind \in Listings, state = "done", Regular
             PROVE  /\ {shown[k].die : k \in Rows} = {d \in Dies : Visible(d)}
                    /\ \A k, l \in Rows :
                         k < l => ScopesOf(shown[k].die) \subseteq ScopesOf(shown[l].die)
                    /\ kind = "vars" =>
                         \A k \in Rows :
                           LET c == Chain(shown[k].die)
                           IN  /\ shown[k].points = Count(c, "pointer_type")
                               /\ shown[k].arrs = Count(c, "array_type")
  BY DEF ListsVisible, Rows
<1>2. \A w : ~Pending(w)
  <2>1. Len(<<>>) = 0
    BY EmptySeq
  <2> QED
    BY <2>1 DEF Pending, Calls, EndInv
<1>3. /\ \A w : (\E k \in Rows : shown[k].die = w) <=> Local(w)
      /\ \A k, l \in Rows : k < l => Over(unit, shown[k].die) \subseteq Over(unit, shown[l].die)
  BY <1>2 DEF ShownInv
<1>4. {shown[k].die : k \in Rows} = {d \in Dies : Visible(d)}
  <2>1. \A w : Local(w) <=> w \in Dies /\ Visible(w)
    BY <1>1, LocalIsVisible DEF Local
  <2> QED
    BY <1>3, <2>1
<1>5. \A k, l \in Rows :
        k < l => ScopesOf(shown[k].die) \subseteq ScopesOf(shown[l].die)
  BY <1>3 DEF ScopesOf, Over
<1>6. kind = "vars" => \A k \in Rows : Typed(unit, shown[k])
  BY DEF TypesInv, Rows
<1> QED
  BY <1>4, <1>5, <1>6 DEF Typed, Counted, Before, Count, Chain, ChainIn

(* A list that is shown to its end has what C sees at the address, for     *)
(* every unit that a compiler writes whose chains of types end             *)
(* (dwarfclient.c:636-690, 699-767, 895-951).                              *)
THEOREM ListShowsVisible ==
  ASSUME ProperUnits, TypesEnd
  PROVE  Spec => []ListsVisible
<1> DEFINE I == AllApart(todo) /\ ShownInv /\ TypesInv /\ EndInv
<1>1. Init => I
  <2> SUFFICES ASSUME Init PROVE I
    OBVIOUS
  <2>1. AllApart(todo) /\ ShownInv
    BY StartPending, NothingShownYet DEF Init
  <2>2. TypesInv /\ EndInv
    BY DEF Init, TypesInv, EndInv
  <2> QED
    BY <2>1, <2>2
<1>2. IInv /\ I /\ [Next]_vars => I'
  <2> SUFFICES ASSUME IInv, I, [Next]_vars PROVE I'
    OBVIOUS
  <2> QED
    BY NextKeepsApart, NextKeepsShown, NextKeepsTypes, NextKeepsEnd
<1>3. IInv /\ I => ListsVisible
  BY ListIsVisible
<1> HIDE DEF I
<1> QED
  BY <1>1, <1>2, <1>3, Invariant, PTL DEF Spec
=============================================================================
