-------------------------- MODULE TapManagerProofs --------------------------
(***************************************************************************)
(* Proofs about TapManager, for every list of TAPs and every set of        *)
(* threads.                                                                *)
(***************************************************************************)
EXTENDS TapManager, SequenceTheorems, FiniteSetTheorems, WellFoundedInduction, TLAPS

(* A nonempty set of indices of a sequence has a least element.            *)
LEMMA LeastIndex ==
  ASSUME NEW I, I \subseteq Nat, I # {}
  PROVE  \E i \in I : \A j \in I : i <= j
<1>1. PICK i \in I : \A j \in I : <<j, i>> \notin OpToRel(<, Nat)
  BY NatLessThanWellFounded, WFMin
<1>2. \A j \in I : ~(j < i)
  BY <1>1 DEF OpToRel
<1> QED
  BY <1>2

(* dlsym returns a TAP of the list or of the handle, or nothing.           *)
LEMMA FirstPreloadedType ==
  ASSUME NEW S
  PROVE  FirstPreloaded(S) \in Taps \cup {NoTap}
<1> DEFINE hits == {i \in DOMAIN TapList : TapList[i] \in Installed \cap S}
<1>1. CASE hits = {}
  BY <1>1 DEF FirstPreloaded
<1>2. CASE hits # {}
  <2>1. hits \subseteq Nat
    BY TapAssumption
  <2>2. \E i \in hits : \A j \in hits : i <= j
    <3> HIDE DEF hits
    <3> QED BY <1>2, <2>1, LeastIndex
  <2>3. PICK i \in hits : FirstPreloaded(S) = TapList[i]
    BY <1>2, <2>2 DEF FirstPreloaded
  <2> QED
    BY <2>3, TapAssumption
<1> QED
  BY <1>1, <1>2

LEMMA dlsymType ==
  ASSUME NEW h \in Taps \cup {NoTap}, NEW S
  PROVE  dlsym(h, S) \in Taps \cup {NoTap}
BY FirstPreloadedType DEF dlsym

-----------------------------------------------------------------------------
(* Room: the entries in use, the one being filled and the tokens to come   *)
(* are no more than the names of the list.  Type correctness needs it: the *)
(* constructor loop reads the entries below LDM_numCtrs, which must be     *)
(* entries of the table or of the memory behind it.                        *)
Filling == IF lpc \in {"ctr", "bump"} THEN 1 ELSE 0

Room == LDM_numCtrs + Filling + Len(todo) <= Len(TapList)

IInv == TypeOK /\ Room

LEMMA InitIInv == Init => IInv
<1> SUFFICES ASSUME Init PROVE IInv
  OBVIOUS
<1>1. TypeOK
  BY TapAssumption DEF Init, TypeOK, LoaderPCs, ThreadPCs
<1>2. Room
  <2>1. Len(TapList) \in Nat
    BY TapAssumption
  <2> QED BY <2>1 DEF Init, Room, Filling
<1> QED
  BY <1>1, <1>2 DEF IInv

(* The thread constructor a thread is at is a TAP or nothing.              *)
LEMMA EntryType ==
  ASSUME IInv, NEW t \in Threads, ci[t] < LDM_numCtrs
  PROVE  LDM_thd_ctr[ci[t]] \in Taps \cup {NoTap}
<1>1. /\ ci[t] \in Nat
      /\ LDM_numCtrs \in Nat
      /\ Len(todo) \in Nat
      /\ Len(TapList) \in Nat
      /\ Filling \in {0, 1}
  BY TapAssumption DEF IInv, TypeOK, Filling
<1>2. ci[t] <= LDM_MAX_TCTRS + Len(TapList)
  BY <1>1, TapAssumption DEF IInv, Room
<1>3. ci[t] \in Entries
  BY <1>1, <1>2, TapAssumption DEF Entries
<1> QED
  BY <1>3 DEF IInv, TypeOK

(* Threads leave the loader and the table alone.                           *)
LEMMA ThreadsKeepRoom ==
  ASSUME Room, UNCHANGED <<loaderVars, tableVars>>
  PROVE  Room'
BY DEF Room, Filling, loaderVars, tableVars

-----------------------------------------------------------------------------
(* The loader's steps. *)
LEMMA LoaderKeepsIInv ==
  ASSUME IInv, LoaderStep
  PROVE  IInv'
<1> USE DEF IInv
<1>0. /\ LDM_numCtrs \in Nat
      /\ Len(todo) \in Nat
      /\ Len(TapList) \in Nat
  BY TapAssumption DEF TypeOK
<1>1. CASE RegisterCreate
  <2>1. TypeOK'
    BY <1>1 DEF RegisterCreate, TypeOK, LoaderPCs, tableVars, keyVars, threadVars
  <2>2. Room'
    BY <1>1 DEF RegisterCreate, Room, Filling, tableVars
  <2> QED BY <2>1, <2>2
<1>2. CASE LoadToken
  <2>1. Head(todo) \in Taps /\ Tail(todo) \in Seq(Taps)
        /\ Len(Tail(todo)) = Len(todo) - 1
    BY <1>2 DEF LoadToken, TypeOK
  <2>2. TypeOK'
    BY <1>2, <2>1
    DEF LoadToken, TypeOK, LoaderPCs, tableVars, keyVars, threadVars
  <2>3. Room'
    BY <1>0, <1>2, <2>1 DEF LoadToken, Room, Filling, tableVars
  <2> QED BY <2>2, <2>3
<1>3. CASE LoadingDone
  <2>1. TypeOK'
    BY <1>3 DEF LoadingDone, TypeOK, LoaderPCs, tableVars, keyVars, threadVars
  <2>2. Room'
    BY <1>3 DEF LoadingDone, Room, Filling, tableVars
  <2> QED BY <2>1, <2>2
<1>4. CASE NoCtor
  <2>1. TypeOK'
    BY <1>4 DEF NoCtor, TypeOK, LoaderPCs, tableVars, keyVars, threadVars
  <2>2. Room'
    BY <1>0, <1>4 DEF NoCtor, Room, Filling, tableVars
  <2> QED BY <2>1, <2>2
<1>5. CASE CtorBumpFirst
  <2>1. TypeOK'
    BY <1>0, <1>5
    DEF CtorBumpFirst, TypeOK, LoaderPCs, keyVars, threadVars
  <2>2. Room'
    BY <1>0, <1>5 DEF CtorBumpFirst, Room, Filling
  <2> QED BY <2>1, <2>2
<1>6. CASE CtorStore
  <2>1. dlsym(handle, ThreadAware) \in Taps \cup {NoTap}
    BY dlsymType DEF TypeOK
  <2>2. TypeOK'
    BY <1>6, <2>1 DEF CtorStore, TypeOK, LoaderPCs, keyVars, threadVars
  <2>3. Room'
    BY <1>6 DEF CtorStore, Room, Filling
  <2> QED BY <2>2, <2>3
<1>7. CASE CtorStoreFirst
  <2>1. dlsym(handle, ThreadAware) \in Taps \cup {NoTap}
    BY dlsymType DEF TypeOK
  <2>2. TypeOK'
    BY <1>7, <2>1 DEF CtorStoreFirst, TypeOK, LoaderPCs, keyVars, threadVars
  <2>3. Room'
    BY <1>7 DEF CtorStoreFirst, Room, Filling
  <2> QED BY <2>2, <2>3
<1>8. CASE CtorBump
  <2>1. TypeOK'
    BY <1>0, <1>8 DEF CtorBump, TypeOK, LoaderPCs, keyVars, threadVars
  <2>2. Room'
    BY <1>0, <1>8 DEF CtorBump, Room, Filling
  <2> QED BY <2>1, <2>2
<1>9. CASE RunInit
  <2> DEFINE p == dlsym(handle, WithInit)
  <2>1. CASE p \in ThreadAware /\ RegisterDtr(p)
    <3>1. p \in Taps
      BY <2>1, TapAssumption
    <3>2. Len(keyDtr) \in Nat
      BY DEF TypeOK
    <3>3. keyDtr' \in Seq(Taps) /\ Len(keyDtr') = Len(keyDtr) + 1
      BY <2>1, <3>1 DEF RegisterDtr, TypeOK
    <3>4. key' \in [KeyVars -> Nat]
      BY <2>1, <3>2 DEF RegisterDtr, TypeOK
    <3>5. values' \in [Threads -> SUBSET (0 .. Len(keyDtr') - 1)]
      <4>1. 0 .. Len(keyDtr) - 1 \subseteq 0 .. Len(keyDtr') - 1
        BY <3>2, <3>3
      <4>2. values \in [Threads -> SUBSET (0 .. Len(keyDtr) - 1)]
        BY DEF TypeOK
      <4>3. values' = values
        BY <1>9 DEF RunInit, threadVars
      <4> QED BY <4>1, <4>2, <4>3
    <3>6. TypeOK'
      BY <1>9, <3>3, <3>4, <3>5
      DEF RunInit, TypeOK, LoaderPCs, tableVars, threadVars
    <3> QED
      BY <1>0, <1>9, <3>6 DEF RunInit, Room, Filling, tableVars
  <2>2. CASE UNCHANGED keyVars
    <3>1. TypeOK'
      BY <1>9, <2>2
      DEF RunInit, TypeOK, LoaderPCs, tableVars, keyVars, threadVars
    <3>2. Room'
      BY <1>0, <1>9 DEF RunInit, Room, Filling, tableVars
    <3> QED BY <3>1, <3>2
  <2> QED
    BY <1>9, <2>1, <2>2 DEF RunInit
<1> QED
  BY <1>1, <1>2, <1>3, <1>4, <1>5, <1>6, <1>7, <1>8, <1>9 DEF LoaderStep

(* The threads' steps. *)
LEMMA ThreadKeepsIInv ==
  ASSUME IInv, NEW t \in Threads,
         Create(t) \/ StartStep(t) \/ Return(t) \/ EndStep(t)
  PROVE  IInv'
<1>0. TypeOK /\ Room
  BY DEF IInv
<1>1. Room'
  <2>1. UNCHANGED <<loaderVars, tableVars>>
    BY DEF StartStep, EndStep, Create, CallCtor, SkipCtor, StartRoutine,
           Return, RunDtr, End
  <2> QED BY <1>0, <2>1, ThreadsKeepRoom
<1>2. CASE Create(t)
  <2>1. TypeOK'
    BY <1>0, <1>2 DEF Create, TypeOK, ThreadPCs, loaderVars, tableVars, keyVars
  <2> QED BY <1>1, <2>1 DEF IInv
<1>3. CASE CallCtor(t)
  <2> DEFINE p == LDM_thd_ctr[ci[t]]
  <2>1. p \in Taps
    BY <1>3, EntryType DEF CallCtor
  <2>2. Installs(p) \subseteq 0 .. Len(keyDtr) - 1
    <3>1. key[KeyVar[p]] \in Nat /\ Len(keyDtr) \in Nat
      BY <1>0, <2>1 DEF TypeOK, KeyVars
    <3> QED BY <3>1 DEF Installs
  <2>3. values' \in [Threads -> SUBSET (0 .. Len(keyDtr') - 1)]
    <3>1. keyDtr' = keyDtr
      BY <1>3 DEF CallCtor, keyVars
    <3>2. values' = [values EXCEPT ![t] = @ \cup Installs(p)]
      BY <1>3 DEF CallCtor
    <3> HIDE DEF p
    <3> QED BY <1>0, <2>2, <3>1, <3>2 DEF TypeOK
  <2>4. ran' \in [Threads -> Seq(Taps)]
    <3>1. Append(ran[t], p) \in Seq(Taps)
      BY <1>0, <2>1 DEF TypeOK
    <3> QED BY <1>0, <1>3, <3>1 DEF CallCtor, TypeOK
  <2>5. ci' \in [Threads -> Nat]
    BY <1>0, <1>3 DEF CallCtor, TypeOK
  <2>6. TypeOK'
    BY <1>0, <1>3, <2>3, <2>4, <2>5
    DEF CallCtor, TypeOK, loaderVars, tableVars, keyVars
  <2> QED BY <1>1, <2>6 DEF IInv
<1>4. CASE SkipCtor(t)
  <2>1. TypeOK'
    BY <1>0, <1>4 DEF SkipCtor, TypeOK, loaderVars, tableVars, keyVars
  <2> QED BY <1>1, <2>1 DEF IInv
<1>5. CASE StartRoutine(t)
  <2>1. TypeOK'
    BY <1>0, <1>5
    DEF StartRoutine, TypeOK, ThreadPCs, loaderVars, tableVars, keyVars
  <2> QED BY <1>1, <2>1 DEF IInv
<1>6. CASE Return(t)
  <2>1. TypeOK'
    BY <1>0, <1>6 DEF Return, TypeOK, ThreadPCs, loaderVars, tableVars, keyVars
  <2> QED BY <1>1, <2>1 DEF IInv
<1>7. CASE RunDtr(t)
  <2>1. PICK k \in values[t] :
          /\ ended' = [ended EXCEPT ![t] = Append(@, keyDtr[k + 1])]
          /\ values' = [values EXCEPT ![t] = @ \ {k}]
    BY <1>7 DEF RunDtr
  <2>2. keyDtr[k + 1] \in Taps
    <3>1. k \in 0 .. Len(keyDtr) - 1 /\ keyDtr \in Seq(Taps)
      BY <1>0, <2>1 DEF TypeOK
    <3> QED BY <3>1
  <2>3. ended' \in [Threads -> Seq(Taps)]
    BY <1>0, <2>1, <2>2 DEF TypeOK
  <2>4. values' \in [Threads -> SUBSET (0 .. Len(keyDtr') - 1)]
    <3>1. keyDtr' = keyDtr
      BY <1>7 DEF RunDtr, keyVars
    <3> QED BY <1>0, <2>1, <3>1 DEF TypeOK
  <2>5. TypeOK'
    BY <1>0, <1>7, <2>3, <2>4
    DEF RunDtr, TypeOK, loaderVars, tableVars, keyVars
  <2> QED BY <1>1, <2>5 DEF IInv
<1>8. CASE End(t)
  <2>1. TypeOK'
    BY <1>0, <1>8 DEF End, TypeOK, ThreadPCs, loaderVars, tableVars, keyVars
  <2> QED BY <1>1, <2>1 DEF IInv
<1> QED
  BY <1>2, <1>3, <1>4, <1>5, <1>6, <1>7, <1>8 DEF StartStep, EndStep

LEMMA StutterKeepsIInv ==
  ASSUME IInv, UNCHANGED vars
  PROVE  IInv'
BY DEF IInv, TypeOK, Room, Filling, vars, loaderVars, tableVars, keyVars,
       threadVars

(* The room in the table is an invariant, with the types it depends on.    *)
THEOREM RoomInvariant == Spec => []IInv
<1>1. IInv /\ [Next]_vars => IInv'
  BY LoaderKeepsIInv, ThreadKeepsIInv, StutterKeepsIInv DEF Next
<1> QED
  BY InitIInv, <1>1, PTL DEF Spec

(* Every variable has its type; in particular no thread has a value for a  *)
(* key that does not exist, and every constructor it runs is some TAP's    *)
(* (thread_constructor.c:24-28, legerdemain.h:67-77).                      *)
THEOREM TypeCorrect == Spec => []TypeOK
<1>1. IInv => TypeOK
  BY DEF IInv
<1> QED
  BY RoomInvariant, <1>1, PTL

-----------------------------------------------------------------------------
(* The thread constructors the list asks for. *)

(* Induction over the names of the list, for a set of their positions.     *)
LEMMA OverTheList ==
  ASSUME NEW N \in Nat, NEW P, 0 \in P, \A n \in 1 .. N : n - 1 \in P => n \in P
  PROVE  \A n \in 0 .. N : n \in P
<1> DEFINE Bad == {n \in 0 .. N : n \notin P}
<1> SUFFICES ASSUME Bad # {} PROVE FALSE
  OBVIOUS
<1>1. Bad \subseteq Nat
  OBVIOUS
<1>2. PICK n \in Bad : \A j \in Bad : n <= j
  <2> HIDE DEF Bad
  <2> QED
    BY <1>1, LeastIndex
<1>3. n \in 1 .. N /\ n - 1 \in 0 .. N /\ n - 1 \notin P
  OBVIOUS
<1>4. n - 1 \in Bad
  BY <1>3
<1> QED
  BY <1>2, <1>3, <1>4

Good == Installed \cap ThreadAware

Selects(f, n) ==
  f = [i \in 0 .. n |-> IF i = 0 THEN <<>>
                        ELSE IF TapList[i] \in Good THEN Append(f[i - 1], TapList[i])
                        ELSE f[i - 1]]

LEMMA SelectedDef ==
  /\ selected[0] = <<>>
  /\ \A n \in 1 .. Len(TapList) :
       selected[n] = IF TapList[n] \in Good THEN Append(selected[n - 1], TapList[n])
                                            ELSE selected[n - 1]
<1> DEFINE N == Len(TapList)
           P == {n \in 0 .. N : \E f : Selects(f, n)}
<1>1. N \in Nat
  BY TapAssumption, LenProperties
<1>2. 0 \in P
  <2> DEFINE f == [i \in 0 .. 0 |-> <<>>]
  <2>1. Selects(f, 0)
    BY DEF Selects
  <2> QED
    BY <1>1, <2>1
<1>3. ASSUME NEW n \in 1 .. N, n - 1 \in P
      PROVE  n \in P
  <2> PICK f : Selects(f, n - 1)
    BY <1>3
  <2> DEFINE g == [i \in 0 .. n |->
                     IF i < n THEN f[i]
                     ELSE IF TapList[i] \in Good THEN Append(f[i - 1], TapList[i])
                     ELSE f[i - 1]]
             h == [i \in 0 .. n |-> IF i = 0 THEN <<>>
                        ELSE IF TapList[i] \in Good THEN Append(g[i - 1], TapList[i])
                        ELSE g[i - 1]]
  <2>1. n \in Nat /\ n >= 1 /\ n - 1 \in Nat
    BY <1>1
  <2>2. \A i \in 0 .. n - 1 :
          f[i] = IF i = 0 THEN <<>>
                 ELSE IF TapList[i] \in Good THEN Append(f[i - 1], TapList[i]) ELSE f[i - 1]
    BY DEF Selects
  <2>3. ASSUME NEW i \in 0 .. n PROVE g[i] = h[i]
    <3>1. CASE i = 0
      BY <2>1, <2>2, <3>1
    <3>2. CASE i \in 1 .. n - 1
      <4>1. g[i - 1] = f[i - 1] /\ g[i] = f[i]
        BY <2>1, <3>2
      <4> HIDE DEF g
      <4> QED
        BY <2>1, <2>2, <3>2, <4>1
    <3>3. CASE i = n
      <4>1. g[i - 1] = f[i - 1] /\ i # 0
        BY <2>1, <3>3
      <4>2. h[i] = IF TapList[i] \in Good THEN Append(g[i - 1], TapList[i]) ELSE g[i - 1]
        <5> HIDE DEF g
        <5> QED
          BY <4>1
      <4>3. g[i] = IF TapList[i] \in Good THEN Append(f[i - 1], TapList[i]) ELSE f[i - 1]
        BY <2>1, <3>3
      <4> QED
        BY <4>1, <4>2, <4>3
    <3> QED
      BY <2>1, <3>1, <3>2, <3>3
  <2>4. g = h
    <3>1. g = [i \in 0 .. n |-> g[i]] /\ h = [i \in 0 .. n |-> h[i]]
      OBVIOUS
    <3> HIDE DEF g, h
    <3> QED
      BY <2>3, <3>1
  <2>5. Selects(g, n)
    <3> HIDE DEF g
    <3> QED
      BY <2>4 DEF Selects
  <2> QED
    BY <1>1, <2>5
<1>4. N \in P
  <2> HIDE DEF P
  <2>1. \A n \in 0 .. N : n \in P
    <3> HIDE DEF N
    <3> QED
      BY <1>1, <1>2, <1>3, OverTheList
  <2> QED
    BY <1>1, <2>1
<1>5. Selects(selected, N)
  <2>1. selected = CHOOSE f : Selects(f, N)
    BY DEF selected, Selects, Good
  <2> QED
    BY <1>4, <2>1
<1>6. selected = [i \in 0 .. N |-> IF i = 0 THEN <<>>
                        ELSE IF TapList[i] \in Good THEN Append(selected[i - 1], TapList[i])
                        ELSE selected[i - 1]]
  BY <1>5 DEF Selects
<1>7. \A n \in 0 .. N :
        selected[n] = IF n = 0 THEN <<>>
                      ELSE IF TapList[n] \in Good THEN Append(selected[n - 1], TapList[n])
                      ELSE selected[n - 1]
  <2> HIDE DEF N
  <2> QED
    BY <1>6
<1>8. 0 \in 0 .. N /\ \A n \in 1 .. N : n \in 0 .. N /\ n # 0
  BY <1>1
<1>9. selected[0] = <<>>
  BY <1>7, <1>8
<1>10. ASSUME NEW n \in 1 .. N
       PROVE  selected[n] = IF TapList[n] \in Good THEN Append(selected[n - 1], TapList[n])
                                                   ELSE selected[n - 1]
  BY <1>7, <1>8
<1> QED
  BY <1>9, <1>10

(* They are thread-aware names of the list, in its order. *)
InOrder(s, n) ==
  /\ s \in Seq(Taps) /\ Len(s) <= n
  /\ \A i \in 1 .. Len(s) : s[i] \in Good /\ \E m \in 1 .. n : TapList[m] = s[i]
  /\ \A i, j \in 1 .. Len(s) : i < j =>
       \E k, m \in 1 .. n : k < m /\ TapList[k] = s[i] /\ TapList[m] = s[j]

LEMMA OneMoreInOrder ==
  ASSUME NEW n \in 1 .. Len(TapList), NEW s, InOrder(s, n - 1), TapList[n] \in Good
  PROVE  InOrder(Append(s, TapList[n]), n)
<1> DEFINE p == TapList[n]
           r == Append(s, p)
<1>1. /\ n \in Nat /\ n >= 1 /\ s \in Seq(Taps) /\ p \in Taps /\ Len(s) \in Nat
      /\ Len(s) <= n - 1
  BY TapAssumption, LenProperties, ElementOfSeq DEF InOrder
<1> HIDE DEF p
<1>2. /\ r \in Seq(Taps) /\ Len(r) = Len(s) + 1
      /\ \A i \in 1 .. Len(s) : r[i] = s[i]
      /\ r[Len(s) + 1] = p
  BY <1>1, AppendProperties
<1> HIDE DEF r
<1>3. ASSUME NEW i \in 1 .. Len(s)
      PROVE  s[i] \in Good /\ \E m \in 1 .. n - 1 : TapList[m] = s[i]
  BY DEF InOrder
<1>4. ASSUME NEW i \in 1 .. Len(r)
      PROVE  r[i] \in Good /\ \E m \in 1 .. n : TapList[m] = r[i]
  <2>1. CASE i = Len(s) + 1
    BY <1>1, <1>2, <2>1 DEF p
  <2>2. CASE i # Len(s) + 1
    <3>1. i \in 1 .. Len(s) /\ r[i] = s[i]
      BY <1>1, <1>2, <2>2
    <3> QED
      BY <1>1, <1>3, <3>1
  <2> QED
    BY <2>1, <2>2
<1>5. ASSUME NEW i \in 1 .. Len(r), NEW j \in 1 .. Len(r), i < j
      PROVE  \E k, m \in 1 .. n : k < m /\ TapList[k] = r[i] /\ TapList[m] = r[j]
  <2>1. i \in 1 .. Len(s) /\ r[i] = s[i]
    BY <1>1, <1>2, <1>5
  <2>2. CASE j = Len(s) + 1
    <3> PICK k \in 1 .. n - 1 : TapList[k] = s[i]
      BY <1>3, <2>1
    <3>1. k \in 1 .. n /\ n \in 1 .. n /\ k < n /\ TapList[n] = r[j]
      BY <1>1, <1>2, <2>2 DEF p
    <3> QED
      BY <2>1, <3>1
  <2>3. CASE j # Len(s) + 1
    <3>1. j \in 1 .. Len(s) /\ r[j] = s[j]
      BY <1>1, <1>2, <2>3
    <3>2. PICK k, m \in 1 .. n - 1 : k < m /\ TapList[k] = s[i] /\ TapList[m] = s[j]
      BY <1>5, <2>1, <3>1 DEF InOrder
    <3>3. k \in 1 .. n /\ m \in 1 .. n
      BY <1>1
    <3> QED
      BY <2>1, <3>1, <3>2, <3>3
  <2> QED
    BY <2>2, <2>3
<1>6. Len(r) <= n
  BY <1>1, <1>2
<1> QED
  BY <1>2, <1>4, <1>5, <1>6 DEF InOrder, r, p

LEMMA SelectedInOrder ==
  \A n \in 0 .. Len(TapList) : InOrder(selected[n], n)
<1> DEFINE N == Len(TapList)
           P == {n \in 0 .. N : InOrder(selected[n], n)}
<1>1. N \in Nat
  BY TapAssumption, LenProperties
<1>2. 0 \in P
  <2>1. InOrder(<<>>, 0)
    BY DEF InOrder
  <2> QED
    BY <1>1, <2>1, SelectedDef
<1>3. ASSUME NEW n \in 1 .. N, n - 1 \in P
      PROVE  n \in P
  <2>1. n \in 0 .. N /\ InOrder(selected[n - 1], n - 1) /\ n \in Nat
    BY <1>1, <1>3
  <2>2. CASE TapList[n] \in Good
    BY <2>1, <2>2, SelectedDef, OneMoreInOrder
  <2>3. CASE TapList[n] \notin Good
    <3>1. selected[n] = selected[n - 1]
      BY <2>3, SelectedDef
    <3>2. InOrder(selected[n - 1], n)
      <4>1. Len(selected[n - 1]) \in Nat
        BY <2>1, LenProperties DEF InOrder
      <4>2. \A m \in 1 .. n - 1 : m \in 1 .. n
        BY <2>1
      <4>3. Len(selected[n - 1]) <= n
        BY <2>1, <4>1 DEF InOrder
      <4> QED
        BY <2>1, <4>2, <4>3 DEF InOrder
    <3> QED
      BY <2>1, <3>1, <3>2
  <2> QED
    BY <2>2, <2>3
<1> HIDE DEF P
<1>4. \A n \in 0 .. N : n \in P
  <2> HIDE DEF N
  <2> QED
    BY <1>1, <1>2, <1>3, OverTheList
<1> QED
  BY <1>4 DEF P

(* What the first names ask for begins what all of them ask for. *)
LEMMA SelectedIsPrefix ==
  ASSUME NEW n \in 0 .. Len(TapList)
  PROVE  /\ selected[n] \in Seq(Taps) /\ Wanted \in Seq(Taps)
         /\ Len(selected[n]) \in Nat /\ Len(Wanted) \in Nat
         /\ Len(selected[n]) <= Len(Wanted)
         /\ \A i \in 1 .. Len(selected[n]) : selected[n][i] = Wanted[i]
<1> DEFINE N == Len(TapList)
           P == {d \in 0 .. N - n :
                   /\ Len(selected[n]) <= Len(selected[n + d])
                   /\ \A i \in 1 .. Len(selected[n]) : selected[n][i] = selected[n + d][i]}
<1>1. N \in Nat /\ n \in Nat /\ N - n \in Nat /\ \A d \in 0 .. N - n : n + d \in 0 .. N
  BY TapAssumption, LenProperties
<1>2. \A m \in 0 .. N : selected[m] \in Seq(Taps) /\ Len(selected[m]) \in Nat
  BY SelectedInOrder, LenProperties DEF InOrder
<1>3. 0 \in P
  BY <1>1, <1>2
<1>4. ASSUME NEW d \in 1 .. N - n, d - 1 \in P
      PROVE  d \in P
  <2>1. n + d \in 1 .. N /\ n + (d - 1) = (n + d) - 1 /\ n + d - 1 \in 0 .. N /\ d \in 0 .. N - n
    BY <1>1
  <2> DEFINE s == selected[n]
             r == selected[n + d - 1]
             q == selected[n + d]
  <2>2. /\ Len(s) <= Len(r) /\ \A i \in 1 .. Len(s) : s[i] = r[i]
        /\ Len(s) \in Nat /\ Len(r) \in Nat /\ r \in Seq(Taps)
    BY <1>1, <1>2, <1>4, <2>1
  <2>3. q = IF TapList[n + d] \in Good THEN Append(r, TapList[n + d]) ELSE r
    BY <2>1, SelectedDef
  <2>4. TapList[n + d] \in Taps
    BY <2>1, TapAssumption, ElementOfSeq
  <2> HIDE DEF s, r, q
  <2>5. Len(s) <= Len(q) /\ \A i \in 1 .. Len(s) : s[i] = q[i]
    <3>1. CASE TapList[n + d] \in Good
      <4> DEFINE p == TapList[n + d]
      <4> HIDE DEF p
      <4>1. /\ Len(Append(r, p)) = Len(r) + 1
            /\ \A i \in 1 .. Len(r) : Append(r, p)[i] = r[i]
        BY <2>2, <2>4, AppendProperties DEF p
      <4> QED
        BY <2>2, <2>3, <3>1, <4>1 DEF p
    <3>2. CASE TapList[n + d] \notin Good
      BY <2>2, <2>3, <3>2
    <3> QED
      BY <3>1, <3>2
  <2> QED
    BY <2>1, <2>5 DEF s, q
<1> HIDE DEF P
<1>5. \A d \in 0 .. N - n : d \in P
  <2> HIDE DEF N
  <2> QED
    BY <1>1, <1>3, <1>4, OverTheList
<1>6. N - n \in P /\ n + (N - n) = N
  BY <1>1, <1>5
<1>7. Len(selected[n]) <= Len(Wanted) /\ \A i \in 1 .. Len(selected[n]) : selected[n][i] = Wanted[i]
  BY <1>6 DEF P, Wanted
<1>8. N \in 0 .. N
  BY <1>1
<1> QED
  BY <1>2, <1>7, <1>8 DEF Wanted
-----------------------------------------------------------------------------
(* What the loader has registered.  A name that cannot be opened would      *)
(* have dlsym search the global scope, and the first library there be       *)
(* registered once more.                                                    *)
AllInstalled == \A i \in DOMAIN TapList : TapList[i] \in Installed

(* The number of names the loader has taken from the list. *)
Walked == Len(TapList) - Len(todo)

(* The loader goes through the list in order, and the handle is that of the *)
(* name it took last.                                                       *)
Walking ==
  /\ Walked >= 0
  /\ \A i \in 1 .. Len(todo) : todo[i] = TapList[Walked + i]
  /\ lpc \in {"ctr", "store", "bump", "init"} => Walked >= 1 /\ handle = TapList[Walked]
  /\ lpc \in {"store", "bump"} => handle \in ThreadAware
  /\ lpc = "main" => Len(todo) = 0

(* The constructors that have been stored. *)
Stored ==
  IF lpc \in {"ctr", "store"} THEN selected[Walked - 1] ELSE selected[Walked]

(* How far the counter is ahead of the table. *)
Ahead == IF lpc = "store" THEN 1 ELSE IF lpc = "bump" THEN -1 ELSE 0

(* They are in the table, and nothing else is. *)
Registered ==
  /\ \A i \in Entries :
       LDM_thd_ctr[i] = IF i < Len(Stored) THEN Stored[i + 1] ELSE NoTap
  /\ LDM_numCtrs = Len(Stored) + Ahead

Loaded == Walking /\ Registered

(* A thread has come past the entries of the constructors it has run, and   *)
(* has run them in the order of the list.                                   *)
Ordered(t) ==
  /\ \A i \in 1 .. Len(ran[t]) :
       \E m \in 1 .. Len(Wanted) : m <= ci[t] /\ ran[t][i] = Wanted[m]
  /\ \A i, j \in 1 .. Len(ran[t]) : i < j => Before(ran[t][i], ran[t][j])

(* One that was created once the TAPs were loaded has run all those below   *)
(* its index.                                                               *)
Late(t) == ~early[t] /\ pc[t] # "none"

Started(t) ==
  Late(t) =>
    /\ lpc = "main"
    /\ ci[t] <= Len(Wanted)
    /\ Len(ran[t]) = ci[t]
    /\ \A i \in 1 .. ci[t] : ran[t][i] = Wanted[i]
    /\ pc[t] \in {"run", "dtrs", "dead"} => ci[t] = Len(Wanted)

(* The keys.  Every thread-aware TAP of the list has an initializer and a   *)
(* key variable of its own, and is named once.                              *)
OwnKeys == \A p, q \in ThreadAware : KeyVar[p] = KeyVar[q] => p = q

Initialises ==
  \A i \in DOMAIN TapList : TapList[i] \in ThreadAware => TapList[i] \in WithInit

NoRepeats == \A i, j \in DOMAIN TapList : TapList[i] = TapList[j] => i = j

(* The names whose initializer has returned. *)
Through ==
  IF lpc \in {"ctr", "store", "bump", "init"} THEN Walked - 1 ELSE Walked

(* An initialised TAP's variable holds a key with the TAP's destructor. *)
KeyOf(p) == key[KeyVar[p]]

KeysMade ==
  \A i \in 1 .. Through :
    TapList[i] \in ThreadAware =>
      /\ KeyOf(TapList[i]) < Len(keyDtr)
      /\ keyDtr[KeyOf(TapList[i]) + 1] = TapList[i]

(* A thread that is not alive has no values, and one that was created once  *)
(* the TAPs were loaded has a value for every constructor it has run until  *)
(* the destructor is called.                                                *)
Empty(t) == pc[t] \in {"none", "dead"} => values[t] = {}

Owes(t) ==
  Late(t) =>
    /\ \A i \in 1 .. Len(ran[t]) :
         \/ KeyOf(ran[t][i]) \in values[t]
         \/ \E j \in 1 .. Len(ended[t]) : ended[t][j] = ran[t][i]
    /\ \A k \in values[t] : \E i \in 1 .. Len(ran[t]) : k = KeyOf(ran[t][i])
    /\ Cardinality(values[t]) + Len(ended[t]) = Len(ran[t])

LEMMA ListFacts ==
  /\ Len(TapList) \in Nat /\ DOMAIN TapList = 1 .. Len(TapList)
  /\ \A i \in 1 .. Len(TapList) : TapList[i] \in Taps
  /\ \A n \in 0 .. Len(TapList) :
       selected[n] \in Seq(Taps) /\ Len(selected[n]) \in Nat /\ Len(selected[n]) <= n
BY TapAssumption, LenProperties, ElementOfSeq, SelectedInOrder DEF InOrder

LEMMA WalkedFacts ==
  ASSUME IInv, Walking
  PROVE  /\ Len(todo) \in Nat /\ Walked \in 0 .. Len(TapList)
         /\ Len(todo) + Walked = Len(TapList)
         /\ handle \in Taps \cup {NoTap} /\ LDM_numCtrs \in Nat
BY ListFacts, LenProperties DEF IInv, TypeOK, Walking, Walked

LEMMA InitLoaded == Init => Loaded
<1> SUFFICES ASSUME Init PROVE Loaded
  OBVIOUS
<1>1. Len(todo) = Len(TapList) /\ Walked = 0
  BY ListFacts DEF Init, Walked
<1>2. Walking
  BY <1>1, ListFacts DEF Init, Walking
<1>3. Stored = <<>> /\ Ahead = 0
  BY <1>1, SelectedDef DEF Init, Stored, Ahead
<1>4. Registered
  <2>1. Len(Stored) = 0
    BY <1>3
  <2>2. \A i \in Entries : ~(i < 0)
    BY ListFacts, TapAssumption DEF Entries
  <2>3. \A i \in Entries : LDM_thd_ctr[i] = NoTap
    BY DEF Init
  <2>4. LDM_numCtrs = 0
    BY DEF Init
  <2> QED
    BY <1>3, <2>1, <2>2, <2>3, <2>4 DEF Registered
<1> QED
  BY <1>2, <1>4 DEF Loaded

(* Nothing is registered by a step that leaves the table alone. *)
LEMMA SameRegistered ==
  ASSUME Registered, UNCHANGED tableVars, Stored' = Stored, Ahead' = Ahead
  PROVE  Registered'
BY DEF Registered, tableVars

(* A constructor is stored behind the others. *)
LEMMA OneMoreRegistered ==
  ASSUME IInv, Walked \in 1 .. Len(TapList), TapList[Walked] \in Good,
         Stored = selected[Walked - 1], Registered,
         LDM_thd_ctr' = [LDM_thd_ctr EXCEPT ![Len(Stored)] = TapList[Walked]]
  PROVE  /\ Len(selected[Walked]) = Len(Stored) + 1
         /\ \A i \in Entries :
              LDM_thd_ctr'[i] = IF i < Len(selected[Walked])
                                THEN selected[Walked][i + 1] ELSE NoTap
<1> DEFINE n == Walked
           L == Len(Stored)
           s == selected[n - 1]
           r == selected[n]
           p == TapList[n]
           table == LDM_thd_ctr
           new == LDM_thd_ctr'
<1>1. /\ n \in Nat /\ s \in Seq(Taps) /\ p \in Taps /\ L \in Nat /\ L <= n - 1
      /\ Len(TapList) \in Nat /\ n <= Len(TapList) /\ r = Append(s, p)
  <2>0. n \in 1 .. Len(TapList) /\ p \in Good /\ L = Len(s)
    OBVIOUS
  <2> HIDE DEF n, L
  <2>1. n \in Nat /\ n - 1 \in 0 .. Len(TapList) /\ Len(TapList) \in Nat /\ n <= Len(TapList)
    BY <2>0, ListFacts
  <2>2. r = Append(s, p)
    BY <2>0, SelectedDef
  <2> QED
    BY <2>0, <2>1, <2>2, ListFacts
<1>2. L \in Entries /\ Entries \subseteq Nat
  BY <1>1, TapAssumption DEF Entries
<1>5. /\ table \in [Entries -> Taps \cup {NoTap}]
      /\ new = [table EXCEPT ![L] = p]
      /\ \A i \in Entries : table[i] = IF i < L THEN s[i + 1] ELSE NoTap
  BY DEF IInv, TypeOK, Registered
<1>6. L = Len(s)
  OBVIOUS
<1> HIDE DEF s, r, p, n, L, table, new
<1>3. Len(r) = L + 1 /\ r[L + 1] = p /\ \A i \in 1 .. L : r[i] = s[i]
  BY <1>1, <1>6, AppendProperties
<1>4. ASSUME NEW i \in Entries
      PROVE  new[i] = IF i < Len(r) THEN r[i + 1] ELSE NoTap
  <2>0. i \in Nat
    BY <1>2
  <2>1. CASE i = L
    <3>1. new[i] = p
      BY <1>2, <1>5, <2>1
    <3> QED
      BY <1>1, <1>3, <2>1, <3>1
  <2>2. CASE i < L
    <3>1. new[i] = s[i + 1] /\ i + 1 \in 1 .. L
      BY <1>1, <1>5, <2>0, <2>2
    <3> QED
      BY <1>1, <1>3, <2>0, <2>2, <3>1
  <2>3. CASE i > L
    <3>1. new[i] = NoTap
      BY <1>1, <1>5, <2>0, <2>3
    <3> QED
      BY <1>1, <1>3, <2>0, <2>3, <3>1
  <2>4. i = L \/ i < L \/ i > L
    BY <1>1, <2>0
  <2> QED
    BY <2>1, <2>2, <2>3, <2>4
<1> QED
  BY <1>3, <1>4 DEF r, n, L, new

(* The handle names what the current name does. *)
LEMMA HandleIs ==
  ASSUME AllInstalled, IInv, Walking, lpc \in {"ctr", "store", "bump", "init"}, NEW S
  PROVE  /\ Walked \in 1 .. Len(TapList) /\ handle = TapList[Walked] /\ handle \in Taps
         /\ handle \in Installed
         /\ dlsym(handle, S) = IF handle \in S THEN handle ELSE NoTap
<1>1. Walked \in 1 .. Len(TapList) /\ handle = TapList[Walked]
  BY WalkedFacts, ListFacts DEF Walking
<1>2. handle \in Taps /\ handle \in Installed
  BY <1>1, ListFacts DEF AllInstalled
<1>3. handle # NoTap
  BY <1>2, TapAssumption
<1> QED
  BY <1>1, <1>2, <1>3 DEF dlsym

LEMMA LoaderKeepsLoaded ==
  ASSUME AllInstalled, IInv, Loaded, LoaderStep
  PROVE  Loaded'
<1> USE DEF Loaded
<1>0. /\ Len(todo) \in Nat /\ Walked \in 0 .. Len(TapList) /\ Len(TapList) \in Nat
      /\ Len(todo) + Walked = Len(TapList) /\ LDM_numCtrs \in Nat
      /\ todo \in Seq(Taps) /\ LDM_thd_ctr \in [Entries -> Taps \cup {NoTap}]
  BY WalkedFacts, ListFacts DEF IInv, TypeOK
<1>1. CASE RegisterCreate
  <2>1. Walked' = Walked /\ Stored' = Stored /\ Ahead' = Ahead
    BY <1>1 DEF RegisterCreate, Walked, Stored, Ahead
  <2>2. Walking'
    BY <1>1, <2>1 DEF RegisterCreate, Walking
  <2> QED
    BY <1>1, <2>1, <2>2, SameRegistered DEF RegisterCreate
<1>2. CASE LoadToken
  <2>1. /\ Len(todo) >= 1 /\ todo' = Tail(todo) /\ lpc = "token" /\ lpc' = "ctr"
        /\ Len(Tail(todo)) = Len(todo) - 1
        /\ \A i \in 1 .. Len(todo) - 1 : Tail(todo)[i] = todo[i + 1]
        /\ Head(todo) = todo[1]
    <3>1. todo # <<>> /\ todo' = Tail(todo) /\ lpc = "token" /\ lpc' = "ctr"
      BY <1>2 DEF LoadToken
    <3>2. /\ Len(Tail(todo)) = Len(todo) - 1 /\ Head(todo) = todo[1]
          /\ \A i \in 1 .. Len(Tail(todo)) : Tail(todo)[i] = todo[i + 1]
      BY <1>0, <3>1, HeadTailProperties
    <3>3. Len(todo) # 0
      BY <1>0, <3>1, EmptySeq
    <3> QED
      BY <1>0, <3>1, <3>2, <3>3
  <2>2. Walked' = Walked + 1
    <3>1. Len(todo') = Len(todo) - 1
      BY <2>1
    <3> QED
      BY <1>0, <3>1 DEF Walked
  <2>3. \A i \in 1 .. Len(todo) : todo[i] = TapList[Walked + i]
    BY DEF Walking
  <2>4. ASSUME NEW i \in 1 .. Len(todo')
        PROVE  todo'[i] = TapList[Walked' + i]
    <3>1. i + 1 \in 1 .. Len(todo) /\ i \in 1 .. Len(todo) - 1 /\ Walked' + i = Walked + (i + 1)
      BY <1>0, <2>1, <2>2
    <3> QED
      BY <2>1, <2>3, <3>1
  <2>5. handle' = TapList[Walked']
    <3>1. todo[1] = TapList[Walked + 1] /\ Walked + 1 \in 1 .. Len(TapList)
      BY <1>0, <2>1, <2>3
    <3>2. TapList[Walked + 1] \in Installed
      BY <3>1, ListFacts DEF AllInstalled
    <3> QED
      BY <1>2, <2>1, <2>2, <3>1, <3>2 DEF LoadToken
  <2>6. Walking'
    <3>1. Walked' >= 1 /\ Walked' >= 0
      BY <1>0, <2>2
    <3> QED
      BY <2>1, <2>4, <2>5, <3>1 DEF Walking
  <2>7. Stored' = Stored /\ Ahead' = Ahead
    <3>1. (Walked + 1) - 1 = Walked
      BY <1>0
    <3> QED
      BY <2>1, <2>2, <3>1 DEF Stored, Ahead
  <2> QED
    BY <1>2, <2>6, <2>7, SameRegistered DEF LoadToken
<1>3. CASE LoadingDone
  <2>1. Walked' = Walked /\ Stored' = Stored /\ Ahead' = Ahead
    BY <1>3 DEF LoadingDone, Walked, Stored, Ahead
  <2>2. Walking'
    BY <1>3, <2>1, EmptySeq DEF LoadingDone, Walking
  <2> QED
    BY <1>3, <2>1, <2>2, SameRegistered DEF LoadingDone
<1>4. CASE NoCtor
  <2>1. Walked' = Walked /\ Ahead' = Ahead /\ lpc = "ctr" /\ lpc' = "init"
    BY <1>4 DEF NoCtor, Walked, Ahead
  <2>2. Walking'
    BY <1>4, <2>1 DEF NoCtor, Walking
  <2>3. handle \notin ThreadAware /\ Walked \in 1 .. Len(TapList) /\ handle = TapList[Walked]
    <3>1. handle \in Taps /\ Walked \in 1 .. Len(TapList) /\ handle = TapList[Walked]
          /\ dlsym(handle, ThreadAware) = IF handle \in ThreadAware THEN handle ELSE NoTap
      BY <2>1, HandleIs
    <3> QED
      BY <1>4, <3>1, TapAssumption DEF NoCtor
  <2>4. Stored' = Stored
    BY <2>1, <2>3, SelectedDef DEF Good, Stored
  <2> QED
    BY <1>4, <2>1, <2>2, <2>4, SameRegistered DEF NoCtor
<1>5. CASE CtorBumpFirst
  <2>1. Walked' = Walked /\ Ahead = 0 /\ Ahead' = 1 /\ Stored' = Stored /\ lpc = "ctr"
    BY <1>5 DEF CtorBumpFirst, Walked, Ahead, Stored
  <2>2. handle \in ThreadAware
    BY <1>5, <2>1, HandleIs DEF CtorBumpFirst
  <2>3. Walking'
    BY <1>5, <2>1, <2>2 DEF CtorBumpFirst, Walking
  <2>4. LDM_numCtrs' = Len(Stored)' + Ahead'
    BY <1>0, <1>5, <2>1 DEF CtorBumpFirst, Registered
  <2> QED
    BY <1>5, <2>1, <2>3, <2>4 DEF CtorBumpFirst, Registered
<1>6. CASE CtorStore
  <2>1. Walked' = Walked /\ Ahead = 1 /\ Ahead' = 0 /\ lpc = "store" /\ lpc' = "init"
        /\ handle \in ThreadAware
    BY <1>6 DEF CtorStore, Walked, Ahead, Walking
  <2>2. Walking'
    BY <1>6, <2>1 DEF CtorStore, Walking
  <2>3. /\ Walked \in 1 .. Len(TapList) /\ TapList[Walked] \in Good
        /\ dlsym(handle, ThreadAware) = TapList[Walked]
    BY <2>1, HandleIs DEF Good
  <2>4. Stored = selected[Walked - 1] /\ Stored' = selected[Walked]
    BY <2>1 DEF Stored
  <2>5. LDM_numCtrs = Len(Stored) + 1 /\ Len(Stored) \in Nat
    <3>1. Walked - 1 \in 0 .. Len(TapList)
      BY <2>3
    <3> QED
      BY <2>1, <2>4, <3>1, ListFacts DEF Registered
  <2>6. LDM_thd_ctr' = [LDM_thd_ctr EXCEPT ![Len(Stored)] = TapList[Walked]]
    <3>1. LDM_numCtrs - 1 = Len(Stored)
      BY <2>5
    <3> QED
      BY <1>6, <2>3, <3>1 DEF CtorStore
  <2>7. /\ Len(selected[Walked]) = Len(Stored) + 1
        /\ \A i \in Entries : LDM_thd_ctr'[i] = IF i < Len(selected[Walked])
                                                THEN selected[Walked][i + 1] ELSE NoTap
    BY <2>3, <2>4, <2>6, OneMoreRegistered
  <2>8. LDM_numCtrs' = Len(selected[Walked])
    BY <1>6, <2>5, <2>7 DEF CtorStore
  <2>9. Registered'
    BY <2>1, <2>4, <2>7, <2>8, <2>5 DEF Registered
  <2> QED
    BY <2>2, <2>9
<1>7. CASE CtorStoreFirst
  <2>1. Walked' = Walked /\ Ahead = 0 /\ Ahead' = -1 /\ lpc = "ctr" /\ lpc' = "bump"
    BY <1>7 DEF CtorStoreFirst, Walked, Ahead
  <2>2. /\ Walked \in 1 .. Len(TapList) /\ TapList[Walked] \in Good
        /\ dlsym(handle, ThreadAware) = TapList[Walked] /\ handle \in ThreadAware
    BY <1>7, <2>1, HandleIs DEF CtorStoreFirst, Good
  <2>3. Walking'
    BY <1>7, <2>1, <2>2 DEF CtorStoreFirst, Walking
  <2>4. Stored = selected[Walked - 1] /\ Stored' = selected[Walked]
    BY <2>1 DEF Stored
  <2>5. LDM_numCtrs = Len(Stored) /\ Len(Stored) \in Nat
    <3>1. Walked - 1 \in 0 .. Len(TapList)
      BY <2>2
    <3> QED
      BY <2>1, <2>4, <3>1, ListFacts DEF Registered
  <2>6. LDM_thd_ctr' = [LDM_thd_ctr EXCEPT ![Len(Stored)] = TapList[Walked]]
    BY <1>7, <2>2, <2>5 DEF CtorStoreFirst
  <2>7. /\ Len(selected[Walked]) = Len(Stored) + 1
        /\ \A i \in Entries : LDM_thd_ctr'[i] = IF i < Len(selected[Walked])
                                                THEN selected[Walked][i + 1] ELSE NoTap
    BY <2>2, <2>4, <2>6, OneMoreRegistered
  <2>8. LDM_numCtrs' = Len(selected[Walked]) + Ahead'
    BY <1>7, <2>1, <2>5, <2>7 DEF CtorStoreFirst
  <2>9. Registered'
    BY <2>4, <2>7, <2>8 DEF Registered
  <2> QED
    BY <2>3, <2>9
<1>8. CASE CtorBump
  <2>1. Walked' = Walked /\ Ahead = -1 /\ Ahead' = 0 /\ Stored' = Stored
    BY <1>8 DEF CtorBump, Walked, Ahead, Stored
  <2>2. Walking'
    BY <1>8, <2>1 DEF CtorBump, Walking
  <2>3. Len(Stored) \in Nat
    BY <1>0, <1>8, ListFacts DEF CtorBump, Stored
  <2>4. LDM_numCtrs' = Len(Stored)' + Ahead'
    BY <1>0, <1>8, <2>1, <2>3 DEF CtorBump, Registered
  <2> QED
    BY <1>8, <2>1, <2>2, <2>4 DEF CtorBump, Registered
<1>9. CASE RunInit
  <2>1. Walked' = Walked /\ Stored' = Stored /\ Ahead' = Ahead
    BY <1>9 DEF RunInit, Walked, Stored, Ahead
  <2>2. Walking'
    BY <1>9, <2>1 DEF RunInit, Walking
  <2> QED
    BY <1>9, <2>1, <2>2, SameRegistered DEF RunInit
<1> QED
  BY <1>1, <1>2, <1>3, <1>4, <1>5, <1>6, <1>7, <1>8, <1>9 DEF LoaderStep

(* Threads leave the loader and the table alone. *)
LEMMA ThreadsKeepLoaded ==
  ASSUME Loaded, UNCHANGED <<loaderVars, tableVars>>
  PROVE  Loaded'
BY DEF Loaded, Walking, Registered, Walked, Stored, Ahead, loaderVars, tableVars

LEMMA ThreadsLeaveLoader ==
  ASSUME NEW t \in Threads, Create(t) \/ StartStep(t) \/ Return(t) \/ EndStep(t)
  PROVE  UNCHANGED <<loaderVars, tableVars, keyVars>>
BY DEF StartStep, EndStep, Create, CallCtor, SkipCtor, StartRoutine, Return, RunDtr, End

(* The table holds, in the order of the list, the thread constructors of    *)
(* the names taken so far, whichever of the two stores is made first        *)
(* (thread_constructor.c:59-61).                                            *)
THEOREM TableFollowsTheList ==
  ASSUME AllInstalled
  PROVE  Spec => []Loaded
<1>1. IInv /\ Loaded /\ [Next]_vars => Loaded'
  <2> SUFFICES ASSUME IInv, Loaded, [Next]_vars PROVE Loaded'
    OBVIOUS
  <2>1. CASE LoaderStep
    BY <2>1, LoaderKeepsLoaded
  <2>2. ASSUME NEW t \in Threads, Create(t) \/ StartStep(t) \/ Return(t) \/ EndStep(t)
        PROVE  Loaded'
    BY <2>2, ThreadsLeaveLoader, ThreadsKeepLoaded
  <2>3. CASE UNCHANGED vars
    BY <2>3, ThreadsKeepLoaded DEF vars
  <2> QED
    BY <2>1, <2>2, <2>3 DEF Next
<1> QED
  BY InitLoaded, RoomInvariant, <1>1, PTL DEF Spec

LEMMA WantedFacts ==
  /\ Wanted \in Seq(Taps) /\ Len(Wanted) \in Nat
  /\ \A i \in 1 .. Len(Wanted) : Wanted[i] \in Taps /\ Wanted[i] # NoTap
  /\ \A i, j \in 1 .. Len(Wanted) : i < j => Before(Wanted[i], Wanted[j])
<1>1. Len(TapList) \in 0 .. Len(TapList)
  BY ListFacts
<1>2. InOrder(Wanted, Len(TapList))
  BY <1>1, SelectedInOrder DEF Wanted
<1>3. Wanted \in Seq(Taps) /\ Len(Wanted) \in Nat
  BY <1>2, LenProperties DEF InOrder
<1>4. \A i \in 1 .. Len(Wanted) : Wanted[i] \in Taps /\ Wanted[i] # NoTap
  BY <1>3, ElementOfSeq, TapAssumption
<1>5. \A i, j \in 1 .. Len(Wanted) : i < j => Before(Wanted[i], Wanted[j])
  <2> SUFFICES ASSUME NEW i \in 1 .. Len(Wanted), NEW j \in 1 .. Len(Wanted), i < j
               PROVE  Before(Wanted[i], Wanted[j])
    OBVIOUS
  <2>1. PICK k, m \in 1 .. Len(TapList) :
          k < m /\ TapList[k] = Wanted[i] /\ TapList[m] = Wanted[j]
    BY <1>2 DEF InOrder
  <2>2. k \in DOMAIN TapList /\ m \in DOMAIN TapList
    BY ListFacts
  <2> QED
    BY <2>1, <2>2 DEF Before
<1> QED
  BY <1>3, <1>4, <1>5

(* Once the list is loaded the table has been overrun exactly if it asks    *)
(* for more constructors than the table holds: nothing stops the loader at  *)
(* a full table, and nothing but a wanted constructor takes an entry        *)
(* (thread_constructor.c:47-61).                                            *)
THEOREM OnlyLongListsOverrun ==
  ASSUME AllInstalled
  PROVE  Spec => [](lpc = "main" => (TableBounds <=> Len(Wanted) <= LDM_MAX_TCTRS))
<1>1. Loaded => (lpc = "main" => (TableBounds <=> Len(Wanted) <= LDM_MAX_TCTRS))
  <2> SUFFICES ASSUME Loaded, lpc = "main"
               PROVE  TableBounds <=> Len(Wanted) <= LDM_MAX_TCTRS
    OBVIOUS
  <2>1. Walked = Len(TapList)
    BY TapAssumption, LenProperties DEF Loaded, Walking, Walked
  <2>2. LDM_numCtrs = Len(Wanted) + 0
    BY <2>1 DEF Loaded, Registered, Stored, Ahead, Wanted
  <2>3. Len(Wanted) \in Nat
    BY WantedFacts
  <2> QED
    BY <2>2, <2>3 DEF TableBounds
<1> QED
  BY TableFollowsTheList, <1>1, PTL

-----------------------------------------------------------------------------
(* What the threads have run. *)
Runs == \A t \in Threads : Ordered(t) /\ Started(t)

LEMMA WantedAreAware ==
  \A i \in 1 .. Len(Wanted) :
    Wanted[i] \in ThreadAware /\ \E m \in 1 .. Len(TapList) : TapList[m] = Wanted[i]
<1>1. Len(TapList) \in 0 .. Len(TapList)
  BY ListFacts
<1> QED
  BY <1>1, SelectedInOrder DEF InOrder, Wanted, Good

LEMMA ThreadFacts ==
  ASSUME IInv, NEW t \in Threads
  PROVE  ci[t] \in Nat /\ ran[t] \in Seq(Taps) /\ Len(ran[t]) \in Nat /\ LDM_numCtrs \in Nat
BY LenProperties DEF IInv, TypeOK

(* The entry a thread is at is that of the wanted constructor of its index. *)
LEMMA EntryIsWanted ==
  ASSUME IInv, Loaded, NEW t \in Threads, ci[t] < LDM_numCtrs,
         LDM_thd_ctr[ci[t]] # NoTap
  PROVE  /\ ci[t] + 1 \in 1 .. Len(Wanted) /\ LDM_thd_ctr[ci[t]] = Wanted[ci[t] + 1]
<1>1. /\ ci[t] \in Nat /\ LDM_numCtrs \in Nat /\ Filling \in {0, 1}
      /\ Len(todo) \in Nat /\ Len(TapList) \in Nat
  BY ThreadFacts, WalkedFacts, ListFacts DEF Filling, Loaded
<1>2. ci[t] \in Entries
  <2>1. ci[t] <= LDM_MAX_TCTRS + Len(TapList)
    BY <1>1, TapAssumption DEF IInv, Room
  <2> QED
    BY <1>1, <2>1, TapAssumption DEF Entries
<1>3. ci[t] < Len(Stored) /\ LDM_thd_ctr[ci[t]] = Stored[ci[t] + 1]
  BY <1>2 DEF Loaded, Registered
<1>4. PICK n \in 0 .. Len(TapList) : Stored = selected[n]
  <2>1. Walked \in 0 .. Len(TapList)
    BY WalkedFacts DEF Loaded
  <2>2. lpc \in {"ctr", "store"} => Walked - 1 \in 0 .. Len(TapList)
    BY <1>1, <2>1 DEF Loaded, Walking
  <2> QED
    BY <2>1, <2>2 DEF Stored
<1>5. /\ Len(selected[n]) \in Nat /\ Len(Wanted) \in Nat /\ Len(selected[n]) <= Len(Wanted)
      /\ \A i \in 1 .. Len(selected[n]) : selected[n][i] = Wanted[i]
  BY SelectedIsPrefix
<1>6. ci[t] + 1 \in 1 .. Len(selected[n])
  BY <1>1, <1>3, <1>4, <1>5
<1> QED
  BY <1>3, <1>4, <1>5, <1>6

(* Once the TAPs are loaded every wanted constructor has its entry. *)
LEMMA WhenLoaded ==
  ASSUME IInv, Loaded, lpc = "main"
  PROVE  /\ LDM_numCtrs = Len(Wanted)
         /\ \A i \in Nat : i < Len(Wanted) =>
              LDM_thd_ctr[i] = Wanted[i + 1] /\ LDM_thd_ctr[i] # NoTap
<1>1. Walked = Len(TapList)
  BY ListFacts DEF Loaded, Walking, Walked
<1>2. Stored = Wanted /\ Ahead = 0
  BY <1>1 DEF Stored, Ahead, Wanted
<1>3. LDM_numCtrs = Len(Wanted)
  BY <1>2, WantedFacts DEF Loaded, Registered
<1>4. ASSUME NEW i \in Nat, i < Len(Wanted)
      PROVE  LDM_thd_ctr[i] = Wanted[i + 1] /\ LDM_thd_ctr[i] # NoTap
  <2>1. i \in Entries
    <3>1. Len(Wanted) <= Len(TapList) /\ Len(TapList) \in Nat /\ Len(Wanted) \in Nat
      <4>1. Len(TapList) \in 0 .. Len(TapList)
        BY ListFacts
      <4> QED
        BY <4>1, ListFacts, WantedFacts DEF Wanted
    <3> QED
      BY <1>4, <3>1, TapAssumption DEF Entries
  <2>2. LDM_thd_ctr[i] = Wanted[i + 1]
    BY <1>2, <1>4, <2>1 DEF Loaded, Registered
  <2>3. i + 1 \in 1 .. Len(Wanted)
    BY <1>4, WantedFacts
  <2> QED
    BY <2>2, <2>3, WantedFacts
<1> QED
  BY <1>3, <1>4

LEMMA InitRuns == Init => Runs
<1> SUFFICES ASSUME Init, NEW t \in Threads PROVE Ordered(t) /\ Started(t)
  BY DEF Runs
<1>1. ran[t] = <<>> /\ pc[t] = "none"
  BY DEF Init
<1>2. Len(ran[t]) = 0
  BY <1>1
<1> QED
  BY <1>1, <1>2 DEF Ordered, Started, Late

(* What a step says of a thread it is not of. *)
Same(t) == /\ pc'[t] = pc[t] /\ ci'[t] = ci[t] /\ values'[t] = values[t]
           /\ ran'[t] = ran[t] /\ ended'[t] = ended[t] /\ early'[t] = early[t]

LEMMA OthersSame ==
  ASSUME IInv, NEW t \in Threads, NEW u \in Threads, u # t,
         Create(t) \/ StartStep(t) \/ Return(t) \/ EndStep(t)
  PROVE  Same(u)
BY DEF IInv, TypeOK, Same, StartStep, EndStep, Create, CallCtor, SkipCtor, StartRoutine,
       Return, RunDtr, End

LEMMA SameRuns ==
  ASSUME NEW t \in Threads, Same(t), lpc = "main" => lpc' = "main", Ordered(t), Started(t)
  PROVE  Ordered(t)' /\ Started(t)'
<1>1. Ordered(t)'
  BY DEF Same, Ordered
<1>2. Late(t)' => Late(t)
  BY DEF Same, Late
<1>3. Started(t)'
  BY <1>2 DEF Same, Started
<1> QED
  BY <1>1, <1>3

(* One more constructor, of a later entry. *)
LEMMA CallCtorOrdered ==
  ASSUME IInv, Loaded, NEW t \in Threads, CallCtor(t), Ordered(t)
  PROVE  /\ Ordered(t)'
         /\ ci[t] + 1 \in 1 .. Len(Wanted) /\ Len(ran'[t]) = Len(ran[t]) + 1
         /\ ran'[t] = Append(ran[t], Wanted[ci[t] + 1])
         /\ ci'[t] = ci[t] + 1
         /\ \A i \in 1 .. Len(ran[t]) : ran'[t][i] = ran[t][i]
         /\ ran'[t][Len(ran[t]) + 1] = Wanted[ci[t] + 1]
<1> DEFINE s == ran[t]
           r == ran'[t]
           c == ci[t]
           L == Len(s)
           p == Wanted[c + 1]
<1>1. c \in Nat /\ s \in Seq(Taps) /\ L \in Nat
  BY ThreadFacts
<1>2. c + 1 \in 1 .. Len(Wanted) /\ LDM_thd_ctr[c] = p
  BY EntryIsWanted DEF CallCtor
<1>3. p \in Taps
  BY <1>2, WantedFacts
<1>4. r = Append(s, p) /\ ci'[t] = c + 1
  BY <1>2 DEF CallCtor, IInv, TypeOK
<1>5. \A i \in 1 .. L : \E m \in 1 .. Len(Wanted) : m <= c /\ s[i] = Wanted[m]
  BY DEF Ordered
<1>6. \A i, j \in 1 .. L : i < j => Before(s[i], s[j])
  BY DEF Ordered
<1> HIDE DEF s, r, c, p
<1>7. Len(r) = L + 1 /\ (\A i \in 1 .. L : r[i] = s[i]) /\ r[L + 1] = p
  BY <1>1, <1>3, <1>4, AppendProperties
<1> HIDE DEF L
<1>8. ASSUME NEW i \in 1 .. Len(r)
      PROVE  \E m \in 1 .. Len(Wanted) : m <= c + 1 /\ r[i] = Wanted[m]
  <2>1. CASE i = L + 1
    BY <1>2, <1>1, <1>7, <2>1 DEF p
  <2>2. CASE i # L + 1
    <3>1. i \in 1 .. L /\ r[i] = s[i]
      BY <1>1, <1>7, <2>2
    <3>2. PICK m \in 1 .. Len(Wanted) : m <= c /\ s[i] = Wanted[m]
      BY <1>5, <3>1
    <3> QED
      BY <1>1, <3>1, <3>2, WantedFacts
  <2> QED
    BY <2>1, <2>2
<1>9. ASSUME NEW i \in 1 .. Len(r), NEW j \in 1 .. Len(r), i < j
      PROVE  Before(r[i], r[j])
  <2>1. i \in 1 .. L /\ r[i] = s[i]
    BY <1>1, <1>7, <1>9
  <2>2. CASE j = L + 1
    <3>1. PICK m \in 1 .. Len(Wanted) : m <= c /\ s[i] = Wanted[m]
      BY <1>5, <2>1
    <3>2. m < c + 1
      BY <1>1, <3>1, WantedFacts
    <3>3. Before(Wanted[m], Wanted[c + 1])
      BY <1>2, <3>2, WantedFacts
    <3> QED
      BY <1>7, <2>1, <2>2, <3>1, <3>3 DEF p
  <2>3. CASE j # L + 1
    <3>1. j \in 1 .. L /\ r[j] = s[j]
      BY <1>1, <1>7, <2>3
    <3> QED
      BY <1>6, <1>9, <2>1, <3>1
  <2> QED
    BY <2>2, <2>3
<1>10. Ordered(t)'
  <2>1. ci'[t] = c + 1
    BY <1>4
  <2> QED
    BY <1>8, <1>9, <2>1 DEF Ordered, r
<1> QED
  BY <1>10, <1>2, <1>4, <1>7 DEF r, s, c, p, L

LEMMA ThreadKeepsRuns ==
  ASSUME IInv, Loaded, Runs, NEW t \in Threads,
         Create(t) \/ StartStep(t) \/ Return(t) \/ EndStep(t)
  PROVE  Runs'
<1>0. Ordered(t) /\ Started(t) /\ lpc' = lpc /\ t \in DOMAIN pc
      /\ DOMAIN ci = Threads /\ DOMAIN ran = Threads /\ DOMAIN early = Threads
      /\ DOMAIN pc = Threads
  BY ThreadsLeaveLoader DEF Runs, IInv, TypeOK, loaderVars
<1>1. Ordered(t)' /\ Started(t)'
  <2>1. CASE Create(t)
    <3>1. /\ ran'[t] = <<>> /\ ci'[t] = 0 /\ pc'[t] = "ctors"
          /\ early'[t] = (lpc # "main")
      BY <1>0, <2>1 DEF Create
    <3>2. Len(ran'[t]) = 0
      BY <3>1
    <3>3. Ordered(t)'
      BY <3>1, <3>2 DEF Ordered
    <3>4. Started(t)'
      <4>1. 0 <= Len(Wanted)
        BY WantedFacts
      <4>2. Late(t)' => lpc' = "main"
        BY <1>0, <3>1 DEF Late
      <4> QED
        BY <3>1, <3>2, <4>1, <4>2 DEF Started
    <3> QED
      BY <3>3, <3>4
  <2>2. CASE CallCtor(t)
    <3>1. /\ Ordered(t)' /\ ci[t] + 1 \in 1 .. Len(Wanted)
          /\ Len(ran'[t]) = Len(ran[t]) + 1 /\ ci'[t] = ci[t] + 1
          /\ \A i \in 1 .. Len(ran[t]) : ran'[t][i] = ran[t][i]
          /\ ran'[t][Len(ran[t]) + 1] = Wanted[ci[t] + 1]
      BY <1>0, <2>2, CallCtorOrdered
    <3>2. pc[t] = "ctors" /\ pc'[t] = "ctors" /\ early'[t] = early[t]
      BY <2>2 DEF CallCtor
    <3>3. ci[t] \in Nat
      BY ThreadFacts
    <3>4. ASSUME Late(t)
          PROVE  /\ ci'[t] <= Len(Wanted) /\ Len(ran'[t]) = ci'[t]
                 /\ \A i \in 1 .. ci'[t] : ran'[t][i] = Wanted[i]
      <4>1. Len(ran[t]) = ci[t] /\ \A i \in 1 .. ci[t] : ran[t][i] = Wanted[i]
        BY <1>0, <3>4 DEF Started
      <4>2. ASSUME NEW i \in 1 .. ci[t] + 1
            PROVE  ran'[t][i] = Wanted[i]
        <5>1. i = ci[t] + 1 \/ i \in 1 .. ci[t]
          BY <3>3
        <5>2. CASE i = ci[t] + 1
          BY <3>1, <4>1, <5>2
        <5>3. CASE i \in 1 .. ci[t]
          BY <3>1, <4>1, <5>3
        <5> QED
          BY <5>1, <5>2, <5>3
      <4>3. ci'[t] <= Len(Wanted) /\ Len(ran'[t]) = ci'[t]
        BY <3>1, <4>1, WantedFacts
      <4> QED
        BY <3>1, <4>2, <4>3
    <3>5. Started(t)'
      BY <1>0, <3>2, <3>4 DEF Started, Late
    <3> QED
      BY <3>1, <3>5
  <2>3. CASE SkipCtor(t)
    <3>1. /\ pc'[t] = pc[t] /\ ran'[t] = ran[t] /\ early'[t] = early[t]
          /\ ci'[t] = ci[t] + 1 /\ ci[t] \in Nat /\ pc[t] = "ctors"
          /\ ci[t] < LDM_numCtrs /\ LDM_thd_ctr[ci[t]] = NoTap
      BY <1>0, <2>3, ThreadFacts DEF SkipCtor
    <3>2. Ordered(t)'
      <4>1. \A m \in 1 .. Len(Wanted) : m <= ci[t] => m <= ci'[t]
        BY <3>1, WantedFacts
      <4> QED
        BY <1>0, <3>1, <4>1 DEF Ordered
    <3>3. ~Late(t)
      <4> SUFFICES ASSUME Late(t) PROVE FALSE
        OBVIOUS
      <4>1. lpc = "main"
        BY <1>0 DEF Started
      <4> QED
        BY <3>1, <4>1, WhenLoaded
    <3> QED
      BY <3>1, <3>2, <3>3 DEF Started, Late
  <2>4. CASE StartRoutine(t)
    <3>1. /\ ran' = ran /\ early' = early /\ ci' = ci /\ pc'[t] = "run"
          /\ pc[t] = "ctors" /\ ci[t] >= LDM_numCtrs
      BY <1>0, <2>4 DEF StartRoutine
    <3>2. Ordered(t)'
      BY <1>0, <3>1 DEF Ordered
    <3>3. Late(t) => ci[t] = Len(Wanted)
      BY <1>0, <3>1, WhenLoaded, WantedFacts, ThreadFacts DEF Started
    <3> QED
      BY <1>0, <3>1, <3>2, <3>3 DEF Started, Late
  <2>5. CASE Return(t) \/ EndStep(t)
    <3>1. /\ ran' = ran /\ early' = early /\ ci' = ci
          /\ pc[t] \in {"run", "dtrs"} /\ pc'[t] \in {"dtrs", "dead"}
      BY <1>0, <2>5 DEF Return, EndStep, RunDtr, End
    <3>2. Ordered(t)'
      BY <1>0, <3>1 DEF Ordered
    <3>3. Late(t)' => Late(t)
      BY <3>1 DEF Late
    <3> QED
      BY <1>0, <3>1, <3>2, <3>3 DEF Started
  <2> QED
    BY <2>1, <2>2, <2>3, <2>4, <2>5 DEF StartStep
<1>2. ASSUME NEW u \in Threads, u # t
      PROVE  Ordered(u)' /\ Started(u)'
  BY <1>0, <1>2, OthersSame, SameRuns DEF Runs
<1> QED
  BY <1>1, <1>2 DEF Runs

LEMMA LoaderKeepsRuns ==
  ASSUME Runs, (LoaderStep \/ UNCHANGED vars)
  PROVE  Runs'
<1>1. UNCHANGED threadVars /\ (lpc = "main" => lpc' = "main")
  BY DEF LoaderStep, RegisterCreate, LoadToken, LoadingDone, NoCtor, CtorBumpFirst,
         CtorStore, CtorStoreFirst, CtorBump, RunInit, vars, loaderVars
<1>2. ASSUME NEW t \in Threads PROVE Ordered(t)' /\ Started(t)'
  BY <1>1, SameRuns DEF Runs, Same, threadVars
<1> QED
  BY <1>2 DEF Runs

(* The constructors a thread has run are wanted ones in the order of the    *)
(* list, and all of those below its index if the thread was created once    *)
(* the TAPs were loaded (thread_constructor.c:24-28).                       *)
THEOREM RunsInvariant ==
  ASSUME AllInstalled
  PROVE  Spec => []Runs
<1>1. IInv /\ Loaded /\ Runs /\ [Next]_vars => Runs'
  BY ThreadKeepsRuns, LoaderKeepsRuns DEF Next
<1> QED
  BY InitRuns, RoomInvariant, TableFollowsTheList, <1>1, PTL DEF Spec

(* No thread, not even one that starts while TAPs are being loaded and      *)
(* reads the table between its two stores, runs two constructors in the     *)
(* wrong order, or one twice that the list names once (README:127).         *)
THEOREM ConstructorsInListOrder ==
  ASSUME AllInstalled
  PROVE  Spec => []CtorOncePerTap
<1>1. IInv /\ Runs => CtorOncePerTap
  <2> SUFFICES ASSUME IInv, Runs, NEW t \in Threads, NEW i \in DOMAIN ran[t],
                      NEW j \in DOMAIN ran[t], i < j
               PROVE  Before(ran[t][i], ran[t][j])
    BY DEF CtorOncePerTap
  <2>1. DOMAIN ran[t] = 1 .. Len(ran[t])
    BY ThreadFacts, LenProperties
  <2> QED
    BY <2>1 DEF Runs, Ordered
<1> QED
  BY RoomInvariant, RunsInvariant, <1>1, PTL

(* A thread created once the TAPs are loaded has run every thread           *)
(* constructor of the list, in its order, when it enters its start routine  *)
(* (README:117).                                                            *)
THEOREM EveryConstructorRuns ==
  ASSUME AllInstalled
  PROVE  Spec => []RunsEveryCtor
<1>1. IInv /\ Runs => RunsEveryCtor
  <2> SUFFICES ASSUME IInv, Runs, NEW t \in Threads,
                      pc[t] \in {"run", "dtrs", "dead"}, ~early[t]
               PROVE  ran[t] = Wanted
    BY DEF RunsEveryCtor
  <2>1. /\ Len(ran[t]) = Len(Wanted)
        /\ \A i \in 1 .. Len(Wanted) : ran[t][i] = Wanted[i]
    BY DEF Runs, Started, Late
  <2>2. ran[t] \in Seq(Taps) /\ Wanted \in Seq(Taps)
    BY ThreadFacts, WantedFacts
  <2> QED
    BY <2>1, <2>2, SeqEqual
<1> QED
  BY RoomInvariant, RunsInvariant, <1>1, PTL

-----------------------------------------------------------------------------
(* The destructors. *)
KeysInv == KeysMade /\ \A t \in Threads : Empty(t) /\ Owes(t)

LEMMA InitKeys == Init => KeysInv
<1> SUFFICES ASSUME Init PROVE KeysInv
  OBVIOUS
<1>1. Through = 0
  BY ListFacts DEF Init, Through, Walked
<1>2. KeysMade
  BY <1>1 DEF KeysMade
<1>3. ASSUME NEW t \in Threads PROVE Empty(t) /\ Owes(t)
  BY DEF Init, Empty, Owes, Late
<1> QED
  BY <1>2, <1>3 DEF KeysInv

LEMMA KeyFacts ==
  ASSUME IInv
  PROVE  /\ Len(keyDtr) \in Nat /\ keyDtr \in Seq(Taps)
         /\ \A p \in Taps : KeyVar[p] \in KeyVars /\ KeyOf(p) \in Nat
BY LenProperties DEF IInv, TypeOK, KeyVars, KeyOf

(* An initializer makes a key, under which the others' stay as they are. *)
LEMMA RunInitKeepsKeysMade ==
  ASSUME AllInstalled, OwnKeys, Initialises, IInv, Loaded, KeysMade, RunInit
  PROVE  KeysMade'
<1> DEFINE h == TapList[Walked]
<1>1. /\ lpc = "init" /\ lpc' = "token" /\ Walked' = Walked
      /\ Through = Walked - 1 /\ Through' = Walked
  BY DEF RunInit, Walked, Through
<1>2. /\ Walked \in 1 .. Len(TapList) /\ handle = h /\ h \in Taps
      /\ dlsym(handle, WithInit) = IF h \in WithInit THEN h ELSE NoTap
  BY <1>1, HandleIs DEF Loaded
<1>3. \A i \in 1 .. Walked - 1 : TapList[i] \in Taps /\ i \in 1 .. Len(TapList)
  BY <1>2, ListFacts
<1>4. \A i \in 1 .. Walked - 1 : TapList[i] \in ThreadAware =>
        KeyOf(TapList[i]) < Len(keyDtr) /\ keyDtr[KeyOf(TapList[i]) + 1] = TapList[i]
  BY <1>1 DEF KeysMade
<1>5. CASE h \in ThreadAware
  <2>1. RegisterDtr(h)
    <3>1. h \in WithInit
      BY <1>2, <1>5, ListFacts DEF Initialises
    <3> QED
      BY <1>2, <1>5, <3>1 DEF RunInit
  <2>2. keyDtr' = Append(keyDtr, h) /\ key' = [key EXCEPT ![KeyVar[h]] = Len(keyDtr)]
    BY <2>1 DEF RegisterDtr
  <2> HIDE DEF h
  <2>3. /\ Len(keyDtr') = Len(keyDtr) + 1 /\ keyDtr'[Len(keyDtr) + 1] = h
        /\ \A i \in 1 .. Len(keyDtr) : keyDtr'[i] = keyDtr[i]
    BY <1>2, <2>2, KeyFacts, AppendProperties
  <2>4. key'[KeyVar[h]] = Len(keyDtr)
    <3>1. KeyVar[h] \in KeyVars /\ key \in [KeyVars -> Nat]
      BY <1>2, KeyFacts DEF IInv, TypeOK
    <3> QED
      BY <2>2, <3>1
  <2>5. ASSUME NEW i \in 1 .. Walked, TapList[i] \in ThreadAware
        PROVE  /\ KeyOf(TapList[i])' < Len(keyDtr')
               /\ keyDtr'[KeyOf(TapList[i])' + 1] = TapList[i]
    <3>1. CASE TapList[i] = h
      <4>1. KeyOf(TapList[i])' = Len(keyDtr)
        BY <2>4, <3>1 DEF KeyOf
      <4> QED
        BY <2>3, <3>1, <4>1, KeyFacts
    <3>2. CASE TapList[i] # h
      <4>1. i \in 1 .. Walked - 1
        BY <1>2, <3>2 DEF h
      <4> DEFINE p == TapList[i]
      <4>2. p \in Taps /\ p # h /\ p \in ThreadAware
        BY <1>3, <2>5, <3>2, <4>1
      <4>3. KeyOf(p) < Len(keyDtr) /\ keyDtr[KeyOf(p) + 1] = p
        BY <1>4, <2>5, <4>1
      <4> HIDE DEF p
      <4>4. KeyVar[p] # KeyVar[h]
        BY <1>5, <4>2 DEF OwnKeys
      <4>5. KeyOf(p)' = KeyOf(p)
        BY <2>2, <4>2, <4>4, KeyFacts DEF KeyOf, IInv, TypeOK
      <4>6. KeyOf(p) + 1 \in 1 .. Len(keyDtr) /\ KeyOf(p) \in Nat
        BY <4>2, <4>3, KeyFacts
      <4> QED
        BY <2>3, <4>3, <4>5, <4>6, KeyFacts DEF p
    <3> QED
      BY <3>1, <3>2
  <2> QED
    BY <1>1, <2>5 DEF KeysMade
<1>6. CASE h \notin ThreadAware
  <2>1. UNCHANGED keyVars
    BY <1>2, <1>6, TapAssumption DEF RunInit
  <2>2. ASSUME NEW i \in 1 .. Walked, TapList[i] \in ThreadAware
        PROVE  /\ KeyOf(TapList[i])' < Len(keyDtr')
               /\ keyDtr'[KeyOf(TapList[i])' + 1] = TapList[i]
    <3>1. i \in 1 .. Walked - 1
      BY <1>2, <1>6, <2>2
    <3> QED
      BY <1>4, <2>1, <2>2, <3>1 DEF KeyOf, keyVars
  <2> QED
    BY <1>1, <2>2 DEF KeysMade
<1> QED
  BY <1>5, <1>6

LEMMA SameKeysMade ==
  ASSUME KeysMade, UNCHANGED keyVars, Through' = Through
  PROVE  KeysMade'
BY DEF KeysMade, KeyOf, keyVars

(* Only RunInit makes a key, and only it comes past a name. *)
LEMMA ThroughMoves ==
  ASSUME IInv, LoaderStep, ~RunInit
  PROVE  UNCHANGED keyVars /\ Through' = Through
<1>1. CASE LoadToken
  <2>1. todo # <<>> /\ todo' = Tail(todo) /\ lpc = "token" /\ lpc' = "ctr"
    BY <1>1 DEF LoadToken
  <2>2. Len(todo') = Len(todo) - 1 /\ Len(todo) \in Nat /\ Len(TapList) \in Nat
    BY <2>1, ListFacts, HeadTailProperties, LenProperties DEF IInv, TypeOK
  <2>3. Through' = Through
    BY <2>1, <2>2 DEF Through, Walked
  <2> QED
    BY <1>1, <2>3 DEF LoadToken
<1>2. CASE ~LoadToken
  BY <1>2 DEF LoaderStep, RegisterCreate, LoadingDone, NoCtor, CtorBumpFirst, CtorStore,
              CtorStoreFirst, CtorBump, Through, Walked
<1> QED
  BY <1>1, <1>2

LEMMA LoaderKeepsKeysMade ==
  ASSUME AllInstalled, OwnKeys, Initialises, IInv, Loaded, KeysMade, LoaderStep
  PROVE  KeysMade'
<1>1. CASE RunInit
  BY <1>1, RunInitKeepsKeysMade
<1>2. CASE ~RunInit
  BY <1>2, ThroughMoves, SameKeysMade
<1> QED
  BY <1>1, <1>2

(* Once all are loaded, each wanted TAP has a key of its own. *)
LEMMA KeysOfTheWanted ==
  ASSUME OwnKeys, NoRepeats, IInv, Loaded, KeysMade, lpc = "main"
  PROVE  /\ \A i \in 1 .. Len(Wanted) : KeyOf(Wanted[i]) < Len(keyDtr)
                                       /\ keyDtr[KeyOf(Wanted[i]) + 1] = Wanted[i]
         /\ \A i, j \in 1 .. Len(Wanted) : i < j => KeyOf(Wanted[i]) # KeyOf(Wanted[j])
<1>1. Through = Len(TapList)
  BY ListFacts DEF Loaded, Walking, Walked, Through
<1>2. ASSUME NEW i \in 1 .. Len(Wanted)
      PROVE  KeyOf(Wanted[i]) < Len(keyDtr) /\ keyDtr[KeyOf(Wanted[i]) + 1] = Wanted[i]
  <2>1. Wanted[i] \in Good /\ \E m \in 1 .. Len(TapList) : TapList[m] = Wanted[i]
    <3>1. Len(TapList) \in 0 .. Len(TapList)
      BY ListFacts
    <3> QED
      BY <3>1, SelectedInOrder DEF InOrder, Wanted
  <2> QED
    BY <1>1, <2>1 DEF KeysMade, Good
<1>3. ASSUME NEW i \in 1 .. Len(Wanted), NEW j \in 1 .. Len(Wanted), i < j
      PROVE  KeyOf(Wanted[i]) # KeyOf(Wanted[j])
  <2>1. PICK m, n \in DOMAIN TapList :
               m < n /\ TapList[m] = Wanted[i] /\ TapList[n] = Wanted[j]
    BY <1>3, WantedFacts DEF Before
  <2>2. m # n
    BY <2>1, ListFacts
  <2>3. Wanted[i] # Wanted[j]
    BY <2>1, <2>2 DEF NoRepeats
  <2> QED
    BY <1>2, <2>3
<1> QED
  BY <1>2, <1>3

LEMMA ValuesFacts ==
  ASSUME IInv, NEW t \in Threads
  PROVE  /\ values[t] \subseteq 0 .. Len(keyDtr) - 1 /\ IsFiniteSet(values[t])
         /\ Cardinality(values[t]) \in Nat
         /\ ended[t] \in Seq(Taps) /\ Len(ended[t]) \in Nat
<1>1. values[t] \subseteq 0 .. Len(keyDtr) - 1 /\ ended[t] \in Seq(Taps)
  BY DEF IInv, TypeOK
<1>2. IsFiniteSet(0 .. Len(keyDtr) - 1)
  BY KeyFacts, FS_Interval
<1>3. IsFiniteSet(values[t])
  BY <1>1, <1>2, FS_Subset
<1> QED
  BY <1>1, <1>3, FS_CardinalityType, LenProperties

LEMMA CallCtorOwes ==
  ASSUME OwnKeys, NoRepeats, IInv, Loaded, KeysMade, NEW t \in Threads,
         Ordered(t), Started(t), Owes(t), CallCtor(t)
  PROVE  Owes(t)'
<1>1. pc[t] = "ctors" /\ pc'[t] = "ctors" /\ early'[t] = early[t] /\ ended' = ended
      /\ UNCHANGED keyVars
  BY DEF CallCtor
<1> SUFFICES ASSUME Late(t) PROVE Owes(t)'
  BY <1>1 DEF Owes, Late
<1> DEFINE p == Wanted[ci[t] + 1]
           k == KeyOf(p)
           n == Len(ran[t])
           V == values[t]
           E == ended[t]
<1>2. /\ ci[t] + 1 \in 1 .. Len(Wanted) /\ Len(ran'[t]) = n + 1
      /\ \A i \in 1 .. n : ran'[t][i] = ran[t][i]
      /\ ran'[t][n + 1] = p
  BY CallCtorOrdered
<1>3. lpc = "main" /\ n = ci[t] /\ \A i \in 1 .. n : ran[t][i] = Wanted[i]
  BY DEF Started
<1>4. n \in Nat /\ n + 1 \in 1 .. Len(Wanted) /\ p = Wanted[n + 1]
  BY <1>2, <1>3, ThreadFacts
<1>5. k < Len(keyDtr)
  BY <1>2, <1>3, KeysOfTheWanted
<1>6. values'[t] = V \cup {k}
  <2>1. LDM_thd_ctr[ci[t]] = p
    BY EntryIsWanted DEF CallCtor
  <2>2. values'[t] = V \cup Installs(p)
    BY <2>1 DEF CallCtor, IInv, TypeOK
  <2> QED
    BY <1>5, <2>2 DEF Installs, KeyOf
<1>7. \A i \in 1 .. n : KeyOf(ran[t][i]) # k
  <2> SUFFICES ASSUME NEW i \in 1 .. n PROVE KeyOf(Wanted[i]) # KeyOf(Wanted[n + 1])
    BY <1>3, <1>4
  <2>1. i \in 1 .. Len(Wanted) /\ i < n + 1
    BY <1>4, WantedFacts
  <2> QED
    BY <1>3, <1>4, <2>1, KeysOfTheWanted
<1>8. /\ \A i \in 1 .. n : KeyOf(ran[t][i]) \in V \/ \E j \in 1 .. Len(E) : E[j] = ran[t][i]
      /\ \A v \in V : \E i \in 1 .. n : v = KeyOf(ran[t][i])
      /\ Cardinality(V) + Len(E) = n
  BY DEF Owes
<1>9. k \notin V
  BY <1>7, <1>8
<1>10. \A q : KeyOf(q)' = KeyOf(q)
  BY <1>1 DEF KeyOf, keyVars
<1>11. ended'[t] = E
  BY <1>1
<1>12. /\ IsFiniteSet(V) /\ Cardinality(V) \in Nat /\ Len(E) \in Nat
  BY ValuesFacts
<1> HIDE DEF p, k, n, V, E
<1>13. Cardinality(V \cup {k}) = Cardinality(V) + 1
  BY <1>9, <1>12, FS_AddElement
<1> DEFINE r == ran'[t]
           W == values'[t]
           F == ended'[t]
<1>14. ASSUME NEW i \in 1 .. Len(r)
       PROVE  KeyOf(r[i]) \in W \/ \E j \in 1 .. Len(F) : F[j] = r[i]
  <2>1. CASE i = n + 1
    BY <1>2, <1>6, <2>1 DEF k
  <2>2. CASE i # n + 1
    <3>1. i \in 1 .. n /\ r[i] = ran[t][i]
      BY <1>2, <1>4, <2>2
    <3> QED
      BY <1>6, <1>8, <1>11, <3>1
  <2> QED
    BY <2>1, <2>2
<1>15. ASSUME NEW v \in W
       PROVE  \E i \in 1 .. Len(r) : v = KeyOf(r[i])
  <2>1. CASE v = k
    BY <1>2, <1>4, <2>1 DEF k
  <2>2. CASE v \in V
    <3>1. PICK i \in 1 .. n : v = KeyOf(ran[t][i])
      BY <1>8, <2>2
    <3>2. i \in 1 .. n + 1 /\ r[i] = ran[t][i]
      BY <1>2, <1>4, <3>1
    <3> QED
      BY <1>2, <3>1, <3>2
  <2> QED
    BY <1>6, <2>1, <2>2
<1>16. Cardinality(W) + Len(F) = Len(r)
  BY <1>2, <1>4, <1>6, <1>8, <1>11, <1>12, <1>13
<1> QED
  BY <1>10, <1>14, <1>15, <1>16 DEF Owes

LEMMA RunDtrOwes ==
  ASSUME OwnKeys, NoRepeats, IInv, Loaded, KeysMade, NEW t \in Threads,
         Ordered(t), Started(t), Owes(t), RunDtr(t)
  PROVE  Owes(t)'
<1>1. pc' = pc /\ early' = early /\ ran' = ran /\ UNCHANGED keyVars
  BY DEF RunDtr
<1> SUFFICES ASSUME Late(t) PROVE Owes(t)'
  BY <1>1 DEF Owes, Late
<1> DEFINE V == values[t]
           E == ended[t]
           r == ran[t]
           F == ended'[t]
           W == values'[t]
<1>2. PICK k \in V : F = Append(E, keyDtr[k + 1]) /\ W = V \ {k}
  BY DEF RunDtr, IInv, TypeOK
<1> DEFINE d == keyDtr[k + 1]
<1>3. /\ V \subseteq 0 .. Len(keyDtr) - 1 /\ IsFiniteSet(V) /\ Cardinality(V) \in Nat
      /\ E \in Seq(Taps) /\ Len(E) \in Nat
  BY ValuesFacts
<1>4. d \in Taps
  <2>1. k + 1 \in 1 .. Len(keyDtr)
    BY <1>3, KeyFacts
  <2> QED
    BY <2>1, KeyFacts, ElementOfSeq
<1>5. /\ \A i \in 1 .. Len(r) : KeyOf(r[i]) \in V \/ \E j \in 1 .. Len(E) : E[j] = r[i]
      /\ \A v \in V : \E i \in 1 .. Len(r) : v = KeyOf(r[i])
      /\ Cardinality(V) + Len(E) = Len(r)
  BY DEF Owes
<1>6. ASSUME NEW i \in 1 .. Len(r), KeyOf(r[i]) = k
      PROVE  r[i] = d
  <2>1. lpc = "main" /\ i \in 1 .. Len(Wanted) /\ r[i] = Wanted[i]
    BY WantedFacts, ThreadFacts DEF Started
  <2> QED
    BY <1>6, <2>1, KeysOfTheWanted
<1>7. \A q : KeyOf(q)' = KeyOf(q)
  BY <1>1 DEF KeyOf, keyVars
<1>8. ran'[t] = r
  BY <1>1
<1> HIDE DEF V, E, r, F, W, d
<1>9. Len(F) = Len(E) + 1 /\ F[Len(E) + 1] = d /\ \A j \in 1 .. Len(E) : F[j] = E[j]
  BY <1>2, <1>3, <1>4, AppendProperties DEF d
<1>10. Cardinality(W) = Cardinality(V) - 1
  BY <1>2, <1>3, FS_RemoveElement
<1>11. ASSUME NEW i \in 1 .. Len(r)
       PROVE  KeyOf(r[i]) \in W \/ \E j \in 1 .. Len(F) : F[j] = r[i]
  <2>1. CASE KeyOf(r[i]) = k
    <3>1. Len(E) + 1 \in 1 .. Len(F)
      BY <1>3, <1>9
    <3> QED
      BY <1>6, <1>9, <2>1, <3>1
  <2>2. CASE KeyOf(r[i]) \in V /\ KeyOf(r[i]) # k
    BY <1>2, <2>2
  <2>3. CASE \E j \in 1 .. Len(E) : E[j] = r[i]
    <3>1. PICK j \in 1 .. Len(E) : E[j] = r[i]
      BY <2>3
    <3>2. j \in 1 .. Len(F) /\ F[j] = r[i]
      BY <1>3, <1>9, <3>1
    <3> QED
      BY <3>2
  <2> QED
    BY <1>5, <2>1, <2>2, <2>3
<1>12. \A v \in W : \E i \in 1 .. Len(r) : v = KeyOf(r[i])
  BY <1>2, <1>5
<1>13. Cardinality(W) + Len(F) = Len(r)
  BY <1>3, <1>5, <1>9, <1>10
<1> QED
  BY <1>7, <1>8, <1>11, <1>12, <1>13 DEF Owes, r, F, W

LEMMA SameKeys ==
  ASSUME NEW t \in Threads, Same(t), Empty(t), Owes(t), Late(t) => UNCHANGED key
  PROVE  Empty(t)' /\ Owes(t)'
<1>1. Empty(t)'
  BY DEF Same, Empty
<1>2. Late(t)' => Late(t)
  BY DEF Same, Late
<1>3. ASSUME Late(t) PROVE \A q : KeyOf(q)' = KeyOf(q)
  BY <1>3 DEF KeyOf
<1>4. Owes(t)'
  BY <1>2, <1>3 DEF Same, Owes
<1> QED
  BY <1>1, <1>4

LEMMA ThreadKeepsKeys ==
  ASSUME OwnKeys, NoRepeats, IInv, Loaded, Runs, KeysInv, NEW t \in Threads,
         Create(t) \/ StartStep(t) \/ Return(t) \/ EndStep(t)
  PROVE  KeysInv'
<1>0. /\ Ordered(t) /\ Started(t) /\ Empty(t) /\ Owes(t)
      /\ DOMAIN pc = Threads /\ DOMAIN values = Threads /\ DOMAIN ended = Threads
      /\ DOMAIN ran = Threads /\ DOMAIN early = Threads
  BY DEF Runs, KeysInv, IInv, TypeOK
<1>1. UNCHANGED <<loaderVars, tableVars, keyVars>>
  BY ThreadsLeaveLoader
<1>2. KeysMade'
  BY <1>1, SameKeysMade DEF KeysInv, loaderVars, Through, Walked
<1>3. \A q : KeyOf(q)' = KeyOf(q)
  BY <1>1 DEF KeyOf, keyVars
<1>4. Empty(t)' /\ Owes(t)'
  <2>1. CASE Create(t)
    <3>1. /\ values'[t] = {} /\ ran'[t] = <<>> /\ ended'[t] = <<>>
      BY <1>0, <2>1 DEF Create, Empty
    <3>2. Len(ran'[t]) = 0 /\ Len(ended'[t]) = 0 /\ Cardinality(values'[t]) = 0
      BY <3>1, FS_EmptySet
    <3> QED
      BY <3>1, <3>2 DEF Empty, Owes
  <2>2. CASE CallCtor(t)
    <3>1. pc'[t] = "ctors"
      BY <2>2 DEF CallCtor
    <3> QED
      BY <1>0, <2>2, <3>1, CallCtorOwes DEF KeysInv, Empty
  <2>3. CASE RunDtr(t)
    <3>1. pc'[t] = "dtrs"
      BY <2>3 DEF RunDtr
    <3> QED
      BY <1>0, <2>3, <3>1, RunDtrOwes DEF KeysInv, Empty
  <2>4. CASE SkipCtor(t) \/ StartRoutine(t) \/ Return(t) \/ End(t)
    <3>1. /\ ran' = ran /\ early' = early /\ values' = values /\ ended' = ended
          /\ pc[t] # "none" /\ (pc'[t] \in {"none", "dead"} => values[t] = {})
      BY <1>0, <2>4 DEF SkipCtor, StartRoutine, Return, End
    <3>2. Late(t)' => Late(t)
      BY <3>1 DEF Late
    <3> QED
      BY <1>0, <1>3, <3>1, <3>2 DEF Empty, Owes
  <2> QED
    BY <2>1, <2>2, <2>3, <2>4 DEF StartStep, EndStep
<1>5. ASSUME NEW u \in Threads, u # t
      PROVE  Empty(u)' /\ Owes(u)'
  BY <1>1, <1>5, OthersSame, SameKeys DEF KeysInv, keyVars
<1> QED
  BY <1>2, <1>4, <1>5 DEF KeysInv

LEMMA LoaderKeepsKeys ==
  ASSUME AllInstalled, OwnKeys, Initialises, IInv, Loaded, Runs, KeysInv,
         (LoaderStep \/ UNCHANGED vars)
  PROVE  KeysInv'
<1>1. KeysMade'
  <2>1. CASE LoaderStep
    BY <2>1, LoaderKeepsKeysMade DEF KeysInv
  <2>2. CASE UNCHANGED vars
    BY <2>2, SameKeysMade DEF KeysInv, vars, loaderVars, Through, Walked
  <2> QED
    BY <2>1, <2>2
<1>2. UNCHANGED threadVars /\ (lpc = "main" => UNCHANGED key)
  BY DEF LoaderStep, RegisterCreate, LoadToken, LoadingDone, NoCtor, CtorBumpFirst,
         CtorStore, CtorStoreFirst, CtorBump, RunInit, vars, keyVars
<1>3. ASSUME NEW t \in Threads PROVE Empty(t)' /\ Owes(t)'
  BY <1>2, SameKeys DEF KeysInv, Runs, Started, Same, threadVars
<1> QED
  BY <1>1, <1>3 DEF KeysInv

(* A thread created once the TAPs were loaded has, for every constructor    *)
(* it has run, a value under the key of its TAP or the TAP's destructor     *)
(* behind it (legerdemain.h:67-77).                                         *)
THEOREM KeysInvariant ==
  ASSUME AllInstalled, OwnKeys, Initialises, NoRepeats
  PROVE  Spec => []KeysInv
<1>1. IInv /\ Loaded /\ Runs /\ KeysInv /\ [Next]_vars => KeysInv'
  BY ThreadKeepsKeys, LoaderKeepsKeys DEF Next
<1> QED
  BY InitKeys, RoomInvariant, TableFollowsTheList, RunsInvariant, <1>1, PTL DEF Spec

(* When such a thread has ended, it has run the destructor of each TAP      *)
(* whose constructor it ran, and no other, once (README:129-135).           *)
THEOREM EveryDestructorRuns ==
  ASSUME AllInstalled, OwnKeys, Initialises, NoRepeats
  PROVE  Spec => []DtrForEveryCtor
<1>1. IInv /\ Runs /\ KeysInv => DtrForEveryCtor
  <2> SUFFICES ASSUME IInv, KeysInv, NEW t \in Threads, pc[t] = "dead", ~early[t]
               PROVE  /\ Len(ended[t]) = Len(ran[t])
                      /\ \A i \in DOMAIN ran[t] :
                           \E j \in DOMAIN ended[t] : ended[t][j] = ran[t][i]
    BY DEF DtrForEveryCtor
  <2>1. values[t] = {} /\ Cardinality(values[t]) = 0
    BY FS_EmptySet DEF KeysInv, Empty
  <2>2. /\ \A i \in 1 .. Len(ran[t]) : \E j \in 1 .. Len(ended[t]) : ended[t][j] = ran[t][i]
        /\ Cardinality(values[t]) + Len(ended[t]) = Len(ran[t])
    BY <2>1 DEF KeysInv, Owes, Late
  <2>3. DOMAIN ran[t] = 1 .. Len(ran[t]) /\ DOMAIN ended[t] = 1 .. Len(ended[t])
        /\ Len(ended[t]) \in Nat
    BY ThreadFacts, ValuesFacts, LenProperties
  <2>4. Len(ended[t]) = Len(ran[t])
    BY <2>1, <2>2, <2>3
  <2> QED
    BY <2>2, <2>3, <2>4
<1> QED
  BY RoomInvariant, RunsInvariant, KeysInvariant, <1>1, PTL

-----------------------------------------------------------------------------
(* Every key has the destructor of a name whose initializer has been called,   *)
(* and no two have the same.                                                   *)
KeysOnce ==
  /\ \A k \in 1 .. Len(keyDtr) : \E i \in 1 .. Through : TapList[i] = keyDtr[k]
  /\ \A k, l \in 1 .. Len(keyDtr) : keyDtr[k] = keyDtr[l] => k = l

LEMMA InitKeysOnce == Init => KeysOnce
BY DEF Init, KeysOnce

LEMMA SameKeysOnce ==
  ASSUME KeysOnce, keyDtr' = keyDtr, Through' = Through
  PROVE  KeysOnce'
BY DEF KeysOnce

LEMMA RunInitKeepsKeysOnce ==
  ASSUME AllInstalled, NoRepeats, IInv, Loaded, KeysOnce, RunInit
  PROVE  KeysOnce'
<1> DEFINE h == TapList[Walked]
           L == Len(keyDtr)
<1>1. /\ lpc = "init" /\ lpc' = "token" /\ Walked' = Walked
      /\ Through = Walked - 1 /\ Through' = Walked
  BY DEF RunInit, Walked, Through
<1>2. /\ Walked \in 1 .. Len(TapList) /\ h \in Taps
      /\ dlsym(handle, WithInit) = IF h \in WithInit THEN h ELSE NoTap
  BY <1>1, HandleIs DEF Loaded
<1>3. L \in Nat /\ keyDtr \in Seq(Taps)
  BY KeyFacts
<1>4. \A k \in 1 .. L : \E i \in 1 .. Walked - 1 : TapList[i] = keyDtr[k]
  BY <1>1 DEF KeysOnce
<1>5. \A k, l \in 1 .. L : keyDtr[k] = keyDtr[l] => k = l
  BY DEF KeysOnce
<1>6. ASSUME NEW k \in 1 .. L PROVE keyDtr[k] # h
  <2>1. PICK i \in 1 .. Walked - 1 : TapList[i] = keyDtr[k]
    BY <1>4
  <2>2. i \in DOMAIN TapList /\ Walked \in DOMAIN TapList /\ i # Walked
    BY <1>2, ListFacts
  <2> QED
    BY <2>1, <2>2 DEF NoRepeats
<1>7. CASE keyDtr' = keyDtr
  <2>1. \A i \in 1 .. Walked - 1 : i \in 1 .. Walked
    BY <1>2
  <2> QED
    BY <1>1, <1>4, <1>5, <1>7, <2>1 DEF KeysOnce
<1>8. CASE keyDtr' = Append(keyDtr, h)
  <2> HIDE DEF h, L
  <2>1. /\ Len(keyDtr') = L + 1 /\ keyDtr'[L + 1] = h
        /\ \A k \in 1 .. L : keyDtr'[k] = keyDtr[k]
    BY <1>2, <1>3, <1>8, AppendProperties DEF L
  <2>2. ASSUME NEW k \in 1 .. Len(keyDtr')
        PROVE  \E i \in 1 .. Walked : TapList[i] = keyDtr'[k]
    <3>1. CASE k = L + 1
      BY <1>2, <2>1, <3>1 DEF h
    <3>2. CASE k \in 1 .. L
      <4>1. PICK i \in 1 .. Walked - 1 : TapList[i] = keyDtr[k]
        BY <1>4, <3>2
      <4>2. i \in 1 .. Walked
        BY <1>2
      <4> QED
        BY <2>1, <3>2, <4>1, <4>2
    <3> QED
      BY <1>3, <2>1, <3>1, <3>2
  <2>3. ASSUME NEW k \in 1 .. Len(keyDtr'), NEW l \in 1 .. Len(keyDtr'),
               keyDtr'[k] = keyDtr'[l]
        PROVE  k = l
    <3>1. (k = L + 1 \/ k \in 1 .. L) /\ (l = L + 1 \/ l \in 1 .. L)
      BY <1>3, <2>1
    <3> QED
      BY <1>5, <1>6, <2>1, <2>3, <3>1
  <2> QED
    BY <1>1, <2>2, <2>3 DEF KeysOnce
<1>9. keyDtr' = keyDtr \/ keyDtr' = Append(keyDtr, h)
  <2>1. CASE h \in WithInit
    BY <1>2, <2>1 DEF RunInit, RegisterDtr, keyVars
  <2>2. CASE h \notin WithInit
    BY <1>2, <2>2, TapAssumption DEF RunInit, keyVars
  <2> QED
    BY <2>1, <2>2
<1> QED
  BY <1>7, <1>8, <1>9

LEMMA LoaderKeepsKeysOnce ==
  ASSUME AllInstalled, NoRepeats, IInv, Loaded, KeysOnce, LoaderStep
  PROVE  KeysOnce'
<1>1. CASE RunInit
  BY <1>1, RunInitKeepsKeysOnce
<1>2. CASE ~RunInit
  BY <1>2, ThroughMoves, SameKeysOnce DEF keyVars
<1> QED
  BY <1>1, <1>2

(* No TAP registers its destructor twice, and only one whose name the       *)
(* loader has come past does (thread_constructor.c:68-74).                  *)
THEOREM DestructorsRegisteredOnce ==
  ASSUME AllInstalled, NoRepeats
  PROVE  Spec => []KeysOnce
<1>1. IInv /\ Loaded /\ KeysOnce /\ [Next]_vars => KeysOnce'
  <2> SUFFICES ASSUME IInv, Loaded, KeysOnce, [Next]_vars PROVE KeysOnce'
    OBVIOUS
  <2>1. CASE LoaderStep
    BY <2>1, LoaderKeepsKeysOnce
  <2>2. ASSUME NEW t \in Threads, Create(t) \/ StartStep(t) \/ Return(t) \/ EndStep(t)
        PROVE  KeysOnce'
    BY <2>2, ThreadsLeaveLoader, SameKeysOnce
    DEF loaderVars, keyVars, Through, Walked
  <2>3. CASE UNCHANGED vars
    BY <2>3, SameKeysOnce DEF vars, loaderVars, keyVars, Through, Walked
  <2> QED
    BY <2>1, <2>2, <2>3 DEF Next
<1> QED
  BY InitKeysOnce, RoomInvariant, TableFollowsTheList, <1>1, PTL DEF Spec

=============================================================================
