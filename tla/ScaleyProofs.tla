---------------------------- MODULE ScaleyProofs ----------------------------
(***************************************************************************)
(* Proofs about Scaley, for any threads, blocks, sizes and histogram.      *)
(***************************************************************************)
EXTENDS Scaley, SequenceTheorems, FiniteSetTheorems, WellFoundedInduction, TLAPS

(* A thread is in malloc and has a block that is not the program's yet.    *)
Holding(t) == pc[t] \in {"insert", "allocated", "mallocSince"} /\ ptr[t] # NULL

(* Such a block is in use, nobody can free it, and nobody else has it.     *)
Held ==
  \A t \in Threads : Holding(t) =>
    /\ ptr[t] \notin owned
    /\ heap[ptr[t]] # 0
    /\ \A u \in Threads \ {t} : Holding(u) => ptr[u] # ptr[t]

(* What a thread is about to put into the table is the size of its block,  *)
(* which nobody has counted; or the address is NULL, which is spoilt then. *)
Inserting ==
  \A t \in Threads : pc[t] = "insert" =>
    \/ ptr[t] = NULL /\ NULL \in spoilt
    \/ ptr[t] # NULL /\ sz[t] = heap[ptr[t]] /\ ptr[t] \notin counted

(* A block whose size is still being dropped is free, unless the address   *)
(* was handed out in the meantime.                                         *)
Drops(u, b) == ptr[u] = b /\ pc[u] \in {"lookup", "freed", "remove"}

Dropped ==
  \A b \in Blocks \ spoilt : (\E u \in Threads : Drops(u, b)) => heap[b] = 0

(* TableTracksHeap, an entry at a time: an address whose size nobody is    *)
(* dropping has the entry it should.                                       *)
Entry(b) == IF b \in counted THEN blockSizes[b] = heap[b] ELSE blockSizes[b] = 0

Tracks ==
  \A b \in (Blocks \cup {NULL}) \ spoilt :
    (\A u \in Threads : ~Drops(u, b)) => Entry(b)

BeforeInit ==
  ~inited => counted = {} /\ \A b \in Blocks \cup {NULL} : blockSizes[b] = 0

IInv == TypeOK /\ Tracks /\ Held /\ Inserting /\ Dropped /\ BeforeInit

LEMMA TracksTheHeap == Tracks => TableTracksHeap
<1> SUFFICES ASSUME Tracks,
                    NEW b \in (Blocks \cup {NULL}) \ spoilt, Dropping(b) = {}
             PROVE  blockSizes[b] = IF b \in counted THEN heap[b] ELSE 0
  BY DEF TableTracksHeap
<1>1. \A u \in Threads : ~Drops(u, b)
  BY DEF Dropping, Drops
<1>2. Entry(b)
  BY <1>1 DEF Tracks
<1> QED
  BY <1>2 DEF Entry

(* The types a thread's block is told with.                                *)
BlockTypes ==
  /\ heap \in [Blocks -> Sizes \cup {0}]
  /\ owned \subseteq {b \in Blocks : heap[b] # 0}
  /\ counted \subseteq {b \in Blocks : heap[b] # 0}
  /\ pc \in [Threads -> PCs]
  /\ ptr \in [Threads -> Blocks \cup {NULL}]
  /\ sz \in [Threads -> Sizes \cup {0}]
  /\ NULL \notin Blocks
  /\ \A n \in Sizes : n \in Nat /\ n # 0

LEMMA TypesOfBlocks == TypeOK => BlockTypes
BY ScaleyAssumption DEF TypeOK, BlockTypes

LEMMA InitIInv == Init => IInv
<1> SUFFICES ASSUME Init PROVE IInv
  OBVIOUS
<1>1. TypeOK
  <2>1. /\ blockSizes \in [Blocks \cup {NULL} -> Sizes \cup {0}]
        /\ heap \in [Blocks -> Sizes \cup {0}]
        /\ ptr \in [Threads -> Blocks \cup {NULL}]
        /\ sz \in [Threads -> Sizes \cup {0}]
        /\ loaded \in [Threads -> Seq(Int)]
        /\ histo \in [1 .. S_LEN -> Int]
        /\ counter \in [Counters -> Int]
    BY DEF Init
  <2>2. origRead \in BOOLEAN /\ origFree \in BOOLEAN /\ inited \in BOOLEAN
    BY DEF Init
  <2>3. pc \in [Threads -> PCs]
    BY DEF Init, PCs
  <2>4. reads \in Nat /\ past \in Int /\ roundedOff \in Int
    BY DEF Init
  <2>5. idx \in [Threads -> 1 .. S_LEN - 1]
    BY ScaleyAssumption DEF Init
  <2> QED
    BY <2>1, <2>2, <2>3, <2>4, <2>5 DEF Init, TypeOK
<1>2. Tracks
  BY DEF Init, Tracks, Entry
<1>3. Held /\ Inserting
  BY DEF Init, Held, Inserting, Holding
<1>4. Dropped /\ BeforeInit
  BY DEF Init, Dropped, BeforeInit, Drops
<1> QED
  BY <1>1, <1>2, <1>3, <1>4 DEF IInv

-----------------------------------------------------------------------------
(* What a store leaves alone, and the types of what it writes.             *)
LEMMA StoreTypes ==
  ASSUME TypeOK, NEW t \in Threads, NEW n \in Int,
         pc[t] \in DOMAIN CounterOf, Store(t, n)
  PROVE  /\ counter' \in [Counters -> Int]
         /\ loaded' \in [Threads -> Seq(Int)]
         /\ UNCHANGED <<torn, tapVars, readVars, heap, counted, spoilt>>
<1>1. CounterOf[pc[t]] \in Counters
  BY DEF CounterOf, Counters
<1>2. Head(loaded[t]) \in Int
  BY HeadTailProperties DEF Store, TypeOK
<1>3. counter' \in [Counters -> Int]
  BY <1>1, <1>2 DEF Store, TypeOK
<1>4. loaded' \in [Threads -> Seq(Int)]
  BY DEF Store, TypeOK
<1> QED
  BY <1>3, <1>4 DEF Store
-----------------------------------------------------------------------------
(* Every step keeps the types.  Held is what makes them inductive: the     *)
(* block malloc hands to the program is still in use.                      *)
LEMMA MallocKeepsTypes ==
  ASSUME IInv, NEW t \in Threads, MallocStep(t)
  PROVE  TypeOK'
<1> USE DEF IInv
<1>0. \A n \in Sizes : n \in Nat /\ n # 0
  BY ScaleyAssumption
<1>1. CASE CallMalloc(t)
  <2>1. PICK n \in Sizes :
          /\ sz' = [sz EXCEPT ![t] = n]
          /\ \/ \E b \in Blocks :
                  /\ heap[b] = 0
                  /\ heap' = [heap EXCEPT ![b] = n]
                  /\ ptr' = [ptr EXCEPT ![t] = b]
                  /\ spoilt' = spoilt \cup Early(b)
             \/ /\ ptr' = [ptr EXCEPT ![t] = NULL]
                /\ spoilt' = spoilt \cup {NULL}
                /\ UNCHANGED heap
    BY <1>1 DEF CallMalloc
  <2>2. /\ pc' \in [Threads -> PCs]
        /\ sz' \in [Threads -> Sizes \cup {0}]
    BY <1>1, <2>1 DEF CallMalloc, Goes, TypeOK, PCs
  <2>3. ptr' \in [Threads -> Blocks \cup {NULL}]
    BY <2>1 DEF TypeOK
  <2>4. heap' \in [Blocks -> Sizes \cup {0}]
    BY <2>1 DEF TypeOK
  <2>5. spoilt' \subseteq Blocks \cup {NULL}
    BY <2>1 DEF Early, TypeOK
  <2>6. \A b \in Blocks : heap[b] # 0 => heap'[b] # 0
    BY <1>0, <2>1 DEF TypeOK
  <2> QED
    BY <1>1, <2>2, <2>3, <2>4, <2>5, <2>6
    DEF CallMalloc, TypeOK, tapVars, countVars, readVars
<1>2. CASE InsertSize(t)
  <2>1. /\ pc' \in [Threads -> PCs]
        /\ blockSizes' \in [Blocks \cup {NULL} -> Sizes \cup {0}]
    BY <1>2 DEF InsertSize, Goes, TypeOK, PCs
  <2>2. ptr[t] # NULL => heap[ptr[t]] # 0 /\ ptr[t] \in Blocks
    BY <1>2 DEF InsertSize, Goes, Held, Holding, TypeOK
  <2>3. counted' \subseteq {b \in Blocks : heap'[b] # 0}
    BY <1>2, <2>2 DEF InsertSize, TypeOK
  <2> QED
    BY <1>2, <2>1, <2>3 DEF InsertSize, TypeOK, tapVars, countVars, readVars
<1>3. CASE MallocUncounted(t)
  <2>1. /\ pc' \in [Threads -> PCs]
        /\ ptr' \in [Threads -> Blocks \cup {NULL}]
        /\ sz' \in [Threads -> Sizes \cup {0}]
    BY <1>3 DEF MallocUncounted, Returns, Goes, TypeOK, PCs
  <2>2. ptr[t] # NULL => heap[ptr[t]] # 0 /\ ptr[t] \in Blocks
    BY <1>3 DEF MallocUncounted, Returns, Goes, Held, Holding, TypeOK
  <2>3. owned' \subseteq {b \in Blocks : heap'[b] # 0}
    BY <1>3, <2>2 DEF MallocUncounted, Keeps, TypeOK
  <2> QED
    BY <1>3, <2>1, <2>3
    DEF MallocUncounted, TypeOK, tapVars, countVars, readVars
<1>4. CASE AddAllocated(t)
  <2>1. pc' \in [Threads -> PCs]
    BY <1>4 DEF AddAllocated, Goes, TypeOK, PCs
  <2>2. pc[t] \in DOMAIN CounterOf /\ sz[t] \in Int
    BY <1>0, <1>4 DEF AddAllocated, Goes, CounterOf, TypeOK
  <2>3. /\ counter' \in [Counters -> Int]
        /\ loaded' \in [Threads -> Seq(Int)]
        /\ UNCHANGED <<torn, tapVars, readVars, heap, counted, spoilt>>
    BY <1>4, <2>2, StoreTypes DEF AddAllocated
  <2> QED
    BY <1>4, <2>1, <2>3 DEF AddAllocated, TypeOK, tapVars, readVars
<1>5. CASE AddSinceMalloc(t)
  <2>1. /\ pc' \in [Threads -> PCs]
        /\ ptr' \in [Threads -> Blocks \cup {NULL}]
        /\ sz' \in [Threads -> Sizes \cup {0}]
    BY <1>5 DEF AddSinceMalloc, Returns, Goes, TypeOK, PCs
  <2>2. pc[t] \in DOMAIN CounterOf /\ sz[t] \in Int
    BY <1>0, <1>5 DEF AddSinceMalloc, Returns, Goes, CounterOf, TypeOK
  <2>3. /\ counter' \in [Counters -> Int]
        /\ loaded' \in [Threads -> Seq(Int)]
        /\ UNCHANGED <<torn, tapVars, readVars, heap, counted, spoilt>>
    BY <1>5, <2>2, StoreTypes DEF AddSinceMalloc
  <2>4. ptr[t] # NULL => heap[ptr[t]] # 0 /\ ptr[t] \in Blocks
    BY <1>5 DEF AddSinceMalloc, Returns, Goes, Held, Holding, TypeOK
  <2>5. owned' \subseteq {b \in Blocks : heap'[b] # 0}
    BY <1>5, <2>3, <2>4 DEF AddSinceMalloc, Keeps, TypeOK
  <2> QED
    BY <2>1, <2>3, <2>5 DEF TypeOK, tapVars, readVars
<1> QED
  BY <1>1, <1>2, <1>3, <1>4, <1>5 DEF MallocStep

LEMMA FreeKeepsTypes ==
  ASSUME TypeOK, NEW t \in Threads, FreeStep(t)
  PROVE  TypeOK'
<1>0. \A n \in Sizes : n \in Nat /\ n # 0
  BY ScaleyAssumption
<1>1. CASE CallFree(t)
  <2>1. PICK b \in owned \cup {NULL} :
          /\ owned' = owned \ {b}
          /\ \/ UNCHANGED <<heap, counted, pc, ptr>>
             \/ /\ Goes(t, "out", "lookup")
                /\ heap' = [h \in Blocks |-> IF h = b THEN 0 ELSE heap[h]]
                /\ counted' = counted \ {b}
                /\ ptr' = [ptr EXCEPT ![t] = b]
    BY <1>1 DEF CallFree
  <2>2. b \in Blocks \cup {NULL}
    BY DEF TypeOK
  <2>3. /\ pc' \in [Threads -> PCs]
        /\ ptr' \in [Threads -> Blocks \cup {NULL}]
    BY <2>1, <2>2, TypesOfBlocks DEF Goes, BlockTypes, PCs
  <2>4. heap' \in [Blocks -> Sizes \cup {0}]
    BY <2>1 DEF TypeOK
  <2>5. owned' \subseteq {h \in Blocks : heap'[h] # 0}
    BY <2>1 DEF TypeOK
  <2>6. counted' \subseteq {h \in Blocks : heap'[h] # 0}
    BY <2>1 DEF TypeOK
  <2> QED
    BY <1>1, <2>3, <2>4, <2>5, <2>6
    DEF CallFree, TypeOK, tapVars, countVars, readVars
<1>2. CASE FreeUncounted(t)
  <2>1. /\ pc' \in [Threads -> PCs]
        /\ ptr' \in [Threads -> Blocks \cup {NULL}]
        /\ sz' \in [Threads -> Sizes \cup {0}]
    BY <1>2 DEF FreeUncounted, Returns, Goes, TypeOK, PCs
  <2> QED
    BY <1>2, <2>1
    DEF FreeUncounted, TypeOK, tapVars, countVars, readVars, heapVars
<1>3. CASE LookUpSize(t)
  <2>1. /\ pc' \in [Threads -> PCs]
        /\ sz' \in [Threads -> Sizes \cup {0}]
    BY <1>3 DEF LookUpSize, Goes, TypeOK, PCs
  <2> QED
    BY <1>3, <2>1
    DEF LookUpSize, TypeOK, tapVars, countVars, readVars, heapVars
<1>4. CASE AddFreed(t)
  <2>1. pc' \in [Threads -> PCs]
    BY <1>4 DEF AddFreed, Goes, TypeOK, PCs
  <2>2. pc[t] \in DOMAIN CounterOf /\ sz[t] \in Int
    BY <1>0, <1>4 DEF AddFreed, Goes, CounterOf, TypeOK
  <2>3. /\ counter' \in [Counters -> Int]
        /\ loaded' \in [Threads -> Seq(Int)]
        /\ UNCHANGED <<torn, tapVars, readVars, heap, counted, spoilt>>
    BY <1>4, <2>2, StoreTypes DEF AddFreed
  <2> QED
    BY <1>4, <2>1, <2>3 DEF AddFreed, TypeOK, tapVars, readVars
<1>5. CASE RemoveSize(t)
  <2>1. /\ pc' \in [Threads -> PCs]
        /\ blockSizes' \in [Blocks \cup {NULL} -> Sizes \cup {0}]
    BY <1>5 DEF RemoveSize, Goes, TypeOK, PCs
  <2> QED
    BY <1>5, <2>1 DEF RemoveSize, TypeOK, countVars, readVars, heapVars
<1>6. CASE SubtractSinceFree(t)
  <2>1. /\ pc' \in [Threads -> PCs]
        /\ ptr' \in [Threads -> Blocks \cup {NULL}]
        /\ sz' \in [Threads -> Sizes \cup {0}]
    BY <1>6 DEF SubtractSinceFree, Returns, Goes, TypeOK, PCs
  <2>2. pc[t] \in DOMAIN CounterOf
    BY <1>6 DEF SubtractSinceFree, Returns, Goes, CounterOf
  <2>3. -sz[t] \in Int
    <3>1. sz[t] \in Int
      BY <1>0 DEF TypeOK
    <3> QED
      BY <3>1
  <2>4. /\ counter' \in [Counters -> Int]
        /\ loaded' \in [Threads -> Seq(Int)]
        /\ UNCHANGED <<torn, tapVars, readVars, heap, counted, spoilt>>
    BY <1>6, <2>2, <2>3, StoreTypes DEF SubtractSinceFree
  <2> QED
    BY <1>6, <2>1, <2>4 DEF SubtractSinceFree, TypeOK, tapVars, readVars
<1> QED
  BY <1>1, <1>2, <1>3, <1>4, <1>5, <1>6 DEF FreeStep

LEMMA ReadKeepsTypes ==
  ASSUME TypeOK, NEW t \in Threads, ReadStep(t)
  PROVE  TypeOK'
<1>0. /\ idx[t] \in 1 .. S_LEN - 1 /\ idx[t] + 1 \in 1 .. S_LEN
      /\ 1 \in 1 .. S_LEN - 1 /\ 1 \in 1 .. S_LEN
  BY ScaleyAssumption DEF TypeOK
<1>1. CASE CallRead(t)
  <2>1. /\ reads' \in Nat /\ pc' \in [Threads -> PCs]
        /\ torn' \subseteq Counters \cup {"histo"}
    BY <1>1 DEF CallRead, Goes, TypeOK, PCs
  <2>2. idx' \in [Threads -> 1 .. S_LEN - 1]
    BY <1>0, <1>1 DEF CallRead, TypeOK
  <2> QED
    BY <1>1, <2>1, <2>2 DEF CallRead, TypeOK, tapVars, heapVars
<1>2. CASE LoadEntry(t)
  <2>1. <<histo[idx[t] + 1]>> \in Seq(Int)
    BY <1>0 DEF TypeOK
  <2>2. loaded' \in [Threads -> Seq(Int)]
    BY <1>2, <2>1 DEF LoadEntry, TypeOK
  <2> QED
    BY <1>2, <2>2 DEF LoadEntry, TypeOK, tapVars, readVars, heapVars
<1>3. CASE StoreEntry(t)
  <2>1. Head(loaded[t]) \in Int
    BY <1>3, HeadTailProperties DEF StoreEntry, TypeOK
  <2>2. histo' \in [1 .. S_LEN -> Int] /\ loaded' \in [Threads -> Seq(Int)]
    <3>1. /\ histo \in [1 .. S_LEN -> Int] /\ loaded \in [Threads -> Seq(Int)]
          /\ <<>> \in Seq(Int)
      BY DEF TypeOK
    <3>2. /\ histo' = [histo EXCEPT ![idx[t]] = Head(loaded[t])]
          /\ loaded' = [loaded EXCEPT ![t] = <<>>]
      BY <1>3 DEF StoreEntry
    <3>3. histo' \in [1 .. S_LEN -> Int]
      BY <2>1, <3>1, <3>2
    <3> QED
      BY <3>1, <3>2, <3>3
  <2>3. past' \in Int
    BY <1>0, <1>3 DEF StoreEntry, TypeOK
  <2>4. pc' \in [Threads -> PCs]
    BY <1>3 DEF StoreEntry, TypeOK, PCs
  <2>5. idx' \in [Threads -> 1 .. S_LEN - 1]
    <3>1. idx[t] # S_LEN - 1 => idx[t] + 1 \in 1 .. S_LEN - 1
      BY <1>0, ScaleyAssumption
    <3> QED
      BY <1>0, <1>3, <3>1 DEF StoreEntry, TypeOK
  <2> QED
    BY <1>3, <2>2, <2>3, <2>4, <2>5 DEF StoreEntry, TypeOK, tapVars, heapVars
<1>4. CASE TakeSince(t)
  <2>1. Head(loaded[t]) \in Int
    BY <1>4, HeadTailProperties DEF TakeSince, TypeOK
  <2>2. PICK x \in ToFloat(Head(loaded[t])) :
          /\ histo' = [histo EXCEPT ![S_LEN] = x]
          /\ roundedOff' = roundedOff + (Head(loaded[t]) - x)
    BY <1>4 DEF TakeSince
  <2>3. x \in Int
    BY ScaleyAssumption DEF ToFloat
  <2>4. histo' \in [1 .. S_LEN -> Int] /\ roundedOff' \in Int
    <3>1. histo \in [1 .. S_LEN -> Int] /\ roundedOff \in Int
      BY DEF TypeOK
    <3>2. histo' \in [1 .. S_LEN -> Int]
      BY <2>2, <2>3, <3>1
    <3> QED
      BY <2>1, <2>2, <2>3, <3>1, <3>2
  <2>5. pc' \in [Threads -> PCs] /\ loaded' \in [Threads -> Seq(Int)]
    BY <1>4 DEF TakeSince, Goes, TypeOK, PCs
  <2> QED
    BY <1>4, <2>4, <2>5 DEF TakeSince, TypeOK, tapVars, heapVars
<1>5. CASE ResetSince(t)
  <2>1. pc' \in [Threads -> PCs]
    BY <1>5 DEF ResetSince, Goes, TypeOK, PCs
  <2>2. counter' \in [Counters -> Int]
    <3>1. counter \in [Counters -> Int] /\ 0 \in Int
      BY DEF TypeOK
    <3>2. counter' = [counter EXCEPT !["sinceRead"] = 0]
      BY <1>5 DEF ResetSince
    <3> QED
      BY <3>1, <3>2
  <2> QED
    BY <1>5, <2>1, <2>2 DEF ResetSince, TypeOK, tapVars, readVars, heapVars
<1>6. CASE CallOrigRead(t)
  <2>1. pc' \in [Threads -> PCs]
    BY <1>6 DEF CallOrigRead, Goes, TypeOK, PCs
  <2> QED
    BY <1>6, <2>1 DEF CallOrigRead, TypeOK, tapVars, countVars, readVars, heapVars
<1> QED
  BY <1>1, <1>2, <1>3, <1>4, <1>5, <1>6 DEF ReadStep

(* Reads, loads, the steps of the initializer and the rest of the          *)
(* allocator.                                                              *)
LEMMA OtherStepsKeepTypes ==
  ASSUME TypeOK,
         \/ RegisterRead \/ RegisterFree \/ Initialised
         \/ \E t \in Threads : Load(t) \/ ReadStep(t) \/ Calloc(t) \/ Realloc(t)
  PROVE  TypeOK'
<1>0. \A n \in Sizes : n \in Nat /\ n # 0
  BY ScaleyAssumption
<1>1. CASE RegisterRead \/ RegisterFree \/ Initialised
  BY <1>1 DEF RegisterRead, RegisterFree, Initialised, TypeOK, countVars, readVars, heapVars
<1>2. ASSUME NEW t \in Threads, Load(t) PROVE TypeOK'
  <2>1. CounterOf[pc[t]] \in Counters
    BY <1>2 DEF Load, CounterOf, Counters
  <2>2. loaded' \in [Threads -> Seq(Int)]
    <3>1. <<counter[CounterOf[pc[t]]]>> \in Seq(Int)
      BY <2>1 DEF TypeOK
    <3> QED
      <4>1. loaded \in [Threads -> Seq(Int)]
        BY DEF TypeOK
      <4>2. loaded' = [loaded EXCEPT ![t] = <<counter[CounterOf[pc[t]]]>>]
        BY <1>2 DEF Load
      <4> QED
        BY <3>1, <4>1, <4>2
  <2>3. torn' \subseteq Counters \cup {"histo"}
    BY <1>2, <2>1 DEF Load, TypeOK
  <2> QED
    BY <1>2, <2>2, <2>3 DEF Load, TypeOK, tapVars, readVars, heapVars
<1>3. ASSUME NEW t \in Threads, ReadStep(t) PROVE TypeOK'
  BY <1>3, ReadKeepsTypes
<1>5. ASSUME NEW t \in Threads, Calloc(t) PROVE TypeOK'
  <2>1. PICK b \in Blocks, n \in Sizes :
          /\ heap[b] = 0
          /\ heap' = [heap EXCEPT ![b] = n]
          /\ owned' = owned \cup {b}
          /\ spoilt' = spoilt \cup Early(b)
    BY <1>5 DEF Calloc
  <2>2. /\ heap' \in [Blocks -> Sizes \cup {0}]
        /\ spoilt' \subseteq Blocks \cup {NULL}
    BY <2>1 DEF TypeOK, Early
  <2>3. /\ owned' \subseteq {h \in Blocks : heap'[h] # 0}
        /\ counted \subseteq {h \in Blocks : heap'[h] # 0}
    BY <1>0, <2>1 DEF TypeOK
  <2> QED
    BY <1>5, <2>2, <2>3 DEF Calloc, TypeOK, tapVars, countVars, readVars
<1>6. ASSUME NEW t \in Threads, Realloc(t) PROVE TypeOK'
  <2>1. PICK a \in owned, b \in Blocks, n \in Sizes :
          /\ heap' = [heap EXCEPT ![a] = 0, ![b] = n]
          /\ owned' = (owned \ {a}) \cup {b}
          /\ counted' = counted \ {a}
          /\ spoilt' = spoilt \cup Early(b) \cup ({a} \cap counted)
    BY <1>6 DEF Realloc
  <2>2. a \in Blocks
    BY DEF TypeOK
  <2>3. /\ heap' \in [Blocks -> Sizes \cup {0}]
        /\ spoilt' \subseteq Blocks \cup {NULL}
    BY <2>1, <2>2 DEF TypeOK, Early
  <2>4. /\ owned' \subseteq {h \in Blocks : heap'[h] # 0}
        /\ counted' \subseteq {h \in Blocks : heap'[h] # 0}
    BY <1>0, <2>1, <2>2 DEF TypeOK
  <2> QED
    BY <1>6, <2>3, <2>4 DEF Realloc, TypeOK, tapVars, countVars, readVars
<1> QED
  BY <1>1, <1>2, <1>3, <1>5, <1>6
-----------------------------------------------------------------------------
(* The rest of the invariant. *)
Others == Tracks /\ Held /\ Inserting /\ Dropped /\ BeforeInit

LEMMA MallocKeepsOthers ==
  ASSUME IInv, TypeOK', NEW t \in Threads, MallocStep(t)
  PROVE  Others'
<1> USE DEF IInv, Others
<1>0. \A n \in Sizes : n \in Nat /\ n # 0
  BY ScaleyAssumption
<1>1. CASE CallMalloc(t)
  <2>1. Tracks'
    <3> SUFFICES ASSUME NEW b \in (Blocks \cup {NULL}) \ spoilt',
                        \A u \in Threads : ~Drops(u, b)'
                 PROVE  Entry(b)'
      BY DEF Tracks
    <3> QED
      BY <1>1 DEF Tracks, CallMalloc, Goes, Early, Entry, Drops, TypeOK, tapVars
  <2>2. Held'
    BY <1>1, TypesOfBlocks DEF CallMalloc, Goes, Held, Holding, BlockTypes
  <2>3. Inserting'
    BY <1>1, TypesOfBlocks DEF CallMalloc, Goes, Held, Holding, Inserting, BlockTypes
  <2>4. Dropped'
    <3> SUFFICES ASSUME NEW b \in Blocks \ spoilt', NEW u \in Threads, Drops(u, b)'
                 PROVE  heap'[b] = 0
      BY DEF Dropped
    <3>1. u # t /\ Drops(u, b) /\ b \notin spoilt
      BY <1>1 DEF CallMalloc, Goes, Drops, TypeOK
    <3>2. heap[b] = 0 /\ Dropping(b) # {}
      BY <3>1 DEF Dropped, Drops, Dropping
    <3> QED
      BY <1>1, <3>2 DEF CallMalloc, Early, TypeOK
  <2>5. BeforeInit'
    BY <1>1 DEF CallMalloc, BeforeInit, tapVars
  <2> QED BY <2>1, <2>2, <2>3, <2>4, <2>5
<1>2. CASE InsertSize(t)
  <2>1. Tracks'
    <3> SUFFICES ASSUME NEW b \in (Blocks \cup {NULL}) \ spoilt',
                        \A u \in Threads : ~Drops(u, b)'
                 PROVE  Entry(b)'
      BY DEF Tracks
    <3> QED
      BY <1>2 DEF Tracks, InsertSize, Goes, Inserting, Entry, Drops, TypeOK
  <2>2. Held'
    BY <1>2 DEF InsertSize, Goes, Held, Holding, TypeOK
  <2>3. Inserting'
    BY <1>2 DEF InsertSize, Goes, Held, Holding, Inserting, TypeOK
  <2>4. Dropped'
    BY <1>2 DEF InsertSize, Goes, Dropped, Drops, TypeOK
  <2>5. BeforeInit'
    BY <1>2 DEF InsertSize, BeforeInit
  <2> QED BY <2>1, <2>2, <2>3, <2>4, <2>5
<1>3. CASE MallocUncounted(t)
  <2>1. Tracks'
    <3> SUFFICES ASSUME NEW b \in (Blocks \cup {NULL}) \ spoilt',
                        \A u \in Threads : ~Drops(u, b)'
                 PROVE  Entry(b)'
      BY DEF Tracks
    <3> QED
      BY <1>3 DEF Tracks, MallocUncounted, Returns, Goes, Entry, Drops, TypeOK, tapVars
  <2>2. Held'
    BY <1>3 DEF MallocUncounted, Keeps, Returns, Goes, Held, Holding, TypeOK
  <2>3. Inserting'
    BY <1>3 DEF MallocUncounted, Returns, Goes, Inserting, TypeOK
  <2>4. Dropped'
    BY <1>3 DEF MallocUncounted, Returns, Goes, Dropped, Drops, TypeOK
  <2>5. BeforeInit'
    BY <1>3 DEF MallocUncounted, BeforeInit, tapVars
  <2> QED BY <2>1, <2>2, <2>3, <2>4, <2>5
<1>4. CASE AddAllocated(t)
  <2>1. Tracks'
    <3> SUFFICES ASSUME NEW b \in (Blocks \cup {NULL}) \ spoilt',
                        \A u \in Threads : ~Drops(u, b)'
                 PROVE  Entry(b)'
      BY DEF Tracks
    <3> QED
      BY <1>4 DEF Tracks, AddAllocated, Store, Goes, Entry, Drops, TypeOK, tapVars
  <2>2. Held'
    BY <1>4 DEF AddAllocated, Store, Goes, Held, Holding, TypeOK
  <2>3. Inserting'
    BY <1>4 DEF AddAllocated, Store, Goes, Inserting, TypeOK
  <2>4. Dropped'
    BY <1>4 DEF AddAllocated, Store, Goes, Dropped, Drops, TypeOK
  <2>5. BeforeInit'
    BY <1>4 DEF AddAllocated, Store, BeforeInit, tapVars
  <2> QED BY <2>1, <2>2, <2>3, <2>4, <2>5
<1>5. CASE AddSinceMalloc(t)
  <2>1. Tracks'
    <3> SUFFICES ASSUME NEW b \in (Blocks \cup {NULL}) \ spoilt',
                        \A u \in Threads : ~Drops(u, b)'
                 PROVE  Entry(b)'
      BY DEF Tracks
    <3> QED
      BY <1>5 DEF Tracks, AddSinceMalloc, Store, Returns, Goes, Entry, Drops, TypeOK, tapVars
  <2>2. Held'
    BY <1>5 DEF AddSinceMalloc, Store, Keeps, Returns, Goes, Held, Holding, TypeOK
  <2>3. Inserting'
    BY <1>5 DEF AddSinceMalloc, Store, Returns, Goes, Inserting, TypeOK
  <2>4. Dropped'
    BY <1>5 DEF AddSinceMalloc, Store, Returns, Goes, Dropped, Drops, TypeOK
  <2>5. BeforeInit'
    BY <1>5 DEF AddSinceMalloc, Store, BeforeInit, tapVars
  <2> QED BY <2>1, <2>2, <2>3, <2>4, <2>5
<1> QED
  BY <1>1, <1>2, <1>3, <1>4, <1>5 DEF MallocStep

LEMMA FreeKeepsOthers ==
  ASSUME IInv, TypeOK', NEW t \in Threads, FreeStep(t)
  PROVE  Others'
<1> USE DEF IInv, Others
<1>1. CASE CallFree(t)
  <2>1. Tracks'
    <3> SUFFICES ASSUME NEW b \in (Blocks \cup {NULL}) \ spoilt',
                        \A u \in Threads : ~Drops(u, b)'
                 PROVE  Entry(b)'
      BY DEF Tracks
    <3>1. PICK a \in owned \cup {NULL} :
            \/ UNCHANGED <<heap, counted, pc, ptr>>
            \/ /\ Goes(t, "out", "lookup")
               /\ heap' = [h \in Blocks |-> IF h = a THEN 0 ELSE heap[h]]
               /\ counted' = counted \ {a}
               /\ ptr' = [ptr EXCEPT ![t] = a]
      BY <1>1 DEF CallFree
    <3>2. UNCHANGED <<blockSizes, spoilt>>
      BY <1>1 DEF CallFree, tapVars
    <3>3. \A u \in Threads : ~Drops(u, b)
      BY <3>1 DEF Goes, Drops, TypeOK
    <3>4. Entry(b)
      BY <3>2, <3>3 DEF Tracks
    <3>5. UNCHANGED <<heap, counted>> \/ b # a
      BY <3>1 DEF Goes, Drops, TypeOK
    <3> QED
      BY <3>1, <3>2, <3>4, <3>5 DEF Entry, TypeOK
  <2>2. Held'
    <3> SUFFICES ASSUME NEW u \in Threads, Holding(u)'
                 PROVE  /\ ptr'[u] \notin owned'
                        /\ heap'[ptr'[u]] # 0
                        /\ \A v \in Threads \ {u} : Holding(v)' => ptr'[v] # ptr'[u]
      BY DEF Held
    <3>1. \A v \in Threads : Holding(v)' => Holding(v) /\ ptr'[v] = ptr[v]
      BY <1>1 DEF CallFree, Goes, Holding, TypeOK
    <3>2. ptr[u] \in Blocks /\ ptr[u] \notin owned /\ heap[ptr[u]] # 0
      BY <3>1 DEF Held, Holding, TypeOK
    <3>3. ptr[u] \notin owned' /\ heap'[ptr[u]] = heap[ptr[u]]
      BY <1>1, <3>1, <3>2 DEF CallFree, Holding
    <3> QED
      BY <3>1, <3>2, <3>3 DEF Held
  <2>3. Inserting'
    BY <1>1, TypesOfBlocks DEF CallFree, Goes, Held, Holding, Inserting, BlockTypes
  <2>4. Dropped'
    <3> SUFFICES ASSUME NEW b \in Blocks \ spoilt', NEW u \in Threads, Drops(u, b)'
                 PROVE  heap'[b] = 0
      BY DEF Dropped
    <3>1. CASE Drops(u, b)
      <4>1. heap[b] = 0
        BY <1>1, <3>1 DEF CallFree, Dropped
      <4> QED
        BY <1>1, <4>1 DEF CallFree
    <3>2. CASE ~Drops(u, b)
      BY <1>1, <3>2 DEF CallFree, Goes, Drops, TypeOK
    <3> QED
      BY <3>1, <3>2
  <2>5. BeforeInit'
    BY <1>1 DEF CallFree, BeforeInit, tapVars
  <2> QED BY <2>1, <2>2, <2>3, <2>4, <2>5
<1>2. CASE FreeUncounted(t)
  <2>1. Tracks'
    <3> SUFFICES ASSUME NEW b \in (Blocks \cup {NULL}) \ spoilt',
                        \A u \in Threads : ~Drops(u, b)'
                 PROVE  Entry(b)'
      BY DEF Tracks
    <3> QED
      BY <1>2 DEF Tracks, FreeUncounted, Returns, Goes, BeforeInit, Entry, Drops, TypeOK, tapVars, heapVars
  <2>2. Held'
    BY <1>2 DEF FreeUncounted, Returns, Goes, Held, Holding, TypeOK, heapVars
  <2>3. Inserting'
    BY <1>2 DEF FreeUncounted, Returns, Goes, Inserting, TypeOK, heapVars
  <2>4. Dropped'
    BY <1>2 DEF FreeUncounted, Returns, Goes, Dropped, Drops, TypeOK, heapVars
  <2>5. BeforeInit'
    BY <1>2 DEF FreeUncounted, BeforeInit, tapVars, heapVars
  <2> QED BY <2>1, <2>2, <2>3, <2>4, <2>5
<1>3. CASE LookUpSize(t)
  <2>1. Tracks'
    <3> SUFFICES ASSUME NEW b \in (Blocks \cup {NULL}) \ spoilt',
                        \A u \in Threads : ~Drops(u, b)'
                 PROVE  Entry(b)'
      BY DEF Tracks
    <3> QED
      BY <1>3 DEF Tracks, LookUpSize, Goes, Dropped, Entry, Drops, TypeOK, tapVars, heapVars
  <2>2. Held'
    BY <1>3 DEF LookUpSize, Goes, Held, Holding, TypeOK, heapVars
  <2>3. Inserting'
    BY <1>3 DEF LookUpSize, Goes, Inserting, TypeOK, heapVars
  <2>4. Dropped'
    BY <1>3 DEF LookUpSize, Goes, Dropped, Drops, TypeOK, heapVars
  <2>5. BeforeInit'
    BY <1>3 DEF LookUpSize, BeforeInit, tapVars, heapVars
  <2> QED BY <2>1, <2>2, <2>3, <2>4, <2>5
<1>4. CASE AddFreed(t)
  <2>1. Tracks'
    <3> SUFFICES ASSUME NEW b \in (Blocks \cup {NULL}) \ spoilt',
                        \A u \in Threads : ~Drops(u, b)'
                 PROVE  Entry(b)'
      BY DEF Tracks
    <3> QED
      BY <1>4 DEF Tracks, AddFreed, Store, Goes, Entry, Drops, TypeOK, tapVars
  <2>2. Held'
    BY <1>4 DEF AddFreed, Store, Goes, Held, Holding, TypeOK
  <2>3. Inserting'
    BY <1>4 DEF AddFreed, Store, Goes, Inserting, TypeOK
  <2>4. Dropped'
    BY <1>4 DEF AddFreed, Store, Goes, Dropped, Drops, TypeOK
  <2>5. BeforeInit'
    BY <1>4 DEF AddFreed, Store, BeforeInit, tapVars
  <2> QED BY <2>1, <2>2, <2>3, <2>4, <2>5
<1>5. CASE RemoveSize(t)
  <2>1. Tracks'
    <3> SUFFICES ASSUME NEW b \in (Blocks \cup {NULL}) \ spoilt',
                        \A u \in Threads : ~Drops(u, b)'
                 PROVE  Entry(b)'
      BY DEF Tracks
    <3> QED
      BY <1>5 DEF Tracks, RemoveSize, Goes, Dropped, Entry, Drops, TypeOK, heapVars
  <2>2. Held'
    BY <1>5 DEF RemoveSize, Goes, Held, Holding, TypeOK, heapVars
  <2>3. Inserting'
    BY <1>5 DEF RemoveSize, Goes, Inserting, TypeOK, heapVars
  <2>4. Dropped'
    BY <1>5 DEF RemoveSize, Goes, Dropped, Drops, TypeOK, heapVars
  <2>5. BeforeInit'
    BY <1>5 DEF RemoveSize, BeforeInit, heapVars
  <2> QED BY <2>1, <2>2, <2>3, <2>4, <2>5
<1>6. CASE SubtractSinceFree(t)
  <2>1. Tracks'
    <3> SUFFICES ASSUME NEW b \in (Blocks \cup {NULL}) \ spoilt',
                        \A u \in Threads : ~Drops(u, b)'
                 PROVE  Entry(b)'
      BY DEF Tracks
    <3> QED
      BY <1>6 DEF Tracks, SubtractSinceFree, Store, Returns, Goes, Entry, Drops, TypeOK, tapVars
  <2>2. Held'
    BY <1>6 DEF SubtractSinceFree, Store, Returns, Goes, Held, Holding, TypeOK
  <2>3. Inserting'
    BY <1>6 DEF SubtractSinceFree, Store, Returns, Goes, Inserting, TypeOK
  <2>4. Dropped'
    BY <1>6 DEF SubtractSinceFree, Store, Returns, Goes, Dropped, Drops, TypeOK
  <2>5. BeforeInit'
    BY <1>6 DEF SubtractSinceFree, Store, BeforeInit, tapVars
  <2> QED BY <2>1, <2>2, <2>3, <2>4, <2>5
<1> QED
  BY <1>1, <1>2, <1>3, <1>4, <1>5, <1>6 DEF FreeStep

LEMMA OtherStepsKeepOthers ==
  ASSUME IInv, TypeOK',
         \/ RegisterRead \/ RegisterFree \/ Initialised
         \/ \E t \in Threads : Load(t) \/ ReadStep(t) \/ Calloc(t) \/ Realloc(t)
         \/ UNCHANGED vars
  PROVE  Others'
<1> USE DEF IInv, Others
<1>0. \A n \in Sizes : n \in Nat /\ n # 0
  BY ScaleyAssumption
<1>1. CASE RegisterRead \/ RegisterFree \/ Initialised \/ UNCHANGED vars
  <2>1. UNCHANGED <<blockSizes, heapVars, pc, ptr, sz>> /\ (inited => inited')
    BY <1>1 DEF RegisterRead, RegisterFree, Initialised, vars, tapVars
  <2>2. Tracks'
    BY <2>1 DEF Tracks, Entry, Drops, heapVars
  <2>3. Held' /\ Inserting'
    BY <2>1 DEF Held, Holding, Inserting, heapVars
  <2>4. Dropped' /\ BeforeInit'
    BY <2>1 DEF Dropped, Drops, BeforeInit, heapVars
  <2> QED BY <2>2, <2>3, <2>4
<1>2. ASSUME NEW t \in Threads, Load(t) PROVE Others'
  <2>1. UNCHANGED <<blockSizes, heapVars, pc, ptr, sz, inited>>
    BY <1>2 DEF Load, tapVars
  <2>2. Tracks'
    BY <2>1 DEF Tracks, Entry, Drops, heapVars
  <2>3. Held' /\ Inserting'
    BY <2>1 DEF Held, Holding, Inserting, heapVars
  <2>4. Dropped' /\ BeforeInit'
    BY <2>1 DEF Dropped, Drops, BeforeInit, heapVars
  <2> QED BY <2>2, <2>3, <2>4
<1>3. ASSUME NEW t \in Threads, ReadStep(t) PROVE Others'
  <2>1. /\ UNCHANGED <<blockSizes, heapVars, ptr, sz, inited>>
        /\ pc[t] \in {"out", "shift", "take", "readReset", "readCall"}
        /\ \/ pc' = pc
           \/ \E q \in {"shift", "take", "readReset", "readCall", "out", "crashed"} :
                pc' = [pc EXCEPT ![t] = q]
    BY <1>3 DEF ReadStep, CallRead, LoadEntry, StoreEntry, TakeSince, ResetSince,
                CallOrigRead, Goes, tapVars
  <2>2. Tracks'
    BY <2>1 DEF Tracks, Entry, Drops, heapVars, TypeOK
  <2>3. Held' /\ Inserting'
    BY <2>1 DEF Held, Holding, Inserting, heapVars, TypeOK
  <2>4. Dropped' /\ BeforeInit'
    BY <2>1 DEF Dropped, Drops, BeforeInit, heapVars, TypeOK
  <2> QED BY <2>2, <2>3, <2>4
<1>4. ASSUME NEW t \in Threads, Calloc(t) PROVE Others'
  <2>1. PICK b \in Blocks, n \in Sizes :
          /\ heap[b] = 0
          /\ heap' = [heap EXCEPT ![b] = n]
          /\ owned' = owned \cup {b}
          /\ spoilt' = spoilt \cup Early(b)
    BY <1>4 DEF Calloc
  <2>2. UNCHANGED <<blockSizes, counted, pc, ptr, sz, inited>>
    BY <1>4 DEF Calloc, tapVars
  <2>3. Tracks'
    BY <2>1, <2>2 DEF Tracks, Entry, Drops, TypeOK
  <2>4. Held'
    BY <2>1, <2>2, TypesOfBlocks DEF Held, Holding, BlockTypes
  <2>5. Inserting'
    BY <2>1, <2>2, TypesOfBlocks DEF Held, Holding, Inserting, BlockTypes
  <2>6. Dropped'
    BY <2>1, <2>2 DEF Dropped, Drops, Early, Dropping, TypeOK
  <2>7. BeforeInit'
    BY <2>2 DEF BeforeInit
  <2> QED BY <2>3, <2>4, <2>5, <2>6, <2>7
<1>5. ASSUME NEW t \in Threads, Realloc(t) PROVE Others'
  <2>1. PICK a \in owned, b \in Blocks, n \in Sizes :
          /\ b = a \/ heap[b] = 0
          /\ heap' = [heap EXCEPT ![a] = 0, ![b] = n]
          /\ owned' = (owned \ {a}) \cup {b}
          /\ counted' = counted \ {a}
          /\ spoilt' = spoilt \cup Early(b) \cup ({a} \cap counted)
    BY <1>5 DEF Realloc
  <2>2. UNCHANGED <<blockSizes, pc, ptr, sz, inited>>
    BY <1>5 DEF Realloc, tapVars
  <2>3. a \in Blocks /\ heap[a] # 0
    BY DEF TypeOK
  <2>4. Tracks'
    BY <2>1, <2>2, <2>3 DEF Tracks, Entry, Drops, TypeOK
  <2>5. Held' /\ Inserting'
    BY <2>1, <2>2, <2>3, TypesOfBlocks DEF Held, Holding, Inserting, BlockTypes
  <2>6. Dropped'
    BY <2>1, <2>2, <2>3 DEF Dropped, Drops, Early, Dropping, TypeOK
  <2>7. BeforeInit'
    BY <2>1, <2>2 DEF BeforeInit
  <2> QED BY <2>4, <2>5, <2>6, <2>7
<1> QED
  BY <1>1, <1>2, <1>3, <1>4, <1>5

-----------------------------------------------------------------------------
LEMMA StepKeepsIInv == IInv /\ [Next]_vars => IInv'
<1> SUFFICES ASSUME IInv, [Next]_vars PROVE IInv'
  OBVIOUS
<1>1. TypeOK'
  <2>1. CASE UNCHANGED vars
    BY <2>1 DEF IInv, TypeOK, vars, tapVars, countVars, readVars, heapVars
  <2>2. CASE Next
    BY <2>2, MallocKeepsTypes, FreeKeepsTypes, OtherStepsKeepTypes DEF Next, IInv
  <2> QED
    BY <2>1, <2>2
<1>2. Others'
  BY <1>1, MallocKeepsOthers, FreeKeepsOthers, OtherStepsKeepOthers DEF Next
<1> QED
  BY <1>1, <1>2 DEF IInv, Others

(* Blocks inside malloc belong to one thread only, sizes on their way out  *)
(* of the table belong to blocks given back, and every other entry is      *)
(* right.                                                                  *)
THEOREM Invariant == Spec => []IInv
BY InitIInv, StepKeepsIInv, PTL DEF Spec

(* Every variable keeps its type, and the program has only blocks in use.  *)
THEOREM TypeCorrect == Spec => []TypeOK
<1>1. IInv => TypeOK
  BY DEF IInv
<1> QED
  BY <1>1, Invariant, PTL

(* Any number of threads may allocate and free side by side: the table has *)
(* the size of every counted block and nothing else, save for the          *)
(* addresses named in the property (Scaley.c:33-40, 59-61).                *)
THEOREM TableTracksTheHeap == Spec => []TableTracksHeap
<1>1. IInv => TableTracksHeap
  BY TracksTheHeap DEF IInv
<1> QED
  BY <1>1, Invariant, PTL

-----------------------------------------------------------------------------
(* Sums. *)

(* A set of numbers has a least one.                                       *)
LEMMA Least ==
  ASSUME NEW I, I \subseteq Nat, I # {}
  PROVE  \E k \in I : \A j \in I : k <= j
<1>1. PICK k \in I : \A j \in I : <<j, k>> \notin OpToRel(<, Nat)
  BY NatLessThanWellFounded, WFMin
<1>2. \A j \in I : ~(j < k)
  BY <1>1 DEF OpToRel
<1> QED
  BY <1>2

(* Induction, one number at a time: P is a set of numbers.                 *)
LEMMA OneByOne ==
  ASSUME NEW N \in Nat, NEW P, 0 \in P, \A n \in 1 .. N : n - 1 \in P => n \in P
  PROVE  \A n \in 0 .. N : n \in P
<1> DEFINE Bad == {n \in 0 .. N : n \notin P}
<1> SUFFICES ASSUME Bad # {} PROVE FALSE
  OBVIOUS
<1>1. Bad \subseteq Nat
  OBVIOUS
<1>2. PICK n \in Bad : \A j \in Bad : n <= j
  <2> HIDE DEF Bad
  <2> QED
    BY <1>1, Least
<1>3. n \in 1 .. N
  OBVIOUS
<1>4. n - 1 \in P
  <2> SUFFICES ASSUME n - 1 \notin P PROVE FALSE
    OBVIOUS
  <2>1. n - 1 \in Bad /\ ~(n <= n - 1)
    BY <1>3
  <2> QED
    BY <1>2, <2>1
<1> QED
  BY <1>3, <1>4

(* Induction over the subsets of a finite set: P is a set of subsets.      *)
LEMMA SubsetInduction ==
  ASSUME NEW S, IsFiniteSet(S), NEW P,
         \A s \in SUBSET S : (\A t \in (SUBSET s) \ {s} : t \in P) => s \in P
  PROVE  \A s \in SUBSET S : s \in P
<1> DEFINE Bad == {s \in SUBSET S : s \notin P}
<1> SUFFICES ASSUME Bad # {} PROVE FALSE
  OBVIOUS
<1>1. IsWellFoundedOn(StrictSubsetOrdering(S), SUBSET S)
  <2>1. IsWellFoundedOn(StrictSubsetOrdering(S), FiniteSubsetsOf(S))
    BY FS_StrictSubsetOrderingWellFounded
  <2>2. FiniteSubsetsOf(S) = SUBSET S
    BY FS_FiniteSubsetsOfFinite
  <2> QED
    BY <2>1, <2>2
<1>2. PICK s \in Bad : \A t \in Bad : <<t, s>> \notin StrictSubsetOrdering(S)
  <2>1. Bad \subseteq SUBSET S
    OBVIOUS
  <2> HIDE DEF Bad
  <2> QED
    BY <1>1, <2>1, WFMin
<1>3. ASSUME NEW t \in (SUBSET s) \ {s} PROVE t \in P
  <2>1. <<t, s>> \in StrictSubsetOrdering(S) /\ t \in SUBSET S
    BY DEF StrictSubsetOrdering
  <2> QED
    BY <1>2, <2>1
<1> QED
  BY <1>3

Any(s) == CHOOSE x \in s : TRUE

(* The sum of f over s, one element first.                                 *)
Term(g, f, s) == IF s = {} THEN 0 ELSE f[Any(s)] + g[s \ {Any(s)}]
IsSum(g, f, S) == g = [s \in SUBSET S |-> Term(g, f, s)]

Sums(f) == CHOOSE g : IsSum(g, f, DOMAIN f)

LEMMA TotalIsSum == ASSUME NEW f PROVE Total(f) = Sums(f)[DOMAIN f]
BY DEF Total, MapThenSumSet, MapThenFoldSet, Sums, IsSum, Term, Any

LEMMA SumExists ==
  ASSUME NEW S, IsFiniteSet(S), NEW f
  PROVE  \E g : IsSum(g, f, S)
<1> DEFINE Up(g, n) == \A s \in SUBSET S : Cardinality(s) <= n => g[s] = Term(g, f, s)
           P == {n \in 0 .. Cardinality(S) : \E g : Up(g, n)}
<1>1. /\ Cardinality(S) \in Nat
      /\ \A s \in SUBSET S : IsFiniteSet(s) /\ Cardinality(s) \in Nat /\ Cardinality(s) <= Cardinality(S)
  BY FS_Subset, FS_CardinalityType
<1>2. ASSUME NEW s \in SUBSET S, s # {}
      PROVE  /\ s \ {Any(s)} \in SUBSET S
             /\ Cardinality(s \ {Any(s)}) = Cardinality(s) - 1
  <2>1. Any(s) \in s
    BY <1>2 DEF Any
  <2> QED
    BY <1>1, <2>1, FS_RemoveElement
<1>3. 0 \in P
  <2> DEFINE g == [s \in SUBSET S |-> 0]
  <2>1. ASSUME NEW s \in SUBSET S, Cardinality(s) <= 0
        PROVE  g[s] = Term(g, f, s)
    <3>1. s = {}
      BY <1>1, <2>1, FS_EmptySet
    <3> QED
      BY <3>1 DEF Term
  <2>2. Up(g, 0)
    BY <2>1
  <2>3. 0 \in 0 .. Cardinality(S)
    BY <1>1
  <2> HIDE DEF g, Up
  <2> QED
    BY <2>2, <2>3
<1>4. ASSUME NEW n \in 1 .. Cardinality(S), n - 1 \in P
      PROVE  n \in P
  <2>1. PICK g : Up(g, n - 1)
    BY <1>4
  <2> DEFINE h == [s \in SUBSET S |-> IF Cardinality(s) <= n - 1 THEN g[s] ELSE Term(g, f, s)]
  <2>2. ASSUME NEW s \in SUBSET S, Cardinality(s) <= n
        PROVE  h[s] = Term(h, f, s)
    <3>1. h[s] = Term(g, f, s)
      BY <2>1
    <3>2. CASE s = {}
      BY <3>1, <3>2 DEF Term
    <3>3. CASE s # {}
      <4> DEFINE t == s \ {Any(s)}
      <4>1. t \in SUBSET S /\ Cardinality(t) <= n - 1
        BY <1>1, <1>2, <2>2, <3>3
      <4>2. h[t] = g[t]
        BY <4>1
      <4> HIDE DEF h
      <4> QED
        BY <3>1, <3>3, <4>2 DEF Term
    <3> QED
      BY <3>2, <3>3
  <2>3. Up(h, n)
    BY <2>2
  <2>4. n \in 0 .. Cardinality(S)
    BY <1>1
  <2> HIDE DEF h, Up
  <2> QED
    BY <2>3, <2>4
<1>5. Cardinality(S) \in P
  <2> HIDE DEF P
  <2>1. \A n \in 0 .. Cardinality(S) : n \in P
    BY <1>1, <1>3, <1>4, OneByOne
  <2> QED
    BY <1>1, <2>1
<1>6. PICK g : Up(g, Cardinality(S))
  BY <1>5
<1> DEFINE h == [s \in SUBSET S |-> g[s]]
<1>7. ASSUME NEW s \in SUBSET S PROVE h[s] = Term(h, f, s)
  <2>1. h[s] = Term(g, f, s)
    BY <1>1, <1>6
  <2>2. s # {} => h[s \ {Any(s)}] = g[s \ {Any(s)}]
    BY <1>2
  <2> HIDE DEF h
  <2> QED
    BY <2>1, <2>2 DEF Term
<1>8. h = [s \in SUBSET S |-> h[s]]
  OBVIOUS
<1>9. IsSum(h, f, S)
  <2> HIDE DEF h
  <2> QED
    BY <1>7, <1>8 DEF IsSum
<1> QED
  BY <1>9

(* What the sums of f are, and that any of the elements may be taken first. *)
Summed(f, S) ==
  /\ Total(f) = Sums(f)[S]
  /\ Sums(f)[{}] = 0
  /\ \A s \in SUBSET S :
       /\ Sums(f)[s] \in Int
       /\ s # {} => Sums(f)[s] = f[Any(s)] + Sums(f)[s \ {Any(s)}]

AnyFirst(f, S) ==
  \A s \in SUBSET S : \A a \in s : Sums(f)[s] = f[a] + Sums(f)[s \ {a}]

LEMMA SumsDef ==
  ASSUME NEW S, IsFiniteSet(S), NEW f \in [S -> Int]
  PROVE  Summed(f, S)
<1> DEFINE g == Sums(f)
<1>1. DOMAIN f = S
  OBVIOUS
<1>2. IsSum(g, f, S)
  BY <1>1, SumExists DEF Sums
<1> HIDE DEF g
<1>3. \A s \in SUBSET S : g[s] = Term(g, f, s)
  BY <1>2 DEF IsSum
<1>4. g[{}] = 0 /\ \A s \in SUBSET S : s # {} => g[s] = f[Any(s)] + g[s \ {Any(s)}]
  BY <1>3 DEF Term
<1> DEFINE P == {s \in SUBSET S : g[s] \in Int}
<1>5. ASSUME NEW s \in SUBSET S, \A t \in (SUBSET s) \ {s} : t \in P
      PROVE  s \in P
  <2>1. CASE s = {}
    BY <1>4, <2>1
  <2>2. CASE s # {}
    <3>1. Any(s) \in s
      BY <2>2 DEF Any
    <3>2. g[s \ {Any(s)}] \in Int /\ f[Any(s)] \in Int
      BY <1>5, <3>1
    <3>3. g[s] = f[Any(s)] + g[s \ {Any(s)}]
      BY <1>4, <2>2
    <3> QED
      BY <3>2, <3>3
  <2> QED
    BY <2>1, <2>2
<1>6. \A s \in SUBSET S : s \in P
  <2> HIDE DEF P
  <2> QED
    BY <1>5, SubsetInduction
<1>7. Total(f) = g[S]
  BY <1>1, TotalIsSum DEF g
<1> QED
  BY <1>4, <1>6, <1>7 DEF g, Summed

LEMMA SumAny ==
  ASSUME NEW S, IsFiniteSet(S), NEW f \in [S -> Int]
  PROVE  AnyFirst(f, S)
<1> DEFINE g == Sums(f)
           P == {s \in SUBSET S : \A a \in s : g[s] = f[a] + g[s \ {a}]}
<1>1. \A s \in SUBSET S :
        /\ g[s] \in Int
        /\ s # {} => g[s] = f[Any(s)] + g[s \ {Any(s)}]
  BY SumsDef DEF Summed
<1> HIDE DEF g
<1>2. ASSUME NEW s \in SUBSET S, \A t \in (SUBSET s) \ {s} : t \in P
      PROVE  s \in P
  <2> SUFFICES ASSUME NEW a \in s PROVE g[s] = f[a] + g[s \ {a}]
    OBVIOUS
  <2> DEFINE x == Any(s)
  <2>1. x \in s
    BY DEF Any
  <2>2. g[s] = f[x] + g[s \ {x}]
    BY <1>1
  <2> HIDE DEF x
  <2>3. CASE a = x
    BY <2>2, <2>3
  <2>4. CASE a # x
    <3>1. s \ {x} \in P /\ a \in s \ {x} /\ s \ {a} \in P /\ x \in s \ {a}
      BY <1>2, <2>1, <2>4
    <3>2. /\ g[s \ {x}] = f[a] + g[(s \ {x}) \ {a}]
          /\ g[s \ {a}] = f[x] + g[(s \ {a}) \ {x}]
      BY <3>1
    <3>3. (s \ {a}) \ {x} = (s \ {x}) \ {a}
      OBVIOUS
    <3>4. f[a] \in Int /\ f[x] \in Int /\ g[(s \ {x}) \ {a}] \in Int
      <4>1. (s \ {x}) \ {a} \in SUBSET S
        OBVIOUS
      <4> QED
        BY <1>1, <2>1, <4>1
    <3> DEFINE r == g[(s \ {x}) \ {a}]
               fa == f[a]
               fx == f[x]
    <3>5. g[s] = fx + (fa + r) /\ g[s \ {a}] = fx + r
      BY <2>2, <3>2, <3>3
    <3>6. fa \in Int /\ fx \in Int /\ r \in Int
      BY <3>4
    <3> HIDE DEF r, fa, fx
    <3>7. g[s] = fa + g[s \ {a}]
      BY <3>5, <3>6
    <3> QED
      BY <3>7 DEF fa
  <2> QED
    BY <2>3, <2>4
<1>3. \A s \in SUBSET S : s \in P
  <2> HIDE DEF P
  <2> QED
    BY <1>2, SubsetInduction
<1> QED
  BY <1>3 DEF g, AnyFirst

(* What a change of one entry changes.                                     *)
LEMMA SumChange ==
  ASSUME NEW S, IsFiniteSet(S), NEW f \in [S -> Int], NEW h \in [S -> Int], NEW a \in S,
         \A x \in S \ {a} : h[x] = f[x]
  PROVE  /\ Total(f) \in Int /\ Total(h) \in Int
         /\ Total(h) = Total(f) - f[a] + h[a]
<1> DEFINE F == Sums(f)
           H == Sums(h)
           P == {s \in SUBSET S : a \notin s => H[s] = F[s]}
<1>1. /\ Total(f) = F[S] /\ Total(h) = H[S] /\ F[{}] = 0 /\ H[{}] = 0
      /\ \A s \in SUBSET S :
           /\ F[s] \in Int /\ H[s] \in Int
           /\ s # {} => /\ F[s] = f[Any(s)] + F[s \ {Any(s)}]
                        /\ H[s] = h[Any(s)] + H[s \ {Any(s)}]
  <2>1. Summed(f, S) /\ Summed(h, S)
    BY SumsDef
  <2> QED
    BY <2>1 DEF Summed
<1>2. F[S] = f[a] + F[S \ {a}] /\ H[S] = h[a] + H[S \ {a}]
  <2>1. AnyFirst(f, S) /\ AnyFirst(h, S)
    BY SumAny
  <2> QED
    BY <2>1 DEF AnyFirst
<1> HIDE DEF F, H
<1>3. ASSUME NEW s \in SUBSET S, \A t \in (SUBSET s) \ {s} : t \in P
      PROVE  s \in P
  <2>1. CASE s = {}
    BY <1>1, <2>1
  <2>2. CASE s # {} /\ a \notin s
    <3>1. Any(s) \in s
      BY <2>2 DEF Any
    <3>2. s \ {Any(s)} \in P /\ a \notin s \ {Any(s)} /\ h[Any(s)] = f[Any(s)]
      BY <1>3, <2>2, <3>1
    <3> QED
      BY <1>1, <2>2, <3>2
  <2>3. CASE a \in s
    BY <2>3
  <2> QED
    BY <2>1, <2>2, <2>3
<1>4. \A s \in SUBSET S : s \in P
  <2> HIDE DEF P
  <2> QED
    BY <1>3, SubsetInduction
<1>5. S \ {a} \in SUBSET S /\ H[S \ {a}] = F[S \ {a}]
  BY <1>4
<1>6. F[S \ {a}] \in Int /\ f[a] \in Int /\ h[a] \in Int /\ F[S] \in Int /\ H[S] \in Int
  BY <1>1, <1>5
<1> QED
  BY <1>1, <1>2, <1>5, <1>6

LEMMA SumOfZeros ==
  ASSUME NEW S, IsFiniteSet(S), NEW f \in [S -> Int], \A x \in S : f[x] = 0
  PROVE  Total(f) = 0
<1> DEFINE F == Sums(f)
           P == {s \in SUBSET S : F[s] = 0}
<1>1. /\ Total(f) = F[S] /\ F[{}] = 0
      /\ \A s \in SUBSET S : s # {} => F[s] = f[Any(s)] + F[s \ {Any(s)}]
  BY SumsDef DEF Summed
<1> HIDE DEF F
<1>2. ASSUME NEW s \in SUBSET S, \A t \in (SUBSET s) \ {s} : t \in P
      PROVE  s \in P
  <2>1. CASE s = {}
    BY <1>1, <2>1
  <2>2. CASE s # {}
    <3>1. Any(s) \in s
      BY <2>2 DEF Any
    <3>2. s \ {Any(s)} \in P /\ f[Any(s)] = 0
      BY <1>2, <2>2, <3>1
    <3> QED
      BY <1>1, <2>2, <3>2
  <2> QED
    BY <2>1, <2>2
<1>3. \A s \in SUBSET S : s \in P
  <2> HIDE DEF P
  <2> QED
    BY <1>2, SubsetInduction
<1> QED
  BY <1>1, <1>3

-----------------------------------------------------------------------------
(* The accounts while the threads are in the wrappers. *)

(* Updating and Shifting, a thread at a time: nobody shares a counter or   *)
(* the histogram, and what a thread has loaded is still the value of the   *)
(* counter or the entry.                                                   *)
Updates(t, c) ==
  /\ pc[t] \in DOMAIN CounterOf
  /\ CounterOf[pc[t]] = c
  /\ loaded[t] # <<>> \/ pc[t] = "readReset"

Shifts(t) == pc[t] \in {"shift", "take"}

Alone ==
  \A t, u \in Threads :
    /\ \A c \in Counters : Updates(t, c) /\ Updates(u, c) => t = u
    /\ Shifts(t) /\ Shifts(u) => t = u

LoadedNow ==
  \A t \in Threads : loaded[t] # <<>> =>
    \/ /\ pc[t] \in DOMAIN CounterOf \ {"readReset"}
       /\ loaded[t] = <<counter[CounterOf[pc[t]]]>>
    \/ /\ pc[t] = "shift"
       /\ loaded[t] = <<histo[idx[t] + 1]>>

(* Until free has removed a size, the size it looked up is in the table,   *)
(* and nobody else is removing it.                                         *)
Removing ==
  /\ blockSizes[NULL] = 0
  /\ \A t \in Threads : pc[t] \in {"freed", "remove"} => sz[t] = blockSizes[ptr[t]]
  /\ \A t, u \in Threads : \A b \in Blocks : Drops(t, b) /\ Drops(u, b) => t = u

(* The bytes of a thread that are in the table and not yet in the counters *)
(* of bytes allocated and freed, or out of those and still in the table;   *)
(* and those that are not yet in, or not yet out of, bytesSinceLastRead.   *)
(* While read shifts the histogram the entry it read last is in it twice.  *)
Owes(t) == IF pc[t] \in {"allocated", "remove"} THEN sz[t] ELSE 0

Dues(t) ==
  IF pc[t] \in {"allocated", "mallocSince"} THEN sz[t]
  ELSE IF pc[t] = "freeSince" THEN -sz[t]
  ELSE IF pc[t] = "shift" /\ idx[t] > 1 THEN -histo[idx[t]]
  ELSE IF pc[t] = "take" THEN -histo[S_LEN] ELSE 0

Owed == [t \in Threads |-> Owes(t)]
Due == [t \in Threads |-> Dues(t)]

(* What the histogram took is not counted twice while read resets it.      *)
Resetting == \E t \in Threads : pc[t] = "readReset"
Since == IF Resetting THEN 0 ELSE counter["sinceRead"]
Recorded == past + Total(histo) + roundedOff
Outstanding == counter["allocated"] - counter["freed"]

Balanced ==
  /\ Outstanding = Total(blockSizes) - Total(Owed)
  /\ Recorded + Since = Total(blockSizes) - Total(Due)

Books == torn = {} /\ spoilt = {} => Alone /\ LoadedNow /\ Removing /\ Balanced

LEMMA SumIsInt ==
  ASSUME NEW S, IsFiniteSet(S), NEW f \in [S -> Int]
  PROVE  Total(f) \in Int
<1>1. Summed(f, S)
  BY SumsDef
<1>2. Total(f) = Sums(f)[S] /\ \A s \in SUBSET S : Sums(f)[s] \in Int
  BY <1>1 DEF Summed
<1>3. S \in SUBSET S
  OBVIOUS
<1>4. Sums(f)[S] \in Int
  BY <1>2, <1>3
<1> QED
  BY <1>2, <1>4

(* The types of what is added up.                                          *)
Ledger ==
  /\ Owed \in [Threads -> Int]
  /\ Due \in [Threads -> Int]
  /\ blockSizes \in [Blocks \cup {NULL} -> Int]
  /\ counter["allocated"] \in Int /\ counter["freed"] \in Int /\ counter["sinceRead"] \in Int
  /\ Outstanding \in Int /\ Since \in Int /\ Recorded \in Int

LEMMA LedgerTypes == TypeOK => Ledger
<1> SUFFICES ASSUME TypeOK PROVE Ledger
  OBVIOUS
<1>1. \A n \in Sizes \cup {0} : n \in Int /\ -n \in Int
  BY ScaleyAssumption
<1>2. \A t \in Threads : Owes(t) \in Int /\ Dues(t) \in Int
  <2> SUFFICES ASSUME NEW t \in Threads PROVE Owes(t) \in Int /\ Dues(t) \in Int
    OBVIOUS
  <2>1. idx[t] \in 1 .. S_LEN /\ S_LEN \in 1 .. S_LEN /\ sz[t] \in Sizes \cup {0}
    BY ScaleyAssumption DEF TypeOK
  <2>2. histo[idx[t]] \in Int /\ histo[S_LEN] \in Int
    BY <2>1 DEF TypeOK
  <2>3. -histo[idx[t]] \in Int /\ -histo[S_LEN] \in Int
    BY <2>2
  <2> QED
    BY <1>1, <2>1, <2>3 DEF Owes, Dues
<1>3. blockSizes \in [Blocks \cup {NULL} -> Int]
  BY <1>1 DEF TypeOK
<1>4. counter["allocated"] \in Int /\ counter["freed"] \in Int /\ counter["sinceRead"] \in Int
  BY DEF TypeOK, Counters
<1>5. Since \in Int
  BY <1>4 DEF Since
<1>6. Outstanding \in Int
  BY <1>4 DEF Outstanding
<1>7. Recorded \in Int
  <2>1. IsFiniteSet(1 .. S_LEN)
    BY FS_Interval, ScaleyAssumption
  <2>2. Total(histo) \in Int
    BY <2>1, SumIsInt DEF TypeOK
  <2> QED
    BY <2>2 DEF TypeOK, Recorded
<1> QED
  BY <1>2, <1>3, <1>4, <1>5, <1>6, <1>7 DEF Owed, Due, Ledger

(* A step that changes no entry but b's, and of no thread but t what it    *)
(* owes, keeps the balance if what it changes does.                        *)
LEMMA DuesBalance ==
  ASSUME IsFiniteSet(Threads), IsFiniteSet(Blocks), TypeOK, TypeOK', Balanced,
         NEW t \in Threads, NEW b \in Blocks \cup {NULL},
         \A u \in Threads \ {t} : Owes(u)' = Owes(u) /\ Dues(u)' = Dues(u),
         \A a \in (Blocks \cup {NULL}) \ {b} : blockSizes'[a] = blockSizes[a],
         Outstanding' - Outstanding
           = (blockSizes'[b] - blockSizes[b]) - (Owes(t)' - Owes(t)),
         (Recorded' + Since') - (Recorded + Since)
           = (blockSizes'[b] - blockSizes[b]) - (Dues(t)' - Dues(t))
  PROVE  Balanced'
<1>1. Ledger
  BY LedgerTypes
<1>2. Ledger'
  BY LedgerTypes, PTL
<1>3. IsFiniteSet(Blocks \cup {NULL})
  BY FS_AddElement
<1>4. /\ Total(blockSizes) \in Int /\ Total(blockSizes') \in Int
      /\ Total(blockSizes') = Total(blockSizes) - blockSizes[b] + blockSizes'[b]
  BY <1>1, <1>2, <1>3, SumChange DEF Ledger
<1>5. /\ Total(Owed) \in Int /\ Total(Owed') \in Int
      /\ Total(Owed') = Total(Owed) - Owed[t] + Owed'[t]
  <2>1. \A u \in Threads \ {t} : Owed'[u] = Owed[u]
    BY DEF Owed
  <2>2. Owed \in [Threads -> Int] /\ Owed' \in [Threads -> Int]
    BY <1>1, <1>2 DEF Ledger
  <2> HIDE DEF Owed
  <2> QED
    BY <2>1, <2>2, SumChange
<1>6. /\ Total(Due) \in Int /\ Total(Due') \in Int
      /\ Total(Due') = Total(Due) - Due[t] + Due'[t]
  <2>1. \A u \in Threads \ {t} : Due'[u] = Due[u]
    BY DEF Due
  <2>2. Due \in [Threads -> Int] /\ Due' \in [Threads -> Int]
    BY <1>1, <1>2 DEF Ledger
  <2> QED
    BY <2>1, <2>2, SumChange
<1>7. /\ Owed[t] = Owes(t) /\ Owed'[t] = Owes(t)' /\ Due[t] = Dues(t) /\ Due'[t] = Dues(t)'
  BY DEF Owed, Due
<1>8. /\ Owed[t] \in Int /\ Owed'[t] \in Int /\ Due[t] \in Int /\ Due'[t] \in Int
      /\ blockSizes[b] \in Int /\ blockSizes'[b] \in Int
  BY <1>1, <1>2 DEF Ledger
<1>9. Outstanding' = Total(blockSizes') - Total(Owed')
  <2>1. Outstanding = Total(blockSizes) - Total(Owed)
    BY DEF Balanced
  <2>2. /\ Outstanding \in Int /\ Outstanding' \in Int
        /\ Outstanding' - Outstanding
             = (blockSizes'[b] - blockSizes[b]) - (Owed'[t] - Owed[t])
    BY <1>1, <1>2, <1>7 DEF Ledger
  <2>3. /\ Total(blockSizes) \in Int /\ Total(Owed) \in Int
        /\ Total(blockSizes') = Total(blockSizes) - blockSizes[b] + blockSizes'[b]
        /\ Total(Owed') = Total(Owed) - Owed[t] + Owed'[t]
    BY <1>4, <1>5
  <2> QED
    BY <1>7, <1>8, <2>1, <2>2, <2>3
<1>10. Recorded' + Since' = Total(blockSizes') - Total(Due')
  <2>1. Recorded + Since = Total(blockSizes) - Total(Due)
    BY DEF Balanced
  <2>2. /\ Recorded \in Int /\ Recorded' \in Int /\ Since \in Int /\ Since' \in Int
        /\ (Recorded' + Since') - (Recorded + Since)
             = (blockSizes'[b] - blockSizes[b]) - (Due'[t] - Due[t])
    BY <1>1, <1>2, <1>7 DEF Ledger
  <2>3. /\ Total(blockSizes) \in Int /\ Total(Due) \in Int
        /\ Total(blockSizes') = Total(blockSizes) - blockSizes[b] + blockSizes'[b]
        /\ Total(Due') = Total(Due) - Due[t] + Due'[t]
    BY <1>4, <1>6
  <2> QED
    BY <1>8, <2>1, <2>2, <2>3
<1> QED
  BY <1>9, <1>10 DEF Balanced

LEMMA StepBalances ==
  ASSUME IsFiniteSet(Threads), IsFiniteSet(Blocks), TypeOK, TypeOK', Balanced,
         NEW t \in Threads, NEW b \in Blocks \cup {NULL},
         \A u \in Threads \ {t} : pc'[u] = pc[u] /\ sz'[u] = sz[u],
         UNCHANGED <<histo, idx>>,
         \A a \in (Blocks \cup {NULL}) \ {b} : blockSizes'[a] = blockSizes[a],
         Outstanding' - Outstanding
           = (blockSizes'[b] - blockSizes[b]) - (Owes(t)' - Owes(t)),
         (Recorded' + Since') - (Recorded + Since)
           = (blockSizes'[b] - blockSizes[b]) - (Dues(t)' - Dues(t))
  PROVE  Balanced'
<1>1. \A u \in Threads \ {t} : Owes(u)' = Owes(u) /\ Dues(u)' = Dues(u)
  BY DEF Owes, Dues
<1> QED
  BY <1>1, DuesBalance

LEMMA CounterOfDef ==
  /\ DOMAIN CounterOf = {"allocated", "mallocSince", "freed", "freeSince", "take", "readReset"}
  /\ CounterOf["allocated"] = "allocated" /\ CounterOf["mallocSince"] = "sinceRead"
  /\ CounterOf["freed"] = "freed" /\ CounterOf["freeSince"] = "sinceRead"
  /\ CounterOf["take"] = "sinceRead" /\ CounterOf["readReset"] = "sinceRead"
BY DEF CounterOf

(* A store: it is of what the counter still is, plus n.                    *)
LEMMA StoreAdds ==
  ASSUME TypeOK, Alone, LoadedNow, NEW t \in Threads, NEW n \in Int,
         NEW q \in {"mallocSince", "out", "remove"},
         pc[t] \in DOMAIN CounterOf \ {"take", "readReset"},
         pc' = [pc EXCEPT ![t] = q], Store(t, n)
  PROVE  /\ Alone' /\ LoadedNow'
         /\ counter' = [counter EXCEPT ![CounterOf[pc[t]]] = counter[CounterOf[pc[t]]] + n]
         /\ Resetting' = Resetting
         /\ CounterOf[pc[t]] = "sinceRead" => ~Resetting
<1>1. loaded[t] = <<counter[CounterOf[pc[t]]]>> /\ loaded[t] # <<>>
  BY CounterOfDef DEF Store, LoadedNow
<1>2. counter' = [counter EXCEPT ![CounterOf[pc[t]]] = counter[CounterOf[pc[t]]] + n]
  BY <1>1 DEF Store
<1>3. CounterOf[pc[t]] \in Counters
  BY CounterOfDef DEF Counters
<1>4. Updates(t, CounterOf[pc[t]])
  BY <1>1 DEF Updates
<1>5. loaded' = [loaded EXCEPT ![t] = <<>>]
  BY DEF Store
<1>6. \A c \in Counters :
        ~Updates(t, c)' /\ \A u \in Threads \ {t} : Updates(u, c)' => Updates(u, c)
  BY <1>5, CounterOfDef DEF Updates, TypeOK
<1>7. Alone'
  <2>1. \A u \in Threads : Shifts(u)' => Shifts(u)
    BY CounterOfDef DEF Shifts, TypeOK
  <2> QED
    BY <1>6, <2>1 DEF Alone
<1>8. LoadedNow'
  <2> SUFFICES ASSUME NEW u \in Threads, loaded'[u] # <<>>
               PROVE  \/ /\ pc'[u] \in DOMAIN CounterOf \ {"readReset"}
                         /\ loaded'[u] = <<counter'[CounterOf[pc'[u]]]>>
                      \/ /\ pc'[u] = "shift"
                         /\ loaded'[u] = <<histo'[idx'[u] + 1]>>
    BY DEF LoadedNow
  <2>1. u # t /\ loaded[u] = loaded'[u] /\ pc'[u] = pc[u] /\ UNCHANGED <<histo, idx>>
    BY <1>5 DEF TypeOK, Store, readVars
  <2>2. CASE pc[u] = "shift"
    BY <2>1, <2>2, CounterOfDef DEF LoadedNow
  <2>3. CASE pc[u] # "shift"
    <3>1. pc[u] \in DOMAIN CounterOf \ {"readReset"} /\ loaded[u] = <<counter[CounterOf[pc[u]]]>>
      BY <2>1, <2>3 DEF LoadedNow
    <3>2. CounterOf[pc[u]] # CounterOf[pc[t]]
      BY <1>3, <1>4, <2>1, <3>1 DEF Alone, Updates
    <3>3. CounterOf[pc[u]] \in Counters
      BY <3>1, CounterOfDef DEF Counters
    <3> QED
      BY <1>2, <1>3, <2>1, <3>1, <3>2, <3>3 DEF TypeOK
  <2> QED
    BY <2>2, <2>3
<1>9. Resetting' = Resetting
  BY DEF Resetting, TypeOK
<1>10. CounterOf[pc[t]] = "sinceRead" => ~Resetting
  <2> SUFFICES ASSUME CounterOf[pc[t]] = "sinceRead",
                      NEW u \in Threads, pc[u] = "readReset"
               PROVE  FALSE
    BY DEF Resetting
  <2>1. Updates(u, "sinceRead") /\ "sinceRead" \in Counters
    BY CounterOfDef DEF Updates, Counters
  <2> QED
    BY <1>4, <2>1 DEF Alone
<1> QED
  BY <1>2, <1>7, <1>8, <1>9, <1>10

(* A step outside the counters' updates.                                   *)
LEMMA NoUpdate ==
  ASSUME TypeOK, Alone, LoadedNow, NEW t \in Threads,
         NEW q \in PCs \ {"shift", "take", "readReset"},
         pc[t] \notin DOMAIN CounterOf \cup {"shift"},
         pc' = [pc EXCEPT ![t] = q], UNCHANGED <<counter, loaded, histo, idx>>
  PROVE  Alone' /\ LoadedNow' /\ Resetting' = Resetting /\ Since' = Since
<1>1. loaded[t] = <<>>
  BY DEF LoadedNow
<1>2. \A u \in Threads, c \in Counters : Updates(u, c)' => Updates(u, c)
  BY <1>1, CounterOfDef DEF Updates, TypeOK
<1>3. Alone'
  <2>1. \A u \in Threads : Shifts(u)' => Shifts(u)
    BY DEF Shifts, TypeOK
  <2> QED
    BY <1>2, <2>1 DEF Alone
<1>4. LoadedNow'
  BY <1>1 DEF LoadedNow, TypeOK
<1>5. Resetting' = Resetting
  BY CounterOfDef DEF Resetting, TypeOK
<1> QED
  BY <1>3, <1>4, <1>5 DEF Since

(* Removing, when no entry changes but a block's, with nobody dropping it. *)
LEMMA StillRemoving ==
  ASSUME TypeOK, Removing, NEW t \in Threads,
         \A u \in Threads \ {t} : pc'[u] = pc[u] /\ sz'[u] = sz[u] /\ ptr'[u] = ptr[u],
         pc'[t] \notin {"lookup", "freed", "remove"},
         NEW b \in Blocks \cup {NULL},
         \A a \in (Blocks \cup {NULL}) \ {b} : blockSizes'[a] = blockSizes[a],
         b = NULL => blockSizes'[b] = 0,
         b \in Blocks => \A u \in Threads \ {t} : ~Drops(u, b)
  PROVE  Removing'
<1>1. blockSizes'[NULL] = 0
  BY DEF Removing
<1>2. ASSUME NEW u \in Threads, pc'[u] \in {"freed", "remove"}
      PROVE  sz'[u] = blockSizes'[ptr'[u]]
  <2>1. u # t /\ pc[u] = pc'[u] /\ sz'[u] = sz[u] /\ ptr'[u] = ptr[u]
    BY <1>2
  <2>2. sz[u] = blockSizes[ptr[u]] /\ ptr[u] \in Blocks \cup {NULL}
    BY <1>2, <2>1 DEF Removing, TypeOK
  <2>3. CASE ptr[u] = b
    <3>1. Drops(u, b)
      BY <1>2, <2>1, <2>3 DEF Drops
    <3>2. b = NULL
      BY <2>1, <3>1
    <3> QED
      BY <1>1, <2>1, <2>2, <2>3, <3>2 DEF Removing
  <2>4. CASE ptr[u] # b
    BY <2>1, <2>2, <2>4
  <2> QED
    BY <2>3, <2>4
<1>3. ASSUME NEW u \in Threads, NEW v \in Threads, NEW a \in Blocks, Drops(u, a)', Drops(v, a)'
      PROVE  u = v
  <2>1. Drops(u, a) /\ Drops(v, a)
    BY <1>3 DEF Drops
  <2> QED
    BY <2>1 DEF Removing
<1> QED
  BY <1>1, <1>2, <1>3 DEF Removing

(* A step that moves no bytes.                                             *)
LEMMA StillBalanced ==
  ASSUME IsFiniteSet(Threads), IsFiniteSet(Blocks), TypeOK, TypeOK', Balanced,
         NEW t \in Threads,
         \A u \in Threads \ {t} : pc'[u] = pc[u] /\ sz'[u] = sz[u],
         UNCHANGED <<histo, idx>>,
         blockSizes' = blockSizes, Owes(t)' = Owes(t), Dues(t)' = Dues(t),
         Outstanding' = Outstanding, Recorded' = Recorded, Since' = Since
  PROVE  Balanced'
<1>1. Ledger /\ Ledger'
  BY LedgerTypes, PTL
<1>2. Owes(t) \in Int /\ Dues(t) \in Int
  BY <1>1 DEF Ledger, Owed, Due
<1> DEFINE e == blockSizes'[NULL] - blockSizes[NULL]
<1>3. e = 0
  BY <1>1 DEF Ledger
<1>4. /\ Outstanding' - Outstanding = e - (Owes(t)' - Owes(t))
      /\ (Recorded' + Since') - (Recorded + Since) = e - (Dues(t)' - Dues(t))
  BY <1>1, <1>2, <1>3 DEF Ledger
<1> QED
  BY <1>4, StepBalances

LEMMA TableSame ==
  ASSUME TypeOK, Removing, NEW t \in Threads,
         \A u \in Threads \ {t} : pc'[u] = pc[u] /\ sz'[u] = sz[u] /\ ptr'[u] = ptr[u],
         pc'[t] \notin {"lookup", "freed", "remove"},
         blockSizes' = blockSizes
  PROVE  Removing'
<1>1. NULL \in Blocks \cup {NULL} /\ NULL \notin Blocks /\ blockSizes'[NULL] = 0
  BY ScaleyAssumption DEF Removing
<1> QED
  BY <1>1, StillRemoving

(* What the books are about; a step that leaves it alone keeps them.       *)
ledgerVars == <<blockSizes, counter, histo, idx, past, roundedOff,
                pc, ptr, sz, loaded>>

Clean == torn = {} /\ spoilt = {}
Kept == Alone /\ LoadedNow /\ Removing /\ Balanced

LEMMA SameLedger ==
  ASSUME Kept, UNCHANGED ledgerVars
  PROVE  Kept'
<1> USE DEF ledgerVars
<1>1. Alone' /\ LoadedNow'
  BY DEF Kept, Alone, LoadedNow, Updates, Shifts
<1>2. Removing'
  BY DEF Kept, Removing, Drops
<1>3. Owed' = Owed /\ Due' = Due /\ Outstanding' = Outstanding /\ Recorded' = Recorded /\ Since' = Since
  BY DEF Owed, Owes, Due, Dues, Outstanding, Recorded, Since, Resetting
<1>4. Balanced'
  BY <1>3 DEF Kept, Balanced
<1> QED
  BY <1>1, <1>2, <1>4 DEF Kept

LEMMA MallocKeepsBooks ==
  ASSUME IsFiniteSet(Threads), IsFiniteSet(Blocks), IInv, TypeOK', Clean, Clean', Kept,
         NEW t \in Threads, MallocStep(t)
  PROVE  Kept'
<1> USE DEF IInv, Kept
<1>0. sz[t] \in Int /\ ptr[t] \in Blocks \cup {NULL} /\ \A n \in Sizes : n \in Int
  <2>1. \A n \in Sizes \cup {0} : n \in Int
    BY ScaleyAssumption
  <2> QED
    BY <2>1 DEF TypeOK
<1>types. Ledger /\ Ledger'
  BY LedgerTypes, PTL
<1>1. CASE CallMalloc(t)
  <2>1. /\ pc[t] = "out" /\ pc' = [pc EXCEPT ![t] = "insert"]
        /\ UNCHANGED <<blockSizes, counter, loaded, histo, idx, past, roundedOff>>
        /\ \A u \in Threads \ {t} : pc'[u] = pc[u] /\ sz'[u] = sz[u] /\ ptr'[u] = ptr[u]
    BY <1>1 DEF CallMalloc, Goes, tapVars, countVars, readVars, TypeOK
  <2>2. pc'[t] = "insert"
    BY <2>1 DEF TypeOK
  <2>3. Alone' /\ LoadedNow' /\ Since' = Since
    BY <2>1, CounterOfDef, NoUpdate DEF PCs
  <2>4. Removing'
    BY <2>1, <2>2, TableSame
  <2>5. /\ Owes(t) = 0 /\ Owes(t)' = 0 /\ Dues(t) = 0 /\ Dues(t)' = 0
        /\ Outstanding' = Outstanding /\ Recorded' = Recorded
    BY <2>1, <2>2 DEF Owes, Dues, Outstanding, Recorded
  <2>6. Balanced'
    BY <2>1, <2>3, <2>5, StillBalanced
  <2> QED
    BY <2>3, <2>4, <2>6
<1>2. CASE InsertSize(t)
  <2>1. /\ pc[t] = "insert" /\ pc' = [pc EXCEPT ![t] = "allocated"]
        /\ blockSizes' = [blockSizes EXCEPT ![ptr[t]] = sz[t]]
        /\ UNCHANGED <<counter, loaded, histo, idx, past, roundedOff, ptr, sz>>
    BY <1>2 DEF InsertSize, Goes, countVars, readVars
  <2>2. pc'[t] = "allocated" /\ \A u \in Threads \ {t} : pc'[u] = pc[u]
    BY <2>1 DEF TypeOK
  <2>3. ptr[t] \in Blocks /\ ptr[t] \notin counted /\ heap[ptr[t]] # 0
    BY <1>0, <2>1 DEF Inserting, Held, Holding, Clean
  <2>4. \A u \in Threads : ~Drops(u, ptr[t])
    BY <2>3 DEF Dropped, Clean
  <2>5. blockSizes[ptr[t]] = 0
    BY <2>3, <2>4 DEF Tracks, Entry, Clean
  <2>6. blockSizes'[ptr[t]] = sz[t] /\ \A a \in (Blocks \cup {NULL}) \ {ptr[t]} : blockSizes'[a] = blockSizes[a]
    BY <1>0, <2>1 DEF TypeOK
  <2>7. Alone' /\ LoadedNow' /\ Since' = Since
    BY <2>1, CounterOfDef, NoUpdate DEF PCs
  <2>8. Removing'
    BY <2>1, <2>2, <2>3, <2>4, <2>6, ScaleyAssumption, StillRemoving
  <2>9. /\ Owes(t) = 0 /\ Owes(t)' = sz[t] /\ Dues(t) = 0 /\ Dues(t)' = sz[t]
        /\ Outstanding' = Outstanding /\ Recorded' = Recorded
    BY <2>1, <2>2 DEF Owes, Dues, Outstanding, Recorded
  <2>10. /\ Outstanding' - Outstanding = (blockSizes'[ptr[t]] - blockSizes[ptr[t]]) - (Owes(t)' - Owes(t))
         /\ (Recorded' + Since') - (Recorded + Since)
              = (blockSizes'[ptr[t]] - blockSizes[ptr[t]]) - (Dues(t)' - Dues(t))
    BY <1>0, <1>types, <2>5, <2>6, <2>7, <2>9 DEF Ledger
  <2>11. Balanced'
    BY <1>0, <2>1, <2>2, <2>3, <2>6, <2>10, StepBalances
  <2> QED
    BY <2>7, <2>8, <2>11
<1>3. CASE MallocUncounted(t)
  <2>1. /\ pc[t] = "insert" /\ pc' = [pc EXCEPT ![t] = "out"]
        /\ UNCHANGED <<blockSizes, counter, loaded, histo, idx, past, roundedOff>>
        /\ \A u \in Threads \ {t} : pc'[u] = pc[u] /\ sz'[u] = sz[u] /\ ptr'[u] = ptr[u]
    BY <1>3 DEF MallocUncounted, Returns, Goes, tapVars, countVars, readVars, TypeOK
  <2>2. pc'[t] = "out"
    BY <2>1 DEF TypeOK
  <2>3. Alone' /\ LoadedNow' /\ Since' = Since
    BY <2>1, CounterOfDef, NoUpdate DEF PCs
  <2>4. Removing'
    BY <2>1, <2>2, TableSame
  <2>5. /\ Owes(t) = 0 /\ Owes(t)' = 0 /\ Dues(t) = 0 /\ Dues(t)' = 0
        /\ Outstanding' = Outstanding /\ Recorded' = Recorded
    BY <2>1, <2>2 DEF Owes, Dues, Outstanding, Recorded
  <2>6. Balanced'
    BY <2>1, <2>3, <2>5, StillBalanced
  <2> QED
    BY <2>3, <2>4, <2>6
<1>4. CASE AddAllocated(t)
  <2>1. /\ pc[t] = "allocated" /\ pc' = [pc EXCEPT ![t] = "mallocSince"]
        /\ Store(t, sz[t])
        /\ UNCHANGED <<blockSizes, histo, idx, past, roundedOff, ptr, sz>>
    BY <1>4 DEF AddAllocated, Store, Goes, tapVars, readVars
  <2>2. pc'[t] = "mallocSince" /\ \A u \in Threads \ {t} : pc'[u] = pc[u]
    BY <2>1 DEF TypeOK
  <2>3. /\ Alone' /\ LoadedNow' /\ Resetting' = Resetting
        /\ counter' = [counter EXCEPT !["allocated"] = counter["allocated"] + sz[t]]
    BY <1>0, <2>1, CounterOfDef, StoreAdds
  <2>4. Removing'
    BY <2>1, <2>2, TableSame
  <2>5. /\ counter'["allocated"] = counter["allocated"] + sz[t]
        /\ counter'["freed"] = counter["freed"] /\ counter'["sinceRead"] = counter["sinceRead"]
    BY <2>3 DEF TypeOK, Counters
  <2>6. /\ Owes(t) = sz[t] /\ Owes(t)' = 0 /\ Dues(t) = sz[t] /\ Dues(t)' = sz[t]
        /\ Outstanding' = Outstanding + sz[t] /\ Recorded' = Recorded /\ Since' = Since
    BY <1>0, <1>types, <2>1, <2>2, <2>3, <2>5 DEF Owes, Dues, Outstanding, Recorded, Since, Ledger
  <2> DEFINE e == blockSizes'[NULL] - blockSizes[NULL]
  <2>7. e = 0
    BY <1>types, <2>1 DEF Ledger
  <2>8. /\ Outstanding' - Outstanding = e - (Owes(t)' - Owes(t))
        /\ (Recorded' + Since') - (Recorded + Since) = e - (Dues(t)' - Dues(t))
    BY <1>0, <1>types, <2>6, <2>7 DEF Ledger
  <2>9. Balanced'
    BY <1>0, <2>1, <2>2, <2>8, StepBalances
  <2> QED
    BY <2>3, <2>4, <2>9
<1>5. CASE AddSinceMalloc(t)
  <2>1. /\ pc[t] = "mallocSince" /\ pc' = [pc EXCEPT ![t] = "out"]
        /\ Store(t, sz[t])
        /\ UNCHANGED <<blockSizes, histo, idx, past, roundedOff>>
        /\ \A u \in Threads \ {t} : pc'[u] = pc[u] /\ sz'[u] = sz[u] /\ ptr'[u] = ptr[u]
    BY <1>5 DEF AddSinceMalloc, Store, Returns, Goes, tapVars, readVars, TypeOK
  <2>2. pc'[t] = "out"
    BY <2>1 DEF TypeOK
  <2>3. /\ Alone' /\ LoadedNow' /\ Resetting' = Resetting /\ ~Resetting
        /\ counter' = [counter EXCEPT !["sinceRead"] = counter["sinceRead"] + sz[t]]
    <3>1. pc[t] \in DOMAIN CounterOf \ {"take", "readReset"} /\ CounterOf[pc[t]] = "sinceRead"
      BY <2>1, CounterOfDef
    <3>2. /\ Alone' /\ LoadedNow' /\ Resetting' = Resetting
          /\ counter' = [counter EXCEPT ![CounterOf[pc[t]]] = counter[CounterOf[pc[t]]] + sz[t]]
          /\ CounterOf[pc[t]] = "sinceRead" => ~Resetting
      BY <1>0, <2>1, <3>1, StoreAdds
    <3> QED
      BY <3>1, <3>2
  <2>4. Removing'
    BY <2>1, <2>2, TableSame
  <2>5. /\ counter'["sinceRead"] = counter["sinceRead"] + sz[t]
        /\ counter'["freed"] = counter["freed"] /\ counter'["allocated"] = counter["allocated"]
    BY <2>3 DEF TypeOK, Counters
  <2>6. /\ Owes(t) = 0 /\ Owes(t)' = 0 /\ Dues(t) = sz[t] /\ Dues(t)' = 0
        /\ Outstanding' = Outstanding /\ Recorded' = Recorded /\ Since' = Since + sz[t]
    BY <1>0, <1>types, <2>1, <2>2, <2>3, <2>5 DEF Owes, Dues, Outstanding, Recorded, Since, Ledger
  <2> DEFINE e == blockSizes'[NULL] - blockSizes[NULL]
  <2>7. e = 0
    BY <1>types, <2>1 DEF Ledger
  <2>8. /\ Outstanding' - Outstanding = e - (Owes(t)' - Owes(t))
        /\ (Recorded' + Since') - (Recorded + Since) = e - (Dues(t)' - Dues(t))
    BY <1>0, <1>types, <2>6, <2>7 DEF Ledger
  <2>9. Balanced'
    BY <1>0, <2>1, <2>2, <2>8, StepBalances
  <2> QED
    BY <2>3, <2>4, <2>9
<1> QED
  BY <1>1, <1>2, <1>3, <1>4, <1>5 DEF MallocStep

LEMMA FreeKeepsBooks ==
  ASSUME IsFiniteSet(Threads), IsFiniteSet(Blocks), IInv, TypeOK', Clean, Clean', Kept,
         NEW t \in Threads, FreeStep(t)
  PROVE  Kept'
<1> USE DEF IInv, Kept
<1>0. sz[t] \in Int /\ -sz[t] \in Int /\ ptr[t] \in Blocks \cup {NULL}
  <2>1. \A n \in Sizes \cup {0} : n \in Int /\ -n \in Int
    BY ScaleyAssumption
  <2> QED
    BY <2>1 DEF TypeOK
<1>types. Ledger /\ Ledger'
  BY LedgerTypes, PTL
<1>1. CASE CallFree(t)
  <2>1. PICK b \in owned \cup {NULL} :
          \/ UNCHANGED <<pc, ptr>>
          \/ Goes(t, "out", "lookup") /\ ptr' = [ptr EXCEPT ![t] = b]
    BY <1>1 DEF CallFree
  <2>2. UNCHANGED <<blockSizes, counter, loaded, histo, idx, past, roundedOff, sz>>
    BY <1>1 DEF CallFree, tapVars, countVars, readVars
  <2>3. CASE UNCHANGED <<pc, ptr>>
    BY <2>2, <2>3, SameLedger DEF ledgerVars
  <2>4. CASE Goes(t, "out", "lookup") /\ ptr' = [ptr EXCEPT ![t] = b]
    <3>1. /\ pc[t] = "out" /\ pc' = [pc EXCEPT ![t] = "lookup"] /\ pc'[t] = "lookup" /\ ptr'[t] = b
          /\ \A u \in Threads \ {t} : pc'[u] = pc[u] /\ sz'[u] = sz[u] /\ ptr'[u] = ptr[u]
      BY <2>2, <2>4 DEF Goes, TypeOK
    <3>2. Alone' /\ LoadedNow' /\ Since' = Since
      BY <2>2, <3>1, CounterOfDef, NoUpdate DEF PCs
    <3>3. b \in Blocks => \A u \in Threads : ~Drops(u, b)
      BY ScaleyAssumption DEF TypeOK, Dropped, Clean
    <3>4. Removing'
      <4>1. blockSizes'[NULL] = 0
        BY <2>2 DEF Removing
      <4>2. \A u \in Threads : pc'[u] \in {"freed", "remove"} => sz'[u] = blockSizes'[ptr'[u]]
        BY <2>2, <3>1 DEF Removing
      <4>3. ASSUME NEW u \in Threads, NEW v \in Threads, NEW a \in Blocks, Drops(u, a)', Drops(v, a)'
            PROVE  u = v
        <5>1. CASE a = b
          BY <3>1, <3>3, <4>3, <5>1 DEF Drops
        <5>2. CASE a # b
          <6>1. Drops(u, a) /\ Drops(v, a)
            BY <3>1, <4>3, <5>2 DEF Drops
          <6> QED
            BY <6>1 DEF Removing
        <5> QED
          BY <5>1, <5>2
      <4> QED
        BY <4>1, <4>2, <4>3 DEF Removing
    <3>5. /\ Owes(t) = 0 /\ Owes(t)' = 0 /\ Dues(t) = 0 /\ Dues(t)' = 0
          /\ Outstanding' = Outstanding /\ Recorded' = Recorded
      BY <2>2, <3>1 DEF Owes, Dues, Outstanding, Recorded
    <3>6. Balanced'
      BY <2>2, <3>1, <3>2, <3>5, StillBalanced
    <3> QED
      BY <3>2, <3>4, <3>6
  <2> QED
    BY <2>1, <2>3, <2>4
<1>2. CASE FreeUncounted(t)
  <2>1. /\ pc[t] = "lookup" /\ pc' = [pc EXCEPT ![t] = "out"]
        /\ UNCHANGED <<blockSizes, counter, loaded, histo, idx, past, roundedOff>>
        /\ \A u \in Threads \ {t} : pc'[u] = pc[u] /\ sz'[u] = sz[u] /\ ptr'[u] = ptr[u]
    BY <1>2 DEF FreeUncounted, Returns, Goes, tapVars, countVars, readVars, TypeOK
  <2>2. pc'[t] = "out"
    BY <2>1 DEF TypeOK
  <2>3. Alone' /\ LoadedNow' /\ Since' = Since
    BY <2>1, CounterOfDef, NoUpdate DEF PCs
  <2>4. Removing'
    BY <2>1, <2>2, TableSame
  <2>5. /\ Owes(t) = 0 /\ Owes(t)' = 0 /\ Dues(t) = 0 /\ Dues(t)' = 0
        /\ Outstanding' = Outstanding /\ Recorded' = Recorded
    BY <2>1, <2>2 DEF Owes, Dues, Outstanding, Recorded
  <2>6. Balanced'
    BY <2>1, <2>3, <2>5, StillBalanced
  <2> QED
    BY <2>3, <2>4, <2>6
<1>3. CASE LookUpSize(t)
  <2>1. /\ pc[t] = "lookup"
        /\ pc' = [pc EXCEPT ![t] = IF blockSizes[ptr[t]] = 0 THEN "freeSince" ELSE "freed"]
        /\ sz' = [sz EXCEPT ![t] = blockSizes[ptr[t]]]
        /\ UNCHANGED <<blockSizes, counter, loaded, histo, idx, past, roundedOff, ptr>>
    BY <1>3 DEF LookUpSize, Goes, tapVars, countVars, readVars
  <2>2. /\ pc'[t] = IF blockSizes[ptr[t]] = 0 THEN "freeSince" ELSE "freed"
        /\ sz'[t] = blockSizes[ptr[t]]
        /\ \A u \in Threads \ {t} : pc'[u] = pc[u] /\ sz'[u] = sz[u]
    BY <2>1 DEF TypeOK
  <2>3. Alone' /\ LoadedNow' /\ Since' = Since
    <3>1. CASE blockSizes[ptr[t]] = 0
      BY <2>1, <3>1, CounterOfDef, NoUpdate DEF PCs
    <3>2. CASE blockSizes[ptr[t]] # 0
      BY <2>1, <3>2, CounterOfDef, NoUpdate DEF PCs
    <3> QED
      BY <3>1, <3>2
  <2>4. Removing'
    <3>1. \A u \in Threads : pc'[u] \in {"freed", "remove"} => sz'[u] = blockSizes'[ptr'[u]]
      BY <2>1, <2>2 DEF Removing
    <3>2. \A u \in Threads, a \in Blocks : Drops(u, a)' => Drops(u, a)
      BY <2>1, <2>2 DEF Drops
    <3> QED
      BY <2>1, <3>1, <3>2 DEF Removing
  <2>5. /\ Owes(t) = 0 /\ Owes(t)' = 0 /\ Dues(t) = 0 /\ Dues(t)' = 0
        /\ Outstanding' = Outstanding /\ Recorded' = Recorded
    BY <2>1, <2>2 DEF Owes, Dues, Outstanding, Recorded
  <2>6. Balanced'
    BY <2>1, <2>2, <2>3, <2>5, StillBalanced
  <2> QED
    BY <2>3, <2>4, <2>6
<1>4. CASE AddFreed(t)
  <2>1. /\ pc[t] = "freed" /\ pc' = [pc EXCEPT ![t] = "remove"]
        /\ Store(t, sz[t])
        /\ UNCHANGED <<blockSizes, histo, idx, past, roundedOff, ptr, sz>>
    BY <1>4 DEF AddFreed, Store, Goes, tapVars, readVars
  <2>2. pc'[t] = "remove" /\ \A u \in Threads \ {t} : pc'[u] = pc[u]
    BY <2>1 DEF TypeOK
  <2>3. /\ Alone' /\ LoadedNow' /\ Resetting' = Resetting
        /\ counter' = [counter EXCEPT !["freed"] = counter["freed"] + sz[t]]
    BY <1>0, <2>1, CounterOfDef, StoreAdds
  <2>4. Removing'
    <3>1. \A u \in Threads : pc'[u] \in {"freed", "remove"} => sz'[u] = blockSizes'[ptr'[u]]
      BY <2>1, <2>2 DEF Removing
    <3>2. \A u \in Threads, a \in Blocks : Drops(u, a)' => Drops(u, a)
      BY <2>1, <2>2 DEF Drops
    <3> QED
      BY <2>1, <3>1, <3>2 DEF Removing
  <2>5. /\ counter'["freed"] = counter["freed"] + sz[t]
        /\ counter'["allocated"] = counter["allocated"] /\ counter'["sinceRead"] = counter["sinceRead"]
    BY <2>3 DEF TypeOK, Counters
  <2>6. /\ Owes(t) = 0 /\ Owes(t)' = sz[t] /\ Dues(t) = 0 /\ Dues(t)' = 0
        /\ Outstanding' = Outstanding - sz[t] /\ Recorded' = Recorded /\ Since' = Since
    BY <1>0, <1>types, <2>1, <2>2, <2>3, <2>5 DEF Owes, Dues, Outstanding, Recorded, Since, Ledger
  <2> DEFINE e == blockSizes'[NULL] - blockSizes[NULL]
  <2>7. e = 0
    BY <1>types, <2>1 DEF Ledger
  <2>8. /\ Outstanding' - Outstanding = e - (Owes(t)' - Owes(t))
        /\ (Recorded' + Since') - (Recorded + Since) = e - (Dues(t)' - Dues(t))
    BY <1>0, <1>types, <2>6, <2>7 DEF Ledger
  <2>9. Balanced'
    BY <1>0, <2>1, <2>2, <2>8, StepBalances
  <2> QED
    BY <2>3, <2>4, <2>9
<1>5. CASE RemoveSize(t)
  <2>1. /\ pc[t] = "remove" /\ pc' = [pc EXCEPT ![t] = "freeSince"]
        /\ blockSizes' = [blockSizes EXCEPT ![ptr[t]] = 0]
        /\ UNCHANGED <<counter, loaded, histo, idx, past, roundedOff, ptr, sz>>
    BY <1>5 DEF RemoveSize, Goes, countVars, readVars, heapVars
  <2>2. pc'[t] = "freeSince" /\ \A u \in Threads \ {t} : pc'[u] = pc[u]
    BY <2>1 DEF TypeOK
  <2>3. sz[t] = blockSizes[ptr[t]] /\ Drops(t, ptr[t])
    BY <2>1 DEF Removing, Drops
  <2>4. blockSizes'[ptr[t]] = 0 /\ \A a \in (Blocks \cup {NULL}) \ {ptr[t]} : blockSizes'[a] = blockSizes[a]
    BY <1>0, <2>1 DEF TypeOK
  <2>5. Alone' /\ LoadedNow' /\ Since' = Since
    BY <2>1, CounterOfDef, NoUpdate DEF PCs
  <2>6. ptr[t] \in Blocks => \A u \in Threads \ {t} : ~Drops(u, ptr[t])
    BY <2>3 DEF Removing
  <2>7. Removing'
    BY <1>0, <2>1, <2>2, <2>4, <2>6, StillRemoving
  <2>8. /\ Owes(t) = sz[t] /\ Owes(t)' = 0 /\ Dues(t) = 0 /\ Dues(t)' = -sz[t]
        /\ Outstanding' = Outstanding /\ Recorded' = Recorded
    BY <2>1, <2>2 DEF Owes, Dues, Outstanding, Recorded
  <2> DEFINE e == blockSizes'[ptr[t]] - blockSizes[ptr[t]]
  <2>9. e = -sz[t]
    BY <1>0, <2>3, <2>4
  <2>10. /\ Outstanding' - Outstanding = e - (Owes(t)' - Owes(t))
         /\ (Recorded' + Since') - (Recorded + Since) = e - (Dues(t)' - Dues(t))
    BY <1>0, <1>types, <2>5, <2>8, <2>9 DEF Ledger
  <2>11. Balanced'
    BY <1>0, <2>1, <2>2, <2>4, <2>10, StepBalances
  <2> QED
    BY <2>5, <2>7, <2>11
<1>6. CASE SubtractSinceFree(t)
  <2>1. /\ pc[t] = "freeSince" /\ pc' = [pc EXCEPT ![t] = "out"]
        /\ Store(t, -sz[t])
        /\ UNCHANGED <<blockSizes, histo, idx, past, roundedOff>>
        /\ \A u \in Threads \ {t} : pc'[u] = pc[u] /\ sz'[u] = sz[u] /\ ptr'[u] = ptr[u]
    BY <1>6 DEF SubtractSinceFree, Store, Returns, Goes, tapVars, readVars, TypeOK
  <2>2. pc'[t] = "out"
    BY <2>1 DEF TypeOK
  <2>3. /\ Alone' /\ LoadedNow' /\ Resetting' = Resetting /\ ~Resetting
        /\ counter' = [counter EXCEPT !["sinceRead"] = counter["sinceRead"] + -sz[t]]
    <3>1. pc[t] \in DOMAIN CounterOf \ {"take", "readReset"} /\ CounterOf[pc[t]] = "sinceRead"
      BY <2>1, CounterOfDef
    <3>2. /\ Alone' /\ LoadedNow' /\ Resetting' = Resetting
          /\ counter' = [counter EXCEPT ![CounterOf[pc[t]]] = counter[CounterOf[pc[t]]] + -sz[t]]
          /\ CounterOf[pc[t]] = "sinceRead" => ~Resetting
      BY <1>0, <2>1, <3>1, StoreAdds
    <3> QED
      BY <3>1, <3>2
  <2>4. Removing'
    BY <2>1, <2>2, TableSame
  <2>5. /\ counter'["sinceRead"] = counter["sinceRead"] + -sz[t]
        /\ counter'["freed"] = counter["freed"] /\ counter'["allocated"] = counter["allocated"]
    BY <2>3 DEF TypeOK, Counters
  <2>6. /\ Owes(t) = 0 /\ Owes(t)' = 0 /\ Dues(t) = -sz[t] /\ Dues(t)' = 0
        /\ Outstanding' = Outstanding /\ Recorded' = Recorded /\ Since' = Since + -sz[t]
    BY <1>0, <1>types, <2>1, <2>2, <2>3, <2>5 DEF Owes, Dues, Outstanding, Recorded, Since, Ledger
  <2> DEFINE e == blockSizes'[NULL] - blockSizes[NULL]
  <2>7. e = 0
    BY <1>types, <2>1 DEF Ledger
  <2>8. /\ Outstanding' - Outstanding = e - (Owes(t)' - Owes(t))
        /\ (Recorded' + Since') - (Recorded + Since) = e - (Dues(t)' - Dues(t))
    BY <1>0, <1>types, <2>6, <2>7 DEF Ledger
  <2>9. Balanced'
    BY <1>0, <2>1, <2>2, <2>8, StepBalances
  <2> QED
    BY <2>3, <2>4, <2>9
<1> QED
  BY <1>1, <1>2, <1>3, <1>4, <1>5, <1>6 DEF FreeStep

(* An entry of the histogram is overwritten.                               *)
LEMMA HistogramTakes ==
  ASSUME TypeOK, NEW k \in 1 .. S_LEN, NEW n \in Int, histo' = [histo EXCEPT ![k] = n]
  PROVE  /\ Total(histo) \in Int /\ Total(histo') \in Int
         /\ Total(histo') = Total(histo) - histo[k] + n
<1>1. IsFiniteSet(1 .. S_LEN) /\ histo \in [1 .. S_LEN -> Int]
  BY FS_Interval, ScaleyAssumption DEF TypeOK
<1>2. histo' \in [1 .. S_LEN -> Int] /\ histo'[k] = n
  BY <1>1
<1>3. \A j \in (1 .. S_LEN) \ {k} : histo'[j] = histo[j]
  BY <1>1
<1>4. \A f, h \in [1 .. S_LEN -> Int] :
        (\A j \in (1 .. S_LEN) \ {k} : h[j] = f[j])
          => /\ Total(f) \in Int /\ Total(h) \in Int
             /\ Total(h) = Total(f) - f[k] + h[k]
  BY <1>1, SumChange
<1> QED
  BY <1>1, <1>2, <1>3, <1>4

(* The call at the end of read touches nothing the books are about.        *)
LEMMA ReadGoesOn ==
  ASSUME IsFiniteSet(Threads), IsFiniteSet(Blocks), IInv, TypeOK', Kept,
         NEW t \in Threads, NEW q \in {"out", "crashed"}, pc[t] = "readCall",
         pc' = [pc EXCEPT ![t] = q],
         UNCHANGED <<blockSizes, counter, loaded, histo, idx, past, roundedOff, ptr, sz>>
  PROVE  Kept'
<1> USE DEF IInv, Kept
<1>1. pc'[t] = q /\ \A u \in Threads \ {t} : pc'[u] = pc[u]
  BY DEF TypeOK
<1>2. Alone' /\ LoadedNow' /\ Since' = Since
  BY CounterOfDef, NoUpdate DEF PCs
<1>3. Removing'
  BY <1>1, TableSame
<1>4. /\ Owes(t) = 0 /\ Owes(t)' = 0 /\ Dues(t) = 0 /\ Dues(t)' = 0
      /\ Outstanding' = Outstanding /\ Recorded' = Recorded
  BY <1>1 DEF Owes, Dues, Outstanding, Recorded
<1>5. Balanced'
  BY <1>1, <1>2, <1>4, StillBalanced
<1> QED
  BY <1>2, <1>3, <1>5

(* read: what the histogram drops stays recorded, what it holds twice is   *)
(* counted once, and what it takes is what bytesSinceLastRead had.         *)
LEMMA ShiftKeepsBooks ==
  ASSUME IsFiniteSet(Threads), IsFiniteSet(Blocks), IInv, TypeOK', Clean, Clean', Kept,
         NEW t \in Threads, CallRead(t) \/ LoadEntry(t) \/ StoreEntry(t)
  PROVE  Kept'
<1> USE DEF IInv, Kept
<1>types. Ledger /\ Ledger'
  BY LedgerTypes, PTL
<1>1. CASE CallRead(t)
  <2>1. /\ pc[t] = "out" /\ pc' = [pc EXCEPT ![t] = "shift"]
        /\ idx' = [idx EXCEPT ![t] = 1]
        /\ UNCHANGED <<blockSizes, counter, loaded, histo, past, roundedOff, ptr, sz>>
        /\ Shifting = {}
    BY <1>1 DEF CallRead, Goes, tapVars, Clean
  <2>2. /\ pc'[t] = "shift" /\ idx'[t] = 1
        /\ \A u \in Threads \ {t} : pc'[u] = pc[u] /\ idx'[u] = idx[u]
    BY <2>1 DEF TypeOK
  <2>3. loaded[t] = <<>>
    BY <2>1, CounterOfDef DEF LoadedNow
  <2>4. Alone'
    <3>1. \A u \in Threads, c \in Counters : Updates(u, c)' => Updates(u, c)
      BY <2>1, <2>2, CounterOfDef DEF Updates
    <3>2. \A u \in Threads : Shifts(u)' => u = t
      BY <2>1, <2>2 DEF Shifts, Shifting
    <3> QED
      BY <3>1, <3>2 DEF Alone
  <2>5. LoadedNow'
    BY <2>1, <2>2, <2>3 DEF LoadedNow
  <2>6. Removing'
    BY <2>1, <2>2, TableSame
  <2>7. /\ Owed' = Owed /\ Due' = Due /\ Outstanding' = Outstanding
        /\ Recorded' = Recorded /\ Since' = Since
    <3>1. \A u \in Threads : Owes(u)' = Owes(u) /\ Dues(u)' = Dues(u)
      BY <2>1, <2>2 DEF Owes, Dues
    <3>2. Resetting' = Resetting
      BY <2>1, <2>2 DEF Resetting
    <3> QED
      BY <2>1, <3>1, <3>2 DEF Owed, Due, Outstanding, Recorded, Since
  <2>8. Balanced'
    BY <2>1, <2>7 DEF Balanced
  <2> QED
    BY <2>4, <2>5, <2>6, <2>8
<1>2. CASE LoadEntry(t)
  <2>1. /\ pc[t] = "shift"
        /\ loaded' = [loaded EXCEPT ![t] = <<histo[idx[t] + 1]>>]
        /\ UNCHANGED <<blockSizes, counter, histo, idx, past, roundedOff, pc, ptr, sz>>
    BY <1>2 DEF LoadEntry, tapVars, readVars
  <2>2. /\ loaded'[t] = <<histo[idx[t] + 1]>>
        /\ \A u \in Threads \ {t} : loaded'[u] = loaded[u]
    BY <2>1 DEF TypeOK
  <2>3. Alone'
    <3>1. \A u \in Threads, c \in Counters : Updates(u, c)' => Updates(u, c)
      BY <2>1, <2>2, CounterOfDef DEF Updates
    <3>2. \A u \in Threads : Shifts(u)' = Shifts(u)
      BY <2>1 DEF Shifts
    <3> QED
      BY <3>1, <3>2 DEF Alone
  <2>4. LoadedNow'
    BY <2>1, <2>2 DEF LoadedNow
  <2>5. Removing'
    BY <2>1 DEF Removing, Drops
  <2>6. /\ Owed' = Owed /\ Due' = Due /\ Outstanding' = Outstanding
        /\ Recorded' = Recorded /\ Since' = Since
    BY <2>1 DEF Owed, Owes, Due, Dues, Outstanding, Recorded, Since, Resetting
  <2>7. Balanced'
    BY <2>1, <2>6 DEF Balanced
  <2> QED
    BY <2>3, <2>4, <2>5, <2>7
<1>3. CASE StoreEntry(t)
  <2> DEFINE i == idx[t]
             q == IF i = S_LEN - 1 THEN "take" ELSE "shift"
  <2>0. /\ i \in 1 .. S_LEN - 1 /\ i \in 1 .. S_LEN /\ i + 1 \in 1 .. S_LEN
        /\ 1 \in 1 .. S_LEN /\ S_LEN \in Int
    <3>1. idx[t] \in 1 .. S_LEN - 1
      BY DEF TypeOK
    <3> QED
      BY <3>1, ScaleyAssumption
  <2>1. /\ pc[t] = "shift" /\ loaded[t] # <<>>
        /\ histo' = [histo EXCEPT ![i] = Head(loaded[t])]
        /\ past' = past + (IF i = 1 THEN histo[1] ELSE 0)
        /\ loaded' = [loaded EXCEPT ![t] = <<>>]
        /\ pc' = [pc EXCEPT ![t] = q]
        /\ idx' = [idx EXCEPT ![t] = IF i = S_LEN - 1 THEN 1 ELSE i + 1]
        /\ UNCHANGED <<blockSizes, counter, roundedOff, ptr, sz>>
    BY <1>3 DEF StoreEntry, tapVars
  <2>2. /\ pc'[t] = q /\ loaded'[t] = <<>>
        /\ idx'[t] = IF i = S_LEN - 1 THEN 1 ELSE i + 1
        /\ \A u \in Threads \ {t} :
             pc'[u] = pc[u] /\ loaded'[u] = loaded[u] /\ idx'[u] = idx[u]
    BY <2>1 DEF TypeOK
  <2>3. loaded[t] = <<histo[i + 1]>>
    BY <2>1, CounterOfDef DEF LoadedNow
  <2>4. Shifts(t) /\ \A u \in Threads \ {t} : ~Shifts(u)
    BY <2>1 DEF Shifts, Alone
  <2>5. Alone'
    <3>1. \A u \in Threads, c \in Counters : Updates(u, c)' => Updates(u, c)
      BY <2>2, CounterOfDef DEF Updates
    <3>2. \A u \in Threads : Shifts(u)' => u = t
      BY <2>2, <2>4 DEF Shifts
    <3> QED
      BY <3>1, <3>2 DEF Alone
  <2>6. LoadedNow'
    <3> SUFFICES ASSUME NEW u \in Threads, loaded'[u] # <<>>
                 PROVE  /\ pc'[u] \in DOMAIN CounterOf \ {"readReset"}
                        /\ loaded'[u] = <<counter'[CounterOf[pc'[u]]]>>
      BY DEF LoadedNow
    <3>1. u # t /\ pc[u] # "shift"
      BY <2>2, <2>4 DEF Shifts
    <3> QED
      BY <2>1, <2>2, <3>1 DEF LoadedNow
  <2>7. Removing'
    BY <2>1, <2>2, TableSame
  <2>8. histo[i] \in Int /\ histo[i + 1] \in Int /\ histo[1] \in Int /\ past \in Int
        /\ roundedOff \in Int
    BY <2>0 DEF TypeOK
  <2>9. /\ Total(histo) \in Int /\ Total(histo') \in Int
        /\ Total(histo') = Total(histo) - histo[i] + histo[i + 1]
    <3>1. histo' = [histo EXCEPT ![i] = histo[i + 1]]
      BY <2>1, <2>3
    <3> QED
      BY <2>0, <2>8, <3>1, HistogramTakes
  <2> DEFINE d == IF i = 1 THEN 0 ELSE histo[i]
  <2>10. Recorded' = Recorded + histo[i + 1] - d
    <3>1. past' = past + (IF i = 1 THEN histo[1] ELSE 0) /\ roundedOff' = roundedOff
      BY <2>1
    <3>2. CASE i = 1
      BY <2>8, <2>9, <3>1, <3>2 DEF Recorded
    <3>3. CASE i # 1
      BY <2>8, <2>9, <3>1, <3>3 DEF Recorded
    <3> QED
      BY <3>2, <3>3
  <2>11. Dues(t) = -d
    <3>1. pc[t] = "shift" /\ i \in Int /\ (i > 1 <=> i # 1)
      BY <2>0, <2>1
    <3> QED
      BY <2>8, <3>1 DEF Dues
  <2>12. Dues(t)' = -histo[i + 1]
    <3>1. histo'[i + 1] = histo[i + 1]
      <4>1. i + 1 # i
        BY <2>0
      <4> QED
        BY <2>0, <2>1, <4>1 DEF TypeOK
    <3>2. CASE i = S_LEN - 1
      <4>1. i + 1 = S_LEN
        BY <2>0, <3>2
      <4> QED
        BY <2>2, <3>1, <3>2, <4>1 DEF Dues
    <3>3. CASE i # S_LEN - 1
      <4>1. pc'[t] = "shift" /\ idx'[t] = i + 1 /\ i + 1 > 1
        BY <2>0, <2>2, <3>3
      <4> QED
        BY <3>1, <4>1 DEF Dues
    <3> QED
      BY <3>2, <3>3
  <2>13. /\ Owes(t) = 0 /\ Owes(t)' = 0
         /\ \A u \in Threads \ {t} : Owes(u)' = Owes(u) /\ Dues(u)' = Dues(u)
    BY <2>1, <2>2, <2>4 DEF Owes, Dues, Shifts
  <2>14. Outstanding' = Outstanding /\ Since' = Since
    <3>1. Resetting' = Resetting
      BY <2>1, <2>2 DEF Resetting
    <3> QED
      BY <2>1, <3>1 DEF Outstanding, Since
  <2> DEFINE e == blockSizes'[NULL] - blockSizes[NULL]
  <2>15. e = 0
    BY <1>types, <2>1 DEF Ledger
  <2>16. /\ Outstanding' - Outstanding = e - (Owes(t)' - Owes(t))
         /\ (Recorded' + Since') - (Recorded + Since) = e - (Dues(t)' - Dues(t))
    <3>1. d \in Int
      BY <2>8
    <3> HIDE DEF d, e, i
    <3> QED
      BY <1>types, <2>8, <2>10, <2>11, <2>12, <2>13, <2>14, <2>15, <3>1 DEF Ledger
  <2>17. Balanced'
    BY <2>1, <2>13, <2>16, DuesBalance
  <2> QED
    BY <2>5, <2>6, <2>7, <2>17
<1> QED
  BY <1>1, <1>2, <1>3

LEMMA TakeKeepsBooks ==
  ASSUME IsFiniteSet(Threads), IsFiniteSet(Blocks), IInv, TypeOK', Kept,
         NEW t \in Threads, TakeSince(t)
  PROVE  Kept'
<1> USE DEF IInv, Kept
<1> DEFINE v == counter["sinceRead"]
<1>types. Ledger /\ Ledger' /\ v \in Int
  BY LedgerTypes, PTL DEF Ledger
<1>1. /\ pc[t] = "take" /\ pc' = [pc EXCEPT ![t] = "readReset"]
      /\ loaded[t] # <<>> /\ loaded' = [loaded EXCEPT ![t] = <<>>]
      /\ UNCHANGED <<blockSizes, counter, idx, past, ptr, sz>>
  BY DEF TakeSince, Goes, tapVars
<1>2. /\ pc'[t] = "readReset" /\ loaded'[t] = <<>>
      /\ \A u \in Threads \ {t} : pc'[u] = pc[u] /\ loaded'[u] = loaded[u]
  BY <1>1 DEF TypeOK
<1>3. loaded[t] = <<v>>
  BY <1>1, CounterOfDef DEF LoadedNow
<1>4. PICK x \in Int :
        /\ histo' = [histo EXCEPT ![S_LEN] = x]
        /\ roundedOff' = roundedOff + (v - x)
  <2>1. Head(loaded[t]) = v
    BY <1>3
  <2>2. \A x \in ToFloat(v) : x \in Int
    BY ScaleyAssumption DEF ToFloat
  <2> HIDE DEF v
  <2> QED
    BY <2>1, <2>2 DEF TakeSince
<1>5. Updates(t, "sinceRead") /\ Shifts(t) /\ "sinceRead" \in Counters
  BY <1>1, CounterOfDef DEF Updates, Shifts, Counters
<1>6. \A u \in Threads \ {t} : ~Updates(u, "sinceRead") /\ ~Shifts(u)
  BY <1>5 DEF Alone
<1>7. Alone'
  <2>1. \A u \in Threads, c \in Counters : Updates(u, c)' => Updates(u, c)
    BY <1>1, <1>2, CounterOfDef DEF Updates
  <2>2. \A u \in Threads : Shifts(u)' => Shifts(u)
    BY <1>2 DEF Shifts
  <2> QED
    BY <2>1, <2>2 DEF Alone
<1>8. LoadedNow'
  <2> SUFFICES ASSUME NEW u \in Threads, loaded'[u] # <<>>
               PROVE  /\ pc'[u] \in DOMAIN CounterOf \ {"readReset"}
                      /\ loaded'[u] = <<counter'[CounterOf[pc'[u]]]>>
    BY DEF LoadedNow
  <2>1. u # t /\ pc[u] # "shift"
    BY <1>2, <1>6 DEF Shifts
  <2> QED
    BY <1>1, <1>2, <2>1 DEF LoadedNow
<1>9. Removing'
  BY <1>1, <1>2, TableSame
<1>10. ~Resetting /\ Resetting'
  <2>1. \A u \in Threads : pc[u] # "readReset"
    BY <1>1, <1>6, CounterOfDef DEF Updates
  <2> QED
    BY <1>2, <2>1 DEF Resetting
<1>11. Since = v /\ Since' = 0
  BY <1>10 DEF Since
<1>12. S_LEN \in 1 .. S_LEN /\ histo[S_LEN] \in Int /\ past \in Int /\ roundedOff \in Int
  BY ScaleyAssumption DEF TypeOK
<1>13. /\ Total(histo) \in Int /\ Total(histo') \in Int
       /\ Total(histo') = Total(histo) - histo[S_LEN] + x
  BY <1>4, <1>12, HistogramTakes
<1>14. Recorded' = Recorded - histo[S_LEN] + v
  <2>1. past' = past /\ roundedOff' = roundedOff + (v - x)
    BY <1>1, <1>4
  <2> HIDE DEF v
  <2> QED
    BY <1>types, <1>12, <1>13, <2>1 DEF Recorded
<1>15. /\ Owes(t) = 0 /\ Owes(t)' = 0 /\ Dues(t) = -histo[S_LEN] /\ Dues(t)' = 0
       /\ \A u \in Threads \ {t} : Owes(u)' = Owes(u) /\ Dues(u)' = Dues(u)
       /\ Outstanding' = Outstanding
  BY <1>1, <1>2, <1>6 DEF Owes, Dues, Shifts, Outstanding
<1> DEFINE e == blockSizes'[NULL] - blockSizes[NULL]
<1>16. e = 0
  BY <1>types, <1>1 DEF Ledger
<1>17. /\ Outstanding' - Outstanding = e - (Owes(t)' - Owes(t))
       /\ (Recorded' + Since') - (Recorded + Since) = e - (Dues(t)' - Dues(t))
  <2> HIDE DEF v, e
  <2> QED
    BY <1>types, <1>11, <1>12, <1>14, <1>15, <1>16 DEF Ledger
<1>18. Balanced'
  BY <1>1, <1>15, <1>17, DuesBalance
<1> QED
  BY <1>7, <1>8, <1>9, <1>18

LEMMA ReadKeepsBooks ==
  ASSUME IsFiniteSet(Threads), IsFiniteSet(Blocks), IInv, TypeOK', Clean, Clean', Kept,
         NEW t \in Threads, ReadStep(t)
  PROVE  Kept'
<1> USE DEF IInv, Kept
<1>2. CASE ResetSince(t)
  <2>1. /\ pc[t] = "readReset" /\ pc' = [pc EXCEPT ![t] = "readCall"]
        /\ counter' = [counter EXCEPT !["sinceRead"] = 0]
        /\ UNCHANGED <<blockSizes, loaded, histo, idx, past, roundedOff, ptr, sz>>
    BY <1>2 DEF ResetSince, Goes, tapVars, readVars
  <2>2. pc'[t] = "readCall" /\ \A u \in Threads \ {t} : pc'[u] = pc[u]
    BY <2>1 DEF TypeOK
  <2>3. loaded[t] = <<>> /\ Updates(t, "sinceRead") /\ "sinceRead" \in Counters
    BY <2>1, CounterOfDef DEF LoadedNow, Updates, Counters
  <2>4. \A u \in Threads \ {t} : ~Updates(u, "sinceRead")
    BY <2>3 DEF Alone
  <2>5. /\ counter'["sinceRead"] = 0
        /\ counter'["freed"] = counter["freed"] /\ counter'["allocated"] = counter["allocated"]
    BY <2>1 DEF TypeOK, Counters
  <2>6. Alone'
    <3>1. \A u \in Threads, c \in Counters : Updates(u, c)' => Updates(u, c)
      BY <2>1, <2>2, <2>3, CounterOfDef DEF Updates
    <3>2. \A u \in Threads : Shifts(u)' => Shifts(u)
      BY <2>2 DEF Shifts
    <3> QED
      BY <3>1, <3>2 DEF Alone
  <2>7. LoadedNow'
    <3> SUFFICES ASSUME NEW u \in Threads, loaded'[u] # <<>>
                 PROVE  \/ /\ pc'[u] \in DOMAIN CounterOf \ {"readReset"}
                           /\ loaded'[u] = <<counter'[CounterOf[pc'[u]]]>>
                        \/ /\ pc'[u] = "shift"
                           /\ loaded'[u] = <<histo'[idx'[u] + 1]>>
      BY DEF LoadedNow
    <3>1. u # t /\ loaded[u] = loaded'[u] /\ pc'[u] = pc[u]
      BY <2>1, <2>2, <2>3
    <3>2. CASE pc[u] = "shift"
      BY <2>1, <3>1, <3>2, CounterOfDef DEF LoadedNow
    <3>3. CASE pc[u] # "shift"
      <4>1. pc[u] \in DOMAIN CounterOf \ {"readReset"} /\ loaded[u] = <<counter[CounterOf[pc[u]]]>>
        BY <3>1, <3>3 DEF LoadedNow
      <4>2. CounterOf[pc[u]] # "sinceRead"
        BY <2>4, <3>1, <4>1 DEF Updates
      <4>3. CounterOf[pc[u]] \in {"allocated", "freed"}
        BY <4>1, <4>2, CounterOfDef
      <4> QED
        BY <2>5, <3>1, <4>1, <4>3
    <3> QED
      BY <3>2, <3>3
  <2>8. Removing'
    BY <2>1, <2>2, TableSame
  <2>9. Resetting /\ ~Resetting'
    <3>1. \A u \in Threads \ {t} : pc[u] # "readReset"
      BY <2>4, CounterOfDef DEF Updates
    <3> QED
      BY <2>1, <2>2, <3>1 DEF Resetting
  <2>10. Since = 0 /\ Since' = 0
    BY <2>5, <2>9 DEF Since
  <2>11. /\ Owes(t)' = Owes(t) /\ Dues(t)' = Dues(t)
         /\ Outstanding' = Outstanding /\ Recorded' = Recorded
    BY <2>1, <2>2, <2>5 DEF Owes, Dues, Outstanding, Recorded
  <2>12. Balanced'
    BY <2>1, <2>2, <2>10, <2>11, StillBalanced
  <2> QED
    BY <2>6, <2>7, <2>8, <2>12
<1>3. CASE CallOrigRead(t)
  <2>1. PICK q \in {"out", "crashed"} :
          pc[t] = "readCall" /\ pc' = [pc EXCEPT ![t] = q]
    BY <1>3 DEF CallOrigRead, Goes
  <2>2. UNCHANGED <<blockSizes, counter, loaded, histo, idx, past, roundedOff, ptr, sz>>
    BY <1>3 DEF CallOrigRead, tapVars, countVars, readVars
  <2> QED
    BY <2>1, <2>2, ReadGoesOn
<1> QED
  BY <1>2, <1>3, ShiftKeepsBooks, TakeKeepsBooks DEF ReadStep

LEMMA LoadKeepsBooks ==
  ASSUME IInv, Clean, Clean', Kept, NEW t \in Threads, Load(t)
  PROVE  Kept'
<1> USE DEF IInv, Kept
<1>1. /\ pc[t] \in DOMAIN CounterOf \ {"readReset"}
      /\ loaded' = [loaded EXCEPT ![t] = <<counter[CounterOf[pc[t]]]>>]
      /\ Updating(CounterOf[pc[t]]) = {}
      /\ UNCHANGED <<blockSizes, counter, histo, idx, past, roundedOff, pc, ptr, sz>>
  BY DEF Load, Clean, tapVars, readVars
<1>2. \A u \in Threads : ~Updates(u, CounterOf[pc[t]])
  BY <1>1 DEF Updating, Updates
<1>3. loaded'[t] = <<counter[CounterOf[pc[t]]]>> /\ \A u \in Threads \ {t} : loaded'[u] = loaded[u]
  BY <1>1 DEF TypeOK
<1>4. Alone'
  <2>1. \A u \in Threads \ {t}, c \in Counters : Updates(u, c)' => Updates(u, c)
    BY <1>1, <1>3 DEF Updates
  <2>2. \A c \in Counters : Updates(t, c)' => c = CounterOf[pc[t]]
    BY <1>1 DEF Updates
  <2>3. \A u \in Threads : Shifts(u)' = Shifts(u)
    BY <1>1 DEF Shifts
  <2> QED
    BY <1>2, <2>1, <2>2, <2>3 DEF Alone
<1>5. LoadedNow'
  BY <1>1, <1>3 DEF LoadedNow
<1>6. Removing'
  BY <1>1 DEF Removing, Drops
<1>7. Balanced'
  <2>1. Owed' = Owed /\ Due' = Due /\ Outstanding' = Outstanding /\ Recorded' = Recorded /\ Since' = Since
    BY <1>1 DEF Owed, Owes, Due, Dues, Outstanding, Recorded, Since, Resetting
  <2> QED
    BY <1>1, <2>1 DEF Balanced
<1> QED
  BY <1>4, <1>5, <1>6, <1>7

(* A counter two threads updated at once and an address the table is wrong *)
(* about stay so.                                                          *)
LEMMA NothingIsMended == [Next]_vars => torn \subseteq torn' /\ spoilt \subseteq spoilt'
<1> SUFFICES ASSUME [Next]_vars PROVE torn \subseteq torn' /\ spoilt \subseteq spoilt'
  OBVIOUS
<1> USE DEF vars, countVars, heapVars
<1>1. ASSUME NEW t \in Threads, MallocStep(t) PROVE torn \subseteq torn' /\ spoilt \subseteq spoilt'
  BY <1>1 DEF MallocStep, CallMalloc, InsertSize, MallocUncounted, AddAllocated, AddSinceMalloc, Store
<1>2. ASSUME NEW t \in Threads, FreeStep(t) PROVE torn \subseteq torn' /\ spoilt \subseteq spoilt'
  BY <1>2 DEF FreeStep, CallFree, FreeUncounted, LookUpSize, AddFreed, RemoveSize, SubtractSinceFree, Store
<1>3. ASSUME NEW t \in Threads, ReadStep(t) \/ Load(t) PROVE torn \subseteq torn' /\ spoilt \subseteq spoilt'
  BY <1>3 DEF ReadStep, CallRead, LoadEntry, StoreEntry, TakeSince, ResetSince, CallOrigRead, Load
<1>4. ASSUME NEW t \in Threads, Calloc(t) \/ Realloc(t) PROVE torn \subseteq torn' /\ spoilt \subseteq spoilt'
  BY <1>4 DEF Calloc, Realloc
<1>5. RegisterRead \/ RegisterFree \/ Initialised \/ UNCHANGED vars
        => torn \subseteq torn' /\ spoilt \subseteq spoilt'
  BY DEF RegisterRead, RegisterFree, Initialised
<1> QED
  BY <1>1, <1>2, <1>3, <1>4, <1>5 DEF Next

LEMMA StepKeepsBooks ==
  ASSUME IsFiniteSet(Threads), IsFiniteSet(Blocks)
  PROVE  IInv /\ TypeOK' /\ Books /\ [Next]_vars => Books'
<1> SUFFICES ASSUME IInv, TypeOK', Books, [Next]_vars, Clean' PROVE Kept'
  BY DEF Books, Kept, Clean
<1>1. Clean
  BY NothingIsMended DEF Clean
<1>2. Kept
  BY <1>1 DEF Books, Kept, Clean
<1>3. ASSUME NEW t \in Threads, Calloc(t) \/ Realloc(t) PROVE Kept'
  <2>1. UNCHANGED ledgerVars
    BY <1>3 DEF Calloc, Realloc, tapVars, countVars, readVars, ledgerVars
  <2> QED
    BY <1>2, <2>1, SameLedger
<1>4. CASE RegisterRead \/ RegisterFree \/ Initialised \/ UNCHANGED vars
  <2>1. UNCHANGED ledgerVars
    BY <1>4 DEF RegisterRead, RegisterFree, Initialised, vars, tapVars, countVars, readVars, ledgerVars
  <2> QED
    BY <1>2, <2>1, SameLedger
<1> QED
  BY <1>1, <1>2, <1>3, <1>4, MallocKeepsBooks, FreeKeepsBooks, ReadKeepsBooks, LoadKeepsBooks DEF Next

LEMMA InitBooks ==
  ASSUME IsFiniteSet(Threads), IsFiniteSet(Blocks)
  PROVE  Init => Books
<1> SUFFICES ASSUME Init PROVE Alone /\ LoadedNow /\ Removing /\ Balanced
  BY DEF Books
<1>1. Alone /\ LoadedNow
  BY CounterOfDef DEF Init, Alone, LoadedNow, Updates, Shifts
<1>2. Removing
  BY DEF Init, Removing, Drops
<1>3. Balanced
  <2>1. TypeOK
    BY InitIInv DEF IInv
  <2>2. Ledger
    BY <2>1, LedgerTypes
  <2>3. Total(blockSizes) = 0 /\ Total(Owed) = 0 /\ Total(Due) = 0
    <3>1. IsFiniteSet(Blocks \cup {NULL}) /\ \A b \in Blocks \cup {NULL} : blockSizes[b] = 0
      BY FS_AddElement DEF Init
    <3>2. \A t \in Threads : Owed[t] = 0 /\ Due[t] = 0
      BY DEF Init, Owed, Due, Owes, Dues
    <3> QED
      BY <2>2, <3>1, <3>2, SumOfZeros DEF Ledger
  <2>4. Total(histo) = 0
    <3>1. IsFiniteSet(1 .. S_LEN) /\ histo \in [1 .. S_LEN -> Int] /\ \A k \in 1 .. S_LEN : histo[k] = 0
      BY <2>1, FS_Interval, ScaleyAssumption DEF Init, TypeOK
    <3> QED
      BY <3>1, SumOfZeros
  <2>5. Outstanding = 0 /\ Recorded = 0 /\ Since = 0
    BY <2>4 DEF Init, Outstanding, Recorded, Since, Resetting, Counters
  <2> QED
    BY <2>3, <2>5 DEF Balanced
<1> QED
  BY <1>1, <1>2, <1>3

(* With nobody in a wrapper nothing is owed or due.                        *)
LEMMA BooksBalance ==
  ASSUME IsFiniteSet(Threads), IsFiniteSet(Blocks)
  PROVE  TypeOK /\ Books => Accounts
<1> SUFFICES ASSUME TypeOK, Books, \A t \in Threads : pc[t] = "out", torn = {}, spoilt = {}
             PROVE  /\ counter["allocated"] - counter["freed"] = Total(blockSizes)
                    /\ past + Total(histo) + roundedOff + counter["sinceRead"] = Total(blockSizes)
  BY DEF Accounts
<1>1. Balanced
  BY DEF Books
<1>2. Ledger
  BY LedgerTypes
<1>3. Total(Owed) = 0 /\ Total(Due) = 0
  <2>1. \A t \in Threads : Owed[t] = 0 /\ Due[t] = 0
    BY DEF Owed, Due, Owes, Dues
  <2> QED
    BY <1>2, <2>1, SumOfZeros DEF Ledger
<1>4. Since = counter["sinceRead"]
  BY DEF Since, Resetting
<1>5. Total(blockSizes) \in Int
  <2>1. IsFiniteSet(Blocks \cup {NULL})
    BY FS_AddElement
  <2> QED
    BY <1>2, <2>1, SumIsInt DEF Ledger
<1> QED
  BY <1>1, <1>3, <1>4, <1>5 DEF Balanced, Outstanding, Recorded

(* In a program with finitely many threads and blocks: as long as no two   *)
(* threads update a counter at once and no address is spoilt, the counters *)
(* and the histogram account for every byte of the table whenever nobody   *)
(* is in a wrapper (Scaley.c:39-42, 59-60, 72-89).                         *)
THEOREM AccountsHold ==
  ASSUME IsFiniteSet(Threads), IsFiniteSet(Blocks)
  PROVE  Spec => []Accounts
<1>1. Init => IInv /\ Books
  BY InitIInv, InitBooks
<1>2. IInv /\ Books /\ [Next]_vars => (IInv /\ Books)'
  <2>1. IInv /\ [Next]_vars => IInv' /\ TypeOK'
    BY StepKeepsIInv DEF IInv
  <2> QED
    BY <2>1, StepKeepsBooks
<1>3. IInv /\ Books => Accounts
  BY BooksBalance DEF IInv
<1> QED
  BY <1>1, <1>2, <1>3, PTL DEF Spec
=============================================================================
