------------------------------- MODULE Scaley -------------------------------
(***************************************************************************)
(* The Scaley TAP (clientlibs/Scaley/Scaley.c): it wraps malloc, free and  *)
(* read, keeps the size of every block in a hash table, and warns at a     *)
(* read if the program's memory has grown since S_LEN reads ago.  None of  *)
(* its state has a lock.                                                   *)
(*                                                                         *)
(* A step of a thread is one access to shared memory: one operation of the *)
(* table or the allocator, a load or a store of a counter or of an entry   *)
(* of the histogram.  That one operation of the table is a step leaves out *)
(* what glib does when two threads are inside it at once.  Also left out   *)
(* are the average and its warning, and numStdinBytes and lastReadBytes,   *)
(* which only read touches.                                                *)
(***************************************************************************)
EXTENDS Integers, Sequences, FiniteSets, FiniteSetsExt

CONSTANTS
  Threads,
  Blocks,    (* the addresses the allocator hands out                      *)
  NULL,      (* what it returns when it has none                           *)
  Sizes,     (* of blocks                                                  *)
  S_LEN,     (* reads the histogram goes back                              *)
  Floats,    (* the integers a float holds: beyond 2^24 not every one      *)
  MaxBytes,  (* bound: no call of malloc once so many bytes were counted   *)
  MaxReads   (* bound: calls of read                                       *)

ASSUME ScaleyAssumption ==
  /\ NULL \notin Blocks
  /\ Sizes \subseteq Nat \ {0}
  /\ S_LEN \in Nat \ {0, 1}
  /\ Floats \subseteq Int
  /\ MaxBytes \in Nat
  /\ MaxReads \in Nat

Counters == {"allocated", "freed", "sinceRead"}

VARIABLES
  origRead,    (* LDM_ORIG(read) is not null                               *)
  origFree,    (* LDM_ORIG(free) is not null                               *)
  inited,
  blockSizes,  (* the table; 0 is what a lookup of no entry gives          *)
  counter,     (* numAllocatedBytes, numFreedBytes, bytesSinceLastRead     *)
  histo,       (* allocPerStreamHisto                                      *)
  idx,         (* i in read: the entry a thread is about to overwrite      *)
  heap,        (* the allocator: the size of each block in use, or 0       *)
  owned,       (* the blocks the program has and may free                  *)
  pc,          (* where each thread is in the wrappers                     *)
  ptr,         (* its block                                                *)
  sz,          (* its size                                                 *)
  loaded,      (* its register, between a load and the store it is for     *)
  counted,     (* history: the blocks in use that malloc put in the table  *)
  past,        (* history: what the histogram has shifted out              *)
  roundedOff,  (* history: what it lost when bytes were made a float       *)
  reads,       (* history: calls of read                                   *)
  torn,        (* history: the counters two threads have updated at once,  *)
               (* and "histo" if two have shifted the histogram at once    *)
  spoilt       (* history: the addresses the table may be wrong about      *)

tapVars  == <<origRead, origFree, inited, blockSizes>>
countVars == <<counter, loaded, torn>>
readVars == <<histo, idx, past, roundedOff, reads>>
heapVars == <<heap, owned, counted, spoilt>>
vars == <<tapVars, countVars, readVars, heapVars, pc, ptr, sz>>

PCs == {"out", "insert", "allocated", "mallocSince", "lookup", "freed",
        "remove", "freeSince", "shift", "take", "readReset", "readCall",
        "crashed"}

Init ==
  /\ origRead = FALSE
  /\ origFree = FALSE
  /\ inited = FALSE
  /\ blockSizes = [b \in Blocks \cup {NULL} |-> 0]
  /\ counter = [c \in Counters |-> 0]
  /\ histo = [k \in 1 .. S_LEN |-> 0]
  /\ idx = [t \in Threads |-> 1]
  /\ heap = [b \in Blocks |-> 0]
  /\ owned = {}
  /\ pc = [t \in Threads |-> "out"]
  /\ ptr = [t \in Threads |-> NULL]
  /\ sz = [t \in Threads |-> 0]
  /\ loaded = [t \in Threads |-> <<>>]
  /\ counted = {}
  /\ past = 0
  /\ roundedOff = 0
  /\ reads = 0
  /\ torn = {}
  /\ spoilt = {}

-----------------------------------------------------------------------------
(* LDM_PLUGIN_INIT; threads may be running. *)

RegisterRead ==
  /\ ~origRead
  /\ origRead' = TRUE
  /\ UNCHANGED <<origFree, inited, blockSizes, countVars, readVars, heapVars,
                 pc, ptr, sz>>

RegisterFree ==
  /\ origRead
  /\ ~origFree
  /\ origFree' = TRUE
  /\ UNCHANGED <<origRead, inited, blockSizes, countVars, readVars, heapVars,
                 pc, ptr, sz>>

Initialised ==
  /\ origFree
  /\ ~inited
  /\ inited' = TRUE
  /\ UNCHANGED <<origRead, origFree, blockSizes, countVars, readVars, heapVars,
                 pc, ptr, sz>>

-----------------------------------------------------------------------------
(* Steps of a thread. *)

(* Bound: the program makes no more calls once a counter or the histogram  *)
(* may be wrong, or two addresses.                                         *)
Calls == torn = {} /\ Cardinality(spoilt) < 2

Goes(t, from, to) == pc[t] = from /\ pc' = [pc EXCEPT ![t] = to]

(* The wrapper returns, and its locals are gone. *)
Returns(t, from) ==
  /\ Goes(t, from, "out")
  /\ ptr' = [ptr EXCEPT ![t] = NULL]
  /\ sz' = [sz EXCEPT ![t] = 0]

(* The counter a thread is about to update, and the threads inside an      *)
(* update of counter c: between its load and its store, or, in read,       *)
(* between its load and its reset.                                         *)
CounterOf == [allocated |-> "allocated", mallocSince |-> "sinceRead",
              freed |-> "freed", freeSince |-> "sinceRead",
              take |-> "sinceRead", readReset |-> "sinceRead"]

Updating(c) ==
  {t \in Threads : /\ pc[t] \in DOMAIN CounterOf
                   /\ CounterOf[pc[t]] = c
                   /\ loaded[t] # <<>> \/ pc[t] = "readReset"}

(* The first half of counter += n: nobody else's store is seen any more.   *)
Load(t) ==
  /\ pc[t] \in DOMAIN CounterOf \ {"readReset"}
  /\ loaded[t] = <<>>
  /\ LET c == CounterOf[pc[t]]
     IN  /\ loaded' = [loaded EXCEPT ![t] = <<counter[c]>>]
         /\ torn' = torn \cup (IF Updating(c) = {} THEN {} ELSE {c})
  /\ UNCHANGED <<counter, tapVars, readVars, heapVars, pc, ptr, sz>>

Store(t, n) ==
  /\ loaded[t] # <<>>
  /\ counter' = [counter EXCEPT ![CounterOf[pc[t]]] = Head(loaded[t]) + n]
  /\ loaded' = [loaded EXCEPT ![t] = <<>>]
  /\ UNCHANGED <<torn, tapVars, readVars, heap, counted, spoilt>>

-----------------------------------------------------------------------------
(* malloc *)

(* The threads that have given block b back and not yet dropped its size.  *)
Dropping(b) ==
  {t \in Threads : ptr[t] = b /\ pc[t] \in {"lookup", "freed", "remove"}}

(* Mutant: a failed malloc gives the program a block.                      *)
KeepsNull(t) == owned' = owned \cup {ptr[t]}

(* Handed out before they have, b is one the table may be wrong about.     *)
Early(b) == IF Dropping(b) = {} THEN {} ELSE {b}

(* LDM_ORIG(malloc), registered on the way if need be.  A block may be one *)
(* whose size another thread is still dropping.                            *)
CallMalloc(t) ==
  /\ Calls
  /\ counter["allocated"] < MaxBytes
  /\ Goes(t, "out", "insert")
  /\ \E n \in Sizes :
       /\ sz' = [sz EXCEPT ![t] = n]
       /\ \/ \E b \in Blocks :
               /\ heap[b] = 0
               /\ heap' = [heap EXCEPT ![b] = n]
               /\ ptr' = [ptr EXCEPT ![t] = b]
               /\ spoilt' = spoilt \cup Early(b)
          \/ /\ \A b \in Blocks : heap[b] # 0
             /\ ptr' = [ptr EXCEPT ![t] = NULL]
             /\ spoilt' = spoilt \cup {NULL}
             /\ UNCHANGED heap
  /\ UNCHANGED <<tapVars, countVars, readVars, owned, counted>>

(* Before the TAP is initialised nothing is counted. *)
InsertSize(t) ==
  /\ inited
  /\ Goes(t, "insert", "allocated")
  /\ blockSizes' = [blockSizes EXCEPT ![ptr[t]] = sz[t]]
  /\ counted' = counted \cup ({ptr[t]} \ {NULL})
  /\ UNCHANGED <<origRead, origFree, inited, countVars, readVars, heap, owned,
                 spoilt, ptr, sz>>

Keeps(t) == owned' = owned \cup ({ptr[t]} \ {NULL})

MallocUncounted(t) ==
  /\ ~inited
  /\ Returns(t, "insert")
  /\ Keeps(t)
  /\ UNCHANGED <<tapVars, countVars, readVars, heap, counted, spoilt>>

AddAllocated(t) ==
  /\ Goes(t, "allocated", "mallocSince")
  /\ Store(t, sz[t])
  /\ UNCHANGED <<owned, ptr, sz>>

(* The last step of malloc: the program has its block.                     *)
AddSinceMalloc(t) ==
  /\ Returns(t, "mallocSince")
  /\ Store(t, sz[t])
  /\ Keeps(t)

-----------------------------------------------------------------------------
(* free *)

(* Until LDM_ORIG(free) is registered a block is leaked.  From then on the *)
(* first thing free does is to give the block back.  free(NULL) is looked  *)
(* up like any other.                                                      *)
CallFree(t) ==
  /\ Calls
  /\ \E b \in owned \cup {NULL} :
       /\ owned' = owned \ {b}
       /\ \/ /\ ~origFree
             /\ pc[t] = "out"
             /\ UNCHANGED <<heap, counted, pc, ptr>>
          \/ /\ origFree
             /\ Goes(t, "out", "lookup")
             /\ heap' = [h \in Blocks |-> IF h = b THEN 0 ELSE heap[h]]
             /\ counted' = counted \ {b}
             /\ ptr' = [ptr EXCEPT ![t] = b]
  /\ UNCHANGED <<tapVars, countVars, readVars, spoilt, sz>>

FreeUncounted(t) ==
  /\ ~inited
  /\ Returns(t, "lookup")
  /\ UNCHANGED <<tapVars, countVars, readVars, heapVars>>

LookUpSize(t) ==
  /\ inited
  /\ Goes(t, "lookup", IF blockSizes[ptr[t]] = 0 THEN "freeSince" ELSE "freed")
  /\ sz' = [sz EXCEPT ![t] = blockSizes[ptr[t]]]
  /\ UNCHANGED <<tapVars, countVars, readVars, heapVars, ptr>>

AddFreed(t) ==
  /\ Goes(t, "freed", "remove")
  /\ Store(t, sz[t])
  /\ UNCHANGED <<owned, ptr, sz>>

(* Mutant: the size stays in the table.                                    *)
RemoveNothing(t) ==
  /\ Goes(t, "remove", "freeSince")
  /\ UNCHANGED <<tapVars, countVars, readVars, heapVars, ptr, sz>>

RemoveSize(t) ==
  /\ Goes(t, "remove", "freeSince")
  /\ blockSizes' = [blockSizes EXCEPT ![ptr[t]] = 0]
  /\ UNCHANGED <<origRead, origFree, inited, countVars, readVars, heapVars, ptr, sz>>

SubtractSinceFree(t) ==
  /\ Returns(t, "freeSince")
  /\ Store(t, -sz[t])
  /\ UNCHANGED owned

-----------------------------------------------------------------------------
(* read *)

(* The threads that are shifting the histogram. *)
Shifting == {t \in Threads : pc[t] \in {"shift", "take"}}

(* Bound: the program reads as long as the accounts can be balanced.       *)
MayRead == torn = {} /\ spoilt = {} /\ reads < MaxReads

CallRead(t) ==
  /\ MayRead
  /\ Goes(t, "out", "shift")
  /\ idx' = [idx EXCEPT ![t] = 1]
  /\ reads' = reads + 1
  /\ torn' = torn \cup (IF Shifting = {} THEN {} ELSE {"histo"})
  /\ UNCHANGED <<counter, loaded, histo, past, roundedOff, tapVars, heapVars,
                 ptr, sz>>

(* allocPerStreamHisto[i] = allocPerStreamHisto[i+1], for all but the last *)
(* entry, one after the other.                                             *)
LoadEntry(t) ==
  /\ pc[t] = "shift"
  /\ loaded[t] = <<>>
  /\ loaded' = [loaded EXCEPT ![t] = <<histo[idx[t] + 1]>>]
  /\ UNCHANGED <<counter, torn, tapVars, readVars, heapVars, pc, ptr, sz>>

StoreEntry(t) ==
  /\ pc[t] = "shift"
  /\ loaded[t] # <<>>
  /\ histo' = [histo EXCEPT ![idx[t]] = Head(loaded[t])]
  /\ past' = past + (IF idx[t] = 1 THEN histo[1] ELSE 0)
  /\ loaded' = [loaded EXCEPT ![t] = <<>>]
  /\ LET last == idx[t] = S_LEN - 1
     IN  /\ pc' = [pc EXCEPT ![t] = IF last THEN "take" ELSE "shift"]
         /\ idx' = [idx EXCEPT ![t] = IF last THEN 1 ELSE idx[t] + 1]
  /\ UNCHANGED <<roundedOff, reads, counter, torn, tapVars, heapVars, ptr, sz>>

(* (float)n: a nearest integer that a float holds.                         *)
Distance(m, n) == IF m <= n THEN n - m ELSE m - n

ToFloat(n) ==
  {x \in Floats : \A y \in Floats : Distance(x, n) <= Distance(y, n)}

(* The last entry takes the bytes that were loaded.                        *)
TakeSince(t) ==
  /\ loaded[t] # <<>>
  /\ Goes(t, "take", "readReset")
  /\ \E x \in ToFloat(Head(loaded[t])) :
       /\ histo' = [histo EXCEPT ![S_LEN] = x]
       /\ roundedOff' = roundedOff + (Head(loaded[t]) - x)
  /\ loaded' = [loaded EXCEPT ![t] = <<>>]
  /\ UNCHANGED <<idx, past, reads, counter, torn, tapVars, heapVars, ptr, sz>>

(* Mutant: the bytes since the last read are counted on.                   *)
ResetNothing(t) ==
  /\ Goes(t, "readReset", "readCall")
  /\ UNCHANGED <<countVars, tapVars, readVars, heapVars, ptr, sz>>

ResetSince(t) ==
  /\ Goes(t, "readReset", "readCall")
  /\ counter' = [counter EXCEPT !["sinceRead"] = 0]
  /\ UNCHANGED <<loaded, torn, tapVars, readVars, heapVars, ptr, sz>>

(* Unlike malloc and free, read does not ask whether it is registered: the *)
(* call through the null pointer is this thread's end, and the others go   *)
(* on for as long as the process is not yet dead.                          *)
CallOrigRead(t) ==
  /\ Goes(t, "readCall", IF origRead THEN "out" ELSE "crashed")
  /\ UNCHANGED <<countVars, tapVars, readVars, heapVars, ptr, sz>>

-----------------------------------------------------------------------------
(* The rest of the allocator, which Scaley does not wrap. *)

Calloc(t) ==
  /\ Calls
  /\ pc[t] = "out"
  /\ \E b \in Blocks, n \in Sizes :
       /\ heap[b] = 0
       /\ heap' = [heap EXCEPT ![b] = n]
       /\ owned' = owned \cup {b}
       /\ spoilt' = spoilt \cup Early(b)
  /\ UNCHANGED <<tapVars, countVars, readVars, counted, pc, ptr, sz>>

(* The block moves, or grows or shrinks where it is. *)
Realloc(t) ==
  /\ Calls
  /\ pc[t] = "out"
  /\ \E a \in owned, b \in Blocks, n \in Sizes :
       /\ b = a \/ heap[b] = 0
       /\ heap' = [heap EXCEPT ![a] = 0, ![b] = n]
       /\ owned' = (owned \ {a}) \cup {b}
       /\ counted' = counted \ {a}
       /\ spoilt' = spoilt \cup Early(b) \cup ({a} \cap counted)
  /\ UNCHANGED <<tapVars, countVars, readVars, pc, ptr, sz>>

-----------------------------------------------------------------------------
MallocStep(t) ==
  CallMalloc(t) \/ InsertSize(t) \/ MallocUncounted(t) \/ AddAllocated(t)
    \/ AddSinceMalloc(t)

FreeStep(t) ==
  CallFree(t) \/ FreeUncounted(t) \/ LookUpSize(t) \/ AddFreed(t)
    \/ RemoveSize(t) \/ SubtractSinceFree(t)

ReadStep(t) ==
  CallRead(t) \/ LoadEntry(t) \/ StoreEntry(t) \/ TakeSince(t)
    \/ ResetSince(t) \/ CallOrigRead(t)

Next ==
  \/ RegisterRead \/ RegisterFree \/ Initialised
  \/ \E t \in Threads :
       Load(t) \/ MallocStep(t) \/ FreeStep(t) \/ ReadStep(t)
         \/ Calloc(t) \/ Realloc(t)

Spec == Init /\ [][Next]_vars

-----------------------------------------------------------------------------
(* Properties. *)

(* Every variable has its type; the program has only blocks in use.        *)
TypeOK ==
  /\ origRead \in BOOLEAN
  /\ origFree \in BOOLEAN
  /\ inited \in BOOLEAN
  /\ blockSizes \in [Blocks \cup {NULL} -> Sizes \cup {0}]
  /\ counter \in [Counters -> Int]
  /\ histo \in [1 .. S_LEN -> Int]
  /\ idx \in [Threads -> 1 .. S_LEN - 1]
  /\ heap \in [Blocks -> Sizes \cup {0}]
  /\ owned \subseteq {b \in Blocks : heap[b] # 0}
  /\ pc \in [Threads -> PCs]
  /\ ptr \in [Threads -> Blocks \cup {NULL}]
  /\ sz \in [Threads -> Sizes \cup {0}]
  /\ loaded \in [Threads -> Seq(Int)]
  /\ counted \subseteq {b \in Blocks : heap[b] # 0}
  /\ past \in Int
  /\ roundedOff \in Int
  /\ reads \in Nat
  /\ torn \subseteq Counters \cup {"histo"}
  /\ spoilt \subseteq Blocks \cup {NULL}

(* The table has the size of every block that malloc counted and the       *)
(* program has not given back, and of no other, as soon as no free of the  *)
(* address is under way; threads may allocate and free side by side.  The  *)
(* exceptions are the addresses realloc took blocks from, those handed out *)
(* again while a free of them, which gives the block back first (line 33), *)
(* had not yet dropped the old size (line 40), and NULL, which a failed    *)
(* malloc puts into the table.                                             *)
TableTracksHeap ==
  \A b \in (Blocks \cup {NULL}) \ spoilt :
    Dropping(b) = {} =>
      blockSizes[b] = IF b \in counted THEN heap[b] ELSE 0

Total(f) == MapThenSumSet(LAMBDA k : f[k], DOMAIN f)

(* When no thread is in a wrapper, the bytes allocated and not freed are   *)
(* what the table holds, and each of them was counted in one interval      *)
(* between reads: the histogram and bytesSinceLastRead add up to it, but   *)
(* for what the conversion to float rounded off.  Two threads may be in    *)
(* the wrappers together, as long as no two of them update the same        *)
(* counter or shift the histogram at once (lines 39-42, 59-60, 72-89;      *)
(* README:108: "plugins are *not* thread safe").                           *)
Accounts ==
  (\A t \in Threads : pc[t] = "out") /\ torn = {} /\ spoilt = {} =>
    /\ counter["allocated"] - counter["freed"] = Total(blockSizes)
    /\ past + Total(histo) + roundedOff + counter["sinceRead"] = Total(blockSizes)
=============================================================================
