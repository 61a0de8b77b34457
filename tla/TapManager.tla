----------------------------- MODULE TapManager -----------------------------
(***************************************************************************)
(* The TAP manager (thread_constructor.c, Applier.c) and the thread        *)
(* constructor and destructor protocol of a TAP (legerdemain.h).  A        *)
(* library constructor walks the names in LDM_TAPS, opens each library,    *)
(* registers its thread constructor and calls its initializer.  Every      *)
(* pthread_create of the program is wrapped: the new thread first calls    *)
(* the registered constructors, and, when it ends, the thread library      *)
(* calls the destructor of every key the thread has a value for.           *)
(*                                                                         *)
(* ldm.sh preloads the libraries of LDM_TAPS as well, so they are in the   *)
(* global scope in the order of the list.                                  *)
(***************************************************************************)
EXTENDS Integers, Sequences, FiniteSets

CONSTANTS
  Taps,          (* the names LDM_TAPS may hold                             *)
  NoTap,         (* NULL, as a library handle or a constructor              *)
  TapList,       (* LDM_TAPS, cut into tokens                               *)
  Installed,     (* the names dlopen finds a library for                    *)
  ThreadAware,   (* the libraries that define LDM_PLUGIN_THD_INIT           *)
  WithInit,      (* the libraries that define LDM_PLUGIN_INIT               *)
  KeyVar,        (* KeyVar[p]: the variable that the identifier of          *)
                 (* LDM_THD_DTR_DECL in p is bound to                       *)
  LDM_MAX_TCTRS, (* entries of LDM_thd_ctr                                  *)
  Threads        (* the program's threads                                   *)

ASSUME TapAssumption ==
  /\ NoTap \notin Taps
  /\ TapList \in Seq(Taps)
  /\ Installed \subseteq Taps
  /\ ThreadAware \subseteq Taps
  /\ WithInit \subseteq Taps
  /\ DOMAIN KeyVar = Taps
  /\ LDM_MAX_TCTRS \in Nat \ {0}

KeyVars == {KeyVar[p] : p \in Taps}

(* The table, and the memory behind it, that a list longer than the table  *)
(* reaches: 47-50 warn of a full table and go on.  Nothing else is taken   *)
(* to be there.                                                            *)
Entries == 0 .. (LDM_MAX_TCTRS + Len(TapList))

LoaderPCs == {"reg", "token", "ctr", "store", "bump", "init", "main"}
ThreadPCs == {"none", "ctors", "run", "dtrs", "dead"}

VARIABLES
  lpc,          (* where the manager's library constructor is              *)
  todo,         (* what strtok_r has left of LDM_TAPS                      *)
  handle,       (* what dlopen returned for the current token              *)
  LDM_thd_ctr,  (* the registered thread constructors, by their TAP        *)
  LDM_numCtrs,
  keyDtr,       (* the pthread keys: keyDtr[k + 1] is the TAP whose        *)
                (* destructor key k has                                    *)
  key,          (* the value of each variable that holds a key             *)
  pc,           (* where each thread is                                    *)
  ci,           (* its index in the constructor loop                       *)
  values,       (* the keys it has a value for                             *)
  ran,          (* history: the TAPs whose constructor it has run          *)
  ended,        (* history: the TAPs whose destructor it has run           *)
  early         (* history: it was created before the TAPs were loaded     *)

loaderVars == <<lpc, todo, handle>>
tableVars  == <<LDM_thd_ctr, LDM_numCtrs>>
keyVars    == <<keyDtr, key>>
threadVars == <<pc, ci, values, ran, ended, early>>
vars == <<loaderVars, tableVars, keyVars, threadVars>>

Init ==
  /\ lpc = "reg"
  /\ todo = TapList
  /\ handle = NoTap
  /\ LDM_thd_ctr = [i \in Entries |-> NoTap]
  /\ LDM_numCtrs = 0
  /\ keyDtr = <<>>
  /\ key = [v \in KeyVars |-> 0]
  /\ pc = [t \in Threads |-> "none"]
  /\ ci = [t \in Threads |-> 0]
  /\ values = [t \in Threads |-> {}]
  /\ ran = [t \in Threads |-> <<>>]
  /\ ended = [t \in Threads |-> <<>>]
  /\ early = [t \in Threads |-> FALSE]

-----------------------------------------------------------------------------
(* The library constructor. *)

(* LDM_REG(pthread_create): from here on a thread can be created.          *)
RegisterCreate ==
  /\ lpc = "reg"
  /\ lpc' = "token"
  /\ UNCHANGED <<todo, handle, tableVars, keyVars, threadVars>>

(* A library that cannot be opened is reported and treated like any other. *)
LoadToken ==
  /\ lpc = "token"
  /\ todo # <<>>
  /\ todo' = Tail(todo)
  /\ handle' = IF Head(todo) \in Installed THEN Head(todo) ELSE NoTap
  /\ lpc' = "ctr"
  /\ UNCHANGED <<tableVars, keyVars, threadVars>>

LoadingDone ==
  /\ lpc = "token"
  /\ todo = <<>>
  /\ lpc' = "main"
  /\ UNCHANGED <<todo, handle, tableVars, keyVars, threadVars>>

(* A null handle is RTLD_DEFAULT: the search is of the global scope, where *)
(* the preloaded libraries are in the order of the list.                   *)
FirstPreloaded(S) ==
  LET hits == {i \in DOMAIN TapList : TapList[i] \in Installed \cap S}
  IN  IF hits = {} THEN NoTap
      ELSE TapList[CHOOSE i \in hits : \A j \in hits : i <= j]

(* Mutant: what a library does not define is looked up in all of them.     *)
dlsymDefault(h, S) == IF h \in S THEN h ELSE FirstPreloaded(S)

dlsym(h, S) ==
  IF h = NoTap THEN FirstPreloaded(S) ELSE IF h \in S THEN h ELSE NoTap

NoCtor ==
  /\ lpc = "ctr"
  /\ dlsym(handle, ThreadAware) = NoTap
  /\ lpc' = "init"
  /\ UNCHANGED <<todo, handle, tableVars, keyVars, threadVars>>

(* LDM_thd_ctr[LDM_numCtrs++] = fptr.  The compiler may make the two       *)
(* stores in either order, and a thread may read between them.             *)
CtorBumpFirst ==
  /\ lpc = "ctr"
  /\ dlsym(handle, ThreadAware) # NoTap
  /\ LDM_numCtrs' = LDM_numCtrs + 1
  /\ lpc' = "store"
  /\ UNCHANGED <<todo, handle, LDM_thd_ctr, keyVars, threadVars>>

CtorStore ==
  /\ lpc = "store"
  /\ LDM_thd_ctr' = [LDM_thd_ctr EXCEPT ![LDM_numCtrs - 1]
                       = dlsym(handle, ThreadAware)]
  /\ lpc' = "init"
  /\ UNCHANGED <<todo, handle, LDM_numCtrs, keyVars, threadVars>>

CtorStoreFirst ==
  /\ lpc = "ctr"
  /\ dlsym(handle, ThreadAware) # NoTap
  /\ LDM_thd_ctr' = [LDM_thd_ctr EXCEPT ![LDM_numCtrs]
                       = dlsym(handle, ThreadAware)]
  /\ lpc' = "bump"
  /\ UNCHANGED <<todo, handle, LDM_numCtrs, keyVars, threadVars>>

CtorBump ==
  /\ lpc = "bump"
  /\ LDM_numCtrs' = LDM_numCtrs + 1
  /\ lpc' = "init"
  /\ UNCHANGED <<todo, handle, LDM_thd_ctr, keyVars, threadVars>>

(* LDM_PLUGIN_INIT of a thread-aware TAP: LDM_REGISTER_THD_DTR, which is   *)
(* pthread_key_create.                                                     *)
RegisterDtr(p) ==
  /\ keyDtr' = Append(keyDtr, p)
  /\ key' = [key EXCEPT ![KeyVar[p]] = Len(keyDtr)]

RunInit ==
  /\ lpc = "init"
  /\ LET p == dlsym(handle, WithInit)
     IN  \/ p \in ThreadAware /\ RegisterDtr(p)
         \/ p \notin ThreadAware /\ UNCHANGED keyVars
  /\ lpc' = "token"
  /\ UNCHANGED <<todo, handle, tableVars, threadVars>>

-----------------------------------------------------------------------------
(* Threads. *)

(* The wrapped pthread_create; an ended thread's identity is free again.   *)
(* An initializer may create threads while the list is still being walked. *)
Create(t) ==
  /\ pc[t] \in {"none", "dead"}
  /\ lpc # "reg"
  /\ pc' = [pc EXCEPT ![t] = "ctors"]
  /\ ci' = [ci EXCEPT ![t] = 0]
  /\ ran' = [ran EXCEPT ![t] = <<>>]
  /\ ended' = [ended EXCEPT ![t] = <<>>]
  /\ early' = [early EXCEPT ![t] = lpc # "main"]
  /\ UNCHANGED <<values, loaderVars, tableVars, keyVars>>

(* Mutant: the destructor is installed under a key nobody has created.     *)
InstallsUnchecked(p) == {key[KeyVar[p]]}

(* LDM_INSTALL_THD_DTR is pthread_setspecific: without effect for a key    *)
(* that does not exist.                                                    *)
Installs(p) == {k \in {key[KeyVar[p]]} : k < Len(keyDtr)}

(* Mutant: the constructor does not install its destructor when a value is *)
(* already installed in the thread.                                        *)
CallCtorOneKey(t) ==
  /\ pc[t] = "ctors"
  /\ ci[t] < LDM_numCtrs
  /\ LET p == LDM_thd_ctr[ci[t]]
     IN  /\ p # NoTap
         /\ ran' = [ran EXCEPT ![t] = Append(@, p)]
         /\ values' = [values EXCEPT ![t] = IF @ = {} THEN Installs(p) ELSE @]
  /\ ci' = [ci EXCEPT ![t] = @ + 1]
  /\ UNCHANGED <<pc, ended, early, loaderVars, tableVars, keyVars>>

(* One round of threadStartFunc's loop. *)
CallCtor(t) ==
  /\ pc[t] = "ctors"
  /\ ci[t] < LDM_numCtrs
  /\ LET p == LDM_thd_ctr[ci[t]]
     IN  /\ p # NoTap
         /\ ran' = [ran EXCEPT ![t] = Append(@, p)]
         /\ values' = [values EXCEPT ![t] = @ \cup Installs(p)]
  /\ ci' = [ci EXCEPT ![t] = @ + 1]
  /\ UNCHANGED <<pc, ended, early, loaderVars, tableVars, keyVars>>

SkipCtor(t) ==
  /\ pc[t] = "ctors"
  /\ ci[t] < LDM_numCtrs
  /\ LDM_thd_ctr[ci[t]] = NoTap
  /\ ci' = [ci EXCEPT ![t] = @ + 1]
  /\ UNCHANGED <<pc, values, ran, ended, early, loaderVars, tableVars,
                 keyVars>>

(* Mutant: the loop stops one short of the last constructor.               *)
StartRoutineOneShort(t) ==
  /\ pc[t] = "ctors"
  /\ ci[t] + 1 >= LDM_numCtrs
  /\ pc' = [pc EXCEPT ![t] = "run"]
  /\ UNCHANGED <<ci, values, ran, ended, early, loaderVars, tableVars,
                 keyVars>>

StartRoutine(t) ==
  /\ pc[t] = "ctors"
  /\ ci[t] >= LDM_numCtrs
  /\ pc' = [pc EXCEPT ![t] = "run"]
  /\ UNCHANGED <<ci, values, ran, ended, early, loaderVars, tableVars,
                 keyVars>>

Return(t) ==
  /\ pc[t] = "run"
  /\ pc' = [pc EXCEPT ![t] = "dtrs"]
  /\ UNCHANGED <<ci, values, ran, ended, early, loaderVars, tableVars,
                 keyVars>>

RunDtr(t) ==
  /\ pc[t] = "dtrs"
  /\ \E k \in values[t] :
       /\ ended' = [ended EXCEPT ![t] = Append(@, keyDtr[k + 1])]
       /\ values' = [values EXCEPT ![t] = @ \ {k}]
  /\ UNCHANGED <<pc, ci, ran, early, loaderVars, tableVars, keyVars>>

End(t) ==
  /\ pc[t] = "dtrs"
  /\ values[t] = {}
  /\ pc' = [pc EXCEPT ![t] = "dead"]
  /\ UNCHANGED <<ci, values, ran, ended, early, loaderVars, tableVars,
                 keyVars>>

-----------------------------------------------------------------------------
LoaderStep ==
  \/ RegisterCreate \/ LoadToken \/ LoadingDone
  \/ NoCtor \/ CtorBumpFirst \/ CtorStore \/ CtorStoreFirst \/ CtorBump
  \/ RunInit

StartStep(t) == CallCtor(t) \/ SkipCtor(t) \/ StartRoutine(t)

EndStep(t) == RunDtr(t) \/ End(t)

Next ==
  \/ LoaderStep
  \/ \E t \in Threads : Create(t) \/ StartStep(t) \/ Return(t) \/ EndStep(t)

Spec == Init /\ [][Next]_vars

-----------------------------------------------------------------------------
(* Properties. *)

(* Every variable has its type; a thread has values only for keys that     *)
(* exist, so every destructor it runs is some TAP's.                       *)
TypeOK ==
  /\ lpc \in LoaderPCs
  /\ todo \in Seq(Taps)
  /\ handle \in Taps \cup {NoTap}
  /\ LDM_thd_ctr \in [Entries -> Taps \cup {NoTap}]
  /\ LDM_numCtrs \in Nat
  /\ keyDtr \in Seq(Taps)
  /\ key \in [KeyVars -> Nat]
  /\ pc \in [Threads -> ThreadPCs]
  /\ ci \in [Threads -> Nat]
  /\ values \in [Threads -> SUBSET (0 .. Len(keyDtr) - 1)]
  /\ ran \in [Threads -> Seq(Taps)]
  /\ ended \in [Threads -> Seq(Taps)]
  /\ early \in [Threads -> BOOLEAN]

(* The thread constructors the first n names of LDM_TAPS ask for, in its   *)
(* order, and those all of it asks for.                                    *)
selected[n \in 0 .. Len(TapList)] ==
  IF n = 0 THEN <<>>
  ELSE IF TapList[n] \in Installed \cap ThreadAware
       THEN Append(selected[n - 1], TapList[n])
       ELSE selected[n - 1]

Wanted == selected[Len(TapList)]

(* A constructor that finds the table full is not registered               *)
(* (thread_constructor.c:47-48, "cannot register thread constructor [...]  *)
(* because there are already %d registered").                              *)
TableBounds == LDM_numCtrs <= LDM_MAX_TCTRS

(* A thread created once the TAPs are loaded enters its start routine with *)
(* every thread constructor run, in the order of the list (README:117: "A  *)
(* thread constructor is called by every thread just before entering its   *)
(* start_routine").                                                        *)
RunsEveryCtor ==
  \A t \in Threads :
    pc[t] \in {"run", "dtrs", "dead"} /\ ~early[t] => ran[t] = Wanted

(* No thread, not even one that starts while TAPs are being loaded, runs a *)
(* TAP's constructor twice or two constructors in the wrong order          *)
(* (README:127: "only one may be specified per TAP").                      *)
Before(p, q) ==
  \E m, n \in DOMAIN TapList : m < n /\ TapList[m] = p /\ TapList[n] = q

CtorOncePerTap ==
  \A t \in Threads : \A i, j \in DOMAIN ran[t] :
    i < j => Before(ran[t][i], ran[t][j])

(* A thread created once the TAPs are loaded has, when it has ended, run   *)
(* the destructor of every TAP whose constructor it ran, once              *)
(* (README:129-135, and README:158 on what follows if it has not).         *)
DtrForEveryCtor ==
  \A t \in Threads :
    pc[t] = "dead" /\ ~early[t] =>
      /\ Len(ended[t]) = Len(ran[t])
      /\ \A i \in DOMAIN ran[t] : \E j \in DOMAIN ended[t] : ended[t][j] = ran[t][i]
=============================================================================
