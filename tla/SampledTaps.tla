---------------------------- MODULE SampledTaps ----------------------------
(***************************************************************************)
(* The TAP manager with a sampled TAP in its list                          *)
(* (clientlibs/NullSampledWatcher over sampled_thread_monitor.c):          *)
(* TapManager and SampledThreadMonitor put together.  The constructor of   *)
(* the sampled TAP, which TapManager takes for one step, lists the thread  *)
(* under threadListLock; its destructor takes it off the list; its         *)
(* initializer empties the list, looks up the thread library's functions,  *)
(* makes the lock and starts the monitor.                                  *)
(*                                                                         *)
(* SampledThreadMonitor takes for granted that the initializer comes       *)
(* first, that every thread comes through the constructor once, and        *)
(* through the destructor before it ends.  Here that is up to the manager. *)
(***************************************************************************)
EXTENDS TapManager, SequencesExt

CONSTANTS
  Sampled,                                       (* the sampled TAP        *)
  NoThread, Monitor, Nobody, MAX_NUM_THREADS, Rates, LateDelivery,
  MaxEarly       (* bound: threads created during the loading, at a time   *)

ASSUME SampledAssumption ==
  /\ Sampled \in ThreadAware \cap WithInit
  /\ NoThread \notin Threads /\ Monitor \notin Threads
  /\ Nobody \notin Threads \cup {Monitor}
  /\ MAX_NUM_THREADS \in Nat \ {0}
  /\ Rates \subseteq Nat
  /\ LateDelivery \in BOOLEAN

VARIABLES
  threadList, threadId, samplingState, active, lock, handlerSet,
  pending, inClient, merged, mpc, mi,   (* as in SampledThreadMonitor      *)
  spc,     (* where each thread is in the sampled TAP                      *)
  ready,   (* how far its initializer has come                             *)
  fault,   (* a call of a null pointer, or a lock made while it is held    *)
  hurried  (* history: a thread has called a constructor before the        *)
           (* initializer of its TAP had made the key, or, of the sampled  *)
           (* TAP, had returned                                            *)

samplerVars == <<threadList, threadId, samplingState, active, lock, handlerSet,
                 pending, inClient, merged, mpc, mi, spc>>
allVars == <<vars, samplerVars, ready, fault, hurried>>

(* The threads with a value under a key that has the destructor of the     *)
(* sampled TAP.                                                            *)
WithDtr == {t \in Threads : \E k \in values[t] : keyDtr[k + 1] = Sampled}

M == INSTANCE SampledThreadMonitor WITH pc <- spc, dtr <- WithDtr

SampledInit ==
  /\ Init
  /\ M!Init
  /\ ready = "no"
  /\ fault = "none"
  /\ hurried = FALSE

-----------------------------------------------------------------------------
(* The initializer. *)

(* The key is made; the loader is in sampled_thread_monitor_init.          *)
BeginInit ==
  /\ RunInit
  /\ lpc = "init" /\ dlsym(handle, WithInit) = Sampled
  /\ ready' = "key"
  /\ UNCHANGED <<samplerVars, fault, hurried>>

(* The list is emptied and the three functions are looked up.              *)
LookUpFunctions ==
  /\ ready = "key"
  /\ threadList' = [s \in M!Slots |-> NoThread]
  /\ ready' = "functions"
  /\ UNCHANGED <<vars, threadId, samplingState, active, lock, handlerSet, pending,
                 inClient, merged, mpc, mi, spc, fault, hurried>>

(* pthread_mutex_init; the monitor can start.  What becomes of a lock that *)
(* a thread holds is undefined.                                            *)
MakeLock ==
  /\ ready = "functions"
  /\ ready' = "yes"
  /\ fault' = IF lock = Nobody THEN "none" ELSE "lock_remade"
  /\ UNCHANGED <<vars, samplerVars, hurried>>

(* Mutant: the initializer runs beside the rest of the loading.            *)
LoadGoesOn ==
  /\ LoaderStep
  /\ ~(lpc = "init" /\ dlsym(handle, WithInit) = Sampled)
  /\ UNCHANGED <<samplerVars, ready, fault, hurried>>

(* The loader does nothing else until the initializer has returned.        *)
Load ==
  /\ LoaderStep
  /\ ready \in {"no", "yes"}
  /\ ~(lpc = "init" /\ dlsym(handle, WithInit) = Sampled)
  /\ UNCHANGED <<samplerVars, ready, fault, hurried>>

-----------------------------------------------------------------------------
(* Threads.  A thread is in the sampled TAP's code or in the manager's,    *)
(* and in neither while its handler runs.                                  *)

Outside(t) == spc[t] \in {"none", "run", "exiting"} /\ inClient[t] = M!Idle

CtorIs(t, p) == pc[t] = "ctors" /\ ci[t] < LDM_numCtrs /\ LDM_thd_ctr[ci[t]] = p

(* The thread's next constructor is that of a TAP not yet initialised.     *)
Hurries(t) ==
  \E p \in ThreadAware :
    /\ CtorIs(t, p)
    /\ (\A k \in DOMAIN keyDtr : keyDtr[k] # p) \/ (p = Sampled /\ ready # "yes")

(* The first threads are made by an initializer, at the earliest.          *)
SpawnThread(t) ==
  /\ Len(todo) + (IF lpc \in {"token", "main"} THEN 0 ELSE 1) < Len(TapList)
  /\ lpc = "main" \/ Cardinality({u \in Threads : early[u]}) < MaxEarly
  /\ Create(t)
  /\ UNCHANGED <<samplerVars, ready, fault, hurried>>

(* A step of the manager's that is not a step into the sampled TAP.        *)
WalkOn(t) ==
  /\ Outside(t)
  /\ ~CtorIs(t, Sampled)
  /\ StartStep(t)
  /\ hurried' = (hurried \/ Hurries(t))
  /\ UNCHANGED <<samplerVars, ready, fault>>

(* The call of the sampled TAP's constructor, in a thread whose TLS is new *)
(* the first time ...                                                      *)
EnterCtor(t) ==
  /\ Outside(t)
  /\ CtorIs(t, Sampled)
  /\ hurried' = (hurried \/ Hurries(t))
  /\ spc' = [spc EXCEPT ![t] = "ctor"]
  /\ samplingState' = [samplingState EXCEPT ![t] = IF spc[t] = "none" THEN M!SAMPLE_ON ELSE @]
  /\ threadId' = [threadId EXCEPT ![t] = IF spc[t] = "none" THEN 0 ELSE @]
  /\ UNCHANGED <<vars, threadList, active, lock, handlerSet, pending, inClient,
                 merged, mpc, mi, ready, fault>>

(* ... and the first thing it does, which may be without effect.           *)
Install(t) ==
  /\ spc[t] = "ctor"
  /\ CallCtor(t)
  /\ spc' = [spc EXCEPT ![t] = "sigaction"]
  /\ UNCHANGED <<threadList, threadId, samplingState, active, lock, handlerSet,
                 pending, inClient, merged, mpc, mi, ready, fault, hurried>>

(* The rest of the constructor, and the destructor.                        *)
InTap(t) ==
  /\ spc[t] \in {"reglock", "exitlock"} => ready \in {"functions", "yes"}
  /\ UNCHANGED <<vars, ready, fault, hurried>>
  /\ \/ M!InstallHandler(t) \/ M!RegisterLock(t) \/ M!Register(t)
     \/ M!SyncState(t) \/ M!RegisterUnlock(t)
     \/ M!DeinitLock(t) \/ M!DeinitClear(t) \/ M!DeinitUnlock(t)

(* myPthreadLock is null until the initializer has looked it up.           *)
CallNull(t) ==
  /\ spc[t] \in {"reglock", "exitlock"}
  /\ ready \in {"no", "key"}
  /\ fault' = "null_call"
  /\ UNCHANGED <<vars, samplerVars, ready, hurried>>

ReturnFrom(t) ==
  /\ Outside(t)
  /\ Return(t)
  /\ UNCHANGED <<samplerVars, ready, fault, hurried>>

(* Mutant: the TAP's destructor does not call                              *)
(* sampled_thread_monitor_deinit.                                          *)
CallDtrOnly(t) ==
  /\ Outside(t)
  /\ RunDtr(t)
  /\ spc' = spc
  /\ UNCHANGED <<threadList, threadId, samplingState, active, lock, handlerSet,
                 pending, inClient, merged, mpc, mi, ready, fault, hurried>>

(* The destructors of the keys are called one after the other.             *)
CallDtr(t) ==
  /\ Outside(t)
  /\ RunDtr(t)
  /\ spc' = [spc EXCEPT ![t] = IF Last(ended'[t]) = Sampled THEN "exitlock" ELSE @]
  /\ UNCHANGED <<threadList, threadId, samplingState, active, lock, handlerSet,
                 pending, inClient, merged, mpc, mi, ready, fault, hurried>>

(* The thread terminates, on the list or not.                              *)
Terminate(t) ==
  /\ Outside(t)
  /\ End(t)
  /\ spc' = [spc EXCEPT ![t] = "none"]
  /\ pending' = [pending EXCEPT ![t] = FALSE]
  /\ merged' = [merged EXCEPT ![t] = FALSE]
  /\ UNCHANGED <<threadList, threadId, samplingState, active, lock, handlerSet,
                 inClient, mpc, mi, ready, fault, hurried>>

Poked(t) ==
  /\ UNCHANGED <<vars, ready, fault, hurried>>
  /\ M!PokeEnter(t) \/ M!PokeReturn(t)

Monitoring ==
  /\ ready = "yes"
  /\ UNCHANGED <<vars, ready, fault, hurried>>
  /\ M!MonitorStep

-----------------------------------------------------------------------------
Loading == Load \/ BeginInit \/ LookUpFunctions \/ MakeLock

Living(t) ==
  \/ SpawnThread(t) \/ WalkOn(t) \/ EnterCtor(t) \/ Install(t) \/ InTap(t)
  \/ CallNull(t) \/ ReturnFrom(t) \/ CallDtr(t) \/ Terminate(t) \/ Poked(t)

(* Nothing is said of what follows a fault.                                *)
SampledNext ==
  fault = "none" /\ (Loading \/ Monitoring \/ \E t \in Threads : Living(t))

SampledSpec == SampledInit /\ [][SampledNext]_allVars

-----------------------------------------------------------------------------
(* Properties. *)

(* The manager keeps what SampledThreadMonitor takes for granted: as long  *)
(* as no thread calls a constructor before the initializer is done,        *)
(* threads sign on and off as it says, and what it says of the list and    *)
(* of the pokes holds of the whole (README:153-158).                       *)
SamplerAsAssumed == M!Init /\ [][hurried' \/ M!Next]_(M!vars)

(* Only a thread that was created while TAPs were being loaded can be too  *)
(* early, finding the constructor in the table (line 61) before the        *)
(* initializer is called (line 71); no other makes the program fail.       *)
HurriedOnlyEarly ==
  /\ fault # "none" => hurried
  /\ \A t \in Threads : Hurries(t) => early[t]

(* The monitor has no thread to poke that has terminated (README:156-158:  *)
(* a plugin's destructor has to deregister the thread, "as if you do not,  *)
(* your program will crash").                                              *)
PokesLiving == ~hurried => M!LiveTargets
=============================================================================
