------------------------- MODULE SampledTapsProofs -------------------------
(***************************************************************************)
(* Proofs about SampledTaps: a list whose libraries all exist, differ and  *)
(* have destructor keys of their own gives the sampled thread monitor      *)
(* what SampledThreadMonitor takes for granted.                            *)
(***************************************************************************)
EXTENDS SampledTaps, TapManagerProofs

(* SampledThreadMonitor with its proofs.                                   *)
MP == INSTANCE SampledThreadMonitorProofs WITH pc <- spc, dtr <- WithDtr

LEMMA SamplerConstants == MP!ConstantsAssumption
BY SampledAssumption DEF MP!ConstantsAssumption

(* M and MP are the same specification.                                    *)
LEMMA SameVars == UNCHANGED M!vars <=> UNCHANGED MP!vars
BY DEF M!vars, M!threadVars, M!signalVars, M!setupVars, M!monitorVars,
       MP!vars, MP!threadVars, MP!signalVars, MP!setupVars, MP!monitorVars

LEMMA SameInit == M!Init => MP!Init
BY DEF M!Init, MP!Init, M!Slots, MP!Slots, M!SAMPLE_ON, MP!SAMPLE_ON, M!Idle, MP!Idle

LEMMA SameThreadActions ==
  ASSUME NEW t \in Threads
  PROVE  /\ M!Create(t) => MP!Create(t)
         /\ M!InstallDtr(t) => MP!InstallDtr(t)
         /\ M!InstallHandler(t) => MP!InstallHandler(t)
         /\ M!RegisterLock(t) => MP!RegisterLock(t)
         /\ M!Register(t) => MP!Register(t)
         /\ M!SyncState(t) => MP!SyncState(t)
         /\ M!RegisterUnlock(t) => MP!RegisterUnlock(t)
         /\ M!Finish(t) => MP!Finish(t)
         /\ M!DeinitLock(t) => MP!DeinitLock(t)
         /\ M!DeinitClear(t) => MP!DeinitClear(t)
         /\ M!DeinitUnlock(t) => MP!DeinitUnlock(t)
         /\ M!Die(t) => MP!Die(t)
         /\ M!PokeEnter(t) => MP!PokeEnter(t)
         /\ M!PokeReturn(t) => MP!PokeReturn(t)
<1> USE DEF M!Transition, M!threadVars, M!signalVars, M!setupVars, M!monitorVars,
            M!SAMPLE_ON, M!SAMPLE_OFF, M!Idle, M!Slots,
            MP!Transition, MP!threadVars, MP!signalVars, MP!setupVars, MP!monitorVars,
            MP!SAMPLE_ON, MP!SAMPLE_OFF, MP!Idle, MP!Slots
<1>1. M!Create(t) => MP!Create(t)
  BY DEF M!Create, MP!Create
<1>2. M!InstallDtr(t) => MP!InstallDtr(t)
  BY DEF M!InstallDtr, MP!InstallDtr
<1>3. M!InstallHandler(t) => MP!InstallHandler(t)
  BY DEF M!InstallHandler, MP!InstallHandler
<1>4. M!RegisterLock(t) => MP!RegisterLock(t)
  BY DEF M!RegisterLock, MP!RegisterLock
<1>5. M!Register(t) => MP!Register(t)
  BY DEF M!Register, MP!Register, M!FirstFree, MP!FirstFree, M!FreeSlots, MP!FreeSlots
<1>6. M!SyncState(t) => MP!SyncState(t)
  BY DEF M!SyncState, MP!SyncState
<1>7. M!RegisterUnlock(t) => MP!RegisterUnlock(t)
  BY DEF M!RegisterUnlock, MP!RegisterUnlock
<1>8. M!Finish(t) => MP!Finish(t)
  BY DEF M!Finish, MP!Finish
<1>9. M!DeinitLock(t) => MP!DeinitLock(t)
  BY DEF M!DeinitLock, MP!DeinitLock
<1>10. M!DeinitClear(t) => MP!DeinitClear(t)
  BY DEF M!DeinitClear, MP!DeinitClear
<1>11. M!DeinitUnlock(t) => MP!DeinitUnlock(t)
  BY DEF M!DeinitUnlock, MP!DeinitUnlock
<1>12. M!Die(t) => MP!Die(t)
  BY DEF M!Die, MP!Die
<1>13. M!PokeEnter(t) => MP!PokeEnter(t)
  BY DEF M!PokeEnter, MP!PokeEnter
<1>14. M!PokeReturn(t) => MP!PokeReturn(t)
  BY DEF M!PokeReturn, MP!PokeReturn
<1> QED
  BY <1>1, <1>2, <1>3, <1>4, <1>5, <1>6, <1>7, <1>8, <1>9, <1>10, <1>11, <1>12, <1>13,
     <1>14

LEMMA SameMonitorStep == M!MonitorStep => MP!MonitorStep
<1> USE DEF M!threadVars, M!signalVars, M!setupVars, M!monitorVars, M!Idle,
            MP!threadVars, MP!signalVars, MP!setupVars, MP!monitorVars, MP!Idle
<1>1. M!MonitorStart => MP!MonitorStart
  BY DEF M!MonitorStart, MP!MonitorStart
<1>2. M!MonitorWake => MP!MonitorWake
  BY DEF M!MonitorWake, MP!MonitorWake, M!Quiet, MP!Quiet
<1>3. M!MonitorLock => MP!MonitorLock
  BY DEF M!MonitorLock, MP!MonitorLock
<1>4. M!MonitorPoke => MP!MonitorPoke
  BY DEF M!MonitorPoke, MP!MonitorPoke, M!Kill, MP!Kill
<1>5. M!MonitorFlip => MP!MonitorFlip
  BY DEF M!MonitorFlip, MP!MonitorFlip
<1>6. M!MonitorUnlock => MP!MonitorUnlock
  BY DEF M!MonitorUnlock, MP!MonitorUnlock
<1> QED
  BY <1>1, <1>2, <1>3, <1>4, <1>5, <1>6 DEF M!MonitorStep, MP!MonitorStep

LEMMA SameNext == M!Next => MP!Next
BY SameThreadActions, SameMonitorStep DEF M!Next, M!ThreadStep, MP!Next, MP!ThreadStep

-----------------------------------------------------------------------------
(* The manager is not disturbed by what the sampled TAP does.              *)
LEMMA ManagerStep == SampledNext => [Next]_vars
<1> SUFFICES ASSUME SampledNext PROVE [Next]_vars
  OBVIOUS
<1>1. CASE Loading
  <2>1. LoaderStep \/ UNCHANGED vars
    BY <1>1 DEF Loading, Load, BeginInit, LookUpFunctions, MakeLock, LoaderStep
  <2> QED
    BY <2>1 DEF Next
<1>2. CASE Monitoring
  BY <1>2 DEF Monitoring
<1>3. ASSUME NEW t \in Threads, Living(t) PROVE [Next]_vars
  <2>1. Create(t) \/ StartStep(t) \/ Return(t) \/ EndStep(t) \/ UNCHANGED vars
    BY <1>3 DEF Living, SpawnThread, WalkOn, EnterCtor, Install, InTap, CallNull,
                ReturnFrom, CallDtr, Terminate, Poked, StartStep, EndStep
  <2> QED
    BY <2>1 DEF Next
<1> QED
  BY <1>1, <1>2, <1>3 DEF SampledNext

(* SampledTaps implements TapManager, so that what holds of every list of  *)
(* TAPs holds of one with a sampled TAP in it.                             *)
THEOREM ImplementsTapManager == SampledSpec => Spec
<1>1. SampledInit => Init
  BY DEF SampledInit
<1>2. [SampledNext]_allVars => [Next]_vars
  BY ManagerStep DEF allVars
<1> QED
  BY <1>1, <1>2, PTL DEF SampledSpec, Spec

(* The lists the next theorems are about.                                  *)
ProperList == AllInstalled /\ OwnKeys /\ Initialises /\ NoRepeats

(* What TapManagerProofs says of the manager.                              *)
Managed == IInv /\ Loaded /\ Runs /\ KeysInv /\ KeysOnce

LEMMA ManagedHolds ==
  ASSUME ProperList
  PROVE  SampledSpec => []Managed
<1>1. AllInstalled /\ OwnKeys /\ Initialises /\ NoRepeats
  BY DEF ProperList
<1>2. Spec => []IInv /\ []Loaded /\ []Runs
  BY <1>1, RoomInvariant, TableFollowsTheList, RunsInvariant
<1>3. Spec => []KeysInv /\ []KeysOnce
  BY <1>1, KeysInvariant, DestructorsRegisteredOnce
<1>4. IInv /\ Loaded /\ Runs /\ KeysInv /\ KeysOnce => Managed
  BY DEF Managed
<1> QED
  BY ImplementsTapManager, <1>2, <1>3, <1>4, PTL

-----------------------------------------------------------------------------
(* The initializer. *)

(* The initializer of the sampled TAP runs while the loader waits for it, and  *)
(* has been called when the TAP's name is behind the loader.                   *)
ReadyInv ==
  /\ ready \in {"no", "key", "functions", "yes"}
  /\ ready \in {"key", "functions"} => lpc = "token"
  /\ ready = "no" <=> \A i \in 1 .. Through : TapList[i] # Sampled

LEMMA ReadyInit == SampledInit => ReadyInv
<1> SUFFICES ASSUME SampledInit PROVE ReadyInv
  OBVIOUS
<1>1. Through = 0
  BY ListFacts DEF SampledInit, Init, Through, Walked
<1> QED
  BY <1>1 DEF SampledInit, ReadyInv

(* RunInit calls the initializer of the name taken last. *)
LEMMA InitOf ==
  ASSUME ProperList, Managed, lpc = "init"
  PROVE  /\ Walked \in 1 .. Len(TapList)
         /\ dlsym(handle, WithInit) = Sampled <=> TapList[Walked] = Sampled
<1>1. /\ Walked \in 1 .. Len(TapList) /\ handle = TapList[Walked]
      /\ dlsym(handle, WithInit) = IF handle \in WithInit THEN handle ELSE NoTap
  BY HandleIs DEF Managed, Loaded, ProperList
<1>2. Sampled \in WithInit /\ Sampled # NoTap
  BY SampledAssumption, TapAssumption
<1> QED
  BY <1>1, <1>2

LEMMA RunInitReady ==
  ASSUME ProperList, Managed, ReadyInv, RunInit,
         ready' = IF dlsym(handle, WithInit) = Sampled THEN "key" ELSE ready,
         ready \in {"no", "yes"}
  PROVE  ReadyInv'
<1>1. /\ lpc = "init" /\ lpc' = "token" /\ Through = Walked - 1 /\ Through' = Walked
  BY DEF RunInit, Walked, Through
<1>2. /\ Walked \in 1 .. Len(TapList)
      /\ dlsym(handle, WithInit) = Sampled <=> TapList[Walked] = Sampled
  BY <1>1, InitOf
<1>3. ready = "no" <=> \A i \in 1 .. Walked - 1 : TapList[i] # Sampled
  BY <1>1 DEF ReadyInv
<1>4. \A i \in 1 .. Walked : i = Walked \/ i \in 1 .. Walked - 1
  BY <1>2
<1>5. Walked \in 1 .. Walked /\ \A i \in 1 .. Walked - 1 : i \in 1 .. Walked
  BY <1>2
<1>6. ready' = "no" <=> \A i \in 1 .. Walked : TapList[i] # Sampled
  BY <1>2, <1>3, <1>4, <1>5
<1>7. ready' \in {"no", "key", "functions", "yes"}
  OBVIOUS
<1> QED
  BY <1>1, <1>6, <1>7 DEF ReadyInv

LEMMA ReadyNext ==
  ASSUME ProperList, Managed, ReadyInv, [SampledNext]_allVars
  PROVE  ReadyInv'
<1>1. CASE UNCHANGED loaderVars /\ UNCHANGED ready
  <2>1. Through' = Through /\ lpc' = lpc
    BY <1>1 DEF loaderVars, Through, Walked
  <2> QED
    BY <1>1, <2>1 DEF ReadyInv
<1>2. CASE Load
  <2>1. CASE RunInit
    <3>1. lpc = "init" /\ dlsym(handle, WithInit) # Sampled
      BY <1>2, <2>1 DEF Load, RunInit
    <3> QED
      BY <1>2, <2>1, <3>1, RunInitReady DEF Load
  <2>2. CASE ~RunInit
    <3>1. Through' = Through
      BY <1>2, <2>2, ThroughMoves DEF Load, Managed
    <3> QED
      BY <1>2, <3>1 DEF Load, ReadyInv
  <2> QED
    BY <2>1, <2>2
<1>3. CASE BeginInit
  <2>1. lpc = "init"
    BY <1>3 DEF BeginInit
  <2>2. ready \in {"no", "yes"}
    BY <2>1 DEF ReadyInv
  <2> QED
    BY <1>3, <2>2, RunInitReady DEF BeginInit
<1>4. CASE LookUpFunctions \/ MakeLock
  <2>1. Through' = Through /\ lpc' = lpc
    BY <1>4 DEF LookUpFunctions, MakeLock, vars, loaderVars, Through, Walked
  <2>2. ready # "no" /\ ready' \in {"functions", "yes"} /\ ready \in {"key", "functions"}
    BY <1>4 DEF LookUpFunctions, MakeLock
  <2> QED
    BY <2>1, <2>2 DEF ReadyInv
<1>5. CASE Monitoring \/ UNCHANGED allVars
  BY <1>1, <1>5 DEF Monitoring, allVars, vars
<1>6. ASSUME NEW t \in Threads, Living(t) PROVE ReadyInv'
  <2>1. UNCHANGED loaderVars /\ UNCHANGED ready
    BY <1>6, ThreadsLeaveLoader
    DEF Living, SpawnThread, WalkOn, EnterCtor, Install, InTap, CallNull, ReturnFrom,
        CallDtr, Terminate, Poked, StartStep, EndStep, vars
  <2> QED
    BY <1>1, <2>1
<1> QED
  BY <1>2, <1>3, <1>4, <1>5, <1>6 DEF SampledNext, Loading

LEMMA ReadyInvariant ==
  ASSUME ProperList
  PROVE  SampledSpec => []ReadyInv
<1>1. Managed /\ ReadyInv /\ [SampledNext]_allVars => ReadyInv'
  BY ReadyNext
<1> QED
  BY ReadyInit, ManagedHolds, <1>1, PTL DEF SampledSpec

(* A TAP whose key has been made finds it in its variable. *)
LEMMA KeyIsMade ==
  ASSUME Managed, NEW p \in ThreadAware, NEW k \in DOMAIN keyDtr, keyDtr[k] = p
  PROVE  KeyOf(p) < Len(keyDtr) /\ keyDtr[KeyOf(p) + 1] = p
<1>1. k \in 1 .. Len(keyDtr)
  BY KeyFacts, LenProperties DEF Managed
<1>2. PICK i \in 1 .. Through : TapList[i] = p
  BY <1>1 DEF Managed, KeysOnce
<1> QED
  BY <1>2 DEF Managed, KeysInv, KeysMade

LEMMA SampledKeyIsMade ==
  ASSUME Managed, ReadyInv, ready # "no"
  PROVE  KeyOf(Sampled) < Len(keyDtr) /\ keyDtr[KeyOf(Sampled) + 1] = Sampled
<1>1. PICK i \in 1 .. Through : TapList[i] = Sampled
  BY DEF ReadyInv
<1> QED
  BY <1>1, SampledAssumption DEF Managed, KeysInv, KeysMade

-----------------------------------------------------------------------------
(* The threads. *)

InCtor == {"sigaction", "reglock", "insert", "sync", "regunlock"}
InDtr  == {"exitlock", "clear", "exitunlock", "exiting"}

(* Where a thread is in the sampled TAP, where it is in the manager, and what  *)
(* it has run and installed.                                                   *)
Coupled(t) ==
  /\ spc[t] = "ctor" => CtorIs(t, Sampled)
  /\ spc[t] \in InCtor => pc[t] = "ctors"
  /\ spc[t] \in InDtr => pc[t] = "dtrs"
  /\ spc[t] = "run" => pc[t] \in {"ctors", "run", "dtrs"}
  /\ spc[t] \notin {"none", "ctor"} => \E i \in 1 .. Len(ran[t]) : ran[t][i] = Sampled
  /\ t \in WithDtr => spc[t] \in InCtor \cup {"run"}

(* Before the initializer has returned nobody is in the sampled TAP.           *)
Unused == (\A t \in Threads : spc[t] = "none") /\ mpc = "start"

InStep ==
  /\ MP!TypeOK /\ MP!CoreInv
  /\ fault = "none"
  /\ ready # "yes" => Unused
  /\ \A t \in Threads : Coupled(t)

(* A step that does what SampledThreadMonitor allows, and keeps the rest.   *)
Follows ==
  /\ M!Next \/ UNCHANGED M!vars
  /\ fault' = "none"
  /\ ready' # "yes" => Unused'
  /\ \A t \in Threads : Coupled(t)'

(* What SampledThreadMonitorProofs says of the sampler. *)
LEMMA SamplerFacts ==
  ASSUME InStep
  PROVE  /\ threadList \in [M!Slots -> Threads \cup {NoThread}]
         /\ pending \in [Threads -> BOOLEAN] /\ merged \in [Threads -> BOOLEAN]
         /\ DOMAIN spc = Threads /\ DOMAIN samplingState = Threads
         /\ DOMAIN threadId = Threads
         /\ lock \in Threads \cup {Monitor, Nobody}
         /\ \A t \in Threads : lock = t => spc[t] # "none"
         /\ lock = Monitor => mpc \in {"poke", "unlock"}
         /\ \A s \in M!Slots : threadList[s] # NoThread => spc[threadList[s]] # "none"
         /\ \A t \in Threads : spc[t] \in InCtor \cup {"run"} => t \in WithDtr
         /\ \A t \in Threads :
              pending[t] \/ inClient[t] # M!Idle \/ merged[t] => spc[t] \notin {"none", "ctor"}
<1>1. MP!TypeOK /\ MP!LockInv /\ MP!ListInv /\ MP!SignalInv
  BY DEF InStep, MP!CoreInv
<1>2. M!Slots = MP!Slots /\ M!Idle = MP!Idle
  BY DEF M!Slots, MP!Slots, M!Idle, MP!Idle
<1>3. /\ threadList \in [M!Slots -> Threads \cup {NoThread}]
      /\ pending \in [Threads -> BOOLEAN] /\ merged \in [Threads -> BOOLEAN]
      /\ DOMAIN spc = Threads /\ DOMAIN samplingState = Threads
      /\ DOMAIN threadId = Threads
      /\ lock \in Threads \cup {Monitor, Nobody}
  BY <1>1, <1>2 DEF MP!TypeOK
<1>4. /\ \A t \in Threads : lock = t => spc[t] # "none"
      /\ lock = Monitor => mpc \in {"poke", "unlock"}
  BY <1>1 DEF MP!LockInv, MP!Critical
<1>5. /\ \A s \in M!Slots : threadList[s] # NoThread => spc[threadList[s]] # "none"
      /\ \A t \in Threads : spc[t] \in InCtor \cup {"run"} => t \in WithDtr
  <2>1. \A s \in M!Slots : threadList[s] # NoThread => spc[threadList[s]] \in MP!Listed
    BY <1>1, <1>2 DEF MP!ListInv
  <2> QED
    BY <1>1, <2>1 DEF MP!ListInv, MP!Listed, InCtor
<1>6. \A t \in Threads :
        pending[t] \/ inClient[t] # M!Idle \/ merged[t] => spc[t] \notin {"none", "ctor"}
  BY <1>1, <1>2 DEF MP!SignalInv, MP!Pokable
<1> QED
  BY <1>3, <1>4, <1>5, <1>6

(* A thread the step is not of, and is not about. *)
LEMMA SameCoupled ==
  ASSUME NEW t \in Threads, Coupled(t), spc'[t] = spc[t], pc'[t] = pc[t],
         ran'[t] = ran[t], CtorIs(t, Sampled) => CtorIs(t, Sampled)',
         t \in WithDtr' => t \in WithDtr
  PROVE  Coupled(t)'
BY DEF Coupled

LEMMA SameCtorIs ==
  ASSUME NEW t \in Threads, UNCHANGED tableVars, pc'[t] = pc[t], ci'[t] = ci[t]
  PROVE  CtorIs(t, Sampled) <=> CtorIs(t, Sampled)'
BY DEF CtorIs, tableVars

(* The threads with the destructor, in terms of the values of each. *)
Holds(t) == \E k \in values[t] : keyDtr[k + 1] = Sampled

LEMMA WithDtrIs == WithDtr = {t \in Threads : Holds(t)}
BY DEF WithDtr, Holds

LEMMA SameWithDtr ==
  ASSUME IInv, values' = values, \A k \in 1 .. Len(keyDtr) : keyDtr'[k] = keyDtr[k]
  PROVE  WithDtr' = WithDtr
<1>1. ASSUME NEW t \in Threads, NEW k \in values[t]
      PROVE  k + 1 \in 1 .. Len(keyDtr)
  BY <1>1, ValuesFacts, KeyFacts
<1>2. \A t \in Threads : Holds(t)' <=> Holds(t)
  BY <1>1 DEF Holds
<1>3. WithDtr' = {u \in Threads : Holds(u)'}
  BY DEF WithDtr, Holds
<1> QED
  BY <1>2, <1>3, WithDtrIs

(* The steps of thread t change only the values of t. *)
LEMMA OnlyItsValues ==
  ASSUME NEW t \in Threads, keyDtr' = keyDtr,
         \A u \in Threads \ {t} : values'[u] = values[u]
  PROVE  /\ \A u \in Threads \ {t} : u \in WithDtr' <=> u \in WithDtr
         /\ Holds(t)' => WithDtr' = WithDtr \cup {t}
         /\ ~Holds(t)' => WithDtr' = WithDtr \ {t}
<1>1. \A u \in Threads \ {t} : Holds(u)' <=> Holds(u)
  BY DEF Holds
<1>2. WithDtr' = {u \in Threads : Holds(u)'}
  BY DEF WithDtr, Holds
<1> QED
  BY <1>1, <1>2, WithDtrIs

(* The loader's steps leave the entries in use as they are. *)
LEMMA LoaderKeepsEntries ==
  ASSUME Managed, LoaderStep, NEW t \in Threads, CtorIs(t, Sampled)
  PROVE  CtorIs(t, Sampled)'
<1>1. pc' = pc /\ ci' = ci
  BY DEF LoaderStep, RegisterCreate, LoadToken, LoadingDone, NoCtor, CtorBumpFirst,
         CtorStore, CtorStoreFirst, CtorBump, RunInit, threadVars
<1>2. Sampled # NoTap
  BY SampledAssumption, TapAssumption
<1>3. ci[t] \in Nat /\ LDM_numCtrs \in Nat
  BY ThreadFacts DEF Managed
<1>4. LDM_numCtrs' = LDM_numCtrs \/ LDM_numCtrs' = LDM_numCtrs + 1
  BY <1>3 DEF LoaderStep, RegisterCreate, LoadToken, LoadingDone, NoCtor, CtorBumpFirst,
              CtorStore, CtorStoreFirst, CtorBump, RunInit, tableVars
<1>5. ci[t] < LDM_numCtrs /\ pc[t] = "ctors" /\ LDM_thd_ctr[ci[t]] = Sampled
  BY DEF CtorIs
<1>6. LDM_thd_ctr'[ci[t]] = LDM_thd_ctr[ci[t]]
  <2>1. CASE CtorStore
    <3>1. ci[t] # LDM_numCtrs - 1
      <4> SUFFICES ASSUME ci[t] = LDM_numCtrs - 1 PROVE FALSE
        OBVIOUS
      <4>1. lpc = "store" /\ LDM_numCtrs = Len(Stored) + 1
        BY <2>1 DEF CtorStore, Managed, Loaded, Registered, Ahead
      <4>2. Len(Stored) \in Nat
        <5>1. Walked - 1 \in 0 .. Len(TapList)
          <6>1. Walked \in 1 .. Len(TapList)
            BY <4>1, WalkedFacts DEF Managed, Loaded, Walking
          <6> QED
            BY <6>1, ListFacts
        <5> QED
          BY <4>1, <5>1, ListFacts DEF Stored
      <4>3. ci[t] = Len(Stored)
        BY <1>3, <4>1, <4>2
      <4>4. ci[t] \in Entries
        <5>1. ci[t] <= LDM_MAX_TCTRS + Len(TapList)
          <6>1. Filling \in {0, 1} /\ Len(todo) \in Nat /\ Len(TapList) \in Nat
            BY WalkedFacts, ListFacts DEF Filling, Managed, Loaded
          <6>2. LDM_numCtrs + Filling + Len(todo) <= Len(TapList)
            BY DEF Managed, IInv, Room
          <6> QED
            BY <1>3, <1>5, <6>1, <6>2, TapAssumption
        <5> QED
          BY <1>3, <5>1, TapAssumption, ListFacts DEF Entries
      <4>5. LDM_thd_ctr[ci[t]] = NoTap
        BY <4>2, <4>3, <4>4 DEF Managed, Loaded, Registered
      <4> QED
        BY <1>2, <1>5, <4>5
    <3> QED
      BY <2>1, <3>1 DEF CtorStore, Managed, IInv, TypeOK
  <2>2. CASE CtorStoreFirst
    <3>1. ci[t] # LDM_numCtrs
      BY <1>3, <1>5
    <3> QED
      BY <2>2, <3>1 DEF CtorStoreFirst, Managed, IInv, TypeOK
  <2>3. CASE ~CtorStore /\ ~CtorStoreFirst
    BY <2>3 DEF LoaderStep, RegisterCreate, LoadToken, LoadingDone, NoCtor,
                CtorBumpFirst, CtorBump, RunInit, tableVars
  <2> QED
    BY <2>1, <2>2, <2>3
<1>7. ci'[t] < LDM_numCtrs'
  BY <1>1, <1>3, <1>4, <1>5
<1> QED
  BY <1>1, <1>5, <1>6, <1>7 DEF CtorIs

LEMMA SamplerStutters ==
  ASSUME UNCHANGED samplerVars, WithDtr' = WithDtr
  PROVE  UNCHANGED M!vars
BY DEF samplerVars, M!vars, M!threadVars, M!signalVars, M!setupVars, M!monitorVars

LEMMA SamplerSteps ==
  ASSUME NEW t \in Threads,
         M!Create(t) \/ M!ThreadStep(t) \/ M!Finish(t) \/ M!PokeEnter(t) \/ M!PokeReturn(t)
  PROVE  M!Next
BY DEF M!Next

-----------------------------------------------------------------------------
(* The loader's steps. *)
LEMMA LoaderKeepsKeyDtr ==
  ASSUME IInv, LoaderStep
  PROVE  /\ values' = values
         /\ \A k \in 1 .. Len(keyDtr) : keyDtr'[k] = keyDtr[k]
<1>1. values' = values
  BY DEF LoaderStep, RegisterCreate, LoadToken, LoadingDone, NoCtor, CtorBumpFirst,
         CtorStore, CtorStoreFirst, CtorBump, RunInit, threadVars
<1>2. keyDtr' = keyDtr \/ \E p \in Taps : keyDtr' = Append(keyDtr, p)
  <2>1. CASE RunInit
    BY <2>1, TapAssumption DEF RunInit, RegisterDtr, keyVars
  <2>2. CASE ~RunInit
    BY <2>2, ThroughMoves DEF keyVars
  <2> QED
    BY <2>1, <2>2
<1> QED
  BY <1>1, <1>2, KeyFacts, AppendProperties

LEMMA LoaderFollows ==
  ASSUME ProperList, Managed, ReadyInv, InStep, Load \/ BeginInit
  PROVE  Follows
<1>1. LoaderStep /\ UNCHANGED samplerVars /\ fault' = fault
  BY DEF Load, BeginInit, LoaderStep
<1>2. WithDtr' = WithDtr
  BY <1>1, LoaderKeepsKeyDtr, SameWithDtr DEF Managed
<1>3. UNCHANGED M!vars
  BY <1>1, <1>2, SamplerStutters
<1>4. ready' # "yes" => Unused'
  <2>1. ready' # "yes" => ready # "yes"
    <3>1. CASE BeginInit
      <4>1. lpc = "init" /\ dlsym(handle, WithInit) = Sampled /\ Through = Walked - 1
        BY <3>1 DEF BeginInit, Through
      <4>2. Walked \in 1 .. Len(TapList) /\ TapList[Walked] = Sampled
        BY <4>1, InitOf
      <4>3. \A i \in 1 .. Walked - 1 : i \in DOMAIN TapList /\ Walked \in DOMAIN TapList
                                       /\ i # Walked
        BY <4>2, ListFacts
      <4>4. \A i \in 1 .. Through : TapList[i] # Sampled
        BY <4>1, <4>2, <4>3 DEF ProperList, NoRepeats
      <4> QED
        BY <4>4 DEF ReadyInv
    <3>2. CASE Load
      BY <3>2 DEF Load
    <3> QED
      BY <3>1, <3>2
  <2> QED
    BY <1>1, <2>1 DEF InStep, Unused, samplerVars
<1>5. UNCHANGED <<pc, ran>>
  BY <1>1 DEF LoaderStep, RegisterCreate, LoadToken, LoadingDone, NoCtor, CtorBumpFirst,
              CtorStore, CtorStoreFirst, CtorBump, RunInit, threadVars
<1>6. ASSUME NEW t \in Threads PROVE Coupled(t)'
  <2>1. CtorIs(t, Sampled) => CtorIs(t, Sampled)'
    BY <1>1, LoaderKeepsEntries
  <2> QED
    BY <1>1, <1>2, <1>5, <2>1, SameCoupled DEF InStep, samplerVars
<1> QED
  BY <1>1, <1>3, <1>4, <1>6 DEF Follows, InStep

(* Before the initializer is done the list is empty and the lock free.     *)
LEMMA InitializerFollows ==
  ASSUME Managed, InStep, LookUpFunctions \/ MakeLock
  PROVE  Follows
<1>1. Unused /\ UNCHANGED vars
  <2>1. ready # "yes" /\ UNCHANGED vars
    BY DEF LookUpFunctions, MakeLock
  <2> QED
    BY <2>1 DEF InStep
<1>2. UNCHANGED <<spc, mpc>>
  <2>1. CASE LookUpFunctions
    BY <2>1 DEF LookUpFunctions
  <2>2. CASE MakeLock
    BY <2>2 DEF MakeLock, samplerVars
  <2> QED
    BY <2>1, <2>2
<1>3. UNCHANGED samplerVars
  <2>1. CASE LookUpFunctions
    <3>1. \A s \in M!Slots : threadList[s] = NoThread
      BY <1>1, SamplerFacts DEF Unused
    <3>2. threadList' = threadList
      BY <2>1, <3>1, SamplerFacts DEF LookUpFunctions
    <3> QED
      BY <2>1, <3>2 DEF LookUpFunctions, samplerVars
  <2>2. CASE MakeLock
    BY <2>2 DEF MakeLock
  <2> QED
    BY <2>1, <2>2
<1>4. lock = Nobody
  BY <1>1, SamplerFacts DEF Unused
<1>5. fault' = "none"
  <2>1. CASE LookUpFunctions
    BY <2>1 DEF LookUpFunctions, InStep
  <2>2. CASE MakeLock
    BY <1>4, <2>2 DEF MakeLock
  <2> QED
    BY <2>1, <2>2
<1>6. WithDtr' = WithDtr
  BY <1>1 DEF WithDtr, vars, threadVars, keyVars
<1>7. ASSUME NEW t \in Threads PROVE Coupled(t)'
  BY <1>1, <1>2, <1>6, SameCtorIs, SameCoupled DEF InStep, vars, threadVars
<1> QED
  BY <1>1, <1>2, <1>3, <1>5, <1>6, <1>7, SamplerStutters DEF Follows, Unused

-----------------------------------------------------------------------------
(* The threads' steps in the manager. *)

(* What a step of thread t leaves alone. *)
OnlyIn(t) ==
  \A u \in Threads \ {t} :
    /\ spc'[u] = spc[u] /\ pc'[u] = pc[u] /\ ran'[u] = ran[u]
    /\ ci'[u] = ci[u] /\ values'[u] = values[u]

LEMMA OthersCoupled ==
  ASSUME Managed, InStep, NEW t \in Threads, OnlyIn(t), UNCHANGED <<tableVars, keyVars>>,
         Coupled(t)'
  PROVE  \A u \in Threads : Coupled(u)'
<1> SUFFICES ASSUME NEW u \in Threads \ {t} PROVE Coupled(u)'
  OBVIOUS
<1>1. u \in WithDtr' => u \in WithDtr
  BY OnlyItsValues DEF OnlyIn, keyVars
<1>2. CtorIs(u, Sampled) => CtorIs(u, Sampled)'
  BY SameCtorIs DEF OnlyIn
<1> QED
  BY <1>1, <1>2, SameCoupled DEF OnlyIn, InStep

LEMMA ManagerStepsAreOf ==
  ASSUME Managed, NEW t \in Threads, DOMAIN spc = Threads,
         UNCHANGED spc \/ (\E x : spc' = [spc EXCEPT ![t] = x]),
         UNCHANGED vars \/ Create(t) \/ StartStep(t) \/ Return(t) \/ EndStep(t)
  PROVE  OnlyIn(t) /\ UNCHANGED <<tableVars, keyVars>>
<1>1. UNCHANGED <<tableVars, keyVars>>
  BY ThreadsLeaveLoader DEF vars
<1>2. ASSUME NEW u \in Threads \ {t}
      PROVE  /\ spc'[u] = spc[u] /\ pc'[u] = pc[u] /\ ran'[u] = ran[u]
             /\ ci'[u] = ci[u] /\ values'[u] = values[u]
  <2>1. spc'[u] = spc[u]
    <3>1. CASE UNCHANGED spc
      BY <3>1
    <3>2. CASE \E x : spc' = [spc EXCEPT ![t] = x]
      <4>1. PICK x : spc' = [spc EXCEPT ![t] = x]
        BY <3>2
      <4> QED
        BY <4>1
    <3> QED
      BY <3>1, <3>2
  <2>2. CASE UNCHANGED vars
    BY <2>1, <2>2 DEF vars, threadVars
  <2>3. CASE Create(t) \/ StartStep(t) \/ Return(t) \/ EndStep(t)
    BY <2>1, <2>3, OthersSame DEF Same, Managed
  <2> QED
    BY <2>2, <2>3
<1> QED
  BY <1>1, <1>2 DEF OnlyIn

LEMMA SpawnFollows ==
  ASSUME Managed, InStep, NEW t \in Threads, SpawnThread(t)
  PROVE  Follows
<1>1. /\ Create(t) /\ UNCHANGED <<samplerVars, ready, fault>>
  BY DEF SpawnThread
<1>2. OnlyIn(t) /\ UNCHANGED <<tableVars, keyVars>>
  BY <1>1, ManagerStepsAreOf, SamplerFacts DEF samplerVars
<1>3. pc[t] \in {"none", "dead"} /\ values' = values
  BY <1>1 DEF Create
<1>4. spc[t] = "none"
  <2>1. spc[t] \in MP!ThreadPCs
    BY DEF InStep, MP!TypeOK
  <2> QED
    BY <1>3, <2>1 DEF InStep, Coupled, CtorIs, InCtor, InDtr, MP!ThreadPCs
<1>5. WithDtr' = WithDtr
  BY <1>2, <1>3 DEF WithDtr, keyVars
<1>6. Coupled(t)'
  BY <1>1, <1>4, <1>5 DEF Coupled, InStep, samplerVars, InCtor, InDtr
<1>7. ready' # "yes" => Unused'
  BY <1>1 DEF InStep, Unused, samplerVars
<1> QED
  BY <1>1, <1>2, <1>5, <1>6, <1>7, SamplerStutters, OthersCoupled DEF Follows, InStep

(* Another TAP's constructor, not too early, installs its own key.         *)
LEMMA OtherCtor ==
  ASSUME Managed, NEW t \in Threads, CallCtor(t), ~CtorIs(t, Sampled), ~Hurries(t)
  PROVE  /\ WithDtr' = WithDtr
         /\ \A i \in 1 .. Len(ran[t]) : i \in 1 .. Len(ran'[t]) /\ ran'[t][i] = ran[t][i]
<1> DEFINE p == LDM_thd_ctr[ci[t]]
<1>1. pc[t] = "ctors" /\ ci[t] < LDM_numCtrs /\ p # NoTap
  BY DEF CallCtor
<1>2. ci[t] + 1 \in 1 .. Len(Wanted) /\ p = Wanted[ci[t] + 1]
  BY <1>1, EntryIsWanted DEF Managed
<1>3. p \in ThreadAware
  BY <1>2, WantedAreAware
<1>4. p # Sampled
  BY <1>1 DEF CtorIs
<1>5. PICK k \in DOMAIN keyDtr : keyDtr[k] = p
  <2>1. CtorIs(t, p)
    BY <1>1 DEF CtorIs
  <2> QED
    BY <1>3, <2>1 DEF Hurries
<1>6. keyDtr[KeyOf(p) + 1] = p
  BY <1>3, <1>5, KeyIsMade
<1>7. values'[t] = values[t] \cup Installs(p) /\ keyDtr' = keyDtr
      /\ \A u \in Threads \ {t} : values'[u] = values[u]
  BY DEF CallCtor, Managed, IInv, TypeOK, keyVars
<1>8. Installs(p) \subseteq {KeyOf(p)}
  BY DEF Installs, KeyOf
<1> HIDE DEF p
<1>9. Holds(t)' <=> Holds(t)
  BY <1>4, <1>6, <1>7, <1>8 DEF Holds
<1>10. WithDtr' = WithDtr
  BY <1>7, <1>9, OnlyItsValues, WithDtrIs
<1>11. p \in Taps /\ ran[t] \in Seq(Taps) /\ ran'[t] = Append(ran[t], p)
  <2>1. p \in Taps
    BY <1>2, WantedFacts
  <2> QED
    BY <2>1, ThreadFacts DEF CallCtor, Managed, IInv, TypeOK, p
<1>12. /\ Len(ran'[t]) = Len(ran[t]) + 1 /\ Len(ran[t]) \in Nat
       /\ \A i \in 1 .. Len(ran[t]) : ran'[t][i] = ran[t][i]
  BY <1>11, AppendProperties, ThreadFacts DEF Managed
<1> QED
  BY <1>10, <1>12

LEMMA WalkOnFollows ==
  ASSUME Managed, InStep, NEW t \in Threads, WalkOn(t), ~hurried'
  PROVE  Follows
<1>1. /\ StartStep(t) /\ UNCHANGED <<samplerVars, ready, fault>> /\ ~CtorIs(t, Sampled)
      /\ ~Hurries(t) /\ spc[t] \in {"none", "run", "exiting"}
  BY DEF WalkOn, Outside
<1>2. OnlyIn(t) /\ UNCHANGED <<tableVars, keyVars>>
  BY <1>1, ManagerStepsAreOf, SamplerFacts DEF samplerVars
<1>3. /\ WithDtr' = WithDtr
      /\ \A i \in 1 .. Len(ran[t]) : i \in 1 .. Len(ran'[t]) /\ ran'[t][i] = ran[t][i]
  <2>1. CASE CallCtor(t)
    BY <1>1, <2>1, OtherCtor
  <2>2. CASE SkipCtor(t) \/ StartRoutine(t)
    <3>1. values' = values /\ ran' = ran
      BY <2>2 DEF SkipCtor, StartRoutine
    <3> QED
      BY <1>2, <3>1 DEF WithDtr, keyVars
  <2> QED
    BY <1>1, <2>1, <2>2 DEF StartStep
<1>4. pc[t] = "ctors" /\ pc'[t] \in {"ctors", "run"}
  BY <1>1 DEF StartStep, CallCtor, SkipCtor, StartRoutine, Managed, IInv, TypeOK
<1>5. Coupled(t)'
  <2>1. Coupled(t) /\ spc' = spc
    BY <1>1 DEF InStep, samplerVars
  <2> QED
    BY <1>1, <1>3, <1>4, <2>1 DEF Coupled, InCtor, InDtr
<1>6. ready' # "yes" => Unused'
  BY <1>1 DEF InStep, Unused, samplerVars
<1> QED
  BY <1>1, <1>2, <1>3, <1>5, <1>6, SamplerStutters, OthersCoupled DEF Follows, InStep

LEMMA ReturnFollows ==
  ASSUME Managed, InStep, NEW t \in Threads, ReturnFrom(t)
  PROVE  Follows
<1>1. /\ Return(t) /\ UNCHANGED <<samplerVars, ready, fault>>
  BY DEF ReturnFrom
<1>2. OnlyIn(t) /\ UNCHANGED <<tableVars, keyVars>>
  BY <1>1, ManagerStepsAreOf, SamplerFacts DEF samplerVars
<1>3. values' = values /\ ran' = ran /\ pc[t] = "run" /\ pc'[t] = "dtrs"
  BY <1>1 DEF Return, Managed, IInv, TypeOK
<1>4. WithDtr' = WithDtr
  BY <1>2, <1>3 DEF WithDtr, keyVars
<1>5. Coupled(t)'
  <2>1. Coupled(t) /\ spc' = spc
    BY <1>1 DEF InStep, samplerVars
  <2> QED
    BY <1>3, <1>4, <2>1 DEF Coupled, CtorIs
<1>6. ready' # "yes" => Unused'
  BY <1>1 DEF InStep, Unused, samplerVars
<1> QED
  BY <1>1, <1>2, <1>4, <1>5, <1>6, SamplerStutters, OthersCoupled DEF Follows, InStep

-----------------------------------------------------------------------------
(* The steps that are the sampler's too. *)

(* A thread that has come through the constructor does not meet it again.  *)
LEMMA OnlyOnce ==
  ASSUME ProperList, Managed, InStep, NEW t \in Threads, CtorIs(t, Sampled)
  PROVE  spc[t] \in {"none", "ctor"}
<1> SUFFICES ASSUME spc[t] \notin {"none", "ctor"} PROVE FALSE
  OBVIOUS
<1>1. PICK i \in 1 .. Len(ran[t]) : ran[t][i] = Sampled
  BY DEF InStep, Coupled
<1>2. PICK m \in 1 .. Len(Wanted) : m <= ci[t] /\ ran[t][i] = Wanted[m]
  BY DEF Managed, Runs, Ordered
<1>3. ci[t] + 1 \in 1 .. Len(Wanted) /\ Wanted[ci[t] + 1] = Sampled
  <2>1. ci[t] < LDM_numCtrs /\ LDM_thd_ctr[ci[t]] = Sampled /\ Sampled # NoTap
    BY SampledAssumption, TapAssumption DEF CtorIs
  <2> QED
    BY <2>1, EntryIsWanted DEF Managed
<1>4. m < ci[t] + 1
  BY <1>2, ThreadFacts DEF Managed
<1>5. Before(Sampled, Sampled)
  BY <1>1, <1>2, <1>3, <1>4, WantedFacts
<1> QED
  BY <1>5, ListFacts DEF Before, ProperList, NoRepeats

LEMMA EnterCtorFollows ==
  ASSUME ProperList, Managed, ReadyInv, InStep, NEW t \in Threads, EnterCtor(t), ~hurried'
  PROVE  Follows
<1>1. /\ CtorIs(t, Sampled) /\ ~Hurries(t) /\ UNCHANGED <<vars, ready, fault>>
      /\ spc[t] \in {"none", "run", "exiting"} /\ inClient[t] = M!Idle
      /\ spc' = [spc EXCEPT ![t] = "ctor"]
  BY DEF EnterCtor, Outside
<1>2. ready = "yes"
  BY <1>1, SampledAssumption DEF Hurries
<1>3. spc[t] = "none"
  BY <1>1, OnlyOnce
<1>4. WithDtr' = WithDtr
  BY <1>1 DEF WithDtr, vars, threadVars, keyVars
<1>5. M!Create(t)
  BY <1>1, <1>3, <1>4
  DEF EnterCtor, M!Create, M!Transition, M!signalVars, M!setupVars, M!monitorVars
<1>6. OnlyIn(t) /\ UNCHANGED <<tableVars, keyVars>>
  BY <1>1, ManagerStepsAreOf, SamplerFacts
<1>7. Coupled(t)'
  <2>1. spc'[t] = "ctor"
    BY <1>1, SamplerFacts
  <2>2. CtorIs(t, Sampled)'
    BY <1>1, SameCtorIs DEF vars, threadVars
  <2>3. t \notin WithDtr
    BY <1>3 DEF InStep, Coupled, InCtor
  <2> QED
    BY <1>4, <2>1, <2>2, <2>3 DEF Coupled, InCtor, InDtr
<1> QED
  BY <1>1, <1>2, <1>5, <1>6, <1>7, SamplerSteps, OthersCoupled DEF Follows, InStep

LEMMA InstallFollows ==
  ASSUME Managed, ReadyInv, InStep, NEW t \in Threads, Install(t)
  PROVE  Follows
<1>1. /\ spc[t] = "ctor" /\ CallCtor(t) /\ spc' = [spc EXCEPT ![t] = "sigaction"]
      /\ UNCHANGED <<ready, fault>>
  BY DEF Install
<1>2. ready = "yes"
  BY <1>1 DEF InStep, Unused
<1>3. CtorIs(t, Sampled)
  BY <1>1 DEF InStep, Coupled
<1>4. LDM_thd_ctr[ci[t]] = Sampled /\ pc[t] = "ctors" /\ Sampled \in Taps
  BY <1>3, SampledAssumption, TapAssumption DEF CtorIs
<1>5. OnlyIn(t) /\ UNCHANGED <<tableVars, keyVars>>
  BY <1>1, ManagerStepsAreOf, SamplerFacts DEF StartStep
<1>6. WithDtr' = WithDtr \cup {t}
  <2>1. KeyOf(Sampled) < Len(keyDtr) /\ keyDtr[KeyOf(Sampled) + 1] = Sampled
    BY <1>2, SampledKeyIsMade
  <2>2. values'[t] = values[t] \cup Installs(Sampled)
    BY <1>1, <1>4 DEF CallCtor, Managed, IInv, TypeOK
  <2>3. KeyOf(Sampled) \in values'[t]
    BY <2>1, <2>2 DEF Installs, KeyOf
  <2>4. keyDtr' = keyDtr
    BY <1>5 DEF keyVars
  <2>5. Holds(t)'
    BY <2>1, <2>3, <2>4 DEF Holds
  <2> QED
    BY <1>5, <2>4, <2>5, OnlyItsValues DEF OnlyIn
<1>7. inClient[t] = M!Idle
  BY <1>1, SamplerFacts
<1>8. M!InstallDtr(t)
  BY <1>1, <1>6, <1>7
  DEF Install, M!InstallDtr, M!Transition, M!threadVars, M!signalVars, M!monitorVars
<1>9. M!Next
  BY <1>8, SamplerSteps DEF M!ThreadStep
<1>10. Coupled(t)'
  <2>1. spc'[t] = "sigaction" /\ pc'[t] = "ctors"
    BY <1>1, <1>4, SamplerFacts DEF CallCtor
  <2>2. ran'[t] = Append(ran[t], Sampled) /\ ran[t] \in Seq(Taps) /\ Len(ran[t]) \in Nat
    BY <1>1, <1>4, ThreadFacts DEF CallCtor, Managed, IInv, TypeOK
  <2>3. Len(ran'[t]) = Len(ran[t]) + 1 /\ ran'[t][Len(ran[t]) + 1] = Sampled
    BY <1>4, <2>2, AppendProperties
  <2>4. \E i \in 1 .. Len(ran'[t]) : ran'[t][i] = Sampled
    BY <2>2, <2>3
  <2> QED
    BY <2>1, <2>4 DEF Coupled, InCtor, InDtr
<1> QED
  BY <1>1, <1>2, <1>5, <1>9, <1>10, OthersCoupled DEF Follows, InStep

(* The rest of the constructor, and of the destructor.                     *)
LEMMA InTapFollows ==
  ASSUME Managed, InStep, NEW t \in Threads, InTap(t)
  PROVE  Follows
<1>1. UNCHANGED <<vars, ready, fault>>
  BY DEF InTap
<1>2. M!Next
  BY SamplerSteps DEF InTap, M!ThreadStep
<1>3. \/ /\ spc[t] \in InCtor
         /\ \E x \in InCtor \cup {"run"} : spc' = [spc EXCEPT ![t] = x]
      \/ /\ spc[t] \in InDtr
         /\ \E x \in InDtr : spc' = [spc EXCEPT ![t] = x]
  <2> USE DEF M!Transition, InCtor, InDtr
  <2>1. CASE M!InstallHandler(t)  BY <2>1 DEF M!InstallHandler
  <2>2. CASE M!RegisterLock(t)    BY <2>2 DEF M!RegisterLock
  <2>3. CASE M!Register(t)        BY <2>3 DEF M!Register
  <2>4. CASE M!SyncState(t)       BY <2>4 DEF M!SyncState
  <2>5. CASE M!RegisterUnlock(t)  BY <2>5 DEF M!RegisterUnlock
  <2>6. CASE M!DeinitLock(t)      BY <2>6 DEF M!DeinitLock
  <2>7. CASE M!DeinitClear(t)     BY <2>7 DEF M!DeinitClear
  <2>8. CASE M!DeinitUnlock(t)    BY <2>8 DEF M!DeinitUnlock
  <2> QED
    BY <2>1, <2>2, <2>3, <2>4, <2>5, <2>6, <2>7, <2>8 DEF InTap
<1>4. OnlyIn(t) /\ UNCHANGED <<tableVars, keyVars>>
  <2>1. \E x : spc' = [spc EXCEPT ![t] = x]
    BY <1>3
  <2> QED
    BY <1>1, <2>1, ManagerStepsAreOf, SamplerFacts
<1>5. /\ pc' = pc /\ ran' = ran /\ WithDtr' = WithDtr
  BY <1>1 DEF vars, threadVars, keyVars, WithDtr
<1>6. Coupled(t)'
  <2>1. Coupled(t) /\ DOMAIN spc = Threads
    BY SamplerFacts DEF InStep
  <2>2. \/ spc[t] \in InCtor /\ spc'[t] \in InCtor \cup {"run"}
        \/ spc[t] \in InDtr /\ spc'[t] \in InDtr
    BY <1>3, <2>1
  <2> QED
    BY <1>5, <2>1, <2>2 DEF Coupled, InCtor, InDtr
<1>7. ready = "yes"
  BY <1>3 DEF InStep, Unused, InCtor, InDtr
<1> QED
  BY <1>1, <1>2, <1>4, <1>6, <1>7, OthersCoupled DEF Follows, InStep

(* A thread in the TAP finds the lock functions looked up.                 *)
LEMMA NoNullCalls ==
  ASSUME InStep, NEW t \in Threads, CallNull(t)
  PROVE  FALSE
BY DEF InStep, Unused, CallNull

(* The destructor of the sampled TAP, or of another one.                   *)
LEMMA CallDtrFollows ==
  ASSUME Managed, InStep, NEW t \in Threads, CallDtr(t)
  PROVE  Follows
<1>1. /\ RunDtr(t) /\ spc[t] \in {"none", "run", "exiting"} /\ inClient[t] = M!Idle
      /\ UNCHANGED <<ready, fault>>
      /\ spc' = [spc EXCEPT ![t] = IF Last(ended'[t]) = Sampled THEN "exitlock" ELSE @]
  BY DEF CallDtr, Outside
<1>2. OnlyIn(t) /\ UNCHANGED <<tableVars, keyVars>>
  BY <1>1, ManagerStepsAreOf, SamplerFacts DEF EndStep
<1>3. PICK k \in values[t] : /\ ended' = [ended EXCEPT ![t] = Append(@, keyDtr[k + 1])]
                             /\ values' = [values EXCEPT ![t] = @ \ {k}]
  BY <1>1 DEF RunDtr
<1>4. /\ pc[t] = "dtrs" /\ pc' = pc /\ ran' = ran /\ keyDtr' = keyDtr
      /\ values'[t] = values[t] \ {k}
  BY <1>1, <1>3 DEF RunDtr, keyVars, Managed, IInv, TypeOK
<1>5. values[t] \subseteq 0 .. Len(keyDtr) - 1 /\ ended[t] \in Seq(Taps)
      /\ Len(ended[t]) \in Nat /\ Len(keyDtr) \in Nat /\ keyDtr \in Seq(Taps)
  BY ValuesFacts, KeyFacts DEF Managed
<1>6. k + 1 \in 1 .. Len(keyDtr) /\ keyDtr[k + 1] \in Taps
  BY <1>5, ElementOfSeq
<1>7. Last(ended'[t]) = keyDtr[k + 1]
  <2>1. ended'[t] = Append(ended[t], keyDtr[k + 1])
    BY <1>3 DEF Managed, IInv, TypeOK
  <2>2. Len(ended'[t]) = Len(ended[t]) + 1
        /\ ended'[t][Len(ended[t]) + 1] = keyDtr[k + 1]
    BY <1>5, <1>6, <2>1, AppendProperties
  <2> QED
    BY <2>2 DEF Last
<1>8. CASE keyDtr[k + 1] = Sampled
  <2>1. spc[t] = "run" /\ t \in WithDtr
    <3>1. t \in WithDtr
      BY <1>8, WithDtrIs DEF Holds
    <3> QED
      BY <1>1, <3>1 DEF InStep, Coupled, InCtor
  <2>2. ~Holds(t)'
    <3> SUFFICES ASSUME NEW l \in values[t], l # k PROVE keyDtr[l + 1] # Sampled
      BY <1>4 DEF Holds
    <3>1. l + 1 \in 1 .. Len(keyDtr) /\ l + 1 # k + 1
      BY <1>5, <1>6
    <3> QED
      BY <1>6, <1>8, <3>1 DEF Managed, KeysOnce
  <2>3. WithDtr' = WithDtr \ {t}
    BY <1>2, <1>4, <2>2, OnlyItsValues DEF OnlyIn
  <2>4. spc' = [spc EXCEPT ![t] = "exitlock"]
    BY <1>1, <1>7, <1>8
  <2>5. M!Finish(t)
    BY <1>1, <2>1, <2>3, <2>4
    DEF CallDtr, M!Finish, M!Transition, M!threadVars, M!signalVars, M!monitorVars
  <2>6. Coupled(t)'
    <3>1. spc'[t] = "exitlock" /\ t \notin WithDtr'
      BY <2>3, <2>4, SamplerFacts
    <3>2. \E i \in 1 .. Len(ran[t]) : ran[t][i] = Sampled
      BY <2>1 DEF InStep, Coupled
    <3> QED
      BY <1>4, <3>1, <3>2 DEF Coupled, InCtor, InDtr
  <2>7. ready = "yes"
    BY <2>1 DEF InStep, Unused
  <2> QED
    BY <1>1, <1>2, <2>5, <2>6, <2>7, SamplerSteps, OthersCoupled DEF Follows, InStep
<1>9. CASE keyDtr[k + 1] # Sampled
  <2>1. spc' = spc
    BY <1>1, <1>7, <1>9, SamplerFacts DEF InStep, MP!TypeOK
  <2>2. Holds(t)' <=> Holds(t)
    BY <1>4, <1>9 DEF Holds
  <2>3. WithDtr' = WithDtr
    BY <1>2, <1>4, <2>2, OnlyItsValues, WithDtrIs DEF OnlyIn
  <2>4. UNCHANGED samplerVars
    BY <2>1 DEF CallDtr, samplerVars
  <2>5. Coupled(t)'
    BY <1>4, <2>1, <2>3 DEF Coupled, CtorIs, InStep
  <2>6. ready' # "yes" => Unused'
    BY <1>1, <2>4 DEF InStep, Unused, samplerVars
  <2> QED
    BY <1>1, <1>2, <2>3, <2>4, <2>5, <2>6, SamplerStutters, OthersCoupled
    DEF Follows, InStep
<1> QED
  BY <1>8, <1>9

(* A thread that terminates has been through the TAP's destructor, or has  *)
(* never been through its constructor.                                     *)
LEMMA TerminateFollows ==
  ASSUME Managed, InStep, NEW t \in Threads, Terminate(t)
  PROVE  Follows
<1>1. /\ End(t) /\ spc[t] \in {"none", "run", "exiting"} /\ inClient[t] = M!Idle
      /\ spc' = [spc EXCEPT ![t] = "none"] /\ UNCHANGED <<ready, fault>>
      /\ pending' = [pending EXCEPT ![t] = FALSE]
      /\ merged' = [merged EXCEPT ![t] = FALSE]
  BY DEF Terminate, Outside
<1>2. OnlyIn(t) /\ UNCHANGED <<tableVars, keyVars>>
  BY <1>1, ManagerStepsAreOf, SamplerFacts DEF EndStep
<1>3. values[t] = {} /\ values' = values /\ WithDtr' = WithDtr
  BY <1>1, <1>2 DEF End, WithDtr, keyVars
<1>4. t \notin WithDtr
  BY <1>3, WithDtrIs DEF Holds
<1>5. spc[t] \in {"none", "exiting"}
  BY <1>1, <1>4, SamplerFacts
<1>6. Coupled(t)'
  <2>1. spc'[t] = "none" /\ t \notin WithDtr'
    BY <1>1, <1>3, <1>4, SamplerFacts
  <2> QED
    BY <2>1 DEF Coupled, InCtor, InDtr
<1>7. CASE spc[t] = "exiting"
  <2>1. M!Die(t)
    BY <1>1, <1>3, <1>7
    DEF Terminate, M!Die, M!Transition, M!threadVars, M!setupVars, M!monitorVars
  <2>2. M!Next
    BY <2>1, SamplerSteps DEF M!ThreadStep
  <2>3. ready = "yes"
    BY <1>7 DEF InStep, Unused
  <2> QED
    BY <1>1, <1>2, <1>6, <2>2, <2>3, OthersCoupled DEF Follows, InStep
<1>8. CASE spc[t] = "none"
  <2>1. spc' = spc
    BY <1>1, <1>8 DEF InStep, MP!TypeOK
  <2>2. pending[t] = FALSE /\ merged[t] = FALSE
    BY <1>8, SamplerFacts
  <2>3. pending' = pending /\ merged' = merged
    BY <1>1, <2>2, SamplerFacts
  <2>4. UNCHANGED samplerVars
    BY <2>1, <2>3 DEF Terminate, samplerVars
  <2>5. ready' # "yes" => Unused'
    BY <1>1, <2>4 DEF InStep, Unused, samplerVars
  <2> QED
    BY <1>1, <1>2, <1>3, <1>6, <2>4, <2>5, SamplerStutters, OthersCoupled
    DEF Follows, InStep
<1> QED
  BY <1>5, <1>7, <1>8

(* The handler and the monitor.                                            *)
LEMMA SignalsFollow ==
  ASSUME InStep, Monitoring \/ \E t \in Threads : Poked(t)
  PROVE  Follows
<1>1. UNCHANGED <<vars, ready, fault>>
  BY DEF Monitoring, Poked
<1>2. M!Next /\ spc' = spc /\ (ready # "yes" => mpc' = mpc)
  <2>1. CASE Monitoring
    <3>1. spc' = spc
      BY <2>1 DEF Monitoring, M!MonitorStep, M!MonitorStart, M!MonitorWake,
                  M!MonitorLock, M!MonitorPoke, M!MonitorFlip, M!MonitorUnlock
    <3> QED
      BY <2>1, <3>1 DEF Monitoring, M!Next
  <2>2. ASSUME NEW t \in Threads, Poked(t)
        PROVE  M!Next /\ spc' = spc /\ mpc' = mpc
    <3>1. spc' = spc /\ mpc' = mpc
      BY <2>2 DEF Poked, M!PokeEnter, M!PokeReturn, M!monitorVars
    <3> QED
      BY <2>2, <3>1, SamplerSteps DEF Poked
  <2> QED
    BY <2>1, <2>2
<1>3. WithDtr' = WithDtr
  BY <1>1 DEF WithDtr, vars, threadVars, keyVars
<1>4. ASSUME NEW u \in Threads PROVE Coupled(u)'
  BY <1>1, <1>2, <1>3, SameCtorIs, SameCoupled DEF InStep, vars, threadVars
<1> QED
  BY <1>1, <1>2, <1>4 DEF Follows, InStep, Unused

-----------------------------------------------------------------------------
(* Every step, as long as no thread has come too early, is one that        *)
(* SampledThreadMonitor allows or does not see.                            *)
LEMMA StepFollows ==
  ASSUME ProperList, Managed, ReadyInv, InStep, [SampledNext]_allVars, ~hurried'
  PROVE  Follows
<1>1. CASE Loading
  BY <1>1, LoaderFollows, InitializerFollows DEF Loading
<1>2. CASE Monitoring
  BY <1>2, SignalsFollow
<1>3. ASSUME NEW t \in Threads, Living(t) PROVE Follows
  <2>1. CASE SpawnThread(t) BY <2>1, SpawnFollows
  <2>2. CASE WalkOn(t)      BY <2>2, WalkOnFollows
  <2>3. CASE EnterCtor(t)   BY <2>3, EnterCtorFollows
  <2>4. CASE Install(t)     BY <2>4, InstallFollows
  <2>5. CASE InTap(t)       BY <2>5, InTapFollows
  <2>6. CASE CallNull(t)    BY <2>6, NoNullCalls
  <2>7. CASE ReturnFrom(t)  BY <2>7, ReturnFollows
  <2>8. CASE CallDtr(t)     BY <2>8, CallDtrFollows
  <2>9. CASE Terminate(t)   BY <2>9, TerminateFollows
  <2>10. CASE Poked(t)      BY <2>10, SignalsFollow
  <2> QED
    BY <1>3, <2>1, <2>2, <2>3, <2>4, <2>5, <2>6, <2>7, <2>8, <2>9, <2>10 DEF Living
<1>4. CASE UNCHANGED allVars
  <2>1. UNCHANGED <<vars, samplerVars, ready, fault>>
    BY <1>4 DEF allVars
  <2>2. WithDtr' = WithDtr /\ UNCHANGED <<tableVars, pc, ci, ran, spc, mpc>>
    BY <2>1 DEF WithDtr, vars, threadVars, keyVars, samplerVars
  <2>3. ASSUME NEW u \in Threads PROVE Coupled(u)'
    BY <2>2, SameCtorIs, SameCoupled DEF InStep
  <2> QED
    BY <2>1, <2>2, <2>3, SamplerStutters DEF Follows, InStep, Unused
<1> QED
  BY <1>1, <1>2, <1>3, <1>4 DEF SampledNext

LEMMA NobodyIsUnhurried ==
  ASSUME [SampledNext]_allVars, ~hurried'
  PROVE  ~hurried
<1>1. CASE Loading
  BY <1>1 DEF Loading, Load, BeginInit, LookUpFunctions, MakeLock
<1>2. CASE Monitoring
  BY <1>2 DEF Monitoring
<1>3. ASSUME NEW t \in Threads, Living(t) PROVE ~hurried
  BY <1>3 DEF Living, SpawnThread, WalkOn, EnterCtor, Install, InTap, CallNull, ReturnFrom,
              CallDtr, Terminate, Poked
<1>4. CASE UNCHANGED allVars
  BY <1>4 DEF allVars
<1> QED
  BY <1>1, <1>2, <1>3, <1>4 DEF SampledNext

Agreed == ~hurried => InStep

LEMMA AgreedInit == SampledInit => Agreed
<1> SUFFICES ASSUME SampledInit PROVE InStep
  BY DEF Agreed
<1>1. MP!Init
  BY SameInit DEF SampledInit
<1>2. MP!TypeOK /\ MP!CoreInv
  BY <1>1, MP!TypeInit, MP!CoreInit, SamplerConstants
<1>3. (\A t \in Threads : spc[t] = "none") /\ mpc = "start"
  BY DEF SampledInit, M!Init
<1>4. WithDtr = {}
  BY DEF SampledInit, M!Init
<1>5. \A t \in Threads : Coupled(t)
  BY <1>3, <1>4 DEF Coupled, InCtor, InDtr
<1> QED
  BY <1>2, <1>3, <1>5 DEF InStep, Unused, SampledInit

LEMMA AgreedNext ==
  ASSUME ProperList, Managed, ReadyInv, Agreed, [SampledNext]_allVars
  PROVE  Agreed' /\ (hurried' \/ M!Next \/ UNCHANGED M!vars)
<1> SUFFICES ASSUME ~hurried'
             PROVE  InStep' /\ (M!Next \/ UNCHANGED M!vars)
  BY DEF Agreed
<1>1. InStep
  BY NobodyIsUnhurried DEF Agreed
<1>2. Follows
  BY <1>1, StepFollows
<1>3. MP!Next \/ UNCHANGED MP!vars
  BY <1>2, SameNext, SameVars DEF Follows
<1>4. MP!TypeOK' /\ MP!CoreInv'
  BY <1>1, <1>3, MP!TypeNext, MP!CoreNext, SamplerConstants DEF InStep
<1> QED
  BY <1>2, <1>4 DEF InStep, Follows

LEMMA AgreedInvariant ==
  ASSUME ProperList
  PROVE  SampledSpec => []Agreed
<1>1. Managed /\ ReadyInv /\ Agreed /\ [SampledNext]_allVars => Agreed'
  BY AgreedNext
<1> QED
  BY AgreedInit, ManagedHolds, ReadyInvariant, <1>1, PTL DEF SampledSpec

-----------------------------------------------------------------------------
(* The manager gives the sampled thread monitor what it takes for granted: *)
(* until a thread comes too early, SampledTaps implements                  *)
(* SampledThreadMonitor, so that what is proved of the monitor alone holds *)
(* in the whole (README:153-158).                                          *)
THEOREM SamplerGetsWhatItAssumes ==
  ASSUME ProperList
  PROVE  SampledSpec => SamplerAsAssumed
<1>1. SampledInit => M!Init
  BY DEF SampledInit
<1>2. Managed /\ ReadyInv /\ Agreed /\ [SampledNext]_allVars
        => [hurried' \/ M!Next]_(M!vars)
  BY AgreedNext
<1> QED
  BY ManagedHolds, ReadyInvariant, AgreedInvariant, <1>1, <1>2, PTL
  DEF SampledSpec, SamplerAsAssumed

(* A thread created once the TAPs are loaded finds every key made and      *)
(* every initializer done.                                                 *)
LEMMA LateIsInTime ==
  ASSUME ProperList, Managed, ReadyInv, NEW t \in Threads, Hurries(t), ~early[t]
  PROVE  FALSE
<1>1. PICK p \in ThreadAware :
        /\ CtorIs(t, p)
        /\ (\A k \in DOMAIN keyDtr : keyDtr[k] # p) \/ (p = Sampled /\ ready # "yes")
  BY DEF Hurries
<1>2. pc[t] = "ctors" /\ ci[t] < LDM_numCtrs /\ LDM_thd_ctr[ci[t]] = p /\ p # NoTap
  BY <1>1, TapAssumption DEF CtorIs
<1>3. lpc = "main"
  BY <1>2 DEF Managed, Runs, Started, Late
<1>4. ci[t] + 1 \in 1 .. Len(Wanted) /\ p = Wanted[ci[t] + 1]
  BY <1>2, EntryIsWanted DEF Managed
<1>5. \E k \in DOMAIN keyDtr : keyDtr[k] = p
  <2>1. KeyOf(p) < Len(keyDtr) /\ keyDtr[KeyOf(p) + 1] = p
    BY <1>3, <1>4, KeysOfTheWanted DEF ProperList, Managed, KeysInv
  <2>2. KeyOf(p) \in Nat /\ Len(keyDtr) \in Nat /\ DOMAIN keyDtr = 1 .. Len(keyDtr)
    BY KeyFacts, TapAssumption, LenProperties DEF Managed
  <2> QED
    BY <2>1, <2>2
<1>6. ready # "no" \/ p # Sampled
  <2>1. Through = Len(TapList)
    BY <1>3, ListFacts DEF Through, Walked, Managed, Loaded, Walking
  <2>2. \E m \in 1 .. Len(TapList) : TapList[m] = p
    BY <1>4, WantedAreAware
  <2> QED
    BY <2>1, <2>2 DEF ReadyInv
<1> QED
  BY <1>1, <1>3, <1>5, <1>6 DEF ReadyInv

(* Only a thread that was created while TAPs were being loaded can come    *)
(* too early, and nothing else makes a null pointer be called or a lock be *)
(* made while it is held (thread_constructor.c:61, 71).                    *)
THEOREM OnlyEarlyThreadsHurry ==
  ASSUME ProperList
  PROVE  SampledSpec => []HurriedOnlyEarly
<1>1. Managed /\ ReadyInv /\ Agreed => HurriedOnlyEarly
  <2> SUFFICES ASSUME Managed, ReadyInv, Agreed PROVE HurriedOnlyEarly
    OBVIOUS
  <2>1. fault # "none" => hurried
    BY DEF Agreed, InStep
  <2>2. \A t \in Threads : Hurries(t) => early[t]
    BY LateIsInTime
  <2> QED
    BY <2>1, <2>2 DEF HurriedOnlyEarly
<1> QED
  BY ManagedHolds, ReadyInvariant, AgreedInvariant, <1>1, PTL

(* Through the manager, too, the monitor has no thread to poke that has    *)
(* terminated (README:156-158).                                            *)
THEOREM NoPokeOfTheDead ==
  ASSUME ProperList
  PROVE  SampledSpec => []PokesLiving
<1>1. Agreed => PokesLiving
  <2> SUFFICES ASSUME InStep PROVE M!LiveTargets
    BY DEF Agreed, PokesLiving
  <2>1. MP!ListInv
    BY DEF InStep, MP!CoreInv
  <2>2. M!Slots = MP!Slots
    BY DEF M!Slots, MP!Slots
  <2> QED
    BY <2>1, <2>2 DEF MP!ListInv, MP!Listed, M!LiveTargets
<1> QED
  BY AgreedInvariant, <1>1, PTL
=============================================================================
