--------------------- MODULE SampledThreadMonitorProofs ---------------------
(***************************************************************************)
(* Proofs about SampledThreadMonitor, for every set of threads, every size *)
(* of threadList and every sampling rate.                                  *)
(***************************************************************************)
EXTENDS SampledThreadMonitor, FiniteSetTheorems, TLAPS

(* The shape of the next-state relation: one disjunct per action.          *)
ThreadActions(t) ==
  \/ Create(t) \/ InstallDtr(t) \/ InstallHandler(t)
  \/ RegisterLock(t) \/ Register(t) \/ SyncState(t) \/ RegisterUnlock(t)
  \/ Finish(t) \/ DeinitLock(t) \/ DeinitClear(t) \/ DeinitUnlock(t)
  \/ Die(t) \/ PokeEnter(t) \/ PokeReturn(t)

(* Every step is one thread's action or the monitor's.                     *)
LEMMA NextSplit == Next <=> (\E t \in Threads : ThreadActions(t)) \/ MonitorStep
BY DEF Next, ThreadActions, ThreadStep

-----------------------------------------------------------------------------
(* Type correctness. *)

LEMMA TypeInit == Init => TypeOK
<1> USE ConstantsAssumption DEF Slots
<1> SUFFICES ASSUME Init PROVE TypeOK
  OBVIOUS
<1>1. 0 \in 0 .. (MAX_NUM_THREADS - 1) /\ 0 \in 0 .. MAX_NUM_THREADS
  OBVIOUS
<1> QED
  BY <1>1 DEF Init, TypeOK, SamplingState, SAMPLE_ON, SAMPLE_OFF, ThreadPCs,
              MonitorPCs

LEMMA TypeNext == TypeOK /\ [Next]_vars => TypeOK'
<1> SUFFICES ASSUME TypeOK, [Next]_vars PROVE TypeOK'
  OBVIOUS
<1> USE ConstantsAssumption DEF TypeOK, ThreadPCs, MonitorPCs, SamplingState,
          SAMPLE_ON, SAMPLE_OFF, Idle, threadVars, signalVars, setupVars,
          monitorVars
<1>1. ASSUME NEW t \in Threads, ThreadActions(t) PROVE TypeOK'
  <2>1. CASE Create(t)
    <3>1. 0 \in Slots
      BY DEF Slots
    <3> QED BY <2>1, <3>1 DEF Create, Transition
  <2>2. CASE InstallDtr(t)     BY <2>2 DEF InstallDtr, Transition
  <2>3. CASE InstallHandler(t) BY <2>3 DEF InstallHandler, Transition
  <2>4. CASE RegisterLock(t)   BY <2>4 DEF RegisterLock, Transition
  <2>5. CASE Register(t)       BY <2>5 DEF Register, Transition
  <2>6. CASE SyncState(t)      BY <2>6 DEF SyncState, Transition
  <2>7. CASE RegisterUnlock(t) BY <2>7 DEF RegisterUnlock, Transition
  <2>8. CASE Finish(t)         BY <2>8 DEF Finish, Transition
  <2>9. CASE DeinitLock(t)     BY <2>9 DEF DeinitLock, Transition
  <2>10. CASE DeinitClear(t)   BY <2>10 DEF DeinitClear, Transition
  <2>11. CASE DeinitUnlock(t)  BY <2>11 DEF DeinitUnlock, Transition
  <2>12. CASE Die(t)           BY <2>12 DEF Die, Transition
  <2>13. CASE PokeEnter(t)     BY <2>13 DEF PokeEnter
  <2>14. CASE PokeReturn(t)    BY <2>14 DEF PokeReturn
  <2> QED
    BY <1>1, <2>1, <2>2, <2>3, <2>4, <2>5, <2>6, <2>7, <2>8, <2>9, <2>10,
       <2>11, <2>12, <2>13, <2>14 DEF ThreadActions
<1>2. ASSUME MonitorStep PROVE TypeOK'
  <2>1. CASE MonitorStart  BY <2>1 DEF MonitorStart
  <2>2. CASE MonitorWake   BY <2>2 DEF MonitorWake
  <2>3. CASE MonitorLock   BY <2>3 DEF MonitorLock
  <2>4. CASE MonitorPoke
    <3>1. pending' \in [Threads -> BOOLEAN] /\ merged' \in [Threads -> BOOLEAN]
      <4>1. CASE UNCHANGED <<pending, merged>>  BY <4>1
      <4>2. CASE threadList[mi] # NoThread /\ Kill(threadList[mi])
        BY <4>2 DEF Kill
      <4> QED BY <2>4, <4>1, <4>2 DEF MonitorPoke
    <3>2. mi' \in 0 .. MAX_NUM_THREADS
      BY <2>4 DEF MonitorPoke
    <3> QED BY <2>4, <3>1, <3>2 DEF MonitorPoke
  <2>5. CASE MonitorFlip   BY <2>5 DEF MonitorFlip
  <2>6. CASE MonitorUnlock BY <2>6 DEF MonitorUnlock
  <2> QED BY <1>2, <2>1, <2>2, <2>3, <2>4, <2>5, <2>6 DEF MonitorStep
<1>3. CASE UNCHANGED vars
  BY <1>3 DEF vars
<1> QED BY <1>1, <1>2, <1>3, NextSplit

(* Every variable has its type, in every reachable state.                  *)
THEOREM TypeCorrect == Spec => []TypeOK
<1> QED BY TypeInit, TypeNext, PTL DEF Spec

-----------------------------------------------------------------------------
(* The inductive invariant.                                                *)

Critical == {"insert", "sync", "regunlock", "clear", "exitunlock"}
Listed   == {"sync", "regunlock", "run", "exitlock", "clear"}
Pokable  == {"regunlock", "run", "exitlock", "clear", "exitunlock", "exiting"}

(* threadListLock is held exactly in the critical sections, so that the    *)
(* monitor's scan and the two registration scans exclude each other.       *)
LockInv ==
  /\ \A t \in Threads : pc[t] \in Critical <=> lock = t
  /\ mpc \in {"poke", "unlock"} <=> lock = Monitor
  /\ mpc # "poke" => mi = 0

(* A listed thread sits in the slot it was given, has not yet cleared it,  *)
(* and has the destructor that will.                                       *)
ListInv ==
  /\ \A s \in Slots :
       threadList[s] # NoThread =>
         threadId[threadList[s]] = s /\ pc[threadList[s]] \in Listed
  /\ \A t \in Threads :
       pc[t] \in {"sigaction", "reglock", "insert", "sync", "regunlock", "run"}
         => t \in dtr

(* Only threads past their constructor are poked, and they come after a    *)
(* sigaction.                                                              *)
SignalInv ==
  /\ \A t \in Threads :
       pc[t] \in {"reglock", "insert", "sync"} \cup Pokable => handlerSet
  /\ \A t \in Threads :
       pending[t] \/ inClient[t] # Idle \/ merged[t] => pc[t] \in Pokable
  /\ \A t \in Threads : inClient[t] # Idle => inClient[t] # samplingState[t]

CoreInv == LockInv /\ ListInv /\ SignalInv

LEMMA CoreInit == Init => CoreInv
<1> SUFFICES ASSUME Init PROVE CoreInv
  OBVIOUS
<1> QED
  BY ConstantsAssumption
  DEF Init, CoreInv, LockInv, ListInv, SignalInv, Critical, Listed, Pokable,
      Idle, Slots

(* Each thread action keeps the lock discipline. *)
LEMMA LockNext == TypeOK /\ LockInv /\ [Next]_vars => LockInv'
<1> SUFFICES ASSUME TypeOK, LockInv, [Next]_vars PROVE LockInv'
  OBVIOUS
<1> USE ConstantsAssumption DEF TypeOK, LockInv, Critical, ThreadPCs,
        MonitorPCs, threadVars, signalVars, setupVars, monitorVars, Transition
<1>1. ASSUME NEW t \in Threads, ThreadActions(t) PROVE LockInv'
  <2>1. CASE Create(t)         BY <2>1 DEF Create
  <2>2. CASE InstallDtr(t)     BY <2>2 DEF InstallDtr
  <2>3. CASE InstallHandler(t) BY <2>3 DEF InstallHandler
  <2>4. CASE RegisterLock(t)   BY <2>4 DEF RegisterLock
  <2>5. CASE Register(t)       BY <2>5 DEF Register
  <2>6. CASE SyncState(t)      BY <2>6 DEF SyncState
  <2>7. CASE RegisterUnlock(t) BY <2>7 DEF RegisterUnlock
  <2>8. CASE Finish(t)         BY <2>8 DEF Finish
  <2>9. CASE DeinitLock(t)     BY <2>9 DEF DeinitLock
  <2>10. CASE DeinitClear(t)   BY <2>10 DEF DeinitClear
  <2>11. CASE DeinitUnlock(t)  BY <2>11 DEF DeinitUnlock
  <2>12. CASE Die(t)           BY <2>12 DEF Die
  <2>13. CASE PokeEnter(t)     BY <2>13 DEF PokeEnter
  <2>14. CASE PokeReturn(t)    BY <2>14 DEF PokeReturn
  <2> QED
    BY <1>1, <2>1, <2>2, <2>3, <2>4, <2>5, <2>6, <2>7, <2>8, <2>9, <2>10,
       <2>11, <2>12, <2>13, <2>14 DEF ThreadActions
<1>2. ASSUME MonitorStep PROVE LockInv'
  <2>1. CASE MonitorStart  BY <2>1 DEF MonitorStart
  <2>2. CASE MonitorWake   BY <2>2 DEF MonitorWake
  <2>3. CASE MonitorLock   BY <2>3 DEF MonitorLock
  <2>4. CASE MonitorPoke   BY <2>4 DEF MonitorPoke
  <2>5. CASE MonitorFlip   BY <2>5 DEF MonitorFlip
  <2>6. CASE MonitorUnlock BY <2>6 DEF MonitorUnlock
  <2> QED BY <1>2, <2>1, <2>2, <2>3, <2>4, <2>5, <2>6 DEF MonitorStep
<1>3. CASE UNCHANGED vars
  BY <1>3 DEF vars
<1> QED BY <1>1, <1>2, <1>3, NextSplit

(* What is in a slot is a thread or nothing, and a listed thread is not    *)
(* changed by the actions of another.                                      *)
LEMMA ListNext == TypeOK /\ LockInv /\ ListInv /\ [Next]_vars => ListInv'
<1> SUFFICES ASSUME TypeOK, LockInv, ListInv, [Next]_vars PROVE ListInv'
  OBVIOUS
<1> USE ConstantsAssumption DEF TypeOK, ListInv, Listed, ThreadPCs,
        threadVars, signalVars, setupVars, monitorVars, Transition
<1>1. ASSUME NEW t \in Threads, ThreadActions(t) PROVE ListInv'
  <2>1. CASE Create(t)         BY <2>1 DEF Create
  <2>2. CASE InstallDtr(t)     BY <2>2 DEF InstallDtr
  <2>3. CASE InstallHandler(t) BY <2>3 DEF InstallHandler
  <2>4. CASE RegisterLock(t)   BY <2>4 DEF RegisterLock
  <2>5. CASE Register(t)       BY <2>5 DEF Register, FreeSlots, FirstFree
  <2>6. CASE SyncState(t)      BY <2>6 DEF SyncState
  <2>7. CASE RegisterUnlock(t) BY <2>7 DEF RegisterUnlock
  <2>8. CASE Finish(t)         BY <2>8 DEF Finish
  <2>9. CASE DeinitLock(t)     BY <2>9 DEF DeinitLock
  <2>10. CASE DeinitClear(t)   BY <2>10 DEF DeinitClear
  <2>11. CASE DeinitUnlock(t)  BY <2>11 DEF DeinitUnlock
  <2>12. CASE Die(t)           BY <2>12 DEF Die
  <2>13. CASE PokeEnter(t)     BY <2>13 DEF PokeEnter
  <2>14. CASE PokeReturn(t)    BY <2>14 DEF PokeReturn
  <2> QED
    BY <1>1, <2>1, <2>2, <2>3, <2>4, <2>5, <2>6, <2>7, <2>8, <2>9, <2>10,
       <2>11, <2>12, <2>13, <2>14 DEF ThreadActions
<1>2. CASE MonitorStep
  BY <1>2 DEF MonitorStep, MonitorStart, MonitorWake, MonitorLock, MonitorPoke,
              MonitorFlip, MonitorUnlock
<1>3. CASE UNCHANGED vars
  BY <1>3 DEF vars
<1> QED BY <1>1, <1>2, <1>3, NextSplit

LEMMA SignalNext ==
  TypeOK /\ LockInv /\ ListInv /\ SignalInv /\ [Next]_vars => SignalInv'
<1> SUFFICES ASSUME TypeOK, LockInv, ListInv, SignalInv, [Next]_vars
             PROVE SignalInv'
  OBVIOUS
<1> USE ConstantsAssumption DEF TypeOK, SignalInv, Pokable, ThreadPCs,
        SamplingState, SAMPLE_ON, SAMPLE_OFF, Idle,
        threadVars, signalVars, setupVars, monitorVars, Transition
<1>1. ASSUME NEW t \in Threads, ThreadActions(t) PROVE SignalInv'
  <2>1. CASE Create(t)         BY <2>1 DEF Create
  <2>2. CASE InstallDtr(t)     BY <2>2 DEF InstallDtr
  <2>3. CASE InstallHandler(t) BY <2>3 DEF InstallHandler
  <2>4. CASE RegisterLock(t)   BY <2>4 DEF RegisterLock
  <2>5. CASE Register(t)       BY <2>5 DEF Register
  <2>6. CASE SyncState(t)      BY <2>6 DEF SyncState
  <2>7. CASE RegisterUnlock(t) BY <2>7 DEF RegisterUnlock
  <2>8. CASE Finish(t)         BY <2>8 DEF Finish
  <2>9. CASE DeinitLock(t)     BY <2>9 DEF DeinitLock
  <2>10. CASE DeinitClear(t)   BY <2>10 DEF DeinitClear
  <2>11. CASE DeinitUnlock(t)  BY <2>11 DEF DeinitUnlock
  <2>12. CASE Die(t)           BY <2>12 DEF Die
  <2>13. CASE PokeEnter(t)     BY <2>13 DEF PokeEnter
  <2>14. CASE PokeReturn(t)    BY <2>14 DEF PokeReturn
  <2> QED
    BY <1>1, <2>1, <2>2, <2>3, <2>4, <2>5, <2>6, <2>7, <2>8, <2>9, <2>10,
       <2>11, <2>12, <2>13, <2>14 DEF ThreadActions
<1>2. CASE MonitorPoke
  <2>1. CASE UNCHANGED <<pending, merged>>
    BY <1>2, <2>1 DEF MonitorPoke
  <2>2. CASE threadList[mi] # NoThread /\ Kill(threadList[mi])
    <3> DEFINE u == threadList[mi]
    <3>1. mi \in Slots
      BY <1>2 DEF MonitorPoke, Slots
    <3>2. u \in Threads /\ pc[u] \in Listed
      BY <2>2, <3>1 DEF ListInv
    <3>3. pc[u] # "sync"
      BY <1>2, <3>2 DEF LockInv, Critical, MonitorPoke
    <3>4. pc[u] \in Pokable
      BY <3>2, <3>3 DEF Listed
    <3> QED BY <1>2, <2>2, <3>2, <3>4 DEF MonitorPoke, Kill
  <2> QED BY <1>2, <2>1, <2>2 DEF MonitorPoke
<1>3. CASE MonitorStart \/ MonitorWake \/ MonitorLock \/ MonitorFlip
             \/ MonitorUnlock
  BY <1>3 DEF MonitorStart, MonitorWake, MonitorLock, MonitorFlip,
              MonitorUnlock
<1>4. CASE UNCHANGED vars
  BY <1>4 DEF vars
<1> QED BY <1>1, <1>2, <1>3, <1>4, NextSplit DEF MonitorStep

LEMMA CoreNext == TypeOK /\ CoreInv /\ [Next]_vars => CoreInv'
BY LockNext, ListNext, SignalNext DEF CoreInv

(* The core invariant holds in every reachable state.                      *)
THEOREM CoreInvariant == Spec => [](TypeOK /\ CoreInv)
<1> QED BY TypeInit, TypeNext, CoreInit, CoreNext, PTL DEF Spec

(* The monitor never pokes a thread that has no code left to run, however  *)
(* threads come and go while it scans the list.                            *)
THEOREM LiveTargetsHold == Spec => []LiveTargets
<1>1. TypeOK /\ CoreInv => LiveTargets
  BY DEF CoreInv, ListInv, Listed, LiveTargets
<1> QED BY <1>1, CoreInvariant, PTL

(* No thread is ever listed twice.                                         *)
THEOREM RegisteredOnceHolds == Spec => []RegisteredOnce
<1>1. TypeOK /\ CoreInv => RegisteredOnce
  BY DEF CoreInv, ListInv, RegisteredOnce
<1> QED BY <1>1, CoreInvariant, PTL

(* No poke is under way before handlePoke is installed.                    *)
THEOREM HandlerInstalledHolds == Spec => []HandlerInstalled
<1>1. TypeOK /\ CoreInv => HandlerInstalled
  BY DEF CoreInv, SignalInv, HandlerInstalled
<1> QED BY <1>1, CoreInvariant, PTL

-----------------------------------------------------------------------------
(* The toggle count. *)

PhaseInv == PhaseAccounting /\ (mpc = "start" => ~active)

(* A step that leaves every remaining member's state, toggles and place in *)
(* the round alone keeps the count.                                        *)
LEMMA PhaseFrame ==
  ASSUME PhaseAccounting, active' = active,
         \A u \in Members' :
           /\ u \in Members
           /\ u \in Told' <=> u \in Told
           /\ samplingState'[u] = samplingState[u]
           /\ pending'[u] = pending[u]
           /\ inClient'[u] = inClient[u]
           /\ merged'[u] = merged[u]
  PROVE  PhaseAccounting'
BY DEF PhaseAccounting, Target, Owed

(* A thread's own step between two of its list operations.                 *)
LEMMA QuietStep ==
  ASSUME PhaseAccounting, NEW t \in Threads, TypeOK,
         UNCHANGED <<threadList, active, mi>>,
         \A u \in Threads \ {t} : pc'[u] = pc[u],
         t \in Members' => t \in Members,
         \A u \in Members' : samplingState'[u] = samplingState[u],
         \A u \in Members' : pending'[u] = pending[u],
         \A u \in Members' : inClient'[u] = inClient[u],
         \A u \in Members' : merged'[u] = merged[u]
  PROVE  PhaseAccounting'
<1>1. ASSUME NEW u \in Members' PROVE u \in Members
  BY <1>1 DEF Members, Registered
<1>2. ASSUME NEW u \in Members' PROVE u \in Told' <=> u \in Told
  BY <1>1, <1>2 DEF Told
<1> QED BY <1>1, <1>2, PhaseFrame

LEMMA PhaseThread ==
  ASSUME TypeOK, CoreInv, PhaseAccounting,
         NEW t \in Threads, ThreadActions(t)
  PROVE  PhaseAccounting'
<1> USE ConstantsAssumption DEF TypeOK, threadVars, signalVars, setupVars,
        monitorVars, Transition, ThreadPCs
<1>1. CASE Create(t)
  BY <1>1, QuietStep DEF Create, Members
<1>2. CASE InstallDtr(t)
  BY <1>2, QuietStep DEF InstallDtr, Members
<1>3. CASE InstallHandler(t)
  BY <1>3, QuietStep DEF InstallHandler, Members
<1>4. CASE RegisterLock(t)
  BY <1>4, QuietStep DEF RegisterLock, Members
<1>5. CASE Register(t)
  <2>1. ASSUME NEW u \in Members'
        PROVE  u # t /\ u \in Members /\ (u \in Told' <=> u \in Told)
    <3>1. u # t /\ u \in Threads
      BY <1>5, <2>1 DEF Register, Members
    <3>2. \A s \in Slots : threadList'[s] = u <=> threadList[s] = u
      <4>1. CASE UNCHANGED threadList
        BY <4>1
      <4>2. ASSUME NEW s \in Slots, FirstFree(s),
                   threadList' = [threadList EXCEPT ![s] = t]
            PROVE  \A r \in Slots : threadList'[r] = u <=> threadList[r] = u
        <5>1. threadList[s] = NoThread
          BY <4>2 DEF FirstFree, FreeSlots
        <5> QED BY <3>1, <4>2, <5>1
      <4> QED BY <1>5, <4>1, <4>2 DEF Register
    <3>3. u \in Members
      BY <1>5, <2>1, <3>1, <3>2 DEF Register, Members, Registered
    <3>4. u \in Told' <=> u \in Told
      BY <1>5, <2>1, <3>2, <3>3 DEF Register, Told
    <3> QED BY <3>1, <3>3, <3>4
  <2> QED BY <1>5, <2>1, PhaseFrame DEF Register
<1>6. CASE SyncState(t)
  <2>1. mpc # "poke" /\ mpc' # "poke"
    BY <1>6 DEF SyncState, CoreInv, LockInv, Critical
  <2>2. Told = {} /\ Told' = {}
    <3>1. mi = 0 /\ mi' = 0
      BY <1>6, <2>1 DEF SyncState, CoreInv, LockInv
    <3> QED BY <3>1 DEF Told, Slots
  <2>3. ~pending[t] /\ inClient[t] = Idle /\ ~merged[t]
    BY <1>6 DEF SyncState, CoreInv, SignalInv, Pokable
  <2>4. ~Owed(t)' /\ samplingState'[t] = Target(t)'
    BY <1>6, <2>2, <2>3 DEF SyncState, Owed, Target
  <2>5. ASSUME NEW u \in Members', u # t
        PROVE  (samplingState'[u] # Target(u)') <=> Owed(u)'
    <3>1. u \in Members
      BY <1>6, <2>5 DEF SyncState, Members, Registered
    <3>2. (samplingState[u] # Target(u)) <=> Owed(u)
      BY <3>1 DEF PhaseAccounting
    <3>3. u \in Threads
      BY <3>1 DEF Members
    <3>4. samplingState'[u] = samplingState[u] /\ Target(u)' = Target(u)
      BY <1>6, <2>2, <2>5, <3>3 DEF SyncState, Target
    <3>5. Owed(u)' <=> Owed(u)
      BY <1>6 DEF SyncState, Owed
    <3> QED BY <3>2, <3>4, <3>5
  <2> QED BY <2>4, <2>5 DEF PhaseAccounting
<1>7. CASE RegisterUnlock(t)
  BY <1>7, QuietStep DEF RegisterUnlock, Members, Registered
<1>8. CASE Finish(t)
  BY <1>8, QuietStep DEF Finish, Members, Registered
<1>9. CASE DeinitLock(t)
  BY <1>9, QuietStep DEF DeinitLock, Members, Registered
<1>10. CASE DeinitClear(t)
  <2>1. ASSUME NEW u \in Members'
        PROVE  u \in Members /\ (u \in Told' <=> u \in Told)
    <3>1. u # t /\ u \in Threads
      BY <1>10, <2>1 DEF DeinitClear, Members
    <3>2. \A s \in Slots : threadList'[s] = u <=> threadList[s] = u
      BY <1>10, <3>1 DEF DeinitClear
    <3>3. u \in Members
      BY <1>10, <2>1, <3>1, <3>2 DEF DeinitClear, Members, Registered
    <3>4. u \in Told' <=> u \in Told
      BY <1>10, <2>1, <3>2, <3>3 DEF DeinitClear, Told
    <3> QED BY <3>3, <3>4
  <2> QED BY <1>10, <2>1, PhaseFrame DEF DeinitClear
<1>11. CASE DeinitUnlock(t)
  BY <1>11, QuietStep DEF DeinitUnlock, Members
<1>12. CASE Die(t)
  BY <1>12, QuietStep DEF Die, Members
<1>13. CASE PokeEnter(t)
  <2>1. Members' = Members /\ Told' = Told
    BY <1>13 DEF PokeEnter, Members, Told, Registered
  <2>2. ASSUME NEW u \in Members
        PROVE  Target(u)' = Target(u) /\ samplingState'[u] = samplingState[u]
    BY <1>13, <2>1 DEF PokeEnter, Target
  <2>3. ASSUME NEW u \in Members PROVE Owed(u)' <=> Owed(u)
    <3>1. u \in Threads
      BY <2>3 DEF Members
    <3>2. CASE u = t
      <4>1. pending[t] = TRUE /\ pending'[t] = FALSE
        BY <1>13 DEF PokeEnter
      <4>2. inClient[t] = Idle /\ inClient'[t] # Idle
        BY <1>13 DEF PokeEnter, Idle, SAMPLE_ON, SAMPLE_OFF
      <4>3. merged'[t] = merged[t]
        BY <1>13 DEF PokeEnter
      <4>4. merged[t] \in BOOLEAN
        OBVIOUS
      <4> QED BY <3>2, <4>1, <4>2, <4>3, <4>4 DEF Owed
    <3>3. CASE u # t
      <4>1. pending'[u] = pending[u] /\ inClient'[u] = inClient[u]
              /\ merged'[u] = merged[u]
        BY <1>13, <3>1, <3>3 DEF PokeEnter
      <4> QED BY <4>1 DEF Owed
    <3> QED BY <3>2, <3>3
  <2> QED BY <2>1, <2>2, <2>3 DEF PhaseAccounting
<1>14. CASE PokeReturn(t)
  <2>1. Members' = Members /\ Told' = Told
    BY <1>14 DEF PokeReturn, Members, Told, Registered
  <2>2. ASSUME NEW u \in Members PROVE Target(u)' = Target(u)
    BY <1>14, <2>1 DEF PokeReturn, Target
  <2>3. ASSUME NEW u \in Members
        PROVE  (samplingState'[u] # Target(u)') <=> Owed(u)'
    <3>1. u \in Threads
      BY <2>3 DEF Members
    <3>2. (samplingState[u] # Target(u)) <=> Owed(u)
      BY <2>3 DEF PhaseAccounting
    <3>3. CASE u = t
      <4>1. inClient[t] # Idle /\ inClient'[t] = Idle
        BY <1>14 DEF PokeReturn
      <4>2. pending'[t] = pending[t] /\ merged'[t] = merged[t]
        BY <1>14 DEF PokeReturn
      <4>3. pending[t] \in BOOLEAN /\ merged[t] \in BOOLEAN
        OBVIOUS
      <4>4. Owed(t)' <=> ~Owed(t)
        BY <4>1, <4>2, <4>3 DEF Owed
      <4>5. samplingState'[t] \in SamplingState /\ samplingState[t] \in SamplingState
              /\ samplingState'[t] # samplingState[t]
        BY <1>14 DEF PokeReturn, CoreInv, SignalInv
      <4>6. Target(t) \in SamplingState
        BY DEF Target, SamplingState
      <4> QED
        BY <2>2, <3>2, <3>3, <4>4, <4>5, <4>6
        DEF SamplingState, SAMPLE_ON, SAMPLE_OFF
    <3>4. CASE u # t
      <4>1. pending'[u] = pending[u] /\ inClient'[u] = inClient[u]
              /\ merged'[u] = merged[u] /\ samplingState'[u] = samplingState[u]
        BY <1>14, <3>1, <3>4 DEF PokeReturn
      <4> QED BY <2>2, <3>2, <4>1 DEF Owed
    <3> QED BY <3>3, <3>4
  <2> QED BY <2>1, <2>3 DEF PhaseAccounting
<1> QED
  BY <1>1, <1>2, <1>3, <1>4, <1>5, <1>6, <1>7, <1>8, <1>9, <1>10, <1>11,
     <1>12, <1>13, <1>14 DEF ThreadActions

(* Poking a slot tells its thread of the change and owes it one toggle.    *)
LEMMA PhasePoke ==
  ASSUME TypeOK, CoreInv, PhaseAccounting, MonitorPoke
  PROVE  PhaseAccounting'
<1> USE ConstantsAssumption DEF TypeOK, threadVars, signalVars, setupVars,
        monitorVars
<1>1. Members' = Members
  BY DEF MonitorPoke, Members, Registered
<1>2. mi \in Slots
  BY DEF MonitorPoke, Slots
<1>3. ASSUME NEW u \in Members, threadList[mi] # u
      PROVE  /\ u \in Told' <=> u \in Told
             /\ Target(u)' = Target(u)
             /\ Owed(u)' <=> Owed(u)
  <2>1. u \in Told' <=> u \in Told
    <3>1. \A s \in Slots : threadList[s] = u => (s < mi' <=> s < mi)
      BY <1>2, <1>3 DEF MonitorPoke, Slots
    <3> QED BY <1>1, <1>3, <3>1 DEF Told, MonitorPoke
  <2>2. pending'[u] = pending[u] /\ inClient'[u] = inClient[u]
          /\ merged'[u] = merged[u]
    <3>1. u \in Threads
      BY <1>3 DEF Members
    <3> QED BY <1>3, <3>1 DEF MonitorPoke, Kill
  <2> QED BY <2>1, <2>2 DEF Target, Owed, MonitorPoke
<1>4. ASSUME NEW u \in Members, threadList[mi] = u
      PROVE  /\ Target(u)' # Target(u)
             /\ Owed(u)' <=> ~Owed(u)
  <2>1. u \notin Told
    BY <1>2, <1>4 DEF Told, CoreInv, ListInv, Slots, Members
  <2>2. u \in Told'
    <3>1. mi < mi'
      BY <1>2 DEF MonitorPoke, Slots
    <3> QED BY <1>1, <1>2, <1>4, <3>1 DEF Told, MonitorPoke
  <2>3. u \in Threads /\ u # NoThread
    BY <1>4 DEF Members
  <2>4. Kill(u)
    BY <1>4, <2>3 DEF MonitorPoke
  <2>5. pending'[u] = TRUE /\ inClient'[u] = inClient[u]
          /\ merged'[u] = (merged[u] # pending[u])
    BY <2>3, <2>4 DEF Kill, MonitorPoke
  <2>6. pending[u] \in BOOLEAN /\ merged[u] \in BOOLEAN
    BY <2>3
  <2>7. Owed(u)' <=> ~Owed(u)
    BY <2>5, <2>6 DEF Owed
  <2>8. Target(u)' # Target(u)
    BY <2>1, <2>2 DEF Target, SAMPLE_ON, SAMPLE_OFF, MonitorPoke
  <2> QED BY <2>7, <2>8
<1>5. ASSUME NEW u \in Members
      PROVE  (samplingState'[u] # Target(u)') <=> Owed(u)'
  <2>1. (samplingState[u] # Target(u)) <=> Owed(u)
    BY <1>5 DEF PhaseAccounting
  <2>2. samplingState'[u] = samplingState[u]
    BY DEF MonitorPoke
  <2>3. samplingState[u] \in SamplingState /\ Target(u) \in SamplingState
          /\ Target(u)' \in SamplingState
    BY <1>5 DEF Members, Target, SamplingState
  <2>4. CASE threadList[mi] # u
    BY <1>3, <1>5, <2>1, <2>2, <2>4
  <2>5. CASE threadList[mi] = u
    BY <1>4, <1>5, <2>1, <2>2, <2>3, <2>5
    DEF SamplingState, SAMPLE_ON, SAMPLE_OFF
  <2> QED BY <2>4, <2>5
<1> QED BY <1>1, <1>5 DEF PhaseAccounting

LEMMA PhaseFlip ==
  ASSUME TypeOK, CoreInv, PhaseAccounting, MonitorFlip
  PROVE  PhaseAccounting'
<1> USE ConstantsAssumption DEF TypeOK, threadVars, signalVars, setupVars,
        monitorVars
<1>1. Members' = Members
  BY DEF MonitorFlip, Members, Registered
<1>2. Told = Members
  BY DEF MonitorFlip, Told, Members, Registered, Slots
<1>3. Told' = {}
  BY DEF MonitorFlip, Told, Slots
<1>4. ASSUME NEW u \in Members PROVE Target(u)' = Target(u)
  BY <1>2, <1>3, <1>4 DEF Target, MonitorFlip
<1>5. ASSUME NEW u \in Members
      PROVE  samplingState'[u] = samplingState[u] /\ (Owed(u)' <=> Owed(u))
  BY DEF MonitorFlip, Owed
<1> QED BY <1>1, <1>4, <1>5 DEF PhaseAccounting

LEMMA PhaseNext == TypeOK /\ CoreInv /\ PhaseInv /\ [Next]_vars => PhaseInv'
<1> SUFFICES ASSUME TypeOK, CoreInv, PhaseInv, [Next]_vars PROVE PhaseInv'
  OBVIOUS
<1> USE DEF PhaseInv, threadVars, signalVars, setupVars, monitorVars
<1>1. ASSUME NEW t \in Threads, ThreadActions(t) PROVE PhaseInv'
  <2>1. UNCHANGED <<active, mpc>>
    BY <1>1 DEF ThreadActions, Create, InstallDtr, InstallHandler, RegisterLock,
         Register, SyncState, RegisterUnlock, Finish, DeinitLock, DeinitClear,
         DeinitUnlock, Die, PokeEnter, PokeReturn
  <2> QED BY <1>1, <2>1, PhaseThread
<1>2. CASE MonitorPoke
  BY <1>2, PhasePoke DEF MonitorPoke
<1>3. CASE MonitorFlip
  BY <1>3, PhaseFlip DEF MonitorFlip
<1>4. CASE MonitorStart \/ MonitorWake \/ MonitorLock \/ MonitorUnlock
  <2>1. UNCHANGED <<threadVars, signalVars, pc, mi>>
    BY <1>4 DEF MonitorStart, MonitorWake, MonitorLock, MonitorUnlock
  <2>2. active' = active /\ mpc' # "start"
    <3>1. CASE MonitorStart
      <4>1. active = FALSE
        BY <3>1 DEF TypeOK, MonitorStart
      <4> QED BY <3>1, <4>1 DEF MonitorStart
    <3>2. CASE MonitorWake \/ MonitorLock \/ MonitorUnlock
      BY <3>2 DEF MonitorWake, MonitorLock, MonitorUnlock
    <3> QED BY <1>4, <3>1, <3>2
  <2>3. Members' = Members /\ Told' = Told
    BY <2>1 DEF Members, Told, Registered
  <2> QED BY <2>1, <2>2, <2>3, PhaseFrame
<1>5. CASE UNCHANGED vars
  <2>1. Members' = Members /\ Told' = Told
    BY <1>5 DEF vars, Members, Told, Registered
  <2> QED BY <1>5, <2>1, PhaseFrame DEF vars
<1> QED BY <1>1, <1>2, <1>3, <1>4, <1>5, NextSplit DEF MonitorStep

LEMMA PhaseInit == Init => PhaseInv
BY ConstantsAssumption
DEF Init, PhaseInv, PhaseAccounting, Members, Registered

LEMMA PhaseInvariant == Spec => [](TypeOK /\ CoreInv /\ PhaseInv)
<1> QED BY TypeInit, TypeNext, CoreInit, CoreNext, PhaseInit, PhaseNext, PTL
        DEF Spec

(* A member is out of step with the monitor exactly when it is owed an odd *)
(* number of toggles: none is ever lost but in a merged signal.            *)
THEOREM PhaseAccountingHolds == Spec => []PhaseAccounting
<1>1. TypeOK /\ CoreInv /\ PhaseInv => PhaseAccounting
  BY DEF PhaseInv
<1> QED BY <1>1, PhaseInvariant, PTL

-----------------------------------------------------------------------------
(* Sleeps that outlast the pokes. *)

Busy(t) == pending[t] \/ inClient[t] # Idle

PromptInv ==
  /\ \A t \in Threads : ~merged[t] /\ ~(pending[t] /\ inClient[t] # Idle)
  /\ mpc = "lock" => Quiet
  /\ mpc = "poke" =>
       \A t \in Threads :
         Busy(t) => \E s \in Slots : s < mi /\ threadList[s] = t

LEMMA PromptNext ==
  ASSUME ~LateDelivery, TypeOK, CoreInv, PromptInv, [Next]_vars
  PROVE  PromptInv'
<1> USE ConstantsAssumption DEF TypeOK, PromptInv, Busy, Quiet, threadVars,
        signalVars, setupVars, monitorVars, Transition
<1>1. ASSUME NEW t \in Threads, ThreadActions(t) PROVE PromptInv'
  <2>1. CASE Register(t) \/ DeinitClear(t)
    <3>1. mpc # "poke"
      BY <2>1 DEF Register, DeinitClear, CoreInv, LockInv, Critical
    <3> QED BY <2>1, <3>1 DEF Register, DeinitClear
  <2>2. CASE Die(t)
    BY <2>2 DEF Die
  <2>3. CASE PokeEnter(t)
    BY <2>3 DEF PokeEnter, SAMPLE_ON, SAMPLE_OFF, Idle
  <2>4. CASE PokeReturn(t)
    BY <2>4 DEF PokeReturn
  <2>5. CASE \/ Create(t) \/ InstallDtr(t) \/ InstallHandler(t)
             \/ RegisterLock(t) \/ SyncState(t) \/ RegisterUnlock(t)
             \/ Finish(t) \/ DeinitLock(t) \/ DeinitUnlock(t)
    BY <2>5 DEF Create, InstallDtr, InstallHandler, RegisterLock, SyncState,
                RegisterUnlock, Finish, DeinitLock, DeinitUnlock
  <2> QED BY <1>1, <2>1, <2>2, <2>3, <2>4, <2>5 DEF ThreadActions
<1>2. CASE MonitorPoke
  <2>1. mi \in Slots /\ mi' = mi + 1
    BY <1>2 DEF MonitorPoke, Slots
  <2>2. CASE threadList[mi] = NoThread /\ UNCHANGED <<pending, merged>>
    BY <1>2, <2>1, <2>2 DEF MonitorPoke, Slots
  <2>3. CASE threadList[mi] # NoThread /\ Kill(threadList[mi])
    <3> DEFINE u == threadList[mi]
    <3>1. u \in Threads
      BY <2>1, <2>3
    <3>2. ~Busy(u)
      <4>1. \A s \in Slots : threadList[s] = u => s = mi
        BY <2>1, <2>3, <3>1 DEF CoreInv, ListInv
      <4> QED BY <1>2, <2>1, <3>1, <4>1 DEF MonitorPoke, Slots
    <3>3. pending' = [pending EXCEPT ![u] = TRUE] /\ inClient' = inClient
            /\ merged'[u] = FALSE
      BY <1>2, <2>3, <3>1, <3>2 DEF MonitorPoke, Kill
    <3>4. \A t \in Threads \ {u} :
            pending'[t] = pending[t] /\ merged'[t] = merged[t]
      BY <2>3, <3>1 DEF Kill
    <3>5. \A t \in Threads :
            ~merged'[t] /\ ~(pending'[t] /\ inClient'[t] # Idle)
      BY <3>1, <3>2, <3>3, <3>4
    <3>6. \A t \in Threads :
            Busy(t)' => \E s \in Slots : s < mi' /\ threadList'[s] = t
      BY <1>2, <2>1, <3>1, <3>3, <3>4 DEF MonitorPoke, Slots
    <3> QED BY <1>2, <3>5, <3>6 DEF MonitorPoke
  <2> QED BY <1>2, <2>2, <2>3 DEF MonitorPoke
<1>3. CASE MonitorStart \/ MonitorWake \/ MonitorLock \/ MonitorFlip
             \/ MonitorUnlock
  BY <1>3 DEF MonitorStart, MonitorWake, MonitorLock, MonitorFlip,
              MonitorUnlock
<1>4. CASE UNCHANGED vars
  BY <1>4 DEF vars
<1> QED BY <1>1, <1>2, <1>3, <1>4, NextSplit DEF MonitorStep

PromptIInv == TypeOK /\ CoreInv /\ PhaseInv /\ PromptInv

LEMMA PromptInvariant ==
  ASSUME ~LateDelivery
  PROVE  Spec => []PromptIInv
<1>1. Init => PromptIInv
  BY TypeInit, CoreInit, PhaseInit DEF PromptIInv, Init, PromptInv, Busy, Idle
<1>2. PromptIInv /\ [Next]_vars => PromptIInv'
  BY TypeNext, CoreNext, PhaseNext, PromptNext DEF PromptIInv
<1> QED BY <1>1, <1>2, PTL DEF Spec

(* Without merging, a member that is owed a toggle is about to make it.    *)
LEMMA OwedBusy ==
  ASSUME PromptIInv, NEW t \in Members
  PROVE  (samplingState[t] # Target(t)) <=> Busy(t)
<1>1. t \in Threads
  BY DEF Members
<1>2. (samplingState[t] # Target(t)) <=> Owed(t)
  BY DEF PromptIInv, PhaseInv, PhaseAccounting
<1>3. merged[t] = FALSE /\ pending[t] \in BOOLEAN
        /\ ~(pending[t] /\ inClient[t] # Idle)
  BY <1>1 DEF PromptIInv, PromptInv, TypeOK
<1> QED BY <1>2, <1>3 DEF Owed, Busy

(* What a member's handler is about to set is what the monitor means.      *)
LEMMA ToldTruth ==
  ASSUME PromptIInv, NEW t \in Members, inClient[t] # Idle
  PROVE  inClient[t] = Target(t)
<1>1. t \in Threads
  BY DEF Members
<1>2. samplingState[t] # Target(t)
  BY OwedBusy DEF Busy
<1>3. inClient[t] # samplingState[t] /\ inClient[t] \in SamplingState
        /\ samplingState[t] \in SamplingState
  BY <1>1 DEF PromptIInv, CoreInv, SignalInv, TypeOK
<1>4. Target(t) \in SamplingState
  BY DEF Target, SamplingState
<1> QED BY <1>2, <1>3, <1>4 DEF SamplingState, SAMPLE_ON, SAMPLE_OFF

(* When sleeps outlast the pokes, a member that is not being poked is in   *)
(* the state the monitor means.                                            *)
THEOREM InPhaseHolds ==
  ASSUME ~LateDelivery
  PROVE  Spec => []InPhase
<1>1. PromptIInv => InPhase
  BY OwedBusy DEF InPhase, Busy
<1> QED BY <1>1, PromptInvariant, PTL

(* When sleeps outlast the pokes, the client's handler is told the truth.  *)
THEOREM ClientToldTruthHolds ==
  ASSUME ~LateDelivery
  PROVE  Spec => []ClientToldTruth
<1>1. PromptIInv => ClientToldTruth
  BY ToldTruth DEF ClientToldTruth
<1> QED BY <1>1, PromptInvariant, PTL

-----------------------------------------------------------------------------
(* Refinement of SamplingRounds. *)

View == [t \in Threads |-> samplingState[t] = SAMPLE_ON]

LEMMA RoundsInit == Init => R!Init
<1> SUFFICES ASSUME Init PROVE R!Init
  OBVIOUS
<1>1. Members = {}
  BY ConstantsAssumption DEF Init, Members, Registered
<1>2. Told = {}
  BY <1>1 DEF Told
<1> QED BY <1>1, <1>2 DEF R!Init, Init

(* A step that changes neither the phase nor anybody's membership, place   *)
(* in the round or view is a stutter of SamplingRounds.                    *)
LEMMA RoundsStutter ==
  ASSUME UNCHANGED <<active, samplingState>>, Members' = Members,
         Told' = Told
  PROVE  UNCHANGED R!vars
BY DEF R!vars

(* A step that only changes the view of a thread outside the rounds.       *)
LEMMA RoundsDrift ==
  ASSUME TypeOK, NEW t \in Threads, t \notin Members,
         samplingState' \in [Threads -> SamplingState],
         \A u \in Threads \ {t} : samplingState'[u] = samplingState[u],
         active' = active, Members' = Members, Told' = Told
  PROVE  R!Drift(t)
<1> DEFINE b == samplingState'[t] = SAMPLE_ON
<1>1. View' = [View EXCEPT ![t] = b]
  BY DEF View
<1>2. b \in BOOLEAN
  OBVIOUS
<1> HIDE DEF b
<1>3. View' \in {[View EXCEPT ![t] = c] : c \in BOOLEAN}
  BY <1>1, <1>2
<1> QED BY <1>3 DEF R!Drift, View

LEMMA RoundsThread ==
  ASSUME PromptIInv, PromptIInv', NEW t \in Threads, ThreadActions(t)
  PROVE  R!Next \/ UNCHANGED R!vars
<1> USE ConstantsAssumption DEF TypeOK, PromptIInv, threadVars, signalVars,
        setupVars, monitorVars, Transition, ThreadPCs
<1>1. CASE InstallDtr(t) \/ InstallHandler(t) \/ RegisterLock(t)
             \/ DeinitUnlock(t) \/ Die(t) \/ PokeEnter(t)
  <2>1. UNCHANGED <<active, samplingState, threadList, mi>>
    BY <1>1 DEF InstallDtr, InstallHandler, RegisterLock, DeinitUnlock, Die,
                PokeEnter
  <2>2. Members' = Members
    BY <1>1, <2>1 DEF InstallDtr, InstallHandler, RegisterLock, DeinitUnlock,
                Die, PokeEnter, Members, Registered
  <2>3. Told' = Told
    BY <2>1, <2>2 DEF Told
  <2> QED BY <2>1, <2>2, <2>3, RoundsStutter
<1>2. CASE RegisterUnlock(t) \/ Finish(t) \/ DeinitLock(t)
  <2>1. UNCHANGED <<active, samplingState, threadList, mi>>
    BY <1>2 DEF RegisterUnlock, Finish, DeinitLock
  <2>2. pc[t] = "run" => t \in dtr
    BY DEF CoreInv, ListInv
  <2>3. Members' = Members
    BY <1>2, <2>1, <2>2 DEF RegisterUnlock, Finish, DeinitLock, Members,
                Registered
  <2>4. Told' = Told
    BY <2>1, <2>3 DEF Told
  <2> QED BY <2>1, <2>3, <2>4, RoundsStutter
<1>3. CASE Register(t)
  <2>1. UNCHANGED <<active, samplingState, mi>>
    BY <1>3 DEF Register
  <2>2. \A u \in Threads \ {t}, s \in Slots :
          threadList'[s] = u <=> threadList[s] = u
    BY <1>3 DEF Register, FirstFree, FreeSlots
  <2>3. Members' = Members
    BY <1>3, <2>2 DEF Register, Members, Registered
  <2>4. Told' = Told
    <3>1. t \notin Members
      BY <1>3 DEF Register, Members
    <3> QED BY <2>1, <2>2, <2>3, <3>1 DEF Told, Members
  <2> QED BY <2>1, <2>3, <2>4, RoundsStutter
<1>4. CASE Create(t)
  <2>1. UNCHANGED <<active, threadList, mi>>
    BY <1>4 DEF Create
  <2>2. t \notin Members /\ Members' = Members
    BY <1>4 DEF Create, Members, Registered
  <2>3. Told' = Told
    BY <2>1, <2>2 DEF Told
  <2>4. \A u \in Threads \ {t} : samplingState'[u] = samplingState[u]
    BY <1>4 DEF Create
  <2>5. R!Drift(t)
    BY <2>1, <2>2, <2>3, <2>4, RoundsDrift
  <2> QED BY <2>5 DEF R!Next
<1>5. CASE SyncState(t)
  <2>1. UNCHANGED <<active, threadList, mi>> /\ mi = 0
    BY <1>5 DEF SyncState, CoreInv, LockInv, Critical
  <2>2. Told = {} /\ Told' = {}
    BY <2>1 DEF Told, Slots
  <2>3. t \notin Members
    BY <1>5 DEF SyncState, Members
  <2>4. CASE Registered(t)
    <3>1. Members' = Members \cup {t}
      BY <1>5, <2>4 DEF SyncState, Members, Registered
    <3>2. View' = [View EXCEPT ![t] = active]
      BY <1>5 DEF SyncState, View, SAMPLE_ON, SAMPLE_OFF
    <3>3. R!Join(t)
      BY <2>1, <2>2, <2>3, <3>1, <3>2 DEF R!Join, View
    <3> QED BY <3>3 DEF R!Next
  <2>5. CASE ~Registered(t)
    <3>1. Members' = Members
      BY <1>5, <2>5 DEF SyncState, Members, Registered
    <3>2. \A u \in Threads \ {t} : samplingState'[u] = samplingState[u]
      BY <1>5 DEF SyncState
    <3>3. R!Drift(t)
      BY <2>1, <2>2, <2>3, <3>1, <3>2, RoundsDrift
    <3> QED BY <3>3 DEF R!Next
  <2> QED BY <2>4, <2>5
<1>6. CASE DeinitClear(t)
  <2>1. UNCHANGED <<active, samplingState, mi>> /\ mi = 0
    BY <1>6 DEF DeinitClear, CoreInv, LockInv, Critical
  <2>2. Told = {} /\ Told' = {}
    BY <2>1 DEF Told, Slots
  <2>3. Members' = Members \ {t}
    <3>1. \A u \in Threads \ {t}, s \in Slots :
            threadList'[s] = u <=> threadList[s] = u
      BY <1>6 DEF DeinitClear
    <3> QED BY <1>6, <3>1 DEF DeinitClear, Members, Registered
  <2>4. CASE t \in Members
    <3>1. R!Leave(t)
      BY <2>1, <2>2, <2>3, <2>4 DEF R!Leave
    <3> QED BY <3>1 DEF R!Next
  <2>5. CASE t \notin Members
    <3>1. Members' = Members
      BY <2>3, <2>5
    <3> QED BY <2>1, <2>2, <3>1, RoundsStutter
  <2> QED BY <2>4, <2>5
<1>7. CASE PokeReturn(t)
  <2>1. UNCHANGED <<active, threadList, pc, mi>>
    BY <1>7 DEF PokeReturn
  <2>2. Members' = Members /\ Told' = Told
    BY <2>1 DEF Members, Told, Registered
  <2>3. CASE t \in Members
    <3>1. inClient[t] = Target(t) /\ samplingState[t] # Target(t)
      BY <1>7, <2>3, ToldTruth, OwedBusy DEF PokeReturn, Busy
    <3>2. samplingState' = [samplingState EXCEPT ![t] = Target(t)]
      BY <1>7, <3>1 DEF PokeReturn
    <3>3. R!Target(t) = (Target(t) = SAMPLE_ON)
      BY <2>1 DEF R!Target, Target, SAMPLE_ON, SAMPLE_OFF
    <3>4. View' = [View EXCEPT ![t] = R!Target(t)]
      BY <3>2, <3>3 DEF View
    <3>5. View[t] # R!Target(t)
      <4>1. samplingState[t] \in SamplingState /\ Target(t) \in SamplingState
        BY DEF Target, SamplingState
      <4> QED BY <3>1, <3>3, <4>1
              DEF View, SamplingState, SAMPLE_ON, SAMPLE_OFF
    <3>6. R!Learn(t)
      BY <2>1, <2>2, <2>3, <3>4, <3>5 DEF R!Learn, View
    <3> QED BY <3>6 DEF R!Next
  <2>4. CASE t \notin Members
    <3>1. \A u \in Threads \ {t} : samplingState'[u] = samplingState[u]
      BY <1>7 DEF PokeReturn
    <3>2. R!Drift(t)
      BY <2>1, <2>2, <2>4, <3>1, RoundsDrift
    <3> QED BY <3>2 DEF R!Next
  <2> QED BY <2>3, <2>4
<1> QED
  BY <1>1, <1>2, <1>3, <1>4, <1>5, <1>6, <1>7 DEF ThreadActions

LEMMA RoundsPoke ==
  ASSUME PromptIInv, MonitorPoke
  PROVE  R!Next \/ UNCHANGED R!vars
<1> USE ConstantsAssumption DEF TypeOK, PromptIInv, threadVars, signalVars,
        setupVars, monitorVars
<1>1. Members' = Members /\ UNCHANGED <<active, samplingState>>
  BY DEF MonitorPoke, Members, Registered
<1>2. mi \in Slots /\ \A s \in Slots : s < mi' <=> s < mi \/ s = mi
  BY DEF MonitorPoke, Slots
<1>3. CASE threadList[mi] = NoThread
  <2>1. Told' = Told
    BY <1>1, <1>2, <1>3 DEF Told, Members, MonitorPoke
  <2> QED BY <1>1, <2>1, RoundsStutter
<1>4. CASE threadList[mi] # NoThread
  <2> DEFINE u == threadList[mi]
  <2>1. u \in Threads /\ pc[u] \in Listed \ {"sync"}
    BY <1>2, <1>4 DEF CoreInv, ListInv, LockInv, Critical, MonitorPoke
  <2>2. u \in Members
    BY <1>2, <2>1 DEF Members, Registered, Listed
  <2>3. \A s \in Slots : threadList[s] = u => s = mi
    BY <1>2, <1>4 DEF CoreInv, ListInv
  <2>4. u \notin Told
    BY <1>2, <2>3 DEF Told, Slots
  <2>5. Told' = Told \cup {u}
    BY <1>1, <1>2, <2>2 DEF Told, MonitorPoke
  <2>6. ~Busy(u)
    BY <1>2, <2>1, <2>3 DEF PromptInv, MonitorPoke, Slots
  <2>7. samplingState[u] = Target(u)
    BY <2>2, <2>6, OwedBusy
  <2>8. View[u] = active
    BY <2>1, <2>4, <2>7 DEF View, Target, SAMPLE_ON, SAMPLE_OFF
  <2>9. R!Tell(u)
    BY <1>1, <2>2, <2>4, <2>5, <2>8 DEF R!Tell, View
  <2> QED BY <2>1, <2>9 DEF R!Next
<1> QED BY <1>3, <1>4

LEMMA RoundsFlip ==
  ASSUME PromptIInv, MonitorFlip
  PROVE  R!Next
<1> USE ConstantsAssumption DEF TypeOK, PromptIInv, threadVars, signalVars,
        setupVars, monitorVars
<1>1. Members' = Members
  BY DEF MonitorFlip, Members, Registered
<1>2. Told = Members
  BY DEF MonitorFlip, Told, Members, Registered, Slots
<1>3. Told' = {}
  BY DEF MonitorFlip, Told, Slots
<1>4. R!Flip
  BY <1>1, <1>2, <1>3 DEF R!Flip, MonitorFlip
<1> QED BY <1>4 DEF R!Next

LEMMA RoundsNext ==
  ASSUME PromptIInv, PromptIInv', [Next]_vars
  PROVE  R!Next \/ UNCHANGED R!vars
<1>1. ASSUME NEW t \in Threads, ThreadActions(t)
      PROVE  R!Next \/ UNCHANGED R!vars
  BY <1>1, RoundsThread
<1>2. CASE MonitorPoke
  BY <1>2, RoundsPoke
<1>3. CASE MonitorFlip
  BY <1>3, RoundsFlip
<1>4. CASE MonitorStart \/ MonitorWake \/ MonitorLock \/ MonitorUnlock
             \/ UNCHANGED vars
  <2>1. UNCHANGED <<threadList, samplingState, pc, mi>>
    BY <1>4 DEF MonitorStart, MonitorWake, MonitorLock, MonitorUnlock, vars,
                threadVars, monitorVars
  <2>2. active' = active
    <3>1. CASE MonitorStart
      BY <3>1 DEF MonitorStart, PromptIInv, PhaseInv, TypeOK
    <3>2. CASE MonitorWake \/ MonitorLock \/ MonitorUnlock \/ UNCHANGED vars
      BY <3>2 DEF MonitorWake, MonitorLock, MonitorUnlock, vars, monitorVars
    <3> QED BY <1>4, <3>1, <3>2
  <2>3. Members' = Members /\ Told' = Told
    BY <2>1 DEF Members, Told, Registered
  <2> QED BY <2>1, <2>2, <2>3, RoundsStutter
<1> QED BY <1>1, <1>2, <1>3, <1>4, NextSplit DEF MonitorStep

(* When sleeps outlast the pokes, the signals, slots and locks of the      *)
(* monitor implement the rounds of SamplingRounds.                         *)
THEOREM RoundsRefined ==
  ASSUME ~LateDelivery
  PROVE  Spec => Rounds
<1>1. PromptIInv /\ PromptIInv' /\ [Next]_vars => [R!Next]_(R!vars)
  BY RoundsNext
<1>2. Spec => []PromptIInv
  BY PromptInvariant
<1> QED BY <1>1, <1>2, RoundsInit, PTL DEF Spec, Rounds, R!Spec

-----------------------------------------------------------------------------
(* A program of no more threads than slots. *)

(* The list is not full while a thread waits to enter it: its slots hold   *)
(* different threads, all of them other than the one that waits.           *)
LEMMA RoomForOneMore ==
  ASSUME IsFiniteSet(Threads), Cardinality(Threads) <= MAX_NUM_THREADS,
         TypeOK, CoreInv, NEW t \in Threads, pc[t] = "insert"
  PROVE  FreeSlots # {}
<1> SUFFICES ASSUME FreeSlots = {} PROVE FALSE
  OBVIOUS
<1> USE ConstantsAssumption
<1> DEFINE Others == Threads \ {t}
<1>1. \A s \in Slots : threadList[s] \in Others
  BY DEF FreeSlots, TypeOK, CoreInv, ListInv, Listed
<1>2. \A r, s \in Slots : threadList[r] = threadList[s] => r = s
  BY <1>1 DEF CoreInv, ListInv
<1>3. threadList \in [Slots -> Others]
  BY <1>1 DEF TypeOK
<1>4. IsFiniteSet(Others) /\ Cardinality(Others) = Cardinality(Threads) - 1
  BY FS_RemoveElement
<1>5. IsFiniteSet(Slots) /\ Cardinality(Slots) = MAX_NUM_THREADS
  BY FS_Interval DEF Slots
<1>6. Cardinality(Threads) \in Nat
  BY FS_CardinalityType
<1>7. Cardinality(Others) < Cardinality(Slots)
  BY <1>4, <1>5, <1>6
<1>8. \E r, s \in Slots : r # s /\ threadList[r] = threadList[s]
  <2> HIDE DEF Others
  <2> QED BY <1>3, <1>4, <1>5, <1>7, FS_PigeonHole
<1> QED BY <1>2, <1>8

ListedInv == \A t \in Threads : pc[t] \in Listed => Registered(t)

LEMMA ListedNext ==
  ASSUME IsFiniteSet(Threads), Cardinality(Threads) <= MAX_NUM_THREADS,
         TypeOK, CoreInv, ListedInv, [Next]_vars
  PROVE  ListedInv'
<1> USE ConstantsAssumption DEF TypeOK, ListedInv, Listed, ThreadPCs,
        threadVars, signalVars, setupVars, monitorVars, Transition, Registered
<1>1. ASSUME NEW t \in Threads, ThreadActions(t) PROVE ListedInv'
  <2>1. CASE Register(t)
    <3>1. PICK s \in Slots : FirstFree(s) /\ threadList' = [threadList EXCEPT ![s] = t]
      BY <2>1, RoomForOneMore DEF Register
    <3>2. threadList'[s] = t /\ threadList[s] = NoThread
      BY <3>1 DEF FirstFree, FreeSlots
    <3>3. \A u \in Threads : Registered(u) => Registered(u)'
      BY <3>1, <3>2
    <3> QED BY <2>1, <3>2, <3>3 DEF Register
  <2>2. CASE DeinitClear(t)
    BY <2>2 DEF DeinitClear
  <2>3. CASE ~Register(t) /\ ~DeinitClear(t)
    BY <1>1, <2>3 DEF ThreadActions, Create, InstallDtr, InstallHandler,
       RegisterLock, SyncState, RegisterUnlock, Finish, DeinitLock,
       DeinitUnlock, Die, PokeEnter, PokeReturn
  <2> QED BY <2>1, <2>2, <2>3
<1>2. CASE MonitorStep
  BY <1>2 DEF MonitorStep, MonitorStart, MonitorWake, MonitorLock, MonitorPoke,
              MonitorFlip, MonitorUnlock
<1>3. CASE UNCHANGED vars
  BY <1>3 DEF vars
<1> QED BY <1>1, <1>2, <1>3, NextSplit

(* With no more live threads than slots, every thread that has run its     *)
(* constructor and not its destructor is listed.                           *)
THEOREM AllRegisteredHolds ==
  ASSUME IsFiniteSet(Threads), Cardinality(Threads) <= MAX_NUM_THREADS
  PROVE  Spec => []AllRegistered
<1>1. Init => ListedInv
  BY DEF Init, ListedInv, Listed
<1>2. TypeOK /\ CoreInv /\ ListedInv /\ [Next]_vars => ListedInv'
  BY ListedNext
<1>3. ListedInv => AllRegistered
  BY DEF ListedInv, AllRegistered, Listed
<1> QED BY <1>1, <1>2, <1>3, CoreInvariant, PTL DEF Spec
=============================================================================
