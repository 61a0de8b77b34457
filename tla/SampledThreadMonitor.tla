------------------------ MODULE SampledThreadMonitor ------------------------
(***************************************************************************)
(* The sampling subsystem (sampled_thread_monitor.c) as a sampled TAP      *)
(* (clientlibs/NullSampledWatcher) uses it.  A monitor thread sleeps,      *)
(* sends SIGUSR1 ("pokes") to every thread of threadList under             *)
(* threadListLock, and flips the global sampling state; a poked thread's   *)
(* handler toggles that thread's own sampling state.  Threads enter the    *)
(* list from the TAP's thread constructor and leave it from its thread     *)
(* destructor.                                                             *)
(*                                                                         *)
(* A thread's identifier is its pthread_t: it is free for a new thread     *)
(* once the thread has terminated.  SIGUSR1 is a standard signal: at most  *)
(* one instance is pending for a thread, and it is blocked while its       *)
(* handler runs.                                                           *)
(***************************************************************************)
EXTENDS Naturals, FiniteSets

CONSTANTS
  Threads,          (* the pthread_t values of the program's threads       *)
  NoThread,         (* (pthread_t)0, an empty slot of threadList           *)
  Monitor,          (* the monitor thread, as an owner of the lock         *)
  Nobody,           (* no owner: threadListLock is free                    *)
  MAX_NUM_THREADS,  (* slots of threadList                                 *)
  Rates,            (* the values LDM_RATE may have                        *)
  LateDelivery      (* FALSE: every sleep of the monitor outlasts the      *)
                    (* delivery and handling of the pokes before it        *)

ASSUME ConstantsAssumption ==
  /\ NoThread \notin Threads
  /\ Monitor \notin Threads
  /\ Nobody \notin Threads \cup {Monitor}
  /\ MAX_NUM_THREADS \in Nat \ {0}
  /\ Rates \subseteq Nat
  /\ LateDelivery \in BOOLEAN

Slots == 0 .. (MAX_NUM_THREADS - 1)

SAMPLE_ON  == "SAMPLE_ON"
SAMPLE_OFF == "SAMPLE_OFF"
SamplingState == {SAMPLE_ON, SAMPLE_OFF}
Idle == "idle"

ThreadPCs == {"none", "ctor", "sigaction", "reglock", "insert", "sync",
              "regunlock", "run", "exitlock", "clear", "exitunlock",
              "exiting"}
MonitorPCs == {"start", "sleep", "lock", "poke", "unlock", "stopped"}

VARIABLES
  threadList,       (* [Slots -> Threads or NoThread]                      *)
  threadId,         (* __thread threadId: the slot a thread was given      *)
  samplingState,    (* __thread samplingState                              *)
  active,           (* the global sampling state                           *)
  lock,             (* the owner of threadListLock, or Nobody              *)
  handlerSet,       (* handlePoke is the process's SIGUSR1 action          *)
  dtr,              (* the threads with a value under the destructor key   *)
  pending,          (* pending[t]: a SIGUSR1 is pending for t              *)
  inClient,         (* inClient[t]: what handlePoke is telling the client, *)
                    (* or Idle when t is not in its handler                *)
  merged,           (* history: the parity of the pokes of t that were     *)
                    (* absorbed by one already pending                     *)
  pc,               (* where each program thread is                        *)
  mpc,              (* where the monitor is                                *)
  mi                (* the monitor's loop index, 0 outside the loop        *)

threadVars == <<threadList, threadId, samplingState>>
signalVars == <<pending, inClient, merged>>
setupVars  == <<handlerSet, dtr>>
monitorVars == <<active, mpc, mi>>
vars == <<threadVars, signalVars, setupVars, monitorVars, lock, pc>>

Registered(t) == \E s \in Slots : threadList[s] = t

(* The state sampled_thread_monitor_init leaves: it runs in a library      *)
(* constructor, before the program has a thread of its own.  TLS is zero,  *)
(* and SAMPLE_ON is the zero of SamplingState.                             *)
Init ==
  /\ threadList = [s \in Slots |-> NoThread]
  /\ threadId = [t \in Threads |-> 0]
  /\ samplingState = [t \in Threads |-> SAMPLE_ON]
  /\ active = FALSE
  /\ lock = Nobody
  /\ handlerSet = FALSE
  /\ dtr = {}
  /\ pending = [t \in Threads |-> FALSE]
  /\ inClient = [t \in Threads |-> Idle]
  /\ merged = [t \in Threads |-> FALSE]
  /\ pc = [t \in Threads |-> "none"]
  /\ mpc = "start"
  /\ mi = 0

-----------------------------------------------------------------------------
(* Program threads. *)

(* Thread t's own code takes it from one place to the next; while its      *)
(* signal handler runs, its own code does not.                             *)
Transition(t, from, to) ==
  /\ pc[t] = from
  /\ inClient[t] = Idle
  /\ pc' = [pc EXCEPT ![t] = to]

(* pthread_create, down to the TAP's entry of the constructor loop; the    *)
(* thread's TLS is new.                                                    *)
Create(t) ==
  /\ Transition(t, "none", "ctor")
  /\ samplingState' = [samplingState EXCEPT ![t] = SAMPLE_ON]
  /\ threadId' = [threadId EXCEPT ![t] = 0]
  /\ UNCHANGED <<threadList, signalVars, setupVars, monitorVars, lock>>

(* LDM_INSTALL_THD_DTR *)
InstallDtr(t) ==
  /\ Transition(t, "ctor", "sigaction")
  /\ dtr' = dtr \cup {t}
  /\ UNCHANGED <<threadVars, signalVars, handlerSet, monitorVars, lock>>

(* Mutant: the constructor lists the thread without calling sigaction.     *)
InstallNoHandler(t) ==
  /\ Transition(t, "sigaction", "reglock")
  /\ UNCHANGED <<threadVars, signalVars, setupVars, monitorVars, lock>>

InstallHandler(t) ==
  /\ Transition(t, "sigaction", "reglock")
  /\ handlerSet' = TRUE
  /\ UNCHANGED <<threadVars, signalVars, dtr, monitorVars, lock>>

(* Mutant: registration does not take threadListLock.                      *)
RegisterUnlocked(t) ==
  /\ Transition(t, "reglock", "insert")
  /\ UNCHANGED <<threadVars, signalVars, setupVars, monitorVars, lock>>

RegisterLock(t) ==
  /\ Transition(t, "reglock", "insert")
  /\ lock = Nobody
  /\ lock' = t
  /\ UNCHANGED <<threadVars, signalVars, setupVars, monitorVars>>

(* Mutant: the scan for a free slot stops one short of the end.            *)
FreeSlotsOneShort ==
  {s \in Slots : threadList[s] = NoThread /\ s + 1 < MAX_NUM_THREADS}

FreeSlots == {s \in Slots : threadList[s] = NoThread}
FirstFree(s) == s \in FreeSlots /\ \A r \in FreeSlots : s <= r

(* Mutant: the scan does not stop at the slot it fills.                    *)
RegisterNoBreak(t) ==
  /\ Transition(t, "insert", "sync")
  /\ threadList' = [s \in Slots |->
                      IF s \in FreeSlots THEN t ELSE threadList[s]]
  /\ threadId' = [threadId EXCEPT
                    ![t] = CHOOSE s \in Slots :
                             FreeSlots = {} \/ \A r \in FreeSlots : r <= s]
  /\ UNCHANGED <<samplingState, signalVars, setupVars, monitorVars, lock>>

(* Mutant: a full list leaves the thread with the loop's last index.       *)
RegisterPastEnd(t) ==
  /\ Transition(t, "insert", "sync")
  /\ \/ \E s \in Slots :
          /\ FirstFree(s)
          /\ threadList' = [threadList EXCEPT ![s] = t]
          /\ threadId' = [threadId EXCEPT ![t] = s]
     \/ /\ FreeSlots = {}
        /\ threadId' = [threadId EXCEPT ![t] = MAX_NUM_THREADS]
        /\ UNCHANGED threadList
  /\ UNCHANGED <<samplingState, signalVars, setupVars, monitorVars, lock>>

(* The first empty slot is the thread's; with none, it stays unlisted.     *)
Register(t) ==
  /\ Transition(t, "insert", "sync")
  /\ \/ \E s \in Slots :
          /\ FirstFree(s)
          /\ threadList' = [threadList EXCEPT ![s] = t]
          /\ threadId' = [threadId EXCEPT ![t] = s]
     \/ /\ FreeSlots = {}
        /\ UNCHANGED <<threadList, threadId>>
  /\ UNCHANGED <<samplingState, signalVars, setupVars, monitorVars, lock>>

(* Mutant: a new thread starts unsampled whatever the global state.        *)
SyncOff(t) ==
  /\ Transition(t, "sync", "regunlock")
  /\ samplingState' = [samplingState EXCEPT ![t] = SAMPLE_OFF]
  /\ UNCHANGED <<threadList, threadId, signalVars, setupVars, monitorVars,
                 lock>>

SyncState(t) ==
  /\ Transition(t, "sync", "regunlock")
  /\ samplingState' = [samplingState EXCEPT
                         ![t] = IF active THEN SAMPLE_ON ELSE SAMPLE_OFF]
  /\ UNCHANGED <<threadList, threadId, signalVars, setupVars, monitorVars,
                 lock>>

(* Mutant: the constructor returns without releasing threadListLock.       *)
RegisterKeepLock(t) ==
  /\ Transition(t, "regunlock", "run")
  /\ UNCHANGED <<threadVars, signalVars, setupVars, monitorVars, lock>>

RegisterUnlock(t) ==
  /\ Transition(t, "regunlock", "run")
  /\ lock' = Nobody
  /\ UNCHANGED <<threadVars, signalVars, setupVars, monitorVars>>

(* start_routine returns; the thread library calls the destructor of every *)
(* key the thread has a value for.                                         *)
Finish(t) ==
  /\ Transition(t, "run", IF t \in dtr THEN "exitlock" ELSE "exiting")
  /\ dtr' = dtr \ {t}
  /\ UNCHANGED <<threadVars, signalVars, handlerSet, monitorVars, lock>>

DeinitLock(t) ==
  /\ Transition(t, "exitlock", "clear")
  /\ lock = Nobody
  /\ lock' = t
  /\ UNCHANGED <<threadVars, signalVars, setupVars, monitorVars>>

(* Mutant: the scan for the thread's slots stops one short of the end.     *)
DeinitClearOneShort(t) ==
  /\ Transition(t, "clear", "exitunlock")
  /\ threadList' = [s \in Slots |->
                      IF threadList[s] = t /\ s + 1 < MAX_NUM_THREADS
                      THEN NoThread ELSE threadList[s]]
  /\ UNCHANGED <<threadId, samplingState, signalVars, setupVars, monitorVars,
                 lock>>

DeinitClear(t) ==
  /\ Transition(t, "clear", "exitunlock")
  /\ threadList' = [s \in Slots |->
                      IF threadList[s] = t THEN NoThread ELSE threadList[s]]
  /\ UNCHANGED <<threadId, samplingState, signalVars, setupVars, monitorVars,
                 lock>>

(* Mutant: the destructor returns without releasing threadListLock.        *)
DeinitKeepLock(t) ==
  /\ Transition(t, "exitunlock", "exiting")
  /\ UNCHANGED <<threadVars, signalVars, setupVars, monitorVars, lock>>

DeinitUnlock(t) ==
  /\ Transition(t, "exitunlock", "exiting")
  /\ lock' = Nobody
  /\ UNCHANGED <<threadVars, signalVars, setupVars, monitorVars>>

(* The thread terminates; a signal still pending for it goes with it. *)
Die(t) ==
  /\ Transition(t, "exiting", "none")
  /\ pending' = [pending EXCEPT ![t] = FALSE]
  /\ merged' = [merged EXCEPT ![t] = FALSE]
  /\ UNCHANGED <<threadVars, inClient, setupVars, monitorVars, lock>>

-----------------------------------------------------------------------------
(* handlePoke, in the poked thread: the branch and the client's handler,   *)
(* then the toggle.                                                        *)

(* Mutant: the client is told the state the thread is leaving.             *)
PokeTellOld(t) ==
  /\ pending[t]
  /\ inClient[t] = Idle
  /\ pending' = [pending EXCEPT ![t] = FALSE]
  /\ inClient' = [inClient EXCEPT ![t] = samplingState[t]]
  /\ UNCHANGED <<threadVars, merged, setupVars, monitorVars, lock, pc>>

PokeEnter(t) ==
  /\ pending[t]
  /\ inClient[t] = Idle
  /\ pending' = [pending EXCEPT ![t] = FALSE]
  /\ inClient' = [inClient EXCEPT
                    ![t] = IF samplingState[t] = SAMPLE_OFF
                           THEN SAMPLE_ON ELSE SAMPLE_OFF]
  /\ UNCHANGED <<threadVars, merged, setupVars, monitorVars, lock, pc>>

PokeReturn(t) ==
  /\ inClient[t] # Idle
  /\ samplingState' = [samplingState EXCEPT ![t] = inClient[t]]
  /\ inClient' = [inClient EXCEPT ![t] = Idle]
  /\ UNCHANGED <<threadList, threadId, pending, merged, setupVars,
                 monitorVars, lock, pc>>

-----------------------------------------------------------------------------
(* The monitor thread. *)

(* A rate of zero ends the monitor before its first round. *)
MonitorStart ==
  /\ mpc = "start"
  /\ \E r \in Rates :
       \/ /\ r = 0
          /\ mpc' = "stopped"
          /\ UNCHANGED active
       \/ /\ r > 0
          /\ mpc' = "sleep"
          /\ active' = FALSE
  /\ UNCHANGED <<threadVars, signalVars, setupVars, mi, lock, pc>>

Quiet == \A t \in Threads : ~pending[t] /\ inClient[t] = Idle

MonitorWake ==
  /\ mpc = "sleep"
  /\ LateDelivery \/ Quiet
  /\ mpc' = "lock"
  /\ UNCHANGED <<threadVars, signalVars, setupVars, active, mi, lock, pc>>

MonitorLock ==
  /\ mpc = "lock"
  /\ lock = Nobody
  /\ lock' = Monitor
  /\ mpc' = "poke"
  /\ UNCHANGED <<threadVars, signalVars, setupVars, active, mi, pc>>

(* pthread_kill: a signal that is already pending stays a single one. *)
Kill(t) ==
  /\ pending' = [pending EXCEPT ![t] = TRUE]
  /\ merged' = [merged EXCEPT ![t] = (@ # pending[t])]

(* Mutant: the round ends at the first empty slot.                         *)
MonitorPokeUntilEmpty ==
  /\ mpc = "poke"
  /\ mi < MAX_NUM_THREADS
  /\ \/ /\ threadList[mi] = NoThread
        /\ mi' = MAX_NUM_THREADS
        /\ UNCHANGED <<pending, merged>>
     \/ /\ threadList[mi] # NoThread
        /\ mi' = mi + 1
        /\ Kill(threadList[mi])
  /\ UNCHANGED <<threadVars, inClient, setupVars, active, mpc, lock, pc>>

MonitorPoke ==
  /\ mpc = "poke"
  /\ mi < MAX_NUM_THREADS
  /\ mi' = mi + 1
  /\ \/ threadList[mi] = NoThread /\ UNCHANGED <<pending, merged>>
     \/ threadList[mi] # NoThread /\ Kill(threadList[mi])
  /\ UNCHANGED <<threadVars, inClient, setupVars, active, mpc, lock, pc>>

(* Mutant: the global state changes before the last slot is poked.         *)
MonitorFlipEarly ==
  /\ mpc = "poke"
  /\ mi + 1 = MAX_NUM_THREADS
  /\ active' = ~active
  /\ mpc' = "unlock"
  /\ mi' = 0
  /\ UNCHANGED <<threadVars, signalVars, setupVars, lock, pc>>

MonitorFlip ==
  /\ mpc = "poke"
  /\ mi = MAX_NUM_THREADS
  /\ active' = ~active
  /\ mpc' = "unlock"
  /\ mi' = 0
  /\ UNCHANGED <<threadVars, signalVars, setupVars, lock, pc>>

MonitorUnlock ==
  /\ mpc = "unlock"
  /\ lock' = Nobody
  /\ mpc' = "sleep"
  /\ UNCHANGED <<threadVars, signalVars, setupVars, active, mi, pc>>

-----------------------------------------------------------------------------
(* What thread t's own code does without being asked; Create and Finish    *)
(* are the program's choice.                                               *)
ThreadStep(t) ==
  \/ InstallDtr(t) \/ InstallHandler(t)
  \/ RegisterLock(t) \/ Register(t) \/ SyncState(t) \/ RegisterUnlock(t)
  \/ DeinitLock(t) \/ DeinitClear(t) \/ DeinitUnlock(t) \/ Die(t)

MonitorStep ==
  MonitorStart \/ MonitorWake \/ MonitorLock \/ MonitorPoke \/ MonitorFlip
    \/ MonitorUnlock

Next ==
  \/ \E t \in Threads :
       Create(t) \/ ThreadStep(t) \/ Finish(t) \/ PokeEnter(t) \/ PokeReturn(t)
  \/ MonitorStep

Spec == Init /\ [][Next]_vars

(* The kernel schedules every thread and delivers every signal.  A thread  *)
(* is not poked before each of its instructions, and a waiter is not       *)
(* overtaken at threadListLock forever: the holders are short and the      *)
(* monitor sleeps between rounds.                                          *)
Fairness ==
  /\ \A t \in Threads :
       /\ SF_vars(ThreadStep(t))
       /\ WF_vars(PokeEnter(t))
       /\ WF_vars(PokeReturn(t))
  /\ SF_vars(MonitorStep)

FairSpec == Spec /\ Fairness

-----------------------------------------------------------------------------
(* Properties. *)

(* Every variable has its type.                                            *)
TypeOK ==
  /\ threadList \in [Slots -> Threads \cup {NoThread}]
  /\ threadId \in [Threads -> Slots]
  /\ samplingState \in [Threads -> SamplingState]
  /\ active \in BOOLEAN
  /\ lock \in Threads \cup {Monitor, Nobody}
  /\ handlerSet \in BOOLEAN
  /\ dtr \in SUBSET Threads
  /\ pending \in [Threads -> BOOLEAN]
  /\ inClient \in [Threads -> SamplingState \cup {Idle}]
  /\ merged \in [Threads -> BOOLEAN]
  /\ pc \in [Threads -> ThreadPCs]
  /\ mpc \in MonitorPCs
  /\ mi \in 0 .. MAX_NUM_THREADS

(* The monitor never has a thread to poke that has no code left to run: a  *)
(* pthread_kill of a terminated thread is what README:158 calls a crash.   *)
LiveTargets ==
  \A s \in Slots :
    threadList[s] # NoThread => pc[threadList[s]] \notin {"none", "exiting"}

(* A thread is in at most one slot, the one its threadId names: in two, a  *)
(* round would poke it twice, which is no toggle at all.                   *)
RegisteredOnce ==
  \A s \in Slots :
    threadList[s] # NoThread => threadId[threadList[s]] = s

(* No poke is under way before handlePoke is the action of SIGUSR1: the    *)
(* default action ends the program.                                        *)
HandlerInstalled ==
  \A t \in Threads : pending[t] \/ inClient[t] # Idle => handlerSet

(* The threads the rounds concern: listed, and synced with active.         *)
Members ==
  {t \in Threads :
     Registered(t) /\ pc[t] \in {"regunlock", "run", "exitlock", "clear"}}

(* The members the round in progress has already poked. *)
Told == {t \in Members : \E s \in Slots : s < mi /\ threadList[s] = t}

(* The state the monitor means member t to be in. *)
Target(t) == IF active # (t \in Told) THEN SAMPLE_ON ELSE SAMPLE_OFF

(* An odd number of t's toggles is pending, running, or lost in a pending  *)
(* one.                                                                    *)
Owed(t) == (pending[t] # (inClient[t] # Idle)) # merged[t]

(* A toggle is only as good as its count.  A member differs from the state *)
(* the monitor means exactly when it is owed an odd number of toggles.     *)
PhaseAccounting ==
  \A t \in Members : (samplingState[t] # Target(t)) <=> Owed(t)

(* A member with no poke pending or running is in the state the monitor    *)
(* means.                                                                  *)
InPhase ==
  \A t \in Members :
    ~pending[t] /\ inClient[t] = Idle => samplingState[t] = Target(t)

(* What the client's handler is told is the state the monitor means        *)
(* (README:164: whether sampling is being turned on or off).               *)
ClientToldTruth ==
  \A t \in Members : inClient[t] # Idle => inClient[t] = Target(t)

(* Every thread that has run its constructor and not its destructor is in  *)
(* the list (sampled_thread_monitor.c:74: "Poke all live threads").        *)
AllRegistered == \A t \in Threads : pc[t] = "run" => Registered(t)

(* While sampling is not stopped, a thread that stays in the list changes  *)
(* state again and again.                                                  *)
KeepsToggling ==
  \A t \in Threads :
    []<>(t \notin Members) \/ []<>(mpc \in {"start", "stopped"})
      \/ ([]<>(samplingState[t] = SAMPLE_ON)
            /\ []<>(samplingState[t] = SAMPLE_OFF))

(* No thread waits forever in its constructor or in its destructor.        *)
Registers == \A t \in Threads : pc[t] = "reglock" ~> pc[t] = "run"
Deregisters == \A t \in Threads : pc[t] = "exitlock" ~> pc[t] = "exiting"

(* The rounds of SamplingRounds: the list is the membership, the loop      *)
(* index says who has been told.                                           *)
R == INSTANCE SamplingRounds WITH
       phase   <- active,
       members <- Members,
       told    <- Told,
       view    <- [t \in Threads |-> samplingState[t] = SAMPLE_ON]

(* With sleeps that outlast the pokes, the subsystem is a sequence of      *)
(* rounds: no thread is told of a change before it has made the last one.  *)
Rounds == R!Spec
=============================================================================
