# Legerdemain in TLA+

Legerdemain (LDM) is a framework of preloaded libraries that instrument and
debug a running C program. `ldm.sh` preloads `libldm.so`, the TAP manager
(`thread_constructor.so`) and the plugins ("TAPs") named in `LDM_TAPS`; from
then on the program's `pthread_create`, its fatal signals and whatever functions
the TAPs wrap go through LDM. The code is small, but nearly all of it runs at
awkward moments: in signal handlers, in library constructors, in thread
start-up and shut-down, and around the program's own locks and allocator.
These modules are about those moments.

Contents: [the system](#the-system) · [hazards](#what-is-hard-to-test) ·
[modules](#modules) · [runs](#runs) · [fairness](#fairness) ·
[proofs](#proofs) · [disagreements found](#disagreements-found) ·
[not modelled](#what-is-not-modelled) · [plan](#plan)

## The system

| Component | Code | State | Operations | Module |
|---|---|---|---|---|
| Sampled thread monitor | `sampled_thread_monitor.c`, used as in `clientlibs/NullSampledWatcher` | `threadList` (slots), `threadListLock`, `active`; per thread `threadId`, `samplingState` | init, thread_init, thread_deinit, the `monitor` thread, the `handlePoke` signal handler | `SampledThreadMonitor`, `SamplingRounds` |
| TAP manager | `thread_constructor.c`, `Applier.c`, the macros of `legerdemain.h` | `LDM_thd_ctr`, `LDM_numCtrs`; the pthread keys and the variables that hold them | the library constructor's walk over `LDM_TAPS`, the wrapped `pthread_create`, `threadStartFunc`, destructors at thread exit | `TapManager`; with the sampler, `SampledTaps` |
| Signal handling and debug shell | `legerdemain.c` | dispositions, `sigSEGVSaver`/`sigABRTSaver`, the loop of each open shell, `curDebugFramePtr`/`curDebugInstr` | `LDM_init`, `setupSignals`, `terminationHandler`, `LDM_debug` | `DebugShell` |
| DWARF client: queries and the unit cursor | `dwarfclient.c` 296-566, 767-1045 | libdwarf's handle, with its current compilation unit | linetoaddr, scopes by line or address, variables, location and type of a variable, dump | `DwarfSession` |
| Location decoder and stack | `dwarfclient.c` 12-294, `stack.c` | the operand stack of one call | `decode_location` | `LocationDecoder` |
| Scope lookup and type resolution | `dwarfclient.c` 570-951 | none between calls | recursive walks over dies; the walk up a chain of types; `LDM_inspect` (`legerdemain.c` 115-143) over them and the decoder | `ScopeLookup`, `Inspect` |
| Scaley TAP | `clientlibs/Scaley/Scaley.c` | counters, a histogram, the table of block sizes | wrapped `malloc`, `free`, `read`, its initializer | `Scaley` |
| Call-counting TAPs | `MallocWatcher.c`, `LockWatcher.c`, `scaley_LDM.c` | a few counters | wrappers that count and forward | no |
| Address to line translation | `addr2line.c` | per call | `get_info` (called by nothing in `libldm`) | no |
| Programs, build, launcher | `dwarfinfo` (main of `dwarfclient.c`), `scaleytest.c`, `testLibA2L.c`, `Makefile`, `ldm.sh` | | | no |

How they interact:

- The dynamic linker runs the library constructors: `LDM_init` replaces the
  signal handlers and may open a shell; the TAP manager's walks `LDM_TAPS`,
  `dlopen`s each library, puts its `LDM_PLUGIN_THD_INIT` into a table and calls
  its `LDM_PLUGIN_INIT`, which may register a destructor and, in a sampled TAP,
  start the monitor.
- Every thread the program creates starts in `threadStartFunc`, which calls the
  table's constructors and then the program's routine. A sampled TAP's
  constructor installs the thread's destructor, installs `handlePoke` for
  `SIGUSR1` and lists the thread with the monitor. The destructor, run by the
  thread library, unlists it.
- The monitor sleeps, takes the list's lock, sends `SIGUSR1` to every listed
  thread and flips `active`. A thread never reads `active` after it has been
  listed: its handler toggles the thread's own state and tells the client.
- A fatal signal opens a shell *in the thread that got it*. Each of the shell's
  queries drives the one libdwarf handle, and takes its address from one pair of
  globals. Shells allocate, so they contend with the program they interrupted.

### What makes each part correct

- **Sampler**: nobody is signalled who has left or has no handler; a thread is
  listed once; each thread's view of "sampling or not" follows the process's;
  constructors and destructors get the lock; a listed thread goes on toggling.
- **TAP manager**: every thread runs every constructor once and in order, and at
  its end the destructor of each; a list the table has room for does not overrun
  it; a TAP's constructor
  comes after its initializer, for all but the threads created while TAPs are
  being loaded.
- **Shell**: a fault inside a shell kills rather than recurses; leaving a shell
  for a fatal signal means death or the program's own handler; the frame looked
  at is the frame selected, as long as no other shell walks at the same time; a
  process without input does not hang in its shell.
- **Location decoder**: an expression that stays within the stack and within an
  int is decoded to the offset DWARF gives it; the stack stays in its array; a
  call ends.
- **Scope lookup**: the declaration found for a name is the one C means at the
  address; the lists have exactly the visible variables, with their types'
  stars and brackets; `inspect` prints the bytes of the object.
- **Scaley**: the table has the size of each block in use; allocated less freed
  is what the table holds, and so is the sum of what was counted between reads, up
  to what a `float` cannot hold.
- **DWARF client**: an address is looked up in the unit it belongs to whatever
  was asked before; a query leaves the cursor where the next one expects it; the
  two halves of `inspect` speak of the same unit; queries end.

## What is hard to test

`PROJECT.json` lists the hazards, each at the line where it bites and with the
properties that would catch it. They come down to seven:

1. `SIGUSR1` does not queue, and the protocol built on it is a *toggle*: one
   merged poke inverts a thread for good (`sampled_thread_monitor.c:75, 90-109`).
2. Threads are created, listed, unlisted and ended around a monitor that walks
   their list, and pthread identifiers are reused.
3. The TAP manager runs before `main`, but initializers may already create
   threads; a library that cannot be opened is not skipped.
4. The shell runs in a signal handler: faults and signals nest, several threads
   may be in it at once and walk from frame to frame in one pair of globals, and
   the interrupted thread may own the allocator.
5. libdwarf's iteration over units is hidden state shared by all queries.
6. The answer to `inspect` is put together from walks, a decoder and a guess at
   the frame's layout, each with silent fall-backs: a die that was not found, an
   empty stack and an expression that was given up all look like an offset.
7. Scaley gives a block back before it forgets its size, and updates its counters
   and its histogram from every thread without a lock.

## Modules

Each module has one action per step that another actor can see the inside of;
`PROJECT.json` maps every definition to its lines. Definitions headed "Mutant"
are plausible bugs of the definition after them: with the one put in place of
the other the property named in `PROJECT.json` must fail.

### SamplingRounds and SampledThreadMonitor

`SamplingRounds` is what sampling promises a TAP, with no signals, lock or
slots: rounds that tell each member and then change the phase, and members that
learn a *level* before they are told again.

`SampledThreadMonitor` is the code. `Create` to `Die` are a thread's life
(`thread_constructor.c:19-43`, `NullSampledWatcher.c:40-50`,
`sampled_thread_monitor_thread_init` and `_deinit`), `PokeEnter`/`PokeReturn`
are `handlePoke` around the client's handler, `Monitor*` are the monitor's loop
(one step per slot). While a thread is in its handler its own code does not run.

- `Kill` merges a signal into one that is already pending and records the
  parity of those lost (`merged`, a history variable).
- A thread's identifier is free again after `Die`; the pending signal goes with
  the thread. The main thread is never listed: it does not pass through the
  wrapped `pthread_create`.
- The monitor is created by the sampling subsystem before there is a list to be
  on, so the model does not list it; this is also what the test
  `thrdtn == monitor` of the code is for.
- `MonitorStart` covers `LDM_RATE` by its values: 0 ends the thread, and what
  `sscanf` leaves when the variable is not a number is some other rate.
- `LateDelivery = FALSE` assumes that each sleep of the monitor outlasts the
  delivery and handling of the pokes before it (`MonitorWake` waits for
  `Quiet`). With `TRUE` signals may be as late as they like.
- Not in the state: `sa_mask`, which the code leaves uninitialised; only one
  signal is modelled.

### TapManager

`RegisterCreate`, `LoadToken`, `NoCtor`, `Ctor*`, `RunInit` are the library
constructor, token by token; `dlsym` says what a search finds, in a library or,
for a null handle, in the preloaded libraries in order. The entry and the count
of `LDM_thd_ctr[LDM_numCtrs++] = fptr` are two stores in an order the compiler
chooses: both orders are modelled, since an initializer can have created threads
that read the table. `CallCtor`, `SkipCtor` and `StartRoutine` are
`threadStartFunc`; `RunDtr` is the thread library's call of a destructor.
`KeyVar` says which variable an identifier of `LDM_THD_DTR_DECL` is bound to:
each library's own, or one shared by name, as global symbols of preloaded
libraries are. `pthread_setspecific` of a key that does not exist does nothing.

`Wanted`, what the properties compare the table with, is the list's
thread-aware TAPs, counted off by the recursive function `selected`.

A list with more thread-aware TAPs than `LDM_MAX_TCTRS` writes past the table:
the loader warns and goes on (`thread_constructor.c:47-61`), and so does the
model. `Entries` gives the writes somewhere to go, and nothing else is taken to be
in that memory; what they destroy there, and what reading something else from
there would lead to, is not modelled. `TableBounds`, that a full table takes no more,
is therefore violated by such a list (run `tap_overrun`), and what the other
properties and theorems say of one holds only of a build where the memory behind
the table is otherwise unused.

### SampledTaps

The TAP manager with a sampled TAP in its list: `EXTENDS TapManager`, and
`M == INSTANCE SampledThreadMonitor` over the same threads, with `spc` for where a
thread is in the sampled TAP's code and the values under its key for
`dtr`. What `TapManager` takes for one step, a call of a constructor, is here the
whole of `LDM_PLUGIN_THD_INIT` (`EnterCtor`, `Install`, `InTap`), and a call of a
destructor the whole of `deinit_thread` (`CallDtr`, `InTap`). The initializer
(`BeginInit`, `LookUpFunctions`, `MakeLock`) runs in steps beside whatever threads
exist by then; the loader waits for it, threads do not.

`SampledThreadMonitor` starts with an empty list and lets a thread come only
through the constructor, once, and go only through the destructor.
`SamplerAsAssumed` checks that the manager sees to all of that: every step of the
whole is one of `M!Next` or leaves its variables alone. The exception is
`hurried`: a thread that called a constructor before its TAP's initializer was
done. Then `myPthreadLock` may still be null, the list may be emptied after the
thread is on it, and the lock may be made anew while the thread holds it
(`fault`); `HurriedOnlyEarly` says that this takes a thread created during the
loading. Nothing is modelled after a fault.

### DebugShell

Variables are the dispositions, the saved handlers, the stack of shells of each
thread, the shared frame globals, end of input, and the allocator's owner.
`Fault`, `Abort`, `Send` and `Deliver` are the kernel's rules: a signal is
blocked in the thread that handles it and in no other; a blocked or ignored
fault kills; `abort()` kills once its handler returns; a signal sent to the
process is taken by any thread that does not block it. `Trace` to `EndOfInput`
are `LDM_debug`; `Chain`, `Kill`, `HandlerReturn` are the rest of
`terminationHandler`.

- `up` and `down` walk *in* the globals `curDebugFramePtr` and `curDebugInstr`, which
  all shells share, and a step is one load or one store of one of them:
  `Trace` and `SetFramePtr` are lines 264 and 265; `Up` and `Down` (through `Select`)
  have changed the shell's frame number and stored the context's frame pointer;
  then come, in turn, `LoadFramePtr` and `ReadLink`, which reads through
  what was loaded and stores the next frame pointer or, at the end of the walk, the
  instruction. The read may fault, with the frame number and the globals as far
  along as they are by then. Another shell's stores can come between any two
  steps, and what the walk then goes on with is that shell's frame.
- A frame pointer is the number of links it is away from the registers of
  the shell it started from (`FrameOf`). Frame `MaxDepth + 1` is what the last link
  leads to; `up` gets there, and reading through it faults.
- `cur.owner` is a history variable: the shell that was last to begin to set the
  globals, or `Nobody` once another shell has stored into them since. `FrameWalk` is
  about a shell that owns them. Of a walk another shell stored into nothing holds.
- A line is the set of command words it contains, because the loop tests with
  `strstr`: `Command` takes the first of `Tests` that the line contains. So
  `fscope run.c 3` leaves the shell, and the model's user types such a line.
- `LDM_runstate` is never assigned: `cont` never continues. `run` does.
- `LDM_DEBUG` only decides whether a shell opens at start (`OpenInit`,
  `NoInitShell`). The handler is installed without it
  (`legerdemain.c:563`), although README:36-37 and README:175 make the shell
  depend on it.
- What a query prints is not in this module; `inspect`, `deref`, `string` and
  `source` are reads that may fault.

### DwarfSession

`cursor` is the unit `dwarf_next_cu_header` is at, and wraps. A query is the list
of loops it runs (`LoopsOf`): searches for a line, searches for an address,
`reset_cu_header_info`, the dump. One step is one call of
`dwarf_next_cu_header` or one look at the dies of the unit that call found, so
that two shells' queries interleave as they can, and `GiveUp` leaves a query
where a jump out of a handler would. `code` says which addresses are a unit's, and
`low` and `high` what its die has of them. `Contains` is the code's test: `high_pc`
itself counts as inside, and a unit without `low_pc` (its code in
`DW_AT_ranges`) contains nothing, whatever its `code`. `AddressFound` compares the
answer with `code`: the unit found has the address or ends right before it, and
"none" is an answer only if no unit with a `low_pc` has the address. `broken` is a unit whose header libdwarf
rejects, or (as 1) a handle that was never initialised.

### LocationDecoder

`decode_location`, one operation of the expression a step, and the four functions
of `stack.c`. Operations are grouped by what they do (`PushConstant`, `Shuffle`,
`Pick`, `ApplyUnary`, `ApplyBinary`, `Ignore`, `Skip`, `GiveUp`); `Trap` is a
division by zero. `IntBits`, `LongBits` and `STACK_MAX` are parameters: the
entries are longs, `Stack_Top` returns an int.

What the code does and the model keeps: a top of -1 for an empty stack; a push on
a full one that is dropped; the order comparisons the wrong way round; `pick`,
whose loops hide the operation's index with one of their own, so that the number
of entries moved depends on the other operations' operands (`PickCounts`); `bra`,
which only pops; `skip`, which measures from itself. Shift counts are taken
modulo the width, as the machine does.

### ScopeLookup and Inspect

`ScopeLookup` is a walk over a tree of dies, one die a step, for the four
questions asked of it: a variable's location, its type, the list of variables, the
list of scopes; and `DC_resolve_type`, one type a step. `todo` has the calls of
the recursion that are open, the innermost first: each with the die it visits
next among its siblings and with the `enclosing` it was called with. `ReadNoName`
is a variable without `DW_AT_name`, whose name is then whatever the uninitialised
pointer pointed to. `state = "null"` is an attribute asked of the null die, which
is what "not found" leads to, or asked of a die without it, such as the type of a
variable in a list: nothing is modelled after it.

`ProperUnit`, `Grounded` and `ProperData` say what a compiler writes. The walk does
not need them, some theorems do, and `MCInspect` has TLC check that every unit
it asks about is such a unit (`UnitsAreProper`).

`Inspect` is `LDM_inspect`: a walk for the location, the decoder
(`D == INSTANCE LocationDecoder`) on the location of the die it found, a second
walk for the type, and the bytes that are printed. It also runs the lists, which
are a walk only.

### Scaley

One access to shared memory is a step: an operation of the hash table or of the
allocator, the load or the store of a counter or of an entry of the histogram.
`torn` remembers the counters that two threads updated at once, and "histo" if two
threads were shifting the histogram at once; `spoilt` the addresses handed out again
before a free of them had dropped the old size, those `realloc` (which is not wrapped)
took blocks from, and NULL after a failed `malloc`, whose size the code puts into
the table under NULL. glib's own behaviour under two threads is not
modelled.

`read` is `CallRead`, a `LoadEntry` and a `StoreEntry` for each entry but the last,
`Load` and `TakeSince` for line 77, `ResetSince` and `CallOrigRead`. The histogram's
entries are floats: `ToFloat` takes bytes to a nearest member of `Floats`, the integers a
float holds (beyond 2^24 not all of them), and `roundedOff`, a history variable, has
the difference. `read` does not ask whether `LDM_ORIG(read)` has been
registered, as `malloc` and `free` do: before `RegisterRead` its call is of a null
pointer (`crashed`), which the other threads outlive by the steps they may still
take. The steps of `read` are in the order of the source; an optimiser may
load `bytesSinceLastRead` earlier, which makes the window for a torn counter longer
and changes nothing else.

## Runs

Every run checks one question; each property of a passing run has a mutant.

| Run | Shows |
|---|---|
| `sampler_async` | 3 threads, 2 slots, pokes as late as can be: `LiveTargets`, `RegisteredOnce`, `HandlerInstalled`, and `PhaseAccounting`: a thread is out of step exactly when it is owed an odd number of toggles |
| `sampler_prompt` | sleeps outlast pokes: `InPhase`, `ClientToldTruth`, `AllRegistered`, a listed thread `KeepsToggling`, refinement of `SamplingRounds` (`Rounds`), and `Registers`/`Deregisters` |
| `sampler_late` | *violated*: `InPhase` without that assumption |
| `tap_full` | a basic, a sampled and another thread-aware TAP, threads created at any time, pokes as late as can be: `RunsEveryCtor`, `CtorOncePerTap`, `DtrForEveryCtor` of the manager; `HurriedOnlyEarly` and `SamplerAsAssumed` of the two together |
| `tap_shared` | *violated*: `PokesLiving` when two TAPs share a destructor identifier |
| `tap_overrun` | *violated*: `TableBounds`, when two TAPs with constructors meet a table of one entry |
| `shell_full` | 2 threads, signals at any time, every kind of line: `FrameWalk`, `FaultsOnce`, `ReturnsOnlyToDie`, `EofDies`, `Opens` |
| `shell_frames` | *violated*: `FramePairs` |
| `dwarf_full` | 2 clients, 3 units, 3 queries of any kind: `AddressFound`, `HalvesAgree`, `LineFromCursor`, `CursorHome`, `QueriesEnd` |
| `dwarf_line` | *violated*: `LineAnswers` |
| `inspect_full` | one command over every unit of some small shapes and every location of some families: `FindsInnermost`, `ListsVisible`, `DecodesRight`, `InspectReads`, `InspectEnds` |
| `scaley_full` | 2 threads, 2 blocks, initialisation at any time: `TableTracksHeap`, `Accounts` |

### Bounds

- *Sampler*. Two slots and three threads give an empty list, a full one, a thread
  that finds no slot, a slot freed in front of a used one, and reuse of
  identifiers. Nothing counts upwards, so these state spaces are complete. Threads
  are symmetric in the safety run only. The runs with prompt pokes have two threads
  and two slots, the most for which the liveness properties can be checked in
  minutes: `AllRegistered` is of no more threads than slots there, and that a thread
  finds no slot happens in `sampler_async` alone.
- *TAP manager and sampler*. Two TAPs with constructors are the least for which an
  order can be wrong, and `LDM_MAX_TCTRS = 2` is then exactly full; the basic TAP
  comes first, so that its initializer can create a thread before the others are
  loaded. Two threads, which are symmetric, may come, go and come again;
  `MaxEarly = 1` of them may have been created during the loading, enough because
  a thread changes nothing that another one's walk over the table reads. No thread
  is created before an initializer runs. `tap_shared` has the two shipped TAPs only, and
  `tap_overrun` the same two, with key variables of their own, for a table of one entry.
- *Shell*. `MaxOdd = 1`: one signal from outside or one abort of the allocator
  under a shell, beyond the faults and aborts of the program and the commands,
  which are not bounded; `OddMayHappen` has it come only while every shell looks at
  its own frame, and no shell goes to another frame after it. The lines depend on the
  shell (`Lines`): `help`, `quit` and `run` are typed in all, the others in the first
  shell of the main thread, so that one shell walks while the others store into its
  globals at 264-265. The input's end is noticed only by a shell at its prompt, and
  happens only when there is one. `MaxDepth = 1`: a chain of one caller has both a step
  `up` that succeeds and one that runs off the end; frame numbers go up to
  `MaxDepth + 1`. Two threads are enough for two
  shells, for a shell in a thread while the other owns the allocator, and for
  a signal taken by the thread that was not meant.
- *DWARF*. Three units: first, middle, last, one of them without `low_pc`, two
  adjacent so that the inclusive `high_pc` matters. Of the addresses 1 to 6 the first is
  in the unit without `low_pc`, the fifth is the first after all code, and the
  sixth is in no unit. `MaxQueries = 3` is a query,
  one that interferes with it and one that finds what they left.

- *Inspect*. `MCInspect` enumerates two families. Shapes: a unit with a variable of
  its own, a function with a parameter and two blocks, nested or side by side,
  with or without a pc range, names of which one is the beginning of another, a
  variable after the blocks, a nameless one or none, a variable without a type, the
  nameless parameter of a subroutine type, and the types from a plain
  one to a typedef of an array of pointers; asked at four addresses, ends of
  scopes among them. Locations: one or two constants, an offset from the frame
  base or a value that does not fit an int, followed by each operation, and skips
  forward, back, to the middle of nowhere and over everything. `STACK_MAX = 3`
  so that a stack is full, and 6-bit ints in 12-bit longs so that a value can be
  too wide. `FrameBase = 16` is the distance the code builds in.
- *Scaley*. Two threads are in each other's way, two blocks and sizes let one be
  handed out, freed and taken while another is being counted. `MaxBytes = 2`: no
  call of `malloc` once two bytes were counted; `MaxReads = 4`, so that a histogram
  of `S_LEN = 3` entries, the least whose shift has two stores, has
  shifted something out. `Floats` is a float with a significand of one bit: 3 becomes
  2 or 4, so that something is rounded off within so few bytes. `Calls` ends
  the program's calls once a counter, the histogram or two addresses may be wrong, and
  `MayRead` its reads once the accounts say nothing more.

Deadlock is checked in the sampler's runs. A process that has ended or faulted,
a command that is answered, and programs and clients whose calls are used up have
no next step, so the other configurations say `CHECK_DEADLOCK FALSE`.

## Fairness

- *Sampler*: weak fairness for the delivery of a pending signal and for its
  handler; strong for the steps of a thread's constructor and destructor and for
  the monitor, because what disables them (the lock, a poke) is brief: the lock
  is held for one pass over the list, and the monitor sleeps in between.
  `Registers` and `Deregisters` are claimed for prompt pokes only: if pokes are
  arbitrarily late, they can interrupt the waiter each time the lock is
  free. `KeepsToggling` is claimed under the same assumption. `Create` and `Finish` are
  the program's choice and carry no fairness.
- *TAP manager, Scaley*: none. No property of theirs is a liveness property.
- *Inspect*: weak fairness of the command's steps, which are one thread's straight
  line of code. `InspectEnds` excepts an expression that skips backward: with a
  `bra` that does not branch nothing leads out of the loop.
- *Shell*: weak fairness of a handler's own steps; strong for the two steps that
  need the allocator, which other threads take and release in between; weak for
  leaving the allocator. The user owes nothing: `CommandStep` is not fair, and
  neither is any fault. `EofDies` and `Opens` except a thread stopped inside the
  allocator, for which every shell waits: that is how the program behaves.
- *DWARF client*: weak fairness of each query's steps. `QueriesEnd` is for
  accepted headers. A rejected header leaves `reset_cu_header_info` looping, since
  it tests for "no entry" only (`dwarfclient.c:567`); the model has these
  behaviours and the property excepts them.

## Proofs

Each theorem below is of a module's whole specification, for every value of its
constants that the module's named `ASSUME` allows. Where a theorem needs more, the
hypothesis is part of its statement and is justified here.

### SampledThreadMonitorProofs

For any set of threads, any number of slots, any rates, by one inductive
invariant built in layers:

- `TypeCorrect`: `TypeOK` is inductive by itself.
- `CoreInvariant`: `LockInv` (the lock's owner is exactly the actor in a critical
  section, the loop index is 0 outside the loop), `ListInv` (a listed thread is
  between insertion and removal, sits in the slot of its `threadId`, and has its
  destructor set) and `SignalInv` (signals are only under way to threads past
  `sigaction`). The properties alone are not inductive: that a poked thread is
  alive needs it to be in the list, and that it stays there needs the lock. It
  yields `LiveTargetsHold`, `RegisteredOnceHolds`, `HandlerInstalledHolds`.
- `PhaseAccountingHolds`: parity of owed toggles, by cases on who moves. A round
  adds one to the count of each slot it passes and flips `active` at the end,
  when everybody has been told; registration is atomic with respect to rounds
  because both hold the lock.
- `InPhaseHolds`, `ClientToldTruthHolds`, `RoundsRefined` assume
  `~LateDelivery`; their invariant says that nothing was merged and that only
  threads the current round has told can have a poke pending. `RoundsRefined`
  maps `Init` to `Init` and each step to a step of `SamplingRounds` or a stutter.
- `AllRegisteredHolds` assumes finitely many threads, no more than slots: then the
  pigeonhole principle leaves a free slot for whoever holds the lock to insert.

### TapManagerProofs

For any list, any libraries, any number of threads, without a hypothesis:

- `RoomInvariant`: `TypeOK` together with `Room`, that entries in use, the entry
  being filled and the tokens still to come are no more than the names of the
  list. `TypeOK` is not inductive without it: the constructor loop reads the
  entries below `LDM_numCtrs`, and they must be there.
- `TypeCorrect`, which includes that no thread has a value for a key that does not
  exist.
  Lemma `LeastIndex` gives the library that a search of the global scope finds, from
  the library's theorem on well-founded relations.

The others are about lists that hold what they promise:

| Hypothesis | Says | Without it |
|---|---|---|
| `AllInstalled` | every name has a library | `dlsym` searches the whole program for it, and the first thread-aware TAP is registered again (`thread_constructor.c:52-57`) |
| `Initialises` | a thread-aware TAP has an `LDM_PLUGIN_INIT` | its destructor is registered nowhere: README:129-135 asks for it there |
| `OwnKeys` | two TAPs use different destructor identifiers | the destructor of one never runs, as run `tap_shared` shows of the two shipped TAPs |
| `NoRepeats` | no TAP is named twice | its second initializer makes a second key |

- `TableFollowsTheList` (`AllInstalled`). Its invariant, `Loaded`, says where the
  loader is in the list (`Walking`) and that the table has exactly the thread
  constructors of the names behind it, in order, with the counter one ahead or
  one behind between the two stores (`Registered`). `Wanted`, the constructors
  of the list, is the recursive function `selected`, so that one more name is one
  more step of the proof; `SelectedIsPrefix` says that the table's future entries do
  not change the ones there are.
- `OnlyLongListsOverrun` (`AllInstalled`): once the list is loaded, the table has been
  overrun exactly if the list has more thread-aware TAPs than the table has entries.
  One direction is what makes a shorter list safe, the other that the warning
  of line 48 keeps nothing out. It follows from `Loaded`, since at the end of
  the list the counter is the number of `Wanted` constructors.
- `ConstructorsInListOrder` and `EveryConstructorRuns` (`AllInstalled`), from
  `RunsInvariant`. `CtorOncePerTap` and `RunsEveryCtor` are not inductive by
  themselves: a thread that reads the table while it is being filled sees a
  counter ahead of it, an empty entry which it skips, or, later, the entry it
  skipped. `Ordered` therefore bounds what a thread has run by its index into the
  table, and `Started` says that a thread created after the loading has run exactly
  the entries below it.
- `EveryDestructorRuns` (all four), from `KeysInvariant`: an initialised TAP's
  variable holds a key with its own destructor, a dead thread holds no values,
  and what a thread has run it either owes a destructor for or has been given
  one, whose numbers add up, so that none is called twice.
- `DestructorsRegisteredOnce` (`AllInstalled`, `NoRepeats`): no two keys have one
  destructor. `SampledTapsProofs` needs it.

`ConstructorsInListOrder` is also about threads created during the loading.
`EveryConstructorRuns` and `EveryDestructorRuns` except them: such a thread misses the
constructors whose turn comes after it has read the table.

### SampledTapsProofs

- `ImplementsTapManager`, without a hypothesis: every step of the composition is
  one of `TapManager`'s or leaves its variables alone, so all theorems above hold of
  it.
- `SamplerGetsWhatItAssumes` (`ProperList`, the four hypotheses together): until a
  thread comes too early, the manager with a sampled TAP implements
  `SampledThreadMonitor`, which is what makes the theorems of
  `SampledThreadMonitorProofs` say something of the program and not only of the
  monitor on its own. The argument takes the invariants of both sides.
  `Coupled` says where a thread may be in the sampled TAP, given where it is in the
  manager; `ReadyInv` that the initializer has been called exactly when the loader
  is past the TAP's name; `Agreed` that all of this, and the monitor's own invariant
  (`MP == INSTANCE SampledThreadMonitorProofs`), holds while nobody has hurried.
  A thread enters the constructor once because its table holds a TAP once
  (`OnlyOnce`), and the destructor only after the constructor because the key's
  value is set there (`SameWithDtr`, `KeysOnce`).
- `OnlyEarlyThreadsHurry` (`ProperList`): a thread created once the TAPs are loaded
  finds every key made and every initializer done; and while nobody hurries no null
  pointer is called and no held lock is made anew.
- `NoPokeOfTheDead` (`ProperList`) is `PokesLiving`, the property that
  run `tap_shared` violates: the hypothesis it lacks there is `OwnKeys`. As the
  property of a run that must fail it is not among the passing runs' properties.

### DebugShellProofs

For any threads, lines, initial dispositions and bounds, from one invariant:

- `Stacked`: of the shells of one thread, one that was opened by a delivered signal
  is the only one of its signal at or below it, since the signal is blocked there;
  only `abort`'s raise gets past a block. `FaultsOnce` alone is not inductive,
  because it does not say which signals are blocked.
- `Reset` and `Installed`: unless the program sets a disposition, what
  `terminationHandler` has reset stays reset and what it sent stays pending, also
  while another thread does the same. That is what makes `LeavesOnlyToDie` true
  with several shells open at once.
- `WalkInv`: `FrameWalk` speaks of a shell at its prompt, and the walk there has many
  steps, with other shells' steps in between. `Fits` says for each place of the walk
  what the globals and the shell's register must be: the frame pointer as many
  links from the start as have been taken, those still to take making up the selected
  frame, and the instruction only once the walk is over. It is claimed of the shell
  that owns the globals; every store of another shell takes the ownership away, or
  takes it over. That a walk past the end never comes back to the prompt is part of it.
- `InitFirst`: the shell of the start is left before the program starts.

It yields `TypeCorrect`, `UndisturbedWalks`, `ShellsOfFaultsNeverStack` and
the action property `LeavesOnlyToDie`; the last is `NextKeeps`, which proves for
each action at once that it keeps the invariant and that a return ends the process.

### DwarfSessionProofs

For any clients, units, addresses, line tables and number of queries:

- The invariant is about each query: it has the end of its plan to do
  (`Following`), what it found contains its address (`Found`, also when others move
  the cursor), it is stopped by a rejected header (`Stuck`), and, as long as
  it runs alone, it has been through all units up to the cursor (`Swept`,
  `LineSwept`). The look at the dies and the step of the cursor are separate
  actions, hence `Searched`, which is behind the cursor between them. That
  two queries never both believe they are alone is a conjunct, too.
- `QueriesFindTheirUnit` compares what was found with `code`. Lemma `HomeIs` says when the
  code's test succeeds: for a unit with a `low_pc`, and an address of it or the
  one right after it.
- It yields `TypeCorrect`, `QueriesFindTheirUnit`, `LinesAreSearchedFromTheCursor` and
  the action property `CursorIsTakenHome`, without a hypothesis.
- `HalvesLookInOneUnit` assumes `UnitsDisjoint`: of two units that share code
  each is an answer, and interleaved clients may get either. Linkers do not
  make such units.

### ScaleyProofs

For any threads, blocks, sizes and length of the histogram. `TableTracksHeap` speaks
of addresses whose size nobody is dropping; when one is given out again while
the old size is still in the table, what holds depends on what every thread
inside `malloc` or `free` is about to do: `Held` (a block in `malloc` is one
thread's), `Inserting` (what it is about to put in is its size) and `Dropped` (a size
on its way out is of a block given back, save for the spoilt addresses).
`TableTracksTheHeap` and `TypeCorrect` follow from it.

`AccountsHold` is `Accounts`, for finitely many threads and blocks, which is all a
process has. `Accounts` speaks of moments when nobody is in a wrapper; its invariant,
`Books`, of every moment at which no counter is torn and no address spoilt:

- `Balanced`: the sums hold if what each thread has put into one side and not yet into
  the other is taken into account: `Owed` for bytes allocated and freed, `Due` for
  those since the last read. While `read` is between its use of `bytesSinceLastRead`
  and the reset, the histogram has these bytes already, and they are not counted
  again; and while it shifts the histogram, the entry it copied last is in it
  twice (`Dues`). What a conversion to float takes off or
  adds is in `roundedOff`, whichever neighbour it went to.
- `Alone` and `LoadedNow`: no two threads are inside an update of one counter, so that
  what a thread has loaded is still the counter's value when it stores.
- `Removing`: the size a thread is about to take out of the table is the one it looked
  up, and nobody else is taking it.

`Total` is a fold over a set. Lemmas `SumExists`, `SumsDef` and `SumAny` show, by
induction over subsets (`SubsetInduction`, from the library's theorems on well-founded
relations), that it is a sum whichever element is taken first; `SumChange` says what
one changed entry does to it, of which `HistogramTakes` is the histogram's case. The
shift is proved one store at a time (`ShiftKeepsBooks`), and line 77 after it
(`TakeKeepsBooks`). Each action is then a few lines of arithmetic (`DuesBalance`,
`StepBalances`).

### ScopeLookupProofs

For any set of questions about any trees of dies.

| Hypothesis | Says | Without it |
|---|---|---|
| `ProperUnits` | the scopes of every unit are a subprogram in the unit or a block in a scope, a range within the range around it and beside its siblings' | of two overlapping scopes the later hides the earlier, whatever is in which |
| `TypesEnd` | no type refers to itself by way of others | `DC_resolve_type` never returns: "I am assuming this must happen eventually" (`dwarfclient.c:926-927`) |

- `TypeCorrect`, without a hypothesis: a die of `todo` is a die of the unit, and a type
  is resolved only for a die that was found and has one. Its invariant,
  `Invariant`, adds to `TypeOK` what `enclosing` tells: it is true of a call
  exactly if the parent of its dies is a scope around the address (`Told`).
- `SearchFindsInnermost` (`ProperUnits`). `FindsInnermost` speaks of the end of the
  walk; `FoundInv` of the dies it has come past, which are those no open call
  covers (`Pending`): if a visible declaration of the name is among them, one is kept, and
  its scopes include the scopes of each. A step keeps that because of `LaterOrOuter`:
  of two visible declarations, either the scopes of the second are among the
  first's, or the second is below a later sibling of the first, and then it is
  still pending. That no declaration comes after a block beside it (`Regular`) is
  needed there, and that scopes nest (`ScopesNest`).
- `ListShowsVisible` (`ProperUnits`, `TypesEnd`). `AllApart`: no die is below two open
  calls, hence none is visited or printed twice. `ShownInv`: what has been
  printed are the visible declarations the walk has come past, in order of their
  scopes. `TypesInv` follows `DC_resolve_type`: the chain of the type it is at is the
  rest of the declaration's (`Reached`), and the stars and brackets counted are
  those of the part behind it (`Counted`); each row printed has all of its own
  (`Typed`).

`DiesAbove` and `ChainsOf`, which the properties are stated with, are recursive functions.
That each recursion has a solution is proved here by induction, over the dies
(`DiesAboveDef`) and over the rank of a type (`ChainsOfDef`); nothing is
assumed of them.

### InspectProofs

`InspectFindsInnermost` and `InspectListsVisible` say the same of both walks of the
command, the second of which starts over after the decoder: `AtTheStart`.

`InspectTypes` and `DecoderIsRight` have no hypothesis: they hold for any widths of int
and long, any size of the stack and expressions of any length.

- `InspectTypes` is about every operation, `pick` and the shifts included:
  `DecodeKeepsTypes` shows that each leaves the stack in its array and its entries longs.
- `DecoderIsRight` follows from `Computing`: as long as the call runs on a plain
  expression, the operation it is at is the next in order, and the stack is DWARF's
  meaning of the operations so far. That needs the effect of each operation
  (`ConstantsRight`, `ShufflesRight`, `UnariesRight`, `BinariesRight`), and that a
  value which fits an int survives the conversions (`WrapFacts`, `IntsAndLongs`).
- `Power`, `FromBits` and `Meanings` are recursive functions. That they have the values
  their definitions give is proved by induction (`Recursion`, from `OneByOne`).

`InspectReadsTheObject` is `InspectReads`. It assumes `ProperUnits` and `TypesEnd`, and:

| Hypothesis | Says | Without it |
|---|---|---|
| `DataProper` | no scope declares a name twice; of the types that lead on to another only pointers and arrays have a size; what a variable is made of has one; distances in a frame are ints | the last of the declarations of a name is taken; another size is printed than `sizeof` gives; the distance is cut to an int (`stack.c`) |
| `FrameBase = 16` | the distance from the frame pointer to the frame base is the one written into `legerdemain.c:126` | other bytes than the object's are printed |

`StageInv` carries the result of each stage to the next: while the decoder runs, the
expression is the location of the innermost declaration, and one that is a
single `fbreg` is decoded, in two steps, to its number (`Decoding`); once it has
ended, `loc` has that number (`LocKnown`). The second walk finds the same
declaration, there being only one (`OneInnermost`), and its chain of types
ends at the type whose size is `sizeof` (`SizeAtTheEnd`). The addition of 16
then gives the object's place.

### Model-checked only

- Every liveness property (`KeepsToggling`, `Registers`, `Deregisters`, `Opens`, `EofDies`,
  `QueriesEnd`, `InspectEnds`): the provers do not reach liveness under fairness.

What the five violated runs show is not proved either: there the counterexample is
the result. Every invariant and every action property of a passing run is stated by a
theorem.

## Disagreements found

| Run | Code | What the repository says |
|---|---|---|
| `sampler_late` | A poke pending for a whole round absorbs the next; the thread is inverted for good and its client told the opposite | README:164-166; `sampled_thread_monitor.c:167` |
| `tap_shared` | Two libraries using one destructor identifier share a key; the destructor of one never runs. The two shipped TAPs both use `dkey`: no thread leaves the sampler's list, and dead threads are poked | README:129-135, 156-158 |
| `tap_overrun` | At a full table the loader warns and then registers the constructor behind the table's end | `thread_constructor.c:48`, "cannot register thread constructor" |
| `shell_frames` | After `up` the instruction belongs to the frame after the one whose frame pointer was chosen | `legerdemain.c:115-119` |
| `dwarf_line` | `linetoaddr` searches from where the last search stopped: asked twice, it may not find a line it has just found | `legerdemain.c:241` |

The exact lines and quotations are in `PROJECT.json`.

Seen while modelling, without a run of its own:

- A name of `LDM_TAPS` without a library is reported and then looked up in the
  whole program (`thread_constructor.c:52-57`): the first thread-aware TAP is
  registered and initialised again, against README:127. With such a name in
  the list, `CtorOncePerTap` fails in a few states; the runs have none.
- `terminationHandler` restores the default disposition and sends the signal again
  also when the program had a handler and it returned (`legerdemain.c:518`),
  although the comment at 479-481 has the default handler for programs without
  one; and it is installed whether or not `LDM_DEBUG` is set.
- Names are compared as far as the *die's* name goes (`dwarfclient.c:592`):
  asking for `index` may find `i`. `FindsInnermost` excepts it (`PrefixFree`).
- A unit whose code is in `DW_AT_ranges` is never found for an address, and the
  first address after a unit is taken for the unit's (`dwarfclient.c:512, 523`), although
  `legerdemain.c:239-240` promises the scopes that enclose an address. `AddressFound`
  excepts both, and only them.
- Both ends of a scope count as inside, a scope with `DW_AT_ranges` encloses
  nothing, and a variable of the unit itself is never found (584-606). The
  properties say so in `Regular` and in their statement.
- `DC_show_info_for_scoped_variable` looks the variable up and prints the
  attributes of the *unit* (634); `get_location_of_scoped_variable` and
  `get_type_of_scoped_variable` return nothing at all when no unit is found.
- A pointer is printed with the size of what it points to (`legerdemain.c:138`),
  and `DC_resolve_type` takes a pointer to void, which has no type, for a base
  type.
- `le`, `ge`, `lt`, `gt` compare the wrong way round, and `pick` counts with a
  variable that hides the operation's (`dwarfclient.c:100-107, 218-246`).
- Scaley inserts the size of a failed `malloc` under NULL, where the next
  `free(NULL)` finds it, and does not wrap `calloc` and `realloc`.
- `dwarfclient.c`'s dump tests `!sibret == DW_DLV_NO_ENTRY`, which no result
  satisfies as intended; `addr2line.c` is linked and unused.

## What is not modelled

- *Call-counting TAPs*: no control; their unlocked counters are Scaley's problem
  in small, and README:107-109 says plugins are not thread-safe.
- *Address to line translation, programs, build*: sequential input and output.
  The one effect of `ldm.sh` that matters, that TAPs are preloaded as well as
  opened, is in `TapManager`'s `dlsym`.
- *What the shell prints* besides `inspect`, `vars` and `scopes`, and the values it
  reads.
- *A second `sampled_thread_monitor_init`*, from two sampled TAPs.
- *glib's hash table* under two threads; the average that Scaley's `read` computes and
  warns of, and the two totals that only `read` touches.
- *What is in the memory behind the table of constructors*. That it is written is
  modelled.
- *Failures of the environment that end a call*: `dlopen` of `libpthread.so.0` in the
  sampler's initializer, which would leave its function pointers null
  (`sampled_thread_monitor.c:178-204`); a failing `dwarf_loclist` and the assertion
  after it.
- *Uninitialised results*: the name and the size of an end type whose die has none
  (`dwarfclient.c:918-922`).
- *Faults of `showvars`, `ascope` and `fscope`* in the shell, and words longer than the
  arrays that `sscanf` puts them into (`show`, `sc_str`). A fault of another
  command takes the same way out of the shell.
- *`DW_AT_high_pc` as a distance*, the form DWARF 4 added: here it is an address, which is
  what lines 516-522 of `dwarfclient.c` ask for.

## Plan

The models are done, and so are the proofs of what the runs check of
`SampledThreadMonitor`, `TapManager`, their composition, `DebugShell`, `DwarfSession`,
`Scaley`, `ScopeLookup` and `Inspect`, but for the properties listed under
[Model-checked only](#model-checked-only).

What could still be proved:

- the safety half of termination, as action properties: a measure that each step of a
  query, of a walk and of a decoder without a backward `skip` lowers, from which
  `QueriesEnd` and `InspectEnds` follow once the steps are fair;
- `InspectReads` for locations the decoder computes, where it now speaks of the
  one distance from the frame base that compilers write;
- `DecodesRight` for expressions that overflow, with DWARF's arithmetic taken modulo
  the width of the machine's words.
