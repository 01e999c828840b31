# Formal models of the Stationeers toolkit

This directory holds TLA+ models of the parts of the toolkit in which several
actors, several readers of one text, long sequences of calls or bounded resources
meet: the simulator's world scheduler, its behaviour runtime and its Lua sandbox;
the way of an IC10 program from the editor through a build to a run; the language
server; the debug adapter with its reversible history; the scenario test runner;
and the authority service of the multiplayer relay. TLC checks them on small
instances; TLAPS proves the safety properties of the scheduler, the behaviour
runtime, the Lua sandbox, the language server, the reversible debugger and the relay,
and the verdict of the test runner, for every instance.

`PROJECT.json` is the machine-readable index: components, runs, the mutants that
show that each property can fail, the map from definitions to source lines,
findings, hazards and theorems.

## 1. Inventory

### ic10-sim (`src/crates/ic10-sim`)

* **World scheduler** (`simulator.rs`, `vm.rs`). State: the tick, the cursor
  (`scheduler_slot`), one adapter per attached program with its run state,
  program counter and operation count. Operations: `scheduler_step`,
  `next_scheduled_location` (a peek that moves the cursor and may begin a tick),
  `step_instruction`, `step_world_tick`, and inside them `prepare_next_adapter`
  and `advance_tick`. It is called by the test runner in a loop and by the
  debugger one step at a time. Hard: the agreement of `can_step`,
  `retains_slot`, counter resets and sleeping over several programs; failing
  hooks in the middle of `advance_tick`. Correct when each program gets its quota
  once a tick, in slot order, and every tick ends.
* **Lua runtime** (`lua.rs`, `lua_mock.rs`): a coroutine per program, one
  invocation a tick on a copy of the world, a `require` with search roots, and
  limits on instructions, output, call depth, modules and source size. State: the
  thread, the hook's counters, the resolver's sets. Hard: every error path through
  nested modules and coroutines of the program's own must leave the counters and
  sets right, because they outlive the invocation. Correct when no limit can be
  evaded, a module runs once, and an invocation reaches the world as a whole.
* **Behaviour runtime** (`behaviour.rs`): vending machines, chute valves and
  scheduled field writes, run by the tick hooks. State: the actions by
  `(tick, device, sequence)`, private counters, the device fields and slots.
  Correct when items are neither lost nor doubled, requests do not outlive their
  tick, and a failing hook leaves a defined state.
* **Journal, snapshots, hashes** (`journal.rs`, `simulator.rs`): what the debugger
  records, restores and compares.
* **Scenario, world and context loading**: validation of JSON, the world a
  scenario describes, the index of scenarios by program and the checks of a program
  against its environment (`context.rs`), which the editor shows.

### ic10-dap (`src/crates/ic10-dap/src/main.rs`)

* **Reversible history** (`TraceHistory`): a ring of replay records, a few
  checkpoints, a cursor; `record`, `record_stop`, `checkpoint_current`,
  `drop_through`, `restore`. Hard: branching off from the past, eviction under two
  limits at once, replay that must reproduce every recorded hash.
* **Session** (`AdapterState`): `running`, `single_thread`, `last_stop`,
  `skip_breakpoint_once`, breakpoints, filters. Two threads share it under a mutex:
  the runner (`spawn_runner`), one instruction per lock section, and the request
  thread. The runner reports a stop after it has released the lock. Correct when no
  breakpoint is run over, every stop is reported, and going back shows what was.

### ic10-core, ic10-build, ic10-data

The parser and its diagnostics (`lib.rs`, `analysis.rs`), deployment builds at three
levels with a source map, and the bundled data. Pure functions, but three of them
read the same text on their own (analysis, builder, `Program::compile`), and what
the editor says is worth something only where they agree.

### ic10-lsp

Documents, options, the scenario index and context selections behind `RwLock`s;
handlers interleave wherever one awaits the client. Correct when, once everything
has settled, what is shown belongs to the latest text, options, scenario and
selection.

### ic10-runner

A tick loop with timeline stimuli, script drivers that react to writes and schedule
actions, four kinds of assertion, four limits and a verdict. Correct when a verdict
"passed" means what the test file says, and when every case ends.

### packages/vscode

Editors and views, and the live explorer, which polls a bridge into the running
game and pushes sources with a version check.

### mods

* **Relay authority service** (`StationeersBridge.Relay.Core`). State: a bounded
  queue with counts, an idempotency cache with a queue of evictable keys, a
  semaphore, worker tasks, a stopping token. Operations: `SubmitAsync` from any
  thread, the worker loop, `Dispose`. Hard: retries in every phase of the original
  call, eviction, disposal racing everything.
* **Game mod** (`StationeersToolkit`): discovery index, HTTP bridge, request and
  response queues between client and host with a timeout.

## 2. Modules

| Module | Models | Uses |
| --- | --- | --- |
| `WorldScheduler` | scheduler with every outcome of an instruction left open | |
| `WorldSchedulerProofs` | its theorems | `WorldScheduler`, `TLAPS` |
| `Ic10Program` | lines, tokens, symbols; what parser and compiler make of them | |
| `Ic10Analysis` | the diagnostics of the editor | `Ic10Program` |
| `Ic10Operations` | what an instruction does to the processor and the world | `Ic10Program` |
| `Ic10Machine` | a processor running a compiled program: the abstract machine | `Ic10Operations` |
| `Ic10Build` | deployment builds and their source map | `Ic10Analysis` |
| `Ic10Context` | the checks of a program against its environment | `Ic10Analysis`, `Ic10Operations` |
| `Ic10Toolchain` | edit, build, run; composition of the above | all of them, and `Ic10Machine` as the refinement's target |
| `Ic10ToolchainProofs` | its theorems | `Ic10Toolchain`, `TLAPS` |
| `LanguageServer` | tables and handlers of `ic10-lsp` | |
| `LanguageServerProofs` | its theorems | `LanguageServer`, `TLAPS` |
| `MaterialHandling` | the behaviour runtime inside `advance_tick` | |
| `MaterialHandlingProofs` | its theorems | `MaterialHandling`, `TLAPS` |
| `LuaSandbox` | a Lua program's life in its sandbox | |
| `LuaSandboxProofs` | its theorems | `LuaSandbox`, `TLAPS` |
| `ScenarioTest` | one test case, from loading to verdict | |
| `ScenarioTestProofs` | its theorems | `ScenarioTest`, `TLAPS` |
| `ReplayMachine` | the simulator as a deterministic function of its state | |
| `TraceHistory` | the history as operators on a record | `ReplayMachine` |
| `DebugSession` | runner thread and requests | `TraceHistory` |
| `DebugSessionProofs` | its theorems, with what they need of the two modules above | `DebugSession`, `TLAPS` |
| `RelayAuthority` | relay authority service | |
| `RelayAuthorityProofs` | its theorems | `RelayAuthority`, `TLAPS` |
| `MC...` | instances for TLC | the module of the same name |

Definitions whose comment begins with "Mutant" or "Mistake" are wrong on purpose; each replaces
the definition of the same name without its suffix to show that a property can
fail, and no specification uses them.

### WorldScheduler

`tick`, `slot`, `state`, `wake`, `pc`, `ops`, `faulted` and `schedulerError` are
the fields of the same meaning; `due` and `peeked` are history variables. One call
of `scheduler_step` is one action: `TakeSchedulerError`, `EndOfTick`, `StepIc10` or
`StepLua`, according to where `prepare_next_adapter` stops. `PeekLocation` and
`PeekEndOfTick` are `next_scheduled_location`; `StepInstruction` and `StepPastEnd`
the debugger's hand step. The loop of `prepare_next_adapter` is not iterated: the
slot it stops at is the least eligible one (`NextUp`) and the programs it halts on
the way are `HaltedUpTo`. An instruction is one of `Outcomes`: go on or branch
anywhere, wait, halt, fail. `advance_tick` ends in `BeginTick`, `TickEndFails` or
`TickStartFails`. IC10 slots start ready or, when switched off, halted.

### The Ic10 modules

A program is a sequence of lines, a line an operation with tokens: registers,
numbers, names, devices, fields. The tokenizer is left out, so is everything that
only affects positions. `Document` is what the parser keeps, `Compile` what the
simulator runs; symbols are resolved by one operator for each reader, because the
readers differ (first or last declaration, chasing aliases or not).

`Diagnostics` is the set of `(line, code)` that `analyze` reports; the straight-line scan is a
recursive function of the line, with the scanner's state as its value. `Execute` is
`execute_operation`: a result is a new processor and world, or a fault. `Step` is the whole of
`step_instruction`: the housing shows the line in `LineNumber` before the operation runs, and
`Error` behind one that fails (`Shown`). Values are small integers.
`BuildOutput` is the generated lines with the source line of each, `Refusals` the reasons not to
write them; all three levels go through the same steps with different ones enabled. `ContextCodes`
is `validate_context` for one line.

`Ic10Toolchain` takes a source with its diagnostics, builds it at a level (`Build`,
`RefuseBuild`) or not, and runs the source or the artifact while a sensor changes
under it. `link`, `last`, `executed` and
`tickOps` are history variables that say in source lines what the run did.
`ArtifactRunsAsSource` is a refinement: with the program counter mapped through the
source map, and `ra` and the `LineNumber` of the housing mapped to source lines
(`SourceCpu`, `SourceWorld`), every behaviour of an artifact is a behaviour of
`Ic10Machine` on the source.

### LanguageServer

A handler is a task with the documents it still has to do; it gives way to others
only where it awaits the client, which is where `tasks` holds it. `text` is what the
client sent last, `documents` what the server holds, and with it the options and the
context its diagnostics were found with. `raced` is a history variable: the document
changed while a refresh held a copy of it.

### MaterialHandling

`tick_end` visits the devices one by one (`cursor`), `tick_start` applies due actions
one by one; between the two the tick advances. `collected`, `lost` and `applied` are
history variables. A slot's content moves as one value.

### LuaSandbox

The program is arbitrary: whatever it may do next it may do. `stack` says what the
coroutine is executing: the entry script, calls, modules being loaded, and guards,
which are coroutines of the program's own whose `resume` catches errors. `Throw`
unwinds to the innermost guard or ends the invocation. `loading`, `loaded`,
`loadedPaths`, `sourceBytes`, `depth`, `instructions` and `outputBytes` are the
runtime's own; they survive from one invocation to the next, as in the code.

### ScenarioTest

The phases are the parts of the loop: stimuli, due actions, reactions, judgement,
one scheduler step, and the verdict at the end. The world is reduced to the values
of the targets a test can name. `matched`, `fired` and `seen` are history variables.
`ScriptActions` are the actions the drivers' rules hold, the ones nested in schedules included;
`pending` is the drivers' list of scheduled actions in the order the code sorts it in, so that
the sequence number the code gives each of them is its place in the list. A schedule puts all
its actions in at once, behind those of the same tick; a `moveSlot` writes, field by field, the
source slot and then the destination (`MoveWrites`). `ProgramSteps` is what one step of a program
may store, and which of it the journal gets: all of it for an IC10 instruction but `LineNumber` and
`Error`, nothing for a Lua program, whose host keeps a journal of its own. `unread` is what the
rules have not yet seen of the journal.
An error, of the program, of a hook or of a driver, is reduced to whether its text is the
one the case expects.

### ReplayMachine, TraceHistory

The debugger needs the same scheduler as a function, because replay has to arrive
at the same state. `Prepare`, `SchedulerStep`, `StepInstruction` and
`StepWorldTick` return the next state and whether the step failed. Programs are
short sequences over five instructions; "inc" changes a shared device field, so
that the order in which programs ran shows in the state. Sleeping for more than
one tick, Lua programs and failing hooks are left to `WorldScheduler`.

A history is a record of `records`, `checkpoints`, `cursor` and `next`. Both
deques are sets ordered by sequence number. The hash of a state is the state:
collisions are not modelled. `Record` is the whole of `record`: forget the
abandoned future, append, checkpoint, cut back to the ring's length, cut back to
the memory ceiling. The code's loop over the ceiling drops through the second
checkpoint again and again; `Trimmed` names the checkpoint it ends at. `Restore`
returns the state the simulator and the journal are left in and whether the replay verified.
The effect journal is the set of writes, with the values before and after, that an
operation makes (`Wrote`); a record takes what is pending, and `Verified` compares outcome,
writes and hash as `restore` does, in that order, with the simulator already changed.

### DebugSession

`running`, `single`, `focus`, `lastStop` and `skip` are the adapter's fields; `pending` is the part of
the simulator's journal that no record has taken; `event` is the stop the runner has decided on and
not yet written; `view` is what the client believes; `paused` and `carried` are history variables,
the latter true in a history that a hot reload began with writes pending. Each lock section is an action: `RunnerFinished`, `RunnerTickOver`, `RunnerBreak` and
`RunnerStep` for the runner, then `EmitEvent` outside the lock, and one action for each request. The
constant `Sessions` is a set of request sets; a behaviour keeps to one of them (`requests`). A
request that is answered with an error has `reply = "refused"` and still has the effects the code
had until then. `ClientIsStopped` is the assumption that the client offers continue, the steps,
reverse requests and goto only while it shows a stopped session.

### RelayAuthority

A call is one invocation of `SubmitAsync`; a retry is another call with the same
key. `answer[c]` is its response and, for an accepted call, the completion of its
task. Lock sections are actions; so is what a worker does between two of them
(`ProcessStart`, `ExecutorReturn`). The checks of `SubmitAsync` are `Verdict`, in
their order. `Audit` offers the sink one record with the code of the answer (`offered`); for the
calls in `Unrecorded` the sink may throw, which the code swallows, and then nothing is kept
(`audited`). The trim loops are `Trims(done, n, limit)`: n rounds were taken.
`Dispose` is four steps, between which anything may happen; `DisposeEnd` also
covers the wait that times out. The world outside changes with `Cancel`, `Expire`
and `SetDenied`.

## 3. Runs

| Run | Instance | Properties |
| --- | --- | --- |
| `sched_headless` | 2 IC10s and a Lua program, quota 2, programs of 2 lines, ticks up to 3, failing `tick_end`, fair | `QuotaBatched`, `TickEndsWhenDone`, `SleepHonoured`, `PeekIsExact`, `TickProgress` |
| `sched_debugger` | an IC10 and a Lua program, hand steps up to 3 operations a tick, both hooks failing | `StoppedForGood` |
| `sched_lua_fault` | a Lua program that raises an error, fair | violates `FaultedSlotYields` |
| `toolchain` | some five thousand programs of up to 7 lines, every build level, a sensor that changes, runs of 5 operations; aliases of defines and beginnings of names among them | `ToolTypeOK`, `UnreachableNeverRuns`, `TickWithinEstimate`, `DiagnosticsAgree`, `ArtifactLoads`, `ArtifactRunsAsSource` |
| `language_server` | 2 documents, a scenario with 2 housings, 2 handlers at once, 2 edits, 2 scenario changes; fair | `IndexAgrees`, `SettledView`, `SettledTextUnlessRaced`, `EveryHandlerEnds` |
| `material_handling` | 3 vending machines, a valve, an outlet, 4 items, 2 scheduled actions, 3 ticks | `ItemsConserved`, `CountersAgree`, `ActionsKept`, `ItemsMoveForward`, `RequestsCleared` |
| `lua_sandbox` | 3 modules that may require each other, of which 2 can be loaded, depth 5, one hook, one line of output, one write by others, 2 ticks | `TypeOK`, `RequireExact`, `DepthCovers`, `AllOrNothing` |
| `scenario_test` | 14 test cases (a schedule inside a schedule and a `moveSlot` among them) under 3 command-line ceilings, programs that do anything, journalled and not; fair | `PassedIsSound`, `EveryWriteAnswered`, `NothingOverdue`, `EveryCaseEnds` |
| `dap_history` | 2 programs, ring of 3 events, checkpoint every 2, memory for about 5 objects, 5 events; a running session that is edited, one that is hot-reloaded, and a hand-stepped one | `HistorySound`, `EveryEventReachable`, `NavigationLands`, `RefusedLeavesWorld` |
| `dap_breakpoints` | 2 breakpoints, a failing program, single-thread continue, goto, hcf filter, 5 events | `NeverSilent`, `BreakpointsHonoured` |
| `relay_authority` | 4 calls, 3 keys, cache 2, queue 2 (1 a player), 2 workers, an audit sink that throws for one call | `BooksExact`, `NoOverlappingExecution`, `RefusedNeverStarted`, `AnsweredIsAudited` |
| `relay_answers` | a call, a retry, a conflict, a second player; fair | `EventuallyAnswered` |

**What the runs show.** The scheduler batches quotas exactly: slots run in order,
each to the end of its turn, nobody wakes early, a peek promises what the next step
does, and every tick ends. What the editor says of a program is true of every run of
it, and an artifact does what its source does, but for the line number its housing shows. A language server at rest shows what
is in force, whatever crossed before. Items, requests and scheduled actions are
accounted for tick by tick, behind failing actions too. A Lua program can neither
evade a limit nor leave half an invocation in the world. A test that is reported as
passed has been checked as its file says, drivers answer every journalled write once,
and every case ends. The history stays anchored and within its limits through every mixture of
running or stepping with editing and navigating, and every event it retains gives back
its state, except behind a hot reload that finds writes pending (section 5). No breakpoint is run over by interleaving the runner with requests. The
relay never evicts a key in flight, never executes one key twice at once, never
executes a call it has answered as refused or abandoned, offers the audit sink exactly
the record of the answer before it answers, and answers every call it has accepted even when it is disposed of.

**What the violation shows.** `sched_lua_fault`: after a Lua error the slot still
counts as ready, so the scheduler returns the same error for ever and no later program
runs.

**Bounds.** `MaxTick`, `MaxSequence`, `MaxManual`, `MaxSteps`, `MaxEdits`,
`MaxVersion`, `MaxActions` and `MaxWrites` cap what would grow for ever; a world stops
at its last tick and a session at its last event, which is why these runs do not ask
for absence of deadlock. Three ticks are enough for a program to sleep two ticks and be
woken; a quota of 2 over programs of 2 lines has turns that end by quota, by yield, by
halting, by error and by running off the end. Programs of three and four lines over
alphabets of jumps, loops, stack operations, declarations and device accesses, with
longer ones for the rest, reach every rule of the analysis and the builder, calls that
return and branches over dropped lines among them. Two edits and two scenario changes
let a document change while a refresh holds it, move a program between housings and
be overtaken. Two modules that require each other, a depth of 5 and every other limit at
its smallest value let each limit be hit inside a module, inside a caught error and
after one. Five events in a ring of 3 with a checkpoint every 2 evict and branch off
behind, at and before an eviction. Three keys for a cache of two, with a queue of two,
and in the other relay run a key sent again with another payload, reach every verdict of
`SubmitAsync` and an eviction between a call and its retry. The workers of
`relay_authority` are interchangeable, hence its symmetry set; no run with a liveness
property uses one.

**Fairness.** `sched_headless` and `sched_lua_fault` assume that `scheduler_step` goes
on being called: `step_world_tick` and the runner loop do so until the tick changes.
`TickProgress` allows for hooks that fail for ever and for a Lua program that has failed.
`scenario_test` assumes only that the one sequential loop of `run_scenario_case` goes on.
`language_server` assumes that a handler that waits for the client is resumed, that is,
that the client reads what it is sent (tower-lsp's transport is external).
`relay_answers` assumes that the thread pool resumes awaiting tasks, that `Dispose`,
once begun, goes on, and that the executor returns, which the service itself does not
enforce. No fairness is assumed of users, programs, callers, cancellation or disposal.

## 4. Proofs

`WorldSchedulerProofs` proves for every number of slots, every choice of Lua slots,
every quota, program length and set of sleeps:

* `TypeCorrect`: `Spec => []TypeOK`, hand steps and failing hooks included.
* `QuotaBatching`: `HeadlessSpec => []QuotaBatched`.
* `TickEnds`: `HeadlessSpec => TickEndsWhenDone`, when `tick_start` hooks do not fail.
* `SleepIsHonoured`: `HeadlessSpec => SleepHonoured`.
* `PeekStaysExact`: `HeadlessSpec => PeekIsExact`.
* `StoppedStaysStopped`: `Spec => StoppedForGood`, hand steps and failing hooks included.

`QuotaBatching`, `TickEnds` and `SleepIsHonoured` assume `NoWrap`: no sleep reaches past the
largest tick. The inductive invariant `QuotaInv` is `TypeOK`, `tick <= MaxTick` and the three
parts of quota batching together. None of them is inductive alone: that a slot passed over
cannot step again needs the quota and the wake tick of a sleeper, that a slot
ahead is fresh needs the counters reset behind a cursor at the end, and the quota
needs both. `WalkFact` and `WalkDone` say what the walk of
`prepare_next_adapter` leaves behind; then there is one lemma for each kind of step.
Sleeping needs `SleepInv`: the wake tick of a sleeper is the tick it asked for, and a ready
program has slept long enough. The peek needs `PeekInv`: the slot reported is the one under
the cursor and still able to run, so that the walk to it passes over nothing
(`NothingPassed`).

`Ic10ToolchainProofs` proves three things the editor says of a program, for every program, every
processor and every world, as long as the program is run as it stands or built at the level `none`:
a line reported as unreachable is not executed (`UnreachableSourceNeverRuns`), no tick takes more
operations than the budget shown (`SourceTicksWithinEstimate`), and the diagnostics agree with the
run (`SourceDiagnosticsAgree`, below). The assumptions are those of the modules: programs are
sequences of lines whose operands are tokens. Analysis and simulator resolve names by chains of
their own, the one through its symbols, the other through aliases and then defines. `TablesAgree`
shows that without duplicate declarations the tables hold the same, `HopsEnough` and `ChainPassed`
that the analysis passes wherever the simulator's chain ends, cut off by its limit of hops (any
`MaximumHops`, 32 in the code) or not, and `RegisterAgrees` and `NumberAgrees` that a register or a
number found there is the one the analysis finds. `ReachClosed` shows that as many rounds as the
program has lines make the search complete, by counting what it has found. So a branch that is taken
leads along an edge (`BranchAgrees`), an operation that does not branch leads to the next line
(`ExecuteLeaves`, one lemma for each class of operations), and the lines without an operation in
between are edges too (`FallsToOperation`). The inductive invariant `ReachInv` says that a run is at
a reachable operation or at the end, and also which program is being run. For the budget, `TickInv`
adds that the operations of this tick are the count that `estimate_operations` has in front of the
line the run is at; the lemmas `CountsGrow` and `CountsFlat` say that its maximum never falls and
that lines without operations do not count. Recursive functions are unfolded by `SteppedExists`: a
function that takes n steps exists, so the one chosen by the definition is one.

`SourceDiagnosticsAgree` is about every program that `Fitting` admits: no duplicates, operands of
the kind their place calls for, defines that come to numbers, no more aliases or defines than the
simulator follows, fields written by name. What happens without each of these is in section 5. The
proof has three parts. *Operands*: `AliasAgrees` and `DefineAgrees` show that under `Fitting` both
readers of a name end at the same register, device or number, so that every operand of a line has a
value when the line runs (`LineFits`, `OperandRuns`). *Accesses*: for each group of accesses a lemma
follows `Execute` and `ContextCodes` side by side and says that the one fails where the other gives
a code (`BatchStoreRuns`, `FieldAgrees`, `SlotAgrees`, `MemoryAgrees`, together `AccessAgrees`). A
slot that the editor knows must still exist when it is used: `WorldKeeps` shows that no operation
adds or removes a slot of a device. *Stack*: `ScansAre` says what the scan holds at each line,
`ScansGrow` that a fault it has found stays in the diagnostics, and `PointerStep` that in the entry
block the scan's pointer is the register `sp` after each operation, whatever the operation is, as
long as no line executed touches `sp` in a way the scan does not follow. The inductive invariant
`DiagInv`, next to `ReachInv`, is that link between the scan and the register, the shape of the
world, and the agreements for the last operation.

`LanguageServerProofs` proves, for any documents, scenarios, housings, contents and any
number of handlers: `TypeCorrect`, `IndexCorrect`, `ViewSettles` and `TextSettles`. What
holds at rest is not inductive, because nothing of it holds while handlers are under way.
The invariant `Inv` says instead what is promised: `TaskShape` (what a task at each stage
holds), `ContextPromised` (a document whose diagnostics are not those in force is among
those some handler still has to do), `StatusPromised` (the same of the status, a handler
about to send it counting as well) and `TextPromised` (a document that no refresh has raced
holds the last text, and so does every copy of it). A handler keeps its promises one
document at a time; a notification that changes what is in force makes new ones for every
open document.

`MaterialHandlingProofs` proves, for any devices, networks, prefabs, programs and plans:
`TypeCorrect`, `ItemsAreConserved`, `ItemsGoForward`, `RequestsAreCleared`, `ActionsAreKept` and
`CountersDoAgree`. `ItemsConserved` is inductive with the types, by what a transfer from an occupied
to a free slot leaves (`MoveConserves`). Requests need `VisitedServed`: behind the cursor of
`tick_end` no request is left. Actions need `ActionsInv`: sequence numbers are distinct and below
the counter (`ActionsSound`), the sets that `Cardinality` counts are finite, and lateness is bounded
also between two iterations of `tick_start` (`LatenessBounded`), where the foremost action is the
least under the code's key order; that a least one exists follows from well-foundedness of the
naturals. `CountersDoAgree` assumes `CountersLeftAlone`, which the instance is checked to satisfy:
only the hooks write `ExportCount` of a vending machine and `Quantity` of a valve, and valves start
empty. Its invariant `CountersInv` adds that no waiting action writes a counter and that a valve
uses no slot but its transit slot, without which one item more and one shown do not go together.

`LuaSandboxProofs` proves, for any module names, files, sizes and limits and any program:
`TypeCorrect`, `RequireIsExact`, `DepthIsCovered` and `InvocationsAtomic`. The invariant `Inv`
ties the runtime's sets and counters to the stack of the coroutine. `Coroutine`: the stack has
the entry script at its bottom and no module twice, the names being loaded are exactly the
modules on it, and the call events its frames have had are at most `depth`. `Modules`: what is
loaded has completed once and is not being loaded. An error unwinds the stack to a guard and
must leave all of this true at once; the lemmas on stacks say what a prefix of a stack holds.
The limits are assumed to be positive where the code's defaults are, and the files a name may
stand for to be finitely many.

`DebugSessionProofs` proves, for any number of processors, programs, breakpoints, limits of the
history and session: `HistoryStaysSound` and `NavigationIsExact`, and under the conditions below
`ClientIsTold`, `NoBreakpointIsRunOver`, `EveryEventIsReachable` and `RefusalLeavesWorld`. The
operators are proved first. That the loops of the code end, and that replay computes anything at
all, is a statement about recursive functions: `IteratesExist` shows that such a function exists,
from the least argument at which it would not. On it rest `PrepareIs`, `StepWorldTickIs`,
`CaughtUpIs`, `ReplayedIs` and `RestoreIs`, which says that a restore that is verified ends in the
state recorded at its target. The invariant of the history is `Ring(h, b)`: the records from the
oldest checkpoint b on are complete and coherent, the cursor and the checkpoints lie within them,
and an edit from outside has a checkpoint of its own. `RebranchedIs`, `AppendedIs`, `EvictedIs` and
`TrimmedIs` carry it through the parts of `record`, in the middle of which it holds without the
limits; `RecordIs` and `CheckpointCurrentIs` put them together. `NavigationIsExact` then needs the
record and the checkpoint at one sequence number to agree, which `Coherent` says. `ClientIsTold`
assumes the exception filter on and no session that navigates to an event by number (that request
can be refused after it has stopped a running session). `NoBreakpointIsRunOver` assumes no data
breakpoint and none of the requests that may fail halfway; its invariant `Stopping` says that the
location a continue skips is one where the session stood still and from which its processor has not
moved. `dap_breakpoints` meets these conditions as its sessions do.

`EveryEventIsReachable` (`Spec => []EveryEventReachable`) and `RefusalLeavesWorld` (`Spec =>
RefusedLeavesWorld`) go further: a navigation does not only land well when it succeeds, it succeeds,
so that restore, which replays in the live simulator, is never refused with the simulator half-way.
They assume that the sessions are `Replayable`, as both sessions of `dap_history` are: no `goto`; a
session with `continue` has no other way of stepping and no breakpoints; and where the client steps
by world ticks no program has an instruction that fails. What happens without each of these is in
section 5. Pausing, editing, navigating, reloading and restarting are free, and so are the programs,
the limits and the point at which the history is cut. Both properties except the histories that a hot
reload began with writes pending (`carried`), because in these an event really cannot be returned to.
The inductive invariant `LinkedUnlessCarried` is `Replayable`, `Modes` (which thread runs) and, unless
`carried`, `Linkage`. Its part `Linked` says that every record but an external change is replayed, and
verified in its writes as well as in its hash, from the state of the event before it, be that a record
or a checkpoint. Cutting the history at either end keeps it
(`CutLinks`); a new record needs the simulator to be where the history says, which is the part
`Tracks`: in the very state at the cursor (`StatesAt`), or, when the scheduler runs the session, in
what peeks that ended a tick have made of it (`Peeks`), with exactly the writes of those peeks pending.
`ModesKept`, `RunnerLinks`, `RequestSettles` and `RenewLinks` are the steps of the induction; a new
history is linked when nothing is pending. Such peeks are the only thing replay repeats
without a record: `PeeksAreCaughtUp` shows that any number of them is caught up with, and
`ScheduledRetraces` that the next scheduled instruction is then the recorded one. `RestoreReaches`
puts the links together: from the last checkpoint before the target no external change has to be
replayed, because each has a checkpoint of its own, so that every record in between verifies. TLC
checks `Linkage`, with `CaughtUp` in place of `Peeks`, on the states of `dap_history` when it is
added to its invariants.

`ScenarioTestProofs` proves, for any cases that `ScenarioTest::load` accepts, any ceilings,
program and drivers: `PassedMeansPassed` (`Spec => []PassedIsSound`), `WritesAreAnswered`
(`Spec => []EveryWriteAnswered`) and `NothingIsOverdue` (`Spec => []NothingOverdue`). For the
first, the invariant `LoopInv` says
for each phase what the loop has established: everything judged so far was as asked
(`AllSeen`), an eventual assertion that has matched did so in time (`Witnessed`) and one that
has not still has time (`InTime`, strictly so once the tick has been judged), the loop stays
within its ticks, and the last tick has been judged unless an error came first (`WithinTicks`,
`FinalsJudged`). What stimuli, drivers and program write does not matter to it, so the folds
over their actions are not opened for it.

The other two are about those folds. `WritesAreAnswered` is about the writes the journal holds, for
any choice of what a program's step stores and what of it is journalled (`ProgramSteps`). Their invariant `DriversInv` adds that the pending list is
sorted by tick, that no error is set while the loop runs on, and that from the reactions of a
pump to the judgement nothing in the list is before the present tick. `LeadingIs` says what
`pump` takes from the head of the list, and `InsertIs` that a schedule leaves the list sorted
and puts nothing before the present tick; `ExecuteAllKeeps` and `StoreAllIs` carry this through
any sequence of actions or writes, and `FlattenType` and `TriggeredIs` say that what the writes
trigger is a sequence of the case's rules. The library's induction theorems cannot be used, so
the inductions are over sets of numbers, with the lemma `UpTo`, which follows from the
well-foundedness of `<`; `ExecuteUnfolds` and `StoreUnfolds` show in this way that the fold of
the community modules passes through one state after each member. TLC checks `LoopInv` and
`DriversInv` on the states of `scenario_test` when they are added to its invariants.

`RelayAuthorityProofs` proves every safety property of the relay for any number of
calls, players, keys and workers and any limits that `ValidateOptions` accepts; the
set of keys may be infinite: `RelayTypeCorrect`, `CountsAreExact`,
`CacheStaysBounded`, `EvictionIsSafe` and the three together as `BooksAreExact`,
`OneExecutionPerKey`, `RefusalIsClean` and
`AuditComesFirst`. The inductive invariant `IInv` follows an accepted call from the
queue to its answer. Until then the call is `Live`: it holds its key and has no
answer (`PendingLive`), and it is in one place only, which is the queue, the list of
`Dispose` or one worker (`OnePlace`). `EvictableExact` is not inductive without
this: `Complete` adds a key to the queue of completed keys once only because no two
places complete the same call, and an entry survives trimming only because its call
has no answer. `EntriesOwn` says that a replayed or refused call never holds a key,
so that its answer cannot make one evictable; `WorkersOrderly` and `StartedOwn` carry
what a worker has done to the answer it will give. For `AuditComesFirst` there is `Offers`: an
answered call was offered to the sink once, with the code of its answer, and of the others only one that
a worker is completing, with the result it will answer; and `Kept`: a record offered is missing only
where the sink may throw (`Unrecorded`, any set). `DropOldest` and `TrimmedCache`
say what the trim loops leave, `CompleteLive` what `Complete` does, and there is one
lemma for each action. `CountsInv` and `CacheInv` are two further inductive
invariants on top, with lemmas on how a player's share of the queue changes at
either end (`OfAppend`, `OfTail`).

Only model-checked: liveness (`TickProgress`, `FaultedSlotYields`, `EveryHandlerEnds`,
`EveryCaseEnds`, `EventuallyAnswered`), which is beyond the prover; and of the toolchain
`ToolTypeOK` (a `mod` whose divisor turns out to be zero gives NaN in the code and no integer in the
model, so that registers stay integers only in worlds like the instance's), `ArtifactLoads` and
`ArtifactRunsAsSource`, and the three properties proved above for compact and readable artifacts:
these compare what several passes over a program compute, among them folds of the community modules
and sorted sequences. TLC checks `ReachInv`, `TickInv` and `DiagInv` on the states of `toolchain`
when they are added to its invariants.

## 5. Disagreements met

Where the code does something else than its documents, or two parts read the same input
differently, the passing instances keep away from it, by an exception in the property or by
what the instance contains. Line numbers are those of this commit.

*Scheduler and Lua.* A failed Lua program keeps its slot (`sched_lua_fault`). A sleep whose
tick count saturates at 2^64 - 1 wraps the wake tick (`NoWrap`). The instruction, output and
depth counters accumulate over all invocations, although the wall time starts anew for each
(`lua.rs:726`); an error that is caught leaves the depth counter raised for good. The
coroutine library is available although adr-0001 lists it as unavailable, and
`coroutine.resume` catches limit errors. The output of an invocation that fails is never
shown. A snapshot leaves the coroutine out, so that restoring one keeps the later coroutine.

*Behaviour runtime.* `move_slot` itself does not test the receiving slot; its callers do. The
action that fails in `tick_start` is lost, and those behind it wait for the next tick.

*Debug session.* A stop recorded after a peek that ended the tick cannot be navigated to: at a
breakpoint on the first instruction of a tick, and when a paused run is continued by world ticks, by
hand steps or by one thread alone (`main.rs:1180`). `goto`, and a world tick in which an instruction
fails, change the simulator without a record. A restore that diverges leaves the simulator half-way.
`hot_reload` begins a new history and leaves the journal as it is (`main.rs:2829-2911`): after continue,
a peek that ends the tick, pause, hot reload and continue, the first record holds writes that no replay
makes, so that navigating to it is refused as "deterministic replay effects diverged" with the simulator
already overwritten (`main.rs:536, 582-611`), although `backlog/p2-01-reversible-debugging.md:28` asks
for "deterministic restore to any retained event". `navigate_history` moves the focus of the session to
the processor of the event (`main.rs:3937`), and a hot reload then stops there (`main.rs:2848`).
An error whose category the exception filters leave out stops the session without any event
(`main.rs:1147`). After a data breakpoint the next arrival at the line just executed is not stopped
at (`main.rs:1155`).

*Editor, builder, simulator.* `add r0 r0 1` marks the earlier write of `r0` as never read,
because the destination is scanned before the sources (`analysis.rs:885`). Device branches
(`bdse` and its kind) are branches to the simulator only: the analysis does not follow them,
and builds do not move their literal targets (`ic10-build/src/lib.rs:354`). A relative branch
to a label means the label's line to the analysis and a distance to the simulator. A `define` whose value
is a label is followed to the label's line by the simulator (`program.rs:123`) and to nothing by
`branch_target` (`analysis.rs:785`), so that the code behind it is greyed out and runs
(`NoDefinedLabels`). Through more than 32 aliases or defines the simulator
leaves a name unresolved (`program.rs:114`) that analysis and builder resolve. Of two
declarations of a name one reader takes the first and another the last. A `define` named like
an instruction is substituted by builds. A compact build that drops a label lets the analysis
of the artifact see value errors it did not see in the source. A declared name passes as any
operand (`looks_incomplete`, `analysis.rs:441`), so that one of the wrong kind faults unannounced
(`OperandsFit`). A `define` of a register, and a chain that passes from aliases to defines and back, are
followed by the analysis and not by the simulator (`DefinesAreNumbers`); `define d r0` and `push d`
fail as source and work as compact artifact. A compact build substitutes a define everywhere: of
`define k 1`, `alias x k`, `move r0 x`, which has no errors and runs, it makes `alias x 1`
(`ic10-build/src/lib.rs:264-288`), which `Program::compile` refuses. A name that only begins the name
of a define passes the analysis (`analysis.rs:454-465`) until a compact build drops that define. Both are
excepted by `DefinesFit` in `ArtifactLoads`. The `LineNumber` a housing shows, which
programs can read, counts the lines of the artifact and not of the source (`simulator.rs:919-921`);
`LinesAreNotData` keeps programs that use it, or `ra` or a label as a number, out of the refinement. The straight-line scan takes
any integer moved to `sp` (`analysis.rs:956`): after `move sp -1` a `push`, after `move sp 600` a `pop`
or `peek`, faults without a diagnostic; a register used through another (`rr0`), which may be `sp`, is
not followed at all (`TouchesPointer`). `get db` is reported as out of
range, though it reads the stack of the IC (`context.rs:574`).

*Language server.* A document that changes while a refresh holds a copy of its text is
analysed from the older text, and stays so until its next change (`main.rs:264`). With a
single context, deselecting it has no effect.

*Relay.* An exception of the audit sink is swallowed and the call answered
(`RelayAuthorityService.cs:392-409`), so that a mutation may be answered, and carried out, with no
record, although `backlog/p3-07-authoritative-multiplayer-relay.md:125` asks that "Every attempted
write has a sanitized audit record".

*Test runner.* A command-line tick ceiling below the case's `maxTicks` skips the final-state
assertions (`runner.rs:816`), although an assertion without `atTick` "checks final state"
(`docs/scenario-testing.md:85`). So does the error a case expects, when it leaves the world at the
last tick before that tick has been judged: a driver that fails in the pump after the last step
(`runner.rs:759`), or a `tick_start` hook that fails after the tick has moved on. Assertions
`atTick` and timeline entries after the tick in which the program finishes are skipped. A parameter
row that does not deserialise is dropped silently (`runner.rs:326`). When operations run out within
a tick, stimuli of that tick are applied again at the next pass (`runner.rs:691`). A rule
"fires when that target's numeric value changes" (`docs/scenario-testing.md:204`); the code fires it at
every matching write in the journal, also of an unchanged value, and never at a write of a Lua program,
whose journal is its own and switched off (`lua.rs:143, 191-200`, `simulator.rs:1621-1635`), nor at
`LineNumber` and `Error`, which are set past the journal (`simulator.rs:919-921, 947-949`). When a due action fails, the ones drained
with it are lost. Wall time is looked at between ticks only.

## 6. Not modelled

Floating-point arithmetic; the constants of the language data (`pi`); tokenizing, formatting and positions; completion, hover and
environment proposals; JSON validation; hash collisions; test plans, Lua threads, conditional
and log breakpoints inside a debug session; the resumption of a Lua coroutine of the program's
own after it has yielded; the command line, file watching and reports of the runner; payloads,
response sizes and message texts of the relay; the VS Code extension's views; the game mod,
whose host loop and network are the game's. `PROJECT.json` lists every component with the
reason.

## 7. What could follow

1. **Live bridge** (`liveExplorer.ts`, `RemoteAuthorityRelay.cs`,
   `RelayResponseCorrelator`): polling, versioned pushes, timeouts with late
   answers; composed with `RelayAuthority`, and an abstract at-most-once write
   service that the composition implements.
2. **Test plans inside a debug session**, where stepping back applies stimuli again:
   `ScenarioTest` composed with `DebugSession`.
3. **Proofs**: the builder, from the operators of `Ic10Build`; that the deterministic
   scheduler of `ReplayMachine` implements `WorldScheduler`.
