--------------------------- MODULE WorldScheduler ---------------------------
(***************************************************************************)
(* The deterministic world scheduler of ic10-sim: one slot per attached    *)
(* program, in the order the scenario declares its devices, each slot      *)
(* bound to an IC10 or to a Lua adapter (vm.rs).  The scheduler gives a    *)
(* slot its whole instruction quota, then the next one, and after the last *)
(* slot runs the behaviour hooks and begins the next world tick            *)
(* (simulator.rs, scheduler_step and advance_tick).                        *)
(*                                                                         *)
(* Data is abstracted to what scheduling depends on: an IC10 instruction   *)
(* is one of the outcomes execute_operation can have on the program        *)
(* counter and the run state; what it computes is left out.                *)
(***************************************************************************)
EXTENDS Integers, FiniteSets

CONSTANTS
    NumSlots,        \* schedule.len(): attached programs
    Lua,             \* the slots bound to a Lua adapter; the others are IC10
    Budget,          \* maximum_instructions_per_tick of an IC10
    ProgramLines,    \* operations of an IC10 program, at lines 0 .. ProgramLines - 1
    Sleeps,          \* the tick counts a sleep instruction may ask for
    TickSpan,        \* number of values of a tick (2^64 in the code)
    LuaMayFault,     \* TRUE when a Lua program may raise an error
    BehaviourFaults, \* which behaviour hooks may fail: "tick_end", "tick_start"
    MaxTick,         \* bound: the last world tick the model reaches
    MaxManual        \* bound: operations in one tick after which no hand step follows

Slots == 0 .. (NumSlots - 1)

ASSUME SlotsAssumption == NumSlots \in Nat /\ Lua \subseteq Slots
ASSUME BudgetAssumption == Budget \in Nat \ {0}
ASSUME ProgramAssumption == ProgramLines \in Nat
ASSUME SleepAssumption == Sleeps \subseteq Nat \ {0}
ASSUME TickAssumption == TickSpan \in Nat \ {0} /\ MaxTick \in Nat /\ MaxTick < TickSpan
ASSUME ManualAssumption == MaxManual \in Nat
ASSUME FaultAssumption == /\ LuaMayFault \in BOOLEAN
                          /\ BehaviourFaults \subseteq {"tick_end", "tick_start"}

VARIABLES
    tick,            \* Simulator::tick
    slot,            \* Simulator::scheduler_slot; NumSlots when the tick is over
    state,           \* run state of each adapter: Ready, Waiting, Halted or Error
    wake,            \* the tick a Waiting adapter waits for
    pc,              \* program counter of each IC10
    ops,             \* operations_this_tick of each adapter
    faulted,         \* LuaProgramRuntime::faulted
    schedulerError,  \* Simulator::scheduler_error.is_some()
    due,             \* history: the tick a sleeping program asked to wake at
    peeked           \* history: the slot the last call peeked at, NumSlots for none

vars == <<tick, slot, state, wake, pc, ops, faulted, schedulerError, due, peeked>>

-----------------------------------------------------------------------------
(* VmLifecycle: what the scheduler sees of an adapter.                     *)

BudgetOf(a) == IF a \in Lua THEN 1 ELSE Budget

\* Mutant: a sleeper is woken one tick early.
RunnableAt_Early(a, t) == \/ state[a] = "Ready"
                          \/ state[a] = "Waiting" /\ wake[a] <= t + 1

RunnableAt(a, t) == \/ state[a] = "Ready"
                    \/ state[a] = "Waiting" /\ wake[a] <= t

CanStep(a) == RunnableAt(a, tick) /\ ops[a] < BudgetOf(a)

\* Mutant: a round-robin scheduler, one operation per turn.
RetainsSlot_RoundRobin(st, n, a) == FALSE

RetainsSlot(st, n, a) == st = "Ready" /\ n < BudgetOf(a)

\* A Lua adapter always reports a location; an IC10 has one while an operation
\* lies at or after its program counter.
HasLocation(a) == a \in Lua \/ pc[a] < ProgramLines

IsFinished == \A a \in Slots : state[a] \in {"Halted", "Error"}

-----------------------------------------------------------------------------
(* prepare_next_adapter.  The loop walks on from the current slot; it      *)
(* passes over a slot that cannot step, halts one that can step but has no *)
(* operation left, and stops at the first that has one.                    *)

Eligible == {a \in Slots : a >= slot /\ CanStep(a) /\ HasLocation(a)}

\* The slot the loop stops at; with no eligible slot left it runs off the end.
NextUp(a) == a \in Eligible /\ \A b \in Eligible : a <= b

\* The run states once the loop stands at slot n: ic10_halt on the way.
HaltedUpTo(n) ==
    [a \in Slots |-> IF a >= slot /\ a < n /\ CanStep(a) THEN "Halted" ELSE state[a]]

(***************************************************************************)
(* advance_tick, with st the run states it starts from.  A failing         *)
(* tick_end hook leaves the tick unchanged; a failing tick_start hook      *)
(* leaves the tick advanced with the slot still past the end and no        *)
(* operation counter reset; otherwise every adapter begins its tick.       *)
(***************************************************************************)
TickEndFails(st) ==
    /\ "tick_end" \in BehaviourFaults
    /\ slot' = NumSlots
    /\ state' = st
    /\ UNCHANGED <<tick, wake, ops>>

TickStartFails(st) ==
    /\ "tick_start" \in BehaviourFaults
    /\ tick < MaxTick
    /\ tick' = tick + 1
    /\ slot' = NumSlots
    /\ state' = st
    /\ UNCHANGED <<wake, ops>>

\* Mutant: the cursor restarts behind the first slot.
BeginTick_SkipsFirst(st) ==
    /\ tick < MaxTick
    /\ tick' = tick + 1
    /\ slot' = IF NumSlots > 1 THEN 1 ELSE 0
    /\ ops' = [a \in Slots |-> 0]
    /\ state' = [a \in Slots |->
                    IF st[a] = "Waiting" /\ wake[a] <= tick + 1 THEN "Ready" ELSE st[a]]
    /\ UNCHANGED wake

\* Mutant: beginning a tick makes every program ready.
BeginTick_WakesAll(st) ==
    /\ tick < MaxTick
    /\ tick' = tick + 1
    /\ slot' = 0
    /\ ops' = [a \in Slots |-> 0]
    /\ state' = [a \in Slots |-> "Ready"]
    /\ UNCHANGED wake

BeginTick(st) ==
    /\ tick < MaxTick
    /\ tick' = tick + 1
    /\ slot' = 0
    /\ ops' = [a \in Slots |-> 0]
    /\ state' = [a \in Slots |->
                    IF st[a] = "Waiting" /\ wake[a] <= tick + 1 THEN "Ready" ELSE st[a]]
    /\ UNCHANGED wake

AdvanceTickFails(st) == TickEndFails(st) \/ TickStartFails(st)

-----------------------------------------------------------------------------
(* execute_operation: the outcomes an instruction can have.                *)

\* Going on: at the next line, or at the line a branch names.
Branches == {[kind |-> "branch", to |-> t] : t \in 0 .. ProgramLines}

Outcomes == Branches
            \cup {[kind |-> "wait", for |-> d] : d \in Sleeps \cup {1}}
            \cup {[kind |-> "halt"], [kind |-> "fail"]}

\* A taken branch goes anywhere, past the end included; every other
\* instruction falls through, a failing one too.
PcAfter(a, o) == IF o.kind = "branch" THEN o.to ELSE pc[a] + 1

StateAfter(o) == CASE o.kind = "branch" -> "Ready"
                   [] o.kind = "wait"   -> "Waiting"
                   [] o.kind = "halt"   -> "Halted"
                   [] o.kind = "fail"   -> "Error"

\* tick + ticks in 64-bit arithmetic; a release build wraps around.
WakeAfter(d) == (tick + d) % TickSpan

\* Mutant: a taken branch is not counted as an operation.
ExecuteIc10_FreeBranches(a, o, st) ==
    /\ pc' = [pc EXCEPT ![a] = PcAfter(a, o)]
    /\ state' = [st EXCEPT ![a] = StateAfter(o)]
    /\ wake' = IF o.kind = "wait" THEN [wake EXCEPT ![a] = WakeAfter(o.for)] ELSE wake
    /\ due' = [due EXCEPT ![a] = IF o.kind = "wait" THEN tick + o.for ELSE 0]
    /\ ops' = IF o.kind = "branch" THEN ops ELSE [ops EXCEPT ![a] = @ + 1]
    /\ UNCHANGED <<tick, faulted, schedulerError>>

\* step_instruction on an IC10 that has an operation; st are the run states
\* it starts from.
ExecuteIc10(a, o, st) ==
    /\ pc' = [pc EXCEPT ![a] = PcAfter(a, o)]
    /\ state' = [st EXCEPT ![a] = StateAfter(o)]
    /\ wake' = IF o.kind = "wait" THEN [wake EXCEPT ![a] = WakeAfter(o.for)] ELSE wake
    /\ due' = [due EXCEPT ![a] = IF o.kind = "wait" THEN tick + o.for ELSE 0]
    /\ ops' = [ops EXCEPT ![a] = @ + 1]
    /\ UNCHANGED <<tick, faulted, schedulerError>>

\* LuaProgramRuntime::step when the coroutine returns or yields.
ExecuteLua(a, st) ==
    /\ state' = [st EXCEPT ![a] = "Waiting"]
    /\ wake' = [wake EXCEPT ![a] = tick + 1]
    /\ due' = [due EXCEPT ![a] = tick + 1]
    /\ ops' = [ops EXCEPT ![a] = 1]
    /\ UNCHANGED <<tick, pc, faulted, schedulerError>>

\* LuaProgramRuntime::step when the coroutine raises an error: the fault is
\* noted, the run state and the operation count are left as they were.
FaultLua(a, st) ==
    /\ faulted' = [faulted EXCEPT ![a] = TRUE]
    /\ state' = st
    /\ UNCHANGED <<tick, wake, pc, ops, schedulerError, due>>

-----------------------------------------------------------------------------
(* The operations the simulator offers.                                    *)

Init ==
    /\ tick = 0
    /\ slot = 0
    /\ state \in [Slots -> {"Ready", "Halted"}]   \* an IC that is switched off is Halted
    /\ \A a \in Lua : state[a] = "Ready"
    /\ wake = [a \in Slots |-> 0]
    /\ pc = [a \in Slots |-> 0]
    /\ ops = [a \in Slots |-> 0]
    /\ faulted = [a \in Slots |-> FALSE]
    /\ schedulerError = FALSE
    /\ due = [a \in Slots |-> 0]
    /\ peeked = NumSlots

\* scheduler_step returns the error next_scheduled_location put aside.
TakeSchedulerError ==
    /\ schedulerError
    /\ schedulerError' = FALSE
    /\ peeked' = NumSlots
    /\ UNCHANGED <<tick, slot, state, wake, pc, ops, faulted, due>>

\* scheduler_step when every remaining slot gives up its turn.
EndOfTick ==
    /\ ~schedulerError
    /\ Eligible = {}
    /\ BeginTick(HaltedUpTo(NumSlots)) \/ AdvanceTickFails(HaltedUpTo(NumSlots))
    /\ peeked' = NumSlots
    /\ UNCHANGED <<pc, faulted, schedulerError, due>>

\* scheduler_step on an IC10: an instruction that fails leaves the cursor
\* where it is, the next call passes over the CPU in state Error.
StepIc10(a, o) ==
    /\ ~schedulerError
    /\ NextUp(a)
    /\ ExecuteIc10(a, o, HaltedUpTo(a))
    /\ slot' = IF o.kind = "fail" \/ RetainsSlot(state'[a], ops'[a], a) THEN a ELSE a + 1
    /\ peeked' = NumSlots

\* scheduler_step on a Lua program.  A coroutine that raised an error is dead
\* and raises again each time it is resumed.
StepLua(a) ==
    /\ ~schedulerError
    /\ NextUp(a)
    /\ \/ /\ ~faulted[a]
          /\ ExecuteLua(a, HaltedUpTo(a))
          /\ slot' = a + 1
       \/ /\ LuaMayFault \/ faulted[a]
          /\ FaultLua(a, HaltedUpTo(a))
          /\ slot' = a
    /\ peeked' = NumSlots

SchedulerStep ==
    \/ TakeSchedulerError
    \/ EndOfTick
    \/ \E a \in Slots \ Lua, o \in Outcomes : StepIc10(a, o)
    \/ \E a \in Lua : StepLua(a)

\* Mutant: the slot is reported before the ones that cannot step are passed over.
PeekLocation_Stale(a) ==
    /\ NextUp(a)
    /\ state' = HaltedUpTo(a)
    /\ slot' = a
    /\ peeked' = slot
    /\ UNCHANGED <<tick, wake, pc, ops, faulted, schedulerError, due>>

\* next_scheduled_location finds the slot that runs next ...
PeekLocation(a) ==
    /\ NextUp(a)
    /\ state' = HaltedUpTo(a)
    /\ slot' = a
    /\ peeked' = a
    /\ UNCHANGED <<tick, wake, pc, ops, faulted, schedulerError, due>>

\* ... or finds none, and has then begun the next tick or failed to.
PeekEndOfTick ==
    /\ Eligible = {}
    /\ \/ BeginTick(HaltedUpTo(NumSlots)) /\ UNCHANGED schedulerError
       \/ AdvanceTickFails(HaltedUpTo(NumSlots)) /\ schedulerError' = TRUE
    /\ peeked' = NumSlots
    /\ UNCHANGED <<pc, faulted, due>>

Peek == (\E a \in Slots : PeekLocation(a)) \/ PeekEndOfTick

\* step_instruction, called by the debugger for the selected IC10: neither the
\* quota nor a sleep holds it back, and the cursor does not move.
StepInstruction(a, o) ==
    /\ state[a] \in {"Ready", "Waiting"}
    /\ HasLocation(a)
    /\ ops[a] < MaxManual
    /\ ExecuteIc10(a, o, state)
    /\ peeked' = NumSlots
    /\ UNCHANGED slot

\* step_instruction on an IC10 whose program has no operation left.
StepPastEnd(a) ==
    /\ state[a] \in {"Ready", "Waiting"}
    /\ ~HasLocation(a)
    /\ state' = [state EXCEPT ![a] = "Halted"]
    /\ peeked' = NumSlots
    /\ UNCHANGED <<tick, slot, wake, pc, ops, faulted, schedulerError, due>>

DebuggerStep == \E a \in Slots \ Lua : \/ StepPastEnd(a)
                                       \/ \E o \in Outcomes : StepInstruction(a, o)

\* A world driven by the scheduler alone, as the test runner drives it.
HeadlessNext == SchedulerStep \/ Peek

\* A world that a debugger also steps by hand.
Next == HeadlessNext \/ DebuggerStep

HeadlessSpec == Init /\ [][HeadlessNext]_vars

Spec == Init /\ [][Next]_vars

\* step_world_tick and the debugger's run loop call scheduler_step until the
\* tick they wait for is over.
FairSpec == HeadlessSpec /\ WF_vars(SchedulerStep)

-----------------------------------------------------------------------------
(* Properties.                                                             *)

RunStates == {"Ready", "Waiting", "Halted", "Error"}

\* Type invariant of the scheduler's state.
TypeOK ==
    /\ tick \in Nat
    /\ slot \in 0 .. NumSlots
    /\ state \in [Slots -> RunStates]
    /\ wake \in [Slots -> Nat]
    /\ pc \in [Slots -> 0 .. ProgramLines]
    /\ ops \in [Slots -> Nat]
    /\ faulted \in [Slots -> BOOLEAN]
    /\ schedulerError \in BOOLEAN
    /\ due \in [Slots -> Nat]
    /\ peeked \in 0 .. NumSlots

\* Quota batching, seen from the cursor: no slot behind the cursor has executed
\* anything in this tick, so an earlier slot's writes are visible to the later
\* ones and never the other way round (scheduler_step, set_scheduler_slot).
LaterSlotsFresh == slot < NumSlots => \A b \in Slots : b > slot => ops[b] = 0

\* Quota batching, seen from the slots passed over: none of them could still
\* step in this tick (can_step and retains_slot agree).  Only a failed tick_start
\* hook breaks this, once the cursor is past the last slot: the tick it began is
\* left with no program running.
PassedSlotsDone ==
    (slot < NumSlots \/ "tick_start" \notin BehaviourFaults) =>
        \A b \in Slots : b < slot => ~CanStep(b)

\* The scheduler never lets an adapter exceed its quota for a tick, the Lua
\* adapter's quota of one invocation included.
QuotaHeld == \A a \in Slots : ops[a] <= (IF a \in Lua THEN 1 ELSE Budget)

\* Quota batching as the scheduler keeps it in every state: nobody runs before
\* its turn, nobody is passed over before the end of it, and nobody runs beyond
\* its quota (scheduler_step, prepare_next_adapter, can_step, retains_slot).
QuotaBatched == LaterSlotsFresh /\ PassedSlotsDone /\ QuotaHeld

\* The world tick moves on only when no program could still run in the old one:
\* a yielding, sleeping, failing or looping program costs nobody else its turn.
TickEndsWhenDone ==
    [][tick' # tick => \A a \in Slots : ~(CanStep(a) /\ HasLocation(a))]_vars

\* A program executes only at or after the tick its last sleep or yield named.
SleepHonoured == [][\A a \in Slots : ops'[a] > ops[a] => due[a] <= tick]_vars

\* The location next_scheduled_location reports is the one the next
\* scheduler_step executes: the debugger tests breakpoints on the first and
\* runs the second, and nothing else changes in between.
PeekIsExact ==
    [][peeked # NumSlots =>
          /\ tick' = tick
          /\ \A b \in Slots \ {peeked} : /\ state'[b] = state[b]
                                          /\ pc'[b] = pc[b]
                                          /\ ops'[b] = ops[b]]_vars

\* A program in state Halted or Error stays as it is: neither the scheduler nor
\* a hand step revives it, resets its error or moves its program counter.
StoppedForGood ==
    [][\A a \in Slots : state[a] \in {"Halted", "Error"} =>
          state'[a] = state[a] /\ pc'[a] = pc[a] /\ ops'[a] <= ops[a]]_vars

\* A behaviour hook fails, and with it the end of a tick.
HookFails == Eligible = {} /\ AdvanceTickFails(HaltedUpTo(NumSlots))

\* Every world tick ends, whatever the IC10 programs do, unless a Lua program
\* fails or the hooks fail for ever: loops run into the quota, failing or
\* finished programs are passed over, and a failed hook is tried again.
TickProgress ==
    []<><<HookFails>>_vars \/ <>(tick = MaxTick \/ \E a \in Lua : faulted[a])

\* A slot whose program failed gives its turn to the next one (adr-0002: waiting,
\* halted, faulted or quota-exhausted slots yield to the next slot).
FaultedSlotYields ==
    \A a \in Slots :
        (slot = a /\ tick < MaxTick /\ (state[a] = "Error" \/ faulted[a])) ~> slot # a
=============================================================================
