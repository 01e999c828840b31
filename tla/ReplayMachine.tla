--------------------------- MODULE ReplayMachine ---------------------------
(***************************************************************************)
(* The simulator as the debug adapter uses it: a deterministic machine     *)
(* whose whole state is one value, so that it can be snapshotted, hashed   *)
(* and restored (simulator.rs: snapshot, restore, state_hash).  Every      *)
(* operation is a function from state to state; WorldScheduler models the  *)
(* same scheduler with all its outcomes left open.                         *)
(*                                                                         *)
(* An IC10 program is a sequence of instructions: "inc" adds one to a      *)
(* shared device field (so the order of the CPUs shows in the state),      *)
(* "yield" waits for the next tick, "jump" goes back to the first line,    *)
(* "hcf" halts and "fail" raises an error.                                 *)
(***************************************************************************)
EXTENDS Integers, Sequences, FiniteSets

CONSTANTS
    Programs,   \* Programs[c]: the instructions of CPU c
    Budget,     \* maximum_instructions_per_tick
    FieldSpan   \* number of values of the shared device field

Cpus == DOMAIN Programs

ASSUME ProgramsAssumption == Programs \in Seq(Seq({"inc", "yield", "jump", "hcf", "fail"}))
ASSUME MachineAssumption == Budget \in Nat \ {0} /\ FieldSpan \in Nat \ {0}

NoCpu == 0
PastEnd == Len(Programs) + 1

\* The simulator as the scenario loads it.
InitSim == [tick  |-> 0,
            slot  |-> 1,
            pc    |-> [c \in Cpus |-> 1],
            run   |-> [c \in Cpus |-> "Ready"],
            ops   |-> [c \in Cpus |-> 0],
            field |-> 0]

Located(s, c) == s.pc[c] <= Len(Programs[c])

CanStep(s, c) == s.run[c] = "Ready" /\ s.ops[c] < Budget

IsFinished(s) == \A c \in Cpus : s.run[c] \in {"Halted", "Error"}

-----------------------------------------------------------------------------
(* prepare_next_adapter and advance_tick.                                  *)

Eligible(s) == {c \in Cpus : c >= s.slot /\ CanStep(s, c) /\ Located(s, c)}

\* The cursor moved to slot n, over CPUs that cannot step (left alone) or that
\* have no instruction left (halted).
PassedTo(s, n) ==
    [s EXCEPT !.slot = n,
              !.run = [c \in Cpus |-> IF c >= s.slot /\ c < n /\ CanStep(s, c)
                                      THEN "Halted" ELSE s.run[c]]]

AdvanceTick(s) ==
    [s EXCEPT !.tick = @ + 1,
              !.slot = 1,
              !.ops = [c \in Cpus |-> 0],
              !.run = [c \in Cpus |-> IF s.run[c] = "Waiting" THEN "Ready" ELSE s.run[c]]]

\* The CPU that runs next, NoCpu when the tick is over, and the state in which
\* finding it out leaves the simulator: next_scheduled_location.
Prepare(s) ==
    IF Eligible(s) = {}
    THEN [cpu |-> NoCpu, sim |-> AdvanceTick(PassedTo(s, PastEnd))]
    ELSE LET c == CHOOSE c \in Eligible(s) : \A d \in Eligible(s) : c <= d
         IN  [cpu |-> c, sim |-> PassedTo(s, c)]

-----------------------------------------------------------------------------
(* Execution.                                                              *)

RunAfter(op) == CASE op \in {"inc", "jump"} -> "Ready"
                  [] op = "yield" -> "Waiting"
                  [] op = "hcf"   -> "Halted"
                  [] op = "fail"  -> "Error"

Operation(s, c) == IF Located(s, c) THEN Programs[c][s.pc[c]] ELSE "none"

\* step_instruction on a CPU that has an instruction left.
Execute(s, c) ==
    LET op == Operation(s, c)
    IN  [s EXCEPT !.pc[c] = IF op = "jump" THEN 1 ELSE @ + 1,
                  !.run[c] = RunAfter(op),
                  !.ops[c] = @ + 1,
                  !.field = IF op = "inc" THEN (@ + 1) % FieldSpan ELSE @]

\* step_instruction: CPU c alone, whatever its quota and sleep.
StepInstruction(s, c) ==
    IF s.run[c] \in {"Halted", "Error"} THEN [sim |-> s, failed |-> TRUE]
    ELSE IF ~Located(s, c) THEN [sim |-> [s EXCEPT !.run[c] = "Halted"], failed |-> FALSE]
    ELSE [sim |-> Execute(s, c), failed |-> Operation(s, c) = "fail"]

\* scheduler_step: one instruction of the CPU whose turn it is, or the end of
\* the tick.  An instruction that fails leaves the cursor where it is.
SchedulerStep(s) ==
    LET p == Prepare(s)
        e == Execute(p.sim, p.cpu)
    IN  IF p.cpu = NoCpu THEN [sim |-> p.sim, failed |-> FALSE]
        ELSE IF e.run[p.cpu] = "Error" THEN [sim |-> e, failed |-> TRUE]
        ELSE [sim |-> [e EXCEPT !.slot = IF CanStep(e, p.cpu) THEN @ ELSE @ + 1],
              failed |-> FALSE]

\* step_world_tick: scheduler_step until the tick changes or a step fails; a
\* tick has at most one step for each operation of a quota and one to end it.
StepWorldTick(s) ==
    LET StepsPerTick == Len(Programs) * Budget + 1
        after[n \in 0 .. StepsPerTick] ==
            IF n = 0 THEN [sim |-> s, failed |-> FALSE]
            ELSE LET prev == after[n - 1]
                 IN  IF prev.failed \/ prev.sim.tick # s.tick THEN prev
                     ELSE SchedulerStep(prev.sim)
    IN  after[StepsPerTick]
=============================================================================
