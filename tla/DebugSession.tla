---------------------------- MODULE DebugSession ----------------------------
(***************************************************************************)
(* A session of the debug adapter (ic10-dap, main.rs).  Two threads share  *)
(* the adapter state under one mutex: the runner, which executes one       *)
(* scheduled instruction at a time while the session runs, and the request *)
(* thread.  A critical section is one action; the runner reports a stop to *)
(* the client only after it has left its own (EmitEvent).                  *)
(*                                                                         *)
(* Test plans attached to a session, Lua threads and failing behaviours    *)
(* are left out; breakpoints are fixed and unconditional.                  *)
(***************************************************************************)
EXTENDS TraceHistory

CONSTANTS
    Sessions,        \* kinds of session: the sets of requests a client may make
    Breakpoints,     \* source breakpoints: pairs <<cpu, line>>
    DataBreakpoint,  \* TRUE: a data breakpoint watches the shared field
    ExceptionFilter, \* TRUE: the exception filters are empty or name the errors that occur
    HcfFilter,       \* TRUE: the exception filter "hcf" is set
    FocusThread,     \* the thread the session was launched for
    MaxSequence,     \* bound: the last trace event the model records
    MaxTick,         \* bound: the last world tick the model reaches
    MaxManual        \* bound: operations in one tick after which no hand step follows

ASSUME SessionAssumption ==
    /\ Breakpoints \subseteq Cpus \X Nat
    /\ {DataBreakpoint, ExceptionFilter, HcfFilter} \subseteq BOOLEAN
    /\ FocusThread \in Cpus /\ MaxSequence \in Nat
    /\ MaxTick \in Nat /\ MaxManual \in Nat

VARIABLES
    sim,       \* the simulator
    hist,      \* the history
    pending,   \* the writes in the simulator's journal that no record has taken
    running,   \* AdapterState::running
    single,    \* AdapterState::single_thread, NoCpu for none
    focus,     \* AdapterState::focus_cpu
    lastStop,  \* AdapterState::last_stop
    skip,      \* AdapterState::skip_breakpoint_once
    event,     \* the event the runner has decided on and not yet written
    view,      \* external: what the client takes the session to be
    reply,     \* outcome of the last request; "none" after a step of the runner
    requests,  \* the requests of this session
    paused,    \* history: the CPUs that have not run since the session last stood still
    carried    \* history: TRUE when a hot reload left writes pending for its new history

vars == <<sim, hist, pending, running, single, focus, lastStop, skip, event, view, reply,
          requests, paused, carried>>

NoLocation == <<NoCpu, 0>>

\* current_line as a location; a CPU past its last instruction has none.
LocationOf(s, c) == IF Located(s, c) THEN <<c, s.pc[c]>> ELSE NoLocation

\* current_line().unwrap_or_default(): the first line when there is none.
LineOf(s, c) == IF Located(s, c) THEN s.pc[c] ELSE 1

CanRecord == hist.cursor < MaxSequence

-----------------------------------------------------------------------------
(* The runner.                                                             *)

RunnerTurn == running /\ event = "none"

\* Mutant: the end of the programs is not reported.
RunnerFinished_Silent ==
    /\ RunnerTurn
    /\ IsFinished(sim)
    /\ running' = FALSE
    /\ event' = "none"
    /\ reply' = "none"
    /\ paused' = Cpus
    /\ UNCHANGED <<sim, hist, pending, single, focus, lastStop, skip, view>>

\* Every program has halted or failed.
RunnerFinished ==
    /\ RunnerTurn
    /\ IsFinished(sim)
    /\ running' = FALSE
    /\ event' = "terminated"
    /\ reply' = "none"
    /\ paused' = Cpus
    /\ UNCHANGED <<sim, hist, pending, single, focus, lastStop, skip, view>>

\* The location the runner is about to execute, and the simulator once it has
\* found that out: the scheduler is asked, unless one thread runs alone.
RunnerTarget == IF single # NoCpu THEN [cpu |-> single, sim |-> sim] ELSE Prepare(sim)

\* The peek found the tick over and began the next; nothing is recorded, and
\* what the peek wrote stays in the journal.
RunnerTickOver ==
    /\ RunnerTurn
    /\ ~IsFinished(sim)
    /\ RunnerTarget.cpu = NoCpu
    /\ sim.tick < MaxTick
    /\ sim' = RunnerTarget.sim
    /\ pending' = pending \cup Wrote(sim, sim')
    /\ reply' = "none"
    /\ UNCHANGED <<hist, running, single, focus, lastStop, skip, event, view, paused>>

\* A breakpoint stops the session before the instruction, unless it is the one
\* the session was continued from; record_stop takes nothing from the journal.
RunnerBreak ==
    LET c == RunnerTarget.cpu
        s == RunnerTarget.sim
        at == <<c, s.pc[c]>>
    IN  /\ RunnerTurn
        /\ ~IsFinished(sim)
        /\ c # NoCpu
        /\ at \in Breakpoints /\ at # skip
        /\ CanRecord
        /\ sim' = s
        /\ hist' = Record(hist, s, c, LineOf(s, c), "Stop", {}, FALSE)
        /\ pending' = pending \cup Wrote(sim, s)
        /\ running' = FALSE
        /\ lastStop' = at
        /\ event' = "stopped"
        /\ reply' = "none"
        /\ paused' = Cpus
        /\ UNCHANGED <<single, focus, skip, view>>

\* Mutant: the location continued from is never forgotten.
SkipAfter_Keeps(at) == skip

SkipAfter(at) == IF at = skip THEN NoLocation ELSE skip

\* Otherwise the instruction runs and is recorded.  An error, an explicit hcf or
\* a watched value that changed stops the session behind it; an error that the
\* exception filters leave out does so without recording or reporting the stop.
Executed(t, step) ==
    LET c == t.cpu
        at == <<c, t.sim.pc[c]>>
        told == IF step.failed THEN ExceptionFilter
                ELSE \/ Operation(t.sim, c) = "hcf" /\ HcfFilter
                     \/ DataBreakpoint /\ step.sim.field # sim.field
        effects == pending \cup Wrote(sim, t.sim) \cup Wrote(t.sim, step.sim)
        recorded == Record(hist, step.sim, c, at[2],
                           IF single # NoCpu THEN "Instruction" ELSE "Scheduled",
                           effects, step.failed)
    IN  /\ c # NoCpu
        /\ at \notin Breakpoints \/ at = skip
        /\ sim' = step.sim
        /\ hist' = IF told THEN Record(recorded, step.sim, c, LineOf(step.sim, c), "Stop", {}, FALSE)
                           ELSE recorded
        /\ pending' = {}
        /\ running' = ~(step.failed \/ told)
        /\ lastStop' = IF running' THEN lastStop ELSE at
        /\ skip' = SkipAfter(at)
        /\ event' = IF told THEN "stopped" ELSE "none"
        /\ reply' = "none"
        /\ paused' = IF running' THEN paused \ {c} ELSE Cpus
        /\ UNCHANGED <<single, focus, view>>

RunnerStep ==
    /\ RunnerTurn
    /\ ~IsFinished(sim)
    /\ CanRecord
    /\ \E t \in {RunnerTarget} :
          \E step \in {IF single # NoCpu THEN StepInstruction(sim, t.cpu)
                                         ELSE SchedulerStep(t.sim)} :
             Executed(t, step)

\* Outside the mutex the event reaches the client.
EmitEvent ==
    /\ event # "none"
    /\ view' = event
    /\ event' = "none"
    /\ reply' = "none"
    /\ UNCHANGED <<sim, hist, pending, running, single, focus, lastStop, skip, paused>>

Runner == RunnerFinished \/ RunnerTickOver \/ RunnerBreak \/ RunnerStep \/ EmitEvent

-----------------------------------------------------------------------------
(* Requests.  A refused request is answered with an error.                 *)

\* External: the client offers these only while it shows a stopped session.
ClientIsStopped == view = "stopped"

\* The session stands still and the client is told so.
Stops == running' = FALSE /\ single' = NoCpu /\ view' = "stopped" /\ paused' = Cpus

Continue(t) ==
    /\ IF t = NoCpu THEN "continue" \in requests ELSE "continueSingle" \in requests
    /\ ClientIsStopped
    /\ skip' = lastStop
    /\ lastStop' = NoLocation
    /\ single' = t
    /\ running' = TRUE
    /\ view' = "running"
    /\ reply' = "ok"
    /\ UNCHANGED <<sim, hist, pending, focus, event, paused>>

Pause ==
    /\ "pause" \in requests
    /\ view = "running"
    /\ Stops
    /\ reply' = "ok"
    /\ UNCHANGED <<sim, hist, pending, focus, lastStop, skip, event>>

\* step_instruction: an error of the instruction is recorded like a result.
StepIn(c) ==
    LET step == StepInstruction(sim, c)
    IN  /\ "stepIn" \in requests
        /\ ClientIsStopped
        /\ CanRecord
        /\ sim.ops[c] < MaxManual
        /\ sim' = step.sim
        /\ hist' = Record(hist, step.sim, c, LineOf(sim, c), "Instruction",
                          pending \cup Wrote(sim, step.sim), step.failed)
        /\ pending' = {}
        /\ lastStop' = LocationOf(step.sim, c)
        /\ Stops
        /\ reply' = "ok"
        /\ UNCHANGED <<focus, skip, event>>

\* step_tick: when an instruction fails the request ends there, with the
\* simulator in the middle of the tick, its writes pending and nothing recorded.
StepTick ==
    LET step == StepWorldTick(sim)
        effects == pending \cup Wrote(sim, step.sim)
    IN  /\ "stepTick" \in requests
        /\ ClientIsStopped
        /\ CanRecord
        /\ sim.tick < MaxTick
        /\ sim' = step.sim
        /\ running' = FALSE
        /\ single' = NoCpu
        /\ paused' = Cpus
        /\ IF step.failed
           THEN reply' = "refused" /\ pending' = effects /\ UNCHANGED <<hist, lastStop, view>>
           ELSE /\ hist' = Record(hist, step.sim, FocusThread, LineOf(sim, FocusThread),
                                  "WorldTick", effects, FALSE)
                /\ pending' = {}
                /\ lastStop' = <<FocusThread, step.sim.pc[FocusThread]>>
                /\ view' = "stopped"
                /\ reply' = "ok"
        /\ UNCHANGED <<focus, skip, event>>

\* The part that step_back, reverse_continue and navigate_history share: the
\* simulator and the journal take the state restore leaves them in, the cursor
\* moves only when the restore succeeded.
Navigated(target, c) ==
    \E r \in {Restore(hist, sim, pending, target)} :
        /\ sim' = r.sim
        /\ pending' = r.writes
        /\ running' = FALSE
        /\ paused' = Cpus
        /\ IF r.ok
           THEN /\ hist' = Moved(hist, target)
                /\ lastStop' = LocationOf(r.sim, c)
                /\ view' = "stopped"
                /\ reply' = "ok"
           ELSE reply' = "refused" /\ UNCHANGED <<hist, lastStop, view>>

\* A request refused before it does anything but stop the runner.
RefusedStopped ==
    /\ running' = FALSE
    /\ paused' = Cpus
    /\ reply' = "refused"
    /\ UNCHANGED <<sim, hist, pending, lastStop, view>>

StepBack(c) ==
    /\ "stepBack" \in requests
    /\ ClientIsStopped
    /\ IF hist.cursor = 0 THEN RefusedStopped ELSE Navigated(hist.cursor - 1, c)
    /\ single' = NoCpu
    /\ UNCHANGED <<focus, skip, event>>

\* The latest landmark before the cursor, or event 0.
ReverseTarget ==
    LET landmarks == {r.sequence : r \in {q \in hist.records : q.landmark /\ q.sequence < hist.cursor}}
    IN  IF landmarks = {} THEN 0 ELSE Greatest(landmarks)

ReverseContinue(c) ==
    /\ "reverseContinue" \in requests
    /\ ClientIsStopped
    /\ Navigated(ReverseTarget, c)
    /\ single' = NoCpu
    /\ UNCHANGED <<focus, skip, event>>

\* navigate_history: a filter picks one of the other events, or none; the
\* session's focus moves to the CPU of the event it went to.
Navigate ==
    /\ "navigate" \in requests
    /\ \/ RefusedStopped /\ UNCHANGED focus
       \/ \E r \in hist.records :
             /\ r.sequence # hist.cursor
             /\ Navigated(r.sequence, r.cpu)
             /\ focus' = IF reply' = "ok" THEN r.cpu ELSE focus
    /\ UNCHANGED <<single, skip, event>>

\* set_world_field and set_world_channel, allowed while the session runs.
SetWorld(v) ==
    /\ "setWorld" \in requests
    /\ CanRecord
    /\ sim' = [sim EXCEPT !.field = v]
    /\ hist' = Record(hist, sim', FocusThread, LineOf(sim, FocusThread), "External",
                      pending \cup Wrote(sim, sim'), FALSE)
    /\ pending' = {}
    /\ reply' = "ok"
    /\ UNCHANGED <<running, single, focus, lastStop, skip, event, view, paused>>

\* set_variable and set_state, refused while the session runs.
SetVariable(v) ==
    /\ "setVariable" \in requests
    /\ IF running THEN reply' = "refused" /\ UNCHANGED <<sim, hist, pending>>
       ELSE /\ CanRecord
            /\ sim' = [sim EXCEPT !.field = v]
            /\ hist' = CheckpointCurrent(
                  Record(hist, sim', FocusThread, LineOf(sim, FocusThread), "External",
                         pending \cup Wrote(sim, sim'), FALSE), sim')
            /\ pending' = {}
            /\ reply' = "ok"
    /\ UNCHANGED <<running, single, focus, lastStop, skip, event, view, paused>>

\* goto_location moves the program counter and records nothing.
Goto(c, line) ==
    /\ "goto" \in requests
    /\ ClientIsStopped
    /\ IF running THEN reply' = "refused" /\ UNCHANGED <<sim, lastStop, view>>
       ELSE /\ line \in DOMAIN Programs[c]
            /\ sim' = [sim EXCEPT !.pc[c] = line]
            /\ lastStop' = <<c, line>>
            /\ view' = "stopped"
            /\ reply' = "ok"
    /\ UNCHANGED <<hist, pending, running, single, focus, skip, event, paused>>

\* hot_reload with preserveState: the history starts afresh from this state,
\* while what is pending in the journal stays there for its first record.
HotReload ==
    /\ "hotReload" \in requests
    /\ IF running \/ \E c \in Cpus : ~Located(sim, c)
       THEN reply' = "refused" /\ UNCHANGED <<hist, carried, lastStop, view>>
       ELSE /\ hist' = NewHistory(sim)
            /\ carried' = (pending # {})
            /\ lastStop' = LocationOf(sim, focus)
            /\ view' = "stopped"
            /\ reply' = "ok"
    /\ UNCHANGED <<sim, pending, running, single, focus, skip, event, paused>>

\* restart launches the scenario again and stops on entry.
Restart ==
    /\ "restart" \in requests
    /\ sim' = InitSim
    /\ hist' = NewHistory(InitSim)
    /\ pending' = {}
    /\ carried' = FALSE
    /\ Stops
    /\ focus' = FocusThread
    /\ lastStop' = LocationOf(InitSim, FocusThread)
    /\ skip' = NoLocation
    /\ reply' = "ok"
    /\ UNCHANGED event

Request ==
    \/ \E t \in Cpus \cup {NoCpu} : Continue(t)
    \/ Pause
    \/ StepTick
    \/ \E c \in Cpus : StepIn(c) \/ StepBack(c) \/ ReverseContinue(c)
    \/ Navigate
    \/ \E v \in 0 .. FieldSpan - 1 : SetWorld(v) \/ SetVariable(v)
    \/ \E c \in Cpus : \E line \in DOMAIN Programs[c] : Goto(c, line)

\* The requests that start a new history.
Renewal == HotReload \/ Restart

\* A launched session with stopOnEntry, after configurationDone.
Init ==
    /\ sim = InitSim
    /\ hist = NewHistory(InitSim)
    /\ pending = {}
    /\ running = FALSE
    /\ single = NoCpu
    /\ focus = FocusThread
    /\ lastStop = LocationOf(InitSim, FocusThread)
    /\ skip = NoLocation
    /\ event = "none"
    /\ view = "stopped"
    /\ reply = "none"
    /\ requests \in Sessions
    /\ paused = Cpus
    /\ carried = FALSE

Next == /\ \/ (Runner \/ Request) /\ UNCHANGED carried
           \/ Renewal
        /\ UNCHANGED requests

Spec == Init /\ [][Next]_vars

-----------------------------------------------------------------------------
(* Properties.                                                             *)

\* Type invariant of the session.
TypeOK ==
    /\ sim.field \in 0 .. FieldSpan - 1
    /\ sim.slot \in 1 .. PastEnd
    /\ \A c \in Cpus : sim.pc[c] \in 1 .. Len(Programs[c]) + 1
    /\ running \in BOOLEAN
    /\ single \in Cpus \cup {NoCpu}
    /\ focus \in Cpus
    /\ event \in {"none", "stopped", "terminated"}
    /\ view \in {"running", "stopped", "terminated"}
    /\ reply \in {"none", "ok", "refused"}
    /\ paused \in SUBSET Cpus

\* The history is always anchored in a checkpoint, whatever mixture of stepping,
\* running, editing and navigation built it.
HistoryAnchored == Anchored(hist)

\* The configured event and memory limits hold after every request.
HistoryBounded == Bounded(hist)

\* The history is sound after every request: well typed, anchored in a
\* checkpoint and within both limits at once, which record, drop_through and
\* checkpoint_current keep together (TraceHistory).
HistorySound == TypeOK /\ HistoryAnchored /\ HistoryBounded

\* Every retained event can be navigated to and shows the state recorded there,
\* in a history that did not begin with writes a hot reload left in the journal:
\* those go into its first record and are no part of the replay (hot_reload).
EveryEventReachable == ~carried => Reachable(hist)

\* A navigation that succeeds leaves the simulator in the state recorded at the
\* event the cursor names.
NavigationLands ==
    [][hist'.cursor < hist.cursor /\ reply' = "ok" /\ hist'.records = hist.records =>
          /\ \A r \in hist.records : r.sequence = hist'.cursor => sim' = r.hash
          /\ \A k \in hist.checkpoints : k.sequence = hist'.cursor => sim' = k.snapshot]_vars

\* A request that is refused leaves the simulated world as it was, with the
\* exception of EveryEventReachable: restore overwrites the simulator before the
\* comparison of the replayed writes makes it refuse.
RefusedLeavesWorld == [][reply' = "refused" /\ ~carried => sim' = sim]_vars

\* The runner executes an instruction that has a breakpoint only when the session
\* has stood still at it, so no breakpoint is ever run over (simulator.md: when
\* one IC reaches a breakpoint, every IC pauses).
BreakpointsHonoured ==
    [][running /\ reply' = "none" =>
          \A c \in Cpus :
             sim'.ops[c] > sim.ops[c] /\ <<c, sim.pc[c]>> \in Breakpoints => c \in paused]_vars

\* Whenever the runner has stopped, the client has been told or is about to be:
\* it never waits for a session that stands still.
NeverSilent == ~running /\ event = "none" => view # "running"
=============================================================================
