---------------------------- MODULE ScenarioTest ----------------------------
(***************************************************************************)
(* How ic10-runner runs one expanded test case: the tick loop of           *)
(* run_scenario_case with its timeline stimuli, scripted drivers,          *)
(* assertions, limits and verdict, and the single run of a Lua module      *)
(* (runner.rs, script_driver.rs), on the cases that ScenarioTest::load     *)
(* accepts (schema.rs).                                                    *)
(*                                                                         *)
(* The simulated world is reduced to what a test can see of it: the values *)
(* of the assignable targets, the tick, and a program that, step by step,  *)
(* writes targets, waits for the next tick, halts or fails.  What          *)
(* scheduler_step does inside is the subject of WorldScheduler.  A text is *)
(* reduced to whether it contains what the case expects.                   *)
(***************************************************************************)
EXTENDS Integers, Sequences, SequencesExt, FiniteSets

CONSTANTS
    Targets,            \* registers, fields, slots, channels: set_value's range
    Values,             \* what a target holds
    Initially,          \* target -> its value in the scenario
    AnyValue,           \* a rule without `equals`
    ScriptActions,      \* the actions of the drivers, the nested ones included
    Cases,              \* the expanded test cases that are run
    Ceilings,           \* command-line limits: [maxTicks, maxOperations]
    ProgramSteps,       \* what one step of a program stores: [writes, journalled]
    MaxCascades,        \* MAX_CASCADES_PER_PUMP
    MaxActionsPerCase,  \* MAX_ACTIONS_PER_CASE
    MaxPendingEvents,   \* MAX_PENDING_EVENTS
    MaxNesting          \* how deep schedules nest: 8

AssertionKinds == {"always", "eventually", "at", "final"}
Expectations == {"none", "compile", "runtime"}
Messages == {"none", "expected", "other"}

-----------------------------------------------------------------------------
(* What ScenarioTest::load accepts.                                        *)

PositiveLimits(c) == c.maxTicks \in Nat \ {0} /\ c.maxOperations \in Nat \ {0}

TimelineInRange(c) == \A i \in DOMAIN c.timeline : c.timeline[i].tick <= c.maxTicks

IsSequence(s) == s \in Seq(ToSet(s))

\* Rules have actions.
CompleteRules(c) ==
    /\ IsSequence(c.rules)
    /\ \A i \in DOMAIN c.rules : c.rules[i].actions \in Seq(ScriptActions) \ {<<>>}

\* A Lua module is run outside the world, and can say nothing about it.
ModuleStandsAlone(c) ==
    c.luaModule => /\ c.initial = <<>> /\ c.timeline = <<>> /\ c.rules = <<>>
                   /\ c.assertions = <<>> /\ c.snapshot = {}

\* tick is the tick of an atTick assertion, and the deadline of an eventual
\* one, which is maxTicks when the case names none.
AssertionsInRange(c) ==
    \A i \in DOMAIN c.assertions :
        /\ c.assertions[i].kind \in AssertionKinds
        /\ c.assertions[i].tick \in 0 .. c.maxTicks

\* validate_script_actions: a schedule nests at least one action.  A publish is a
\* set whose target is a channel; the fields of a moveSlot are those that both of
\* its slots have, in order, each with its target in the one and in the other.
ASSUME ActionsAssumption ==
    \A a \in ScriptActions :
        /\ a.op \in {"set", "moveSlot", "schedule"}
        /\ a.op = "moveSlot" => IsSequence(a.fields)
        /\ a.op = "schedule" => /\ a.after \in Nat
                                /\ a.actions \in Seq(ScriptActions) \ {<<>>}

ASSUME CasesAssumption ==
    \A c \in Cases : /\ PositiveLimits(c) /\ TimelineInRange(c)
                     /\ CompleteRules(c) /\ AssertionsInRange(c)
                     /\ ModuleStandsAlone(c) /\ IsSequence(c.timeline)
                     /\ c.expectError \in Expectations

ASSUME LimitsAssumption ==
    /\ \A l \in Ceilings : l.maxTicks \in Nat /\ l.maxOperations \in Nat
    /\ MaxCascades \in Nat /\ MaxActionsPerCase \in Nat
    /\ MaxPendingEvents \in Nat /\ MaxNesting \in Nat
    /\ Initially \in [Targets -> Values]

\* What enters the journal is some of what the step writes, in order: all that an
\* IC10 instruction writes but the LineNumber and the Error of its housing; nothing
\* of what a Lua program writes, which goes to a disabled journal of its own.
ASSUME StepsAssumption ==
    \A step \in ProgramSteps :
        /\ IsSequence(step.writes) /\ IsSequence(step.journalled)
        /\ ToSet(step.journalled) \subseteq ToSet(step.writes)

VARIABLES
    case, ceiling,   \* what is run, and under which limits
    phase,           \* where run_scenario_case stands
    values,          \* target -> value
    tick,
    program,         \* "ready", "waiting" (for the next tick) or "halted"
    operations,
    pending,         \* the drivers' scheduled actions, in order: sequence is the place in it
    actionsRun,
    unread,          \* journalled writes behind the drivers' cursor
    cascade,         \* reactions so far in this pump
    after,           \* what follows the pump
    satisfied,       \* the assertions that have matched
    failed,          \* whether a failure has been pushed
    error,           \* runtime_error
    result,
    seen,            \* history: what the assertions were judged on
    matched, fired   \* history: rule matches written, and reactions begun

vars == <<case, ceiling, phase, values, tick, program, operations, pending,
          actionsRun, unread, cascade, after, satisfied, failed,
          error, result, seen, matched, fired>>

drivers == <<pending, actionsRun>>
setup == <<case, ceiling>>

\* Command-line ceilings only reduce the bounds of a case.
Lower(m, n) == IF m < n THEN m ELSE n

MaxTicks == Lower(case.maxTicks, ceiling.maxTicks)
MaxOperations == Lower(case.maxOperations, ceiling.maxOperations)

IsFinished == program = "halted"

-----------------------------------------------------------------------------
(* Writes, and the rules that answer them.                                 *)

\* assignable_target_matches_write, and `equals`, on the value that was
\* written, changed or not.
Matches(rule, write) ==
    rule.target = write.target /\ rule.equals \in {AnyValue, write.value}

\* The members of s that pass the test, in order.
Filter(s, Test(_)) == FlattenSeq([i \in DOMAIN s |-> IF Test(s[i]) THEN <<s[i]>> ELSE <<>>])

\* The rules a sequence of writes triggers: writes first, then rules in the
\* order of declaration.
TriggeredOf(rules, writes) ==
    FlattenSeq([i \in DOMAIN writes |->
        Filter(rules, LAMBDA rule : Matches(rule, writes[i]))])

Triggered(writes) == TriggeredOf(case.rules, writes)

\* The part of the state that set_value and execute change.
Work == [values |-> values, unread |-> unread, pending |-> pending,
         actionsRun |-> actionsRun, refused |-> FALSE]

Store(w, write) ==
    [w EXCEPT !.values = [@ EXCEPT ![write.target] = write.value],
              !.unread = Append(@, [target |-> write.target, value |-> write.value])]

\* How many entries at the head of a list are due at tick t.
LeadingUpTo(list, t) ==
    CHOOSE n \in 0 .. Len(list) :
        /\ \A i \in 1 .. n : list[i].tick <= t
        /\ n < Len(list) => list[n + 1].tick > t

\* Mistake: the list is not sorted after a schedule.
Insert_AtEnd(list, events, due) == list \o events

\* The pending list is sorted by tick and sequence: new events go behind
\* those of their tick.
Insert(list, events, due) ==
    LET n == LeadingUpTo(list, due)
    IN  SubSeq(list, 1, n) \o events \o SubSeq(list, n + 1, Len(list))

ScheduleEach(w, action) ==
    LET due == tick + action.after
        events == [i \in DOMAIN action.actions |-> [tick |-> due, action |-> action.actions[i]]]
    IN  [w EXCEPT !.pending = Insert(@, events, due)]

\* Simulator::move_slot_item_as: field by field, the source is zeroed and the
\* destination gets what the source held when the move began.
MoveWrites(held, fields) ==
    [i \in 1 .. 2 * Len(fields) |->
        LET field == fields[(i + 1) \div 2]
        IN  IF i % 2 = 1 THEN [target |-> field.from, value |-> 0]
            ELSE [target |-> field.to, value |-> held[field.from]]]

\* ScriptDrivers::execute.  The targets of a driver's actions were resolved
\* when the drivers were set up, so a set and a move do not fail; an action beyond
\* a limit of the drivers is refused, and ends the sequence it stands in.
Execute(w, action) ==
    LET counted == [w EXCEPT !.actionsRun = @ + 1]
    IN  IF w.refused THEN w
        ELSE IF counted.actionsRun > MaxActionsPerCase
        THEN [counted EXCEPT !.refused = TRUE]
        ELSE IF action.op = "set"
        THEN Store(counted, action)
        ELSE IF action.op = "moveSlot"
        THEN FoldLeft(Store, counted, MoveWrites(counted.values, action.fields))
        ELSE IF Len(w.pending) + Len(action.actions) > MaxPendingEvents
        THEN [counted EXCEPT !.refused = TRUE]
        ELSE ScheduleEach(counted, action)

ExecuteAll(w, actions) == FoldLeft(Execute, w, actions)

\* What runtime_error holds after w: the text of a refusal may well be the one
\* the case expects.
ErrorAfter(w) == IF w.refused THEN {"expected", "other"} ELSE {error}

Commit(w) ==
    /\ values' = w.values /\ unread' = w.unread /\ pending' = w.pending
    /\ actionsRun' = w.actionsRun
    /\ error' \in ErrorAfter(w)
    /\ matched' = matched + Len(Triggered(w.unread)) - Len(Triggered(unread))

-----------------------------------------------------------------------------
(* Loading the scenario.                                                   *)

Init ==
    /\ case \in Cases /\ ceiling \in Ceilings
    /\ phase = "load" /\ values = Initially /\ tick = 0
    /\ program = "ready" /\ operations = 0
    /\ pending = <<>> /\ actionsRun = 0 /\ unread = <<>>
    /\ cascade = 0 /\ after = "judge"
    /\ satisfied = {} /\ failed = FALSE /\ error = "none" /\ result = "none"
    /\ seen = {} /\ matched = 0 /\ fired = 0

Finish(verdict, problem) ==
    /\ phase' = "done" /\ result' = verdict /\ error' = problem
    /\ UNCHANGED <<setup, values, tick, program, operations, drivers, unread,
                   cascade, after, satisfied, failed, seen, matched,
                   fired>>

\* The kind of the error is the expected one, and so is its text.
MatchesExpectedError(kind, message) ==
    case.expectError = kind /\ message = "expected"

\* A source that does not compile, or does not load for another reason: the
\* case ends on the spot, with the expected error or with another.
FailsWith(kind, message) ==
    Finish(IF MatchesExpectedError(kind, message) THEN "Passed" ELSE "Failed",
           message)

LoadFails ==
    /\ phase = "load" /\ ~case.luaModule
    /\ \E kind \in {"compile", "runtime"}, message \in {"expected", "other"} :
          FailsWith(kind, message)

\* A scenario or a module root that cannot be used, then one run of the
\* module: it succeeds, or raises an error.
RunExplicit ==
    /\ phase = "load" /\ case.luaModule
    /\ \/ Finish("Invalid", error)
       \/ Finish(IF case.expectError = "none" THEN "Passed" ELSE "Failed", error)
       \/ \E kind \in {"compile", "runtime"}, message \in {"expected", "other"} :
              FailsWith(kind, message)

Assignable(target) == target \in Targets

\* The targets of the actions of a rule, the scheduled ones included.
ActionTargets(actions) ==
    LET within[d \in 0 .. MaxNesting] ==
            IF d = 0 THEN ToSet(actions)
            ELSE UNION {ToSet(a.actions) :
                           a \in {b \in within[d - 1] : b.op = "schedule"}}
        all == UNION {within[d] : d \in 0 .. MaxNesting}
    IN  {a.target : a \in {b \in all : b.op = "set"}}
          \cup UNION {UNION {{f.from, f.to} : f \in ToSet(a.fields)} :
                         a \in {b \in all : b.op = "moveSlot"}}

\* An initial override or a driver whose targets are not all assignable.
Unusable ==
    \/ \E w \in ToSet(case.initial) : ~Assignable(w.target)
    \/ \E r \in ToSet(case.rules) :
          \E t \in {r.target} \cup ActionTargets(r.actions) : ~Assignable(t)

LoadInvalid ==
    /\ phase = "load" /\ ~case.luaModule
    /\ case.expectError # "compile" /\ Unusable
    /\ Finish("Invalid", error)

LoadUnexpected ==
    /\ phase = "load" /\ ~case.luaModule /\ case.expectError = "compile"
    /\ Finish("Failed", error)

Assign(held, write) == [held EXCEPT ![write.target] = write.value]

\* The initial overrides precede the journal: no rule answers them.
Load ==
    /\ phase = "load" /\ ~case.luaModule
    /\ case.expectError # "compile" /\ ~Unusable
    /\ values' = FoldLeft(Assign, values, case.initial)
    /\ phase' = "stimuli"
    /\ UNCHANGED <<setup, tick, program, operations, drivers, unread, cascade,
                   after, satisfied, failed, error, result, seen,
                   matched, fired>>

-----------------------------------------------------------------------------
(* The top of the loop: the stimuli of the tick.                           *)

\* An entry whose target cannot be set is a failure; the others are applied.
Stimuli ==
    /\ phase = "stimuli"
    /\ \E applied \in {Filter(case.timeline, LAMBDA e :
                            e.tick = tick /\ Assignable(e.target))} :
       \E done \in {FoldLeft(Store, Work, applied)} : Commit(done)
    /\ failed' = (failed \/ \E i \in DOMAIN case.timeline :
                              /\ case.timeline[i].tick = tick
                              /\ ~Assignable(case.timeline[i].target))
    /\ phase' = "due" /\ after' = "judge"
    /\ UNCHANGED <<setup, tick, program, operations, cascade, satisfied, result,
                   seen, fired>>

-----------------------------------------------------------------------------
(* ScriptDrivers::pump.                                                    *)

\* A failing pump at the top of the loop is still followed by the assertions;
\* one after a step ends the loop.
Pumped(failure) == IF failure /\ after # "judge" THEN "conclude" ELSE after

\* The due actions leave the list together, before the first is executed.
PumpDue ==
    /\ phase = "due"
    /\ LET count == LeadingUpTo(pending, tick)
           rest  == SubSeq(pending, count + 1, Len(pending))
       IN  \E done \in {ExecuteAll([Work EXCEPT !.pending = rest],
                                   [i \in 1 .. count |-> pending[i].action])} :
              /\ Commit(done)
              /\ phase' = IF done.refused THEN Pumped(TRUE) ELSE "react"
    /\ cascade' = 0
    /\ UNCHANGED <<setup, tick, program, operations, after, satisfied, failed,
                   result, seen, fired>>

\* Mistake: only the first of several unread writes is answered.
Answered_FirstOnly(writes) ==
    Triggered(SubSeq(writes, 1, Lower(1, Len(writes))))

\* The reactions of one cascade.
Answered(writes) == Triggered(writes)

\* react_to_writes: one cascade.  The cursor moves past the writes that were
\* read before the reactions write more.
React ==
    /\ phase = "react" /\ Answered(unread) # <<>> /\ cascade < MaxCascades
    /\ \E rules \in {Answered(unread)} :
       \E done \in {ExecuteAll([Work EXCEPT !.unread = <<>>],
                       FlattenSeq([i \in DOMAIN rules |-> rules[i].actions]))} :
           /\ values' = done.values /\ unread' = done.unread
           /\ pending' = done.pending /\ actionsRun' = done.actionsRun
           /\ error' \in ErrorAfter(done)
           /\ matched' = matched + Len(Triggered(done.unread))
           /\ fired' = fired + Len(rules)
           /\ phase' = IF done.refused THEN Pumped(TRUE) ELSE "react"
    /\ cascade' = cascade + 1
    /\ UNCHANGED <<setup, tick, program, operations, after, satisfied, failed,
                   result, seen>>

\* Nothing answers the unread writes: the pump is over.
ReactDone ==
    /\ phase = "react" /\ Answered(unread) = <<>>
    /\ unread' = <<>> /\ phase' = Pumped(FALSE)
    /\ UNCHANGED <<setup, values, tick, program, operations, drivers, cascade,
                   after, satisfied, failed, error, result, seen,
                   matched, fired>>

\* Reactions that keep triggering reactions.
ReactCycle ==
    /\ phase = "react" /\ Answered(unread) # <<>> /\ cascade = MaxCascades
    /\ unread' = <<>> /\ error' \in {"expected", "other"}
    /\ phase' = Pumped(TRUE)
    /\ UNCHANGED <<setup, values, tick, program, operations, drivers, cascade,
                   after, satisfied, failed, result, seen, matched,
                   fired>>

-----------------------------------------------------------------------------
(* evaluate_assertions, and whether the loop goes on.                      *)

Readable(a) == a.target \in Targets
Holds(a, state) == Readable(a) /\ state[a.target] = a.value

\* Mistake: an eventual assertion may still match after its deadline.
FailsNow_NoDeadline(i) ==
    LET a == case.assertions[i]
    IN  CASE a.kind = "eventually" -> ~Readable(a)
          [] a.kind = "always" -> ~Holds(a, values)
          [] a.kind = "at" -> a.tick = tick /\ ~Holds(a, values)
          [] a.kind = "final" -> tick = case.maxTicks /\ ~Holds(a, values)

\* The assertions that push a failure at this tick.
FailsNow(i) ==
    LET a == case.assertions[i]
    IN  CASE a.kind = "eventually" ->
                \/ ~Readable(a)
                \/ ~Holds(a, values) /\ tick >= a.tick /\ i \notin satisfied
          [] a.kind = "always" -> ~Holds(a, values)
          [] a.kind = "at" -> a.tick = tick /\ ~Holds(a, values)
          [] a.kind = "final" -> tick = case.maxTicks /\ ~Holds(a, values)

MatchesNow(i) ==
    LET a == case.assertions[i] IN a.kind = "eventually" /\ Holds(a, values)

Stop == failed' \/ error # "none" \/ tick >= MaxTicks
           \/ operations >= MaxOperations \/ (IsFinished /\ pending = <<>>)

\* The wall clock is read once a tick; it may have run out at any time.
Judge ==
    /\ phase = "judge"
    /\ satisfied' = satisfied \cup {i \in DOMAIN case.assertions : MatchesNow(i)}
    /\ \E late \in BOOLEAN :
          LET broken == \E i \in DOMAIN case.assertions : FailsNow(i)
          IN  \/ /\ ~late /\ failed' = (failed \/ broken)
                 /\ phase' = IF Stop THEN "conclude" ELSE "step"
              \/ /\ late /\ ~failed /\ ~broken /\ error = "none"
                 /\ tick < MaxTicks /\ operations < MaxOperations
                 /\ ~(IsFinished /\ pending = <<>>)
                 /\ failed' = TRUE /\ phase' = "conclude"
    /\ seen' = seen \cup {[tick |-> tick, values |-> values]}
    /\ UNCHANGED <<setup, values, tick, program, operations, drivers, unread,
                   cascade, after, error, result, matched, fired>>

-----------------------------------------------------------------------------
(* scheduler_step.                                                         *)

\* One instruction of the program, then the drivers.
ProgramStep ==
    /\ phase = "step" /\ program = "ready"
    /\ \E step \in ProgramSteps :
       \E done \in {[FoldLeft(Store, Work, step.writes) EXCEPT
                         !.unread = FoldLeft(Store, Work, step.journalled).unread]} : Commit(done)
    /\ program' \in {"ready", "waiting", "halted"}
    /\ operations' = operations + 1
    /\ phase' = "due"
    /\ after' = IF operations' >= MaxOperations THEN "stimuli" ELSE "step"
    /\ UNCHANGED <<setup, tick, cascade, satisfied, failed, result, seen,
                   fired>>

\* Mistake: a finished world stands still.
EndTick_Frozen ==
    /\ phase = "step" /\ program = "waiting"
    /\ tick' = tick + 1
    /\ program' = "ready"
    /\ phase' = "due" /\ after' = "stimuli"
    /\ UNCHANGED <<setup, values, operations, drivers, unread, cascade,
                   satisfied, failed, error, result, seen, matched,
                   fired>>

\* No program can run: the world tick ends.
EndTick ==
    /\ phase = "step" /\ program # "ready"
    /\ tick' = tick + 1
    /\ program' = IF program = "waiting" THEN "ready" ELSE program
    /\ phase' = "due" /\ after' = "stimuli"
    /\ UNCHANGED <<setup, values, operations, drivers, unread, cascade,
                   satisfied, failed, error, result, seen, matched,
                   fired>>

\* A failing instruction stops an IC10 program and leaves a Lua program as it
\* was; when no program can run, a hook of the world fails, before or after the
\* tick has moved on.
StepFails ==
    /\ phase = "step"
    /\ \/ program = "ready" /\ program' \in {"ready", "halted"} /\ tick' = tick
       \/ program # "ready" /\ program' = program /\ tick' \in {tick, tick + 1}
    /\ error' \in {"expected", "other"}
    /\ phase' = "conclude"
    /\ UNCHANGED <<setup, values, operations, drivers, unread, cascade,
                   after, satisfied, failed, result, seen, matched,
                   fired>>

-----------------------------------------------------------------------------
(* The verdict.                                                            *)

ErrorUnexpected ==
    IF error = "none" THEN case.expectError = "runtime"
    ELSE ~MatchesExpectedError("runtime", error)

EventuallyMissed ==
    \E i \in DOMAIN case.assertions :
        case.assertions[i].kind = "eventually" /\ i \notin satisfied

FinalBroken ==
    /\ tick < MaxTicks
    /\ \E i \in DOMAIN case.assertions :
          case.assertions[i].kind = "final" /\ ~Holds(case.assertions[i], values)

SnapshotDiffers == \E s \in case.snapshot : ~Holds(s, values)

OutOfOperations == operations >= MaxOperations /\ ~IsFinished

Conclude ==
    /\ phase = "conclude"
    /\ Finish(IF \/ failed \/ ErrorUnexpected \/ EventuallyMissed
                 \/ FinalBroken \/ OutOfOperations \/ SnapshotDiffers
              THEN "Failed" ELSE "Passed", error)

Pump == PumpDue \/ React \/ ReactDone \/ ReactCycle
SchedulerStep == ProgramStep \/ EndTick \/ StepFails
LoadCase == LoadFails \/ RunExplicit \/ LoadInvalid \/ LoadUnexpected \/ Load

Next == LoadCase \/ Stimuli \/ Pump \/ Judge \/ SchedulerStep \/ Conclude

Spec == Init /\ [][Next]_vars

\* The runner is one sequential loop: it takes its next step, and does not
\* count on a failure to end it.
FairSpec ==
    /\ Spec
    /\ WF_vars(LoadCase \/ Stimuli \/ Pump \/ Judge \/ ProgramStep \/ EndTick
                  \/ Conclude)

-----------------------------------------------------------------------------
(* Properties.                                                             *)

Ran == seen # {}
SeenAt(a, o) ==
    /\ a.kind = "always" => Holds(a, o.values)
    /\ a.kind = "at" /\ a.tick = o.tick => Holds(a, o.values)

\* A case reported as passed did what it says (run_case): it ended as its
\* error expectation asks, wherever the error arose; its invariants held at
\* every tick that was judged, exact assertions at their tick, eventual ones
\* by their deadline, and the snapshot describes the final state.  The
\* final-state assertions are included unless the case stopped at its last
\* tick with nobody to look: the command-line ceiling ended it, or the error
\* it expects came before that tick was judged.
PassedIsSound ==
    result = "Passed" =>
        /\ error = "none" <=> case.expectError = "none"
        /\ error # "other"
        /\ Ran /\ error = "none" => IsFinished \/ operations < MaxOperations
        /\ Ran => \A s \in case.snapshot : Holds(s, values)
        /\ Ran => \A i \in DOMAIN case.assertions :
              LET a == case.assertions[i]
              IN  /\ \A o \in seen : SeenAt(a, o)
                  /\ a.kind = "eventually" =>
                        \E o \in seen : o.tick <= a.tick /\ Holds(a, o.values)
                  /\ a.kind = "final" =>
                        \/ Holds(a, values)
                        \/ tick = MaxTicks /\ MaxTicks < case.maxTicks
                        \/ /\ tick = MaxTicks /\ error = "expected"
                           /\ \A o \in seen : o.tick < tick

\* Every journalled write that matches a rule is answered by it exactly once,
\* whether a stimulus, an IC10 instruction, a due action or a reaction wrote it,
\* however the reactions of one pump follow from each other and whether or not the
\* value changed (react_to_writes and its cursor); what a Lua program writes is not
\* in the journal, and no rule answers it.
EveryWriteAnswered ==
    error = "none" => matched = fired + Len(Triggered(unread))

\* When a tick is judged, every driver action scheduled for an earlier tick
\* has been carried out (the order pump relies on, and the pump after the
\* step that ends a tick).
NothingOverdue ==
    phase = "judge" /\ error = "none" =>
        \A i \in DOMAIN pending : pending[i].tick >= tick

\* Every case ends, whatever its program and its drivers do: each step of the
\* program counts against a limit, and so does each tick.
EveryCaseEnds == <>(phase = "done")
=============================================================================
