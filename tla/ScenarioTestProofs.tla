-------------------------- MODULE ScenarioTestProofs --------------------------
(***************************************************************************)
(* A test case reported as passed did what it says, the drivers answer     *)
(* every write once, and nothing they scheduled is left behind: proved for *)
(* all cases, ceilings, programs and drivers.                              *)
(***************************************************************************)
EXTENDS ScenarioTest, WellFoundedInduction, TLAPS

-----------------------------------------------------------------------------
(* The inductive invariant.                                                *)

Looping == {"stimuli", "due", "react", "judge", "step"}

\* Assertion i of the case.
Asserted(i) == case.assertions[i]

\* The loop has judged this tick and goes on inside it.
Judged == phase = "step" \/ (phase \in {"due", "react"} /\ after = "step")

\* The pump that follows the steps of a tick.
Leaving == phase \in {"due", "react"} /\ after = "stimuli"

\* Nobody has looked at the present tick.
Unseen == \A o \in seen : o.tick < tick

LoopTypes ==
    /\ case \in Cases /\ ceiling \in Ceilings
    /\ phase \in Looping \cup {"load", "conclude", "done"}
    /\ after \in {"judge", "step", "stimuli"}
    /\ tick \in Nat /\ operations \in Nat
    /\ satisfied \subseteq DOMAIN case.assertions
    /\ \A o \in seen : o.tick \in Nat /\ o.tick <= tick
    /\ phase # "done" => result = "none"
    /\ phase = "load" => seen = {} /\ satisfied = {} /\ tick = 0 /\ error = "none"
    /\ phase \in Looping \cup {"conclude"} => case.expectError # "compile"

\* Everything judged so far was as the assertions that look at one tick ask.
AllSeen == \A i \in DOMAIN case.assertions : \A o \in seen : SeenAt(Asserted(i), o)

\* An eventual assertion that has matched did so by its deadline ...
Witnessed ==
    \A i \in satisfied :
        \E o \in seen : o.tick <= Asserted(i).tick /\ Holds(Asserted(i), o.values)

\* ... and one that has not still has time.
InTime ==
    \A i \in DOMAIN case.assertions :
        Asserted(i).kind = "eventually" /\ i \notin satisfied =>
            /\ tick <= Asserted(i).tick
            /\ Judged => tick < Asserted(i).tick

\* The loop stays within the ticks it may take.
WithinTicks ==
    /\ tick <= MaxTicks
    /\ Judged => tick < MaxTicks
    /\ Leaving => tick < MaxTicks \/ Unseen

\* At the last tick of the case the final-state assertions have been judged,
\* unless an error came first.
FinalsJudged ==
    \A i \in DOMAIN case.assertions :
        Asserted(i).kind = "final" /\ tick >= MaxTicks =>
            \/ Holds(Asserted(i), values)
            \/ MaxTicks < case.maxTicks
            \/ error # "none" /\ Unseen

LoopInv ==
    /\ LoopTypes
    /\ Witnessed
    /\ phase \in Looping \cup {"load"} => AllSeen /\ InTime /\ WithinTicks
    /\ phase = "conclude" => tick <= MaxTicks /\ (failed \/ (AllSeen /\ FinalsJudged))
    /\ phase = "done" => PassedIsSound

-----------------------------------------------------------------------------
(* Facts about the limits and about evaluate_assertions.                   *)

LEMMA LimitFacts ==
    ASSUME case \in Cases, ceiling \in Ceilings
    PROVE  /\ MaxTicks \in Nat /\ MaxOperations \in Nat
           /\ case.maxTicks \in Nat /\ MaxTicks <= case.maxTicks
           /\ case.expectError \in Expectations
           /\ \A i \in DOMAIN case.assertions :
                 /\ Asserted(i).tick \in Nat
                 /\ Asserted(i).kind \in AssertionKinds
<1>1. /\ case.maxTicks \in Nat /\ case.maxOperations \in Nat
      /\ case.expectError \in Expectations
      /\ \A i \in DOMAIN case.assertions :
            case.assertions[i].tick \in 0 .. case.maxTicks /\ case.assertions[i].kind \in AssertionKinds
    BY CasesAssumption DEF PositiveLimits, AssertionsInRange
<1>2. ceiling.maxTicks \in Nat /\ ceiling.maxOperations \in Nat
    BY LimitsAssumption
<1> QED
    BY <1>1, <1>2 DEF MaxTicks, MaxOperations, Lower, Asserted

\* What it means that an assertion pushes no failure at this tick.
LEMMA NotBroken ==
    ASSUME NEW i \in DOMAIN case.assertions, ~FailsNow(i)
    PROVE  /\ Asserted(i).kind = "eventually" =>
                 Holds(Asserted(i), values) \/ ~(tick >= Asserted(i).tick) \/ i \in satisfied
           /\ Asserted(i).kind = "always" => Holds(Asserted(i), values)
           /\ Asserted(i).kind = "at" /\ Asserted(i).tick = tick => Holds(Asserted(i), values)
           /\ Asserted(i).kind = "final" /\ tick = case.maxTicks => Holds(Asserted(i), values)
BY DEF FailsNow, Asserted

\* A step that leaves the judgement alone: the case, the ticks judged and the
\* verdict stay.
LEMMA JudgementKept ==
    ASSUME LoopInv, UNCHANGED <<case, ceiling, seen, satisfied, tick, result>>,
           phase \in Looping, phase' \in Looping,
           after' \in {"judge", "step", "stimuli"}, operations' \in Nat,
           Judged' => Judged,
           Leaving' => Leaving \/ Judged
    PROVE  LoopInv'
<1>1. LoopTypes'
    BY DEF LoopInv, LoopTypes, Looping
<1>2. Witnessed'
    BY DEF LoopInv, Witnessed, Asserted, Holds, Readable
<1>3. AllSeen'
    BY DEF LoopInv, AllSeen, Asserted
<1>4. InTime'
    BY DEF LoopInv, InTime, Asserted
<1>5. WithinTicks'
    BY DEF LoopInv, WithinTicks, MaxTicks, Unseen
<1>6. phase' # "conclude" /\ phase' # "done"
    BY DEF Looping
<1> QED
    BY <1>1, <1>2, <1>3, <1>4, <1>5, <1>6 DEF LoopInv

\* An error ends the loop in a tick that is not the last, or before the last
\* tick is judged.
LEMMA ErrorConcludes ==
    ASSUME LoopInv, UNCHANGED <<case, ceiling, seen, satisfied, tick, result, after, operations>>,
           phase \in Looping, Judged \/ Leaving, phase' = "conclude", error' # "none"
    PROVE  LoopInv'
<1>1. LoopTypes'
    BY DEF LoopInv, LoopTypes, Looping
<1>2. Witnessed'
    BY DEF LoopInv, Witnessed, Asserted, Holds, Readable
<1>3. AllSeen'
    BY DEF LoopInv, AllSeen, Asserted
<1>4. MaxTicks \in Nat /\ tick \in Nat
    BY LimitFacts DEF LoopInv, LoopTypes
<1>5. tick <= MaxTicks /\ (tick < MaxTicks \/ Unseen)
    BY DEF LoopInv, WithinTicks
<1>6. ~(tick >= MaxTicks) \/ Unseen
    BY <1>4, <1>5
<1>7. FinalsJudged'
    BY <1>6 DEF FinalsJudged, MaxTicks, Unseen
<1>8. (tick <= MaxTicks)'
    BY <1>5 DEF MaxTicks
<1> QED
    BY <1>1, <1>2, <1>3, <1>7, <1>8 DEF LoopInv, Looping

-----------------------------------------------------------------------------
(* The steps of the loop.                                                  *)

LEMMA StartsSound == Init => LoopInv
<1> SUFFICES ASSUME Init PROVE LoopInv
    OBVIOUS
<1>1. /\ case \in Cases /\ ceiling \in Ceilings /\ phase = "load" /\ after = "judge"
      /\ tick = 0 /\ operations = 0 /\ satisfied = {} /\ seen = {} /\ result = "none"
      /\ error = "none"
    BY DEF Init
<1>2. LoopTypes
    BY <1>1 DEF LoopTypes, Looping
<1>3. Witnessed /\ AllSeen
    BY <1>1 DEF Witnessed, AllSeen
<1>4. ~Judged /\ ~Leaving
    BY <1>1 DEF Judged, Leaving
<1>5. InTime
    BY <1>1, <1>4, LimitFacts DEF InTime
<1>6. WithinTicks
    BY <1>1, <1>4, LimitFacts DEF WithinTicks
<1> QED
    BY <1>1, <1>2, <1>3, <1>5, <1>6 DEF LoopInv

\* A case that ends while it is loaded ends as its error expectation asks.
LEMMA LoadEndsSound ==
    ASSUME LoopInv, phase = "load", NEW verdict, NEW problem, Finish(verdict, problem),
           verdict = "Passed" => /\ problem # "other"
                                 /\ problem = "none" <=> case.expectError = "none"
    PROVE  LoopInv'
<1>1. /\ phase' = "done" /\ result' = verdict /\ error' = problem
      /\ UNCHANGED <<case, ceiling, tick, operations, after, satisfied, seen>>
    BY DEF Finish, setup
<1>2. seen = {} /\ satisfied = {}
    BY DEF LoopInv, LoopTypes
<1>3. LoopTypes'
    BY <1>1 DEF LoopInv, LoopTypes, Looping
<1>4. Witnessed'
    BY <1>1, <1>2 DEF Witnessed
<1>5. ~Ran'
    BY <1>1, <1>2 DEF Ran
<1>6. PassedIsSound'
    BY <1>1, <1>5 DEF PassedIsSound
<1> QED
    BY <1>1, <1>3, <1>4, <1>6 DEF LoopInv, Looping

LEMMA LoadSound ==
    ASSUME LoopInv, LoadCase PROVE LoopInv'
<1>0. case \in Cases /\ ceiling \in Ceilings
    BY DEF LoopInv, LoopTypes
<1>1. ASSUME NEW kind \in {"compile", "runtime"}, NEW message \in {"expected", "other"},
             phase = "load", FailsWith(kind, message)
      PROVE  LoopInv'
    <2> DEFINE verdict == IF MatchesExpectedError(kind, message) THEN "Passed" ELSE "Failed"
    <2>1. Finish(verdict, message)
        BY <1>1 DEF FailsWith
    <2>2. verdict = "Passed" => /\ message # "other"
                                /\ message = "none" <=> case.expectError = "none"
        BY DEF MatchesExpectedError
    <2> HIDE DEF verdict
    <2> QED BY <1>1, <2>1, <2>2, LoadEndsSound
<1>2. CASE LoadFails
    BY <1>1, <1>2 DEF LoadFails
<1>3. CASE RunExplicit
    <2>0. phase = "load" /\ error = "none"
        BY <1>3 DEF RunExplicit, LoopInv, LoopTypes
    <2>1. CASE Finish("Invalid", error)
        BY <2>0, <2>1, LoadEndsSound
    <2>2. CASE Finish(IF case.expectError = "none" THEN "Passed" ELSE "Failed", error)
        <3> DEFINE verdict == IF case.expectError = "none" THEN "Passed" ELSE "Failed"
        <3>1. verdict = "Passed" => /\ error # "other"
                                    /\ error = "none" <=> case.expectError = "none"
            BY <2>0
        <3>2. Finish(verdict, error)
            BY <2>2
        <3> HIDE DEF verdict
        <3> QED BY <2>0, <3>1, <3>2, LoadEndsSound
    <2> QED BY <1>1, <1>3, <2>0, <2>1, <2>2 DEF RunExplicit
<1>4. CASE LoadInvalid
    BY <1>4, LoadEndsSound DEF LoadInvalid
<1>5. CASE LoadUnexpected
    BY <1>5, LoadEndsSound DEF LoadUnexpected
<1>6. CASE Load
    <2>1. /\ phase = "load" /\ phase' = "stimuli" /\ case.expectError # "compile"
          /\ UNCHANGED <<case, ceiling, seen, satisfied, tick, result, after, operations>>
        BY <1>6 DEF Load, setup
    <2>2. LoopTypes'
        BY <2>1 DEF LoopInv, LoopTypes, Looping
    <2>3. Witnessed'
        BY <2>1 DEF LoopInv, Witnessed, Asserted, Holds, Readable
    <2>4. AllSeen'
        BY <2>1 DEF LoopInv, AllSeen, Asserted
    <2>5. ~Judged' /\ ~Leaving'
        BY <2>1 DEF Judged, Leaving
    <2>6. InTime'
        BY <2>1, <2>5 DEF LoopInv, InTime, Asserted
    <2>7. WithinTicks'
        BY <2>1, <2>5 DEF LoopInv, WithinTicks, MaxTicks
    <2> QED BY <2>1, <2>2, <2>3, <2>4, <2>6, <2>7 DEF LoopInv
<1> QED
    BY <1>2, <1>3, <1>4, <1>5, <1>6 DEF LoadCase

LEMMA StimuliSound ==
    ASSUME LoopInv, Stimuli PROVE LoopInv'
<1>1. /\ phase = "stimuli" /\ phase' = "due" /\ after' = "judge"
      /\ UNCHANGED <<case, ceiling, seen, satisfied, tick, result, operations>>
    BY DEF Stimuli, setup
<1>2. ~Judged' /\ ~Leaving' /\ phase \in Looping /\ phase' \in Looping
    BY <1>1 DEF Judged, Leaving, Looping
<1>3. operations' \in Nat
    BY <1>1 DEF LoopInv, LoopTypes
<1> QED
    BY <1>1, <1>2, <1>3, JudgementKept

\* Where a pump leads: on with the loop, or to the end of it with an error.
LEMMA PumpSound ==
    ASSUME LoopInv, phase \in {"due", "react"}, NEW failure \in BOOLEAN,
           UNCHANGED <<case, ceiling, seen, satisfied, tick, result, after, operations>>,
           phase' = Pumped(failure), failure => error' # "none"
    PROVE  LoopInv'
<1>1. after \in {"judge", "step", "stimuli"} /\ operations' \in Nat
    BY DEF LoopInv, LoopTypes
<1>2. CASE failure /\ after # "judge"
    <2>1. phase' = "conclude" /\ error' # "none"
        BY <1>2 DEF Pumped
    <2>2. phase \in Looping /\ (Judged \/ Leaving)
        BY <1>1, <1>2 DEF Looping, Judged, Leaving
    <2> QED BY <2>1, <2>2, ErrorConcludes
<1>3. CASE ~(failure /\ after # "judge")
    <2>1. phase' = after
        BY <1>3 DEF Pumped
    <2>2. phase \in Looping /\ phase' \in Looping
        BY <1>1, <2>1 DEF Looping
    <2>3. Judged' => Judged
        BY <1>1, <2>1 DEF Judged
    <2>4. ~Leaving'
        BY <1>1, <2>1 DEF Leaving
    <2> QED BY <1>1, <2>2, <2>3, <2>4, JudgementKept
<1> QED
    BY <1>2, <1>3

\* The drivers' actions lead to more reactions, or are refused.
LEMMA ActionsSound ==
    ASSUME LoopInv, phase \in {"due", "react"}, NEW w, error' \in ErrorAfter(w),
           UNCHANGED <<case, ceiling, seen, satisfied, tick, result, after, operations>>,
           phase' = IF w.refused THEN Pumped(TRUE) ELSE "react"
    PROVE  LoopInv'
<1>1. CASE w.refused
    <2>1. phase' = Pumped(TRUE) /\ error' # "none"
        BY <1>1 DEF ErrorAfter
    <2> QED BY <2>1, PumpSound
<1>2. CASE ~w.refused
    <2>1. phase' = "react"
        BY <1>2
    <2>2. /\ phase \in Looping /\ phase' \in Looping
          /\ Judged' => Judged
          /\ Leaving' => Leaving
        BY <2>1 DEF Looping, Judged, Leaving
    <2>3. after' \in {"judge", "step", "stimuli"} /\ operations' \in Nat
        BY DEF LoopInv, LoopTypes
    <2> QED BY <2>2, <2>3, JudgementKept
<1> QED
    BY <1>1, <1>2

LEMMA PumpsSound ==
    ASSUME LoopInv, Pump PROVE LoopInv'
<1>1. CASE PumpDue
    <2> DEFINE rest == SubSeq(pending, LeadingUpTo(pending, tick) + 1, Len(pending))
               done == ExecuteAll([Work EXCEPT !.pending = rest],
                                  [i \in 1 .. LeadingUpTo(pending, tick) |-> pending[i].action])
    <2>1. /\ phase = "due" /\ error' \in ErrorAfter(done)
          /\ phase' = IF done.refused THEN Pumped(TRUE) ELSE "react"
          /\ UNCHANGED <<case, ceiling, seen, satisfied, tick, result, after, operations>>
        BY <1>1 DEF PumpDue, Commit, setup
    <2> HIDE DEF done
    <2> QED BY <2>1, ActionsSound
<1>2. CASE React
    <2> DEFINE rules == Answered(unread)
               done == ExecuteAll([Work EXCEPT !.unread = <<>>],
                           FlattenSeq([i \in DOMAIN rules |-> rules[i].actions]))
    <2>1. /\ phase = "react" /\ error' \in ErrorAfter(done)
          /\ phase' = IF done.refused THEN Pumped(TRUE) ELSE "react"
          /\ UNCHANGED <<case, ceiling, seen, satisfied, tick, result, after, operations>>
        BY <1>2 DEF React, setup
    <2> HIDE DEF done
    <2> QED BY <2>1, ActionsSound
<1>3. CASE ReactDone
    <2>1. /\ phase = "react" /\ phase' = Pumped(FALSE)
          /\ UNCHANGED <<case, ceiling, seen, satisfied, tick, result, after, operations>>
        BY <1>3 DEF ReactDone, setup
    <2> QED BY <2>1, PumpSound
<1>4. CASE ReactCycle
    <2>1. /\ phase = "react" /\ phase' = Pumped(TRUE) /\ error' # "none"
          /\ UNCHANGED <<case, ceiling, seen, satisfied, tick, result, after, operations>>
        BY <1>4 DEF ReactCycle, setup
    <2> QED BY <2>1, PumpSound
<1> QED
    BY <1>1, <1>2, <1>3, <1>4 DEF Pump

\* Judging a tick: what it finds broken ends the loop with a failure.
LEMMA JudgeSound ==
    ASSUME LoopInv, Judge PROVE LoopInv'
<1> DEFINE broken == \E i \in DOMAIN case.assertions : FailsNow(i)
           here == [tick |-> tick, values |-> values]
           matching == {i \in DOMAIN case.assertions : MatchesNow(i)}
<1>1. /\ phase = "judge" /\ seen' = seen \cup {here} /\ satisfied' = satisfied \cup matching
      /\ UNCHANGED <<case, ceiling, values, tick, operations, after, error, result>>
    BY DEF Judge, setup
<1>2. /\ case \in Cases /\ ceiling \in Ceilings /\ tick \in Nat /\ operations \in Nat
      /\ AllSeen /\ Witnessed /\ InTime /\ tick <= MaxTicks
    BY <1>1 DEF LoopInv, LoopTypes, Looping, WithinTicks
<1>3. /\ MaxTicks \in Nat /\ case.maxTicks \in Nat /\ MaxTicks <= case.maxTicks
      /\ \A i \in DOMAIN case.assertions : Asserted(i).tick \in Nat
    BY <1>2, LimitFacts
<1>4. here.tick = tick /\ here.values = values
    OBVIOUS
<1>5. \/ phase' = "conclude" /\ (failed' \/ ~broken)
      \/ phase' = "step" /\ ~broken /\ ~(tick >= MaxTicks)
    <2>1. PICK late \in BOOLEAN :
            \/ ~late /\ failed' = (failed \/ broken) /\ phase' = IF Stop THEN "conclude" ELSE "step"
            \/ late /\ ~broken /\ failed' = TRUE /\ phase' = "conclude"
        BY DEF Judge
    <2> HIDE DEF broken
    <2>2. CASE failed' = (failed \/ broken) /\ phase' = IF Stop THEN "conclude" ELSE "step"
        <3>1. CASE Stop
            BY <2>2, <3>1, Zenon
        <3>2. CASE ~Stop
            <4>1. phase' = "step" /\ ~(tick >= MaxTicks) /\ ~failed'
                BY <2>2, <3>2, Zenon DEF Stop
            <4> QED BY <2>2, <4>1, Zenon
        <3> QED BY <3>1, <3>2
    <2>3. CASE failed' = TRUE /\ phase' = "conclude"
        BY <2>3
    <2> QED BY <2>1, <2>2, <2>3
<1>6. \A i \in DOMAIN case.assertions :
        /\ Asserted(i)' = Asserted(i)
        /\ \A st : Holds(Asserted(i), st)' = Holds(Asserted(i), st)
    BY <1>1 DEF Asserted, Holds, Readable
<1>7. LoopTypes'
    <2>1. satisfied' \subseteq DOMAIN case'.assertions
        BY <1>1 DEF LoopInv, LoopTypes
    <2>2. \A o \in seen' : o.tick \in Nat /\ o.tick <= tick
        BY <1>1, <1>2, <1>4 DEF LoopInv, LoopTypes
    <2>3. phase' \in Looping \cup {"load", "conclude", "done"} /\ phase' # "done" /\ phase' # "load"
        BY <1>5 DEF Looping
    <2>4. result = "none" /\ case.expectError # "compile"
        BY <1>1 DEF LoopInv, LoopTypes, Looping
    <2>5. after \in {"judge", "step", "stimuli"}
        BY DEF LoopInv, LoopTypes
    <2> HIDE DEF here, matching, broken
    <2> QED BY <1>1, <1>2, <2>1, <2>2, <2>3, <2>4, <2>5 DEF LoopTypes
<1>8. Witnessed'
    <2> SUFFICES ASSUME NEW i \in satisfied'
                 PROVE  \E o \in seen' : o.tick <= Asserted(i)'.tick /\ Holds(Asserted(i), o.values)'
        BY DEF Witnessed
    <2>0. i \in DOMAIN case.assertions
        BY <1>1 DEF LoopInv, LoopTypes
    <2>1. CASE i \in satisfied
        <3>1. PICK o \in seen : o.tick <= Asserted(i).tick /\ Holds(Asserted(i), o.values)
            BY <1>2, <2>1 DEF Witnessed
        <3>2. Holds(Asserted(i), o.values)'
            BY <1>1, <3>1 DEF Asserted, Holds, Readable
        <3>3. Asserted(i)' = Asserted(i)
            BY <1>1 DEF Asserted
        <3> QED BY <1>1, <3>1, <3>2, <3>3
    <2>2. CASE i \notin satisfied
        <3>1. Asserted(i).kind = "eventually" /\ Holds(Asserted(i), values)
            BY <1>1, <2>2 DEF MatchesNow, Asserted
        <3>2. tick <= Asserted(i).tick
            BY <1>2, <2>0, <2>2, <3>1 DEF InTime
        <3>3. Holds(Asserted(i), values)'
            BY <1>1, <3>1 DEF Asserted, Holds, Readable
        <3>4. Asserted(i)' = Asserted(i)
            BY <1>1 DEF Asserted
        <3>5. here \in seen' /\ here.values' = values'
            BY <1>1
        <3> QED BY <1>1, <1>4, <3>2, <3>3, <3>4, <3>5
    <2> QED BY <2>1, <2>2
<1>9. ASSUME ~broken PROVE AllSeen' /\ (InTime /\ FinalsJudged)'
    <2>0. \A i \in DOMAIN case.assertions : ~FailsNow(i)
        BY <1>9
    <2>1. ASSUME NEW i \in DOMAIN case.assertions, NEW o \in seen' PROVE SeenAt(Asserted(i), o)'
        <3>1. CASE o \in seen
            <4>1. SeenAt(Asserted(i), o)
                BY <1>2, <3>1 DEF AllSeen
            <4> QED BY <1>1, <4>1 DEF SeenAt, Asserted, Holds, Readable
        <3>2. CASE o = here
            <4>1. SeenAt(Asserted(i), here)
                BY <1>4, <2>0, NotBroken DEF SeenAt
            <4> QED BY <1>1, <3>2, <4>1 DEF SeenAt, Asserted, Holds, Readable
        <3> QED BY <1>1, <3>1, <3>2
    <2>2. AllSeen'
        BY <1>1, <2>1 DEF AllSeen
    <2>3. ASSUME NEW i \in DOMAIN case.assertions, Asserted(i).kind = "eventually",
                 i \notin satisfied'
          PROVE  tick < Asserted(i).tick
        <3>1. ~Holds(Asserted(i), values) /\ i \notin satisfied
            BY <1>1, <2>3 DEF MatchesNow, Asserted
        <3>2. ~(tick >= Asserted(i).tick)
            BY <2>0, <2>3, <3>1, NotBroken
        <3> QED BY <1>2, <1>3, <3>2
    <2>4. InTime'
        <3>1. \A i \in DOMAIN case.assertions :
                Asserted(i).kind = "eventually" /\ i \notin satisfied' =>
                    tick <= Asserted(i).tick /\ tick < Asserted(i).tick
            BY <1>2, <1>3, <2>3
        <3> QED BY <1>1, <3>1 DEF InTime, Asserted
    <2>5. ASSUME NEW i \in DOMAIN case.assertions, Asserted(i).kind = "final", tick >= MaxTicks
          PROVE  Holds(Asserted(i), values) \/ MaxTicks < case.maxTicks
        <3>1. MaxTicks < case.maxTicks \/ tick = case.maxTicks
            BY <1>2, <1>3, <2>5
        <3>2. tick = case.maxTicks => Holds(Asserted(i), values)
            BY <2>0, <2>5, NotBroken
        <3> QED BY <3>1, <3>2
    <2>6. FinalsJudged'
        <3>1. \A i \in DOMAIN case.assertions : Asserted(i).kind = "final" /\ tick >= MaxTicks =>
                Holds(Asserted(i), values) \/ MaxTicks < case.maxTicks
            BY <2>5
        <3> QED BY <1>1, <3>1 DEF FinalsJudged, Asserted, Holds, Readable, MaxTicks
    <2> QED BY <2>2, <2>4, <2>6
<1> HIDE DEF broken, here, matching
<1>10. CASE phase' = "conclude"
    <2>1. (tick <= MaxTicks)'
        BY <1>1, <1>2 DEF MaxTicks
    <2>2. failed' \/ (AllSeen /\ FinalsJudged)'
        BY <1>5, <1>9, <1>10
    <2> QED BY <1>7, <1>8, <1>10, <2>1, <2>2 DEF LoopInv, Looping
<1>11. CASE phase' = "step"
    <2>1. ~broken /\ tick < MaxTicks
        BY <1>2, <1>3, <1>5, <1>11
    <2>2. ~Leaving'
        BY <1>11 DEF Leaving
    <2>3. WithinTicks'
        BY <1>1, <1>2, <2>1, <2>2 DEF WithinTicks, MaxTicks
    <2> QED BY <1>7, <1>8, <1>9, <1>11, <2>1, <2>3 DEF LoopInv
<1> QED
    BY <1>5, <1>10, <1>11

\* The scheduler's steps: an instruction, the end of a tick, or an error.
LEMMA StepsSound ==
    ASSUME LoopInv, SchedulerStep PROVE LoopInv'
<1>1. phase = "step" /\ UNCHANGED <<case, ceiling, seen, satisfied, result>>
    BY DEF SchedulerStep, ProgramStep, EndTick, StepFails, setup
<1>2. /\ phase \in Looping /\ Judged /\ AllSeen /\ Witnessed /\ InTime
      /\ tick \in Nat /\ operations \in Nat /\ tick < MaxTicks
      /\ case \in Cases /\ ceiling \in Ceilings
      /\ after \in {"judge", "step", "stimuli"}
    BY <1>1 DEF LoopInv, LoopTypes, Looping, Judged, WithinTicks
<1>3. MaxTicks \in Nat /\ \A i \in DOMAIN case.assertions : Asserted(i).tick \in Nat
    BY <1>2, LimitFacts
<1>4. CASE ProgramStep
    <2>1. /\ phase' = "due" /\ tick' = tick /\ operations' = operations + 1
          /\ after' = IF operations' >= MaxOperations THEN "stimuli" ELSE "step"
        BY <1>4 DEF ProgramStep
    <2>2. operations' \in Nat /\ after' \in {"judge", "step", "stimuli"} /\ phase' \in Looping
        BY <1>2, <2>1 DEF Looping
    <2> QED BY <1>1, <1>2, <2>1, <2>2, JudgementKept
<1>5. ASSUME tick' = tick + 1, operations' = operations, after' \in {"judge", "step", "stimuli"},
             \/ phase' = "due" /\ after' = "stimuli"
             \/ phase' = "conclude" /\ error' # "none"
      PROVE  LoopInv'
    <2>1. \A o \in seen : o.tick \in Nat /\ o.tick <= tick
        BY DEF LoopInv, LoopTypes
    <2>2. Unseen'
        BY <1>1, <1>2, <1>5, <2>1 DEF Unseen
    <2>3. tick' <= MaxTicks /\ tick' \in Nat /\ \A o \in seen : o.tick \in Nat /\ o.tick <= tick'
        BY <1>2, <1>3, <1>5, <2>1
    <2>4. (tick <= MaxTicks)'
        BY <1>1, <2>3 DEF MaxTicks
    <2>5. phase' \in Looping \cup {"load", "conclude", "done"} /\ phase' # "done" /\ phase' # "load"
        BY <1>5 DEF Looping
    <2>6. result = "none" /\ case.expectError # "compile" /\ satisfied \subseteq DOMAIN case.assertions
        BY <1>1, <1>2 DEF LoopInv, LoopTypes, Looping
    <2>7. LoopTypes'
        BY <1>1, <1>2, <1>5, <2>3, <2>5, <2>6 DEF LoopTypes
    <2>8. Witnessed'
        BY <1>1, <1>2 DEF Witnessed, Asserted, Holds, Readable
    <2>9. AllSeen'
        BY <1>1, <1>2 DEF AllSeen, Asserted, SeenAt, Holds, Readable
    <2>10. CASE phase' = "conclude" /\ error' # "none"
        <3>1. FinalsJudged'
            BY <2>2, <2>10 DEF FinalsJudged
        <3> QED BY <2>4, <2>7, <2>8, <2>9, <2>10, <3>1 DEF LoopInv, Looping
    <2>11. CASE phase' = "due" /\ after' = "stimuli"
        <3>1. ~Judged'
            BY <2>11 DEF Judged
        <3>2. \A i \in DOMAIN case.assertions :
                Asserted(i).kind = "eventually" /\ i \notin satisfied => tick' <= Asserted(i).tick
            BY <1>2, <1>3, <1>5 DEF InTime
        <3>3. InTime'
            BY <1>1, <3>1, <3>2 DEF InTime, Asserted
        <3>4. WithinTicks'
            BY <2>2, <2>4, <3>1 DEF WithinTicks
        <3> QED BY <2>7, <2>8, <2>9, <2>11, <3>3, <3>4 DEF LoopInv
    <2> QED BY <1>5, <2>10, <2>11
<1>6. CASE EndTick
    <2>1. tick' = tick + 1 /\ operations' = operations /\ phase' = "due" /\ after' = "stimuli"
        BY <1>6 DEF EndTick
    <2> QED BY <1>5, <2>1
<1>7. CASE StepFails
    <2>1. /\ phase' = "conclude" /\ error' # "none" /\ operations' = operations /\ after' = after
          /\ tick' = tick \/ tick' = tick + 1
        BY <1>7 DEF StepFails
    <2>2. CASE tick' = tick
        BY <1>1, <1>2, <2>1, <2>2, ErrorConcludes
    <2>3. CASE tick' = tick + 1
        BY <1>2, <1>5, <2>1, <2>3
    <2> QED BY <2>1, <2>2, <2>3
<1> QED
    BY <1>4, <1>6, <1>7 DEF SchedulerStep

\* The verdict.
LEMMA ConcludeSound ==
    ASSUME LoopInv, Conclude PROVE LoopInv'
<1> DEFINE bad == \/ failed \/ ErrorUnexpected \/ EventuallyMissed
                  \/ FinalBroken \/ OutOfOperations \/ SnapshotDiffers
<1>1. /\ phase = "conclude" /\ phase' = "done" /\ error' = error
      /\ result' = (IF bad THEN "Failed" ELSE "Passed")
      /\ UNCHANGED <<case, ceiling, values, tick, program, operations, after, satisfied, seen>>
    BY DEF Conclude, Finish, setup
<1>2. /\ case \in Cases /\ ceiling \in Ceilings /\ tick \in Nat /\ operations \in Nat
      /\ case.expectError # "compile" /\ Witnessed /\ tick <= MaxTicks
      /\ failed \/ (AllSeen /\ FinalsJudged)
    BY <1>1 DEF LoopInv, LoopTypes
<1>3. /\ MaxTicks \in Nat /\ MaxOperations \in Nat
      /\ case.expectError \in {"none", "runtime"}
    BY <1>2, LimitFacts DEF Expectations
<1>4. LoopTypes'
    BY <1>1 DEF LoopInv, LoopTypes, Looping
<1>5. Witnessed'
    BY <1>1, <1>2 DEF Witnessed, Asserted, Holds, Readable
<1>6. PassedIsSound'
    <2> SUFFICES ASSUME ~bad PROVE PassedIsSound'
        BY <1>1 DEF PassedIsSound
    <2>1. ~failed /\ ~ErrorUnexpected /\ ~EventuallyMissed /\ ~FinalBroken /\ ~OutOfOperations /\ ~SnapshotDiffers
        OBVIOUS
    <2> HIDE DEF bad
    <2>2. (error = "none" <=> case.expectError = "none") /\ error # "other"
          /\ (error # "none" => error = "expected")
        BY <1>3, <2>1 DEF ErrorUnexpected, MatchesExpectedError
    <2>3. IsFinished \/ operations < MaxOperations
        BY <1>2, <1>3, <2>1 DEF OutOfOperations
    <2>4. \A s \in case.snapshot : Holds(s, values)
        BY <2>1 DEF SnapshotDiffers
    <2>5. ASSUME NEW i \in DOMAIN case.assertions
          PROVE  /\ \A o \in seen : SeenAt(Asserted(i), o)
                 /\ Asserted(i).kind = "eventually" =>
                       \E o \in seen : o.tick <= Asserted(i).tick /\ Holds(Asserted(i), o.values)
                 /\ Asserted(i).kind = "final" =>
                       \/ Holds(Asserted(i), values)
                       \/ tick = MaxTicks /\ MaxTicks < case.maxTicks
                       \/ tick = MaxTicks /\ error = "expected" /\ \A o \in seen : o.tick < tick
        <3>1. \A o \in seen : SeenAt(Asserted(i), o)
            BY <1>2, <2>1 DEF AllSeen
        <3>2. Asserted(i).kind = "eventually" =>
                \E o \in seen : o.tick <= Asserted(i).tick /\ Holds(Asserted(i), o.values)
            BY <1>2, <2>1 DEF EventuallyMissed, Witnessed, Asserted
        <3>3. ASSUME Asserted(i).kind = "final", ~Holds(Asserted(i), values)
              PROVE  /\ tick = MaxTicks
                     /\ MaxTicks < case.maxTicks \/ (error = "expected" /\ Unseen)
            <4>1. ~(tick < MaxTicks)
                BY <2>1, <3>3 DEF FinalBroken, Asserted
            <4>2. tick = MaxTicks /\ tick >= MaxTicks
                BY <1>2, <1>3, <4>1
            <4>3. MaxTicks < case.maxTicks \/ (error # "none" /\ Unseen)
                BY <1>2, <2>1, <3>3, <4>2 DEF FinalsJudged
            <4> QED BY <2>2, <4>2, <4>3
        <3> QED BY <3>1, <3>2, <3>3 DEF Unseen
    <2>6. (error = "none" <=> case.expectError = "none")' /\ (error # "other")'
        BY <1>1, <2>2
    <2>7. (IsFinished \/ operations < MaxOperations)'
        BY <1>1, <2>3 DEF IsFinished, MaxOperations
    <2>8. (\A s \in case.snapshot : Holds(s, values))'
        BY <1>1, <2>4 DEF Holds, Readable
    <2>9. (\A i \in DOMAIN case.assertions :
              LET a == case.assertions[i]
              IN  /\ \A o \in seen : SeenAt(a, o)
                  /\ a.kind = "eventually" =>
                        \E o \in seen : o.tick <= a.tick /\ Holds(a, o.values)
                  /\ a.kind = "final" =>
                        \/ Holds(a, values)
                        \/ tick = MaxTicks /\ MaxTicks < case.maxTicks
                        \/ /\ tick = MaxTicks /\ error = "expected"
                           /\ \A o \in seen : o.tick < tick)'
        BY <1>1, <2>5 DEF Asserted, SeenAt, Holds, Readable, MaxTicks
    <2> QED BY <2>6, <2>7, <2>8, <2>9 DEF PassedIsSound
<1> QED
    BY <1>1, <1>4, <1>5, <1>6 DEF LoopInv, Looping

LEMMA LoopStep == LoopInv /\ [Next]_vars => LoopInv'
<1> SUFFICES ASSUME LoopInv, [Next]_vars PROVE LoopInv'
    OBVIOUS
<1>1. CASE UNCHANGED vars
    BY <1>1 DEF vars, LoopInv, LoopTypes, Looping, Witnessed, AllSeen, InTime, WithinTicks,
        FinalsJudged, Asserted, Judged, Leaving, Unseen, SeenAt, Holds, Readable, MaxTicks,
        MaxOperations, PassedIsSound, Ran, IsFinished
<1> QED
    BY <1>1, LoadSound, StimuliSound, PumpsSound, JudgeSound, StepsSound, ConcludeSound DEF Next

\* A case reported as passed did what it says, whatever the case, the ceilings
\* of the command line, the program and the drivers (run_scenario_case,
\* evaluate_assertions, run_explicit_case).
THEOREM PassedMeansPassed == Spec => []PassedIsSound
<1>1. LoopInv => PassedIsSound
    <2>1. ASSUME LoopInv, phase # "done" PROVE PassedIsSound
        BY <2>1 DEF LoopInv, LoopTypes, PassedIsSound
    <2> QED BY <2>1 DEF LoopInv
<1> QED
    BY <1>1, StartsSound, LoopStep, PTL DEF Spec

-----------------------------------------------------------------------------
(* The drivers.  What follows needs induction over the lists of actions    *)
(* and writes; it is done on sets of numbers, with UpTo.                   *)

\* Induction up to n, for a set.
LEMMA UpTo ==
    ASSUME NEW n \in Nat, NEW X, 0 \in X,
           \A i \in 0 .. n : i \in X /\ i < n => i + 1 \in X
    PROVE  \A i \in 0 .. n : i \in X
<1> DEFINE R == {p \in Nat \X Nat : p[1] < p[2]}
           Bad == {i \in 0 .. n : i \notin X}
<1> SUFFICES ASSUME Bad # {} PROVE FALSE
    OBVIOUS
<1>1. IsWellFoundedOn(R, Nat)
    BY NatLessThanWellFounded, Zenon DEF OpToRel
<1>2. Bad \in SUBSET Nat
    OBVIOUS
<1>3. PICK m \in Bad : \A o \in Bad : ~(<<o, m>> \in R)
    <2> HIDE DEF R, Bad
    <2> QED BY <1>1, <1>2, WFMin, Zenon
<1>4. m \in Nat /\ m # 0 /\ m <= n
    OBVIOUS
<1>5. m - 1 \in 0 .. n /\ <<m - 1, m>> \in R
    BY <1>4
<1>6. m - 1 \notin Bad
    BY <1>3, <1>5, Zenon
<1> QED
    BY <1>4, <1>5, <1>6

\* The greatest member of a set of numbers that has n and none above it.
LEMMA GreatestIs ==
    ASSUME NEW n \in Int, NEW s \in SUBSET Int, n \in s, \A i \in s : i <= n
    PROVE  Max(s) = n
<1>1. \A x \in s : (\A y \in s : x >= y) => x = n
    OBVIOUS
<1>2. \A y \in s : n >= y
    OBVIOUS
<1> QED BY <1>1, <1>2 DEF Max

LEMMA GreatestOf ==
    ASSUME NEW n \in Nat, NEW s \in SUBSET (1 .. n), s # {}
    PROVE  Max(s) \in s /\ \A i \in s : i <= Max(s)
<1> DEFINE X == {k \in 0 .. n : \A t \in SUBSET (1 .. k) : t # {} =>
                                   \E m \in t : \A i \in t : i <= m}
<1>1. 0 \in X
    <2>1. 0 \in 0 .. n /\ \A t \in SUBSET (1 .. 0) : t = {}
        OBVIOUS
    <2> QED BY <2>1, Zenon
<1>2. ASSUME NEW k \in 0 .. n, k \in X, k < n PROVE k + 1 \in X
    <2>1. SUFFICES ASSUME NEW t \in SUBSET (1 .. k + 1), t # {}
                   PROVE  \E m \in t : \A i \in t : i <= m
        BY <1>2
    <2>2. CASE k + 1 \in t
        BY <2>2
    <2>3. CASE k + 1 \notin t
        <3>1. t \in SUBSET (1 .. k)
            BY <2>3
        <3>2. \A r \in SUBSET (1 .. k) : r # {} => \E m \in r : \A i \in r : i <= m
            BY <1>2, Zenon
        <3> HIDE DEF X
        <3> QED BY <2>1, <3>1, <3>2, Zenon
    <2> QED BY <2>2, <2>3
<1>3. n \in X
    <2> HIDE DEF X
    <2> QED BY <1>1, <1>2, UpTo
<1>4. PICK m \in s : \A i \in s : i <= m
    BY <1>3
<1> QED
    BY <1>4, GreatestIs

\* The results acc[0], acc[1], ... after none, one, ... of the members of a.
ExecuteRun(acc, b, a, n) ==
    /\ acc[0] = b
    /\ \A i \in 1 .. n : acc[i] = Execute(acc[i - 1], a[i])
    /\ ExecuteAll(b, a) = acc[n]

\* The running results of ExecuteAll.
LEMMA ExecuteUnfolds ==
    ASSUME NEW b, NEW n \in Nat, NEW a, DOMAIN a = 1 .. n
    PROVE  \E acc : ExecuteRun(acc, b, a, n)
<1> DEFINE Is(h, k) == h = [s \in SUBSET (1 .. k) |->
                              IF s = {} THEN b ELSE Execute(h[s \ {Max(s)}], a[Max(s)])]
           X == {k \in 0 .. n : \E h : Is(h, k)}
<1>1. 0 \in X
    <2> DEFINE h == [s \in SUBSET (1 .. 0) |-> b]
    <2>1. \A s \in SUBSET (1 .. 0) : s = {}
        OBVIOUS
    <2>2. Is(h, 0)
        BY <2>1, Zenon
    <2> QED BY <2>2
<1>2. ASSUME NEW k \in 0 .. n, k \in X, k < n PROVE k + 1 \in X
    <2>1. PICK h : Is(h, k)
        BY <1>2
    <2> DEFINE g == [s \in SUBSET (1 .. k + 1) |->
                        IF k + 1 \in s THEN Execute(h[s \ {k + 1}], a[k + 1]) ELSE h[s]]
    <2>2. ASSUME NEW s \in SUBSET (1 .. k + 1)
          PROVE  g[s] = IF s = {} THEN b ELSE Execute(g[s \ {Max(s)}], a[Max(s)])
        <3>1. CASE s = {}
            <4>1. s \in SUBSET (1 .. k) /\ k + 1 \notin s
                BY <3>1
            <4> QED BY <2>1, <3>1, <4>1
        <3>2. CASE k + 1 \in s
            <4>1. Max(s) = k + 1
                BY <3>2, GreatestIs
            <4>2. s \ {k + 1} \in SUBSET (1 .. k + 1) /\ k + 1 \notin s \ {k + 1}
                OBVIOUS
            <4>3. g[s \ {k + 1}] = h[s \ {k + 1}]
                BY <4>2, Zenon
            <4>4. g[s] = Execute(h[s \ {k + 1}], a[k + 1])
                BY <3>2, Zenon
            <4> HIDE DEF g
            <4> QED BY <3>2, <4>1, <4>3, <4>4, Zenon
        <3>3. CASE s # {} /\ k + 1 \notin s
            <4>1. s \in SUBSET (1 .. k)
                BY <3>3
            <4>2. s \ {Max(s)} \in SUBSET (1 .. k + 1) /\ k + 1 \notin s \ {Max(s)}
                BY <3>3
            <4>3. g[s \ {Max(s)}] = h[s \ {Max(s)}] /\ g[s] = h[s]
                BY <3>3, <4>2, Zenon
            <4>4. h[s] = Execute(h[s \ {Max(s)}], a[Max(s)])
                <5> HIDE DEF g
                <5> QED BY <2>1, <3>3, <4>1, Zenon
            <4> HIDE DEF g
            <4> QED BY <3>3, <4>3, <4>4, Zenon
        <3> QED BY <3>1, <3>2, <3>3
    <2>3. Is(g, k + 1)
        <3>1. g = [s \in SUBSET (1 .. k + 1) |-> g[s]]
            BY Zenon
        <3> HIDE DEF g
        <3> QED BY <2>2, <3>1, Zenon
    <2>4. k + 1 \in 0 .. n
        BY <1>2
    <2> HIDE DEF g
    <2> QED BY <2>3, <2>4, Zenon
<1>3. n \in X
    <2> HIDE DEF X
    <2> QED BY <1>1, <1>2, UpTo
<1> DEFINE f == CHOOSE h : Is(h, n)
<1>4. Is(f, n)
    BY <1>3, Zenon
<1>5. ExecuteAll(b, a) = f[1 .. n]
    <2>1. ExecuteAll(b, a) = (CHOOSE h : h = [s \in SUBSET DOMAIN a |->
                  IF s = {} THEN b ELSE Execute(h[s \ {Max(s)}], a[Max(s)])])[DOMAIN a]
        BY Zenon DEF ExecuteAll, FoldLeft, MapThenFoldSet
    <2> QED BY <2>1, Zenon
<1> HIDE DEF f
<1> DEFINE acc == [i \in 0 .. n |-> f[1 .. i]]
<1>6. acc[0] = b
    <2>1. 1 .. 0 = {} /\ {} \in SUBSET (1 .. n) /\ 0 \in 0 .. n
        OBVIOUS
    <2> QED BY <1>4, <2>1
<1>7. ASSUME NEW i \in 1 .. n PROVE acc[i] = Execute(acc[i - 1], a[i])
    <2>1. 1 .. i \in SUBSET (1 .. n) /\ 1 .. i # {} /\ i \in 0 .. n /\ i - 1 \in 0 .. n
        OBVIOUS
    <2>2. Max(1 .. i) = i
        <3>1. i \in Int /\ 1 .. i \in SUBSET Int /\ i \in 1 .. i /\ \A j \in 1 .. i : j <= i
            OBVIOUS
        <3> QED BY <3>1, GreatestIs
    <2>3. (1 .. i) \ {i} = 1 .. (i - 1)
        OBVIOUS
    <2>4. f[1 .. i] = Execute(f[(1 .. i) \ {Max(1 .. i)}], a[Max(1 .. i)])
        BY <1>4, <2>1, Zenon
    <2>5. acc[i] = f[1 .. i] /\ acc[i - 1] = f[1 .. (i - 1)]
        BY <2>1, Zenon
    <2> HIDE DEF acc
    <2> QED BY <2>2, <2>3, <2>4, <2>5, Zenon
<1>8. ExecuteAll(b, a) = acc[n]
    <2>1. n \in 0 .. n
        OBVIOUS
    <2> QED BY <1>5, <2>1, Zenon
<1> HIDE DEF acc
<1> QED
    BY <1>6, <1>7, <1>8 DEF ExecuteRun
\* The results acc[0], acc[1], ... after none, one, ... of the members of a.
StoreRun(acc, b, a, n) ==
    /\ acc[0] = b
    /\ \A i \in 1 .. n : acc[i] = Store(acc[i - 1], a[i])
    /\ FoldLeft(Store, b, a) = acc[n]

\* The running results of writing one after the other.
LEMMA StoreUnfolds ==
    ASSUME NEW b, NEW n \in Nat, NEW a, DOMAIN a = 1 .. n
    PROVE  \E acc : StoreRun(acc, b, a, n)
<1> DEFINE Is(h, k) == h = [s \in SUBSET (1 .. k) |->
                              IF s = {} THEN b ELSE Store(h[s \ {Max(s)}], a[Max(s)])]
           X == {k \in 0 .. n : \E h : Is(h, k)}
<1>1. 0 \in X
    <2> DEFINE h == [s \in SUBSET (1 .. 0) |-> b]
    <2>1. \A s \in SUBSET (1 .. 0) : s = {}
        OBVIOUS
    <2>2. Is(h, 0)
        BY <2>1, Zenon
    <2> QED BY <2>2
<1>2. ASSUME NEW k \in 0 .. n, k \in X, k < n PROVE k + 1 \in X
    <2>1. PICK h : Is(h, k)
        BY <1>2
    <2> DEFINE g == [s \in SUBSET (1 .. k + 1) |->
                        IF k + 1 \in s THEN Store(h[s \ {k + 1}], a[k + 1]) ELSE h[s]]
    <2>2. ASSUME NEW s \in SUBSET (1 .. k + 1)
          PROVE  g[s] = IF s = {} THEN b ELSE Store(g[s \ {Max(s)}], a[Max(s)])
        <3>1. CASE s = {}
            <4>1. s \in SUBSET (1 .. k) /\ k + 1 \notin s
                BY <3>1
            <4> QED BY <2>1, <3>1, <4>1
        <3>2. CASE k + 1 \in s
            <4>1. Max(s) = k + 1
                BY <3>2, GreatestIs
            <4>2. s \ {k + 1} \in SUBSET (1 .. k + 1) /\ k + 1 \notin s \ {k + 1}
                OBVIOUS
            <4>3. g[s \ {k + 1}] = h[s \ {k + 1}]
                BY <4>2, Zenon
            <4>4. g[s] = Store(h[s \ {k + 1}], a[k + 1])
                BY <3>2, Zenon
            <4> HIDE DEF g
            <4> QED BY <3>2, <4>1, <4>3, <4>4, Zenon
        <3>3. CASE s # {} /\ k + 1 \notin s
            <4>1. s \in SUBSET (1 .. k)
                BY <3>3
            <4>2. s \ {Max(s)} \in SUBSET (1 .. k + 1) /\ k + 1 \notin s \ {Max(s)}
                BY <3>3
            <4>3. g[s \ {Max(s)}] = h[s \ {Max(s)}] /\ g[s] = h[s]
                BY <3>3, <4>2, Zenon
            <4>4. h[s] = Store(h[s \ {Max(s)}], a[Max(s)])
                <5> HIDE DEF g
                <5> QED BY <2>1, <3>3, <4>1, Zenon
            <4> HIDE DEF g
            <4> QED BY <3>3, <4>3, <4>4, Zenon
        <3> QED BY <3>1, <3>2, <3>3
    <2>3. Is(g, k + 1)
        <3>1. g = [s \in SUBSET (1 .. k + 1) |-> g[s]]
            BY Zenon
        <3> HIDE DEF g
        <3> QED BY <2>2, <3>1, Zenon
    <2>4. k + 1 \in 0 .. n
        BY <1>2
    <2> HIDE DEF g
    <2> QED BY <2>3, <2>4, Zenon
<1>3. n \in X
    <2> HIDE DEF X
    <2> QED BY <1>1, <1>2, UpTo
<1> DEFINE f == CHOOSE h : Is(h, n)
<1>4. Is(f, n)
    BY <1>3, Zenon
<1>5. FoldLeft(Store, b, a) = f[1 .. n]
    <2>1. FoldLeft(Store, b, a) = (CHOOSE h : h = [s \in SUBSET DOMAIN a |->
                  IF s = {} THEN b ELSE Store(h[s \ {Max(s)}], a[Max(s)])])[DOMAIN a]
        BY Zenon DEF FoldLeft, MapThenFoldSet
    <2> QED BY <2>1, Zenon
<1> HIDE DEF f
<1> DEFINE acc == [i \in 0 .. n |-> f[1 .. i]]
<1>6. acc[0] = b
    <2>1. 1 .. 0 = {} /\ {} \in SUBSET (1 .. n) /\ 0 \in 0 .. n
        OBVIOUS
    <2> QED BY <1>4, <2>1
<1>7. ASSUME NEW i \in 1 .. n PROVE acc[i] = Store(acc[i - 1], a[i])
    <2>1. 1 .. i \in SUBSET (1 .. n) /\ 1 .. i # {} /\ i \in 0 .. n /\ i - 1 \in 0 .. n
        OBVIOUS
    <2>2. Max(1 .. i) = i
        <3>1. i \in Int /\ 1 .. i \in SUBSET Int /\ i \in 1 .. i /\ \A j \in 1 .. i : j <= i
            OBVIOUS
        <3> QED BY <3>1, GreatestIs
    <2>3. (1 .. i) \ {i} = 1 .. (i - 1)
        OBVIOUS
    <2>4. f[1 .. i] = Store(f[(1 .. i) \ {Max(1 .. i)}], a[Max(1 .. i)])
        BY <1>4, <2>1, Zenon
    <2>5. acc[i] = f[1 .. i] /\ acc[i - 1] = f[1 .. (i - 1)]
        BY <2>1, Zenon
    <2> HIDE DEF acc
    <2> QED BY <2>2, <2>3, <2>4, <2>5, Zenon
<1>8. FoldLeft(Store, b, a) = acc[n]
    <2>1. n \in 0 .. n
        OBVIOUS
    <2> QED BY <1>5, <2>1, Zenon
<1> HIDE DEF acc
<1> QED
    BY <1>6, <1>7, <1>8 DEF StoreRun

-----------------------------------------------------------------------------
(* Sequences.                                                              *)

\* FlattenSeq makes one sequence of a sequence of sequences.
LEMMA FlattenType ==
    ASSUME NEW S, NEW ss \in Seq(Seq(S))
    PROVE  FlattenSeq(ss) \in Seq(S)
<1>0. PICK n \in Nat : n = Len(ss) /\ \A i \in 1 .. n : ss[i] \in Seq(S)
    OBVIOUS
<1> DEFINE Is(h, k) == h = [i \in 1 .. k |-> IF i = 1 THEN ss[i] ELSE h[i - 1] \o ss[i]]
           X == {k \in 0 .. n : \E h : Is(h, k)}
<1>1. CASE n = 0
    <2>0. <<>> \in Seq(S)
        OBVIOUS
    <2>1. ss = <<>>
        <3>1. Len(ss) = 0
            BY <1>0, <1>1
        <3> QED BY <3>1
    <2>2. FlattenSeq(ss) = ss
        BY <1>0, <1>1, Zenon DEF FlattenSeq
    <2> QED BY <2>0, <2>1, <2>2, Zenon
<1>2. CASE n # 0
    <2>1. 0 \in X
        <3>1. Is([i \in 1 .. 0 |-> ss], 0) /\ 0 \in 0 .. n
            OBVIOUS
        <3> QED BY <3>1, Zenon
    <2>2. ASSUME NEW k \in 0 .. n, k \in X, k < n PROVE k + 1 \in X
        <3>1. PICK h : Is(h, k)
            BY <2>2
        <3> DEFINE g == [i \in 1 .. k + 1 |->
                            IF i = k + 1 THEN IF i = 1 THEN ss[i] ELSE h[k] \o ss[i] ELSE h[i]]
        <3>2. ASSUME NEW i \in 1 .. k + 1
              PROVE  g[i] = IF i = 1 THEN ss[i] ELSE g[i - 1] \o ss[i]
            <4>1. CASE i = k + 1 /\ i # 1
                <5>1. i - 1 \in 1 .. k + 1 /\ i - 1 # k + 1 /\ i - 1 = k
                    BY <1>0, <4>1
                <5> QED BY <4>1, <5>1
            <4>2. CASE i = k + 1 /\ i = 1
                BY <4>2
            <4>3. CASE i # k + 1
                <5>1. i \in 1 .. k /\ (i # 1 => i - 1 \in 1 .. k + 1 /\ i - 1 # k + 1)
                    BY <1>0, <4>3
                <5>2. g[i] = h[i] /\ (i # 1 => g[i - 1] = h[i - 1])
                    BY <4>3, <5>1
                <5>3. h[i] = IF i = 1 THEN ss[i] ELSE h[i - 1] \o ss[i]
                    <6> HIDE DEF g
                    <6> QED BY <3>1, <5>1, Zenon
                <5> HIDE DEF g
                <5> QED BY <5>2, <5>3
            <4> QED BY <4>1, <4>2, <4>3
        <3>3. Is(g, k + 1)
            <4>1. g = [i \in 1 .. k + 1 |-> g[i]]
                BY Zenon
            <4> HIDE DEF g
            <4> QED BY <3>2, <4>1, Zenon
        <3>4. k + 1 \in 0 .. n
            BY <1>0, <2>2
        <3> HIDE DEF g
        <3> QED BY <3>3, <3>4, Zenon
    <2>3. n \in X
        <3> HIDE DEF X
        <3>1. n \in Nat /\ n \in 0 .. n
            BY <1>0
        <3> QED BY <2>1, <2>2, <3>1, UpTo
    <2> DEFINE f == CHOOSE h : Is(h, n)
    <2>4. Is(f, n)
        BY <2>3, Zenon
    <2>5. FlattenSeq(ss) = f[n]
        <3>1. FlattenSeq(ss) = (CHOOSE h : h = [i \in 1 .. Len(ss) |->
                  IF i = 1 THEN ss[i] ELSE h[i - 1] \o ss[i]])[Len(ss)]
            BY <1>0, <1>2, Zenon DEF FlattenSeq
        <3> QED BY <1>0, <3>1, Zenon
    <2> HIDE DEF f, X
    <2> DEFINE Y == {k \in 0 .. n : k # 0 => f[k] \in Seq(S)}
    <2>6. 0 \in Y
        BY <1>0
    <2>7. ASSUME NEW k \in 0 .. n, k \in Y, k < n PROVE k + 1 \in Y
        <3>1. k + 1 \in 1 .. n /\ k + 1 \in 0 .. n /\ k + 1 - 1 = k
            BY <1>0, <2>7
        <3>2. ASSUME NEW j \in 1 .. n PROVE f[j] = IF j = 1 THEN ss[j] ELSE f[j - 1] \o ss[j]
            <4> HIDE DEF Y
            <4> QED BY <2>4, <3>2, Zenon
        <3>3. CASE k = 0
            <4>1. f[k + 1] = ss[k + 1]
                BY <3>1, <3>2, <3>3
            <4> QED BY <1>0, <3>1, <4>1
        <3>4. CASE k # 0
            <4>1. f[k] \in Seq(S) /\ ss[k + 1] \in Seq(S)
                BY <1>0, <2>7, <3>1, <3>4
            <4>2. k + 1 # 1
                BY <3>4
            <4>4. f[k + 1] = f[k] \o ss[k + 1]
                <5>1. PICK j \in 1 .. n : j = k + 1 /\ j # 1 /\ j - 1 = k
                    BY <3>1, <4>2
                <5> HIDE DEF Y
                <5>2. f[j] = f[j - 1] \o ss[j]
                    BY <3>2, <5>1, Zenon
                <5> QED BY <5>1, <5>2, Zenon
            <4>5. f[k + 1] \in Seq(S)
                BY <4>1, <4>4
            <4> QED BY <3>1, <4>5
        <3> QED BY <3>3, <3>4
    <2>8. n \in Y
        <3> HIDE DEF Y
        <3>1. n \in Nat /\ n \in 0 .. n
            BY <1>0
        <3> QED BY <2>6, <2>7, <3>1, UpTo
    <2> QED BY <1>2, <2>5, <2>8
<1> QED BY <1>1, <1>2

LEMMA ConcatIs ==
    ASSUME NEW S, NEW s \in Seq(S), NEW t \in Seq(S)
    PROVE  /\ s \o t \in Seq(S) /\ Len(s \o t) = Len(s) + Len(t)
           /\ \A i \in 1 .. Len(s) + Len(t) :
                 (s \o t)[i] = IF i <= Len(s) THEN s[i] ELSE t[i - Len(s)]
OBVIOUS

LEMMA SequenceIs ==
    ASSUME NEW s PROVE IsSequence(s) => s \in Seq(ToSet(s)) /\ Len(s) \in Nat /\ DOMAIN s = 1 .. Len(s)
BY DEF IsSequence

LEMMA SequenceOf ==
    ASSUME NEW S, NEW s \in Seq(S) PROVE IsSequence(s)
<1>1. \A i \in 1 .. Len(s) : s[i] \in ToSet(s)
    BY DEF ToSet
<1> QED BY <1>1 DEF IsSequence

LEMMA AppendIs ==
    ASSUME NEW s, IsSequence(s), NEW x PROVE IsSequence(Append(s, x))
<1> DEFINE T == ToSet(s) \cup {x}
<1>1. s \in Seq(ToSet(s))
    BY DEF IsSequence
<1>2. s \in Seq(T)
    BY <1>1
<1>3. Append(s, x) \in Seq(T)
    BY <1>2
<1> HIDE DEF T
<1> QED BY <1>3, SequenceOf

-----------------------------------------------------------------------------
(* The drivers' list.                                                      *)

Events == [tick : Nat, action : ScriptActions]

Sorted(list) == \A i, j \in 1 .. Len(list) : i < j => list[i].tick <= list[j].tick

NoneBefore(list, t) == \A i \in 1 .. Len(list) : list[i].tick >= t

LEMMA TicksAre ==
    ASSUME NEW list \in Seq(Events)
    PROVE  Len(list) \in Nat /\ \A i \in 1 .. Len(list) : list[i].tick \in Nat
<1>1. Len(list) \in Nat
    OBVIOUS
<1>2. ASSUME NEW i \in 1 .. Len(list) PROVE list[i].tick \in Nat
    <2>1. list[i] \in Events
        OBVIOUS
    <2> QED BY <2>1 DEF Events
<1> QED BY <1>1, <1>2

LEMMA LeadingIs ==
    ASSUME NEW list \in Seq(Events), NEW t \in Nat
    PROVE  LET n == LeadingUpTo(list, t)
           IN  /\ n \in 0 .. Len(list)
               /\ \A i \in 1 .. n : list[i].tick <= t
               /\ n < Len(list) => list[n + 1].tick > t
<1> DEFINE P(n) == /\ \A i \in 1 .. n : list[i].tick <= t
                   /\ n < Len(list) => list[n + 1].tick > t
           X == {k \in 0 .. Len(list) : \A i \in 1 .. k : list[i].tick <= t}
<1>0. Len(list) \in Nat /\ \A i \in 1 .. Len(list) : list[i].tick \in Nat
    BY TicksAre
<1>1. \E n \in 0 .. Len(list) : P(n)
    <2> SUFFICES ASSUME ~\E n \in 0 .. Len(list) : P(n) PROVE FALSE
        OBVIOUS
    <2>1. 0 \in X
        BY <1>0
    <2>2. ASSUME NEW k \in 0 .. Len(list), k \in X, k < Len(list) PROVE k + 1 \in X
        <3>1. ~P(k)
            OBVIOUS
        <3>2. list[k + 1].tick <= t
            BY <1>0, <2>2, <3>1
        <3> QED BY <1>0, <2>2, <3>2
    <2>3. Len(list) \in X
        <3>1. PICK m \in Nat : m = Len(list)
            BY <1>0
        <3> HIDE DEF X, P
        <3> QED BY <2>1, <2>2, <3>1, UpTo
    <2>4. P(Len(list)) /\ Len(list) \in 0 .. Len(list)
        BY <1>0, <2>3
    <2> QED BY <2>4
<1>2. LeadingUpTo(list, t) = CHOOSE n \in 0 .. Len(list) : P(n)
    BY DEF LeadingUpTo
<1>3. LeadingUpTo(list, t) \in 0 .. Len(list) /\ P(LeadingUpTo(list, t))
    <2> HIDE DEF P
    <2> QED BY <1>1, <1>2, Zenon
<1> QED BY <1>3

\* New events of one tick are sorted in.
LEMMA InsertIs ==
    ASSUME NEW list \in Seq(Events), Sorted(list), NEW due \in Nat,
           NEW events \in Seq(Events), \A i \in 1 .. Len(events) : events[i].tick = due
    PROVE  /\ Insert(list, events, due) \in Seq(Events)
           /\ Sorted(Insert(list, events, due))
           /\ \A t \in Nat : NoneBefore(list, t) /\ due >= t =>
                  NoneBefore(Insert(list, events, due), t)
<1>1. PICK n \in 0 .. Len(list) :
          /\ n = LeadingUpTo(list, due)
          /\ \A i \in 1 .. n : list[i].tick <= due
          /\ n < Len(list) => list[n + 1].tick > due
    BY LeadingIs
<1> DEFINE p == SubSeq(list, 1, n)
           q == SubSeq(list, n + 1, Len(list))
           r == p \o events \o q
           m == Len(events)
<1>2. Insert(list, events, due) = r
    BY <1>1 DEF Insert
<1>3. /\ p \in Seq(Events) /\ Len(p) = n /\ \A i \in 1 .. n : p[i] = list[i]
      /\ q \in Seq(Events) /\ Len(q) = Len(list) - n /\ \A i \in 1 .. Len(list) - n : q[i] = list[n + i]
    BY SMTT(30), <1>1
<1>4. Len(list) \in Nat /\ m \in Nat /\ n \in Nat /\ n <= Len(list)
    BY <1>1
<1> HIDE DEF p, q
<1>5. /\ r \in Seq(Events) /\ Len(r) = n + m + (Len(list) - n)
      /\ \A i \in 1 .. n : r[i] = p[i]
      /\ \A i \in n + 1 .. n + m : r[i] = events[i - n]
      /\ \A i \in n + m + 1 .. Len(r) : r[i] = q[i - n - m]
    <2> DEFINE pe == p \o events
    <2>1. /\ pe \in Seq(Events) /\ Len(pe) = n + m
          /\ \A i \in 1 .. n + m : pe[i] = IF i <= n THEN p[i] ELSE events[i - n]
        <3>1. p \in Seq(Events) /\ Len(p) = n /\ Len(events) = m
            BY <1>3
        <3> HIDE DEF m
        <3> QED BY <3>1, ConcatIs
    <2>2. r = pe \o q
        OBVIOUS
    <2> HIDE DEF pe, r, m
    <2>3. /\ r \in Seq(Events) /\ Len(r) = n + m + (Len(list) - n)
          /\ \A i \in 1 .. Len(r) : r[i] = IF i <= n + m THEN pe[i] ELSE q[i - (n + m)]
        <3>1. pe \in Seq(Events) /\ q \in Seq(Events) /\ Len(pe) = n + m /\ Len(q) = Len(list) - n
            BY <1>3, <2>1
        <3>2. /\ pe \o q \in Seq(Events) /\ Len(pe \o q) = Len(pe) + Len(q)
              /\ \A i \in 1 .. Len(pe) + Len(q) :
                    (pe \o q)[i] = IF i <= Len(pe) THEN pe[i] ELSE q[i - Len(pe)]
            BY <3>1, ConcatIs
        <3> QED BY <2>2, <3>1, <3>2, Zenon
    <2>4. \A i \in 1 .. n : r[i] = p[i]
        BY SMTT(30), <1>4, <2>1, <2>3
    <2>5. \A i \in n + 1 .. n + m : r[i] = events[i - n]
        <3> SUFFICES ASSUME NEW i \in n + 1 .. n + m PROVE r[i] = events[i - n]
            OBVIOUS
        <3>1. i \in 1 .. Len(r) /\ i \in 1 .. n + m /\ i <= n + m /\ ~(i <= n)
            BY <1>4, <2>3
        <3> QED BY <2>1, <2>3, <3>1
    <2>6. ASSUME NEW i \in n + m + 1 .. Len(r) PROVE r[i] = q[i - n - m]
        <3>1. i \in 1 .. Len(r) /\ ~(i <= n + m) /\ i - (n + m) = i - n - m
            BY <1>4, <2>3
        <3> QED BY <2>3, <3>1
    <2> QED BY <2>3, <2>4, <2>5, <2>6
<1> HIDE DEF r, m
<1>6. \A i \in 1 .. Len(list) : list[i].tick \in Nat
    BY TicksAre
<1>7. \A i \in n + 1 .. Len(list) : list[i].tick > due
    BY <1>1, <1>4, <1>6 DEF Sorted
<1>8. \A i \in 1 .. n : r[i].tick = list[i].tick /\ r[i].tick \in Nat /\ r[i].tick <= due
    <2> SUFFICES ASSUME NEW i \in 1 .. n
                 PROVE  r[i].tick = list[i].tick /\ r[i].tick \in Nat /\ r[i].tick <= due
        OBVIOUS
    <2>1. r[i] = list[i] /\ i \in 1 .. Len(list)
        BY <1>3, <1>4, <1>5
    <2>2. list[i].tick \in Nat /\ list[i].tick <= due
        BY <1>1, <1>6, <2>1
    <2> QED BY <2>1, <2>2
<1>9. \A i \in n + 1 .. n + m : r[i].tick = due
    <2> SUFFICES ASSUME NEW i \in n + 1 .. n + m PROVE r[i].tick = due
        OBVIOUS
    <2>1. i - n \in 1 .. Len(events)
        BY <1>4 DEF m
    <2> QED BY <1>5, <2>1
<1>10. \A i \in n + m + 1 .. Len(r) : /\ i - m \in n + 1 .. Len(list)
                                      /\ r[i].tick = list[i - m].tick
    <2> SUFFICES ASSUME NEW i \in n + m + 1 .. Len(r)
                 PROVE  i - m \in n + 1 .. Len(list) /\ r[i].tick = list[i - m].tick
        OBVIOUS
    <2>1. i - n - m \in 1 .. Len(list) - n /\ n + (i - n - m) = i - m /\ i - m \in n + 1 .. Len(list)
        BY <1>4, <1>5
    <2>2. r[i] = q[i - n - m] /\ q[i - n - m] = list[n + (i - n - m)]
        BY <1>3, <1>5, <2>1
    <2> QED BY <2>1, <2>2
<1>11. \A i \in n + m + 1 .. Len(r) : r[i].tick \in Nat /\ r[i].tick > due
    BY SMTT(30), <1>4, <1>6, <1>7, <1>10
<1>12. Sorted(r)
    <2> SUFFICES ASSUME NEW i \in 1 .. Len(r), NEW j \in 1 .. Len(r), i < j
                 PROVE  r[i].tick <= r[j].tick
        BY DEF Sorted
    <2>1. CASE j \in 1 .. n
        <3>1. i \in 1 .. n /\ i \in 1 .. Len(list) /\ j \in 1 .. Len(list)
            BY <1>4, <2>1
        <3>2. list[i].tick <= list[j].tick
            BY <3>1 DEF Sorted
        <3> QED BY <1>8, <2>1, <3>1, <3>2
    <2>2. CASE j \in n + 1 .. n + m
        <3>1. i \in 1 .. n \/ i \in n + 1 .. n + m
            BY <1>4, <2>2
        <3> QED BY <1>8, <1>9, <2>2, <3>1
    <2>3. CASE j \in n + m + 1 .. Len(r)
        <3>1. CASE i \in n + m + 1 .. Len(r)
            <4>1. i - m \in 1 .. Len(list) /\ j - m \in 1 .. Len(list) /\ i - m < j - m
                BY <1>4, <1>10, <2>3, <3>1
            <4>2. list[i - m].tick <= list[j - m].tick
                BY <4>1 DEF Sorted
            <4> QED BY <1>10, <2>3, <3>1, <4>2
        <3>2. CASE i \in 1 .. n
            <4>1. r[i].tick <= due /\ r[j].tick > due /\ r[i].tick \in Nat /\ r[j].tick \in Nat
                BY <1>8, <1>11, <2>3, <3>2
            <4> QED BY <4>1
        <3>3. CASE i \in n + 1 .. n + m
            <4>1. r[i].tick = due /\ r[j].tick > due /\ r[j].tick \in Nat
                BY <1>9, <1>11, <2>3, <3>3
            <4> QED BY <4>1
        <3> QED BY <1>4, <1>5, <3>1, <3>2, <3>3
    <2> QED BY <1>4, <1>5, <2>1, <2>2, <2>3
<1>13. ASSUME NEW t \in Nat, NoneBefore(list, t), due >= t PROVE NoneBefore(r, t)
    <2> SUFFICES ASSUME NEW i \in 1 .. Len(r) PROVE r[i].tick >= t
        BY DEF NoneBefore
    <2>1. CASE i \in 1 .. n
        <3>1. list[i].tick >= t
            BY <1>4, <1>13, <2>1 DEF NoneBefore
        <3> QED BY <1>8, <2>1, <3>1
    <2>2. CASE i \in n + 1 .. n + m
        BY <1>9, <1>13, <2>2
    <2>3. CASE i \in n + m + 1 .. Len(r)
        <3>1. r[i].tick > due /\ r[i].tick \in Nat
            BY <1>11, <2>3
        <3> QED BY <1>13, <3>1
    <2> QED BY <1>4, <1>5, <2>1, <2>2, <2>3
<1> QED
    BY <1>2, <1>5, <1>12, <1>13

-----------------------------------------------------------------------------
(* What the actions of a driver do to the list.                            *)

WorkFields == {"values", "unread", "pending", "actionsRun", "refused"}

Orderly(list) == list \in Seq(Events) /\ Sorted(list)

InOrder(w) ==
    /\ DOMAIN w = WorkFields
    /\ Orderly(w.pending) /\ NoneBefore(w.pending, tick)
    /\ IsSequence(w.unread)

LEMMA StoreIs ==
    ASSUME NEW w, DOMAIN w = WorkFields, IsSequence(w.unread), NEW write
    PROVE  /\ DOMAIN Store(w, write) = WorkFields
           /\ IsSequence(Store(w, write).unread)
           /\ Store(w, write).pending = w.pending
           /\ Store(w, write).refused = w.refused
<1> DEFINE x == [target |-> write.target, value |-> write.value]
           v == [w.values EXCEPT ![write.target] = write.value]
<1>1. Store(w, write) = [[w EXCEPT !.values = v] EXCEPT !.unread = Append(w.unread, x)]
    BY DEF Store, WorkFields
<1> HIDE DEF x, v
<1>2. IsSequence(Append(w.unread, x))
    BY AppendIs
<1>3. /\ DOMAIN Store(w, write) = WorkFields
      /\ Store(w, write).unread = Append(w.unread, x)
      /\ Store(w, write).pending = w.pending
      /\ Store(w, write).refused = w.refused
    BY <1>1 DEF WorkFields
<1> QED BY <1>2, <1>3

LEMMA StoreAllIs ==
    ASSUME NEW b, DOMAIN b = WorkFields, IsSequence(b.unread), NEW a, IsSequence(a)
    PROVE  LET w == FoldLeft(Store, b, a)
           IN  /\ DOMAIN w = WorkFields /\ IsSequence(w.unread)
               /\ w.pending = b.pending /\ w.refused = b.refused
<1>1. PICK n \in Nat : DOMAIN a = 1 .. n
    BY SequenceIs
<1>2. PICK acc : StoreRun(acc, b, a, n)
    BY <1>1, StoreUnfolds
<1>2a. /\ acc[0] = b
       /\ \A i \in 1 .. n : acc[i] = Store(acc[i - 1], a[i])
       /\ FoldLeft(Store, b, a) = acc[n]
    BY <1>2 DEF StoreRun
<1> DEFINE P(w) == /\ DOMAIN w = WorkFields /\ IsSequence(w.unread)
                   /\ w.pending = b.pending /\ w.refused = b.refused
           X == {i \in 0 .. n : P(acc[i])}
<1>3. 0 \in X
    BY <1>1, <1>2a
<1>4. ASSUME NEW k \in 0 .. n, k \in X, k < n PROVE k + 1 \in X
    <2>1. k + 1 \in 1 .. n /\ k + 1 \in 0 .. n /\ k + 1 - 1 = k
        BY <1>4
    <2>2. acc[k + 1] = Store(acc[k], a[k + 1])
        BY <1>2a, <2>1
    <2>3. P(acc[k])
        BY <1>4
    <2>4. P(Store(acc[k], a[k + 1]))
        BY <2>3, StoreIs
    <2> HIDE DEF P
    <2> QED BY <2>1, <2>2, <2>4
<1>5. n \in X
    <2>1. n \in Nat /\ n \in 0 .. n
        BY <1>1
    <2> HIDE DEF X
    <2> QED BY <1>3, <1>4, <2>1, UpTo
<1> QED BY <1>2a, <1>5

\* A move writes twice for each of its fields.
LEMMA MoveWritesAre ==
    ASSUME NEW held, NEW fields, IsSequence(fields) PROVE IsSequence(MoveWrites(held, fields))
<1> DEFINE s == MoveWrites(held, fields)
<1>1. Len(fields) \in Nat
    BY DEF IsSequence
<1>2. PICK n \in Nat : n = 2 * Len(fields)
    BY <1>1
<1>3. DOMAIN s = 1 .. n /\ s = [i \in 1 .. n |-> s[i]]
    BY <1>2 DEF MoveWrites
<1> HIDE DEF s
<1>4. s \in Seq({s[i] : i \in 1 .. n})
    <2>1. \A i \in 1 .. n : s[i] \in {s[j] : j \in 1 .. n}
        OBVIOUS
    <2> QED BY <1>3, <2>1
<1> QED BY <1>4, SequenceOf DEF s

LEMMA ExecuteKeeps ==
    ASSUME NEW w, InOrder(w), NEW action \in ScriptActions, tick \in Nat
    PROVE  InOrder(Execute(w, action))
<1> DEFINE counted == [w EXCEPT !.actionsRun = @ + 1]
<1>1. /\ DOMAIN counted = WorkFields
      /\ counted.pending = w.pending /\ counted.unread = w.unread
    BY DEF InOrder, WorkFields
<1>2. InOrder(counted)
    BY <1>1 DEF InOrder
<1> HIDE DEF counted
<1>3. InOrder([counted EXCEPT !.refused = TRUE])
    <2>1. LET r == [counted EXCEPT !.refused = TRUE]
          IN  DOMAIN r = WorkFields /\ r.pending = counted.pending /\ r.unread = counted.unread
        BY <1>1 DEF WorkFields
    <2> QED BY <1>2, <2>1 DEF InOrder
<1>4. InOrder(Store(counted, action))
    BY <1>2, StoreIs DEF InOrder
<1>4a. ASSUME action.op = "moveSlot"
       PROVE  InOrder(FoldLeft(Store, counted, MoveWrites(counted.values, action.fields)))
    <2>1. IsSequence(MoveWrites(counted.values, action.fields))
        BY <1>4a, ActionsAssumption, MoveWritesAre
    <2> QED BY <1>2, <2>1, StoreAllIs DEF InOrder
<1>5. ASSUME action.op = "schedule" PROVE InOrder(ScheduleEach(counted, action))
    <2> DEFINE due == tick + action.after
               events == [i \in DOMAIN action.actions |->
                             [tick |-> due, action |-> action.actions[i]]]
               r == [counted EXCEPT !.pending = Insert(counted.pending, events, due)]
    <2>1. action.after \in Nat /\ action.actions \in Seq(ScriptActions)
        BY <1>5, ActionsAssumption
    <2>2. due \in Nat /\ due >= tick
        BY <2>1
    <2>3. PICK n \in Nat : DOMAIN action.actions = 1 .. n /\ \A i \in 1 .. n : action.actions[i] \in ScriptActions
        BY <2>1
    <2>4. \A i \in 1 .. n : events[i] \in Events /\ events[i].tick = due
        BY <2>2, <2>3 DEF Events
    <2>5. events \in Seq(Events) /\ Len(events) = n
        <3>1. events = [i \in 1 .. n |-> events[i]]
            BY <2>3
        <3> HIDE DEF events
        <3> QED BY <2>4, <3>1
    <2>6. ScheduleEach(counted, action) = r
        BY <1>1, Zenon DEF ScheduleEach, WorkFields
    <2> HIDE DEF events, due
    <2>7. /\ DOMAIN r = WorkFields /\ r.unread = counted.unread
          /\ r.pending = Insert(counted.pending, events, due)
        BY <1>1 DEF WorkFields
    <2>8. counted.pending \in Seq(Events) /\ Sorted(counted.pending) /\ NoneBefore(counted.pending, tick)
        BY <1>2 DEF InOrder, Orderly
    <2>9. Orderly(r.pending) /\ NoneBefore(r.pending, tick)
        BY <2>2, <2>4, <2>5, <2>7, <2>8, InsertIs DEF Orderly
    <2> HIDE DEF r
    <2> QED BY <1>2, <2>6, <2>7, <2>9 DEF InOrder
<1>6. \/ Execute(w, action) \in {w, [counted EXCEPT !.refused = TRUE], Store(counted, action)}
      \/ /\ action.op = "moveSlot"
         /\ Execute(w, action) = FoldLeft(Store, counted, MoveWrites(counted.values, action.fields))
      \/ /\ action.op \notin {"set", "moveSlot"}
         /\ Execute(w, action) = ScheduleEach(counted, action)
    BY Zenon DEF Execute, counted
<1>7. action.op \in {"set", "moveSlot", "schedule"}
    BY ActionsAssumption
<1> QED
    BY <1>3, <1>4, <1>4a, <1>5, <1>6, <1>7

LEMMA ExecuteAllKeeps ==
    ASSUME NEW b, InOrder(b), NEW a \in Seq(ScriptActions), tick \in Nat
    PROVE  InOrder(ExecuteAll(b, a))
<1>1. PICK n \in Nat : DOMAIN a = 1 .. n /\ \A i \in 1 .. n : a[i] \in ScriptActions
    OBVIOUS
<1>2. PICK acc : ExecuteRun(acc, b, a, n)
    BY <1>1, ExecuteUnfolds
<1>2a. /\ acc[0] = b
       /\ \A i \in 1 .. n : acc[i] = Execute(acc[i - 1], a[i])
       /\ ExecuteAll(b, a) = acc[n]
    BY <1>2 DEF ExecuteRun
<1> DEFINE X == {i \in 0 .. n : InOrder(acc[i])}
<1>3. 0 \in X
    BY <1>1, <1>2a
<1>4. ASSUME NEW k \in 0 .. n, k \in X, k < n PROVE k + 1 \in X
    <2>1. k + 1 \in 1 .. n /\ k + 1 \in 0 .. n /\ k + 1 - 1 = k
        BY <1>4
    <2>2. acc[k + 1] = Execute(acc[k], a[k + 1])
        BY <1>2a, <2>1
    <2>3. InOrder(Execute(acc[k], a[k + 1]))
        BY <1>1, <1>4, <2>1, ExecuteKeeps
    <2> QED BY <2>1, <2>2, <2>3
<1>5. n \in X
    <2>1. n \in Nat /\ n \in 0 .. n
        BY <1>1
    <2> HIDE DEF X
    <2> QED BY <1>3, <1>4, <2>1, UpTo
<1> QED BY <1>2a, <1>5

-----------------------------------------------------------------------------
(* What the writes trigger.                                                *)

LEMMA FilterType ==
    ASSUME NEW S, NEW s \in Seq(S), NEW f \in [1 .. Len(s) -> BOOLEAN]
    PROVE  FlattenSeq([i \in DOMAIN s |-> IF f[i] THEN <<s[i]>> ELSE <<>>]) \in Seq(S)
<1> DEFINE ss == [i \in DOMAIN s |-> IF f[i] THEN <<s[i]>> ELSE <<>>]
<1>1. PICK n \in Nat : DOMAIN s = 1 .. n /\ \A i \in 1 .. n : s[i] \in S
    OBVIOUS
<1>2. \A i \in 1 .. n : ss[i] \in Seq(S)
    BY <1>1
<1>3. ss = [i \in 1 .. n |-> ss[i]]
    BY <1>1
<1> HIDE DEF ss
<1>4. ss \in Seq(Seq(S))
    BY <1>2, <1>3
<1> QED BY <1>4, FlattenType DEF ss

LEMMA TriggeredIs ==
    ASSUME case \in Cases, NEW writes, IsSequence(writes)
    PROVE  Triggered(writes) \in Seq(ToSet(case.rules))
<1> DEFINE S == ToSet(case.rules)
           ss == [i \in DOMAIN writes |->
                     Filter(case.rules, LAMBDA rule : Matches(rule, writes[i]))]
<1>1. case.rules \in Seq(S)
    BY CasesAssumption DEF CompleteRules, IsSequence
<1>2. PICK n \in Nat : DOMAIN writes = 1 .. n
    BY SequenceIs
<1> HIDE DEF S
<1>3. ASSUME NEW i \in 1 .. n PROVE ss[i] \in Seq(S)
    <2> DEFINE f == [j \in 1 .. Len(case.rules) |-> Matches(case.rules[j], writes[i])]
               g == [j \in DOMAIN case.rules |->
                        IF Matches(case.rules[j], writes[i]) THEN <<case.rules[j]>> ELSE <<>>]
    <2>1. f \in [1 .. Len(case.rules) -> BOOLEAN]
        BY DEF Matches
    <2>2. DOMAIN case.rules = 1 .. Len(case.rules)
        BY <1>1
    <2>3. g = [j \in DOMAIN case.rules |-> IF f[j] THEN <<case.rules[j]>> ELSE <<>>]
        BY <2>2
    <2>4. ss[i] = FlattenSeq(g)
        BY <1>2, Zenon DEF Filter
    <2> HIDE DEF f, g
    <2>5. FlattenSeq([j \in DOMAIN case.rules |-> IF f[j] THEN <<case.rules[j]>> ELSE <<>>]) \in Seq(S)
        BY <1>1, <2>1, FilterType
    <2> QED BY <2>3, <2>4, <2>5, Zenon
<1>4. ss = [i \in 1 .. n |-> ss[i]]
    BY <1>2, Zenon
<1>5. Triggered(writes) = FlattenSeq(ss)
    BY Zenon DEF Triggered, TriggeredOf
<1> HIDE DEF ss
<1>6. ss \in Seq(Seq(S))
    BY <1>3, <1>4
<1> QED BY <1>5, <1>6, FlattenType DEF S

\* The applied entries of the timeline are a sequence.
LEMMA AppliedIs ==
    ASSUME case \in Cases
    PROVE  IsSequence(Filter(case.timeline, LAMBDA e : e.tick = tick /\ Assignable(e.target)))
<1> DEFINE S == ToSet(case.timeline)
           f == [j \in 1 .. Len(case.timeline) |->
                    case.timeline[j].tick = tick /\ Assignable(case.timeline[j].target)]
           g == [j \in DOMAIN case.timeline |->
                    IF case.timeline[j].tick = tick /\ Assignable(case.timeline[j].target)
                    THEN <<case.timeline[j]>> ELSE <<>>]
<1>1. case.timeline \in Seq(S)
    BY CasesAssumption DEF IsSequence
<1>2. f \in [1 .. Len(case.timeline) -> BOOLEAN] /\ DOMAIN case.timeline = 1 .. Len(case.timeline)
    BY <1>1
<1>3. g = [j \in DOMAIN case.timeline |-> IF f[j] THEN <<case.timeline[j]>> ELSE <<>>]
    BY <1>2
<1>4. Filter(case.timeline, LAMBDA e : e.tick = tick /\ Assignable(e.target)) = FlattenSeq(g)
    BY Zenon DEF Filter
<1> HIDE DEF f, g, S
<1>5. FlattenSeq([j \in DOMAIN case.timeline |-> IF f[j] THEN <<case.timeline[j]>> ELSE <<>>]) \in Seq(S)
    BY <1>1, <1>2, FilterType
<1>6. FlattenSeq(g) \in Seq(S)
    BY <1>3, <1>5, Zenon
<1> QED BY <1>4, <1>6, SequenceOf

-----------------------------------------------------------------------------
(* The inductive invariant of the drivers.                                 *)

\* The loop is not about to end.
Running == {"stimuli", "due", "react", "step"}

DriversInv ==
    /\ Orderly(pending) /\ IsSequence(unread)
    /\ matched \in Int /\ fired \in Int
    /\ phase \in Running => error = "none"
    /\ EveryWriteAnswered
    /\ phase \in {"react", "judge"} /\ error = "none" => NoneBefore(pending, tick)

\* Nothing was written: nothing is triggered.
LEMMA NothingTriggered == Len(Triggered(<<>>)) = 0
<1> DEFINE ss == [i \in DOMAIN <<>> |-> Filter(case.rules, LAMBDA rule : Matches(rule, <<>>[i]))]
<1>1. Triggered(<<>>) = FlattenSeq(ss)
    BY Zenon DEF Triggered, TriggeredOf
<1>2. ss = <<>>
    OBVIOUS
<1> HIDE DEF ss
<1>3. FlattenSeq(ss) = ss
    <2>1. Len(ss) = 0
        BY <1>2
    <2> QED BY <2>1, Zenon DEF FlattenSeq
<1> QED BY <1>1, <1>2, <1>3

LEMMA TriggeredLen ==
    ASSUME case \in Cases, NEW writes, IsSequence(writes)
    PROVE  Len(Triggered(writes)) \in Nat
BY TriggeredIs

LEMMA WorkIs ==
    /\ DOMAIN Work = WorkFields /\ Work.pending = pending /\ Work.unread = unread
    /\ Work.refused = FALSE
BY DEF Work, WorkFields

LEMMA DriversStart == Init => DriversInv
<1> SUFFICES ASSUME Init PROVE DriversInv
    OBVIOUS
<1>1. /\ pending = <<>> /\ unread = <<>> /\ matched = 0 /\ fired = 0 /\ phase = "load"
    BY DEF Init
<1>2. Orderly(pending)
    BY <1>1 DEF Orderly, Sorted
<1>3. IsSequence(unread)
    BY <1>1 DEF IsSequence
<1>4. EveryWriteAnswered
    BY <1>1, NothingTriggered DEF EveryWriteAnswered
<1> QED BY <1>1, <1>2, <1>3, <1>4 DEF DriversInv, Running

\* A step that leaves the drivers alone, or ends the loop with an error.
LEMMA DriversKept ==
    ASSUME DriversInv, UNCHANGED <<case, pending, unread, matched, fired>>,
           \/ error' = error
           \/ error' # "none",
           phase' \in Running => error' = "none",
           phase' \notin {"react", "judge"}
    PROVE  DriversInv'
<1>1. Orderly(pending)' /\ IsSequence(unread)' /\ (matched \in Int /\ fired \in Int)'
    BY DEF DriversInv, Orderly, Sorted, IsSequence, ToSet
<1>2. EveryWriteAnswered'
    <2>1. Triggered(unread)' = Triggered(unread)
        BY DEF Triggered
    <2> QED BY <2>1 DEF DriversInv, EveryWriteAnswered
<1> QED BY <1>1, <1>2 DEF DriversInv

\* What a list of writes or actions leaves behind, committed.
LEMMA CommitIs ==
    ASSUME case \in Cases, DriversInv, error = "none", UNCHANGED <<case, fired>>,
           NEW w, Commit(w), IsSequence(w.unread), Orderly(w.pending)
    PROVE  /\ Orderly(pending)' /\ IsSequence(unread)'
           /\ matched' \in Int /\ fired' \in Int
           /\ EveryWriteAnswered'
<1>1. /\ unread' = w.unread /\ pending' = w.pending
      /\ matched' = matched + Len(Triggered(w.unread)) - Len(Triggered(unread))
    BY DEF Commit
<1>2. /\ IsSequence(unread) /\ matched \in Int /\ fired \in Int
      /\ matched = fired + Len(Triggered(unread))
    BY DEF DriversInv, EveryWriteAnswered
<1>3. Len(Triggered(unread)) \in Nat /\ Len(Triggered(w.unread)) \in Nat
    BY <1>2, TriggeredLen
<1>4. Triggered(unread)' = Triggered(w.unread)
    BY <1>1 DEF Triggered
<1>5. matched' \in Int /\ matched' = fired' + Len(Triggered(unread)')
    BY <1>1, <1>2, <1>3, <1>4
<1>6. Orderly(pending)' /\ IsSequence(unread)'
    BY <1>1 DEF Orderly, Sorted, IsSequence, ToSet
<1> QED BY <1>2, <1>5, <1>6 DEF EveryWriteAnswered

\* Writes do not touch the drivers' list: the stimuli, and the program.
LEMMA WritesKeep ==
    ASSUME case \in Cases, DriversInv, phase \in Running, UNCHANGED <<case, fired>>,
           NEW w, IsSequence(w.unread), w.pending = pending, w.refused = FALSE,
           Commit(w), phase' = "due"
    PROVE  DriversInv'
<1>1. Orderly(pending) /\ IsSequence(unread) /\ error = "none"
    BY DEF DriversInv
<1>2. IsSequence(w.unread) /\ w.pending = pending /\ w.refused = FALSE
    OBVIOUS
<1>3. Commit(w)
    OBVIOUS
<1>4. Orderly(w.pending)
    BY <1>1, <1>2
<1>5. error' = "none"
    BY <1>1, <1>2, <1>3 DEF Commit, ErrorAfter
<1>6. /\ Orderly(pending)' /\ IsSequence(unread)' /\ matched' \in Int /\ fired' \in Int
      /\ EveryWriteAnswered'
    BY <1>1, <1>2, <1>3, <1>4, CommitIs
<1> QED BY <1>5, <1>6 DEF DriversInv

LEMMA StimuliKeep ==
    ASSUME LoopInv, DriversInv, Stimuli PROVE DriversInv'
<1> DEFINE applied == Filter(case.timeline, LAMBDA e : e.tick = tick /\ Assignable(e.target))
<1>0. case \in Cases
    BY DEF LoopInv, LoopTypes
<1>1. IsSequence(applied)
    BY <1>0, AppliedIs
<1>2. /\ phase \in Running /\ phase' = "due" /\ UNCHANGED <<case, fired>>
      /\ Commit(FoldLeft(Store, Work, applied))
    BY Zenon DEF Stimuli, setup, Running
<1> HIDE DEF applied
<1>3. IsSequence(unread)
    BY DEF DriversInv
<1> DEFINE w == FoldLeft(Store, Work, applied)
<1>4. IsSequence(w.unread) /\ w.pending = pending /\ w.refused = FALSE /\ Commit(w)
    BY <1>1, <1>2, <1>3, WorkIs, StoreAllIs
<1> HIDE DEF w
<1> QED BY <1>0, <1>2, <1>4, WritesKeep

LEMMA ProgramKeeps ==
    ASSUME LoopInv, DriversInv, ProgramStep PROVE DriversInv'
<1>0. case \in Cases
    BY DEF LoopInv, LoopTypes
<1> DEFINE all(step) == FoldLeft(Store, Work, step.writes)
           kept(step) == FoldLeft(Store, Work, step.journalled)
           w(step) == [all(step) EXCEPT !.unread = kept(step).unread]
<1>1. PICK step \in ProgramSteps : Commit(w(step))
    BY Zenon DEF ProgramStep
<1>2. /\ DOMAIN all(step) = WorkFields
      /\ all(step).pending = pending /\ all(step).refused = FALSE
      /\ IsSequence(kept(step).unread)
    <2>1. IsSequence(step.writes) /\ IsSequence(step.journalled) /\ IsSequence(unread)
        BY StepsAssumption DEF DriversInv
    <2> QED BY <2>1, WorkIs, StoreAllIs
<1> HIDE DEF all, kept
<1>2a. /\ IsSequence(w(step).unread)
       /\ w(step).pending = pending /\ w(step).refused = FALSE
    BY <1>2 DEF WorkFields
<1> HIDE DEF w
<1>3. phase \in Running /\ phase' = "due" /\ UNCHANGED <<case, fired>>
    BY Zenon DEF ProgramStep, setup, Running
<1> QED BY <1>0, <1>1, <1>2a, <1>3, WritesKeep

\* Where the actions of a pump lead.
LEMMA PumpKeeps ==
    ASSUME LoopInv, NEW w, InOrder(w), error' \in ErrorAfter(w), error = "none",
           pending' = w.pending, tick' = tick, after \in {"judge", "step", "stimuli"},
           phase' = IF w.refused THEN Pumped(TRUE) ELSE "react"
    PROVE  /\ phase' \in Running => error' = "none"
           /\ phase' \in {"react", "judge"} /\ error' = "none" => NoneBefore(pending, tick)'
<1>1. CASE w.refused
    <2>1. error' # "none" /\ phase' = Pumped(TRUE)
        BY <1>1 DEF ErrorAfter
    <2>2. phase' \in {"judge", "conclude"}
        BY <2>1 DEF Pumped
    <2> QED BY <2>1, <2>2 DEF Running
<1>2. CASE ~w.refused
    <2>1. error' = "none"
        BY <1>2 DEF ErrorAfter
    <2>2. NoneBefore(pending, tick)'
        BY DEF InOrder, NoneBefore
    <2> QED BY <2>1, <2>2
<1> QED BY <1>1, <1>2

\* The due actions have left: what remains is for later ticks, and so is what
\* they schedule.
LEMMA DueKeeps ==
    ASSUME LoopInv, DriversInv, PumpDue PROVE DriversInv'
<1> DEFINE count == LeadingUpTo(pending, tick)
           rest == SubSeq(pending, count + 1, Len(pending))
           base == [Work EXCEPT !.pending = rest]
           actions == [i \in 1 .. count |-> pending[i].action]
           done == ExecuteAll(base, actions)
<1>0. /\ case \in Cases /\ tick \in Nat /\ after \in {"judge", "step", "stimuli"}
      /\ pending \in Seq(Events) /\ Sorted(pending) /\ IsSequence(unread)
    BY DEF LoopInv, LoopTypes, DriversInv, Orderly
<1>1. /\ phase \in Running /\ UNCHANGED <<case, fired, tick>>
      /\ Commit(done)
      /\ phase' = IF done.refused THEN Pumped(TRUE) ELSE "react"
    BY Zenon DEF PumpDue, setup, Running
<1>2. error = "none"
    BY <1>1 DEF DriversInv
<1>3. /\ count \in 0 .. Len(pending)
      /\ count < Len(pending) => pending[count + 1].tick > tick
    BY <1>0, LeadingIs
<1> HIDE DEF count
<1>4. Len(pending) \in Nat /\ count \in Nat /\ \A i \in 1 .. Len(pending) : pending[i].tick \in Nat
    BY <1>0, <1>3, TicksAre
<1>5. \A i \in count + 1 .. Len(pending) : pending[i].tick > tick
    <2> SUFFICES ASSUME NEW i \in count + 1 .. Len(pending) PROVE pending[i].tick > tick
        OBVIOUS
    <2>1. count + 1 \in 1 .. Len(pending) /\ i \in 1 .. Len(pending) /\ count < Len(pending)
        BY <1>3, <1>4
    <2>2. i = count + 1 \/ pending[count + 1].tick <= pending[i].tick
        BY <1>0, <1>4, <2>1 DEF Sorted
    <2> QED BY <1>0, <1>3, <1>4, <2>1, <2>2
<1>6. /\ rest \in Seq(Events) /\ Len(rest) = Len(pending) - count
      /\ \A i \in 1 .. Len(pending) - count : rest[i] = pending[count + i]
    BY <1>0, <1>3, <1>4
<1>7. actions \in Seq(ScriptActions)
    <2>1. \A i \in 1 .. count : pending[i] \in Events /\ pending[i].action \in ScriptActions
        <3> SUFFICES ASSUME NEW i \in 1 .. count
                     PROVE  pending[i] \in Events /\ pending[i].action \in ScriptActions
            OBVIOUS
        <3>1. i \in 1 .. Len(pending)
            BY <1>3, <1>4
        <3>2. pending[i] \in Events
            BY <1>0, <3>1
        <3> QED BY <3>2 DEF Events
    <2> QED BY <1>4, <2>1
<1> HIDE DEF rest, actions
<1>8. Sorted(rest) /\ NoneBefore(rest, tick)
    <2>1. ASSUME NEW i \in 1 .. Len(rest)
          PROVE  count + i \in count + 1 .. Len(pending) /\ count + i \in 1 .. Len(pending) /\ rest[i] = pending[count + i]
        BY <1>3, <1>4, <1>6
    <2>2. ASSUME NEW i \in 1 .. Len(rest), NEW j \in 1 .. Len(rest), i < j
          PROVE  rest[i].tick <= rest[j].tick
        <3>1. count + i < count + j
            BY <1>4, <1>6, <2>2
        <3> QED BY <1>0, <2>1, <3>1 DEF Sorted
    <2>3. ASSUME NEW i \in 1 .. Len(rest) PROVE rest[i].tick >= tick
        BY <1>0, <1>4, <1>5, <2>1
    <2> QED BY <2>2, <2>3 DEF Sorted, NoneBefore
<1>9. DOMAIN base = WorkFields /\ base.pending = rest /\ base.unread = unread
    BY WorkIs DEF WorkFields
<1> HIDE DEF base
<1>10. InOrder(base)
    BY <1>0, <1>6, <1>8, <1>9 DEF InOrder, Orderly
<1>11. InOrder(done)
    BY <1>0, <1>7, <1>10, ExecuteAllKeeps
<1> HIDE DEF done
<1>12. Orderly(done.pending) /\ IsSequence(done.unread)
    BY <1>11 DEF InOrder
<1>13. /\ Orderly(pending)' /\ IsSequence(unread)' /\ matched' \in Int /\ fired' \in Int
       /\ EveryWriteAnswered'
    BY <1>0, <1>1, <1>2, <1>12, CommitIs
<1>14. error' \in ErrorAfter(done) /\ pending' = done.pending
    BY <1>1 DEF Commit
<1>15. /\ phase' \in Running => error' = "none"
       /\ phase' \in {"react", "judge"} /\ error' = "none" => NoneBefore(pending, tick)'
    BY <1>0, <1>1, <1>2, <1>11, <1>14, PumpKeeps
<1> QED BY <1>13, <1>15 DEF DriversInv

\* The reactions answer the writes that were read; what they write is unread.
LEMMA ReactKeeps ==
    ASSUME LoopInv, DriversInv, React PROVE DriversInv'
<1> DEFINE rules == Triggered(unread)
           lists == [i \in DOMAIN rules |-> rules[i].actions]
           base == [Work EXCEPT !.unread = <<>>]
           done == ExecuteAll(base, FlattenSeq(lists))
<1>0. /\ case \in Cases /\ tick \in Nat /\ after \in {"judge", "step", "stimuli"}
      /\ Orderly(pending) /\ IsSequence(unread) /\ matched \in Int /\ fired \in Int
    BY DEF LoopInv, LoopTypes, DriversInv
<1>1. /\ phase = "react" /\ UNCHANGED <<case, tick>>
      /\ unread' = done.unread /\ pending' = done.pending
      /\ error' \in ErrorAfter(done)
      /\ matched' = matched + Len(Triggered(done.unread))
      /\ fired' = fired + Len(rules)
      /\ phase' = IF done.refused THEN Pumped(TRUE) ELSE "react"
    BY Zenon DEF React, Answered, setup
<1>2. error = "none" /\ NoneBefore(pending, tick) /\ matched = fired + Len(rules)
    BY <1>1 DEF DriversInv, Running, EveryWriteAnswered
<1>3. rules \in Seq(ToSet(case.rules))
    BY <1>0, TriggeredIs
<1> HIDE DEF rules
<1>4. PICK n \in Nat : n = Len(rules) /\ DOMAIN rules = 1 .. n /\ \A i \in 1 .. n : rules[i] \in ToSet(case.rules)
    BY <1>3
<1>5. \A i \in 1 .. n : lists[i] \in Seq(ScriptActions)
    <2> SUFFICES ASSUME NEW i \in 1 .. n PROVE rules[i].actions \in Seq(ScriptActions)
        BY <1>4
    <2>1. PICK j \in DOMAIN case.rules : rules[i] = case.rules[j]
        BY <1>4 DEF ToSet
    <2> QED BY <1>0, <2>1, CasesAssumption DEF CompleteRules
<1>6. lists \in Seq(Seq(ScriptActions))
    <2>1. lists = [i \in 1 .. n |-> lists[i]]
        BY <1>4
    <2> HIDE DEF lists
    <2> QED BY <1>5, <2>1
<1> HIDE DEF lists
<1>7. FlattenSeq(lists) \in Seq(ScriptActions)
    BY <1>6, FlattenType
<1>8. DOMAIN base = WorkFields /\ base.pending = pending /\ base.unread = <<>>
    BY WorkIs DEF WorkFields
<1> HIDE DEF base
<1>9. InOrder(base)
    <2>1. IsSequence(<<>>)
        BY DEF IsSequence
    <2> QED BY <1>0, <1>2, <1>8, <2>1 DEF InOrder
<1>10. InOrder(done)
    BY <1>0, <1>7, <1>9, ExecuteAllKeeps
<1> HIDE DEF done
<1>11. Orderly(done.pending) /\ IsSequence(done.unread)
    BY <1>10 DEF InOrder
<1>12. /\ phase' \in Running => error' = "none"
       /\ phase' \in {"react", "judge"} /\ error' = "none" => NoneBefore(pending, tick)'
    BY <1>0, <1>1, <1>2, <1>10, PumpKeeps
<1>13. Len(Triggered(done.unread)) \in Nat /\ Len(rules) \in Nat
    BY <1>0, <1>4, <1>11, TriggeredLen
<1>14. Triggered(unread)' = Triggered(done.unread)
    BY <1>1 DEF Triggered
<1>15. /\ matched' \in Int /\ fired' \in Int
       /\ matched' = fired' + Len(Triggered(unread)')
    BY <1>0, <1>1, <1>2, <1>13, <1>14
<1>16. Orderly(pending)' /\ IsSequence(unread)'
    BY <1>1, <1>11 DEF Orderly, Sorted, IsSequence, ToSet
<1> QED BY <1>12, <1>15, <1>16 DEF DriversInv, EveryWriteAnswered

LEMMA ReactDoneKeeps ==
    ASSUME LoopInv, DriversInv, ReactDone PROVE DriversInv'
<1>1. /\ phase = "react" /\ Triggered(unread) = <<>> /\ unread' = <<>> /\ phase' = after
      /\ UNCHANGED <<case, tick, pending, error, matched, fired>>
    BY DEF ReactDone, Answered, Pumped, setup, drivers
<1>2. after \in {"judge", "step", "stimuli"}
    BY DEF LoopInv, LoopTypes
<1>3. /\ Orderly(pending) /\ error = "none" /\ NoneBefore(pending, tick)
      /\ matched \in Int /\ fired \in Int /\ matched = fired
    BY <1>1 DEF DriversInv, Running, EveryWriteAnswered
<1>4. Len(Triggered(unread)') = 0
    <2>1. Triggered(unread)' = Triggered(<<>>)
        BY <1>1 DEF Triggered
    <2> QED BY <2>1, NothingTriggered
<1>5. /\ Orderly(pending)' /\ IsSequence(unread)' /\ NoneBefore(pending, tick)'
    BY <1>1, <1>3 DEF Orderly, Sorted, IsSequence, ToSet, NoneBefore
<1>6. EveryWriteAnswered'
    BY <1>1, <1>3, <1>4 DEF EveryWriteAnswered
<1> QED BY <1>1, <1>3, <1>5, <1>6 DEF DriversInv

LEMMA ReactCycleKeeps ==
    ASSUME LoopInv, DriversInv, ReactCycle PROVE DriversInv'
<1>1. /\ unread' = <<>> /\ phase' = Pumped(TRUE) /\ error' # "none"
      /\ UNCHANGED <<pending, matched, fired, after>>
    BY DEF ReactCycle, drivers
<1>2. phase' \in {"judge", "conclude"}
    BY <1>1 DEF Pumped
<1>3. Orderly(pending)' /\ IsSequence(unread)' /\ (matched \in Int /\ fired \in Int)'
    BY <1>1 DEF DriversInv, Orderly, Sorted, IsSequence, ToSet
<1> QED BY <1>1, <1>2, <1>3 DEF DriversInv, Running, EveryWriteAnswered

LEMMA DriversStep == LoopInv /\ DriversInv /\ [Next]_vars => DriversInv'
<1> SUFFICES ASSUME LoopInv, DriversInv, [Next]_vars PROVE DriversInv'
    OBVIOUS
<1>1. ASSUME NEW verdict, NEW problem, Finish(verdict, problem),
             problem = error \/ problem # "none"
      PROVE  DriversInv'
    <2>1. /\ UNCHANGED <<case, pending, unread, matched, fired>>
          /\ phase' = "done" /\ error' = problem
        BY <1>1 DEF Finish, setup, drivers
    <2> QED BY <1>1, <2>1, DriversKept DEF Running
<1>2. CASE LoadCase
    <2>1. CASE LoadFails
        BY <1>1, <2>1 DEF LoadFails, FailsWith
    <2>2. CASE RunExplicit
        BY <1>1, <2>2 DEF RunExplicit, FailsWith
    <2>3. CASE LoadInvalid
        BY <1>1, <2>3 DEF LoadInvalid
    <2>4. CASE LoadUnexpected
        BY <1>1, <2>4 DEF LoadUnexpected
    <2>5. CASE Load
        <3>1. /\ phase = "load" /\ phase' = "stimuli"
              /\ UNCHANGED <<case, pending, unread, matched, fired, error>>
            BY <2>5 DEF Load, setup, drivers
        <3>2. error = "none"
            BY <3>1 DEF LoopInv, LoopTypes
        <3> QED BY <3>1, <3>2, DriversKept
    <2> QED BY <1>2, <2>1, <2>2, <2>3, <2>4, <2>5 DEF LoadCase
<1>3. CASE Stimuli
    BY <1>3, StimuliKeep
<1>4. CASE Pump
    BY <1>4, DueKeeps, ReactKeeps, ReactDoneKeeps, ReactCycleKeeps DEF Pump
<1>5. CASE Judge
    <2>1. /\ phase = "judge"
          /\ UNCHANGED <<case, pending, unread, matched, fired, error>>
        BY <1>5 DEF Judge, setup, drivers
    <2>2. phase' = "conclude" \/ (phase' = "step" /\ error = "none")
        BY <1>5, Zenon DEF Judge, Stop
    <2> QED BY <2>1, <2>2, DriversKept DEF Running
<1>6. CASE SchedulerStep
    <2>1. CASE ProgramStep
        BY <2>1, ProgramKeeps
    <2>2. CASE EndTick
        <3>1. /\ phase = "step" /\ phase' = "due"
              /\ UNCHANGED <<case, pending, unread, matched, fired, error>>
            BY <2>2 DEF EndTick, setup, drivers
        <3>2. error = "none"
            BY <3>1 DEF DriversInv, Running
        <3> QED BY <3>1, <3>2, DriversKept
    <2>3. CASE StepFails
        <3>1. /\ phase' = "conclude" /\ error' # "none"
              /\ UNCHANGED <<case, pending, unread, matched, fired>>
            BY <2>3 DEF StepFails, setup, drivers
        <3> QED BY <3>1, DriversKept DEF Running
    <2> QED BY <1>6, <2>1, <2>2, <2>3 DEF SchedulerStep
<1>7. CASE Conclude
    <2> DEFINE verdict == IF \/ failed \/ ErrorUnexpected \/ EventuallyMissed
                             \/ FinalBroken \/ OutOfOperations \/ SnapshotDiffers
                          THEN "Failed" ELSE "Passed"
    <2>1. Finish(verdict, error)
        BY <1>7 DEF Conclude
    <2> HIDE DEF verdict
    <2> QED BY <1>1, <2>1
<1>8. CASE UNCHANGED vars
    <2>1. UNCHANGED <<case, phase, tick, pending, unread, error, matched, fired>>
        BY <1>8 DEF vars
    <2>2. Triggered(unread)' = Triggered(unread)
        BY <2>1 DEF Triggered
    <2>3. EveryWriteAnswered'
        BY <2>1, <2>2 DEF DriversInv, EveryWriteAnswered
    <2>4. (Orderly(pending) /\ IsSequence(unread) /\ matched \in Int /\ fired \in Int)'
        BY <2>1 DEF DriversInv, Orderly, Sorted, IsSequence, ToSet
    <2>5. (phase \in {"react", "judge"} /\ error = "none" => NoneBefore(pending, tick))'
        BY <2>1 DEF DriversInv, NoneBefore
    <2>6. (phase \in Running => error = "none")'
        BY <2>1 DEF DriversInv, Running
    <2> QED BY <2>3, <2>4, <2>5, <2>6 DEF DriversInv
<1> QED
    BY <1>2, <1>3, <1>4, <1>5, <1>6, <1>7, <1>8 DEF Next

\* Every journalled write that matches a rule is answered by it exactly once:
\* react_to_writes moves its cursor past the writes it has read before its
\* reactions write more, however many cascades there are, whatever part of its
\* writes a program journals and whatever moves between slots add.
THEOREM WritesAreAnswered == Spec => []EveryWriteAnswered
<1>1. DriversInv => EveryWriteAnswered
    BY DEF DriversInv
<1> QED
    BY <1>1, StartsSound, LoopStep, DriversStart, DriversStep, PTL DEF Spec

\* When a tick is judged, every driver action scheduled for an earlier tick
\* has been carried out: the list stays sorted whatever the drivers schedule,
\* nested schedules included, so pump takes all that is due from its head.
THEOREM NothingIsOverdue == Spec => []NothingOverdue
<1>1. DriversInv => NothingOverdue
    <2> SUFFICES ASSUME DriversInv, phase = "judge", error = "none"
                 PROVE  \A i \in DOMAIN pending : pending[i].tick >= tick
        BY DEF NothingOverdue
    <2>1. pending \in Seq(Events) /\ NoneBefore(pending, tick)
        BY DEF DriversInv, Orderly
    <2> QED BY <2>1 DEF NoneBefore
<1> QED
    BY <1>1, StartsSound, LoopStep, DriversStart, DriversStep, PTL DEF Spec
=============================================================================
