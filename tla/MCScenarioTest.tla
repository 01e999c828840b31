---------------------------- MODULE MCScenarioTest ----------------------------
(***************************************************************************)
(* Small test cases over a button and a door, each with a program that may *)
(* do anything within its limits.                                          *)
(***************************************************************************)
EXTENDS ScenarioTest

Set(t, v) == [op |-> "set", target |-> t, value |-> v]
After(n, actions) == [op |-> "schedule", after |-> n, actions |-> actions]
Move(s, t) == [op |-> "moveSlot", fields |-> <<[from |-> s, to |-> t]>>]
At(n, t, v) == [tick |-> n, target |-> t, value |-> v]
Expect(kind, n, t, v) == [kind |-> kind, tick |-> n, target |-> t, value |-> v]
When(t, v, actions) == [target |-> t, equals |-> v, actions |-> actions]
Put(t, v) == [target |-> t, value |-> v]

Plain ==
    [maxTicks |-> 2, maxOperations |-> 4, initial |-> <<>>, timeline |-> <<>>,
     rules |-> <<>>, assertions |-> <<>>, snapshot |-> {},
     expectError |-> "none", luaModule |-> FALSE]

\* A pressed button opens the door; the door must open and stay open.
Answering ==
    [Plain EXCEPT !.timeline = <<At(1, "button", 1)>>,
        !.rules = <<When("button", 1, <<Set("door", 1)>>)>>,
        !.assertions = <<Expect("eventually", 1, "door", 1),
                         Expect("always", 0, "button", 1)>>,
        !.initial = <<Put("button", 1)>>]

\* The door answers later, the second answer before the first.
Delayed ==
    [Plain EXCEPT
        !.rules = <<When("door", AnyValue,
                         <<After(2, <<Set("button", 0)>>),
                           After(1, <<Set("button", 1)>>),
                           After(0, <<Set("button", 1)>>)>>)>>,
        !.assertions = <<Expect("at", 1, "button", 1),
                         Expect("final", 0, "door", 1)>>]

\* Two rules that trigger each other as long as both values are 1.
Cyclic ==
    [Plain EXCEPT
        !.rules = <<When("door", AnyValue, <<Set("button", 1)>>),
                    When("button", 1, <<Set("door", 1)>>)>>,
        !.snapshot = {Put("door", 0)}]

\* Two writes at once, and two rules for one of them.
Doubled ==
    [Plain EXCEPT
        !.timeline = <<At(0, "door", 1), At(0, "button", 1), At(1, "lamp", 1)>>,
        !.rules = <<When("button", 1, <<Set("door", 0)>>),
                    When("button", AnyValue, <<After(1, <<Set("door", 1)>>)>>)>>,
        !.assertions = <<Expect("final", 0, "door", 1)>>]

Failing == [Delayed EXCEPT !.expectError = "runtime"]
Uncompilable == [Plain EXCEPT !.expectError = "compile"]
Module == [Plain EXCEPT !.luaModule = TRUE]
FailingModule == [Module EXCEPT !.expectError = "runtime"]
Misspelt == [Plain EXCEPT !.initial = <<Put("lamp", 1)>>]
Misdirected == [Plain EXCEPT
                    !.rules = <<When("door", 1, <<After(1, <<Set("lamp", 1)>>)>>)>>]
Unreadable == [Plain EXCEPT !.assertions = <<Expect("eventually", 2, "lamp", 1)>>]

Hurried == [Plain EXCEPT !.assertions = <<Expect("eventually", 1, "door", 1)>>]

Nested == [Plain EXCEPT
               !.rules = <<When("button", 1,
                                <<After(0, <<After(1, <<Set("door", 1)>>), Set("door", 0)>>)>>)>>,
               !.timeline = <<At(0, "button", 1)>>,
               !.assertions = <<Expect("at", 1, "door", 1)>>]

\* An item that is moved on as soon as it arrives, and back a tick later.
Moving == [Plain EXCEPT
               !.rules = <<When("button", 1, <<Move("button", "door"), After(1, <<Move("door", "button")>>)>>)>>,
               !.timeline = <<At(1, "button", 1)>>,
               !.assertions = <<Expect("final", 0, "button", 0)>>]

MCCases == {Nested, Moving, Answering, Delayed, Cyclic, Doubled, Failing, Uncompilable,
            Module, FailingModule,
            Misspelt, Misdirected, Unreadable, Hurried}
\* The actions of the rules, and those they schedule.
MCScriptActions ==
    LET own == UNION {UNION {ToSet(r.actions) : r \in ToSet(c.rules)} : c \in MCCases}
        below(actions) == UNION {ToSet(a.actions) : a \in {b \in actions : b.op = "schedule"}}
    IN  own \cup below(own) \cup below(below(own))
MCCeilings == {[maxTicks |-> 1, maxOperations |-> 3],
               [maxTicks |-> 3, maxOperations |-> 3],
               [maxTicks |-> 3, maxOperations |-> 5]}
MCInitially == [t \in Targets |-> 0]
\* Steps of an IC10 program, and one of a Lua program, which journals nothing.
Journalled(writes) == [writes |-> writes, journalled |-> writes]
Silent(writes) == [writes |-> writes, journalled |-> <<>>]
MCProgramSteps == {Journalled(<<>>), Journalled(<<Put("door", 1)>>),
                   Journalled(<<Put("button", 1), Put("door", 0)>>), Silent(<<Put("button", 1)>>)}
=============================================================================
