------------------------ MODULE WorldSchedulerProofs ------------------------
(***************************************************************************)
(* Proofs about the world scheduler: its type invariant for every world,   *)
(* and quota batching for a world that only the scheduler drives.          *)
(***************************************************************************)
EXTENDS WorldScheduler, TLAPS

\* A slot the scheduler runs lies at or behind the cursor, can step and, when it
\* is an IC10, has an operation; a slot passed over on the way has none.
LEMMA NextUpFact ==
    ASSUME TypeOK, NEW a \in Slots, NextUp(a)
    PROVE  /\ a \in Nat /\ a < NumSlots /\ a >= slot
           /\ CanStep(a) /\ HasLocation(a)
           /\ \A b \in Slots : b >= slot /\ b < a => ~(CanStep(b) /\ HasLocation(b))
BY SlotsAssumption DEF NextUp, Eligible, Slots

\* Walking to slot n changes run states only.
LEMMA HaltedType ==
    ASSUME TypeOK, NEW n
    PROVE  HaltedUpTo(n) \in [Slots -> RunStates]
BY DEF TypeOK, HaltedUpTo, RunStates

\* Executing an instruction keeps the state well formed.
LEMMA ExecuteIc10Type ==
    ASSUME TypeOK, NEW a \in Slots \ Lua, NEW o \in Outcomes, HasLocation(a),
           NEW st \in [Slots -> RunStates], ExecuteIc10(a, o, st)
    PROVE  /\ tick' \in Nat /\ state' \in [Slots -> RunStates]
           /\ wake' \in [Slots -> Nat] /\ pc' \in [Slots -> 0 .. ProgramLines]
           /\ ops' \in [Slots -> Nat] /\ faulted' \in [Slots -> BOOLEAN]
           /\ schedulerError' \in BOOLEAN /\ due' \in [Slots -> Nat]
<1>1. pc[a] \in 0 .. ProgramLines /\ pc[a] < ProgramLines
  BY SlotsAssumption DEF TypeOK, HasLocation
<1>2. PcAfter(a, o) \in 0 .. ProgramLines
  BY <1>1, ProgramAssumption DEF Outcomes, Branches, PcAfter
<1>3. StateAfter(o) \in RunStates
  BY DEF Outcomes, Branches, StateAfter, RunStates
<1>4. o.kind = "wait" => o.for \in Nat
  BY SleepAssumption DEF Outcomes, Branches
<1>5. o.kind = "wait" => WakeAfter(o.for) \in Nat /\ tick + o.for \in Nat
  BY <1>4, TickAssumption DEF TypeOK, WakeAfter
<1>6. QED
  BY <1>2, <1>3, <1>5 DEF TypeOK, ExecuteIc10

\* Beginning a tick, or failing to, keeps the state well formed.
LEMMA AdvanceType ==
    ASSUME TypeOK, NEW st \in [Slots -> RunStates], BeginTick(st) \/ AdvanceTickFails(st)
    PROVE  /\ tick' \in Nat /\ slot' \in 0 .. NumSlots
           /\ state' \in [Slots -> RunStates] /\ wake' \in [Slots -> Nat]
           /\ ops' \in [Slots -> Nat]
<1>1. CASE BeginTick(st)
  BY <1>1, SlotsAssumption DEF TypeOK, BeginTick, RunStates
<1>2. CASE TickEndFails(st)
  BY <1>2, SlotsAssumption DEF TypeOK, TickEndFails
<1>3. CASE TickStartFails(st)
  BY <1>3, SlotsAssumption DEF TypeOK, TickStartFails
<1>4. QED
  BY <1>1, <1>2, <1>3 DEF AdvanceTickFails

LEMMA TypeStep ==
    ASSUME TypeOK, [Next]_vars
    PROVE  TypeOK'
<1>0. NumSlots \in 0 .. NumSlots
  BY SlotsAssumption
<1>1. CASE TakeSchedulerError
  BY <1>0, <1>1 DEF TypeOK, TakeSchedulerError
<1>2. CASE EndOfTick
  BY <1>2, AdvanceType, HaltedType, SlotsAssumption DEF TypeOK, EndOfTick
<1>3. ASSUME NEW a \in Slots \ Lua, NEW o \in Outcomes, StepIc10(a, o)
      PROVE  TypeOK'
  <2>1. HasLocation(a) /\ a \in Nat /\ a < NumSlots
    BY <1>3, NextUpFact DEF StepIc10
  <2>2. slot' \in 0 .. NumSlots /\ peeked' \in 0 .. NumSlots
    BY <1>3, <2>1, SlotsAssumption DEF StepIc10
  <2>3. QED
    BY <1>3, <2>1, <2>2, HaltedType, ExecuteIc10Type DEF StepIc10, TypeOK
<1>4. ASSUME NEW a \in Lua, StepLua(a)
      PROVE  TypeOK'
  <2>1. a \in Slots /\ a \in Nat /\ a < NumSlots
    BY SlotsAssumption DEF Slots
  <2>2. slot' \in 0 .. NumSlots /\ peeked' \in 0 .. NumSlots
    BY <1>4, <2>1, SlotsAssumption DEF StepLua
  <2>3. HaltedUpTo(a) \in [Slots -> RunStates]
    BY HaltedType
  <2>4. CASE ExecuteLua(a, HaltedUpTo(a))
    BY <2>1, <2>2, <2>3, <2>4 DEF TypeOK, ExecuteLua, RunStates
  <2>5. CASE FaultLua(a, HaltedUpTo(a))
    BY <2>1, <2>2, <2>3, <2>5 DEF TypeOK, FaultLua
  <2>6. QED
    BY <1>4, <2>4, <2>5 DEF StepLua
<1>5. ASSUME NEW a \in Slots, PeekLocation(a)
      PROVE  TypeOK'
  BY SMTT(30), <1>5, HaltedType, SlotsAssumption DEF TypeOK, PeekLocation, Slots
<1>6. CASE PeekEndOfTick
  <2>1. HaltedUpTo(NumSlots) \in [Slots -> RunStates]
    BY HaltedType
  <2>2. /\ tick' \in Nat /\ slot' \in 0 .. NumSlots
        /\ state' \in [Slots -> RunStates] /\ wake' \in [Slots -> Nat]
        /\ ops' \in [Slots -> Nat]
    BY <1>6, <2>1, AdvanceType DEF PeekEndOfTick
  <2>3. schedulerError' \in BOOLEAN
    BY <1>6 DEF PeekEndOfTick, TypeOK
  <2>4. QED
    BY <1>0, <1>6, <2>2, <2>3 DEF TypeOK, PeekEndOfTick
<1>7. ASSUME NEW a \in Slots \ Lua, StepPastEnd(a)
      PROVE  TypeOK'
  BY <1>7, SlotsAssumption DEF TypeOK, StepPastEnd, RunStates
<1>8. ASSUME NEW a \in Slots \ Lua, NEW o \in Outcomes, StepInstruction(a, o)
      PROVE  TypeOK'
  <2>1. state \in [Slots -> RunStates] /\ slot \in 0 .. NumSlots /\ NumSlots \in 0 .. NumSlots
    BY SlotsAssumption DEF TypeOK
  <2>2. QED
    BY <1>8, <2>1, ExecuteIc10Type DEF StepInstruction, TypeOK
<1>9. CASE UNCHANGED vars
  BY <1>9 DEF TypeOK, vars
<1>10. QED
  BY <1>1, <1>2, <1>3, <1>4, <1>5, <1>6, <1>7, <1>8, <1>9
  DEF Next, HeadlessNext, SchedulerStep, Peek, DebuggerStep

\* Every state of every world is well formed, however the scheduler and the
\* debugger interleave and whichever instructions and hooks fail.
THEOREM TypeCorrect == Spec => []TypeOK
<1>1. ASSUME Init
      PROVE  TypeOK
  <2>1. /\ NumSlots \in 0 .. NumSlots /\ 0 \in 0 .. NumSlots
        /\ 0 \in 0 .. ProgramLines
    BY SlotsAssumption, ProgramAssumption
  <2>2. QED
    BY <1>1, <2>1 DEF Init, TypeOK, RunStates
<1>2. TypeOK /\ [Next]_vars => TypeOK'
  BY TypeStep
<1>3. QED
  BY <1>1, <1>2, PTL DEF Spec

-----------------------------------------------------------------------------
(* Quota batching.  The assumption says that no sleep reaches past the     *)
(* largest tick; without it a sleeper's wake tick wraps around and the     *)
(* slot passed over can step again.                                        *)

NoWrap == \A d \in Sleeps \cup {1} : MaxTick + d < TickSpan

\* The inductive invariant of a world driven by the scheduler alone.
QuotaInv ==
    /\ TypeOK
    /\ tick <= MaxTick
    /\ LaterSlotsFresh
    /\ PassedSlotsDone
    /\ QuotaHeld

\* Walking to slot n leaves the slots before the cursor alone and leaves none
\* that could step between the cursor and n.
LEMMA WalkFact ==
    ASSUME TypeOK, NEW n \in 0 .. NumSlots, NEW b \in Slots
    PROVE  /\ b < slot \/ b >= n => HaltedUpTo(n)[b] = state[b]
           /\ b >= slot /\ b < n /\ CanStep(b) => HaltedUpTo(n)[b] = "Halted"
           /\ ~CanStep(b) => HaltedUpTo(n)[b] = state[b]
BY SlotsAssumption DEF HaltedUpTo, Slots, TypeOK

\* Whatever slots the walk passed over can step no more, as long as the tick,
\* their operation count and their wake tick stay.
LEMMA WalkDone ==
    ASSUME TypeOK, NEW n \in 0 .. NumSlots, NEW b \in Slots, b < n,
           b < slot => ~CanStep(b),
           tick' = tick, wake'[b] = wake[b], ops'[b] = ops[b],
           state'[b] = HaltedUpTo(n)[b]
    PROVE  ~CanStep(b)'
<1>1. CASE CanStep(b)
  <2>0. b \in Nat /\ slot \in Nat
    BY SlotsAssumption DEF TypeOK, Slots
  <2>1. state'[b] = "Halted"
    BY <1>1, <2>0, WalkFact
  <2>2. QED
    BY <2>1 DEF CanStep, RunnableAt
<1>2. CASE ~CanStep(b)
  <2>1. state'[b] = state[b]
    BY <1>2, WalkFact
  <2>2. QED
    BY <1>2, <2>1 DEF CanStep, RunnableAt, BudgetOf
<1>3. QED
  BY <1>1, <1>2

\* A step of an IC10 keeps the invariant.
LEMMA QuotaIc10 ==
    ASSUME QuotaInv, NoWrap, NEW a \in Slots \ Lua, NEW o \in Outcomes,
           StepIc10(a, o), TypeOK'
    PROVE  QuotaInv'
<1>1. /\ a \in Slots /\ a \in Nat /\ a < NumSlots /\ a >= slot /\ CanStep(a)
      /\ slot \in Nat /\ NumSlots \in Nat /\ a \in 0 .. NumSlots
  BY NextUpFact, SlotsAssumption DEF QuotaInv, StepIc10, TypeOK
<1>2. /\ ops' = [ops EXCEPT ![a] = @ + 1]
      /\ state' = [HaltedUpTo(a) EXCEPT ![a] = StateAfter(o)]
      /\ tick' = tick
      /\ wake' = IF o.kind = "wait" THEN [wake EXCEPT ![a] = WakeAfter(o.for)] ELSE wake
      /\ slot' = IF o.kind = "fail" \/ RetainsSlot(state'[a], ops'[a], a) THEN a ELSE a + 1
  BY DEF StepIc10, ExecuteIc10
<1>3. slot' = a \/ slot' = a + 1
  BY <1>2
<1>4. ops \in [Slots -> Nat] /\ HaltedUpTo(a) \in [Slots -> RunStates] /\ wake \in [Slots -> Nat]
      /\ tick \in Nat
  BY HaltedType DEF QuotaInv, TypeOK
<1>5. ops'[a] = ops[a] + 1 /\ state'[a] = StateAfter(o) /\ ops[a] \in Nat
  BY <1>1, <1>2, <1>4
<1>6. \A b \in Slots \ {a} : ops'[b] = ops[b] /\ state'[b] = HaltedUpTo(a)[b] /\ wake'[b] = wake[b]
  BY <1>2, <1>4
<1>7. LaterSlotsFresh'
  <2>1. SUFFICES ASSUME NEW b \in Slots, b > slot', slot' < NumSlots
                 PROVE  ops'[b] = 0
    BY DEF LaterSlotsFresh
  <2>2. b \in Nat /\ b # a /\ b > slot /\ slot < NumSlots
    BY <1>1, <1>3, <2>1, SlotsAssumption DEF Slots
  <2>3. QED
    BY <1>6, <2>2 DEF QuotaInv, LaterSlotsFresh
<1>8. QuotaHeld'
  <2>1. BudgetOf(a) \in Nat
    BY BudgetAssumption DEF BudgetOf
  <2>2. ops'[a] <= BudgetOf(a)
    BY <1>1, <1>5, <2>1 DEF CanStep
  <2>3. QED
    BY <1>6, <2>2 DEF QuotaInv, QuotaHeld, BudgetOf
<1>9. PassedSlotsDone'
  <2>1. SUFFICES ASSUME NEW b \in Slots, b < slot'
                 PROVE  ~CanStep(b)'
    BY DEF PassedSlotsDone
  <2>2. CASE b # a
    <3>1. b \in Nat /\ b < a
      BY <1>1, <1>3, <2>1, <2>2, SlotsAssumption DEF Slots
    <3>2. b < slot => ~CanStep(b)
      BY <1>1, <3>1 DEF QuotaInv, PassedSlotsDone
    <3>3. QED
      BY <1>1, <1>2, <1>6, <2>2, <3>1, <3>2, WalkDone DEF QuotaInv
  <2>3. CASE b = a
    <3>1. o.kind # "fail" /\ ~RetainsSlot(state'[a], ops'[a], a)
      BY <1>1, <1>2, <2>1, <2>3
    <3>2. CASE o.kind = "wait"
      <4>1. o.for \in Sleeps \cup {1} /\ o.for \in Nat /\ o.for > 0
        BY <3>2, SleepAssumption DEF Outcomes, Branches
      <4>2. tick + o.for < TickSpan /\ tick + o.for \in Nat
        BY <1>4, <4>1, TickAssumption DEF QuotaInv, NoWrap
      <4>3. WakeAfter(o.for) = tick + o.for
        BY <4>2, TickAssumption DEF WakeAfter
      <4>4. state'[a] = "Waiting" /\ wake'[a] = tick + o.for
        BY <1>1, <1>2, <1>4, <1>5, <3>2, <4>3 DEF StateAfter
      <4>5. QED
        BY <1>2, <1>4, <2>3, <4>1, <4>4 DEF CanStep, RunnableAt
    <3>3. CASE o.kind = "halt"
      <4>1. state'[a] = "Halted"
        BY <1>5, <3>3 DEF StateAfter
      <4>2. QED
        BY <2>3, <4>1 DEF CanStep, RunnableAt
    <3>4. CASE o.kind = "branch"
      <4>1. state'[a] = "Ready"
        BY <1>5, <3>4 DEF StateAfter
      <4>2. ~(ops'[a] < BudgetOf(a))
        BY <3>1, <4>1 DEF RetainsSlot
      <4>3. QED
        BY <2>3, <4>2 DEF CanStep, BudgetOf
    <3>5. QED
      BY <3>1, <3>2, <3>3, <3>4 DEF Outcomes, Branches
  <2>4. QED
    BY <2>2, <2>3
<1>10. QED
  BY <1>2, <1>7, <1>8, <1>9 DEF QuotaInv

\* An invocation of a Lua program keeps the invariant.
LEMMA QuotaLua ==
    ASSUME QuotaInv, NEW a \in Lua, StepLua(a), TypeOK'
    PROVE  QuotaInv'
<1>1. /\ a \in Slots /\ a \in Nat /\ a < NumSlots /\ a >= slot /\ CanStep(a)
      /\ slot \in Nat /\ NumSlots \in Nat /\ a \in 0 .. NumSlots
  BY NextUpFact, SlotsAssumption DEF QuotaInv, StepLua, TypeOK
<1>2. ops \in [Slots -> Nat] /\ HaltedUpTo(a) \in [Slots -> RunStates] /\ wake \in [Slots -> Nat]
      /\ tick \in Nat
  BY HaltedType DEF QuotaInv, TypeOK
<1>3. /\ tick' = tick
      /\ \A b \in Slots \ {a} : ops'[b] = ops[b] /\ state'[b] = HaltedUpTo(a)[b] /\ wake'[b] = wake[b]
      /\ \/ slot' = a /\ ops'[a] = ops[a]
         \/ slot' = a + 1 /\ ops'[a] = 1 /\ state'[a] = "Waiting" /\ wake'[a] = tick + 1
  BY <1>1, <1>2 DEF StepLua, ExecuteLua, FaultLua
<1>4. LaterSlotsFresh'
  <2>1. SUFFICES ASSUME NEW b \in Slots, b > slot', slot' < NumSlots
                 PROVE  ops'[b] = 0
    BY DEF LaterSlotsFresh
  <2>2. b \in Nat /\ b # a /\ b > slot /\ slot < NumSlots
    BY <1>1, <1>3, <2>1, SlotsAssumption DEF Slots
  <2>3. QED
    BY <1>3, <2>2 DEF QuotaInv, LaterSlotsFresh
<1>5. QuotaHeld'
  <2>1. BudgetOf(a) = 1 /\ ops[a] \in Nat
    BY <1>1, <1>2 DEF BudgetOf
  <2>2. ops'[a] <= BudgetOf(a)
    BY <1>1, <1>3, <2>1 DEF QuotaInv, QuotaHeld
  <2>3. QED
    BY <1>3, <2>2 DEF QuotaInv, QuotaHeld, BudgetOf
<1>6. PassedSlotsDone'
  <2>1. SUFFICES ASSUME NEW b \in Slots, b < slot'
                 PROVE  ~CanStep(b)'
    BY DEF PassedSlotsDone
  <2>2. CASE b # a
    <3>1. b \in Nat /\ b < a
      BY <1>1, <1>3, <2>1, <2>2, SlotsAssumption DEF Slots
    <3>2. b < slot => ~CanStep(b)
      BY <1>1, <3>1 DEF QuotaInv, PassedSlotsDone
    <3>3. QED
      BY <1>1, <1>3, <2>2, <3>1, <3>2, WalkDone DEF QuotaInv
  <2>3. CASE b = a
    BY <1>1, <1>2, <1>3, <2>1, <2>3 DEF CanStep, RunnableAt
  <2>4. QED
    BY <2>2, <2>3
<1>7. QED
  BY <1>3, <1>4, <1>5, <1>6 DEF QuotaInv

\* Ending the tick, from scheduler_step or from a peek, keeps the invariant.
LEMMA QuotaAdvance ==
    ASSUME QuotaInv, Eligible = {}, TypeOK',
           BeginTick(HaltedUpTo(NumSlots)) \/ AdvanceTickFails(HaltedUpTo(NumSlots))
    PROVE  QuotaInv'
<1>1. /\ NumSlots \in Nat /\ NumSlots \in 0 .. NumSlots /\ slot \in 0 .. NumSlots
      /\ \A b \in Slots : b \in Nat /\ b < NumSlots
      /\ tick \in Nat /\ MaxTick \in Nat /\ tick <= MaxTick
  BY SlotsAssumption, TickAssumption DEF QuotaInv, TypeOK, Slots
<1>2. CASE BeginTick(HaltedUpTo(NumSlots))
  <2>1. slot' = 0 /\ ops' = [a \in Slots |-> 0] /\ tick' = tick + 1 /\ tick < MaxTick
    BY <1>2 DEF BeginTick
  <2>2. tick' <= MaxTick
    BY <1>1, <2>1
  <2>3. LaterSlotsFresh' /\ PassedSlotsDone'
    BY <1>1, <2>1 DEF LaterSlotsFresh, PassedSlotsDone
  <2>4. QuotaHeld'
    BY <2>1, BudgetAssumption DEF QuotaHeld, BudgetOf
  <2>5. QED
    BY <2>2, <2>3, <2>4 DEF QuotaInv
<1>3. CASE TickEndFails(HaltedUpTo(NumSlots))
  <2>1. slot' = NumSlots /\ state' = HaltedUpTo(NumSlots) /\ UNCHANGED <<tick, wake, ops>>
    BY <1>3 DEF TickEndFails
  <2>2. LaterSlotsFresh' /\ QuotaHeld'
    BY <1>1, <2>1 DEF QuotaInv, LaterSlotsFresh, QuotaHeld, BudgetOf
  <2>3. PassedSlotsDone'
    <3>1. SUFFICES ASSUME "tick_start" \notin BehaviourFaults, NEW b \in Slots, b < NumSlots
                   PROVE  ~CanStep(b)'
      BY <1>1, <2>1 DEF PassedSlotsDone
    <3>2. b < slot => ~CanStep(b)
      BY <3>1 DEF QuotaInv, PassedSlotsDone
    <3>3. QED
      BY <1>1, <2>1, <3>1, <3>2, WalkDone DEF QuotaInv
  <2>4. QED
    BY <1>1, <2>1, <2>2, <2>3 DEF QuotaInv
<1>4. CASE TickStartFails(HaltedUpTo(NumSlots))
  <2>1. /\ slot' = NumSlots /\ ops' = ops /\ tick' = tick + 1 /\ tick < MaxTick
        /\ "tick_start" \in BehaviourFaults
    BY <1>4 DEF TickStartFails
  <2>2. LaterSlotsFresh' /\ PassedSlotsDone' /\ QuotaHeld' /\ tick' <= MaxTick
    BY <1>1, <2>1 DEF QuotaInv, LaterSlotsFresh, PassedSlotsDone, QuotaHeld, BudgetOf
  <2>3. QED
    BY <2>2 DEF QuotaInv
<1>5. QED
  BY <1>2, <1>3, <1>4 DEF AdvanceTickFails

\* Peeking at a slot keeps the invariant.
LEMMA QuotaPeek ==
    ASSUME QuotaInv, NEW a \in Slots, PeekLocation(a), TypeOK'
    PROVE  QuotaInv'
<1>1. /\ a \in Nat /\ a < NumSlots /\ a >= slot /\ a \in 0 .. NumSlots
      /\ slot \in Nat /\ NumSlots \in Nat
      /\ \A b \in Slots : b \in Nat
  <2>1. /\ slot \in Nat /\ NumSlots \in Nat
        /\ \A b \in Slots : b \in Nat
    BY SlotsAssumption DEF QuotaInv, TypeOK, Slots
  <2>2. TypeOK /\ NextUp(a)
    BY DEF QuotaInv, PeekLocation
  <2>3. a < NumSlots /\ a >= slot /\ a \in Nat
    BY <2>2, NextUpFact
  <2>4. QED
    BY <2>1, <2>3
<1>2. slot' = a /\ state' = HaltedUpTo(a) /\ UNCHANGED <<tick, wake, ops>>
  BY DEF PeekLocation
<1>3. LaterSlotsFresh' /\ QuotaHeld' /\ tick' <= MaxTick
  BY <1>1, <1>2 DEF QuotaInv, LaterSlotsFresh, QuotaHeld, BudgetOf
<1>4. PassedSlotsDone'
  <2>1. SUFFICES ASSUME NEW b \in Slots, b < a
                 PROVE  ~CanStep(b)'
    BY <1>2 DEF PassedSlotsDone
  <2>2. b < slot => ~CanStep(b)
    BY <1>1 DEF QuotaInv, PassedSlotsDone
  <2>3. QED
    BY <1>1, <1>2, <2>1, <2>2, WalkDone DEF QuotaInv
<1>5. QED
  BY <1>3, <1>4 DEF QuotaInv

\* The invariant holds throughout every run of a world driven by the scheduler.
LEMMA QuotaInvariant ==
    ASSUME NoWrap
    PROVE  HeadlessSpec => []QuotaInv
<1>1. ASSUME Init
      PROVE  QuotaInv
  <2>1. /\ NumSlots \in 0 .. NumSlots /\ 0 \in 0 .. NumSlots
        /\ 0 \in 0 .. ProgramLines /\ MaxTick \in Nat
        /\ \A b \in Slots : b \in Nat
    BY SlotsAssumption, ProgramAssumption, TickAssumption DEF Slots
  <2>2. TypeOK
    BY <1>1, <2>1 DEF Init, TypeOK, RunStates
  <2>3. tick <= MaxTick /\ LaterSlotsFresh /\ PassedSlotsDone
    BY <1>1, <2>1 DEF Init, LaterSlotsFresh, PassedSlotsDone
  <2>4. QuotaHeld
    BY <1>1, BudgetAssumption DEF Init, QuotaHeld, BudgetOf
  <2>5. QED
    BY <2>2, <2>3, <2>4 DEF QuotaInv
<1>2. ASSUME QuotaInv, [HeadlessNext]_vars
      PROVE  QuotaInv'
  <2>1. TypeOK'
    BY <1>2, TypeStep DEF QuotaInv, Next
  <2>2. CASE TakeSchedulerError
    BY <1>2, <2>1, <2>2
    DEF QuotaInv, TakeSchedulerError, LaterSlotsFresh, PassedSlotsDone, QuotaHeld,
        CanStep, RunnableAt, BudgetOf
  <2>3. CASE EndOfTick
    BY <1>2, <2>1, <2>3, QuotaAdvance DEF EndOfTick
  <2>4. CASE \E a \in Slots \ Lua, o \in Outcomes : StepIc10(a, o)
    BY <1>2, <2>1, <2>4, QuotaIc10, NoWrap
  <2>5. CASE \E a \in Lua : StepLua(a)
    BY <1>2, <2>1, <2>5, QuotaLua
  <2>6. CASE \E a \in Slots : PeekLocation(a)
    BY <1>2, <2>1, <2>6, QuotaPeek
  <2>7. CASE PeekEndOfTick
    BY <1>2, <2>1, <2>7, QuotaAdvance DEF PeekEndOfTick
  <2>8. CASE UNCHANGED vars
    BY <1>2, <2>1, <2>8
    DEF QuotaInv, vars, LaterSlotsFresh, PassedSlotsDone, QuotaHeld,
        CanStep, RunnableAt, BudgetOf
  <2>9. QED
    BY <1>2, <2>2, <2>3, <2>4, <2>5, <2>6, <2>7, <2>8
    DEF HeadlessNext, SchedulerStep, Peek
<1>3. QED
  BY <1>1, <1>2, PTL DEF HeadlessSpec

\* Quota batching holds in every world driven by the scheduler alone, whatever
\* the number of programs, their quota and their outcomes: slots run in order,
\* each until it can step no more in this tick, and never beyond its quota.
THEOREM QuotaBatching ==
    ASSUME NoWrap
    PROVE  HeadlessSpec => []QuotaBatched
<1>1. QuotaInv => QuotaBatched
  BY DEF QuotaInv, QuotaBatched
<1>2. QED
  BY <1>1, QuotaInvariant, NoWrap, PTL

\* While no tick_start hook fails, the world tick advances only when no program
\* could still run in the old one.
THEOREM TickEnds ==
    ASSUME NoWrap, "tick_start" \notin BehaviourFaults
    PROVE  HeadlessSpec => TickEndsWhenDone
<1>1. ASSUME QuotaInv, [HeadlessNext]_vars
      PROVE  [tick' # tick => \A a \in Slots : ~(CanStep(a) /\ HasLocation(a))]_vars
  <2>1. SUFFICES ASSUME tick' # tick, NEW a \in Slots
                 PROVE  ~(CanStep(a) /\ HasLocation(a))
    OBVIOUS
  <2>2. EndOfTick \/ PeekEndOfTick
    BY <1>1, <2>1
    DEF HeadlessNext, SchedulerStep, Peek, vars, TakeSchedulerError, StepIc10, ExecuteIc10,
        StepLua, ExecuteLua, FaultLua, PeekLocation
  <2>3. Eligible = {}
    BY <2>2 DEF EndOfTick, PeekEndOfTick
  <2>4. a < slot => ~CanStep(a)
    BY <1>1 DEF QuotaInv, PassedSlotsDone
  <2>5. a \in Nat /\ slot \in Nat
    BY <1>1, SlotsAssumption DEF QuotaInv, TypeOK, Slots
  <2>6. QED
    BY <2>3, <2>4, <2>5 DEF Eligible
<1>2. QED
  BY <1>1, QuotaInvariant, NoWrap, PTL DEF HeadlessSpec, TickEndsWhenDone

-----------------------------------------------------------------------------
(* Sleeping programs.                                                      *)

\* The inductive invariant: the wake tick of a sleeper is the tick it asked
\* for, and a ready program has slept long enough.
SleepInv ==
    /\ TypeOK
    /\ tick <= MaxTick
    /\ \A a \in Slots : /\ state[a] = "Waiting" => wake[a] = due[a]
                        /\ state[a] = "Ready" => due[a] <= tick

\* What the invariant says of one slot.
Rested(st, wk, du, t) == /\ st = "Waiting" => wk = du
                         /\ st = "Ready" => du <= t

\* Walking on from the cursor halts programs and changes nothing else.
LEMMA WalkRests ==
    ASSUME SleepInv, NEW n, NEW b \in Slots
    PROVE  Rested(HaltedUpTo(n)[b], wake[b], due[b], tick)
<1>1. HaltedUpTo(n)[b] = state[b] \/ HaltedUpTo(n)[b] = "Halted"
    BY DEF HaltedUpTo
<1> QED
    BY <1>1 DEF SleepInv, Rested

\* A program keeps what it sleeps for when the tick moves on.
LEMMA RestsOn ==
    ASSUME NEW st, NEW wk, NEW du \in Nat, NEW t \in Nat, Rested(st, wk, du, t)
    PROVE  Rested(st, wk, du, t + 1)
BY DEF Rested

\* The end of a tick, whether its hooks fail or not, wakes who has slept enough.
LEMMA SleepAdvance ==
    ASSUME SleepInv, due' = due,
           BeginTick(HaltedUpTo(NumSlots)) \/ AdvanceTickFails(HaltedUpTo(NumSlots))
    PROVE  /\ tick' <= MaxTick
           /\ \A b \in Slots : Rested(state'[b], wake'[b], due'[b], tick')
<1> DEFINE st == HaltedUpTo(NumSlots)
<1>1. \A b \in Slots : /\ Rested(st[b], wake[b], due[b], tick)
                       /\ due[b] \in Nat /\ wake[b] \in Nat /\ tick \in Nat
    BY WalkRests DEF SleepInv, TypeOK
<1>2. \A b \in Slots : Rested(st[b], wake[b], due[b], tick + 1)
    BY <1>1, RestsOn
<1>3. tick \in Nat /\ MaxTick \in Nat /\ tick <= MaxTick
    BY TickAssumption DEF SleepInv, TypeOK
<1> HIDE DEF st
<1>4. CASE TickEndFails(HaltedUpTo(NumSlots))
    BY <1>1, <1>3, <1>4 DEF TickEndFails, st
<1>5. CASE TickStartFails(HaltedUpTo(NumSlots))
    <2>1. tick' = tick + 1 /\ tick < MaxTick /\ state' = st /\ wake' = wake
        BY <1>5 DEF TickStartFails, st
    <2> QED BY <1>2, <1>3, <2>1
<1>6. CASE BeginTick(HaltedUpTo(NumSlots))
    <2>1. /\ tick' = tick + 1 /\ tick < MaxTick /\ wake' = wake
          /\ \A b \in Slots : state'[b] =
                IF st[b] = "Waiting" /\ wake[b] <= tick + 1 THEN "Ready" ELSE st[b]
        BY <1>6 DEF BeginTick, st
    <2>2. ASSUME NEW b \in Slots PROVE Rested(state'[b], wake[b], due[b], tick + 1)
        <3>1. CASE st[b] = "Waiting" /\ wake[b] <= tick + 1
            <4>1. wake[b] = due[b] /\ state'[b] = "Ready"
                BY <1>1, <2>1, <3>1 DEF Rested
            <4> QED BY <3>1, <4>1 DEF Rested
        <3>2. CASE ~(st[b] = "Waiting" /\ wake[b] <= tick + 1)
            <4>1. state'[b] = st[b]
                BY <2>1, <3>2
            <4> QED BY <1>2, <4>1
        <3> QED BY <3>1, <3>2
    <2> QED BY <1>3, <2>1, <2>2
<1> QED
    BY <1>4, <1>5, <1>6 DEF AdvanceTickFails

\* An instruction leaves its program rested: a sleep names the tick it wakes at.
LEMMA SleepIc10 ==
    ASSUME NoWrap, SleepInv, NEW a \in Slots, NEW o \in Outcomes,
           ExecuteIc10(a, o, HaltedUpTo(a)), NEW b \in Slots
    PROVE  Rested(state'[b], wake'[b], due'[b], tick)
<1>1. HaltedUpTo(a) \in [Slots -> RunStates] /\ wake \in [Slots -> Nat] /\ due \in [Slots -> Nat]
    BY HaltedType DEF SleepInv, TypeOK
<1>2. CASE b # a
    <2>1. state'[b] = HaltedUpTo(a)[b] /\ wake'[b] = wake[b] /\ due'[b] = due[b]
        BY <1>1, <1>2 DEF ExecuteIc10
    <2> QED BY <2>1, WalkRests
<1>3. CASE b = a
    <2>1. state'[b] = StateAfter(o) /\ due'[b] = (IF o.kind = "wait" THEN tick + o.for ELSE 0)
        BY <1>1, <1>3 DEF ExecuteIc10
    <2>2. CASE o.kind = "wait"
        <3>1. o.for \in Sleeps \cup {1}
            BY <2>2 DEF Outcomes, Branches
        <3>2. o.for \in Nat /\ MaxTick + o.for < TickSpan
            <4>1. \A d \in Sleeps \cup {1} : d \in Nat /\ MaxTick + d < TickSpan
                BY SleepAssumption DEF NoWrap
            <4> QED BY <3>1, <4>1, Zenon
        <3>3. tick \in Nat /\ MaxTick \in Nat /\ TickSpan \in Nat /\ tick <= MaxTick
            BY TickAssumption DEF SleepInv, TypeOK
        <3>4. tick + o.for \in 0 .. (TickSpan - 1)
            BY <3>2, <3>3
        <3>5. (tick + o.for) % TickSpan = tick + o.for
            BY <3>3, <3>4
        <3>6. wake'[b] = tick + o.for
            BY <1>1, <1>3, <2>2, <3>5 DEF ExecuteIc10, WakeAfter
        <3>7. StateAfter(o) = "Waiting"
            BY <2>2 DEF StateAfter
        <3> QED BY <2>1, <2>2, <3>6, <3>7 DEF Rested
    <2>3. CASE o.kind # "wait"
        <3>1. StateAfter(o) # "Waiting"
            BY <2>3 DEF StateAfter, Outcomes, Branches
        <3>2. 0 <= tick
            BY DEF SleepInv, TypeOK
        <3> QED BY <2>1, <2>3, <3>1, <3>2 DEF Rested
    <2> QED BY <2>2, <2>3
<1> QED
    BY <1>2, <1>3

\* Every step of the scheduler keeps the invariant.
LEMMA SleepStep ==
    ASSUME NoWrap, SleepInv, [HeadlessNext]_vars PROVE SleepInv'
<1>1. TypeOK'
    BY TypeStep DEF SleepInv, Next
<1>2. tick \in Nat /\ tick <= MaxTick /\ \A b \in Slots : Rested(state[b], wake[b], due[b], tick)
    BY DEF SleepInv, TypeOK, Rested
<1> SUFFICES /\ tick' <= MaxTick
             /\ \A b \in Slots : Rested(state'[b], wake'[b], due'[b], tick')
    BY <1>1 DEF SleepInv, Rested
<1>3. CASE TakeSchedulerError \/ UNCHANGED vars
    <2>1. UNCHANGED <<tick, state, wake, due>>
        BY <1>3 DEF TakeSchedulerError, vars
    <2> QED BY <1>2, <2>1
<1>4. CASE EndOfTick
    BY <1>4, SleepAdvance DEF EndOfTick
<1>5. ASSUME NEW a \in Slots \ Lua, NEW o \in Outcomes, StepIc10(a, o)
      PROVE  /\ tick' <= MaxTick
             /\ \A b \in Slots : Rested(state'[b], wake'[b], due'[b], tick')
    <2>1. ExecuteIc10(a, o, HaltedUpTo(a)) /\ tick' = tick
        BY <1>5 DEF StepIc10, ExecuteIc10
    <2> QED BY <1>2, <2>1, SleepIc10
<1>6. ASSUME NEW a \in Lua, StepLua(a)
      PROVE  /\ tick' <= MaxTick
             /\ \A b \in Slots : Rested(state'[b], wake'[b], due'[b], tick')
    <2>1. /\ HaltedUpTo(a) \in [Slots -> RunStates]
          /\ wake \in [Slots -> Nat] /\ due \in [Slots -> Nat] /\ a \in Slots
        BY HaltedType, SlotsAssumption DEF SleepInv, TypeOK
    <2>2. CASE ExecuteLua(a, HaltedUpTo(a))
        <3>1. /\ tick' = tick /\ state'[a] = "Waiting" /\ wake'[a] = due'[a]
              /\ \A b \in Slots : b # a => /\ state'[b] = HaltedUpTo(a)[b]
                                           /\ wake'[b] = wake[b] /\ due'[b] = due[b]
            BY <2>1, <2>2 DEF ExecuteLua
        <3>2. ASSUME NEW b \in Slots PROVE Rested(state'[b], wake'[b], due'[b], tick)
            <4>1. Rested(HaltedUpTo(a)[b], wake[b], due[b], tick)
                BY WalkRests
            <4>2. CASE b = a
                BY <3>1, <4>2 DEF Rested
            <4>3. CASE b # a
                BY <3>1, <4>1, <4>3
            <4> QED BY <4>2, <4>3
        <3> QED BY <1>2, <3>1, <3>2
    <2>3. CASE FaultLua(a, HaltedUpTo(a))
        <3>1. tick' = tick /\ state' = HaltedUpTo(a) /\ wake' = wake /\ due' = due
            BY <2>3 DEF FaultLua
        <3> QED BY <1>2, <3>1, WalkRests
    <2> QED BY <1>6, <2>2, <2>3 DEF StepLua
<1>7. ASSUME NEW a \in Slots, PeekLocation(a)
      PROVE  /\ tick' <= MaxTick
             /\ \A b \in Slots : Rested(state'[b], wake'[b], due'[b], tick')
    <2>1. tick' = tick /\ state' = HaltedUpTo(a) /\ wake' = wake /\ due' = due
        BY <1>7 DEF PeekLocation
    <2> QED BY <1>2, <2>1, WalkRests
<1>8. CASE PeekEndOfTick
    BY <1>8, SleepAdvance DEF PeekEndOfTick
<1> QED
    BY <1>3, <1>4, <1>5, <1>6, <1>7, <1>8 DEF HeadlessNext, SchedulerStep, Peek

LEMMA SleepInvariant ==
    ASSUME NoWrap PROVE HeadlessSpec => []SleepInv
<1>1. Init => SleepInv
    <2> SUFFICES ASSUME Init PROVE SleepInv
        OBVIOUS
    <2>1. /\ NumSlots \in 0 .. NumSlots /\ 0 \in 0 .. NumSlots
          /\ 0 \in 0 .. ProgramLines /\ MaxTick \in Nat
        BY SlotsAssumption, ProgramAssumption, TickAssumption
    <2>2. TypeOK
        BY <2>1 DEF Init, TypeOK, RunStates
    <2>3. tick <= MaxTick /\ \A a \in Slots : wake[a] = due[a] /\ due[a] <= tick
        BY <2>1 DEF Init
    <2> QED BY <2>2, <2>3 DEF SleepInv
<1>2. SleepInv /\ [HeadlessNext]_vars => SleepInv'
    BY SleepStep
<1> QED
    BY <1>1, <1>2, PTL DEF HeadlessSpec

\* Under the scheduler no program executes before the tick its last sleep or
\* yield named, whatever the world, as long as no sleep reaches past the largest
\* tick (can_step, runnable_at, begin_tick).
THEOREM SleepIsHonoured ==
    ASSUME NoWrap PROVE HeadlessSpec => SleepHonoured
<1>1. ASSUME SleepInv, [HeadlessNext]_vars
      PROVE  [\A a \in Slots : ops'[a] > ops[a] => due[a] <= tick]_vars
    <2> SUFFICES ASSUME NEW a \in Slots, ops'[a] > ops[a] PROVE due[a] <= tick
        OBVIOUS
    <2>0. ops \in [Slots -> Nat]
        BY <1>1 DEF SleepInv, TypeOK
    <2>1. NextUp(a)
        <3>1. \/ \E b \in Slots \ Lua, o \in Outcomes : StepIc10(b, o)
              \/ \E b \in Lua : StepLua(b)
            BY <1>1, <2>0
            DEF HeadlessNext, SchedulerStep, Peek, vars, TakeSchedulerError, EndOfTick,
                PeekEndOfTick, PeekLocation, BeginTick, AdvanceTickFails, TickEndFails,
                TickStartFails
        <3>2. CASE \E b \in Slots \ Lua, o \in Outcomes : StepIc10(b, o)
            BY <2>0, <3>2 DEF StepIc10, ExecuteIc10
        <3>3. CASE \E b \in Lua : StepLua(b)
            BY <2>0, <3>3 DEF StepLua, ExecuteLua, FaultLua
        <3> QED BY <3>1, <3>2, <3>3
    <2>2. CanStep(a)
        BY <1>1, <2>1, NextUpFact DEF SleepInv
    <2> QED BY <1>1, <2>2 DEF SleepInv, TypeOK, CanStep, RunnableAt
<1> QED
    BY <1>1, SleepInvariant, NoWrap, PTL DEF HeadlessSpec, SleepHonoured

-----------------------------------------------------------------------------
(* The location the debugger is shown.                                     *)

\* The inductive invariant: the slot a peek has reported is the one the cursor
\* stands at, and it is still able to run.
PeekInv ==
    /\ TypeOK
    /\ peeked # NumSlots => peeked = slot /\ peeked \in Eligible

\* With an eligible slot under the cursor, that slot is next and the walk to it
\* passes over nothing.
LEMMA NothingPassed ==
    ASSUME TypeOK, slot \in Eligible, NEW a \in Slots, NextUp(a)
    PROVE  a = slot /\ \A b \in Slots : HaltedUpTo(a)[b] = state[b]
<1>1. \A b \in Slots : b \in Nat
    BY SlotsAssumption DEF Slots
<1>2. slot \in Slots /\ a >= slot /\ a <= slot
    BY DEF NextUp, Eligible
<1>3. a = slot
    BY <1>1, <1>2
<1>4. \A b \in Slots : ~(b >= slot /\ b < slot)
    BY <1>1, <1>2
<1> QED
    BY <1>3, <1>4 DEF HaltedUpTo

\* A peek leaves the slot it reports eligible.
LEMMA PeekedEligible ==
    ASSUME TypeOK, NEW a \in Slots, PeekLocation(a)
    PROVE  a \in Eligible'
<1>1. CanStep(a) /\ HasLocation(a) /\ a \in Nat
    BY NextUpFact DEF PeekLocation
<1>2. slot' = a /\ state' = HaltedUpTo(a) /\ UNCHANGED <<tick, wake, pc, ops>>
    BY DEF PeekLocation
<1>3. state'[a] = state[a]
    BY <1>1, <1>2 DEF HaltedUpTo
<1>4. CanStep(a)'
    BY <1>1, <1>2, <1>3 DEF CanStep, RunnableAt, BudgetOf
<1>5. HasLocation(a)'
    BY <1>1, <1>2 DEF HasLocation
<1>6. a >= slot'
    BY <1>1, <1>2
<1> QED
    BY <1>4, <1>5, <1>6 DEF Eligible

LEMMA PeekStep ==
    ASSUME PeekInv, [HeadlessNext]_vars PROVE PeekInv'
<1>1. TypeOK'
    BY TypeStep DEF PeekInv, Next
<1>2. CASE SchedulerStep \/ PeekEndOfTick
    <2>1. peeked' = NumSlots
        BY <1>2 DEF SchedulerStep, TakeSchedulerError, EndOfTick, StepIc10, StepLua, PeekEndOfTick
    <2> QED BY <1>1, <2>1 DEF PeekInv
<1>3. ASSUME NEW a \in Slots, PeekLocation(a) PROVE PeekInv'
    <2>1. peeked' = a /\ slot' = a
        BY <1>3 DEF PeekLocation
    <2>2. a \in Eligible'
        BY <1>3, PeekedEligible DEF PeekInv
    <2> QED BY <1>1, <2>1, <2>2 DEF PeekInv
<1>4. CASE UNCHANGED vars
    BY <1>1, <1>4 DEF PeekInv, vars, Eligible, CanStep, RunnableAt, BudgetOf, HasLocation
<1> QED
    BY <1>2, <1>3, <1>4 DEF HeadlessNext, Peek

\* What PeekIsExact says of one step.
OnlyPeeked ==
    /\ tick' = tick
    /\ \A b \in Slots \ {peeked} : /\ state'[b] = state[b]
                                    /\ pc'[b] = pc[b]
                                    /\ ops'[b] = ops[b]

LEMMA PeekStepExact ==
    ASSUME PeekInv, [HeadlessNext]_vars, peeked # NumSlots PROVE OnlyPeeked
<1>1. TypeOK /\ peeked = slot /\ slot \in Eligible
    BY DEF PeekInv
<1>2. Eligible # {}
    BY <1>1
<1>3. CASE TakeSchedulerError \/ UNCHANGED vars
    BY <1>3 DEF TakeSchedulerError, vars, OnlyPeeked
<1>4. CASE EndOfTick \/ PeekEndOfTick
    BY <1>2, <1>4 DEF EndOfTick, PeekEndOfTick
<1>5. ASSUME NEW a \in Slots \ Lua, NEW o \in Outcomes, StepIc10(a, o) PROVE OnlyPeeked
    <2>1. a = slot /\ \A b \in Slots : HaltedUpTo(a)[b] = state[b]
        BY <1>1, <1>5, NothingPassed DEF StepIc10
    <2>2. HaltedUpTo(a) \in [Slots -> RunStates]
        BY <1>1, HaltedType
    <2>3. /\ tick' = tick /\ pc' = [pc EXCEPT ![a] = PcAfter(a, o)]
          /\ state' = [HaltedUpTo(a) EXCEPT ![a] = StateAfter(o)]
          /\ ops' = [ops EXCEPT ![a] = @ + 1]
        BY <1>5 DEF StepIc10, ExecuteIc10
    <2> QED BY <1>1, <2>1, <2>2, <2>3 DEF OnlyPeeked, TypeOK
<1>6. ASSUME NEW a \in Lua, StepLua(a) PROVE OnlyPeeked
    <2>0. a \in Slots
        BY SlotsAssumption
    <2>1. a = slot /\ \A b \in Slots : HaltedUpTo(a)[b] = state[b]
        BY <1>1, <1>6, <2>0, NothingPassed DEF StepLua
    <2>2. HaltedUpTo(a) \in [Slots -> RunStates]
        BY <1>1, HaltedType
    <2>3. CASE ExecuteLua(a, HaltedUpTo(a))
        BY <1>1, <2>1, <2>2, <2>3 DEF ExecuteLua, OnlyPeeked, TypeOK
    <2>4. CASE FaultLua(a, HaltedUpTo(a))
        BY <1>1, <2>1, <2>2, <2>4 DEF FaultLua, OnlyPeeked, TypeOK
    <2> QED BY <1>6, <2>3, <2>4 DEF StepLua
<1>7. ASSUME NEW a \in Slots, PeekLocation(a) PROVE OnlyPeeked
    <2>1. \A b \in Slots : HaltedUpTo(a)[b] = state[b]
        BY <1>1, <1>7, NothingPassed DEF PeekLocation
    <2> QED BY <1>7, <2>1 DEF PeekLocation, OnlyPeeked
<1> QED
    BY <1>3, <1>4, <1>5, <1>6, <1>7 DEF HeadlessNext, SchedulerStep, Peek

\* The location next_scheduled_location reports is the one the next
\* scheduler_step executes, in every world driven by the scheduler alone and
\* whichever hooks and Lua programs fail.
THEOREM PeekStaysExact == HeadlessSpec => PeekIsExact
<1>1. Init => PeekInv
    <2> SUFFICES ASSUME Init PROVE PeekInv
        OBVIOUS
    <2>1. /\ NumSlots \in 0 .. NumSlots /\ 0 \in 0 .. NumSlots
          /\ 0 \in 0 .. ProgramLines
        BY SlotsAssumption, ProgramAssumption
    <2> QED BY <2>1 DEF Init, TypeOK, RunStates, PeekInv
<1>2. PeekInv /\ [HeadlessNext]_vars => PeekInv'
    BY PeekStep
<1>3. PeekInv /\ [HeadlessNext]_vars => [peeked # NumSlots => OnlyPeeked]_vars
    BY PeekStepExact
<1>4. HeadlessSpec => []PeekInv
    BY <1>1, <1>2, PTL DEF HeadlessSpec
<1>5. HeadlessSpec => [][peeked # NumSlots => OnlyPeeked]_vars
    BY <1>3, <1>4, PTL DEF HeadlessSpec
<1> QED
    BY <1>5 DEF PeekIsExact, OnlyPeeked

-----------------------------------------------------------------------------
(* Programs that have stopped.                                             *)

Stopped(a) == state[a] \in {"Halted", "Error"}

\* What StoppedForGood says of one slot and one step.
Untouched(a) == state'[a] = state[a] /\ pc'[a] = pc[a] /\ ops'[a] <= ops[a]

\* Walking on from the cursor does not touch a stopped program.
LEMMA StoppedPassed ==
    ASSUME NEW a \in Slots, Stopped(a), NEW n
    PROVE  ~CanStep(a) /\ HaltedUpTo(n)[a] = state[a]
BY DEF Stopped, CanStep, RunnableAt, HaltedUpTo

LEMMA StoppedAdvance ==
    ASSUME TypeOK, NEW a \in Slots, Stopped(a), pc' = pc,
           BeginTick(HaltedUpTo(NumSlots)) \/ AdvanceTickFails(HaltedUpTo(NumSlots))
    PROVE  Untouched(a)
<1>1. HaltedUpTo(NumSlots)[a] = state[a] /\ state[a] # "Waiting" /\ ops[a] \in Nat
    BY StoppedPassed DEF Stopped, TypeOK
<1>2. CASE BeginTick(HaltedUpTo(NumSlots))
    <2>1. state'[a] = state[a]
        BY <1>1, <1>2 DEF BeginTick
    <2>2. ops'[a] = 0
        BY <1>2 DEF BeginTick
    <2> QED BY <1>1, <2>1, <2>2 DEF Untouched
<1>3. CASE AdvanceTickFails(HaltedUpTo(NumSlots))
    <2>1. state' = HaltedUpTo(NumSlots) /\ ops' = ops
        BY <1>3 DEF AdvanceTickFails, TickEndFails, TickStartFails
    <2> QED BY <1>1, <2>1 DEF Untouched
<1> QED
    BY <1>2, <1>3

\* An instruction of another program.
LEMMA StoppedElsewhere ==
    ASSUME TypeOK, NEW a \in Slots, NEW b \in Slots, a # b, NEW o,
           NEW st \in [Slots -> RunStates], st[a] = state[a], ExecuteIc10(b, o, st)
    PROVE  Untouched(a)
<1>1. state'[a] = state[a] /\ pc'[a] = pc[a] /\ ops'[a] = ops[a] /\ ops[a] \in Nat
    BY DEF ExecuteIc10, TypeOK
<1> QED
    BY <1>1 DEF Untouched

LEMMA StoppedStep ==
    ASSUME TypeOK, [Next]_vars, NEW a \in Slots, Stopped(a) PROVE Untouched(a)
<1>0. ops[a] \in Nat /\ state \in [Slots -> RunStates] /\ ops[a] <= ops[a]
    BY DEF TypeOK
<1>1. CASE TakeSchedulerError \/ UNCHANGED vars
    BY <1>0, <1>1 DEF TakeSchedulerError, vars, Untouched
<1>2. CASE EndOfTick \/ PeekEndOfTick
    BY <1>2, StoppedAdvance DEF EndOfTick, PeekEndOfTick
<1>3. ASSUME NEW b \in Slots \ Lua, NEW o \in Outcomes, StepIc10(b, o) PROVE Untouched(a)
    <2>1. a # b
        BY <1>3, NextUpFact, StoppedPassed DEF StepIc10
    <2>2. HaltedUpTo(b)[a] = state[a] /\ HaltedUpTo(b) \in [Slots -> RunStates]
        BY StoppedPassed, HaltedType
    <2> QED BY <1>3, <2>1, <2>2, StoppedElsewhere DEF StepIc10
<1>4. ASSUME NEW b \in Lua, StepLua(b) PROVE Untouched(a)
    <2>0. b \in Slots
        BY SlotsAssumption
    <2>1. a # b
        BY <1>4, <2>0, NextUpFact, StoppedPassed DEF StepLua
    <2>2. HaltedUpTo(b)[a] = state[a] /\ HaltedUpTo(b) \in [Slots -> RunStates]
        BY StoppedPassed, HaltedType
    <2>3. CASE ExecuteLua(b, HaltedUpTo(b))
        <3>1. state'[a] = state[a] /\ pc' = pc /\ ops'[a] = ops[a]
            BY <2>0, <2>1, <2>2, <2>3 DEF ExecuteLua, TypeOK
        <3> QED BY <1>0, <3>1 DEF Untouched
    <2>4. CASE FaultLua(b, HaltedUpTo(b))
        BY <1>0, <2>2, <2>4 DEF FaultLua, Untouched
    <2> QED BY <1>4, <2>3, <2>4 DEF StepLua
<1>5. ASSUME NEW b \in Slots, PeekLocation(b) PROVE Untouched(a)
    <2>1. HaltedUpTo(b)[a] = state[a]
        BY StoppedPassed
    <2> QED BY <1>0, <1>5, <2>1 DEF PeekLocation, Untouched
<1>6. ASSUME NEW b \in Slots \ Lua, NEW o \in Outcomes, StepInstruction(b, o)
      PROVE  Untouched(a)
    <2>1. a # b
        BY <1>6 DEF StepInstruction, Stopped
    <2> QED BY <1>0, <1>6, <2>1, StoppedElsewhere DEF StepInstruction
<1>7. ASSUME NEW b \in Slots \ Lua, StepPastEnd(b) PROVE Untouched(a)
    <2>1. a # b
        BY <1>7 DEF StepPastEnd, Stopped
    <2> QED BY <1>0, <1>7, <2>1 DEF StepPastEnd, Untouched
<1> QED
    BY <1>1, <1>2, <1>3, <1>4, <1>5, <1>6, <1>7
    DEF Next, HeadlessNext, SchedulerStep, Peek, DebuggerStep

\* A program that has halted or failed stays as it is, whatever the scheduler
\* and the hand steps of a debugger do to the others.
THEOREM StoppedStaysStopped == Spec => StoppedForGood
<1>1. TypeOK /\ [Next]_vars => [\A a \in Slots : Stopped(a) => Untouched(a)]_vars
    BY StoppedStep
<1>2. Spec => [][\A a \in Slots : Stopped(a) => Untouched(a)]_vars
    BY <1>1, TypeCorrect, PTL DEF Spec
<1> QED
    BY <1>2 DEF StoppedForGood, Stopped, Untouched
=============================================================================
