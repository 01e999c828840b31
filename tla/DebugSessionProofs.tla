------------------------- MODULE DebugSessionProofs -------------------------
(***************************************************************************)
(* The debug session, proved for any programs, limits and breakpoints: the *)
(* history stays sound, a navigation lands in the recorded state, the      *)
(* client is told of every stop, no breakpoint is run over, and where all  *)
(* that changes the simulator is recorded, every retained event can be     *)
(* navigated to and a refused request has changed nothing.                 *)
(***************************************************************************)
EXTENDS DebugSession, FiniteSetTheorems, WellFoundedInduction, TLAPS

-----------------------------------------------------------------------------
(* Numbers and functions on intervals.                                     *)

\* A nonempty set of naturals has a least element.
LEMMA LeastExists ==
    ASSUME NEW X \in SUBSET Nat, X # {}
    PROVE  Least(X) \in X /\ \A j \in X : Least(X) <= j
<1> DEFINE R == {p \in Nat \X Nat : p[1] < p[2]}
<1>1. IsWellFoundedOn(R, Nat)
  BY NatLessThanWellFounded, Zenon DEF OpToRel
<1>2. PICK m \in X : \A o \in X : ~ (<<o, m>> \in R)
  <2> HIDE DEF R
  <2> QED BY <1>1, WFMin, Zenon
<1>3. \A j \in X : m <= j
  <2> SUFFICES ASSUME NEW j \in X PROVE m <= j
    OBVIOUS
  <2>1. j \in Nat /\ m \in Nat /\ <<j, m>> \notin R
    BY <1>2
  <2> QED BY <2>1
<1> QED
  BY <1>3, Zenon DEF Least

\* A nonempty set of naturals up to n has a greatest element.
LEMMA GreatestExists ==
    ASSUME NEW n \in Nat, NEW X \in SUBSET (0 .. n), X # {}
    PROVE  Greatest(X) \in X /\ \A j \in X : j <= Greatest(X)
<1> DEFINE Y == {n - i : i \in X}
<1>1. Y \in SUBSET Nat /\ Y # {}
  <2>1. \A i \in X : n - i \in Nat
    OBVIOUS
  <2>2. PICK i \in X : TRUE
    OBVIOUS
  <2>3. n - i \in Y
    OBVIOUS
  <2> QED
    BY <2>1, <2>3
<1>2. Least(Y) \in Y /\ \A j \in Y : Least(Y) <= j
  <2> HIDE DEF Y
  <2> QED BY <1>1, LeastExists
<1>3. PICK m \in X : Least(Y) = n - m
  BY <1>2
<1>4. \A j \in X : j <= m
  <2> SUFFICES ASSUME NEW j \in X PROVE j <= m
    OBVIOUS
  <2>1. n - m <= n - j
    BY <1>2, <1>3
  <2> QED BY <2>1
<1> QED
  BY <1>4, Zenon DEF Greatest

\* What holds at the start of an interval and is passed on holds throughout.
LEMMA PassedOn ==
    ASSUME NEW lo \in Nat, NEW hi \in Nat, NEW f, NEW S, f[lo] \in S,
           \A n \in lo + 1 .. hi : f[n - 1] \in S => f[n] \in S
    PROVE  \A n \in lo .. hi : f[n] \in S
<1> DEFINE Bad == {n \in lo .. hi : f[n] \notin S}
<1> SUFFICES ASSUME Bad # {} PROVE FALSE
  OBVIOUS
<1>1. Bad \in SUBSET Nat
  OBVIOUS
<1>2. Least(Bad) \in Bad /\ \A j \in Bad : Least(Bad) <= j
  <2> HIDE DEF Bad
  <2> QED BY <1>1, LeastExists
<1> DEFINE m == Least(Bad)
<1>3. m \in lo .. hi /\ f[m] \notin S /\ m # lo
  BY <1>2
<1> HIDE DEF m
<1>4. m \in lo + 1 .. hi /\ m - 1 \in lo .. hi /\ m - 1 < m
  BY <1>3
<1>5. m - 1 \notin Bad
  BY <1>2, <1>4 DEF m
<1>6. f[m - 1] \in S
  BY <1>4, <1>5
<1> QED
  BY <1>3, <1>4, <1>6

\* A function defined by what it is at the start of an interval and by how
\* each value follows from the one before exists.
Iterates(S, a, lo, hi, g) ==
    \E f \in [lo .. hi -> S] : f = [n \in lo .. hi |-> IF n = lo THEN a ELSE g[n][f[n - 1]]]

LEMMA IteratesExist ==
    ASSUME NEW S, NEW a \in S, NEW lo \in Nat, NEW hi \in Nat, lo <= hi,
           NEW g \in [Nat -> [S -> S]]
    PROVE  Iterates(S, a, lo, hi, g)
<1> DEFINE Is(f, m) == /\ f \in [lo .. m -> S]
                       /\ f = [n \in lo .. m |-> IF n = lo THEN a ELSE g[n][f[n - 1]]]
           Bad == {m \in lo .. hi : ~ \E f : Is(f, m)}
<1>1. ASSUME Bad # {} PROVE FALSE
  <2>1. Bad \in SUBSET Nat
    OBVIOUS
  <2>2. Least(Bad) \in Bad /\ \A j \in Bad : Least(Bad) <= j
    <3> HIDE DEF Bad
    <3> QED BY <1>1, <2>1, LeastExists
  <2> DEFINE m == Least(Bad)
  <2>3. m \in lo .. hi /\ ~ \E f : Is(f, m)
    BY <2>2
  <2> HIDE DEF m
  <2>4. Is([n \in lo .. lo |-> a], lo)
    OBVIOUS
  <2>5. m \in lo + 1 .. hi /\ m - 1 \in lo .. hi /\ m - 1 < m
    <3>1. m # lo
      <4> HIDE DEF Is
      <4> QED BY <2>3, <2>4
    <3> QED BY <2>3, <3>1
  <2>6. m - 1 \notin Bad
    <3> HIDE DEF Bad
    <3>1. \A j \in Bad : m <= j
      BY <2>2 DEF m
    <3>2. m \in Nat /\ ~ (m <= m - 1)
      BY <2>5
    <3> QED BY <3>1, <3>2
  <2>7. PICK f : Is(f, m - 1)
    BY <2>5, <2>6
  <2> DEFINE e == [n \in lo .. m |-> IF n = m THEN g[m][f[m - 1]] ELSE f[n]]
  <2>8. f[m - 1] \in S /\ g[m] \in [S -> S] /\ g[m][f[m - 1]] \in S
    BY <2>5, <2>7
  <2>9. e \in [lo .. m -> S]
    BY <2>5, <2>7, <2>8
  <2>10. \A n \in lo .. m : e[n] = IF n = lo THEN a ELSE g[n][e[n - 1]]
    <3> SUFFICES ASSUME NEW n \in lo .. m PROVE e[n] = IF n = lo THEN a ELSE g[n][e[n - 1]]
      OBVIOUS
    <3>1. CASE n = m
      <4>1. e[n] = g[m][f[m - 1]] /\ n # lo /\ e[m - 1] = f[m - 1]
        BY <3>1, <2>5
      <4> QED BY <3>1, <4>1
    <3>2. CASE n # m
      <4>1. n \in lo .. m - 1 /\ e[n] = f[n]
        BY <3>2, <2>5
      <4>2. f[n] = IF n = lo THEN a ELSE g[n][f[n - 1]]
        BY <4>1, <2>7
      <4>3. n # lo => e[n - 1] = f[n - 1]
        BY <4>1, <2>5
      <4> QED BY <4>1, <4>2, <4>3
    <3> QED BY <3>1, <3>2
  <2>11. Is(e, m)
    BY <2>9, <2>10
  <2> QED
    BY <2>3, <2>11
<1>2. hi \in lo .. hi
  OBVIOUS
<1>3. \E f : Is(f, hi)
  BY <1>1, <1>2
<1> QED
  BY <1>3 DEF Iterates

-----------------------------------------------------------------------------
(* The machine.                                                            *)

Instructions == {"inc", "yield", "jump", "hcf", "fail"}
Runs == {"Ready", "Waiting", "Halted", "Error"}

\* The states of the simulator.
Sim == [tick  : Nat,
        slot  : 1 .. PastEnd,
        pc    : {p \in [Cpus -> Nat] : \A c \in Cpus : p[c] \in 1 .. Len(Programs[c]) + 1},
        run   : [Cpus -> Runs],
        ops   : [Cpus -> Nat],
        field : 0 .. FieldSpan - 1]

Dead(s, c) == s.run[c] \in {"Halted", "Error"}

LEMMA CpusAre ==
    /\ Len(Programs) \in Nat /\ Cpus = 1 .. Len(Programs) /\ PastEnd = Len(Programs) + 1
    /\ Budget \in Nat \ {0} /\ FieldSpan \in Nat \ {0} /\ NoCpu = 0 /\ NoCpu \notin Cpus
    /\ \A c \in Cpus : /\ Programs[c] \in Seq(Instructions) /\ Len(Programs[c]) \in Nat
                       /\ DOMAIN Programs[c] = 1 .. Len(Programs[c])
BY ProgramsAssumption, MachineAssumption DEF Cpus, PastEnd, NoCpu, Instructions

LEMMA SimParts ==
    ASSUME NEW s \in Sim
    PROVE  /\ s.tick \in Nat /\ s.slot \in 1 .. PastEnd
           /\ s.pc \in [Cpus -> Nat] /\ s.run \in [Cpus -> Runs] /\ s.ops \in [Cpus -> Nat]
           /\ s.field \in 0 .. FieldSpan - 1
           /\ \A c \in Cpus : s.pc[c] \in 1 .. Len(Programs[c]) + 1
BY DEF Sim

LEMMA InitSimIs == InitSim \in Sim
BY CpusAre DEF InitSim, Sim, Runs

LEMMA OperationIs ==
    ASSUME NEW s \in Sim, NEW c \in Cpus, Located(s, c)
    PROVE  /\ Operation(s, c) \in Instructions
           /\ s.pc[c] \in 1 .. Len(Programs[c])
           /\ RunAfter(Operation(s, c)) \in Runs
           /\ RunAfter(Operation(s, c)) = "Error" <=> Operation(s, c) = "fail"
           /\ Operation(s, c) = "hcf" => RunAfter(Operation(s, c)) = "Halted"
<1>1. s.pc[c] \in 1 .. Len(Programs[c])
  BY CpusAre, SimParts DEF Located
<1>2. Operation(s, c) \in Instructions
  BY <1>1, CpusAre DEF Operation
<1> QED
  BY <1>1, <1>2 DEF Instructions, RunAfter, Runs

\* Moving the cursor changes no program counter and no count of operations, and
\* of the CPUs it passes only the ones that have run out of instructions.
LEMMA PassedToIs ==
    ASSUME NEW s \in Sim, NEW n \in 1 .. PastEnd
    PROVE  /\ PassedTo(s, n) \in Sim /\ PassedTo(s, n).slot = n
           /\ PassedTo(s, n).pc = s.pc /\ PassedTo(s, n).ops = s.ops
           /\ PassedTo(s, n).tick = s.tick /\ PassedTo(s, n).field = s.field
           /\ \A c \in Cpus : /\ Dead(s, c) => PassedTo(s, n).run[c] = s.run[c]
                              /\ c >= n => PassedTo(s, n).run[c] = s.run[c]
<1>1. [c \in Cpus |-> IF c >= s.slot /\ c < n /\ CanStep(s, c) THEN "Halted" ELSE s.run[c]]
      \in [Cpus -> Runs]
  BY SimParts DEF Runs
<1>2. PassedTo(s, n) \in Sim
  BY <1>1, SimParts DEF PassedTo, Sim
<1>3. \A c \in Cpus : Dead(s, c) => PassedTo(s, n).run[c] = s.run[c]
  BY DEF PassedTo, Sim, CanStep, Dead
<1>4. \A c \in Cpus : c >= n => PassedTo(s, n).run[c] = s.run[c]
  BY CpusAre DEF PassedTo, Sim
<1> QED
  BY <1>2, <1>3, <1>4 DEF PassedTo, Sim

LEMMA AdvanceTickIs ==
    ASSUME NEW s \in Sim
    PROVE  /\ AdvanceTick(s) \in Sim /\ AdvanceTick(s).pc = s.pc
           /\ AdvanceTick(s).tick = s.tick + 1
           /\ \A c \in Cpus : /\ AdvanceTick(s).ops[c] = 0
                              /\ Dead(s, c) => Dead(AdvanceTick(s), c)
<1>1. AdvanceTick(s) \in Sim
  <2>1. [c \in Cpus |-> IF s.run[c] = "Waiting" THEN "Ready" ELSE s.run[c]] \in [Cpus -> Runs]
    BY SimParts DEF Runs
  <2>2. [c \in Cpus |-> 0] \in [Cpus -> Nat] /\ 1 \in 1 .. PastEnd /\ s.tick + 1 \in Nat
    BY CpusAre, SimParts
  <2> QED
    BY <2>1, <2>2 DEF AdvanceTick, Sim
<1> QED
  BY <1>1 DEF AdvanceTick, Sim, Dead

\* prepare_next_adapter: the CPU it finds can step and is found again.
LEMMA PrepareIs ==
    ASSUME NEW s \in Sim
    PROVE  /\ Prepare(s).sim \in Sim /\ Prepare(s).cpu \in Cpus \cup {NoCpu}
           /\ Prepare(s).sim.pc = s.pc
           /\ \A d \in Cpus : /\ Dead(s, d) => Dead(Prepare(s).sim, d)
                              /\ Prepare(s).sim.ops[d] <= s.ops[d]
           /\ Prepare(s).cpu # NoCpu =>
                 /\ CanStep(s, Prepare(s).cpu) /\ Located(s, Prepare(s).cpu)
                 /\ Prepare(s).sim.ops = s.ops
                 /\ Prepare(s).sim.run[Prepare(s).cpu] = "Ready"
                 /\ Prepare(Prepare(s).sim).cpu = Prepare(s).cpu
                 /\ Prepare(Prepare(s).sim).sim = Prepare(s).sim
<1>1. CASE Eligible(s) = {}
  <2>1. PastEnd \in 1 .. PastEnd
    BY CpusAre
  <2> DEFINE p == PassedTo(s, PastEnd)
  <2>2. /\ p \in Sim /\ p.pc = s.pc /\ p.ops = s.ops
        /\ \A c \in Cpus : Dead(s, c) => p.run[c] = s.run[c]
    BY <2>1, PassedToIs
  <2> HIDE DEF p
  <2>3. /\ AdvanceTick(p) \in Sim /\ AdvanceTick(p).pc = s.pc
        /\ \A c \in Cpus : AdvanceTick(p).ops[c] = 0 /\ (Dead(s, c) => Dead(AdvanceTick(p), c))
    BY <2>2, AdvanceTickIs DEF Dead
  <2>4. Prepare(s).cpu = NoCpu /\ Prepare(s).sim = AdvanceTick(p)
    BY <1>1 DEF Prepare, p
  <2>5. \A c \in Cpus : AdvanceTick(p).ops[c] <= s.ops[c]
    BY <2>3, SimParts
  <2> QED
    BY <2>3, <2>4, <2>5
<1>2. CASE Eligible(s) # {}
  <2> DEFINE c == CHOOSE c \in Eligible(s) : \A d \in Eligible(s) : c <= d
  <2>1. c \in Eligible(s) /\ \A d \in Eligible(s) : c <= d
    <3>1. Eligible(s) \in SUBSET Nat
      BY CpusAre DEF Eligible
    <3> QED
      BY <1>2, <3>1, LeastExists, Zenon DEF Least
  <2>2. Prepare(s).cpu = c /\ Prepare(s).sim = PassedTo(s, c)
    BY <1>2 DEF Prepare
  <2> HIDE DEF c
  <2>3. c \in Cpus /\ c \in 1 .. PastEnd /\ CanStep(s, c) /\ Located(s, c) /\ c # NoCpu
    BY <2>1, CpusAre DEF Eligible
  <2> DEFINE p == PassedTo(s, c)
  <2>4. /\ p \in Sim /\ p.slot = c /\ p.pc = s.pc /\ p.ops = s.ops
        /\ \A d \in Cpus : /\ Dead(s, d) => p.run[d] = s.run[d]
                           /\ d >= c => p.run[d] = s.run[d]
    BY <2>3, PassedToIs
  <2>5. p.run[c] = "Ready"
    BY <2>3, <2>4, CpusAre DEF CanStep
  <2>6. \A d \in Cpus : p.ops[d] <= s.ops[d]
    BY <2>4, SimParts
  <2>7. \A d \in Cpus : Dead(s, d) => Dead(p, d)
    BY <2>4 DEF Dead
  <2>8. Prepare(p).cpu = c /\ Prepare(p).sim = p
    <3>1. c \in Eligible(p) /\ \A d \in Eligible(p) : c <= d
      <4>1. c >= p.slot
        BY <2>3, <2>4, CpusAre
      <4>2. \A d \in Eligible(p) : c <= d
        BY <2>3, <2>4, CpusAre DEF Eligible
      <4> QED
        BY <4>1, <4>2, <2>3, <2>4, <2>5 DEF Eligible, CanStep, Located
    <3>2. \A e \in Eligible(p) : (\A d \in Eligible(p) : e <= d) => e = c
      <4>1. Eligible(p) \in SUBSET Nat
        BY CpusAre DEF Eligible
      <4> QED
        BY <3>1, <4>1
    <3>3. (CHOOSE e \in Eligible(p) : \A d \in Eligible(p) : e <= d) = c
      <4> HIDE DEF p
      <4> QED BY <3>1, <3>2, Zenon
    <3>4. Prepare(p).cpu = c /\ Prepare(p).sim = PassedTo(p, c)
      BY <3>1, <3>3, Zenon DEF Prepare
    <3>5. PassedTo(p, c) = p
      <4>1. \A d \in Cpus : (IF d >= p.slot /\ d < c /\ CanStep(p, d) THEN "Halted" ELSE p.run[d])
                            = p.run[d]
        BY <2>3, <2>4, CpusAre
      <4>2. [d \in Cpus |-> IF d >= p.slot /\ d < c /\ CanStep(p, d) THEN "Halted" ELSE p.run[d]]
            = p.run
        <5> HIDE DEF p
        <5> QED BY <4>1, <2>4 DEF Sim
      <4> HIDE DEF p
      <4> QED BY <4>2, <2>4 DEF PassedTo, Sim
    <3> QED
      BY <3>4, <3>5
  <2> HIDE DEF p
  <2>9. Prepare(s).cpu = c /\ Prepare(s).sim = p
    BY <2>2 DEF p
  <2> QED
    BY <2>3, <2>4, <2>5, <2>6, <2>7, <2>8, <2>9
<1> QED
  BY <1>1, <1>2

LEMMA ExecuteIs ==
    ASSUME NEW s \in Sim, NEW c \in Cpus, Located(s, c)
    PROVE  /\ Execute(s, c) \in Sim
           /\ Execute(s, c).run[c] = RunAfter(Operation(s, c))
           /\ Execute(s, c).slot = s.slot
           /\ \A d \in Cpus \ {c} : /\ Execute(s, c).pc[d] = s.pc[d]
                                    /\ Execute(s, c).run[d] = s.run[d]
                                    /\ Execute(s, c).ops[d] = s.ops[d]
<1> DEFINE op == Operation(s, c)
           e == Execute(s, c)
           at == IF op = "jump" THEN 1 ELSE s.pc[c] + 1
           on == IF op = "inc" THEN (s.field + 1) % FieldSpan ELSE s.field
<1>1. s.pc[c] \in 1 .. Len(Programs[c]) /\ RunAfter(op) \in Runs /\ Len(Programs[c]) \in Nat
  BY OperationIs, CpusAre
<1>2. at \in Nat /\ at \in 1 .. Len(Programs[c]) + 1
  BY <1>1
<1>3. on \in 0 .. FieldSpan - 1
  BY SimParts, CpusAre
<1>4. e = [s EXCEPT !.pc = [s.pc EXCEPT ![c] = at], !.run = [s.run EXCEPT ![c] = RunAfter(op)],
                    !.ops = [s.ops EXCEPT ![c] = s.ops[c] + 1], !.field = on]
  BY DEF Execute, Sim
<1> HIDE DEF op, at, on
<1>5. /\ [s.pc EXCEPT ![c] = at] \in [Cpus -> Nat]
      /\ \A d \in Cpus : [s.pc EXCEPT ![c] = at][d] \in 1 .. Len(Programs[d]) + 1
      /\ [s.run EXCEPT ![c] = RunAfter(op)] \in [Cpus -> Runs]
      /\ [s.ops EXCEPT ![c] = s.ops[c] + 1] \in [Cpus -> Nat]
  BY <1>1, <1>2, SimParts
<1>6. e \in Sim
  BY <1>3, <1>4, <1>5 DEF Sim
<1>7. /\ e.run = [s.run EXCEPT ![c] = RunAfter(op)] /\ e.slot = s.slot
      /\ e.pc = [s.pc EXCEPT ![c] = at] /\ e.ops = [s.ops EXCEPT ![c] = s.ops[c] + 1]
  BY <1>4 DEF Sim
<1> HIDE DEF e
<1>8. /\ e.run[c] = RunAfter(op)
      /\ \A d \in Cpus \ {c} : e.pc[d] = s.pc[d] /\ e.run[d] = s.run[d] /\ e.ops[d] = s.ops[d]
  BY <1>7, SimParts
<1> QED
  BY <1>6, <1>7, <1>8 DEF e, op

Result == [sim : Sim, failed : BOOLEAN]

\* step_instruction touches the CPU it steps and the shared field.
LEMMA StepInstructionIs ==
    ASSUME NEW s \in Sim, NEW c \in Cpus
    PROVE  /\ StepInstruction(s, c) \in Result
           /\ \A d \in Cpus \ {c} : /\ StepInstruction(s, c).sim.pc[d] = s.pc[d]
                                    /\ StepInstruction(s, c).sim.run[d] = s.run[d]
                                    /\ StepInstruction(s, c).sim.ops[d] = s.ops[d]
           /\ Dead(s, c) => StepInstruction(s, c) = [sim |-> s, failed |-> TRUE]
           /\ StepInstruction(s, c).failed => Dead(StepInstruction(s, c).sim, c)
           /\ Operation(s, c) = "hcf" => Dead(StepInstruction(s, c).sim, c)
<1>1. CASE s.run[c] \in {"Halted", "Error"}
  BY <1>1 DEF StepInstruction, Result, Dead
<1>2. CASE s.run[c] \notin {"Halted", "Error"} /\ ~Located(s, c)
  <2>1. StepInstruction(s, c) = [sim |-> [s EXCEPT !.run[c] = "Halted"], failed |-> FALSE]
    BY <1>2 DEF StepInstruction
  <2>2. [s EXCEPT !.run[c] = "Halted"] \in Sim
    BY DEF Sim, Runs
  <2>3. Operation(s, c) # "hcf"
    BY <1>2 DEF Operation
  <2>4. ~Dead(s, c)
    BY <1>2 DEF Dead
  <2>5. \A d \in Cpus \ {c} : /\ [s EXCEPT !.run[c] = "Halted"].pc[d] = s.pc[d]
                              /\ [s EXCEPT !.run[c] = "Halted"].run[d] = s.run[d]
                              /\ [s EXCEPT !.run[c] = "Halted"].ops[d] = s.ops[d]
    BY DEF Sim
  <2>6. StepInstruction(s, c) \in Result /\ ~StepInstruction(s, c).failed
    BY <2>1, <2>2 DEF Result
  <2>7. StepInstruction(s, c).sim = [s EXCEPT !.run[c] = "Halted"]
    BY <2>1
  <2> QED
    BY <2>3, <2>4, <2>5, <2>6, <2>7, Zenon
<1>3. CASE s.run[c] \notin {"Halted", "Error"} /\ Located(s, c)
  <2>1. StepInstruction(s, c) = [sim |-> Execute(s, c), failed |-> Operation(s, c) = "fail"]
    BY <1>3 DEF StepInstruction
  <2>2. ~Dead(s, c)
    BY <1>3 DEF Dead
  <2>3. /\ Execute(s, c) \in Sim /\ Execute(s, c).run[c] = RunAfter(Operation(s, c))
        /\ \A d \in Cpus \ {c} : /\ Execute(s, c).pc[d] = s.pc[d]
                                 /\ Execute(s, c).run[d] = s.run[d]
                                 /\ Execute(s, c).ops[d] = s.ops[d]
    BY <1>3, ExecuteIs
  <2>4. /\ RunAfter(Operation(s, c)) = "Error" <=> Operation(s, c) = "fail"
        /\ Operation(s, c) = "hcf" => RunAfter(Operation(s, c)) = "Halted"
    BY <1>3, OperationIs
  <2>5. /\ StepInstruction(s, c) \in Result /\ StepInstruction(s, c).sim = Execute(s, c)
        /\ StepInstruction(s, c).failed <=> Operation(s, c) = "fail"
    <3> DEFINE F == Operation(s, c) = "fail"
    <3>1. F \in BOOLEAN /\ StepInstruction(s, c) = [sim |-> Execute(s, c), failed |-> F]
      BY <2>1
    <3>2. F <=> Operation(s, c) = "fail"
      OBVIOUS
    <3> HIDE DEF F
    <3> QED BY <2>3, <3>1, <3>2 DEF Result
  <2>6. (Operation(s, c) \in {"fail", "hcf"}) => Dead(Execute(s, c), c)
    BY <2>3, <2>4 DEF Dead
  <2>7. /\ \A d \in Cpus \ {c} : /\ StepInstruction(s, c).sim.pc[d] = s.pc[d]
                                 /\ StepInstruction(s, c).sim.run[d] = s.run[d]
                                 /\ StepInstruction(s, c).sim.ops[d] = s.ops[d]
    BY <2>3, <2>5
  <2>8. /\ StepInstruction(s, c).failed => Dead(StepInstruction(s, c).sim, c)
        /\ Operation(s, c) = "hcf" => Dead(StepInstruction(s, c).sim, c)
    BY <2>5, <2>6 DEF Dead
  <2> QED
    BY <2>2, <2>5, <2>7, <2>8, Zenon
<1> QED
  BY <1>1, <1>2, <1>3

\* scheduler_step, from the state in which its CPU has been found.
LEMMA ScheduledStepIs ==
    ASSUME NEW s \in Sim, Prepare(s).cpu # NoCpu, Prepare(s).sim = s
    PROVE  LET c == Prepare(s).cpu
               r == SchedulerStep(s)
           IN  /\ r \in Result
               /\ r.sim.run[c] = RunAfter(Operation(s, c)) /\ (r.failed <=> Operation(s, c) = "fail")
               /\ \A d \in Cpus \ {c} : /\ r.sim.pc[d] = s.pc[d] /\ r.sim.run[d] = s.run[d]
                                        /\ r.sim.ops[d] = s.ops[d]
<1> DEFINE c == Prepare(s).cpu
           e == Execute(s, c)
           r == SchedulerStep(s)
           t == [e EXCEPT !.slot = IF CanStep(e, c) THEN @ ELSE @ + 1]
<1>1. c \in Cpus /\ Located(s, c)
  BY PrepareIs
<1>2. /\ e \in Sim /\ e.run[c] = RunAfter(Operation(s, c)) /\ e.slot = s.slot
      /\ \A d \in Cpus \ {c} : e.pc[d] = s.pc[d] /\ e.run[d] = s.run[d] /\ e.ops[d] = s.ops[d]
  BY <1>1, ExecuteIs
<1>3. RunAfter(Operation(s, c)) = "Error" <=> Operation(s, c) = "fail"
  BY <1>1, OperationIs
<1>4. s.slot \in 1 .. Len(Programs) /\ Len(Programs) \in Nat
  <2>1. c \in Eligible(s)
    <3>1. Eligible(s) # {}
      BY DEF Prepare
    <3>2. Eligible(s) \in SUBSET Nat
      BY CpusAre DEF Eligible
    <3>3. c = Least(Eligible(s))
      BY <3>1 DEF Prepare, Least
    <3> QED
      BY <3>1, <3>2, <3>3, LeastExists
  <2>2. c >= s.slot
    BY <2>1 DEF Eligible
  <2> QED
    BY <1>1, <2>2, CpusAre, SimParts
<1>5. r = IF e.run[c] = "Error" THEN [sim |-> e, failed |-> TRUE]
          ELSE [sim |-> t, failed |-> FALSE]
  BY DEF SchedulerStep
<1> HIDE DEF r, c, e
<1>6. t \in Sim /\ t.pc = e.pc /\ t.run = e.run /\ t.ops = e.ops
  <2>1. e.slot + 1 \in 1 .. PastEnd /\ e.slot \in 1 .. PastEnd
    BY <1>2, <1>4, CpusAre
  <2> QED
    BY <1>2, <2>1 DEF Sim
<1>7. r \in Result
  BY <1>2, <1>5, <1>6 DEF Result
<1>8. (r.failed <=> Operation(s, c) = "fail") /\ r.sim.run[c] = RunAfter(Operation(s, c))
  BY <1>2, <1>3, <1>5, <1>6
<1>9. \A d \in Cpus \ {c} : r.sim.pc[d] = s.pc[d] /\ r.sim.run[d] = s.run[d]
                            /\ r.sim.ops[d] = s.ops[d]
  BY <1>2, <1>5, <1>6
<1> QED
  BY <1>7, <1>8, <1>9 DEF r, c

LEMMA SchedulerStepIs ==
    ASSUME NEW s \in Sim
    PROVE  SchedulerStep(s) \in Result
<1> DEFINE p == Prepare(s)
<1>1. p.sim \in Sim
  BY PrepareIs
<1>2. CASE p.cpu = NoCpu
  BY <1>1, <1>2 DEF SchedulerStep, Result
<1>3. CASE p.cpu # NoCpu
  <2>1. Prepare(p.sim).cpu = p.cpu /\ Prepare(p.sim).sim = p.sim
    BY <1>3, PrepareIs
  <2>2. SchedulerStep(p.sim) \in Result
    BY <1>1, <1>3, <2>1, ScheduledStepIs
  <2>3. SchedulerStep(p.sim) = SchedulerStep(s)
    BY <1>3, <2>1 DEF SchedulerStep
  <2> QED
    BY <2>2, <2>3
<1> QED
  BY <1>2, <1>3

\* step_world_tick: what every step of the tick leaves, the tick leaves.
LEMMA StepWorldTickIn ==
    ASSUME NEW s \in Sim, NEW S, S \subseteq Result, [sim |-> s, failed |-> FALSE] \in S,
           \A prev \in S : SchedulerStep(prev.sim) \in S
    PROVE  StepWorldTick(s) \in S
<1> DEFINE N == Len(Programs) * Budget + 1
           Step(prev) == IF prev.failed \/ prev.sim.tick # s.tick THEN prev
                         ELSE SchedulerStep(prev.sim)
           g == [n \in Nat |-> [prev \in S |-> Step(prev)]]
           a == [sim |-> s, failed |-> FALSE]
           Is(f) == f = [n \in 0 .. N |-> IF n = 0 THEN a ELSE Step(f[n - 1])]
           after == CHOOSE f : Is(f)
<1>1. N \in Nat /\ 0 \in Nat /\ 0 <= N
  BY CpusAre
<1>2. \A prev \in S : Step(prev) \in S
  OBVIOUS
<1>3. a \in S
  OBVIOUS
<1>4. StepWorldTick(s) = after[N]
  BY Zenon DEF StepWorldTick
<1> HIDE DEF N, Step, a
<1>5. g \in [Nat -> [S -> S]]
  BY <1>2
<1>6. PICK f \in [0 .. N -> S] : f = [n \in 0 .. N |-> IF n = 0 THEN a ELSE g[n][f[n - 1]]]
  <2> HIDE DEF g
  <2>1. Iterates(S, a, 0, N, g)
    BY <1>1, <1>3, <1>5, IteratesExist
  <2> QED BY <2>1 DEF Iterates
<1>7. Is(f)
  <2>1. \A n \in 0 .. N : f[n] = IF n = 0 THEN a ELSE Step(f[n - 1])
    <3> SUFFICES ASSUME NEW n \in 0 .. N, n # 0 PROVE f[n] = Step(f[n - 1])
      BY <1>6
    <3>1. n - 1 \in 0 .. N /\ n \in Nat
      BY <1>1
    <3>2. f[n] = g[n][f[n - 1]] /\ f[n - 1] \in S
      BY <1>6, <3>1
    <3> QED
      BY <3>1, <3>2
  <2> QED
    BY <1>6, <2>1
<1>8. Is(after)
  BY <1>7, Zenon
<1> HIDE DEF after
<1>9. \A n \in 0 .. N : after[n] = IF n = 0 THEN a ELSE Step(after[n - 1])
  BY <1>8
<1>10. after[0] \in S
  BY <1>1, <1>3, <1>9
<1>11. \A n \in 0 + 1 .. N : after[n - 1] \in S => after[n] \in S
  BY <1>1, <1>2, <1>9
<1>12. \A n \in 0 .. N : after[n] \in S
  BY <1>1, <1>10, <1>11, PassedOn
<1> QED
  BY <1>1, <1>4, <1>12

LEMMA StepWorldTickIs ==
    ASSUME NEW s \in Sim
    PROVE  StepWorldTick(s) \in Result
<1>1. \A prev \in Result : SchedulerStep(prev.sim) \in Result
  BY SchedulerStepIs DEF Result
<1>2. [sim |-> s, failed |-> FALSE] \in Result
  BY DEF Result
<1> QED
  BY <1>1, <1>2, StepWorldTickIn

-----------------------------------------------------------------------------
(* Replay.                                                                 *)

Actions == {"Scheduled", "Instruction", "WorldTick", "External", "Stop"}

\* What the journal may hold between two drains.
WrittenFrom(s) == UNION {Wrote(s, t) : t \in Sim}
Batches == SUBSET UNION {WrittenFrom(s) : s \in Sim}

Event == [sequence : Nat, tick : Nat, cpu : Cpus, line : Nat, action : Actions,
          effects : Batches, failed : BOOLEAN, hash : Sim, landmark : BOOLEAN]

Anchor == [sequence : Nat, snapshot : Sim]

History == [records : SUBSET Event, checkpoints : SUBSET Anchor, cursor : Nat, next : Nat]

Outcome == [sim : Sim, ok : BOOLEAN, writes : Batches]

\* The journal holds nothing, the writes of an operation, or both of two batches.
LEMMA BatchesAre ==
    /\ {} \in Batches
    /\ \A s, t \in Sim : Wrote(s, t) \in Batches
    /\ \A a, b \in Batches : a \cup b \in Batches
<1>1. \A s, t \in Sim : Wrote(s, t) \in Batches
  <2> SUFFICES ASSUME NEW s \in Sim, NEW t \in Sim PROVE Wrote(s, t) \in Batches
    OBVIOUS
  <2>1. Wrote(s, t) \subseteq WrittenFrom(s)
    BY DEF WrittenFrom
  <2>2. WrittenFrom(s) \subseteq UNION {WrittenFrom(u) : u \in Sim}
    OBVIOUS
  <2> QED BY <2>1, <2>2 DEF Batches
<1> DEFINE B == UNION {WrittenFrom(u) : u \in Sim}
<1>2. Batches = SUBSET B
  BY DEF Batches
<1> HIDE DEF B
<1>3. {} \in Batches /\ \A a, b \in Batches : a \cup b \in Batches
  BY <1>2
<1> QED
  BY <1>1, <1>3

\* An operation that changes nothing writes nothing.
LEMMA WroteNothing == ASSUME NEW s PROVE Wrote(s, s) = {}
BY Zenon DEF Wrote

LEMMA OutcomesAre ==
    ASSUME NEW s \in Sim, NEW w \in Batches
    PROVE  /\ Standing(s, w) \in Outcome /\ Diverged(s, w) \in Outcome
           /\ Standing(s, w).sim = s /\ Standing(s, w).ok = TRUE /\ Standing(s, w).writes = w
           /\ Diverged(s, w).sim = s /\ Diverged(s, w).ok = FALSE /\ Diverged(s, w).writes = w
BY DEF Standing, Diverged, Outcome

\* One peek of the replay.
Peeked(prev, tick) ==
    LET p == Prepare(prev.sim)
        writes == prev.writes \cup Wrote(prev.sim, p.sim)
    IN  IF ~prev.ok \/ prev.sim.tick >= tick THEN prev
        ELSE IF p.cpu = NoCpu THEN Standing(p.sim, writes)
        ELSE Diverged(p.sim, writes)

LEMMA PeekedIs ==
    ASSUME NEW prev \in Outcome, NEW tick
    PROVE  Peeked(prev, tick) \in Outcome
<1> DEFINE p == Prepare(prev.sim)
           writes == prev.writes \cup Wrote(prev.sim, p.sim)
<1>1. prev.sim \in Sim /\ prev.writes \in Batches
  BY DEF Outcome
<1>2. p.sim \in Sim
  BY <1>1, PrepareIs
<1>3. Wrote(prev.sim, p.sim) \in Batches
  <2> HIDE DEF p
  <2> QED BY <1>1, <1>2, BatchesAre
<1>4. writes \in Batches
  <2> HIDE DEF p
  <2> QED BY <1>1, <1>3, BatchesAre
<1>5. Peeked(prev, tick) \in {prev, Standing(p.sim, writes), Diverged(p.sim, writes)}
  BY DEF Peeked
<1>6. Standing(p.sim, writes) \in Outcome /\ Diverged(p.sim, writes) \in Outcome
  <2> HIDE DEF p, writes
  <2> QED BY <1>2, <1>4, OutcomesAre
<1> HIDE DEF p, writes
<1> QED
  BY <1>5, <1>6

\* The replay's own peeks, one by one.
CatchesUp(s, tick, peeked) ==
    /\ peeked \in [0 .. tick -> Outcome]
    /\ peeked[0] = Standing(s, {})
    /\ \A n \in 1 .. tick : peeked[n] = Peeked(peeked[n - 1], tick)

\* CaughtUp peeks once a tick.
LEMMA CaughtUpSteps ==
    ASSUME NEW s \in Sim, NEW tick \in Nat
    PROVE  \E peeked : CatchesUp(s, tick, peeked) /\ CaughtUp(s, tick) = peeked[tick]
<1> DEFINE Step(prev) == Peeked(prev, tick)
           g == [n \in Nat |-> [prev \in Outcome |-> Step(prev)]]
           a == Standing(s, {})
           Is(f) == f = [n \in 0 .. tick |-> IF n = 0 THEN a ELSE Step(f[n - 1])]
           peeked == CHOOSE f : Is(f)
<1>1. 0 \in Nat /\ 0 <= tick
  OBVIOUS
<1>2. \A prev \in Outcome : Step(prev) \in Outcome
  BY PeekedIs
<1>3. a \in Outcome
  BY BatchesAre, OutcomesAre
<1>4. CaughtUp(s, tick) = peeked[tick]
  BY Zenon DEF CaughtUp, Peeked
<1> HIDE DEF Step, a
<1>5. g \in [Nat -> [Outcome -> Outcome]]
  BY <1>2
<1>6. PICK f \in [0 .. tick -> Outcome] :
              f = [n \in 0 .. tick |-> IF n = 0 THEN a ELSE g[n][f[n - 1]]]
  <2> HIDE DEF g
  <2>1. Iterates(Outcome, a, 0, tick, g)
    BY <1>1, <1>3, <1>5, IteratesExist
  <2> QED BY <2>1 DEF Iterates
<1>7. Is(f)
  <2>1. \A n \in 0 .. tick : f[n] = IF n = 0 THEN a ELSE Step(f[n - 1])
    <3> SUFFICES ASSUME NEW n \in 0 .. tick, n # 0 PROVE f[n] = Step(f[n - 1])
      BY <1>6
    <3>1. n - 1 \in 0 .. tick /\ n \in Nat
      BY <1>1
    <3>2. f[n] = g[n][f[n - 1]] /\ f[n - 1] \in Outcome
      BY <1>6, <3>1
    <3> QED
      BY <3>1, <3>2
  <2> QED
    BY <1>6, <2>1
<1>8. Is(peeked)
  BY <1>7, Zenon
<1> HIDE DEF peeked
<1>9. \A n \in 0 .. tick : peeked[n] = IF n = 0 THEN a ELSE Step(peeked[n - 1])
  BY <1>8
<1>10. peeked[0] = a
  BY <1>1, <1>9
<1>11. \A n \in 1 .. tick : peeked[n] = Step(peeked[n - 1])
  <2> SUFFICES ASSUME NEW n \in 1 .. tick PROVE peeked[n] = Step(peeked[n - 1])
    OBVIOUS
  <2>1. n \in 0 .. tick /\ n # 0
    OBVIOUS
  <2> QED BY <1>9, <2>1
<1>12. \A n \in 0 .. tick : peeked[n] \in Outcome
  <2>1. \A n \in 0 + 1 .. tick : peeked[n - 1] \in Outcome => peeked[n] \in Outcome
    BY <1>2, <1>11
  <2>2. peeked[0] \in Outcome
    BY <1>3, <1>10
  <2> QED BY <1>1, <2>1, <2>2, PassedOn
<1>13. peeked \in [0 .. tick -> Outcome]
  <2>1. peeked = [n \in 0 .. tick |-> peeked[n]]
    BY <1>8
  <2> QED BY <1>12, <2>1
<1>14. CatchesUp(s, tick, peeked)
  BY <1>10, <1>11, <1>13, Zenon DEF CatchesUp, Step, a
<1> QED
  BY <1>4, <1>14

LEMMA CaughtUpIs ==
    ASSUME NEW s \in Sim, NEW tick \in Nat
    PROVE  CaughtUp(s, tick) \in Outcome
<1>1. PICK peeked : CatchesUp(s, tick, peeked) /\ CaughtUp(s, tick) = peeked[tick]
  BY CaughtUpSteps
<1>2. tick \in 0 .. tick
  OBVIOUS
<1> QED
  BY <1>1, <1>2 DEF CatchesUp

\* A record that replays leaves the state recorded with it.
Lands(outcome, r) == outcome \in Outcome /\ (outcome.ok => outcome.sim = r.hash)

LEMMA VerifiedIs ==
    ASSUME NEW r \in Event, NEW result \in Result, NEW w \in Batches
    PROVE  Lands(Verified(r, result, w), r)
<1>1. result.sim \in Sim
  BY DEF Result
<1>2. CASE result.failed # r.failed
  BY <1>1, <1>2, OutcomesAre DEF Verified, Lands
<1>3. CASE result.failed = r.failed /\ (w # r.effects \/ result.sim # r.hash)
  BY <1>1, <1>3, OutcomesAre, BatchesAre DEF Verified, Lands
<1>4. CASE result.failed = r.failed /\ ~(w # r.effects \/ result.sim # r.hash)
  BY <1>1, <1>4, OutcomesAre, BatchesAre DEF Verified, Lands
<1> QED
  BY <1>2, <1>3, <1>4

LEMMA DivergedIs ==
    ASSUME NEW r \in Event, NEW s \in Sim, NEW w \in Batches
    PROVE  Lands(Diverged(s, w), r)
BY OutcomesAre DEF Lands

\* A scheduled instruction is replayed from what the peeks lead to.
LEMMA CaughtUpFirst ==
    ASSUME NEW r, NEW s
    PROVE  ReplayScheduled(r, s) = ReplayFrom(r, CaughtUp(s, r.tick))
BY Zenon DEF ReplayScheduled

LEMMA ReplayedIs ==
    ASSUME NEW r \in Event, NEW s \in Sim
    PROVE  Lands(Replayed(r, s), r)
<1>1. r.cpu \in Cpus /\ r.tick \in Nat /\ r.action \in Actions
  BY DEF Event
<1> DEFINE Replay(step) == Verified(r, step, Wrote(s, step.sim))
<1>0. ASSUME NEW step \in Result PROVE Lands(Replay(step), r)
  <2>1. Wrote(s, step.sim) \in Batches
    BY BatchesAre DEF Result
  <2> QED BY <2>1, VerifiedIs
<1>2. CASE r.action = "Scheduled"
  <2> DEFINE c == CaughtUp(s, r.tick)
             p == Prepare(c.sim)
             step == SchedulerStep(p.sim)
             peeked == c.writes \cup Wrote(c.sim, p.sim)
             writes == peeked \cup Wrote(p.sim, step.sim)
  <2>1. c \in Outcome /\ c.sim \in Sim /\ c.writes \in Batches
    BY <1>1, CaughtUpIs DEF Outcome
  <2>2. p.sim \in Sim
    BY <2>1, PrepareIs
  <2>3. step \in Result /\ step.sim \in Sim
    BY <2>2, SchedulerStepIs DEF Result
  <2>4. Replayed(r, s) = ReplayScheduled(r, s)
    BY <1>2 DEF Replayed
  <2>5. \/ ReplayScheduled(r, s) = c /\ ~c.ok
        \/ ReplayScheduled(r, s) = Diverged(p.sim, peeked)
        \/ ReplayScheduled(r, s) = Verified(r, step, writes)
    BY CaughtUpFirst DEF ReplayFrom
  <2> HIDE DEF c, p, step
  <2>6. peeked \in Batches
    BY <2>1, <2>2, BatchesAre
  <2>7. writes \in Batches
    <3> HIDE DEF peeked
    <3> QED BY <2>2, <2>3, <2>6, BatchesAre
  <2> HIDE DEF peeked, writes
  <2> QED
    BY <2>1, <2>2, <2>3, <2>4, <2>5, <2>6, <2>7, VerifiedIs, DivergedIs DEF Lands
<1>3. CASE r.action = "Instruction"
  <2>1. StepInstruction(s, r.cpu) \in Result
    BY <1>1, StepInstructionIs
  <2>2. Replayed(r, s) = Replay(StepInstruction(s, r.cpu))
    BY <1>3 DEF Replayed
  <2> HIDE DEF Replay
  <2> QED
    BY <1>0, <2>1, <2>2
<1>4. CASE r.action = "WorldTick"
  <2>1. StepWorldTick(s) \in Result
    BY StepWorldTickIs
  <2>2. Replayed(r, s) = Replay(StepWorldTick(s))
    BY <1>4 DEF Replayed
  <2> HIDE DEF Replay
  <2> QED
    BY <1>0, <2>1, <2>2
<1>5. CASE r.action = "External"
  BY <1>5, DivergedIs, BatchesAre DEF Replayed
<1>6. CASE r.action = "Stop"
  <2>1. [sim |-> s, failed |-> FALSE] \in Result
    BY DEF Result
  <2>2. Replayed(r, s) = Replay([sim |-> s, failed |-> FALSE])
    BY <1>6 DEF Replayed
  <2> HIDE DEF Replay
  <2> QED
    BY <1>0, <2>1, <2>2
<1> QED
  BY <1>1, <1>2, <1>3, <1>4, <1>5, <1>6 DEF Actions

\* No two records and no two checkpoints stand at the same event, and where
\* both stand they are of the same state.
Coherent(h) ==
    /\ \A j, k \in h.checkpoints : j.sequence = k.sequence => j = k
    /\ \A q, r \in h.records : q.sequence = r.sequence => q = r
    /\ \A r \in h.records, k \in h.checkpoints : r.sequence = k.sequence => r.hash = k.snapshot

\* A replay up to the target: what there is after each event, from the last
\* checkpoint before the target on.
Replays(h, target, base, after) ==
    /\ base.sequence <= target
    /\ \A k \in h.checkpoints : k.sequence <= target => k.sequence <= base.sequence
    /\ after \in [base.sequence .. target -> Outcome]
    /\ after[base.sequence] = Standing(base.snapshot, {})
    /\ \A n \in base.sequence + 1 .. target :
          after[n] = IF ~after[n - 1].ok \/ {r \in h.records : r.sequence = n} = {}
                     THEN after[n - 1]
                     ELSE Replayed(CHOOSE r \in {q \in h.records : q.sequence = n} : TRUE,
                                   after[n - 1].sim)

\* restore replays record by record, from the last checkpoint before the target.
LEMMA RestoreSteps ==
    ASSUME NEW h \in History, NEW s \in Sim, NEW w \in Batches, NEW target \in Nat,
           Retained(h, target) # {}
    PROVE  \E base \in h.checkpoints : \E after :
              Replays(h, target, base, after) /\ Restore(h, s, w, target) = after[target]
<1> DEFINE x == Restore(h, s, w, target)
           kept == Retained(h, target)
           base == CHOOSE k \in kept : k.sequence = Greatest(Sequences(kept))
           now(n) == {r \in h.records : r.sequence = n}
           Step(n, prev) == IF ~prev.ok \/ now(n) = {} THEN prev
                            ELSE Replayed(CHOOSE r \in now(n) : TRUE, prev.sim)
           a == Standing(base.snapshot, {})
           lo == base.sequence
           Is(f) == f = [n \in lo .. target |-> IF n = lo THEN a ELSE Step(n, f[n - 1])]
           after == CHOOSE f : Is(f)
<1>0. /\ h.records \subseteq Event /\ h.checkpoints \subseteq Anchor
      /\ \A r \in Event : r.sequence \in Nat
      /\ \A k \in Anchor : k.sequence \in Nat /\ k.snapshot \in Sim
  BY DEF History, Event, Anchor
<1>1. x = IF kept = {} THEN Diverged(s, w)
          ELSE IF lo >= target THEN Standing(base.snapshot, {})
          ELSE after[target]
  BY Zenon DEF Restore
<1>2. base \in kept /\ \A k \in kept : k.sequence <= base.sequence
  <2>1. Sequences(kept) \in SUBSET (0 .. target) /\ Sequences(kept) # {}
    BY <1>0 DEF Sequences, Retained
  <2>2. /\ Greatest(Sequences(kept)) \in Sequences(kept)
        /\ \A j \in Sequences(kept) : j <= Greatest(Sequences(kept))
    BY <2>1, GreatestExists
  <2>3. \E k \in kept : k.sequence = Greatest(Sequences(kept))
    BY <2>2 DEF Sequences
  <2>4. base \in kept /\ base.sequence = Greatest(Sequences(kept))
    <3> HIDE DEF kept
    <3> QED BY <2>3
  <2>5. \A k \in kept : k.sequence \in Sequences(kept)
    BY DEF Sequences
  <2> HIDE DEF base
  <2> QED BY <2>2, <2>4, <2>5
<1>3. /\ base \in h.checkpoints /\ lo \in Nat /\ lo <= target /\ base.snapshot \in Sim
      /\ \A k \in h.checkpoints : k.sequence <= target => k.sequence <= lo
  <2> HIDE DEF base
  <2> QED BY <1>0, <1>2 DEF Retained
<1> HIDE DEF kept, base
<1>4. a \in Outcome
  BY <1>3, BatchesAre, OutcomesAre
<1>5. \A n \in Nat : now(n) # {} =>
         /\ (CHOOSE r \in now(n) : TRUE) \in now(n)
         /\ (CHOOSE r \in now(n) : TRUE) \in Event
  BY <1>0
<1>6. \A n \in Nat, prev \in Outcome : Step(n, prev) \in Outcome
  <2> HIDE DEF now
  <2> QED BY <1>5, ReplayedIs DEF Lands, Outcome
<1> DEFINE g == [n \in Nat |-> [prev \in Outcome |-> Step(n, prev)]]
<1>7. g \in [Nat -> [Outcome -> Outcome]]
  <2> HIDE DEF Step
  <2> QED BY <1>6
<1>8. PICK f \in [lo .. target -> Outcome] :
              f = [n \in lo .. target |-> IF n = lo THEN a ELSE g[n][f[n - 1]]]
  <2> HIDE DEF g, a, lo
  <2>1. Iterates(Outcome, a, lo, target, g)
    BY <1>3, <1>4, <1>7, IteratesExist
  <2> QED BY <2>1 DEF Iterates
<1>9. Is(f)
  <2> HIDE DEF Step, a, lo
  <2>1. \A n \in lo .. target : f[n] = IF n = lo THEN a ELSE Step(n, f[n - 1])
    <3> SUFFICES ASSUME NEW n \in lo .. target, n # lo PROVE f[n] = Step(n, f[n - 1])
      BY <1>8
    <3>1. n - 1 \in lo .. target /\ n \in Nat
      BY <1>3
    <3>2. f[n] = g[n][f[n - 1]] /\ f[n - 1] \in Outcome
      BY <1>8, <3>1
    <3> QED
      BY <3>1, <3>2
  <2> QED
    BY <1>8, <2>1
<1>10. Is(after)
  <2> HIDE DEF Is
  <2> QED BY <1>9, Zenon
<1> HIDE DEF after, a, Step, lo, x
<1>11. \A n \in lo .. target : after[n] = IF n = lo THEN a ELSE Step(n, after[n - 1])
  BY <1>10
<1>12. after[lo] = a /\ lo \in lo .. target
  BY <1>3, <1>11
<1>13. \A n \in lo + 1 .. target : after[n] = Step(n, after[n - 1])
  <2> SUFFICES ASSUME NEW n \in lo + 1 .. target PROVE after[n] = Step(n, after[n - 1])
    OBVIOUS
  <2>1. n \in lo .. target /\ n # lo
    BY <1>3
  <2> QED BY <1>11, <2>1
<1>14. \A n \in lo .. target : after[n] \in Outcome
  <2>1. \A n \in lo + 1 .. target : after[n - 1] \in Outcome => after[n] \in Outcome
    <3> SUFFICES ASSUME NEW n \in lo + 1 .. target, after[n - 1] \in Outcome
                 PROVE  after[n] \in Outcome
      OBVIOUS
    <3>1. n \in Nat
      BY <1>3
    <3> QED BY <1>6, <1>13, <3>1
  <2>2. after[lo] \in Outcome
    BY <1>4, <1>12
  <2> QED BY <1>3, <2>1, <2>2, PassedOn
<1>15. after \in [lo .. target -> Outcome]
  <2>1. after = [n \in lo .. target |-> after[n]]
    BY <1>10
  <2> QED BY <1>14, <2>1
<1>16. x = after[target]
  <2>1. CASE lo >= target
    <3>1. lo = target
      BY <1>3, <2>1
    <3>2. x = a
      BY <1>1, <2>1 DEF kept, a
    <3> QED BY <1>12, <3>1, <3>2
  <2>2. CASE ~(lo >= target)
    BY <1>1, <2>2 DEF kept
  <2> QED BY <2>1, <2>2
<1>17. Replays(h, target, base, after)
  BY <1>3, <1>12, <1>13, <1>15 DEF Replays, lo, a, Step
<1> QED
  BY <1>3, <1>16, <1>17 DEF x

\* restore either fails or lands in the state the history has for the target.
LEMMA RestoreIs ==
    ASSUME NEW h \in History, NEW s \in Sim, NEW w \in Batches, NEW target \in Nat, Coherent(h)
    PROVE  LET x == Restore(h, s, w, target)
           IN  /\ x \in Outcome
               /\ x.ok => /\ \A r \in h.records : r.sequence = target => x.sim = r.hash
                          /\ \A k \in h.checkpoints : k.sequence = target => x.sim = k.snapshot
<1> DEFINE x == Restore(h, s, w, target)
<1>0. /\ h.records \subseteq Event /\ h.checkpoints \subseteq Anchor
      /\ \A r \in Event : r.sequence \in Nat
      /\ \A k \in Anchor : k.sequence \in Nat /\ k.snapshot \in Sim
  BY DEF History, Event, Anchor
<1>1. CASE Retained(h, target) = {}
  <2>1. x = Diverged(s, w)
    BY <1>1, Zenon DEF Restore
  <2> HIDE DEF x
  <2>2. x \in Outcome /\ ~x.ok
    BY <2>1, OutcomesAre
  <2> QED
    BY <2>2 DEF x
<1>2. CASE Retained(h, target) # {}
  <2>0. PICK base \in h.checkpoints :
               \E after : Replays(h, target, base, after) /\ x = after[target]
    BY <1>2, RestoreSteps
  <2>1. PICK after : Replays(h, target, base, after) /\ x = after[target]
    BY <2>0
  <2> DEFINE lo == base.sequence
             now == {r \in h.records : r.sequence = target}
  <2> HIDE DEF x
  <2>2. /\ lo \in Nat /\ lo <= target /\ base.snapshot \in Sim
        /\ \A k \in h.checkpoints : k.sequence <= target => k.sequence <= lo
        /\ after \in [lo .. target -> Outcome] /\ after[lo] = Standing(base.snapshot, {})
    BY <1>0, <2>1 DEF Replays
  <2>3. x \in Outcome
    BY <2>1, <2>2
  <2>4. CASE lo = target
    <3>0. Standing(base.snapshot, {}).sim = base.snapshot
      BY <2>2, BatchesAre, OutcomesAre
    <3>1. x.sim = base.snapshot
      BY <2>1, <2>2, <2>4, <3>0
    <3>2. /\ \A r \in h.records : r.sequence = target => base.snapshot = r.hash
          /\ \A k \in h.checkpoints : k.sequence = target => base.snapshot = k.snapshot
      BY <2>4 DEF Coherent
    <3> QED BY <2>3, <3>1, <3>2 DEF x
  <2>5. CASE lo # target
    <3>1. \A k \in h.checkpoints : k.sequence # target
      BY <1>0, <2>2, <2>5
    <3>2. target \in lo + 1 .. target /\ target - 1 \in lo .. target
      BY <2>2, <2>5
    <3>3. /\ x = IF ~after[target - 1].ok \/ now = {} THEN after[target - 1]
                 ELSE Replayed(CHOOSE r \in now : TRUE, after[target - 1].sim)
          /\ after[target - 1] \in Outcome
      BY <2>1, <2>2, <3>2 DEF Replays
    <3>4. ASSUME NEW r \in h.records, r.sequence = target, x.ok PROVE x.sim = r.hash
      <4>1. now # {} /\ (CHOOSE q \in now : TRUE) = r
        <5>1. r \in now /\ \A q \in now : q = r
          BY <3>4 DEF Coherent
        <5> HIDE DEF now
        <5> QED BY <5>1
      <4> HIDE DEF now
      <4>2. after[target - 1].ok
        BY <3>3, <3>4
      <4>3. x = Replayed(r, after[target - 1].sim)
        BY <3>3, <4>1, <4>2
      <4>4. after[target - 1].sim \in Sim /\ r \in Event
        BY <1>0, <3>3 DEF Outcome
      <4> QED
        BY <3>4, <4>3, <4>4, ReplayedIs DEF Lands
    <3> QED
      BY <2>3, <3>1, <3>4 DEF x
  <2> QED
    BY <2>4, <2>5
<1> QED
  BY <1>1, <1>2

-----------------------------------------------------------------------------
(* The ring.                                                               *)

\* The records from b on are complete, and b is the oldest checkpoint.
Ring(h, b) ==
    /\ h \in History /\ b \in Nat /\ Coherent(h)
    /\ Sequences(h.records) = (b + 1) .. (h.next - 1)
    /\ h.cursor \in b .. (h.next - 1)
    /\ b \in Sequences(h.checkpoints)
    /\ \A k \in h.checkpoints : k.sequence \in b .. (h.next - 1)
    /\ \A r \in h.records :
          r.action = "External" => \E k \in h.checkpoints : k.sequence = r.sequence

\* A ring whose cursor stands at its last event.
Tip(h, b) == Ring(h, b) /\ h.cursor = h.next - 1

Marked(h) == h.cursor \in Sequences(h.checkpoints)

\* The state recorded at the cursor.
ShowsAt(h, s) == \A r \in h.records : r.sequence = h.cursor => r.hash = s

LEMMA RingParts ==
    ASSUME NEW h, NEW b, Ring(h, b)
    PROVE  /\ h \in History /\ b \in Nat /\ h.next \in Nat /\ h.cursor \in Nat /\ b < h.next
           /\ h.records \subseteq Event /\ h.checkpoints \subseteq Anchor
           /\ \A r \in h.records : r.sequence \in (b + 1) .. (h.next - 1)
           /\ \A n \in (b + 1) .. (h.next - 1) : \E r \in h.records : r.sequence = n
           /\ \E k \in h.checkpoints : k.sequence = b
BY DEF Ring, History, Sequences

\* A set of things with different sequence numbers is as large as the set of
\* those numbers.
LEMMA CountedBySequence ==
    ASSUME NEW R, \A q, r \in R : q.sequence = r.sequence => q = r,
           IsFiniteSet(Sequences(R))
    PROVE  IsFiniteSet(R) /\ Cardinality(R) = Cardinality(Sequences(R))
<1> DEFINE f == [r \in R |-> r.sequence]
           Q == Sequences(R)
<1>1. f \in [R -> Q]
  BY DEF Sequences
<1>2. \A q, r \in R : f[q] = f[r] => q = r
  OBVIOUS
<1>3. \A n \in Q : \E r \in R : f[r] = n
  BY DEF Sequences
<1> HIDE DEF f, Q
<1>4. f \in Injection(R, Q) /\ f \in Surjection(R, Q)
  BY <1>1, <1>2, <1>3 DEF Injection, IsInjective, Surjection
<1>5. IsFiniteSet(Q)
  BY DEF Q
<1>6. IsFiniteSet(R) /\ Cardinality(R) = Cardinality(Q)
  BY <1>4, <1>5, FS_Injection
<1> QED
  BY <1>6 DEF Q

\* The parts of a ring are finite.
LEMMA RingFinite ==
    ASSUME NEW h, NEW b, Ring(h, b)
    PROVE  /\ IsFiniteSet(h.records) /\ Cardinality(h.records) \in Nat
           /\ IsFiniteSet(h.checkpoints) /\ Cardinality(h.checkpoints) \in Nat
           /\ Cardinality(h.checkpoints) = Cardinality(Sequences(h.checkpoints))
           /\ \A n \in (b + 1) .. h.next :
                 Cardinality({r \in h.records : r.sequence >= n}) = h.next - n
<1>1. /\ b \in Nat /\ h.next \in Nat /\ b < h.next
      /\ \A q, r \in h.records : q.sequence = r.sequence => q = r
      /\ \A q, r \in h.checkpoints : q.sequence = r.sequence => q = r
      /\ \A r \in h.records : r.sequence \in (b + 1) .. (h.next - 1)
      /\ \A n \in (b + 1) .. (h.next - 1) : \E r \in h.records : r.sequence = n
  BY RingParts DEF Ring, Coherent
<1>2. IsFiniteSet(Sequences(h.records)) /\ IsFiniteSet(Sequences(h.checkpoints))
  <2>1. IsFiniteSet(b .. (h.next - 1))
    <3>1. b \in Int /\ h.next - 1 \in Int
      BY <1>1
    <3> QED BY <3>1, FS_Interval, Zenon
  <2>2. /\ Sequences(h.records) \in SUBSET (b .. (h.next - 1))
        /\ Sequences(h.checkpoints) \in SUBSET (b .. (h.next - 1))
    BY <1>1 DEF Ring, Sequences
  <2> QED
    BY <2>1, <2>2, FS_Subset
<1>3. /\ IsFiniteSet(h.records) /\ IsFiniteSet(h.checkpoints)
      /\ Cardinality(h.checkpoints) = Cardinality(Sequences(h.checkpoints))
  BY <1>1, <1>2, CountedBySequence
<1>4. Cardinality(h.records) \in Nat /\ Cardinality(h.checkpoints) \in Nat
  BY <1>3, FS_CardinalityType
<1>5. ASSUME NEW n \in (b + 1) .. h.next
      PROVE  Cardinality({r \in h.records : r.sequence >= n}) = h.next - n
  <2> DEFINE R == {r \in h.records : r.sequence >= n}
  <2>1. \A i \in Sequences(R) : i \in n .. (h.next - 1)
    BY <1>1 DEF Sequences
  <2>2. \A i \in n .. (h.next - 1) : i \in Sequences(R)
    <3> SUFFICES ASSUME NEW i \in n .. (h.next - 1) PROVE i \in Sequences(R)
      OBVIOUS
    <3>1. i \in (b + 1) .. (h.next - 1) /\ i >= n
      BY <1>1
    <3>2. PICK r \in h.records : r.sequence = i
      BY <1>1, <3>1
    <3> QED
      BY <3>1, <3>2 DEF Sequences
  <2>3. Sequences(R) = n .. (h.next - 1)
    BY <2>1, <2>2
  <2>4. \A q, r \in R : q.sequence = r.sequence => q = r
    BY <1>1
  <2>5. IsFiniteSet(n .. (h.next - 1)) /\ Cardinality(n .. (h.next - 1)) = h.next - n
    <3>1. n \in Int /\ h.next - 1 \in Int
      BY <1>1
    <3>2. /\ IsFiniteSet(n .. (h.next - 1))
          /\ Cardinality(n .. (h.next - 1)) =
                IF n > h.next - 1 THEN 0 ELSE h.next - 1 - n + 1
      BY <3>1, FS_Interval, Zenon
    <3> QED BY <1>1, <3>2
  <2> HIDE DEF R
  <2>6. Cardinality(R) = h.next - n
    BY <2>3, <2>4, <2>5, CountedBySequence
  <2> QED
    BY <2>6 DEF R
<1> QED
  BY <1>3, <1>4, <1>5

LEMMA NewHistoryIs ==
    ASSUME NEW s \in Sim
    PROVE  Tip(NewHistory(s), 0) /\ Bounded(NewHistory(s)) /\ NewHistory(s).cursor = 0
<1>1. NewHistory(s) = [records |-> {}, checkpoints |-> {[sequence |-> 0, snapshot |-> s]},
                       cursor |-> 0, next |-> 1]
  BY DEF NewHistory, Checkpoint
<1>2. NewHistory(s) \in History
  BY <1>1 DEF History, Anchor
<1>3. Coherent(NewHistory(s))
  BY <1>1 DEF Coherent
<1>4. Ring(NewHistory(s), 0)
  BY <1>1, <1>2, <1>3 DEF Ring, Sequences
<1>5. Cardinality({}) = 0 /\ Cardinality({[sequence |-> 0, snapshot |-> s]}) = 1
  BY FS_EmptySet, FS_Singleton
<1>6. Bounded(NewHistory(s))
  BY <1>1, <1>5, HistoryAssumption DEF Bounded
<1> QED
  BY <1>1, <1>4, <1>6 DEF Tip

LEMMA RebranchedIs ==
    ASSUME NEW h, NEW b, Ring(h, b)
    PROVE  Tip(Rebranched(h), b) /\ Rebranched(h).cursor = h.cursor
<1> DEFINE g == Rebranched(h)
<1>1. /\ g.records = {r \in h.records : r.sequence <= h.cursor}
      /\ g.checkpoints = {k \in h.checkpoints : k.sequence <= h.cursor}
      /\ g.cursor = h.cursor /\ g.next = h.cursor + 1
  BY RingParts DEF Rebranched, History
<1>2. g \in History
  <2>1. g = [h EXCEPT !.records = g.records, !.checkpoints = g.checkpoints, !.next = h.cursor + 1]
    BY <1>1 DEF Rebranched
  <2>2. g.records \subseteq Event /\ g.checkpoints \subseteq Anchor /\ h.cursor + 1 \in Nat
    BY <1>1, RingParts
  <2> HIDE DEF g
  <2> QED BY <2>1, <2>2, RingParts DEF History
<1> HIDE DEF g
<1>3. h.cursor \in b .. (h.next - 1) /\ b \in Nat /\ h.next \in Nat /\ h.cursor \in Nat
  BY RingParts DEF Ring
<1>4. Coherent(g)
  BY <1>1 DEF Ring, Coherent
<1>5. \A i : i \in Sequences(g.records) <=> i \in (b + 1) .. (g.next - 1)
  <2>1. ASSUME NEW r \in g.records PROVE r.sequence \in (b + 1) .. (g.next - 1)
    BY <1>1, <1>3, RingParts
  <2>2. ASSUME NEW i \in (b + 1) .. (g.next - 1) PROVE i \in Sequences(g.records)
    <3>1. i \in (b + 1) .. (h.next - 1) /\ i <= h.cursor
      BY <1>1, <1>3
    <3>2. PICK r \in h.records : r.sequence = i
      BY <3>1, RingParts
    <3> QED
      BY <1>1, <3>1, <3>2 DEF Sequences
  <2> QED
    BY <2>1, <2>2 DEF Sequences
<1>6. b \in Sequences(g.checkpoints)
  BY <1>1, <1>3 DEF Ring, Sequences
<1>7. \A k \in g.checkpoints : k.sequence \in b .. (g.next - 1)
  BY <1>1, <1>3 DEF Ring
<1>8. \A r \in g.records :
          r.action = "External" => \E k \in g.checkpoints : k.sequence = r.sequence
  BY <1>1 DEF Ring
<1>9. g.cursor \in b .. (g.next - 1)
  BY <1>1, <1>3
<1>10. Sequences(g.records) = (b + 1) .. (g.next - 1)
  BY <1>5
<1>11. g.cursor = g.next - 1
  BY <1>1, <1>3
<1>12. Tip(g, b) /\ g.cursor = h.cursor
  BY <1>1, <1>2, <1>3, <1>4, <1>6, <1>7, <1>8, <1>9, <1>10, <1>11 DEF Ring, Tip
<1> QED
  BY <1>12 DEF g

LEMMA AppendedIs ==
    ASSUME NEW h, NEW b, Tip(h, b), NEW s \in Sim, NEW cpu \in Cpus, NEW line \in Nat,
           NEW action \in Actions, NEW effects \in Batches, NEW failed \in BOOLEAN
    PROVE  LET g == Appended(h, s, cpu, line, action, effects, failed)
           IN  /\ Tip(g, b) /\ g.cursor = h.cursor + 1 /\ ShowsAt(g, s)
               /\ action = "External" => Marked(g)
<1> DEFINE g == Appended(h, s, cpu, line, action, effects, failed)
           L == IsLandmark(h, s, cpu, line, action)
           e == [sequence |-> h.next, tick |-> s.tick, cpu |-> cpu, line |-> line,
                 action |-> action, effects |-> effects, failed |-> failed, hash |-> s,
                 landmark |-> L]
           c == Checkpoint(h.next, s)
<1>1. /\ b \in Nat /\ h.next \in Nat /\ b < h.next /\ h.cursor = h.next - 1
      /\ h.records \subseteq Event /\ h.checkpoints \subseteq Anchor /\ Coherent(h)
      /\ \A r \in h.records : r.sequence \in (b + 1) .. (h.next - 1)
      /\ \A n \in (b + 1) .. (h.next - 1) : \E r \in h.records : r.sequence = n
      /\ \A k \in h.checkpoints : k.sequence \in b .. (h.next - 1)
      /\ b \in Sequences(h.checkpoints)
      /\ \A r \in h.records :
            r.action = "External" => \E k \in h.checkpoints : k.sequence = r.sequence
  BY RingParts DEF Tip, Ring
<1>2. g = [records |-> h.records \cup {e},
           checkpoints |-> IF h.next % CheckpointInterval = 0 \/ action = "External"
                           THEN h.checkpoints \cup {c} ELSE h.checkpoints,
           cursor |-> h.next, next |-> h.next + 1]
  BY DEF Appended
<1>3. L \in BOOLEAN
  BY DEF IsLandmark
<1>4. e \in Event /\ e.sequence = h.next /\ e.hash = s /\ e.action = action
  <2> HIDE DEF L
  <2> QED BY <1>1, <1>3, SimParts DEF Event
<1>5. c \in Anchor /\ c.sequence = h.next /\ c.snapshot = s
  BY <1>1 DEF Checkpoint, Anchor
<1>6. /\ g.records = h.records \cup {e} /\ g.cursor = h.next /\ g.next = h.next + 1
      /\ g.checkpoints \in {h.checkpoints, h.checkpoints \cup {c}}
      /\ action = "External" => g.checkpoints = h.checkpoints \cup {c}
      /\ g \in History
  <2> HIDE DEF e, c
  <2>1. h.checkpoints \cup {c} \subseteq Anchor /\ h.records \cup {e} \subseteq Event
    BY <1>1, <1>4, <1>5
  <2> QED BY <1>1, <1>2, <2>1 DEF History
<1> HIDE DEF g, e, c, L
<1>7. Coherent(g)
  <2>1. \A j, k \in g.checkpoints : j.sequence = k.sequence => j = k
    BY <1>1, <1>5, <1>6 DEF Coherent
  <2>2. \A q, r \in g.records : q.sequence = r.sequence => q = r
    BY <1>1, <1>4, <1>6 DEF Coherent
  <2>3. \A r \in g.records, k \in g.checkpoints : r.sequence = k.sequence => r.hash = k.snapshot
    BY <1>1, <1>4, <1>5, <1>6 DEF Coherent
  <2> QED
    BY <2>1, <2>2, <2>3 DEF Coherent
<1>8. Sequences(g.records) = (b + 1) .. (g.next - 1)
  <2>1. ASSUME NEW r \in g.records PROVE r.sequence \in (b + 1) .. (g.next - 1)
    BY <1>1, <1>4, <1>6
  <2>2. ASSUME NEW i \in (b + 1) .. (g.next - 1) PROVE i \in Sequences(g.records)
    <3>1. CASE i = h.next
      BY <1>4, <1>6, <3>1 DEF Sequences
    <3>2. CASE i # h.next
      <4>1. i \in (b + 1) .. (h.next - 1)
        BY <1>1, <1>6, <3>2
      <4>2. PICK r \in h.records : r.sequence = i
        BY <1>1, <4>1
      <4> QED
        BY <1>6, <4>2 DEF Sequences
    <3> QED BY <3>1, <3>2
  <2> QED
    BY <2>1, <2>2 DEF Sequences
<1>9. \A k \in g.checkpoints : k.sequence \in b .. (g.next - 1)
  BY <1>1, <1>5, <1>6
<1>10. b \in Sequences(g.checkpoints)
  BY <1>1, <1>6 DEF Sequences
<1>11. \A r \in g.records :
          r.action = "External" => \E k \in g.checkpoints : k.sequence = r.sequence
  BY <1>1, <1>4, <1>5, <1>6
<1>12. g.cursor \in b .. (g.next - 1) /\ g.cursor = g.next - 1 /\ g.cursor = h.cursor + 1
  BY <1>1, <1>6
<1>13. Tip(g, b)
  BY <1>1, <1>6, <1>7, <1>8, <1>9, <1>10, <1>11, <1>12 DEF Tip, Ring
<1>14. ShowsAt(g, s)
  BY <1>1, <1>4, <1>6 DEF ShowsAt
<1>15. action = "External" => Marked(g)
  BY <1>5, <1>6 DEF Marked, Sequences
<1> QED
  BY <1>12, <1>13, <1>14, <1>15 DEF g

\* What a cut leaves of the cursor's event.
LeavesTip(h, g) ==
    /\ g.cursor = h.cursor /\ g.next = h.next /\ g.records \subseteq h.records
    /\ Marked(h) => Marked(g)

\* drop_through at a checkpoint makes it the oldest.
LEMMA DropThroughIs ==
    ASSUME NEW h, NEW b, Tip(h, b), NEW n \in Sequences(h.checkpoints)
    PROVE  /\ Tip(DropThrough(h, n), n) /\ LeavesTip(h, DropThrough(h, n))
           /\ DropThrough(h, n).records = {r \in h.records : r.sequence > n}
           /\ DropThrough(h, n).checkpoints = {k \in h.checkpoints : k.sequence >= n}
<1> DEFINE g == DropThrough(h, n)
<1>1. /\ b \in Nat /\ h.next \in Nat /\ b < h.next /\ h.cursor = h.next - 1 /\ h \in History
      /\ h.records \subseteq Event /\ h.checkpoints \subseteq Anchor /\ Coherent(h)
      /\ \A r \in h.records : r.sequence \in (b + 1) .. (h.next - 1)
      /\ \A i \in (b + 1) .. (h.next - 1) : \E r \in h.records : r.sequence = i
      /\ \A k \in h.checkpoints : k.sequence \in b .. (h.next - 1)
      /\ \A r \in h.records :
            r.action = "External" => \E k \in h.checkpoints : k.sequence = r.sequence
  BY RingParts DEF Tip, Ring
<1>2. PICK m \in h.checkpoints : m.sequence = n
  BY DEF Sequences
<1>3. n \in b .. (h.next - 1) /\ n \in Nat
  BY <1>1, <1>2
<1>4. /\ g.records = {r \in h.records : r.sequence > n}
      /\ g.checkpoints = {k \in h.checkpoints :
            ~ \E j \in h.checkpoints : k.sequence < j.sequence /\ j.sequence <= n}
      /\ g.cursor = h.cursor /\ g.next = h.next
  BY <1>1 DEF DropThrough, History
<1>5. g \in History
  <2>1. g = [h EXCEPT !.records = g.records, !.checkpoints = g.checkpoints]
    BY <1>4 DEF DropThrough
  <2>2. g.records \subseteq Event /\ g.checkpoints \subseteq Anchor
    BY <1>1, <1>4
  <2> HIDE DEF g
  <2> QED BY <1>1, <2>1, <2>2 DEF History
<1> HIDE DEF g
<1>6. g.checkpoints = {k \in h.checkpoints : k.sequence >= n}
  <2>1. ASSUME NEW k \in g.checkpoints PROVE k \in h.checkpoints /\ k.sequence >= n
    BY <1>1, <1>2, <1>3, <1>4, <2>1
  <2>2. ASSUME NEW k \in h.checkpoints, k.sequence >= n PROVE k \in g.checkpoints
    BY <1>1, <1>3, <1>4, <2>2
  <2> QED
    BY <2>1, <2>2
<1>7. Coherent(g)
  BY <1>1, <1>4, <1>6 DEF Coherent
<1>8. Sequences(g.records) = (n + 1) .. (g.next - 1)
  <2>1. ASSUME NEW r \in g.records PROVE r.sequence \in (n + 1) .. (g.next - 1)
    BY <1>1, <1>3, <1>4
  <2>2. ASSUME NEW i \in (n + 1) .. (g.next - 1) PROVE i \in Sequences(g.records)
    <3>1. i \in (b + 1) .. (h.next - 1) /\ i > n
      BY <1>1, <1>3, <1>4
    <3>2. PICK r \in h.records : r.sequence = i
      BY <1>1, <3>1
    <3> QED
      BY <1>4, <3>1, <3>2 DEF Sequences
  <2> QED
    BY <2>1, <2>2 DEF Sequences
<1>9. n \in Sequences(g.checkpoints)
  BY <1>2, <1>3, <1>6 DEF Sequences
<1>10. \A k \in g.checkpoints : k.sequence \in n .. (g.next - 1)
  BY <1>1, <1>3, <1>4, <1>6
<1>11. \A r \in g.records :
          r.action = "External" => \E k \in g.checkpoints : k.sequence = r.sequence
  BY <1>1, <1>3, <1>4, <1>6
<1>12. g.cursor \in n .. (g.next - 1) /\ g.cursor = g.next - 1
  BY <1>1, <1>3, <1>4
<1>13. Tip(g, n)
  BY <1>3, <1>5, <1>7, <1>8, <1>9, <1>10, <1>11, <1>12 DEF Tip, Ring
<1>14. LeavesTip(h, g)
  <2>1. ASSUME Marked(h) PROVE Marked(g)
    <3>1. PICK k \in h.checkpoints : k.sequence = h.cursor
      BY <2>1 DEF Marked, Sequences
    <3>2. k \in g.checkpoints
      BY <1>1, <1>3, <1>6, <3>1
    <3> QED
      BY <1>4, <3>1, <3>2 DEF Marked, Sequences
  <2> QED
    BY <1>4, <2>1 DEF LeavesTip
<1> QED
  BY <1>4, <1>6, <1>13, <1>14 DEF g

LEMMA OldestIs ==
    ASSUME NEW h, NEW b, Ring(h, b) PROVE Oldest(h) = b
<1>1. Sequences(h.checkpoints) \in SUBSET Nat /\ b \in Sequences(h.checkpoints) /\ b \in Nat
  BY RingParts DEF Ring, Sequences
<1>2. \A j \in Sequences(h.checkpoints) : b <= j
  BY RingParts DEF Ring, Sequences
<1>3. Oldest(h) \in Sequences(h.checkpoints) /\ Oldest(h) <= b
  BY <1>1, LeastExists DEF Oldest
<1> QED
  BY <1>1, <1>2, <1>3

\* A checkpoint at the cursor that no other part of the history contradicts
\* and that has nothing but itself behind it.
LEMMA OnlyCheckpointIs ==
    ASSUME NEW h, NEW b, Tip(h, b), NEW s \in Sim, NEW g \in History,
           g.records = {}, g.checkpoints = {Checkpoint(h.cursor, s)},
           g.cursor = h.cursor, g.next = h.next
    PROVE  /\ Tip(g, h.cursor) /\ LeavesTip(h, g)
           /\ Cardinality(g.records) = 0 /\ Cardinality(g.checkpoints) = 1
<1>1. h.next \in Nat /\ h.cursor = h.next - 1 /\ h.cursor \in Nat
  BY RingParts DEF Tip
<1>2. Checkpoint(h.cursor, s).sequence = h.cursor
  BY DEF Checkpoint
<1>3. Sequences(g.records) = {} /\ Sequences(g.checkpoints) = {h.cursor}
  BY <1>2 DEF Sequences
<1>4. (h.cursor + 1) .. (g.next - 1) = {} /\ h.cursor \in h.cursor .. (g.next - 1)
  BY <1>1
<1>5. Coherent(g)
  BY DEF Coherent
<1>6. Ring(g, h.cursor)
  BY <1>1, <1>2, <1>3, <1>4, <1>5 DEF Ring
<1>7. Cardinality(g.records) = 0 /\ Cardinality(g.checkpoints) = 1
  BY FS_EmptySet, FS_Singleton
<1> QED
  BY <1>1, <1>3, <1>6, <1>7 DEF Tip, LeavesTip, Marked

\* The event ring keeps its limit.
LEMMA EvictedIs ==
    ASSUME NEW h, NEW b, Tip(h, b), NEW s \in Sim
    PROVE  \E d : /\ Tip(Evicted(h, s), d) /\ LeavesTip(h, Evicted(h, s))
                  /\ Cardinality(Evicted(h, s).records) <= MaxEvents
<1> DEFINE baselines == {n \in LaterCheckpoints(h) : n >= DesiredFirst(h)}
           g == [h EXCEPT !.checkpoints = @ \cup {Checkpoint(h.cursor, s)}]
<1>0. /\ b \in Nat /\ h.next \in Nat /\ b < h.next /\ h.cursor = h.next - 1 /\ h \in History
      /\ h.records \subseteq Event /\ h.checkpoints \subseteq Anchor /\ Coherent(h)
      /\ \A r \in h.records : r.sequence \in (b + 1) .. (h.next - 1)
      /\ \A k \in h.checkpoints : k.sequence \in b .. (h.next - 1)
      /\ Ring(h, b) /\ MaxEvents \in Nat /\ MaxEvents >= 2
      /\ IsFiniteSet(h.records) /\ Cardinality(h.records) \in Nat
  BY RingParts, RingFinite, HistoryAssumption DEF Tip, Ring
<1>1. CASE Cardinality(h.records) <= MaxEvents
  <2>1. Evicted(h, s) = h
    BY <1>1 DEF Evicted
  <2> QED
    BY <1>1, <2>1 DEF LeavesTip
<1>2. CASE ~ (Cardinality(h.records) <= MaxEvents)
  <2>1. Cardinality(h.records) = h.next - 1 - b
    <3>1. {r \in h.records : r.sequence >= b + 1} = h.records
      BY <1>0
    <3>2. b + 1 \in (b + 1) .. h.next
      BY <1>0
    <3>3. Cardinality({r \in h.records : r.sequence >= b + 1}) = h.next - (b + 1)
      BY <1>0, <3>2, RingFinite
    <3>4. Cardinality(h.records) = h.next - (b + 1)
      BY <3>1, <3>3, Zenon
    <3> QED
      BY <1>0, <3>4
  <2>2. /\ DesiredFirst(h) \in Sequences(h.records)
        /\ Cardinality({r \in h.records : r.sequence >= DesiredFirst(h)}) = MaxEvents
    <3> DEFINE n == h.next - MaxEvents
    <3>1. n \in (b + 1) .. (h.next - 1) /\ n \in (b + 1) .. h.next /\ h.next - n = MaxEvents
      BY <1>0, <1>2, <2>1
    <3> HIDE DEF n
    <3>2. n \in Sequences(h.records)
      BY <1>0, <3>1 DEF Ring
    <3>3. Cardinality({r \in h.records : r.sequence >= n}) = MaxEvents
      BY <1>0, <3>1, RingFinite
    <3> QED
      BY <3>2, <3>3, Zenon DEF DesiredFirst
  <2>3. DesiredFirst(h) \in (b + 1) .. (h.next - 1)
    BY <1>0, <2>2 DEF Sequences
  <2>4. LaterCheckpoints(h) = {n \in Sequences(h.checkpoints) : n > b}
    BY <1>0, OldestIs DEF LaterCheckpoints
  <2>5. CASE baselines # {}
    <3> DEFINE n == Least(baselines)
    <3>1. baselines \in SUBSET Nat
      BY <1>0, <2>4 DEF Sequences
    <3>2. n \in baselines
      <4> HIDE DEF baselines
      <4> QED BY <2>5, <3>1, LeastExists
    <3>3. Evicted(h, s) = DropThrough(h, n)
      BY <1>2, <2>5, Zenon DEF Evicted
    <3>4. n \in Sequences(h.checkpoints) /\ n >= DesiredFirst(h) /\ n \in Nat
      BY <2>4, <3>1, <3>2
    <3> HIDE DEF n
    <3>5. /\ Tip(DropThrough(h, n), n) /\ LeavesTip(h, DropThrough(h, n))
          /\ DropThrough(h, n).records = {r \in h.records : r.sequence > n}
      BY <3>4, DropThroughIs
    <3>6. Cardinality(DropThrough(h, n).records) <= MaxEvents
      <4> DEFINE R == {r \in h.records : r.sequence >= DesiredFirst(h)}
      <4>1. IsFiniteSet(R)
        BY <1>0, FS_Subset
      <4>2. DropThrough(h, n).records \in SUBSET R
        BY <1>0, <2>3, <3>4, <3>5
      <4>3. Cardinality(R) = MaxEvents
        BY <2>2
      <4> HIDE DEF R
      <4> QED BY <4>1, <4>2, <4>3, FS_Subset
    <3> QED
      BY <3>3, <3>5, <3>6
  <2>6. CASE baselines = {}
    <3>1. Evicted(h, s) = DropThrough(g, h.cursor)
      BY <1>2, <2>6, Zenon DEF Evicted
    <3>2. \A k \in h.checkpoints : k.sequence < h.cursor
      <4> SUFFICES ASSUME NEW k \in h.checkpoints, ~ (k.sequence < h.cursor) PROVE FALSE
        OBVIOUS
      <4>1. k.sequence = h.cursor /\ k.sequence > b /\ k.sequence >= DesiredFirst(h)
        BY <1>0, <2>3
      <4>2. k.sequence \in baselines
        BY <2>4, <4>1 DEF Sequences
      <4> QED BY <2>6, <4>2
    <3>3. /\ Checkpoint(h.cursor, s) \in Anchor /\ Checkpoint(h.cursor, s).sequence = h.cursor
          /\ h.cursor \in Nat
      BY <1>0, RingParts DEF Checkpoint, Anchor
    <3>4. /\ g.records = h.records /\ g.cursor = h.cursor /\ g.next = h.next
          /\ g.checkpoints = h.checkpoints \cup {Checkpoint(h.cursor, s)}
          /\ g \in History
      BY <1>0, <3>3 DEF History
    <3> DEFINE t == DropThrough(g, h.cursor)
    <3>5. /\ t.records = {r \in g.records : r.sequence > h.cursor}
          /\ t.checkpoints = {k \in g.checkpoints :
                ~ \E j \in g.checkpoints : k.sequence < j.sequence /\ j.sequence <= h.cursor}
          /\ t.cursor = h.cursor /\ t.next = h.next
      <4> HIDE DEF g
      <4> QED BY <3>4 DEF DropThrough, History
    <3>6. t \in History
      <4>1. t = [g EXCEPT !.records = t.records, !.checkpoints = t.checkpoints]
        BY <3>5 DEF DropThrough
      <4>2. t.records \subseteq Event /\ t.checkpoints \subseteq Anchor
        BY <1>0, <3>3, <3>4, <3>5
      <4> HIDE DEF t, g
      <4> QED BY <3>4, <4>1, <4>2 DEF History
    <3> HIDE DEF t, g
    <3>7. t.records = {}
      BY <1>0, <3>4, <3>5
    <3>8. t.checkpoints = {Checkpoint(h.cursor, s)}
      BY <1>0, <3>2, <3>3, <3>4, <3>5
    <3>9. Tip(t, h.cursor) /\ LeavesTip(h, t) /\ Cardinality(t.records) = 0
      BY <3>5, <3>6, <3>7, <3>8, OnlyCheckpointIs
    <3>10. Cardinality(t.records) <= MaxEvents
      BY <1>0, <3>9
    <3> QED
      BY <3>1, <3>9, <3>10 DEF t
  <2> QED
    BY <2>5, <2>6
<1> QED
  BY <1>1, <1>2

\* The memory ceiling holds or one checkpoint is left; the event limit stays.
LEMMA TrimmedIs ==
    ASSUME NEW h, NEW b, Tip(h, b), NEW s \in Sim, Cardinality(h.records) <= MaxEvents
    PROVE  \E d : Tip(Trimmed(h, s), d) /\ LeavesTip(h, Trimmed(h, s)) /\ Bounded(Trimmed(h, s))
<1> DEFINE baselines ==
              {n \in LaterCheckpoints(h) : EstimatedMemory(DropThrough(h, n)) <= MaxMemory}
           g == [h EXCEPT !.records = {}, !.checkpoints = {Checkpoint(h.cursor, s)}]
<1>0. /\ h \in History /\ Ring(h, b) /\ MaxEvents \in Nat /\ IsFiniteSet(h.records)
      /\ Cardinality(h.records) \in Nat /\ h.cursor \in Nat
      /\ h.checkpoints \subseteq Anchor
  BY RingParts, RingFinite, HistoryAssumption DEF Tip
<1>1. CASE EstimatedMemory(h) <= MaxMemory
  <2>1. Trimmed(h, s) = h
    BY <1>1 DEF Trimmed
  <2> QED
    BY <1>1, <2>1 DEF LeavesTip, Bounded
<1>2. CASE ~ (EstimatedMemory(h) <= MaxMemory) /\ baselines # {}
  <2> DEFINE n == Least(baselines)
  <2>1. baselines \in SUBSET Nat
    BY <1>0 DEF LaterCheckpoints, Sequences, Anchor
  <2>2. n \in baselines
    <3> HIDE DEF baselines
    <3> QED BY <1>2, <2>1, LeastExists
  <2>3. Trimmed(h, s) = DropThrough(h, n)
    BY <1>2, Zenon DEF Trimmed
  <2>4. n \in Sequences(h.checkpoints) /\ EstimatedMemory(DropThrough(h, n)) <= MaxMemory
    BY <2>2 DEF LaterCheckpoints
  <2> HIDE DEF n
  <2>5. /\ Tip(DropThrough(h, n), n) /\ LeavesTip(h, DropThrough(h, n))
    BY <2>4, DropThroughIs
  <2>6. Cardinality(DropThrough(h, n).records) <= MaxEvents
    <3>1. DropThrough(h, n).records \in SUBSET h.records
      BY <2>5 DEF LeavesTip
    <3>2. /\ Cardinality(DropThrough(h, n).records) <= Cardinality(h.records)
          /\ IsFiniteSet(DropThrough(h, n).records)
      BY <1>0, <3>1, FS_Subset
    <3>3. Cardinality(DropThrough(h, n).records) \in Nat
      BY <3>2, FS_CardinalityType
    <3> QED
      BY <1>0, <3>2, <3>3
  <2> QED
    BY <2>3, <2>4, <2>5, <2>6 DEF Bounded
<1>3. CASE ~ (EstimatedMemory(h) <= MaxMemory) /\ baselines = {}
  <2>1. Trimmed(h, s) = g
    BY <1>3, Zenon DEF Trimmed
  <2>2. Checkpoint(h.cursor, s) \in Anchor
    BY <1>0 DEF Checkpoint, Anchor
  <2>3. /\ g \in History /\ g.records = {} /\ g.checkpoints = {Checkpoint(h.cursor, s)}
        /\ g.cursor = h.cursor /\ g.next = h.next
    BY <1>0, <2>2 DEF History
  <2> HIDE DEF g
  <2>4. /\ Tip(g, h.cursor) /\ LeavesTip(h, g)
        /\ Cardinality(g.records) = 0 /\ Cardinality(g.checkpoints) = 1
    BY <2>3, OnlyCheckpointIs
  <2>5. Bounded(g)
    BY <1>0, <2>3, <2>4 DEF Bounded
  <2> QED
    BY <2>1, <2>4, <2>5
<1> QED
  BY <1>1, <1>2, <1>3

Sound(h) == (\E b : Ring(h, b)) /\ Bounded(h)

\* record keeps a history sound and moves the cursor to the new event.
LEMMA RecordIs ==
    ASSUME NEW h, Sound(h), NEW s \in Sim, NEW cpu \in Cpus, NEW line \in Nat,
           NEW action \in Actions, NEW effects \in Batches, NEW failed \in BOOLEAN
    PROVE  LET g == Record(h, s, cpu, line, action, effects, failed)
           IN  /\ Sound(g) /\ g.cursor = h.cursor + 1 /\ ShowsAt(g, s)
               /\ action = "External" => Marked(g)
<1>1. PICK b : Ring(h, b)
  BY DEF Sound
<1> DEFINE u == Appended(Rebranched(h), s, cpu, line, action, effects, failed)
           v == Evicted(u, s)
           g == Trimmed(v, s)
<1>2. Tip(Rebranched(h), b) /\ Rebranched(h).cursor = h.cursor
  BY <1>1, RebranchedIs
<1>3. /\ Tip(u, b) /\ u.cursor = h.cursor + 1 /\ ShowsAt(u, s)
      /\ action = "External" => Marked(u)
  BY <1>2, AppendedIs
<1>4. Record(h, s, cpu, line, action, effects, failed) = g
  BY DEF Record
<1> HIDE DEF u
<1>5. PICK d : Tip(v, d) /\ LeavesTip(u, v) /\ Cardinality(v.records) <= MaxEvents
  BY <1>3, EvictedIs
<1> HIDE DEF v
<1>6. PICK e : Tip(g, e) /\ LeavesTip(v, g) /\ Bounded(g)
  BY <1>5, TrimmedIs
<1> HIDE DEF g
<1>7. g.cursor = h.cursor + 1 /\ ShowsAt(g, s) /\ (action = "External" => Marked(g))
  BY <1>3, <1>5, <1>6 DEF LeavesTip, ShowsAt
<1>8. Sound(g)
  BY <1>6 DEF Sound, Tip
<1> QED
  BY <1>4, <1>7, <1>8

\* checkpoint_current replaces the checkpoint of an external change.
LEMMA CheckpointCurrentIs ==
    ASSUME NEW h, Sound(h), NEW s \in Sim, Marked(h), ShowsAt(h, s)
    PROVE  Sound(CheckpointCurrent(h, s)) /\ CheckpointCurrent(h, s).cursor = h.cursor
<1>1. PICK b : Ring(h, b)
  BY DEF Sound
<1> DEFINE g == CheckpointCurrent(h, s)
           c == Checkpoint(h.cursor, s)
<1>2. /\ h \in History /\ h.cursor \in Nat /\ h.checkpoints \subseteq Anchor
      /\ h.cursor \in b .. (h.next - 1) /\ h.next \in Nat /\ b \in Nat
  BY <1>1, RingParts DEF Ring
<1>3. c \in Anchor /\ c.sequence = h.cursor /\ c.snapshot = s
  BY <1>2 DEF Checkpoint, Anchor
<1>4. /\ g.records = h.records /\ g.cursor = h.cursor /\ g.next = h.next /\ g \in History
      /\ g.checkpoints = {k \in h.checkpoints : k.sequence # h.cursor} \cup {c}
  <2> HIDE DEF c
  <2>1. g = [h EXCEPT !.checkpoints = {k \in h.checkpoints : k.sequence # h.cursor} \cup {c}]
    BY <1>2 DEF CheckpointCurrent, c, History
  <2>2. {k \in h.checkpoints : k.sequence # h.cursor} \cup {c} \subseteq Anchor
    BY <1>2, <1>3
  <2> HIDE DEF g
  <2> QED BY <1>2, <2>1, <2>2 DEF History
<1> HIDE DEF g, c
<1>5. Sequences(g.checkpoints) = Sequences(h.checkpoints)
  BY <1>3, <1>4 DEF Sequences, Marked
<1>6. Coherent(g)
  BY <1>1, <1>3, <1>4 DEF Ring, Coherent, ShowsAt
<1>7. \A k \in g.checkpoints : k.sequence \in b .. (g.next - 1)
  BY <1>1, <1>2, <1>3, <1>4 DEF Ring
<1>8. \A r \in g.records :
          r.action = "External" => \E k \in g.checkpoints : k.sequence = r.sequence
  BY <1>1, <1>3, <1>4 DEF Ring
<1>9. Ring(g, b)
  BY <1>1, <1>4, <1>5, <1>6, <1>7, <1>8 DEF Ring
<1>10. Cardinality(g.checkpoints) = Cardinality(h.checkpoints)
  BY <1>1, <1>5, <1>9, RingFinite
<1>11. Bounded(g)
  BY <1>4, <1>10 DEF Sound, Bounded, EstimatedMemory
<1>12. Sound(g) /\ g.cursor = h.cursor
  BY <1>4, <1>9, <1>11 DEF Sound
<1> QED
  BY <1>12 DEF g

LEMMA MovedIs ==
    ASSUME NEW h, NEW b, Ring(h, b), Bounded(h), NEW target \in b .. (h.next - 1)
    PROVE  Sound(Moved(h, target)) /\ Moved(h, target).cursor = target
           /\ Moved(h, target).records = h.records
<1> DEFINE g == Moved(h, target)
<1>1. h \in History /\ target \in Nat
  BY RingParts
<1>2. /\ g.records = h.records /\ g.checkpoints = h.checkpoints /\ g.next = h.next
      /\ g.cursor = target /\ g \in History
  BY <1>1 DEF Moved, History
<1> HIDE DEF g
<1>3. Ring(g, b) /\ Bounded(g)
  BY <1>2 DEF Ring, Coherent, Bounded, EstimatedMemory
<1> QED
  BY <1>2, <1>3 DEF Sound, g

-----------------------------------------------------------------------------
(* The session.                                                            *)

Inv == sim \in Sim /\ Sound(hist) /\ pending \in Batches /\ TypeOK

\* Everything of the invariant that is not about the simulator or the history.
Flags ==
    /\ pending \in Batches
    /\ running \in BOOLEAN /\ single \in Cpus \cup {NoCpu} /\ focus \in Cpus
    /\ event \in {"none", "stopped", "terminated"}
    /\ view \in {"running", "stopped", "terminated"}
    /\ reply \in {"none", "ok", "refused"}
    /\ paused \in SUBSET Cpus

LEMMA InvFlags == Inv <=> sim \in Sim /\ Sound(hist) /\ Flags
BY SimParts DEF Inv, Flags, TypeOK

LEMMA LineIs ==
    ASSUME NEW s \in Sim, NEW c \in Cpus PROVE LineOf(s, c) \in Nat
BY SimParts DEF LineOf

LEMMA FocusIs == FocusThread \in Cpus /\ ExceptionFilter \in BOOLEAN /\ HcfFilter \in BOOLEAN
                 /\ DataBreakpoint \in BOOLEAN
BY SessionAssumption

\* The CPU the runner is about to run, in a state that differs from sim only
\* in what finding it changes.
LEMMA TargetIs ==
    ASSUME Inv
    PROVE  /\ RunnerTarget.cpu \in Cpus \cup {NoCpu} /\ RunnerTarget.sim \in Sim
           /\ RunnerTarget.sim.pc = sim.pc
           /\ \A d \in Cpus : /\ Dead(sim, d) => Dead(RunnerTarget.sim, d)
                              /\ RunnerTarget.sim.ops[d] <= sim.ops[d]
           /\ RunnerTarget.cpu # NoCpu /\ single = NoCpu =>
                 /\ ~Dead(sim, RunnerTarget.cpu) /\ Located(sim, RunnerTarget.cpu)
                 /\ Prepare(RunnerTarget.sim).cpu = RunnerTarget.cpu
                 /\ Prepare(RunnerTarget.sim).sim = RunnerTarget.sim
                 /\ RunnerTarget.sim.ops = sim.ops
<1>1. sim \in Sim /\ single \in Cpus \cup {NoCpu}
  BY InvFlags DEF Flags
<1>2. CASE single # NoCpu
  <2>1. RunnerTarget.cpu = single /\ RunnerTarget.sim = sim
    BY <1>2 DEF RunnerTarget
  <2>2. \A d \in Cpus : sim.ops[d] <= sim.ops[d]
    BY <1>1, SimParts
  <2> QED
    BY <1>1, <1>2, <2>1, <2>2
<1>3. CASE single = NoCpu
  <2>1. RunnerTarget.cpu = Prepare(sim).cpu /\ RunnerTarget.sim = Prepare(sim).sim
    BY <1>3 DEF RunnerTarget
  <2>2. Prepare(sim).cpu # NoCpu => ~Dead(sim, Prepare(sim).cpu)
    BY <1>1, PrepareIs DEF CanStep, Dead
  <2> QED
    BY <1>1, <2>1, <2>2, PrepareIs, Zenon
<1> QED
  BY <1>2, <1>3

\* The instruction of RunnerStep, by hand or by the scheduler.
Stepped == IF single # NoCpu THEN StepInstruction(sim, RunnerTarget.cpu)
                             ELSE SchedulerStep(RunnerTarget.sim)

\* The runner executes what its target leads to.
LEMMA RunnerExecutes == RunnerStep => running /\ Executed(RunnerTarget, Stepped)
BY DEF RunnerStep, RunnerTurn, Stepped

\* An instruction of the runner moves one CPU, and a failed one or one that
\* halts leaves that CPU dead.
LEMMA SteppedIs ==
    ASSUME Inv, RunnerTarget.cpu # NoCpu
    PROVE  LET c == RunnerTarget.cpu
           IN  /\ c \in Cpus /\ Stepped \in Result
               /\ \A d \in Cpus \ {c} : /\ Stepped.sim.pc[d] = sim.pc[d]
                                        /\ Dead(sim, d) => Dead(Stepped.sim, d)
                                        /\ Stepped.sim.ops[d] = sim.ops[d]
               /\ Stepped.failed => Dead(Stepped.sim, c)
               /\ Operation(RunnerTarget.sim, c) = "hcf" => Dead(Stepped.sim, c)
               /\ Dead(sim, c) => Stepped.failed /\ Stepped.sim = sim
<1> DEFINE c == RunnerTarget.cpu
           t == RunnerTarget.sim
<1>0. sim \in Sim /\ c \in Cpus
  BY TargetIs, InvFlags
<1>1. CASE single # NoCpu
  <2>1. c = single /\ t = sim /\ Stepped = StepInstruction(sim, c)
    BY <1>1 DEF RunnerTarget, Stepped
  <2>2. \A d \in Cpus \ {c} : Dead(sim, d) => Dead(Stepped.sim, d)
    BY <1>0, <2>1, StepInstructionIs DEF Dead
  <2>3. Dead(sim, c) => Stepped.failed /\ Stepped.sim = sim
    BY <1>0, <2>1, StepInstructionIs
  <2>4. /\ Stepped \in Result
        /\ \A d \in Cpus \ {c} : Stepped.sim.pc[d] = sim.pc[d] /\ Stepped.sim.ops[d] = sim.ops[d]
        /\ Stepped.failed => Dead(Stepped.sim, c)
        /\ Operation(sim, c) = "hcf" => Dead(Stepped.sim, c)
    BY <1>0, <2>1, StepInstructionIs
  <2> QED
    BY <1>0, <2>1, <2>2, <2>3, <2>4
<1>2. CASE single = NoCpu
  <2>1. /\ t \in Sim /\ t.pc = sim.pc /\ t.ops = sim.ops /\ ~Dead(sim, c)
        /\ Prepare(t).cpu = c /\ Prepare(t).sim = t /\ Stepped = SchedulerStep(t)
        /\ \A d \in Cpus : Dead(sim, d) => Dead(t, d)
    BY <1>2, TargetIs DEF Stepped
  <2>2. Located(t, c)
    BY <1>2, <2>1, TargetIs DEF Located
  <2>3. /\ Stepped \in Result /\ Stepped.sim.run[c] = RunAfter(Operation(t, c))
        /\ (Stepped.failed <=> Operation(t, c) = "fail")
        /\ \A d \in Cpus \ {c} : /\ Stepped.sim.pc[d] = t.pc[d]
                                 /\ Stepped.sim.run[d] = t.run[d]
                                 /\ Stepped.sim.ops[d] = t.ops[d]
    BY <2>1, ScheduledStepIs
  <2>4. Operation(t, c) \in {"fail", "hcf"} => Dead(Stepped.sim, c)
    BY <1>0, <2>1, <2>2, <2>3, OperationIs DEF Dead
  <2>5. \A d \in Cpus \ {c} : /\ Stepped.sim.pc[d] = sim.pc[d]
                              /\ Dead(sim, d) => Dead(Stepped.sim, d)
                              /\ Stepped.sim.ops[d] = sim.ops[d]
    BY <2>1, <2>3 DEF Dead
  <2> HIDE DEF t
  <2> QED
    BY <1>0, <2>1, <2>3, <2>4, <2>5 DEF t
<1> QED
  BY <1>1, <1>2

\* What RunnerStep does, the history apart from its soundness left out.
LEMMA RunnerStepIs ==
    ASSUME Inv, RunnerStep
    PROVE  LET c == RunnerTarget.cpu
               at == <<c, sim.pc[c]>>
           IN  /\ running /\ c # NoCpu /\ (at \notin Breakpoints \/ at = skip)
               /\ sim' = Stepped.sim /\ Sound(hist') /\ hist'.cursor > hist.cursor
               /\ pending' = {} /\ focus' = focus
               /\ running' \in BOOLEAN /\ event' \in {"none", "stopped"}
               /\ running' => /\ lastStop' = lastStop /\ paused' = paused \ {c}
                              /\ ~Stepped.failed
               /\ ~running' => /\ lastStop' = at /\ paused' = Cpus
                               /\ ~DataBreakpoint => Dead(sim', c)
                               /\ ExceptionFilter => event' = "stopped"
               /\ skip' = SkipAfter(at) /\ reply' = "none" /\ UNCHANGED <<single, view>>
<1> DEFINE c == RunnerTarget.cpu
           t == RunnerTarget.sim
           at == <<c, t.pc[c]>>
           told == IF Stepped.failed THEN ExceptionFilter
                   ELSE \/ Operation(t, c) = "hcf" /\ HcfFilter
                        \/ DataBreakpoint /\ Stepped.sim.field # sim.field
           kind == IF single # NoCpu THEN "Instruction" ELSE "Scheduled"
           effects == pending \cup Wrote(sim, t) \cup Wrote(t, Stepped.sim)
           recorded == Record(hist, Stepped.sim, c, at[2], kind, effects, Stepped.failed)
           stop == Record(recorded, Stepped.sim, c, LineOf(Stepped.sim, c), "Stop", {}, FALSE)
<1>1. /\ running /\ c # NoCpu /\ (at \notin Breakpoints \/ at = skip)
      /\ pending' = {} /\ focus' = focus
      /\ sim' = Stepped.sim
      /\ hist' = IF told THEN stop ELSE recorded
      /\ running' = ~(Stepped.failed \/ told)
      /\ lastStop' = IF running' THEN lastStop ELSE at
      /\ skip' = SkipAfter(at)
      /\ event' = IF told THEN "stopped" ELSE "none"
      /\ reply' = "none"
      /\ paused' = IF running' THEN paused \ {c} ELSE Cpus
      /\ UNCHANGED <<single, view>>
  BY RunnerExecutes, Zenon DEF Executed
<1>2. t.pc = sim.pc /\ c \in Cpus /\ t \in Sim
  BY <1>1, TargetIs
<1>3. Stepped.sim \in Sim /\ Stepped.failed \in BOOLEAN
  BY <1>1, SteppedIs DEF Result
<1>4. told \in BOOLEAN
  BY FocusIs
<1>5. Sound(hist') /\ hist'.cursor > hist.cursor
  <2>1. Sound(hist) /\ at[2] \in Nat /\ kind \in Actions /\ "Stop" \in Actions
    BY <1>2, SimParts DEF Inv, Actions
  <2>0. effects \in Batches
    <3>1. pending \in Batches /\ sim \in Sim
      BY DEF Inv
    <3> HIDE DEF t
    <3> QED BY <1>2, <1>3, <3>1, BatchesAre
  <2> HIDE DEF at, kind, effects
  <2>2. Sound(recorded) /\ recorded.cursor = hist.cursor + 1
    BY <1>2, <1>3, <2>0, <2>1, RecordIs
  <2> HIDE DEF recorded
  <2>3. Sound(stop) /\ stop.cursor = recorded.cursor + 1
    <3>1. LineOf(Stepped.sim, c) \in Nat
      BY <1>2, <1>3, LineIs
    <3>2. /\ c \in Cpus /\ Stepped.sim \in Sim /\ FALSE \in BOOLEAN
          /\ Sound(recorded) /\ "Stop" \in Actions /\ {} \in Batches
      BY <1>2, <1>3, <2>1, <2>2, BatchesAre
    <3> HIDE DEF c, t, told
    <3> QED BY ONLY <3>1, <3>2, RecordIs, ZenonT(40)
  <2>4. hist.cursor \in Nat
    BY <2>1, RingParts DEF Sound
  <2>5. hist' \in {stop, recorded}
    BY <1>1
  <2> HIDE DEF stop
  <2> QED BY <2>2, <2>3, <2>4, <2>5
<1>6. ~DataBreakpoint /\ (Stepped.failed \/ told) => Dead(Stepped.sim, c)
  BY <1>1, SteppedIs
<1>7. /\ Stepped.failed => told = ExceptionFilter
      /\ told => event' = "stopped"
      /\ event' \in {"none", "stopped"}
  BY <1>1
<1> HIDE DEF told
<1>8. running' \in BOOLEAN /\ (running' <=> ~(Stepped.failed \/ told))
  BY <1>1
<1>9. ~running' /\ ExceptionFilter => event' = "stopped"
  BY <1>3, <1>4, <1>7, <1>8
<1>10. at = <<c, sim.pc[c]>>
  BY <1>2
<1>11. ~running' /\ ~DataBreakpoint => Dead(sim', c)
  BY <1>1, <1>6, <1>8
<1> HIDE DEF at, c
<1>12. /\ running' => lastStop' = lastStop /\ paused' = paused \ {c} /\ ~Stepped.failed
       /\ ~running' => lastStop' = at /\ paused' = Cpus
  BY <1>1, <1>8
<1> QED
  BY <1>1, <1>5, <1>7, <1>8, <1>9, <1>10, <1>11, <1>12, Zenon DEF c

\* RunnerBreak likewise.
LEMMA RunnerBreakIs ==
    ASSUME Inv, RunnerBreak
    PROVE  LET c == RunnerTarget.cpu
           IN  /\ c \in Cpus /\ sim' = RunnerTarget.sim /\ sim' \in Sim
               /\ Sound(hist') /\ hist'.cursor > hist.cursor
               /\ pending' \in Batches /\ focus' = focus
               /\ running' = FALSE /\ lastStop' = <<c, sim.pc[c]>>
               /\ event' = "stopped" /\ reply' = "none" /\ paused' = Cpus
               /\ UNCHANGED <<single, skip, view>>
<1> DEFINE c == RunnerTarget.cpu
           t == RunnerTarget.sim
<1>1. /\ c # NoCpu /\ sim' = t
      /\ hist' = Record(hist, t, c, LineOf(t, c), "Stop", {}, FALSE)
      /\ pending' = pending \cup Wrote(sim, t) /\ focus' = focus
      /\ running' = FALSE /\ lastStop' = <<c, t.pc[c]>>
      /\ event' = "stopped" /\ reply' = "none" /\ paused' = Cpus
      /\ UNCHANGED <<single, skip, view>>
  BY Zenon DEF RunnerBreak
<1>2. t.pc = sim.pc /\ c \in Cpus /\ t \in Sim
  BY <1>1, TargetIs
<1>0. pending' \in Batches
  <2>1. pending \in Batches /\ sim \in Sim
    BY DEF Inv
  <2> HIDE DEF t
  <2> QED BY <1>1, <1>2, <2>1, BatchesAre
<1>3. Sound(hist') /\ hist'.cursor > hist.cursor
  <2>1. Sound(hist) /\ "Stop" \in Actions /\ LineOf(t, c) \in Nat /\ {} \in Batches
    BY <1>2, LineIs, BatchesAre DEF Inv, Actions
  <2>2. hist.cursor \in Nat
    BY <2>1, RingParts DEF Sound
  <2> HIDE DEF t, c
  <2>3. Sound(hist') /\ hist'.cursor = hist.cursor + 1
    BY <1>1, <1>2, <2>1, RecordIs
  <2> QED BY <2>2, <2>3
<1> QED
  BY <1>0, <1>1, <1>2, <1>3

LEMMA RunnerInv ==
    ASSUME Inv, Runner PROVE Inv'
<1>0. sim \in Sim /\ Sound(hist) /\ Flags
  BY InvFlags
<1>1. CASE RunnerFinished
  BY <1>0, <1>1, SimParts DEF RunnerFinished, Flags, Inv, TypeOK
<1>2. CASE RunnerTickOver
  <2>1. sim' \in Sim /\ pending' = pending \cup Wrote(sim, sim')
    BY <1>2, TargetIs DEF RunnerTickOver
  <2>2. pending' \in Batches
    BY <1>0, <2>1, BatchesAre DEF Flags
  <2> QED BY <1>0, <1>2, <2>1, <2>2, SimParts DEF RunnerTickOver, Flags, Inv, TypeOK
<1>3. CASE RunnerBreak
  BY <1>0, <1>3, RunnerBreakIs, SimParts DEF Flags, Inv, TypeOK
<1>4. CASE RunnerStep
  <2>1. sim' \in Sim
    BY <1>4, RunnerStepIs, SteppedIs DEF Result
  <2>2. paused' \in SUBSET Cpus
    BY <1>0, <1>4, RunnerStepIs DEF Flags
  <2> QED
    BY <1>0, <1>4, <2>1, <2>2, RunnerStepIs, BatchesAre, SimParts DEF Flags, Inv, TypeOK
<1>5. CASE EmitEvent
  BY <1>0, <1>5, SimParts DEF EmitEvent, Flags, Inv, TypeOK
<1> QED
  BY <1>1, <1>2, <1>3, <1>4, <1>5 DEF Runner

\* A restore that succeeds has a checkpoint to start from.
LEMMA RestoredIsRetained ==
    ASSUME NEW h, NEW b, Ring(h, b), NEW s \in Sim, NEW w, NEW target \in Nat,
           Restore(h, s, w, target).ok
    PROVE  b <= target
<1>1. Retained(h, target) # {}
  <2>1. Retained(h, target) = {} => Restore(h, s, w, target) = Diverged(s, w)
    BY Zenon DEF Restore
  <2>2. ~Diverged(s, w).ok
    BY DEF Diverged
  <2> QED BY <2>1, <2>2
<1>2. PICK k \in h.checkpoints : k.sequence <= target
  BY <1>1 DEF Retained
<1> QED
  BY <1>2, RingParts DEF Ring

\* The state the history has for an event.
Recorded(s, n) ==
    /\ \A r \in hist.records : r.sequence = n => s = r.hash
    /\ \A k \in hist.checkpoints : k.sequence = n => s = k.snapshot

LEMMA NavigatedIs ==
    ASSUME Inv, NEW target \in Nat, target < hist.next, NEW c \in Cpus, Navigated(target, c)
    PROVE  /\ sim' \in Sim /\ Sound(hist') /\ running' = FALSE /\ paused' = Cpus
           /\ pending' \in Batches
           /\ view' \in {view, "stopped"} /\ reply' \in {"ok", "refused"}
           /\ reply' = "ok" => hist'.cursor = target /\ Recorded(sim', target) /\ view' = "stopped"
           /\ reply' = "refused" => UNCHANGED <<hist, view>>
<1> DEFINE x == Restore(hist, sim, pending, target)
<1>1. /\ sim' = x.sim /\ pending' = x.writes /\ running' = FALSE /\ paused' = Cpus
      /\ x.ok => hist' = Moved(hist, target) /\ view' = "stopped" /\ reply' = "ok"
      /\ ~x.ok => reply' = "refused" /\ UNCHANGED <<hist, view>>
  BY Zenon DEF Navigated
<1>2. PICK b : Ring(hist, b) /\ Bounded(hist)
  BY DEF Inv, Sound
<1>3. /\ hist \in History /\ Coherent(hist) /\ sim \in Sim /\ hist.next \in Nat /\ b \in Nat
      /\ pending \in Batches
  BY <1>2, RingParts DEF Ring, Inv
<1>4. /\ x \in Outcome
      /\ x.ok => Recorded(x.sim, target)
  BY <1>3, RestoreIs, Zenon DEF Recorded
<1>5. x.sim \in Sim /\ x.writes \in Batches
  BY <1>4 DEF Outcome
<1>6. x.ok => Sound(Moved(hist, target)) /\ Moved(hist, target).cursor = target
  <2> SUFFICES ASSUME x.ok PROVE Sound(Moved(hist, target)) /\ Moved(hist, target).cursor = target
    OBVIOUS
  <2>1. b <= target
    BY <1>2, <1>3, RestoredIsRetained
  <2>2. target \in b .. (hist.next - 1)
    BY <1>3, <2>1
  <2> QED BY <1>2, <2>2, MovedIs
<1> HIDE DEF x
<1>7. Recorded(x.sim, target) => Recorded(sim', target)
  BY <1>1
<1>8. CASE x.ok
  <2>1. Sound(hist') /\ hist'.cursor = target
    BY <1>1, <1>6, <1>8
  <2>2. Recorded(sim', target) /\ sim' \in Sim
    BY <1>1, <1>4, <1>5, <1>7, <1>8
  <2>3. reply' = "ok" /\ view' = "stopped"
    BY <1>1, <1>8
  <2> QED BY <1>1, <1>5, <2>1, <2>2, <2>3
<1>9. CASE ~x.ok
  <2>1. reply' = "refused" /\ hist' = hist /\ view' = view
    BY <1>1, <1>9
  <2>2. Sound(hist') /\ sim' \in Sim
    BY <1>1, <1>5, <2>1 DEF Inv
  <2> QED BY <1>1, <1>5, <2>1, <2>2
<1> QED
  BY <1>8, <1>9

\* The three requests that navigate, with the event each of them goes to.
Navigates(n) == \E c \in Cpus : Navigated(n, c)

LEMMA NavigationIs ==
    ASSUME Inv, (\E c \in Cpus : StepBack(c) \/ ReverseContinue(c)) \/ Navigate
    PROVE  /\ \/ RefusedStopped
              \/ \E n \in Nat : n < hist.next /\ Navigates(n)
           /\ event' = event /\ single' \in {single, NoCpu} /\ skip' = skip
           /\ focus \in Cpus => focus' \in Cpus
<1>1. PICK b : Ring(hist, b)
  BY DEF Inv, Sound
<1>2. /\ hist.cursor \in Nat /\ hist.next \in Nat /\ hist.cursor < hist.next
      /\ hist.records \subseteq Event
      /\ \A r \in hist.records : r.sequence \in Nat /\ r.sequence < hist.next /\ r.cpu \in Cpus
  BY <1>1, RingParts DEF Ring, Event
<1>3. ASSUME NEW c \in Cpus, StepBack(c)
      PROVE  RefusedStopped \/ \E n \in Nat : n < hist.next /\ Navigates(n)
  <2>1. CASE hist.cursor = 0
    BY <1>3, <2>1 DEF StepBack
  <2>2. CASE hist.cursor # 0
    <3>1. hist.cursor - 1 \in Nat /\ hist.cursor - 1 < hist.next
      BY <1>2, <2>2
    <3>2. Navigated(hist.cursor - 1, c)
      BY <1>3, <2>2 DEF StepBack
    <3> QED BY <3>1, <3>2 DEF Navigates
  <2> QED BY <2>1, <2>2
<1>4. ASSUME NEW c \in Cpus, ReverseContinue(c)
      PROVE  \E n \in Nat : n < hist.next /\ Navigates(n)
  <2> DEFINE L == {r.sequence : r \in {q \in hist.records : q.landmark /\ q.sequence < hist.cursor}}
  <2>1. ReverseTarget = IF L = {} THEN 0 ELSE Greatest(L)
    BY DEF ReverseTarget
  <2>2. L \in SUBSET (0 .. hist.cursor)
    BY <1>2
  <2> HIDE DEF L
  <2>3. ReverseTarget \in Nat /\ ReverseTarget < hist.next
    <3>1. CASE L = {}
      BY <1>2, <2>1, <3>1
    <3>2. CASE L # {}
      <4>1. Greatest(L) \in L
        BY <1>2, <2>2, <3>2, GreatestExists
      <4> QED BY <1>2, <2>1, <2>2, <3>2, <4>1
    <3> QED BY <3>1, <3>2
  <2>4. Navigated(ReverseTarget, c)
    BY <1>4 DEF ReverseContinue
  <2> QED BY <2>3, <2>4 DEF Navigates
<1>5. CASE Navigate
  <2>1. RefusedStopped \/ \E r \in hist.records : Navigated(r.sequence, r.cpu)
    BY <1>5 DEF Navigate
  <2>2. UNCHANGED <<single, skip, event>>
    BY <1>5 DEF Navigate
  <2>3. focus' = focus \/ \E r \in hist.records : focus' \in {r.cpu, focus}
    BY <1>5 DEF Navigate
  <2>4. focus \in Cpus => focus' \in Cpus
    BY <1>2, <2>3
  <2> QED BY <1>2, <2>1, <2>2, <2>4 DEF Navigates
<1>6. ASSUME NEW c \in Cpus, StepBack(c) \/ ReverseContinue(c)
      PROVE  event' = event /\ single' = NoCpu /\ skip' = skip /\ focus' = focus
  BY <1>6 DEF StepBack, ReverseContinue
<1> QED
  BY <1>3, <1>4, <1>5, <1>6

\* What an operation that ends in s adds to the journal.
LEMMA PendingIs == ASSUME Inv, NEW s \in Sim PROVE pending \cup Wrote(sim, s) \in Batches
BY BatchesAre DEF Inv

\* Recording in a sound history, as the requests do.
LEMMA RecordsSoundly ==
    ASSUME Inv, NEW s \in Sim, NEW c \in Cpus, NEW line \in Nat, NEW action \in Actions,
           NEW effects \in Batches, NEW failed \in BOOLEAN
    PROVE  /\ Sound(Record(hist, s, c, line, action, effects, failed))
           /\ Record(hist, s, c, line, action, effects, failed).cursor > hist.cursor
<1>1. Sound(hist) /\ hist.cursor \in Nat
  BY RingParts DEF Inv, Sound
<1>2. /\ Sound(Record(hist, s, c, line, action, effects, failed))
      /\ Record(hist, s, c, line, action, effects, failed).cursor = hist.cursor + 1
  BY <1>1, RecordIs
<1> QED
  BY <1>1, <1>2

LEMMA StepInIs ==
    ASSUME Inv, NEW c \in Cpus, StepIn(c)
    PROVE  /\ sim' = StepInstruction(sim, c).sim /\ sim' \in Sim
           /\ Sound(hist') /\ hist'.cursor > hist.cursor
           /\ pending' \in Batches /\ focus' = focus
<1> DEFINE step == StepInstruction(sim, c)
           effects == pending \cup Wrote(sim, step.sim)
<1>1. /\ sim' = step.sim /\ pending' = {} /\ focus' = focus
      /\ hist' = Record(hist, step.sim, c, LineOf(sim, c), "Instruction", effects, step.failed)
  BY DEF StepIn
<1>2. sim \in Sim /\ step \in Result
  BY StepInstructionIs DEF Inv
<1>3. step.sim \in Sim /\ step.failed \in BOOLEAN /\ LineOf(sim, c) \in Nat
      /\ "Instruction" \in Actions
  BY <1>2, LineIs DEF Result, Actions
<1> HIDE DEF step
<1>0. effects \in Batches
  BY <1>3, PendingIs
<1> HIDE DEF effects
<1>4. Sound(hist') /\ hist'.cursor > hist.cursor
  BY <1>0, <1>1, <1>3, RecordsSoundly
<1> QED
  BY <1>1, <1>3, <1>4, BatchesAre DEF step

LEMMA StepTickIs ==
    ASSUME Inv, StepTick
    PROVE  /\ sim' \in Sim /\ Sound(hist')
           /\ reply' = "ok" => hist'.cursor > hist.cursor
           /\ pending' \in Batches /\ focus' = focus
           /\ running' = FALSE /\ single' = NoCpu /\ paused' = Cpus /\ event' = event
           /\ view' \in {view, "stopped"} /\ reply' \in {"ok", "refused"}
<1> DEFINE step == StepWorldTick(sim)
           effects == pending \cup Wrote(sim, step.sim)
           g == Record(hist, step.sim, FocusThread, LineOf(sim, FocusThread), "WorldTick", effects,
                       FALSE)
<1>1. /\ sim' = step.sim /\ running' = FALSE /\ single' = NoCpu /\ paused' = Cpus
      /\ event' = event /\ focus' = focus /\ pending' \in {effects, {}}
      /\ \/ reply' = "refused" /\ UNCHANGED <<hist, view>>
         \/ hist' = g /\ view' = "stopped" /\ reply' = "ok"
  BY Zenon DEF StepTick
<1>2. sim \in Sim /\ step.sim \in Sim
  BY StepWorldTickIs DEF Inv, Result
<1>3. LineOf(sim, FocusThread) \in Nat /\ "WorldTick" \in Actions /\ FocusThread \in Cpus
  BY <1>2, LineIs, FocusIs DEF Actions
<1> HIDE DEF step
<1>0. effects \in Batches
  BY <1>2, PendingIs
<1> HIDE DEF effects
<1>4. Sound(g) /\ g.cursor > hist.cursor
  BY <1>0, <1>2, <1>3, RecordsSoundly
<1>5. pending' \in Batches
  BY <1>0, <1>1, BatchesAre
<1> HIDE DEF g
<1> QED
  BY <1>1, <1>2, <1>4, <1>5 DEF Inv

LEMMA FieldSet ==
    ASSUME NEW s \in Sim, NEW v \in 0 .. FieldSpan - 1
    PROVE  [s EXCEPT !.field = v] \in Sim
BY DEF Sim

LEMMA EditIs ==
    ASSUME Inv, NEW v \in 0 .. FieldSpan - 1, SetWorld(v) \/ SetVariable(v)
    PROVE  /\ sim' \in {sim, [sim EXCEPT !.field = v]} /\ sim' \in Sim /\ Sound(hist')
           /\ reply' = "ok" => hist'.cursor > hist.cursor
           /\ reply' \in {"ok", "refused"} /\ pending' \in Batches
           /\ UNCHANGED <<running, single, focus, lastStop, skip, event, view, paused>>
<1> DEFINE s == [sim EXCEPT !.field = v]
           effects == pending \cup Wrote(sim, s)
           g == Record(hist, s, FocusThread, LineOf(sim, FocusThread), "External", effects, FALSE)
<1>1. sim \in Sim /\ s \in Sim /\ Sound(hist)
  BY FieldSet DEF Inv
<1>2. LineOf(sim, FocusThread) \in Nat /\ "External" \in Actions /\ FocusThread \in Cpus
  BY <1>1, LineIs, FocusIs DEF Actions
<1>3. \/ sim' = s /\ hist' = g /\ reply' = "ok"
      \/ sim' = s /\ hist' = CheckpointCurrent(g, s) /\ reply' = "ok"
      \/ sim' = sim /\ hist' = hist /\ reply' = "refused"
  <2>1. CASE SetWorld(v)
    BY <2>1 DEF SetWorld
  <2>2. CASE SetVariable(v)
    BY <2>2 DEF SetVariable
  <2> QED BY <2>1, <2>2
<1>4. /\ UNCHANGED <<running, single, focus, lastStop, skip, event, view, paused>>
      /\ pending' \in {pending, {}}
  BY DEF SetWorld, SetVariable
<1>0. effects \in Batches /\ pending' \in Batches
  BY <1>1, <1>4, PendingIs, BatchesAre DEF Inv
<1> HIDE DEF effects
<1>5. Sound(g) /\ g.cursor = hist.cursor + 1 /\ ShowsAt(g, s) /\ Marked(g)
  <2> DEFINE line == LineOf(sim, FocusThread)
  <2>1. Sound(hist) /\ s \in Sim /\ FocusThread \in Cpus /\ line \in Nat
    BY <1>1, <1>2
  <2>2. "External" \in Actions /\ effects \in Batches /\ FALSE \in BOOLEAN
    BY <1>0, <1>2
  <2> HIDE DEF s, line
  <2>3. LET f == Record(hist, s, FocusThread, line, "External", effects, FALSE)
        IN  /\ Sound(f) /\ f.cursor = hist.cursor + 1 /\ ShowsAt(f, s)
            /\ "External" = "External" => Marked(f)
    BY ONLY <2>1, <2>2, RecordIs, ZenonT(40)
  <2> QED BY <2>3, Zenon DEF line
<1>6. hist.cursor \in Nat
  BY <1>1, RingParts DEF Sound
<1>7. Sound(CheckpointCurrent(g, s)) /\ CheckpointCurrent(g, s).cursor = g.cursor
  <2> HIDE DEF g, s
  <2> QED BY <1>1, <1>5, CheckpointCurrentIs
<1>8. sim' \in {sim, s}
  BY <1>3
<1> HIDE DEF g, s
<1>9. sim' \in Sim /\ Sound(hist') /\ (reply' = "ok" => hist'.cursor > hist.cursor)
      /\ reply' \in {"ok", "refused"}
  BY <1>1, <1>3, <1>5, <1>6, <1>7
<1> QED
  BY <1>0, <1>4, <1>8, <1>9 DEF s

LEMMA GotoIs ==
    ASSUME Inv, NEW c \in Cpus, NEW line \in DOMAIN Programs[c], Goto(c, line)
    PROVE  /\ sim' \in {sim, [sim EXCEPT !.pc[c] = line]} /\ sim' \in Sim /\ hist' = hist
           /\ view' \in {view, "stopped"} /\ reply' \in {"ok", "refused"}
           /\ UNCHANGED <<pending, running, single, focus, skip, event, paused>>
<1>1. line \in 1 .. Len(Programs[c]) /\ Len(Programs[c]) \in Nat
  BY CpusAre
<1>2. [sim EXCEPT !.pc[c] = line] \in Sim
  <2>1. sim \in Sim
    BY DEF Inv
  <2>2. /\ [sim.pc EXCEPT ![c] = line] \in [Cpus -> Nat]
        /\ \A d \in Cpus : [sim.pc EXCEPT ![c] = line][d] \in 1 .. Len(Programs[d]) + 1
    BY <1>1, <2>1, SimParts
  <2>3. [sim EXCEPT !.pc[c] = line] = [sim EXCEPT !.pc = [sim.pc EXCEPT ![c] = line]]
    BY <2>1 DEF Sim
  <2> QED BY <2>1, <2>2, <2>3 DEF Sim
<1>3. /\ sim' \in {sim, [sim EXCEPT !.pc[c] = line]} /\ hist' = hist
      /\ view' \in {view, "stopped"} /\ reply' \in {"ok", "refused"}
      /\ UNCHANGED <<pending, running, single, focus, skip, event, paused>>
  BY DEF Goto
<1>4. sim \in Sim
  BY DEF Inv
<1>5. sim' \in Sim
  BY <1>2, <1>3, <1>4
<1> QED
  BY <1>3, <1>5

\* hot_reload and restart begin a history, or change nothing.
LEMMA RenewIs ==
    ASSUME Inv, HotReload \/ Restart
    PROVE  /\ sim' \in {sim, InitSim} /\ sim' \in Sim /\ Sound(hist')
           /\ hist' = hist \/ (hist'.cursor = 0 /\ hist'.records = {})
           /\ pending' \in {pending, {}} /\ focus' \in {focus, FocusThread}
           /\ running' \in {running, FALSE} /\ single' \in {single, NoCpu}
           /\ paused' \in {paused, Cpus} /\ event' = event
           /\ view' \in {view, "stopped"} /\ reply' \in {"ok", "refused"}
<1>1. /\ sim' \in {sim, InitSim}
      /\ hist' \in {hist, NewHistory(sim), NewHistory(InitSim)}
      /\ pending' \in {pending, {}} /\ focus' \in {focus, FocusThread}
      /\ running' \in {running, FALSE} /\ single' \in {single, NoCpu}
      /\ paused' \in {paused, Cpus} /\ event' = event
      /\ view' \in {view, "stopped"} /\ reply' \in {"ok", "refused"}
  BY DEF HotReload, Restart, Stops
<1>2. ASSUME NEW s \in Sim
      PROVE  Sound(NewHistory(s)) /\ NewHistory(s).cursor = 0 /\ NewHistory(s).records = {}
  <2>1. NewHistory(s).records = {}
    BY DEF NewHistory
  <2> QED BY <2>1, NewHistoryIs DEF Sound, Tip
<1>3. sim \in Sim /\ InitSim \in Sim /\ Sound(hist)
  BY InitSimIs DEF Inv
<1> QED
  BY <1>1, <1>2, <1>3

LEMMA RequestInv ==
    ASSUME Inv, Request \/ Renewal PROVE Inv'
<1>0. sim \in Sim /\ Sound(hist) /\ Flags
  BY InvFlags
<1>1. ASSUME NEW t \in Cpus \cup {NoCpu}, Continue(t) PROVE Inv'
  BY <1>0, <1>1, SimParts DEF Continue, Flags, Inv, TypeOK
<1>2. CASE Pause
  BY <1>0, <1>2, SimParts DEF Pause, Stops, Flags, Inv, TypeOK
<1>3. CASE StepTick
  BY <1>0, <1>3, StepTickIs, SimParts DEF Flags, Inv, TypeOK
<1>4. ASSUME NEW c \in Cpus, StepIn(c) PROVE Inv'
  <2>1. running' = FALSE /\ single' = NoCpu /\ view' = "stopped" /\ paused' = Cpus
        /\ event' = event /\ reply' = "ok"
    BY <1>4 DEF StepIn, Stops
  <2> QED BY <1>0, <1>4, <2>1, StepInIs, SimParts DEF Flags, Inv, TypeOK
<1>5. CASE (\E c \in Cpus : StepBack(c) \/ ReverseContinue(c)) \/ Navigate
  <2>1. event' = event /\ single' \in {single, NoCpu} /\ focus' \in Cpus
    BY <1>0, <1>5, NavigationIs DEF Flags
  <2>2. CASE RefusedStopped
    BY <1>0, <2>1, <2>2, SimParts DEF RefusedStopped, Flags, Inv, TypeOK
  <2>3. ASSUME NEW n \in Nat, n < hist.next, Navigates(n) PROVE Inv'
    <3>1. PICK c \in Cpus : Navigated(n, c)
      BY <2>3 DEF Navigates
    <3> QED BY <1>0, <2>1, <2>3, <3>1, NavigatedIs, SimParts DEF Flags, Inv, TypeOK
  <2> QED BY <1>5, <2>2, <2>3, NavigationIs
<1>6. ASSUME NEW v \in 0 .. FieldSpan - 1, SetWorld(v) \/ SetVariable(v) PROVE Inv'
  BY <1>0, <1>6, EditIs, SimParts DEF Flags, Inv, TypeOK
<1>7. ASSUME NEW c \in Cpus, NEW line \in DOMAIN Programs[c], Goto(c, line) PROVE Inv'
  BY <1>0, <1>7, GotoIs, SimParts DEF Flags, Inv, TypeOK
<1>8. CASE HotReload \/ Restart
  <2>1. pending' \in Batches /\ focus' \in Cpus
    BY <1>0, <1>8, RenewIs, BatchesAre, FocusIs DEF Flags
  <2> QED BY <1>0, <1>8, <2>1, RenewIs, SimParts DEF Flags, Inv, TypeOK
<1> QED
  BY <1>1, <1>2, <1>3, <1>4, <1>5, <1>6, <1>7, <1>8 DEF Request, Renewal

LEMMA InitInv == Init => Inv
<1> SUFFICES ASSUME Init PROVE Inv
  OBVIOUS
<1>1. sim \in Sim /\ Sound(hist)
  BY InitSimIs, NewHistoryIs DEF Init, Sound, Tip
<1>2. Flags
  BY FocusIs, BatchesAre DEF Init, Flags
<1> QED
  BY <1>1, <1>2, InvFlags

LEMMA NextInv == Inv /\ [Next]_vars => Inv'
<1> SUFFICES ASSUME Inv, [Next]_vars PROVE Inv'
  OBVIOUS
<1>1. CASE UNCHANGED vars
  BY <1>1 DEF vars, Inv, TypeOK
<1>2. CASE Next
  BY <1>2, RunnerInv, RequestInv DEF Next
<1> QED
  BY <1>1, <1>2

LEMMA InvHolds == Spec => []Inv
BY InitInv, NextInv, PTL DEF Spec

\* TraceHistory (record, drop_through, checkpoint_current, restore): for any
\* programs, limits and costs, whatever mixture of running, stepping, editing
\* and navigation built it, the history is anchored in a checkpoint, complete
\* from there on, and within both of its limits.
THEOREM HistoryStaysSound == Spec => []HistorySound
<1>1. Inv => HistorySound
  <2> SUFFICES ASSUME Inv PROVE HistorySound
    OBVIOUS
  <2>1. PICK b : Ring(hist, b)
    BY DEF Inv, Sound
  <2>2. PICK k \in hist.checkpoints : k.sequence = b
    BY <2>1, RingParts
  <2>3. HistoryAnchored
    BY <2>1, <2>2 DEF HistoryAnchored, Anchored, Ring, Coherent
  <2> QED
    BY <2>3 DEF HistorySound, HistoryBounded, Inv, Sound
<1> QED
  BY <1>1, InvHolds, PTL

\* restore: a navigation that succeeds leaves the simulator in the very state
\* that was recorded at the event the cursor moves to.
THEOREM NavigationIsExact == Spec => NavigationLands
<1> DEFINE Exact == hist'.cursor < hist.cursor /\ reply' = "ok" /\ hist'.records = hist.records =>
              /\ \A r \in hist.records : r.sequence = hist'.cursor => sim' = r.hash
              /\ \A k \in hist.checkpoints : k.sequence = hist'.cursor => sim' = k.snapshot
<1>1. ASSUME Inv, [Next]_vars PROVE [Exact]_vars
  <2> SUFFICES ASSUME Next, hist'.cursor < hist.cursor, reply' = "ok",
                      hist'.records = hist.records
               PROVE  Recorded(sim', hist'.cursor)
    BY <1>1 DEF Recorded
  <2>0. Inv
    BY <1>1
  <2>1. PICK b : Ring(hist, b)
    BY <2>0 DEF Inv, Sound
  <2>2. /\ hist.cursor \in Nat /\ b \in Nat /\ hist.next \in Nat
        /\ hist.cursor \in b .. (hist.next - 1)
    BY <2>1, RingParts DEF Ring
  <2>3. ~ (hist.cursor < hist.cursor)
    BY <2>2
  <2>4. ~Runner
    <3>1. ASSUME RunnerBreak \/ RunnerStep PROVE FALSE
      <4>1. Sound(hist') /\ hist'.cursor > hist.cursor
        BY <2>0, <3>1, RunnerBreakIs, RunnerStepIs
      <4>2. hist'.cursor \in Nat
        BY <4>1, RingParts DEF Sound
      <4> QED BY <2>2, <4>1, <4>2
    <3>2. ASSUME RunnerFinished \/ RunnerTickOver \/ EmitEvent PROVE FALSE
      BY <2>3, <3>2 DEF RunnerFinished, RunnerTickOver, EmitEvent
    <3> QED BY <3>1, <3>2 DEF Runner
  <2>5. ~ ((\E t \in Cpus \cup {NoCpu} : Continue(t)) \/ Pause)
    BY <2>3 DEF Continue, Pause
  <2>6. ASSUME StepTick \/ (\E c \in Cpus : StepIn(c))
               \/ (\E v \in 0 .. FieldSpan - 1 : SetWorld(v) \/ SetVariable(v))
        PROVE  FALSE
    <3>1. Sound(hist') /\ hist'.cursor > hist.cursor
      BY <2>0, <2>6, StepTickIs, StepInIs, EditIs
    <3>2. hist'.cursor \in Nat
      BY <3>1, RingParts DEF Sound
    <3> QED BY <2>2, <3>1, <3>2
  <2>7. ASSUME NEW c \in Cpus, NEW line \in DOMAIN Programs[c], Goto(c, line) PROVE FALSE
    BY <2>3, <2>7 DEF Goto
  <2>8. CASE HotReload \/ Restart
    <3>1. hist'.cursor = 0 /\ hist.records = {}
      BY <2>0, <2>3, <2>8, RenewIs
    <3>2. b = hist.next - 1 /\ b = hist.cursor
      <4>1. ~ (b + 1 \in (b + 1) .. (hist.next - 1))
        BY <2>1, <3>1, RingParts
      <4> QED BY <2>2, <4>1
    <3>3. \A k \in hist.checkpoints : k.sequence # 0
      BY <2>1, <2>2, <3>1, <3>2 DEF Ring
    <3> QED BY <3>1, <3>3 DEF Recorded
  <2>9. CASE (\E c \in Cpus : StepBack(c) \/ ReverseContinue(c)) \/ Navigate
    <3>1. ~RefusedStopped
      BY DEF RefusedStopped
    <3>2. PICK n \in Nat : n < hist.next /\ Navigates(n)
      BY <2>0, <2>9, <3>1, NavigationIs
    <3>3. PICK c \in Cpus : Navigated(n, c)
      BY <3>2 DEF Navigates
    <3> QED BY <2>0, <3>2, <3>3, NavigatedIs
  <2> QED
    BY <2>4, <2>5, <2>6, <2>7, <2>8, <2>9 DEF Next, Request, Renewal
<1> QED
  BY <1>1, InvHolds, PTL DEF Spec, NavigationLands

-----------------------------------------------------------------------------
(* What the client is told.                                                *)

\* The runner writes an event for every stop of its own, and every request that
\* stops the session answers; navigate_history alone can be refused after it has
\* stopped a running session, and an error outside the exception filters is not
\* reported.
THEOREM ClientIsTold ==
    ASSUME ExceptionFilter, \A S \in Sessions : "navigate" \notin S
    PROVE  Spec => []NeverSilent
<1> DEFINE Told == NeverSilent /\ "navigate" \notin requests
<1>1. Init => Told
  BY DEF Init, NeverSilent
<1>2. ASSUME Inv, Told, [Next]_vars PROVE Told'
  <2>0. Inv /\ NeverSilent /\ "navigate" \notin requests /\ Flags
    BY <1>2, InvFlags
  <2>1. CASE UNCHANGED vars
    BY <2>0, <2>1 DEF vars, NeverSilent
  <2>2. CASE Next
    <3>0. "navigate" \notin requests'
      BY <2>0, <2>2 DEF Next
    <3> SUFFICES NeverSilent'
      BY <3>0
    <3>1. CASE RunnerFinished
      BY <3>1 DEF RunnerFinished, NeverSilent
    <3>2. CASE RunnerTickOver
      BY <2>0, <3>2 DEF RunnerTickOver, RunnerTurn, NeverSilent
    <3>3. CASE RunnerBreak
      BY <2>0, <3>3, RunnerBreakIs DEF NeverSilent
    <3>4. CASE RunnerStep
      BY <2>0, <3>4, RunnerStepIs DEF NeverSilent
    <3>5. CASE EmitEvent
      BY <2>0, <3>5 DEF EmitEvent, Flags, NeverSilent
    <3>6. CASE (\E t \in Cpus \cup {NoCpu} : Continue(t)) \/ Pause \/ Restart
                \/ (\E c \in Cpus : StepIn(c))
      BY <3>6 DEF Continue, Pause, Restart, StepIn, Stops, NeverSilent
    <3>7. CASE StepTick
      <4>1. view = "stopped"
        BY <3>7 DEF StepTick, ClientIsStopped
      <4> QED BY <2>0, <3>7, <4>1, StepTickIs DEF NeverSilent
    <3>8. CASE \E c \in Cpus : StepBack(c) \/ ReverseContinue(c)
      <4>1. view = "stopped"
        BY <3>8 DEF StepBack, ReverseContinue, ClientIsStopped
      <4>2. view' \in {view, "stopped"}
        <5>1. CASE RefusedStopped
          BY <5>1 DEF RefusedStopped
        <5>2. CASE \E n \in Nat : n < hist.next /\ Navigates(n)
          BY <2>0, <5>2, NavigatedIs DEF Navigates
        <5> QED BY <2>0, <3>8, <5>1, <5>2, NavigationIs
      <4> QED BY <4>1, <4>2 DEF NeverSilent
    <3>9. CASE \E v \in 0 .. FieldSpan - 1 : SetWorld(v) \/ SetVariable(v)
      BY <2>0, <3>9, EditIs DEF NeverSilent
    <3>10. CASE \E c \in Cpus : \E line \in DOMAIN Programs[c] : Goto(c, line)
      BY <2>0, <3>10, GotoIs DEF NeverSilent
    <3>11. CASE HotReload
      <4>1. UNCHANGED <<running, event>> /\ view' \in {view, "stopped"}
        BY <3>11 DEF HotReload
      <4> QED BY <2>0, <4>1 DEF NeverSilent
    <3>12. ~Navigate
      BY <2>0 DEF Navigate
    <3> QED
      BY <2>2, <3>1, <3>2, <3>3, <3>4, <3>5, <3>6, <3>7, <3>8, <3>9, <3>10, <3>11, <3>12
         DEF Next, Runner, Request, Renewal
  <2> QED BY <1>2, <2>1, <2>2
<1>3. Told => NeverSilent
  OBVIOUS
<1> QED
  BY <1>1, <1>2, <1>3, InvHolds, PTL DEF Spec

-----------------------------------------------------------------------------
(* Breakpoints.                                                            *)

Locations == (Cpus \cup {NoCpu}) \X Nat

\* The requests that may leave the simulator elsewhere without moving the
\* location the next continue skips: they can fail halfway.
FailHalfway == {"stepTick", "stepBack", "reverseContinue", "navigate"}

\* A location names where its CPU stands, unless that CPU runs no more.
StandsAt(location) ==
    location[1] \in Cpus => Dead(sim, location[1]) \/ sim.pc[location[1]] = location[2]

\* The location a continue skips is one where the session stood still and from
\* which its CPU has not moved since.
Stopping ==
    /\ requests \cap FailHalfway = {}
    /\ lastStop \in Locations /\ skip \in Locations
    /\ StandsAt(lastStop)
    /\ ~running => paused = Cpus
    /\ running => /\ lastStop = NoLocation
                  /\ StandsAt(skip)
                  /\ skip[1] \in Cpus => Dead(sim, skip[1]) \/ skip[1] \in paused

LEMMA NoLocationIs == NoLocation \in Locations /\ NoLocation[1] \notin Cpus
BY CpusAre DEF NoLocation, Locations

LEMMA LocationIs ==
    ASSUME NEW s \in Sim, NEW c \in Cpus
    PROVE  /\ LocationOf(s, c) \in Locations
           /\ LocationOf(s, c)[1] \in Cpus => s.pc[LocationOf(s, c)[1]] = LocationOf(s, c)[2]
<1>1. CASE Located(s, c)
  BY <1>1, SimParts DEF LocationOf, Locations
<1>2. CASE ~Located(s, c)
  BY <1>2, NoLocationIs DEF LocationOf
<1> QED
  BY <1>1, <1>2

\* Standing still is kept by a step that moves no CPU and revives none.
LEMMA StandsKept ==
    ASSUME NEW l \in Locations, StandsAt(l), sim'.pc = sim.pc,
           \A c \in Cpus : Dead(sim, c) => Dead(sim', c)
    PROVE  StandsAt(l)'
BY DEF StandsAt

LEMMA StoppingStart ==
    ASSUME \A S \in Sessions : S \cap FailHalfway = {}
    PROVE  Init => Stopping
<1> SUFFICES ASSUME Init PROVE Stopping
  OBVIOUS
<1>1. lastStop \in Locations /\ StandsAt(lastStop)
  BY InitSimIs, FocusIs, LocationIs DEF Init, StandsAt
<1> QED
  BY <1>1, NoLocationIs DEF Init, Stopping

LEMMA StoppingRunner ==
    ASSUME ~DataBreakpoint, Inv, Stopping, Runner, UNCHANGED requests PROVE Stopping'
<1>0. /\ requests' \cap FailHalfway = {} /\ lastStop \in Locations /\ skip \in Locations
      /\ StandsAt(lastStop) /\ sim \in Sim
      /\ running => lastStop = NoLocation
  BY DEF Stopping, Inv
<1>1. CASE RunnerFinished \/ EmitEvent
  <2>1. UNCHANGED <<sim, lastStop, skip>> /\ paused' \in {paused, Cpus}
        /\ running' \in {running, FALSE}
    BY <1>1 DEF RunnerFinished, EmitEvent
  <2>2. (RunnerFinished => running' = FALSE /\ paused' = Cpus)
        /\ (EmitEvent => UNCHANGED <<running, paused>>)
    BY DEF RunnerFinished, EmitEvent
  <2> QED BY <1>0, <1>1, <2>1, <2>2 DEF Stopping, StandsAt
<1>2. CASE RunnerTickOver
  <2>1. running /\ sim' = RunnerTarget.sim /\ UNCHANGED <<running, lastStop, skip, paused>>
    BY <1>2 DEF RunnerTickOver, RunnerTurn
  <2>2. sim'.pc = sim.pc /\ \A c \in Cpus : Dead(sim, c) => Dead(sim', c)
    BY <2>1, TargetIs
  <2> QED BY <1>0, <2>1, <2>2 DEF Stopping, StandsAt
<1>3. CASE RunnerBreak
  <2> DEFINE c == RunnerTarget.cpu
  <2>1. /\ c \in Cpus /\ sim' = RunnerTarget.sim /\ running' = FALSE
        /\ lastStop' = <<c, sim.pc[c]>> /\ paused' = Cpus /\ skip' = skip
    BY <1>3, RunnerBreakIs
  <2>2. sim'.pc = sim.pc
    BY <2>1, TargetIs
  <2> HIDE DEF c
  <2>3. lastStop' \in Locations /\ StandsAt(lastStop)'
    BY <1>0, <2>1, <2>2, SimParts DEF Locations, StandsAt
  <2> QED BY <1>0, <2>1, <2>3 DEF Stopping
<1>4. CASE RunnerStep
  <2> DEFINE c == RunnerTarget.cpu
             at == <<c, sim.pc[c]>>
  <2>1. /\ running /\ c # NoCpu /\ sim' = Stepped.sim /\ running' \in BOOLEAN
        /\ running' => lastStop' = lastStop /\ paused' = paused \ {c} /\ ~Stepped.failed
        /\ ~running' => lastStop' = at /\ paused' = Cpus /\ Dead(sim', c)
        /\ skip' = SkipAfter(at)
    BY <1>4, RunnerStepIs
  <2>2. /\ c \in Cpus
        /\ \A d \in Cpus \ {c} : sim'.pc[d] = sim.pc[d] /\ (Dead(sim, d) => Dead(sim', d))
        /\ Dead(sim, c) => Stepped.failed
    BY <2>1, SteppedIs
  <2>3. at \in Locations /\ sim.pc[c] \in Nat
    BY <1>0, <2>2, SimParts DEF Locations
  <2>4. skip' \in Locations /\ skip' \in {skip, NoLocation}
    BY <1>0, <2>1, NoLocationIs DEF SkipAfter
  <2>5. CASE ~running'
    <3>1. StandsAt(lastStop)'
      BY <2>1, <2>5 DEF StandsAt
    <3> QED BY <1>0, <2>1, <2>3, <2>4, <2>5, <3>1 DEF Stopping
  <2>6. CASE running'
    <3>1. lastStop' = NoLocation /\ StandsAt(lastStop)'
      BY <1>0, <2>1, <2>6, NoLocationIs DEF StandsAt
    <3>2. StandsAt(skip)' /\ (skip'[1] \in Cpus => Dead(sim', skip'[1]) \/ skip'[1] \in paused')
      <4>1. CASE skip' = NoLocation
        BY <4>1, NoLocationIs DEF StandsAt
      <4>2. CASE skip' # NoLocation
        <5>1. skip' = skip /\ at # skip
          BY <2>1, <4>2 DEF SkipAfter
        <5>2. skip[1] = c => Dead(sim, c) \/ sim.pc[c] = skip[2]
          BY <2>1, <2>2 DEF Stopping, StandsAt
        <5>3. skip = <<skip[1], skip[2]>>
          BY <1>0 DEF Locations
        <5>4. skip[1] # c
          BY <2>1, <2>2, <2>6, <5>1, <5>2, <5>3
        <5>5. skip[1] \in Cpus =>
                 /\ Dead(sim, skip[1]) \/ (sim.pc[skip[1]] = skip[2] /\ skip[1] \in paused)
                 /\ skip[1] \in Cpus \ {c}
          BY <2>1, <5>4 DEF Stopping, StandsAt
        <5> QED BY <2>1, <2>2, <2>6, <5>1, <5>4, <5>5 DEF StandsAt
      <4> QED BY <4>1, <4>2
    <3> QED BY <1>0, <2>4, <2>6, <3>1, <3>2, NoLocationIs DEF Stopping
  <2> QED BY <2>5, <2>6
<1> QED
  BY <1>1, <1>2, <1>3, <1>4 DEF Runner

LEMMA StoppingRequest ==
    ASSUME Inv, Stopping, Request \/ Renewal, UNCHANGED requests PROVE Stopping'
<1>0. /\ requests' \cap FailHalfway = {} /\ lastStop \in Locations /\ skip \in Locations
      /\ StandsAt(lastStop) /\ sim \in Sim /\ NoLocation \in Locations
  BY NoLocationIs DEF Stopping, Inv
<1>1. ASSUME NEW t \in Cpus \cup {NoCpu}, Continue(t) PROVE Stopping'
  <2>1. /\ skip' = lastStop /\ lastStop' = NoLocation /\ running' = TRUE
        /\ UNCHANGED <<sim, paused>>
    BY <1>1 DEF Continue
  <2>2. CASE running
    BY <1>0, <2>1, <2>2, NoLocationIs DEF Stopping, StandsAt
  <2>3. CASE ~running
    BY <1>0, <2>1, <2>3, NoLocationIs DEF Stopping, StandsAt
  <2> QED BY <2>2, <2>3
<1>2. CASE Pause
  <2>1. running' = FALSE /\ paused' = Cpus /\ UNCHANGED <<sim, lastStop, skip>>
    BY <1>2 DEF Pause, Stops
  <2> QED BY <1>0, <2>1 DEF Stopping, StandsAt
<1>3. ASSUME NEW c \in Cpus, StepIn(c) PROVE Stopping'
  <2>1. /\ running' = FALSE /\ paused' = Cpus /\ skip' = skip
        /\ lastStop' = LocationOf(sim', c)
    BY <1>3 DEF StepIn, Stops
  <2>2. sim' \in Sim
    BY <1>3, StepInIs
  <2>3. lastStop' \in Locations /\ StandsAt(lastStop)'
    BY <2>1, <2>2, LocationIs DEF StandsAt
  <2> QED BY <1>0, <2>1, <2>3 DEF Stopping
<1>4. ASSUME NEW v \in 0 .. FieldSpan - 1, SetWorld(v) \/ SetVariable(v) PROVE Stopping'
  <2>1. UNCHANGED <<running, lastStop, skip, paused>>
    BY <1>4, EditIs
  <2>2. sim' \in {sim, [sim EXCEPT !.field = v]}
    BY <1>4, EditIs
  <2>3. sim'.pc = sim.pc /\ sim'.run = sim.run
    BY <1>0, <2>2 DEF Sim
  <2>4. \A c \in Cpus : Dead(sim', c) <=> Dead(sim, c)
    BY <2>3 DEF Dead
  <2> QED BY <1>0, <2>1, <2>3, <2>4 DEF Stopping, StandsAt
<1>5. ASSUME NEW c \in Cpus, NEW line \in DOMAIN Programs[c], Goto(c, line) PROVE Stopping'
  <2>1. UNCHANGED <<running, skip, paused>>
    BY <1>5 DEF Goto
  <2>2. CASE running
    <3>1. UNCHANGED <<sim, lastStop>>
      BY <1>5, <2>2 DEF Goto
    <3> QED BY <1>0, <2>1, <3>1 DEF Stopping, StandsAt
  <2>3. CASE ~running
    <3>1. sim' = [sim EXCEPT !.pc[c] = line] /\ lastStop' = <<c, line>>
      BY <1>5, <2>3 DEF Goto
    <3>2. sim'.pc[c] = line
      BY <1>0, <3>1 DEF Sim
    <3>3. line \in Nat
      BY CpusAre
    <3>4. lastStop' \in Locations /\ StandsAt(lastStop)'
      BY <3>1, <3>2, <3>3 DEF Locations, StandsAt
    <3> QED BY <1>0, <2>1, <2>3, <3>4 DEF Stopping
  <2> QED BY <2>2, <2>3
<1>6. CASE HotReload
  <2>1. UNCHANGED <<sim, running, skip, paused>>
    BY <1>6 DEF HotReload
  <2>2. \/ lastStop' = lastStop
        \/ ~running /\ lastStop' = LocationOf(sim, focus)
    BY <1>6 DEF HotReload
  <2>3. CASE lastStop' = lastStop
    BY <1>0, <2>1, <2>3 DEF Stopping, StandsAt
  <2>4. CASE ~running /\ lastStop' = LocationOf(sim, focus)
    <3>0. focus \in Cpus
      BY InvFlags DEF Flags
    <3>1. lastStop' \in Locations /\ StandsAt(lastStop)'
      BY <1>0, <2>1, <2>4, <3>0, LocationIs DEF StandsAt
    <3> QED BY <1>0, <2>1, <2>4, <3>1 DEF Stopping
  <2> QED BY <2>2, <2>3, <2>4
<1>7. CASE Restart
  <2>1. /\ sim' = InitSim /\ running' = FALSE /\ paused' = Cpus /\ skip' = NoLocation
        /\ lastStop' = LocationOf(sim', FocusThread)
    BY <1>7 DEF Restart, Stops
  <2>2. lastStop' \in Locations /\ StandsAt(lastStop)'
    BY <2>1, InitSimIs, FocusIs, LocationIs DEF StandsAt
  <2> QED BY <1>0, <2>1, <2>2 DEF Stopping
<1>8. ~StepTick /\ ~Navigate /\ \A c \in Cpus : ~StepBack(c) /\ ~ReverseContinue(c)
  BY DEF Stopping, FailHalfway, StepTick, Navigate, StepBack, ReverseContinue
<1> QED
  BY <1>1, <1>2, <1>3, <1>4, <1>5, <1>6, <1>7, <1>8 DEF Request, Renewal

\* last_stop and skip_breakpoint_once: without a data breakpoint, which stops
\* the session behind an instruction, and without the requests that can fail
\* halfway, the runner executes an instruction that has a breakpoint only when
\* the session has stood still before it; for any programs and any breakpoints.
THEOREM NoBreakpointIsRunOver ==
    ASSUME ~DataBreakpoint, \A S \in Sessions : S \cap FailHalfway = {}
    PROVE  Spec => BreakpointsHonoured
<1> DEFINE Honoured == running /\ reply' = "none" =>
              \A c \in Cpus :
                 sim'.ops[c] > sim.ops[c] /\ <<c, sim.pc[c]>> \in Breakpoints => c \in paused
<1>1. Init => Stopping
  BY StoppingStart
<1>2. Inv /\ Stopping /\ [Next]_vars => Stopping'
  <2> SUFFICES ASSUME Inv, Stopping, [Next]_vars PROVE Stopping'
    OBVIOUS
  <2>1. CASE UNCHANGED vars
    BY <2>1 DEF vars, Stopping, StandsAt
  <2>2. CASE Next
    BY <2>2, StoppingRunner, StoppingRequest DEF Next
  <2> QED BY <2>1, <2>2
<1>3. ASSUME Inv, Stopping, [Next]_vars PROVE [Honoured]_vars
  <2> SUFFICES ASSUME Next, running, reply' = "none", NEW c \in Cpus,
                      sim'.ops[c] > sim.ops[c], <<c, sim.pc[c]>> \in Breakpoints
               PROVE  c \in paused
    BY <1>3
  <2>0. Inv /\ Stopping /\ sim \in Sim
    BY <1>3 DEF Inv
  <2>1. sim.ops[c] \in Nat /\ ~ (sim.ops[c] > sim.ops[c])
    BY <2>0, SimParts
  <2>2. ~Request /\ ~Renewal
    <3>1. ~ \E t \in Cpus \cup {NoCpu} : Continue(t)
      BY DEF Continue
    <3>2. ~Pause /\ ~StepTick /\ ~HotReload /\ ~Restart
      BY DEF Pause, StepTick, HotReload, Restart
    <3>3. \A d \in Cpus : ~StepIn(d)
      BY DEF StepIn
    <3>4. ~Navigate /\ \A d \in Cpus : ~StepBack(d) /\ ~ReverseContinue(d)
      BY <2>0 DEF Stopping, FailHalfway, Navigate, StepBack, ReverseContinue
    <3>5. \A v \in 0 .. FieldSpan - 1 : ~SetWorld(v) /\ ~SetVariable(v)
      BY DEF SetWorld, SetVariable
    <3>6. \A d \in Cpus : \A line \in DOMAIN Programs[d] : ~Goto(d, line)
      BY DEF Goto
    <3> QED BY <3>1, <3>2, <3>3, <3>4, <3>5, <3>6 DEF Request, Renewal
  <2>3. ~RunnerFinished /\ ~EmitEvent
    BY <2>1 DEF RunnerFinished, EmitEvent
  <2>4. ~RunnerTickOver /\ ~RunnerBreak
    <3>1. RunnerTarget.sim.ops[c] <= sim.ops[c] /\ RunnerTarget.sim.ops[c] \in Nat
      BY <2>0, TargetIs, SimParts
    <3>2. ~ (RunnerTarget.sim.ops[c] > sim.ops[c])
      BY <2>1, <3>1
    <3>3. RunnerTickOver \/ RunnerBreak => sim' = RunnerTarget.sim
      BY <2>0, RunnerBreakIs DEF RunnerTickOver
    <3> QED BY <3>2, <3>3
  <2>5. RunnerStep
    BY <2>2, <2>3, <2>4 DEF Next, Runner
  <2>6. /\ RunnerTarget.cpu # NoCpu /\ sim' = Stepped.sim
        /\ LET d == RunnerTarget.cpu
           IN  <<d, sim.pc[d]>> \notin Breakpoints \/ <<d, sim.pc[d]>> = skip
    BY <2>0, <2>5, RunnerStepIs
  <2>7. c = RunnerTarget.cpu
    BY <2>0, <2>1, <2>6, SteppedIs
  <2>8. ~Dead(sim, c)
    BY <2>0, <2>1, <2>6, <2>7, SteppedIs
  <2>9. skip = <<c, sim.pc[c]>>
    BY <2>6, <2>7
  <2>10. skip[1] = c
    BY <2>9
  <2> QED BY <2>0, <2>8, <2>10 DEF Stopping
<1> QED
  BY <1>1, <1>2, <1>3, InvHolds, PTL DEF Spec, BreakpointsHonoured

-----------------------------------------------------------------------------
(* Links: every record can be replayed from the event before it.           *)

\* Record r replayed from state s verifies.
Follows(r, s) == Replayed(r, s) = Standing(r.hash, {})

\* Every record but an external change follows from the event before it,
\* whether that one is a record or a checkpoint.
Linked(h) ==
    \A r \in h.records : r.action # "External" =>
        /\ \A q \in h.records : q.sequence + 1 = r.sequence => Follows(r, q.hash)
        /\ \A k \in h.checkpoints : k.sequence + 1 = r.sequence => Follows(r, k.snapshot)

\* The states a history has for its cursor.
StatesAt(h) == {r.hash : r \in {q \in h.records : q.sequence = h.cursor}}
               \cup {k.snapshot : k \in {j \in h.checkpoints : j.sequence = h.cursor}}

\* An event recorded in state s after state x can be replayed from x.
Retraces(x, s, cpu, line, action, effects, failed) ==
    \A e \in Event : /\ e.tick = s.tick /\ e.cpu = cpu /\ e.line = line
                     /\ e.action = action /\ e.effects = effects
                     /\ e.failed = failed /\ e.hash = s
                     => Follows(e, x)

\* What a cut in state s makes of a history: fewer records, and a new checkpoint
\* only when no record is left.
CutTo(h, g, s) ==
    /\ g.cursor = h.cursor /\ g.records \subseteq h.records
    /\ \/ g.checkpoints \subseteq h.checkpoints
       \/ g.records = {} /\ g.checkpoints \subseteq h.checkpoints \cup {Checkpoint(h.cursor, s)}

\* A cut keeps the links between what is left.
LEMMA CutLinks ==
    ASSUME NEW h, NEW g, NEW s, CutTo(h, g, s), Linked(h), StatesAt(h) \subseteq {s}
    PROVE  Linked(g) /\ StatesAt(g) \subseteq {s}
<1>1. Linked(g)
  <2>1. CASE g.records = {}
    BY <2>1 DEF Linked
  <2>2. CASE g.records \subseteq h.records /\ g.checkpoints \subseteq h.checkpoints
    BY <2>2 DEF Linked
  <2> QED BY <2>1, <2>2 DEF CutTo
<1>2. ASSUME NEW r \in g.records, r.sequence = g.cursor PROVE r.hash = s
  BY <1>2 DEF CutTo, StatesAt
<1>3. ASSUME NEW k \in g.checkpoints, k.sequence = g.cursor PROVE k.snapshot = s
  <2>1. k \in h.checkpoints \/ k = Checkpoint(h.cursor, s)
    BY DEF CutTo
  <2>2. Checkpoint(h.cursor, s).snapshot = s
    BY DEF Checkpoint
  <2>3. k \in h.checkpoints => k.snapshot \in StatesAt(h)
    BY <1>3 DEF CutTo, StatesAt
  <2> QED BY <2>1, <2>2, <2>3
<1> QED
  BY <1>1, <1>2, <1>3 DEF StatesAt

\* drop_through removes only.
LEMMA DropThroughCuts ==
    ASSUME NEW h \in History, NEW n
    PROVE  /\ DropThrough(h, n).records = {r \in h.records : r.sequence > n}
           /\ DropThrough(h, n).checkpoints \subseteq h.checkpoints
           /\ DropThrough(h, n).cursor = h.cursor
BY DEF DropThrough, History

\* The event ring is cut, or left alone.
LEMMA EvictedCuts ==
    ASSUME NEW h, NEW b, Tip(h, b), NEW s \in Sim
    PROVE  CutTo(h, Evicted(h, s), s)
<1> DEFINE baselines == {n \in LaterCheckpoints(h) : n >= DesiredFirst(h)}
           g == [h EXCEPT !.checkpoints = @ \cup {Checkpoint(h.cursor, s)}]
<1>1. /\ h \in History /\ h.cursor \in Nat /\ h.next \in Nat /\ h.cursor = h.next - 1
      /\ \A r \in h.records : r.sequence \in (b + 1) .. (h.next - 1)
      /\ b \in Nat /\ h.checkpoints \subseteq Anchor
  BY RingParts DEF Tip
<1>2. CutTo(h, h, s)
  BY DEF CutTo
<1>3. \A n : CutTo(h, DropThrough(h, n), s)
  BY <1>1, DropThroughCuts DEF CutTo
<1>4. CutTo(h, DropThrough(g, h.cursor), s)
  <2>1. Checkpoint(h.cursor, s) \in Anchor
    BY <1>1 DEF Checkpoint, Anchor
  <2>2. /\ g \in History /\ g.records = h.records /\ g.cursor = h.cursor
        /\ g.checkpoints = h.checkpoints \cup {Checkpoint(h.cursor, s)}
    BY <1>1, <2>1 DEF History
  <2> HIDE DEF g
  <2>3. {r \in g.records : r.sequence > h.cursor} = {}
    BY <1>1, <2>2
  <2> QED BY <2>2, <2>3, DropThroughCuts DEF CutTo
<1>5. \/ Evicted(h, s) = h
      \/ \E n : Evicted(h, s) = DropThrough(h, n)
      \/ Evicted(h, s) = DropThrough(g, h.cursor)
  BY Zenon DEF Evicted
<1> HIDE DEF g
<1> QED
  BY <1>2, <1>3, <1>4, <1>5

\* The memory ceiling likewise.
LEMMA TrimmedCuts ==
    ASSUME NEW h \in History, NEW s
    PROVE  CutTo(h, Trimmed(h, s), s)
<1> DEFINE g == [h EXCEPT !.records = {}, !.checkpoints = {Checkpoint(h.cursor, s)}]
<1>1. CutTo(h, h, s)
  BY DEF CutTo
<1>2. \A n : CutTo(h, DropThrough(h, n), s)
  BY DropThroughCuts DEF CutTo
<1>3. CutTo(h, g, s)
  <2>1. g.records = {} /\ g.checkpoints = {Checkpoint(h.cursor, s)} /\ g.cursor = h.cursor
    BY DEF History
  <2> HIDE DEF g
  <2> QED BY <2>1 DEF CutTo
<1>4. Trimmed(h, s) = h \/ (\E n : Trimmed(h, s) = DropThrough(h, n)) \/ Trimmed(h, s) = g
  BY Zenon DEF Trimmed
<1> HIDE DEF g
<1> QED
  BY <1>1, <1>2, <1>3, <1>4

\* Forgetting the future keeps the past linked and its state.
LEMMA RebranchedLinks ==
    ASSUME NEW h \in History, Linked(h)
    PROVE  Linked(Rebranched(h)) /\ StatesAt(Rebranched(h)) \subseteq StatesAt(h)
<1> DEFINE g == Rebranched(h)
<1>1. g.records \subseteq h.records /\ g.checkpoints \subseteq h.checkpoints /\ g.cursor = h.cursor
  BY DEF Rebranched, History
<1> HIDE DEF g
<1>2. Linked(g) /\ StatesAt(g) \subseteq StatesAt(h)
  BY <1>1 DEF Linked, StatesAt
<1> QED
  BY <1>2 DEF g

\* A new event links to the state at the cursor.
LEMMA AppendedLinks ==
    ASSUME NEW h, NEW b, Tip(h, b), Linked(h),
           NEW s \in Sim, NEW cpu \in Cpus, NEW line \in Nat,
           NEW action \in Actions, NEW effects \in Batches, NEW failed \in BOOLEAN,
           \/ action = "External"
           \/ \A x \in StatesAt(h) : Retraces(x, s, cpu, line, action, effects, failed)
    PROVE  LET g == Appended(h, s, cpu, line, action, effects, failed)
           IN  Linked(g) /\ StatesAt(g) \subseteq {s}
<1> DEFINE g == Appended(h, s, cpu, line, action, effects, failed)
           L == IsLandmark(h, s, cpu, line, action)
           e == [sequence |-> h.next, tick |-> s.tick, cpu |-> cpu, line |-> line,
                 action |-> action, effects |-> effects, failed |-> failed, hash |-> s,
                 landmark |-> L]
           c == Checkpoint(h.next, s)
<1>1. /\ b \in Nat /\ h.next \in Nat /\ h.cursor = h.next - 1
      /\ \A r \in h.records : r.sequence \in Nat /\ r.sequence < h.next
      /\ \A k \in h.checkpoints : k.sequence \in Nat /\ k.sequence < h.next
  <2>1. Ring(h, b) /\ h.cursor = h.next - 1
    BY DEF Tip
  <2>2. b \in Nat /\ h.next \in Nat
    BY <2>1, RingParts DEF Ring
  <2>3. ASSUME NEW r \in h.records PROVE r.sequence \in Nat /\ r.sequence < h.next
    BY ONLY <2>1, <2>2, RingParts, r \in h.records
  <2>4. ASSUME NEW k \in h.checkpoints PROVE k.sequence \in Nat /\ k.sequence < h.next
    BY ONLY <2>1, <2>2, k \in h.checkpoints DEF Ring
  <2> QED BY <2>1, <2>2, <2>3, <2>4
<1>2. L \in BOOLEAN
  BY DEF IsLandmark
<1>3. /\ e \in Event /\ e.sequence = h.next /\ e.hash = s /\ e.action = action
      /\ e.tick = s.tick /\ e.cpu = cpu /\ e.line = line /\ e.effects = effects
      /\ e.failed = failed
  <2> HIDE DEF L
  <2> QED BY <1>1, <1>2, SimParts DEF Event
<1>4. c.sequence = h.next /\ c.snapshot = s
  BY DEF Checkpoint
<1>5. /\ g.records = h.records \cup {e} /\ g.cursor = h.next
      /\ g.checkpoints \subseteq h.checkpoints \cup {c}
  BY DEF Appended
<1> HIDE DEF g, e, c, L
<1>6. action # "External" => \A x \in StatesAt(h) : Follows(e, x)
  BY <1>3 DEF Retraces
<1>7. Linked(g)
  <2> SUFFICES ASSUME NEW r \in g.records, r.action # "External"
               PROVE  /\ \A q \in g.records : q.sequence + 1 = r.sequence => Follows(r, q.hash)
                      /\ \A k \in g.checkpoints : k.sequence + 1 = r.sequence
                            => Follows(r, k.snapshot)
    BY DEF Linked
  <2>1. CASE r = e
    <3>1. ASSUME NEW q \in g.records, q.sequence + 1 = r.sequence PROVE Follows(r, q.hash)
      <4>1. q \in h.records /\ q.sequence = h.cursor
        BY <1>1, <1>3, <1>5, <2>1, <3>1
      <4>2. q.hash \in StatesAt(h)
        BY <4>1 DEF StatesAt
      <4> QED BY <1>3, <1>6, <2>1, <4>2
    <3>2. ASSUME NEW k \in g.checkpoints, k.sequence + 1 = r.sequence
          PROVE  Follows(r, k.snapshot)
      <4>1. k \in h.checkpoints /\ k.sequence = h.cursor
        BY <1>1, <1>3, <1>4, <1>5, <2>1, <3>2
      <4>2. k.snapshot \in StatesAt(h)
        BY <4>1 DEF StatesAt
      <4> QED BY <1>3, <1>6, <2>1, <4>2
    <3> QED BY <3>1, <3>2
  <2>2. CASE r # e
    <3>1. r \in h.records /\ r.sequence < h.next /\ r.sequence \in Nat
      BY <1>1, <1>5, <2>2
    <3>2. \A q \in g.records : q.sequence + 1 = r.sequence => q \in h.records
      BY <1>1, <1>3, <1>5, <3>1
    <3>3. \A k \in g.checkpoints : k.sequence + 1 = r.sequence => k \in h.checkpoints
      BY <1>1, <1>4, <1>5, <3>1
    <3> QED BY <3>1, <3>2, <3>3 DEF Linked
  <2> QED BY <2>1, <2>2
<1>8. ASSUME NEW r \in g.records, r.sequence = g.cursor PROVE r.hash = s
  BY <1>1, <1>3, <1>5, <1>8
<1>9. ASSUME NEW k \in g.checkpoints, k.sequence = g.cursor PROVE k.snapshot = s
  BY <1>1, <1>4, <1>5, <1>9
<1> QED
  BY <1>7, <1>8, <1>9 DEF StatesAt, g

\* record keeps the links, when the new event follows from the state the session
\* was in, and then has its own state for the cursor.
LEMMA RecordLinks ==
    ASSUME NEW h, Sound(h), Linked(h),
           NEW s \in Sim, NEW cpu \in Cpus, NEW line \in Nat,
           NEW action \in Actions, NEW effects \in Batches, NEW failed \in BOOLEAN,
           \/ action = "External"
           \/ \A x \in StatesAt(h) : Retraces(x, s, cpu, line, action, effects, failed)
    PROVE  LET g == Record(h, s, cpu, line, action, effects, failed)
           IN  Linked(g) /\ StatesAt(g) \subseteq {s}
<1>1. PICK b : Ring(h, b)
  BY DEF Sound
<1> DEFINE r == Rebranched(h)
           u == Appended(r, s, cpu, line, action, effects, failed)
           v == Evicted(u, s)
           g == Trimmed(v, s)
<1>2. Tip(r, b)
  BY <1>1, RebranchedIs
<1>3. Linked(r) /\ StatesAt(r) \subseteq StatesAt(h)
  BY <1>1, RebranchedLinks DEF Ring
<1>4. Record(h, s, cpu, line, action, effects, failed) = g
  BY DEF Record
<1> HIDE DEF r
<1>5. \/ action = "External"
      \/ \A x \in StatesAt(r) : Retraces(x, s, cpu, line, action, effects, failed)
  BY <1>3
<1>6. Tip(u, b)
  BY <1>2, AppendedIs
<1>7. Linked(u) /\ StatesAt(u) \subseteq {s}
  <2> HIDE DEF u
  <2> QED BY <1>2, <1>3, <1>5, AppendedLinks DEF u
<1> HIDE DEF u
<1>8. Linked(v) /\ StatesAt(v) \subseteq {s}
  BY <1>6, <1>7, EvictedCuts, CutLinks
<1>9. v \in History
  BY <1>6, EvictedIs DEF Tip, Ring
<1> HIDE DEF v
<1>10. Linked(g) /\ StatesAt(g) \subseteq {s}
  BY <1>8, <1>9, TrimmedCuts, CutLinks
<1> QED
  BY <1>4, <1>10

\* checkpoint_current puts the same checkpoint in its place.
LEMMA CheckpointCurrentLinks ==
    ASSUME NEW h, Sound(h), NEW s \in Sim, Linked(h), StatesAt(h) \subseteq {s}, Marked(h)
    PROVE  LET g == CheckpointCurrent(h, s)
           IN  Linked(g) /\ StatesAt(g) \subseteq {s}
<1> DEFINE g == CheckpointCurrent(h, s)
<1>1. h \in History /\ h.checkpoints \subseteq Anchor
  BY RingParts DEF Sound
<1>2. PICK k \in h.checkpoints : k.sequence = h.cursor
  BY DEF Marked, Sequences
<1>3. k.snapshot = s
  BY <1>2 DEF StatesAt
<1>4. k = Checkpoint(h.cursor, s)
  BY <1>1, <1>2, <1>3 DEF Anchor, Checkpoint
<1>5. /\ g.records = h.records /\ g.cursor = h.cursor
      /\ g.checkpoints = {j \in h.checkpoints : j.sequence # h.cursor} \cup {k}
  BY <1>1, <1>4 DEF CheckpointCurrent, History
<1> HIDE DEF g
<1>6. CutTo(h, g, s)
  BY <1>5 DEF CutTo
<1>7. Linked(g) /\ StatesAt(g) \subseteq {s}
  BY <1>6, CutLinks
<1> QED
  BY <1>7 DEF g

\* A new history has one state and no records.
LEMMA NewHistoryLinks ==
    ASSUME NEW s
    PROVE  Linked(NewHistory(s)) /\ StatesAt(NewHistory(s)) \subseteq {s}
BY DEF NewHistory, Linked, StatesAt, Checkpoint

-----------------------------------------------------------------------------
(* Restore reaches every event of a linked history.                        *)

\* No checkpoint is left before the oldest.
LEMMA RestoreRefused ==
    ASSUME NEW h, NEW b, Ring(h, b), NEW s, NEW w, NEW target \in Nat, target < b
    PROVE  Restore(h, s, w, target) = Diverged(s, w)
<1>1. Retained(h, target) = {}
  BY RingParts DEF Retained, Ring
<1> QED
  BY <1>1, Zenon DEF Restore

\* In a linked ring every event from the oldest checkpoint on is reached: an
\* external change is never replayed, because it has a checkpoint of its own.
LEMMA RestoreReaches ==
    ASSUME NEW h, NEW b, Ring(h, b), Linked(h), NEW s \in Sim, NEW w \in Batches,
           NEW target \in b .. (h.next - 1)
    PROVE  Restore(h, s, w, target).ok /\ Restore(h, s, w, target).writes = {}
<1>1. /\ h \in History /\ b \in Nat /\ h.next \in Nat /\ target \in Nat /\ Coherent(h)
      /\ h.records \subseteq Event /\ h.checkpoints \subseteq Anchor
      /\ \A r \in h.records : r.sequence \in Nat
      /\ \A k \in h.checkpoints : k.sequence \in b .. (h.next - 1)
      /\ \A n \in (b + 1) .. (h.next - 1) : \E r \in h.records : r.sequence = n
      /\ \A r \in h.records :
            r.action = "External" => \E k \in h.checkpoints : k.sequence = r.sequence
  BY RingParts DEF Ring
<1>2. Retained(h, target) # {}
  <2>1. PICK k \in h.checkpoints : k.sequence = b
    BY RingParts
  <2> QED BY <1>1, <2>1 DEF Retained
<1>base. PICK base \in h.checkpoints :
         \E after : Replays(h, target, base, after) /\ Restore(h, s, w, target) = after[target]
  BY <1>1, <1>2, RestoreSteps
<1>3. PICK after : Replays(h, target, base, after) /\ Restore(h, s, w, target) = after[target]
  BY <1>base
<1> DEFINE lo == base.sequence
<1>4. lo \in Nat /\ lo \in b .. (h.next - 1)
  BY <1>1
<1>5. /\ lo <= target /\ after \in [lo .. target -> Outcome]
      /\ \A k \in h.checkpoints : k.sequence <= target => k.sequence <= lo
      /\ after[lo] = Standing(base.snapshot, {})
      /\ \A n \in lo + 1 .. target :
            after[n] = IF ~after[n - 1].ok \/ {r \in h.records : r.sequence = n} = {}
                       THEN after[n - 1]
                       ELSE Replayed(CHOOSE r \in {q \in h.records : q.sequence = n} : TRUE,
                                     after[n - 1].sim)
      /\ Restore(h, s, w, target) = after[target]
  BY <1>3 DEF Replays
<1> HIDE DEF lo
<1> DEFINE Shown(n, o) == /\ o.ok /\ o.writes = {}
                          /\ n = lo => o.sim = base.snapshot
                          /\ n # lo => \E r \in h.records : r.sequence = n /\ o.sim = r.hash
           S == {p \in (lo .. target) \X Outcome : Shown(p[1], p[2])}
           f == [n \in lo .. target |-> <<n, after[n]>>]
<1>6. f[lo] \in S
  <2>0. lo <= target /\ after \in [lo .. target -> Outcome] /\ lo \in Nat /\ target \in Nat
    BY <1>1, <1>4, <1>5
  <2>1. lo \in lo .. target /\ after[lo] \in Outcome
    BY ONLY <2>0
  <2>2. after[lo] = Standing(base.snapshot, {})
    BY <1>5
  <2>3. Shown(lo, after[lo])
    BY ONLY <2>2 DEF Standing
  <2> HIDE DEF Shown
  <2> QED BY <2>1, <2>3
<1>7. ASSUME NEW n \in lo + 1 .. target, f[n - 1] \in S PROVE f[n] \in S
  <2>1. n \in lo .. target /\ n - 1 \in lo .. target /\ n # lo /\ n \in (b + 1) .. (h.next - 1) /\ n \in Nat
    BY <1>1, <1>4
  <2>2. Shown(n - 1, after[n - 1])
    <3> HIDE DEF Shown
    <3> QED BY <1>7, <2>1
  <2>3. PICK r \in h.records : r.sequence = n
    BY <1>1, <2>1
  <2>4. {q \in h.records : q.sequence = n} = {r}
    BY <1>1, <2>3 DEF Coherent
  <2>5. (CHOOSE q \in {q \in h.records : q.sequence = n} : TRUE) = r
    BY <2>4
  <2>6. after[n] = Replayed(r, after[n - 1].sim)
    BY <1>5, <2>2, <2>4, <2>5
  <2>7. r.action # "External"
    <3>1. \A k \in h.checkpoints : k.sequence # n
      BY <1>1, <1>4, <1>5, <2>1
    <3> QED BY <1>1, <2>3, <3>1
  <2>8. Follows(r, after[n - 1].sim)
    <3>1. CASE n - 1 = lo
      <4>1. after[n - 1].sim = base.snapshot /\ base.sequence + 1 = r.sequence
        BY <2>1, <2>2, <2>3, <3>1, <1>4 DEF lo
      <4> QED BY <2>7, <4>1 DEF Linked
    <3>2. CASE n - 1 # lo
      <4>1. PICK q \in h.records : q.sequence = n - 1 /\ after[n - 1].sim = q.hash
        BY <2>2, <3>2
      <4>2. q.sequence + 1 = r.sequence
        BY <2>1, <2>3, <4>1
      <4> QED BY <2>7, <4>1, <4>2 DEF Linked
    <3> QED BY <3>1, <3>2
  <2>9. after[n] = Standing(r.hash, {})
    BY <2>6, <2>8 DEF Follows
  <2>10. n # lo
    BY <2>1
  <2>11. Shown(n, after[n])
    BY ONLY <2>3, <2>9, <2>10 DEF Standing
  <2>12. after[n] \in Outcome
    BY <2>1, <1>5
  <2> HIDE DEF Shown
  <2> QED BY <2>1, <2>11, <2>12
<1>8. f[target] \in S
  <2> HIDE DEF f, S
  <2>1. \A n \in lo .. target : f[n] \in S
    BY <1>1, <1>4, <1>6, <1>7, PassedOn
  <2> QED BY <1>1, <1>4, <1>5, <2>1
<1>9. Shown(target, after[target])
  <2>1. target \in lo .. target
    BY <1>1, <1>4, <1>5
  <2> HIDE DEF Shown
  <2> QED BY <1>8, <2>1
<1> QED
  BY <1>5, <1>9

\* So every retained event is shown as it was recorded.
LEMMA LinkedIsReachable ==
    ASSUME NEW h, NEW b, Ring(h, b), Linked(h)
    PROVE  Reachable(h)
<1> SUFFICES ASSUME NEW r \in h.records
             PROVE  Restore(h, InitSim, {}, r.sequence) = Standing(r.hash, {})
  BY DEF Reachable
<1>1. r.sequence \in b .. (h.next - 1) /\ r.sequence \in Nat /\ h \in History /\ Coherent(h)
  BY RingParts DEF Ring
<1> DEFINE x == Restore(h, InitSim, {}, r.sequence)
<1>2. x.ok /\ x.writes = {}
  BY <1>1, InitSimIs, BatchesAre, RestoreReaches
<1>3. x \in Outcome /\ (x.ok => \A q \in h.records : q.sequence = r.sequence => x.sim = q.hash)
  <2> HIDE DEF x
  <2> QED BY <1>1, InitSimIs, BatchesAre, RestoreIs DEF x
<1> HIDE DEF x
<1>4. x = Standing(r.hash, {})
  BY <1>2, <1>3 DEF Outcome, Standing
<1> QED BY <1>4 DEF x

-----------------------------------------------------------------------------
(* Peeks.                                                                  *)

\* What a peek that ends the tick makes of the simulator and the journal.
Ended(o) == Standing(Prepare(o.sim).sim, o.writes \cup Wrote(o.sim, Prepare(o.sim).sim))

\* s with an empty journal becomes x with the writes w by peeks alone, each of
\* which ends a tick: what there is at the start of each tick from s to x.
PeekedBy(f, s, x, w) ==
    /\ f \in [s.tick .. x.tick -> Outcome]
    /\ s.tick <= x.tick /\ f[s.tick] = Standing(s, {}) /\ f[x.tick] = Standing(x, w)
    /\ \A n \in s.tick .. x.tick : f[n].ok /\ f[n].sim.tick = n
    /\ \A n \in s.tick .. x.tick :
          n < x.tick => Prepare(f[n].sim).cpu = NoCpu /\ f[n + 1] = Ended(f[n])

Peeks(s, x, w) == \E f : PeekedBy(f, s, x, w)

\* A peek that finds the tick over advances it by one; one that finds a CPU leaves it.
LEMMA PrepareTick ==
    ASSUME NEW s \in Sim
    PROVE  Prepare(s).sim.tick = IF Prepare(s).cpu = NoCpu THEN s.tick + 1 ELSE s.tick
<1>1. CASE Eligible(s) = {}
  <2>1. PastEnd \in 1 .. PastEnd
    BY CpusAre
  <2>2. PassedTo(s, PastEnd) \in Sim /\ PassedTo(s, PastEnd).tick = s.tick
    BY <2>1, PassedToIs
  <2>3. Prepare(s).cpu = NoCpu /\ Prepare(s).sim = AdvanceTick(PassedTo(s, PastEnd))
    BY <1>1 DEF Prepare
  <2> QED BY <2>2, <2>3, AdvanceTickIs
<1>2. CASE Eligible(s) # {}
  <2> DEFINE c == CHOOSE c \in Eligible(s) : \A d \in Eligible(s) : c <= d
  <2>1. c \in Eligible(s)
    <3>1. Eligible(s) \in SUBSET Nat
      BY CpusAre DEF Eligible
    <3> QED
      BY <1>2, <3>1, LeastExists, Zenon DEF Least
  <2>2. Prepare(s).cpu = c /\ Prepare(s).sim = PassedTo(s, c)
    BY <1>2 DEF Prepare
  <2> HIDE DEF c
  <2>3. c \in 1 .. PastEnd /\ c # NoCpu
    BY <2>1, CpusAre DEF Eligible
  <2>4. PassedTo(s, c).tick = s.tick
    BY <2>3, PassedToIs
  <2> QED BY <2>2, <2>3, <2>4
<1> QED
  BY <1>1, <1>2

\* An instruction of the scheduler does not end the tick.
LEMMA ScheduledTick ==
    ASSUME NEW s \in Sim, Prepare(s).cpu # NoCpu, Prepare(s).sim = s
    PROVE  SchedulerStep(s).sim.tick = s.tick
<1> DEFINE c == Prepare(s).cpu
           e == Execute(s, c)
           t == [e EXCEPT !.slot = IF CanStep(e, c) THEN @ ELSE @ + 1]
<1>1. c \in Cpus /\ Located(s, c)
  BY PrepareIs
<1>2. e \in Sim
  BY <1>1, ExecuteIs
<1>3. e.tick = s.tick
  BY DEF Execute, Sim
<1>4. SchedulerStep(s) = IF e.run[c] = "Error" THEN [sim |-> e, failed |-> TRUE]
                         ELSE [sim |-> t, failed |-> FALSE]
  BY DEF SchedulerStep
<1> HIDE DEF c, e
<1>5. t.tick = e.tick
  BY <1>2 DEF Sim
<1> HIDE DEF t
<1> QED
  BY <1>3, <1>4, <1>5

\* No peek at all.
LEMMA PeeksNone == ASSUME NEW s \in Sim PROVE Peeks(s, s, {})
<1> DEFINE f == [n \in s.tick .. s.tick |-> Standing(s, {})]
<1>0. Standing(s, {}) \in Outcome /\ Standing(s, {}).ok /\ Standing(s, {}).sim = s
  BY BatchesAre, OutcomesAre
<1>1. s.tick \in Nat
  BY SimParts
<1>2. f \in [s.tick .. s.tick -> Outcome] /\ f[s.tick] = Standing(s, {})
  BY <1>0, <1>1
<1>3. \A n \in s.tick .. s.tick : n = s.tick
  BY <1>1
<1> HIDE DEF f
<1>4. PeekedBy(f, s, s, {})
  BY <1>0, <1>1, <1>2, <1>3 DEF PeekedBy
<1> QED
  BY <1>4 DEF Peeks

\* One more peek.
LEMMA PeeksOn ==
    ASSUME NEW s \in Sim, NEW x \in Sim, NEW w \in Batches, Peeks(s, x, w),
           Prepare(x).cpu = NoCpu
    PROVE  Peeks(s, Prepare(x).sim, w \cup Wrote(x, Prepare(x).sim))
<1>1. PICK f : PeekedBy(f, s, x, w)
  BY DEF Peeks
<1> DEFINE y == Prepare(x).sim
           v == w \cup Wrote(x, y)
           o == Standing(y, v)
           e == [n \in s.tick .. y.tick |-> IF n = y.tick THEN o ELSE f[n]]
<1>2. y \in Sim /\ y.tick = x.tick + 1
  BY PrepareIs, PrepareTick
<1>3. s.tick \in Nat /\ x.tick \in Nat /\ s.tick <= x.tick
  BY <1>1, SimParts DEF PeekedBy
<1>ended. Ended(Standing(x, w)) = o /\ Standing(x, w).sim = x
  BY DEF Ended, Standing
<1> HIDE DEF y
<1>batch. v \in Batches
  BY <1>2, BatchesAre
<1> HIDE DEF v
<1>o. o \in Outcome /\ o.ok /\ o.sim = y
  BY <1>2, <1>batch, OutcomesAre
<1> HIDE DEF o
<1>4. \A n \in s.tick .. y.tick : n = y.tick \/ n \in s.tick .. x.tick
  BY <1>2, <1>3
<1>5. \A n \in s.tick .. x.tick : n # y.tick /\ n \in s.tick .. y.tick
  BY <1>2, <1>3
<1>6. e \in [s.tick .. y.tick -> Outcome]
  BY <1>1, <1>o, <1>4 DEF PeekedBy
<1>7. /\ s.tick <= y.tick /\ y.tick \in s.tick .. y.tick /\ e[y.tick] = o
      /\ s.tick \in s.tick .. x.tick /\ x.tick \in s.tick .. x.tick
  BY <1>2, <1>3
<1>8. \A n \in s.tick .. x.tick : e[n] = f[n]
  BY <1>5
<1> HIDE DEF e
<1>9. e[s.tick] = Standing(s, {})
  BY <1>1, <1>7, <1>8 DEF PeekedBy
<1>10. \A n \in s.tick .. y.tick : e[n].ok /\ e[n].sim.tick = n
  BY <1>1, <1>o, <1>4, <1>7, <1>8 DEF PeekedBy
<1>11. ASSUME NEW n \in s.tick .. y.tick, n < y.tick
       PROVE  Prepare(e[n].sim).cpu = NoCpu /\ e[n + 1] = Ended(e[n])
  <2>1. n \in s.tick .. x.tick
    BY <1>2, <1>4, <1>11
  <2>2. CASE n < x.tick
    <3>1. n + 1 \in s.tick .. x.tick
      BY <1>3, <2>1, <2>2
    <3> QED BY <1>1, <1>8, <2>1, <2>2, <3>1 DEF PeekedBy
  <2>3. CASE ~(n < x.tick)
    <3>1. n = x.tick /\ n + 1 = y.tick
      BY <1>2, <1>3, <2>1, <2>3
    <3>2. e[n] = Standing(x, w)
      BY <1>1, <1>7, <1>8, <3>1 DEF PeekedBy
    <3> QED BY <1>7, <1>ended, <3>1, <3>2
  <2> QED BY <2>2, <2>3
<1>12. PeekedBy(e, s, y, v)
  BY <1>6, <1>7, <1>9, <1>10, <1>11 DEF PeekedBy, o
<1> QED
  BY <1>12 DEF Peeks, y, v

\* A peek of the replay that finds the tick over.
LEMMA PeekedEnds ==
    ASSUME NEW o, NEW tick, o.ok, ~(o.sim.tick >= tick), Prepare(o.sim).cpu = NoCpu
    PROVE  Peeked(o, tick) = Ended(o)
BY Zenon DEF Peeked, Ended

\* Replay catches up with any number of peeks.
LEMMA PeeksAreCaughtUp ==
    ASSUME NEW s \in Sim, NEW x \in Sim, NEW w, Peeks(s, x, w)
    PROVE  CaughtUp(s, x.tick) = Standing(x, w)
<1> DEFINE t == x.tick
           Past(n) == IF s.tick + n <= t THEN s.tick + n ELSE t
<1>1. PICK f : PeekedBy(f, s, x, w)
  BY DEF Peeks
<1>2. s.tick \in Nat /\ t \in Nat /\ s.tick <= t
  BY <1>1, SimParts DEF PeekedBy
<1>3. PICK peeked : CatchesUp(s, t, peeked) /\ CaughtUp(s, t) = peeked[t]
  BY <1>2, CaughtUpSteps
<1> DEFINE S == {p \in (0 .. t) \X Outcome : p[2] = f[Past(p[1])]}
           e == [n \in 0 .. t |-> <<n, peeked[n]>>]
<1>4. e[0] \in S
  <2>1. 0 \in 0 .. t /\ Past(0) = s.tick
    BY <1>2
  <2>2. peeked[0] \in Outcome /\ peeked[0] = f[s.tick]
    BY <1>1, <1>3, <2>1 DEF CatchesUp, PeekedBy
  <2> HIDE DEF Past
  <2> QED BY <2>1, <2>2
<1>5. ASSUME NEW n \in 1 .. t, e[n - 1] \in S PROVE e[n] \in S
  <2>1. n \in 0 .. t /\ n - 1 \in 0 .. t /\ n \in Nat
    BY <1>2
  <2> DEFINE z == f[Past(n - 1)]
  <2>2. peeked[n - 1] = z
    <3> HIDE DEF Past
    <3> QED BY <1>5, <2>1
  <2>3. Past(n - 1) \in s.tick .. t /\ Past(n) \in s.tick .. t
    BY <1>2, <2>1
  <2>4. z.ok /\ z.sim.tick = Past(n - 1)
    <3> HIDE DEF Past
    <3> QED BY <1>1, <2>3 DEF PeekedBy
  <2>5. peeked[n] = Peeked(z, t)
    <3> HIDE DEF z
    <3> QED BY <1>3, <2>2 DEF CatchesUp
  <2>6. peeked[n] = f[Past(n)]
    <3>1. CASE z.sim.tick >= t
      <4>1. Past(n) = Past(n - 1)
        BY <1>2, <2>1, <2>4, <3>1
      <4>2. Peeked(z, t) = z
        <5> HIDE DEF z
        <5> QED BY <3>1, Zenon DEF Peeked
      <4> HIDE DEF Past
      <4> QED BY <2>5, <4>1, <4>2
    <3>2. CASE ~(z.sim.tick >= t)
      <4>1. Past(n) = Past(n - 1) + 1 /\ Past(n - 1) < t
        BY <1>2, <2>1, <2>4, <3>2
      <4>2. Prepare(z.sim).cpu = NoCpu /\ f[Past(n - 1) + 1] = Ended(z)
        <5> HIDE DEF Past
        <5> QED BY <1>1, <2>3, <4>1 DEF PeekedBy
      <4> HIDE DEF z, Past
      <4>3. Peeked(z, t) = Ended(z)
        BY <2>4, <3>2, <4>2, PeekedEnds
      <4> QED BY <2>5, <4>1, <4>2, <4>3
    <3> QED BY <3>1, <3>2
  <2>7. peeked[n] \in Outcome
    BY <1>3, <2>1 DEF CatchesUp
  <2> HIDE DEF Past
  <2> QED BY <2>1, <2>6, <2>7
<1>6. e[t] \in S
  <2> HIDE DEF e, S
  <2>1. \A n \in 0 + 1 .. t : e[n - 1] \in S => e[n] \in S
    BY <1>5
  <2>2. \A n \in 0 .. t : e[n] \in S
    BY <1>2, <1>4, <2>1, PassedOn
  <2> QED BY <1>2, <2>2
<1>7. peeked[t] = f[Past(t)]
  <2>1. t \in 0 .. t
    BY <1>2
  <2> HIDE DEF Past
  <2> QED BY <1>6, <2>1
<1>8. Past(t) = t
  BY <1>2
<1>9. f[t] = Standing(x, w)
  BY <1>1 DEF PeekedBy
<1> HIDE DEF Past
<1> QED
  BY <1>3, <1>7, <1>8, <1>9

-----------------------------------------------------------------------------
(* What is recorded can be replayed.                                       *)

\* A replay with the recorded result and the recorded writes verifies.
LEMMA VerifiedHolds ==
    ASSUME NEW e, NEW result, NEW w,
           result.failed = e.failed, w = e.effects, result.sim = e.hash
    PROVE  Verified(e, result, w) = Standing(e.hash, {})
BY Zenon DEF Verified

\* A scheduled instruction, from a state that peeks have changed since, together
\* with what the peeks wrote.
LEMMA ScheduledRetraces ==
    ASSUME NEW s \in Sim, NEW x \in Sim, NEW w, Peeks(s, x, w), Prepare(x).cpu # NoCpu
    PROVE  LET c == Prepare(x).cpu
               t == Prepare(x).sim
               step == SchedulerStep(t)
           IN  Retraces(s, step.sim, c, t.pc[c], "Scheduled",
                        w \cup Wrote(x, t) \cup Wrote(t, step.sim), step.failed)
<1> DEFINE c == Prepare(x).cpu
           t == Prepare(x).sim
           step == SchedulerStep(t)
           effects == w \cup Wrote(x, t) \cup Wrote(t, step.sim)
<1>1. t \in Sim /\ Prepare(t).cpu = c /\ Prepare(t).sim = t
  BY PrepareIs
<1>2. step.sim.tick = x.tick
  BY <1>1, ScheduledTick, PrepareTick
<1>3. CaughtUp(s, x.tick) = Standing(x, w)
  BY PeeksAreCaughtUp
<1> SUFFICES ASSUME NEW e \in Event, e.tick = step.sim.tick, e.cpu = c, e.line = t.pc[c],
                    e.action = "Scheduled", e.effects = effects, e.failed = step.failed,
                    e.hash = step.sim
             PROVE  Follows(e, s)
  BY DEF Retraces
<1>4. Replayed(e, s) = ReplayScheduled(e, s)
  BY DEF Replayed
<1>5. ReplayScheduled(e, s) = Verified(e, step, effects)
  <2>0. Standing(x, w).ok /\ Standing(x, w).sim = x /\ Standing(x, w).writes = w
    BY DEF Standing
  <2>1. /\ CaughtUp(s, e.tick).ok /\ CaughtUp(s, e.tick).sim = x
        /\ CaughtUp(s, e.tick).writes = w
    BY <1>2, <1>3, <2>0
  <2>2. ReplayScheduled(e, s) = ReplayFrom(e, CaughtUp(s, e.tick))
    BY CaughtUpFirst
  <2> QED BY <2>1, <2>2, Zenon DEF ReplayFrom
<1>6. Verified(e, step, effects) = Standing(e.hash, {})
  <2> HIDE DEF step, effects
  <2> QED BY VerifiedHolds
<1> QED
  BY <1>4, <1>5, <1>6 DEF Follows

\* An instruction or a tick stepped by hand, from the very state recorded.
LEMMA InstructionRetraces ==
    ASSUME NEW s, NEW c, NEW line
    PROVE  LET step == StepInstruction(s, c)
           IN  Retraces(s, step.sim, c, line, "Instruction", Wrote(s, step.sim), step.failed)
<1> DEFINE step == StepInstruction(s, c)
<1> SUFFICES ASSUME NEW e \in Event, e.cpu = c, e.action = "Instruction",
                    e.effects = Wrote(s, step.sim), e.failed = step.failed, e.hash = step.sim
             PROVE  Follows(e, s)
  BY DEF Retraces
<1>1. Replayed(e, s) = Verified(e, step, Wrote(s, step.sim))
  BY DEF Replayed
<1> HIDE DEF step
<1> QED
  BY <1>1, VerifiedHolds DEF Follows

\* A world tick likewise.
LEMMA WorldTickRetraces ==
    ASSUME NEW s, NEW c, NEW line
    PROVE  LET step == StepWorldTick(s)
           IN  Retraces(s, step.sim, c, line, "WorldTick", Wrote(s, step.sim), step.failed)
<1> DEFINE step == StepWorldTick(s)
<1> SUFFICES ASSUME NEW e \in Event, e.action = "WorldTick",
                    e.effects = Wrote(s, step.sim), e.failed = step.failed, e.hash = step.sim
             PROVE  Follows(e, s)
  BY DEF Retraces
<1>1. Replayed(e, s) = Verified(e, step, Wrote(s, step.sim))
  BY DEF Replayed
<1> HIDE DEF step
<1> QED
  BY <1>1, VerifiedHolds DEF Follows

\* A stop changes nothing and writes nothing.
LEMMA StopRetraces ==
    ASSUME NEW s, NEW c, NEW line
    PROVE  Retraces(s, s, c, line, "Stop", {}, FALSE)
<1> DEFINE step == [sim |-> s, failed |-> FALSE]
<1> SUFFICES ASSUME NEW e \in Event, e.action = "Stop", e.effects = {}, e.failed = FALSE,
                    e.hash = s
             PROVE  Follows(e, s)
  BY DEF Retraces
<1>1. Replayed(e, s) = Verified(e, step, Wrote(s, step.sim))
  BY DEF Replayed
<1>2. step.failed = e.failed /\ step.sim = e.hash /\ Wrote(s, step.sim) = e.effects
  BY WroteNothing
<1> HIDE DEF step
<1> QED
  BY <1>1, <1>2, VerifiedHolds DEF Follows

\* No program has an instruction that fails.
NothingFails == \A c \in Cpus : \A n \in DOMAIN Programs[c] : Programs[c][n] # "fail"

\* Where no instruction fails the scheduler does not,
LEMMA SchedulerSucceeds ==
    ASSUME NothingFails, NEW s \in Sim PROVE ~SchedulerStep(s).failed
<1> DEFINE p == Prepare(s)
<1>1. p.sim \in Sim /\ p.cpu \in Cpus \cup {NoCpu} /\ p.sim.pc = s.pc
  BY PrepareIs
<1>2. CASE p.cpu = NoCpu
  BY <1>2 DEF SchedulerStep
<1>3. CASE p.cpu # NoCpu
  <2>1. p.cpu \in Cpus /\ Located(p.sim, p.cpu)
    BY <1>1, <1>3, PrepareIs DEF Located
  <2>2. Execute(p.sim, p.cpu).run[p.cpu] = RunAfter(Operation(p.sim, p.cpu))
    BY <1>1, <2>1, ExecuteIs
  <2>3. Operation(p.sim, p.cpu) # "fail"
    <3>1. p.sim.pc[p.cpu] \in DOMAIN Programs[p.cpu]
      BY <1>1, <2>1, OperationIs, CpusAre
    <3> QED BY <2>1, <3>1 DEF Operation, NothingFails
  <2>4. Execute(p.sim, p.cpu).run[p.cpu] # "Error"
    BY <1>1, <2>1, <2>2, <2>3, OperationIs
  <2> QED BY <1>3, <2>4 DEF SchedulerStep
<1> QED
  BY <1>2, <1>3

\* and neither does a world tick.
LEMMA WorldTickSucceeds ==
    ASSUME NothingFails, NEW s \in Sim PROVE ~StepWorldTick(s).failed
<1> DEFINE S == {r \in Result : ~r.failed}
<1>1. \A prev \in S : SchedulerStep(prev.sim) \in S
  BY SchedulerStepIs, SchedulerSucceeds DEF Result
<1>2. StepWorldTick(s) \in S
  <2>1. S \subseteq Result /\ [sim |-> s, failed |-> FALSE] \in S
    BY DEF Result
  <2> HIDE DEF S
  <2> QED BY <1>1, <2>1, StepWorldTickIn
<1> QED
  BY <1>2

-----------------------------------------------------------------------------
(* Sessions whose events can all be replayed.                              *)

\* What a session must leave out for its history to be replayed: goto changes
\* the state and records nothing; a peek that ended a tick is replayed before a
\* scheduled instruction only, so the other kinds of step, and a stop at a
\* breakpoint, may not follow one; a world tick that fails records nothing.
Replayable(q) ==
    /\ "goto" \notin q
    /\ "continue" \in q => /\ q \cap {"continueSingle", "stepIn", "stepTick"} = {}
                           /\ Breakpoints = {}
    /\ "stepTick" \in q => NothingFails

\* The simulator is in the state the history has for its cursor and the journal
\* is empty, but for peeks when the scheduler runs the session.
Tracks(s, h, w) ==
    IF "continue" \in requests THEN \A x \in StatesAt(h) : Peeks(x, s, w)
                               ELSE StatesAt(h) \subseteq {s} /\ w = {}

\* Only the scheduler runs a session that has continue, and only one thread
\* alone any other.
Modes == IF "continue" \in requests THEN single = NoCpu ELSE running => single # NoCpu

\* What can be replayed and what the session is in agree.
Linkage == Replayable(requests) /\ Modes /\ Linked(hist) /\ Tracks(sim, hist, pending)

\* The inductive invariant of such a session: they agree unless the history began
\* with writes that a hot reload left in the journal.
LinkedUnlessCarried == Replayable(requests) /\ Modes /\ (~carried => Linkage)

\* The states of a history are states of the simulator.
LEMMA StatesAreSim ==
    ASSUME NEW h, Sound(h) PROVE StatesAt(h) \subseteq Sim
<1>1. h.records \subseteq Event /\ h.checkpoints \subseteq Anchor
  BY RingParts DEF Sound
<1>2. (\A r \in Event : r.hash \in Sim) /\ (\A k \in Anchor : k.snapshot \in Sim)
  BY DEF Event, Anchor
<1> QED
  BY <1>1, <1>2 DEF StatesAt

\* A simulator in the very state recorded, with nothing pending, tracks the history.
LEMMA TracksNow ==
    ASSUME NEW s \in Sim, NEW h, StatesAt(h) \subseteq {s} PROVE Tracks(s, h, {})
BY PeeksNone DEF Tracks

\* A session without continue is in the very state recorded.
LEMMA TracksExactly ==
    ASSUME Linkage, "continue" \notin requests PROVE StatesAt(hist) \subseteq {sim} /\ pending = {}
BY DEF Linkage, Tracks

\* Every step keeps to the mode of the session.
LEMMA ModesKept ==
    ASSUME Inv, Replayable(requests), Modes, Next PROVE Replayable(requests)' /\ Modes'
<1>0. requests' = requests
  BY DEF Next
<1>1. Replayable(requests)'
  BY <1>0 DEF Replayable
<1>flags. single \in Cpus \cup {NoCpu}
  BY InvFlags DEF Flags
<1>2. CASE Runner
  <2>1. single' = single /\ (running' => running)
    <3>1. CASE RunnerStep
      BY <3>1, RunnerExecutes, Zenon DEF Executed
    <3>2. CASE RunnerBreak
      BY <3>2, Zenon DEF RunnerBreak, RunnerTurn
    <3> QED BY <1>2, <3>1, <3>2 DEF Runner, RunnerFinished, RunnerTickOver, EmitEvent, RunnerTurn
  <2> QED BY <1>0, <1>1, <2>1 DEF Modes
<1>3. CASE Request
  <2>1. ASSUME NEW t \in Cpus \cup {NoCpu}, Continue(t) PROVE Modes'
    BY <1>0, <2>1 DEF Continue, Modes, Replayable
  <2>2. CASE Pause
    BY <1>0, <2>2 DEF Pause, Stops, Modes
  <2>3. CASE StepTick
    BY <1>0, <2>3, StepTickIs DEF Modes
  <2>4. ASSUME NEW c \in Cpus, StepIn(c) PROVE Modes'
    <3>1. running' = FALSE /\ single' = NoCpu
      BY <2>4 DEF StepIn, Stops
    <3> QED BY <1>0, <3>1 DEF Modes
  <2>5. CASE (\E c \in Cpus : StepBack(c) \/ ReverseContinue(c)) \/ Navigate
    <3>1. \A n : RefusedStopped \/ Navigates(n) => running' = FALSE
      BY Zenon DEF RefusedStopped, Navigates, Navigated
    <3>2. running' = FALSE /\ single' \in {single, NoCpu}
      BY <2>5, <3>1, NavigationIs
    <3> QED BY <1>0, <3>2 DEF Modes
  <2>6. ASSUME NEW v \in 0 .. FieldSpan - 1, SetWorld(v) \/ SetVariable(v) PROVE Modes'
    BY <1>0, <2>6, EditIs DEF Modes
  <2>7. ASSUME NEW c \in Cpus, NEW line \in DOMAIN Programs[c], Goto(c, line) PROVE FALSE
    BY <2>7 DEF Goto, Replayable
  <2> QED BY <1>1, <1>3, <2>1, <2>2, <2>3, <2>4, <2>5, <2>6, <2>7 DEF Request
<1>4. CASE Renewal
  BY <1>0, <1>1, <1>4 DEF Renewal, HotReload, Restart, Stops, Modes
<1> QED
  BY <1>1, <1>2, <1>3, <1>4 DEF Next

\* Recording what can be replayed keeps the history linked.
LEMMA RecordTracks ==
    ASSUME Inv, Linkage, NEW s \in Sim, NEW cpu \in Cpus, NEW line \in Nat,
           NEW action \in Actions, NEW effects \in Batches, NEW failed \in BOOLEAN,
           \/ action = "External"
           \/ \A x \in StatesAt(hist) : Retraces(x, s, cpu, line, action, effects, failed)
    PROVE  LET g == Record(hist, s, cpu, line, action, effects, failed)
           IN  Linked(g) /\ StatesAt(g) \subseteq {s}
<1>1. Sound(hist) /\ Linked(hist)
  BY DEF Inv, Linkage
<1> QED
  BY <1>1, RecordLinks

\* What the runner writes: while one thread runs alone its target is no peek.
Effects == pending \cup Wrote(sim, RunnerTarget.sim) \cup Wrote(RunnerTarget.sim, Stepped.sim)

LEMMA EffectsAre ==
    ASSUME Inv, running, RunnerTarget.cpu # NoCpu PROVE Effects \in Batches
<1>1. sim \in Sim /\ pending \in Batches
  BY DEF Inv
<1>2. RunnerTarget.sim \in Sim /\ Stepped.sim \in Sim
  BY TargetIs, SteppedIs DEF Result
<1>3. Wrote(sim, RunnerTarget.sim) \in Batches /\ Wrote(RunnerTarget.sim, Stepped.sim) \in Batches
  BY <1>1, <1>2, BatchesAre
<1>4. pending \cup Wrote(sim, RunnerTarget.sim) \in Batches
  BY <1>1, <1>3, BatchesAre
<1> QED
  BY <1>3, <1>4, BatchesAre DEF Effects

\* The instruction the runner runs can be replayed from the state at the cursor.
LEMMA SteppedRetraces ==
    ASSUME Inv, Linkage, running, RunnerTarget.cpu # NoCpu, NEW x \in StatesAt(hist)
    PROVE  Retraces(x, Stepped.sim, RunnerTarget.cpu, RunnerTarget.sim.pc[RunnerTarget.cpu],
                    IF single # NoCpu THEN "Instruction" ELSE "Scheduled",
                    Effects, Stepped.failed)
<1>1. sim \in Sim /\ x \in Sim
  BY StatesAreSim DEF Inv
<1>2. CASE "continue" \in requests
  <2>1. single = NoCpu /\ Peeks(x, sim, pending)
    BY <1>2 DEF Linkage, Modes, Tracks
  <2>2. RunnerTarget = Prepare(sim) /\ Stepped = SchedulerStep(Prepare(sim).sim)
    BY <2>1 DEF RunnerTarget, Stepped
  <2>3. Prepare(sim).cpu # NoCpu
    BY <2>2
  <2>4. Retraces(x, SchedulerStep(Prepare(sim).sim).sim, Prepare(sim).cpu,
                 Prepare(sim).sim.pc[Prepare(sim).cpu], "Scheduled",
                 pending \cup Wrote(sim, Prepare(sim).sim)
                    \cup Wrote(Prepare(sim).sim, SchedulerStep(Prepare(sim).sim).sim),
                 SchedulerStep(Prepare(sim).sim).failed)
    BY <1>1, <2>1, <2>3, ScheduledRetraces
  <2> QED BY <2>1, <2>2, <2>4 DEF Effects
<1>3. CASE "continue" \notin requests
  <2>1. single # NoCpu /\ x = sim /\ pending = {}
    BY <1>3, TracksExactly DEF Linkage, Modes
  <2>2. Stepped = StepInstruction(sim, RunnerTarget.cpu) /\ RunnerTarget.sim = sim
    BY <2>1 DEF Stepped, RunnerTarget
  <2>3. Effects = Wrote(sim, Stepped.sim)
    <3>1. Wrote(sim, sim) = {}
      BY WroteNothing
    <3>2. Effects = {} \cup {} \cup Wrote(sim, Stepped.sim)
      BY <2>1, <2>2, <3>1 DEF Effects
    <3> QED BY <3>2
  <2>4. Retraces(sim, StepInstruction(sim, RunnerTarget.cpu).sim, RunnerTarget.cpu,
                 RunnerTarget.sim.pc[RunnerTarget.cpu], "Instruction",
                 Wrote(sim, StepInstruction(sim, RunnerTarget.cpu).sim),
                 StepInstruction(sim, RunnerTarget.cpu).failed)
    BY InstructionRetraces
  <2> QED BY <2>1, <2>2, <2>3, <2>4
<1> QED
  BY <1>2, <1>3

\* An instruction of the runner, and the stop behind it.
LEMMA RunnerStepTracks ==
    ASSUME Inv, Linkage, RunnerStep
    PROVE  Linked(hist') /\ StatesAt(hist') \subseteq {sim'} /\ pending' = {}
<1> DEFINE c == RunnerTarget.cpu
           t == RunnerTarget.sim
           kind == IF single # NoCpu THEN "Instruction" ELSE "Scheduled"
           recorded == Record(hist, Stepped.sim, c, t.pc[c], kind, Effects, Stepped.failed)
           stop == Record(recorded, Stepped.sim, c, LineOf(Stepped.sim, c), "Stop", {}, FALSE)
<1>1. /\ running /\ c # NoCpu /\ sim' = Stepped.sim /\ hist' \in {stop, recorded}
      /\ pending' = {}
  BY RunnerExecutes, Zenon DEF Executed, Effects
<1>2. c \in Cpus /\ t \in Sim
  BY <1>1, TargetIs
<1>3. Stepped.sim \in Sim /\ Stepped.failed \in BOOLEAN
  BY <1>1, SteppedIs DEF Result
<1>4. Sound(hist) /\ Linked(hist) /\ t.pc[c] \in Nat /\ kind \in Actions /\ "Stop" \in Actions
  BY <1>2, SimParts DEF Inv, Actions, Linkage
<1>5. LineOf(Stepped.sim, c) \in Nat
  BY <1>2, <1>3, LineIs
<1>6. \A x \in StatesAt(hist) : Retraces(x, Stepped.sim, c, t.pc[c], kind, Effects, Stepped.failed)
  BY <1>1, SteppedRetraces
<1>batch. Effects \in Batches /\ {} \in Batches
  BY <1>1, EffectsAre, BatchesAre
<1> HIDE DEF c, t, kind
<1>7. Sound(recorded)
  BY <1>2, <1>3, <1>4, <1>batch, RecordIs
<1>8. Linked(recorded) /\ StatesAt(recorded) \subseteq {Stepped.sim}
  BY <1>2, <1>3, <1>4, <1>6, <1>batch, RecordLinks
<1> HIDE DEF recorded
<1>9. \A x \in StatesAt(recorded) :
          Retraces(x, Stepped.sim, c, LineOf(Stepped.sim, c), "Stop", {}, FALSE)
  BY <1>8, StopRetraces
<1>10. FALSE \in BOOLEAN
  OBVIOUS
<1>11. Linked(stop) /\ StatesAt(stop) \subseteq {Stepped.sim}
  BY ONLY <1>2, <1>3, <1>4, <1>5, <1>7, <1>8, <1>9, <1>10, <1>batch, RecordLinks, ZenonT(40)
<1> HIDE DEF stop
<1> QED
  BY <1>1, <1>8, <1>11

\* The runner keeps the invariant.
LEMMA RunnerLinks ==
    ASSUME Inv, Linkage, Runner, Modes', Replayable(requests)', UNCHANGED requests PROVE Linkage'
<1>0. /\ Replayable(requests) /\ Linked(hist) /\ Tracks(sim, hist, pending) /\ Modes
      /\ sim \in Sim /\ pending \in Batches /\ single \in Cpus \cup {NoCpu}
  BY InvFlags DEF Linkage, Flags, Inv
<1>1. CASE RunnerFinished \/ EmitEvent
  <2>1. UNCHANGED <<sim, hist, pending>>
    BY <1>1 DEF RunnerFinished, EmitEvent
  <2> QED BY <1>0, <2>1 DEF Linkage, Tracks
<1>2. CASE RunnerTickOver
  <2>1. /\ running /\ RunnerTarget.cpu = NoCpu /\ sim' = RunnerTarget.sim /\ hist' = hist
        /\ pending' = pending \cup Wrote(sim, RunnerTarget.sim)
    BY <1>2, Zenon DEF RunnerTickOver, RunnerTurn
  <2>2. "continue" \in requests /\ single = NoCpu
    <3>1. single = NoCpu
      BY <2>1 DEF RunnerTarget
    <3> QED BY <1>0, <2>1, <3>1 DEF Modes
  <2>3. /\ Prepare(sim).cpu = NoCpu /\ sim' = Prepare(sim).sim
        /\ pending' = pending \cup Wrote(sim, Prepare(sim).sim)
    BY <2>1, <2>2 DEF RunnerTarget
  <2>4. ASSUME NEW x \in StatesAt(hist)
        PROVE  Peeks(x, Prepare(sim).sim, pending \cup Wrote(sim, Prepare(sim).sim))
    <3>1. x \in Sim
      BY StatesAreSim DEF Inv
    <3>2. Peeks(x, sim, pending)
      BY <1>0, <2>2 DEF Tracks
    <3> QED BY <1>0, <2>3, <3>1, <3>2, PeeksOn
  <2>5. Tracks(sim, hist, pending)'
    BY <2>1, <2>2, <2>3, <2>4 DEF Tracks
  <2> QED BY <1>0, <2>1, <2>5 DEF Linkage
<1>3. CASE RunnerBreak
  <2> DEFINE c == RunnerTarget.cpu
             t == RunnerTarget.sim
  <2>1. /\ running /\ c # NoCpu /\ <<c, t.pc[c]>> \in Breakpoints /\ sim' = t
        /\ hist' = Record(hist, t, c, LineOf(t, c), "Stop", {}, FALSE)
        /\ pending' = pending \cup Wrote(sim, t)
    BY <1>3, Zenon DEF RunnerBreak, RunnerTurn
  <2>2. "continue" \notin requests
    BY <1>0, <2>1 DEF Replayable
  <2>3. single # NoCpu
    BY <1>0, <2>1, <2>2 DEF Modes
  <2>4. t = sim /\ c \in Cpus
    BY <1>0, <2>3 DEF RunnerTarget
  <2>5. \A x \in StatesAt(hist) : Retraces(x, sim, c, LineOf(sim, c), "Stop", {}, FALSE)
    BY <2>2, TracksExactly, StopRetraces
  <2>6. LineOf(sim, c) \in Nat /\ "Stop" \in Actions /\ FALSE \in BOOLEAN /\ {} \in Batches
    BY <1>0, <2>4, LineIs, BatchesAre DEF Actions
  <2>7. pending' = {}
    BY <2>1, <2>2, <2>4, TracksExactly, WroteNothing
  <2> HIDE DEF c
  <2>8. Linked(hist') /\ StatesAt(hist') \subseteq {sim'}
    BY <1>0, <2>1, <2>4, <2>5, <2>6, RecordTracks
  <2>9. Tracks(sim, hist, pending)'
    BY <2>2, <2>7, <2>8 DEF Tracks
  <2> QED BY <2>8, <2>9 DEF Linkage
<1>4. CASE RunnerStep
  <2>1. Linked(hist') /\ StatesAt(hist') \subseteq {sim'} /\ pending' = {}
    BY <1>4, RunnerStepTracks
  <2>2. sim' \in Sim
    BY <1>4, RunnerStepIs, SteppedIs DEF Result
  <2>3. Tracks(sim', hist', {})
    BY <2>1, <2>2, TracksNow
  <2>4. Tracks(sim, hist, pending)'
    BY <2>1, <2>3 DEF Tracks
  <2> QED BY <2>1, <2>4 DEF Linkage
<1> QED
  BY <1>1, <1>2, <1>3, <1>4 DEF Runner

\* In a linked history restore refuses only what is gone from it, and then it
\* has touched nothing.
LEMMA NavigatedLinks ==
    ASSUME Inv, Linkage, NEW target \in Nat, target < hist.next, NEW c \in Cpus,
           Navigated(target, c)
    PROVE  /\ Linked(hist')
           /\ \/ reply' = "refused" /\ UNCHANGED <<sim, hist, pending>>
              \/ reply' = "ok" /\ StatesAt(hist') \subseteq {sim'} /\ pending' = {}
<1> DEFINE x == Restore(hist, sim, pending, target)
<1>1. /\ sim' = x.sim /\ pending' = x.writes
      /\ x.ok => hist' = Moved(hist, target) /\ reply' = "ok"
      /\ ~x.ok => reply' = "refused" /\ hist' = hist
  BY Zenon DEF Navigated
<1>2. PICK b : Ring(hist, b)
  BY DEF Inv, Sound
<1>3. /\ hist \in History /\ Coherent(hist) /\ sim \in Sim /\ hist.next \in Nat /\ b \in Nat
      /\ Linked(hist) /\ pending \in Batches
  BY <1>2, RingParts DEF Ring, Inv, Linkage
<1>4. CASE target < b
  <2>1. x = Diverged(sim, pending)
    BY <1>2, <1>3, <1>4, RestoreRefused
  <2> HIDE DEF x
  <2>2. x.sim = sim /\ x.writes = pending /\ ~x.ok
    BY <1>3, <2>1, OutcomesAre
  <2> QED BY <1>1, <1>3, <2>2
<1>5. CASE b <= target
  <2>1. target \in b .. (hist.next - 1)
    BY <1>3, <1>5
  <2>2. x.ok /\ x.writes = {}
    BY <1>2, <1>3, <2>1, RestoreReaches
  <2>3. Recorded(x.sim, target)
    BY <1>3, <2>2, RestoreIs, Zenon DEF Recorded
  <2> HIDE DEF x
  <2>4. hist' = Moved(hist, target) /\ reply' = "ok" /\ pending' = {}
    BY <1>1, <2>2
  <2>5. hist'.records = hist.records /\ hist'.checkpoints = hist.checkpoints
        /\ hist'.cursor = target
    BY <1>3, <2>4 DEF Moved, History
  <2>6. Linked(hist')
    BY <1>3, <2>5 DEF Linked
  <2>7. StatesAt(hist') \subseteq {sim'}
    BY <1>1, <2>3, <2>5 DEF StatesAt, Recorded
  <2> QED BY <2>4, <2>6, <2>7
<1> QED
  BY <1>3, <1>4, <1>5

\* A request that records, restores or renews: the simulator is left as the
\* history has it, with nothing pending; or neither changes.
Settled == Linked(hist') /\ StatesAt(hist') \subseteq {sim'} /\ pending' = {} /\ reply' = "ok"
Settles == UNCHANGED <<sim, hist, pending>> \/ Settled

\* A settled step establishes the agreement,
LEMMA SettledLinks ==
    ASSUME Settled, sim' \in Sim, Modes', Replayable(requests)', UNCHANGED requests PROVE Linkage'
<1>1. Tracks(sim', hist', {})
  BY TracksNow DEF Settled
<1>2. Tracks(sim, hist, pending)'
  BY <1>1 DEF Tracks, Settled
<1> QED
  BY <1>2 DEF Linkage, Settled

\* and a step that settles keeps it.
LEMMA SettlesLinks ==
    ASSUME Linkage, Settles, sim' \in Sim, Modes', Replayable(requests)', UNCHANGED requests
    PROVE  Linkage'
<1>1. CASE UNCHANGED <<sim, hist, pending>>
  BY <1>1 DEF Linkage, Tracks
<1> QED
  BY <1>1, SettledLinks DEF Settles

\* step_instruction settles.
LEMMA StepInSettles ==
    ASSUME Inv, Linkage, NEW c \in Cpus, StepIn(c) PROVE Settles
<1> DEFINE step == StepInstruction(sim, c)
           effects == Wrote(sim, step.sim)
<1>0. "stepIn" \in requests
  BY DEF StepIn
<1>1. "continue" \notin requests
  BY <1>0 DEF Linkage, Replayable
<1>2. pending = {} /\ StatesAt(hist) \subseteq {sim}
  BY <1>1, TracksExactly
<1>3. /\ sim' = step.sim /\ reply' = "ok" /\ pending' = {}
      /\ hist' = Record(hist, step.sim, c, LineOf(sim, c), "Instruction", effects, step.failed)
  <2>1. pending \cup Wrote(sim, step.sim) = effects
    BY <1>2
  <2> QED BY <2>1, Zenon DEF StepIn
<1>4. sim \in Sim /\ step \in Result
  BY StepInstructionIs DEF Inv
<1>5. step.sim \in Sim /\ step.failed \in BOOLEAN /\ LineOf(sim, c) \in Nat
      /\ "Instruction" \in Actions
  BY <1>4, LineIs DEF Result, Actions
<1>6. \A x \in StatesAt(hist) :
          Retraces(x, step.sim, c, LineOf(sim, c), "Instruction", effects, step.failed)
  BY <1>2, InstructionRetraces
<1> HIDE DEF step
<1>7. effects \in Batches
  BY <1>4, <1>5, BatchesAre
<1> HIDE DEF effects
<1>8. Linked(hist') /\ StatesAt(hist') \subseteq {sim'}
  BY <1>3, <1>5, <1>6, <1>7, RecordTracks
<1> QED
  BY <1>3, <1>8 DEF Settles, Settled

\* step_tick settles, because no world tick fails.
LEMMA StepTickSettles ==
    ASSUME Inv, Linkage, StepTick PROVE Settles
<1> DEFINE step == StepWorldTick(sim)
           line == LineOf(sim, FocusThread)
           effects == Wrote(sim, step.sim)
<1>1. "stepTick" \in requests /\ sim' = step.sim
  BY DEF StepTick
<1>2. sim \in Sim /\ step.sim \in Sim /\ line \in Nat /\ "WorldTick" \in Actions
      /\ FocusThread \in Cpus /\ FALSE \in BOOLEAN
  BY StepWorldTickIs, FocusIs, LineIs DEF Inv, Result, Actions
<1>3. "continue" \notin requests /\ NothingFails
  BY <1>1 DEF Linkage, Replayable
<1>4. step \in Result /\ ~step.failed
  BY <1>2, <1>3, WorldTickSucceeds, StepWorldTickIs
<1>5. step.failed = FALSE
  BY <1>4 DEF Result
<1>tracks. pending = {} /\ StatesAt(hist) \subseteq {sim}
  BY <1>3, TracksExactly
<1>6. /\ hist' = Record(hist, step.sim, FocusThread, line, "WorldTick", effects, FALSE)
      /\ reply' = "ok" /\ pending' = {}
  <2>1. pending \cup Wrote(sim, step.sim) = effects
    BY <1>tracks
  <2> QED BY <1>4, <2>1, Zenon DEF StepTick
<1>7. Retraces(sim, step.sim, FocusThread, line, "WorldTick", effects, FALSE)
  BY <1>5, WorldTickRetraces
<1> HIDE DEF step, line
<1>batch. effects \in Batches
  BY <1>2, BatchesAre
<1> HIDE DEF effects
<1>8. \A x \in StatesAt(hist) :
          Retraces(x, step.sim, FocusThread, line, "WorldTick", effects, FALSE)
  BY <1>7, <1>tracks
<1>9. Linked(hist') /\ StatesAt(hist') \subseteq {sim'}
  BY <1>1, <1>2, <1>6, <1>8, <1>batch, RecordTracks
<1> QED
  BY <1>6, <1>9 DEF Settles, Settled

\* set_world_field and set_variable settle: each change is external.
LEMMA EditSettles ==
    ASSUME Inv, Linkage, NEW v \in 0 .. FieldSpan - 1, SetWorld(v) \/ SetVariable(v)
    PROVE  Settles
<1> DEFINE s == [sim EXCEPT !.field = v]
           effects == pending \cup Wrote(sim, s)
           g == Record(hist, s, FocusThread, LineOf(sim, FocusThread), "External", effects, FALSE)
<1>1. sim \in Sim /\ s \in Sim /\ Sound(hist)
  BY FieldSet DEF Inv
<1>2. LineOf(sim, FocusThread) \in Nat /\ "External" \in Actions /\ FocusThread \in Cpus
  BY <1>1, LineIs, FocusIs DEF Actions
<1>3. \/ sim' = s /\ hist' = g /\ pending' = {} /\ reply' = "ok"
      \/ sim' = s /\ hist' = CheckpointCurrent(g, s) /\ pending' = {} /\ reply' = "ok"
      \/ UNCHANGED <<sim, hist, pending>>
  <2>1. CASE SetWorld(v)
    BY <2>1 DEF SetWorld
  <2>2. CASE SetVariable(v)
    BY <2>2 DEF SetVariable
  <2> QED BY <2>1, <2>2
<1>batch. effects \in Batches
  <2> HIDE DEF s
  <2> QED BY <1>1, PendingIs
<1> HIDE DEF s, effects
<1>4. Sound(g) /\ Marked(g)
  BY <1>1, <1>2, <1>batch, RecordIs
<1>5. Linked(g) /\ StatesAt(g) \subseteq {s}
  BY <1>1, <1>2, <1>batch, RecordTracks
<1> HIDE DEF g
<1>6. Linked(CheckpointCurrent(g, s)) /\ StatesAt(CheckpointCurrent(g, s)) \subseteq {s}
  BY <1>1, <1>4, <1>5, CheckpointCurrentLinks
<1> QED
  BY <1>3, <1>5, <1>6 DEF Settles, Settled

\* The requests that navigate settle.
LEMMA NavigationSettles ==
    ASSUME Inv, Linkage, (\E c \in Cpus : StepBack(c) \/ ReverseContinue(c)) \/ Navigate
    PROVE  Settles
<1>1. CASE RefusedStopped
  BY <1>1 DEF RefusedStopped, Settles
<1>2. ASSUME NEW n \in Nat, n < hist.next, Navigates(n) PROVE Settles
  <2>1. PICK c \in Cpus : Navigated(n, c)
    BY <1>2 DEF Navigates
  <2> QED BY <1>2, <2>1, NavigatedLinks DEF Settles, Settled
<1> QED
  BY <1>1, <1>2, NavigationIs

\* No request of a replayable session leaves the history behind the simulator.
LEMMA RequestSettles ==
    ASSUME Inv, Linkage, Request PROVE Settles
<1>1. ASSUME NEW t \in Cpus \cup {NoCpu}, Continue(t) PROVE Settles
  BY <1>1 DEF Continue, Settles
<1>2. CASE Pause
  BY <1>2 DEF Pause, Settles
<1>3. ASSUME NEW c \in Cpus, NEW line \in DOMAIN Programs[c], Goto(c, line) PROVE FALSE
  BY <1>3 DEF Goto, Linkage, Replayable
<1> QED
  BY <1>1, <1>2, <1>3, StepTickSettles, StepInSettles, NavigationSettles, EditSettles DEF Request

\* hot_reload and restart: the new history agrees with the session, unless there
\* are writes pending for it.
LEMMA RenewLinks ==
    ASSUME Inv, LinkedUnlessCarried, Renewal, Modes', Replayable(requests)', UNCHANGED requests,
           ~carried'
    PROVE  Linkage'
<1>0. sim \in Sim /\ sim' \in Sim
  BY RequestInv DEF Inv
<1>1. \/ UNCHANGED <<sim, hist, pending, carried>>
      \/ /\ hist' = NewHistory(sim') /\ reply' = "ok"
         /\ pending' = {}
  <2>1. CASE HotReload
    BY <2>1 DEF HotReload
  <2>2. CASE Restart
    BY <2>2 DEF Restart
  <2> QED BY <2>1, <2>2 DEF Renewal
<1>2. CASE UNCHANGED <<sim, hist, pending, carried>>
  <2>1. Linkage
    BY <1>2 DEF LinkedUnlessCarried
  <2> QED BY <1>0, <1>2, <2>1, SettlesLinks DEF Settles
<1>3. CASE hist' = NewHistory(sim') /\ reply' = "ok" /\ pending' = {}
  <2>1. Settled
    BY <1>3, NewHistoryLinks DEF Settled
  <2> QED BY <1>0, <2>1, SettledLinks
<1> QED
  BY <1>1, <1>2, <1>3

\* The invariant of a replayable session.
LEMMA LinkageHolds ==
    ASSUME \A S \in Sessions : Replayable(S) PROVE Spec => []LinkedUnlessCarried
<1>1. Init => LinkedUnlessCarried
  <2> SUFFICES ASSUME Init PROVE LinkedUnlessCarried
    OBVIOUS
  <2>1. Linked(hist) /\ StatesAt(hist) \subseteq {sim} /\ sim \in Sim
    BY NewHistoryLinks, InitSimIs DEF Init
  <2>2. Tracks(sim, hist, {}) /\ pending = {}
    BY <2>1, TracksNow DEF Init
  <2>3. Replayable(requests) /\ Modes
    BY DEF Init, Modes
  <2> QED BY <2>1, <2>2, <2>3 DEF LinkedUnlessCarried, Linkage
<1>2. ASSUME Inv, LinkedUnlessCarried, [Next]_vars PROVE LinkedUnlessCarried'
  <2>1. CASE UNCHANGED vars
    BY <1>2, <2>1 DEF vars, LinkedUnlessCarried, Linkage, Replayable, Tracks, Modes
  <2>2. CASE Next
    <3>1. Replayable(requests)' /\ Modes' /\ requests' = requests
      BY <1>2, <2>2, ModesKept DEF LinkedUnlessCarried, Next
    <3>2. ASSUME ~carried' PROVE Linkage'
      <4>1. CASE Runner /\ carried' = carried
        <5>1. Linkage
          BY <1>2, <3>2, <4>1 DEF LinkedUnlessCarried
        <5> QED BY <1>2, <3>1, <4>1, <5>1, RunnerLinks
      <4>2. CASE Request /\ carried' = carried
        <5>1. Linkage
          BY <1>2, <3>2, <4>2 DEF LinkedUnlessCarried
        <5>2. Settles /\ sim' \in Sim
          BY <1>2, <4>2, <5>1, RequestSettles, RequestInv DEF Inv
        <5> QED BY <3>1, <5>1, <5>2, SettlesLinks
      <4>3. CASE Renewal
        BY <1>2, <3>1, <3>2, <4>3, RenewLinks
      <4> QED BY <2>2, <4>1, <4>2, <4>3 DEF Next
    <3> QED BY <3>1, <3>2 DEF LinkedUnlessCarried
  <2> QED BY <1>2, <2>1, <2>2
<1> QED
  BY <1>1, <1>2, InvHolds, PTL DEF Spec

\* restore, replay and record: in a replayable session, whatever mixture of
\* running, stepping, editing and navigation built the history and however often
\* it was cut, every event it still has can be navigated to, with the recorded
\* writes, and shows the very state recorded there; but for a history that began
\* with writes which a hot reload left in the journal.
THEOREM EveryEventIsReachable ==
    ASSUME \A S \in Sessions : Replayable(S)
    PROVE  Spec => []EveryEventReachable
<1>1. Inv /\ LinkedUnlessCarried => EveryEventReachable
  BY LinkedIsReachable DEF Inv, Sound, LinkedUnlessCarried, Linkage, EveryEventReachable
<1> QED
  BY <1>1, InvHolds, LinkageHolds, PTL

\* step_back, reverse_continue, navigate_history, step_tick, set_variable and
\* hot_reload: in a replayable session, with the same exception, a request that
\* is refused has not touched the simulated world; restore, which replays in the
\* live simulator and compares what that wrote, never fails halfway there.
THEOREM RefusalLeavesWorld ==
    ASSUME \A S \in Sessions : Replayable(S)
    PROVE  Spec => RefusedLeavesWorld
<1>1. ASSUME Inv, LinkedUnlessCarried, [Next]_vars
      PROVE  [reply' = "refused" /\ ~carried => sim' = sim]_vars
  <2>1. CASE Next /\ Runner
    <3>1. ASSUME RunnerBreak \/ RunnerStep PROVE reply' = "none"
      BY <1>1, <3>1, RunnerBreakIs, RunnerStepIs
    <3> QED BY <2>1, <3>1 DEF Runner, RunnerFinished, RunnerTickOver, EmitEvent
  <2>2. CASE Next /\ Request
    <3>1. ASSUME ~carried PROVE Settles
      BY <1>1, <2>2, <3>1, RequestSettles DEF LinkedUnlessCarried
    <3> QED BY <3>1 DEF Settles, Settled
  <2>3. CASE Renewal
    BY <2>3 DEF Renewal, HotReload, Restart
  <2> QED BY <1>1, <2>1, <2>2, <2>3 DEF Next
<1> QED
  BY <1>1, InvHolds, LinkageHolds, PTL DEF Spec, RefusedLeavesWorld
=============================================================================
