--------------------------- MODULE Ic10Toolchain ---------------------------
(***************************************************************************)
(* The life of an IC10 program in the toolkit: the editor analyses it, the *)
(* builder makes a deployable program of it or refuses, and the simulator  *)
(* compiles and runs the source or the artifact.  Analysis, build and run  *)
(* are three readers of the same text written apart from each other; the   *)
(* properties are about where they must agree.                             *)
(*                                                                         *)
(* The history variables hold what the run did in terms of the source, to  *)
(* compare with what the analysis said before.                             *)
(***************************************************************************)
EXTENDS Ic10Build, Ic10Machine, Ic10Context

CONSTANTS
    Sources,      \* the programs written
    MaxSteps      \* bound: operations of one run

ASSUME StepsAssumption == MaxSteps \in Nat
ASSUME SourcesAssumption == Sources \subseteq Texts

VARIABLES
    phase,        \* "editing", "built", "refused", "unusable" or "running"
    source,       \* the text in the editor
    level,        \* the build level, "source" for the source itself
    artifact,     \* the lines to run, and their source map: line -> source line
    diagnostics,  \* what the editor shows for the source
    reference,    \* the compiled source
    link,         \* history: ra in terms of source lines
    last,         \* history: the source line of the last operation, -1 before the first
    executed,     \* history: the source lines executed
    tickOps,      \* history: operations since the last wait ended
    steps         \* operations executed

toolVars == <<phase, source, level, artifact, prog, cpu, world, diagnostics,
              reference, link, last, executed, tickOps, steps>>

Tool == <<source, level, artifact, diagnostics, reference>>
History == <<link, last, executed, tickOps, steps>>

ToolInit ==
    /\ source \in Sources
    /\ phase = "editing"
    /\ level = "source"
    /\ artifact = [lines |-> <<>>, origin |-> [g \in {} |-> 0]]
    /\ reference = Compile(Document(source))
    /\ prog = reference
    /\ Init
    /\ diagnostics = Diagnostics(Document(source))
    /\ link = 0
    /\ last = -1
    /\ executed = {}
    /\ tickOps = 0
    /\ steps = 0

NoErrors(found) == \A d \in found : d.code \notin ErrorCodes

\* Program::compile of the source: refused for an error of the analysis.
RunSource ==
    /\ phase = "editing"
    /\ NoErrors(diagnostics)
    /\ phase' = "running"
    /\ artifact' = [lines |-> source, origin |-> [g \in Lines(source) |-> g]]
    /\ UNCHANGED <<source, level, diagnostics, reference, machineVars, History>>

\* build: the artifact is written with its source map, and is not validated
\* again.
Build ==
    /\ phase = "editing"
    /\ NoErrors(diagnostics)
    /\ \E l \in Levels : \E output \in {Output(source, l)} :
          /\ Refusals(source, l, output) = {}
          /\ artifact' = BuildOutput(source, l, output)
          /\ level' = l
    /\ phase' = "built"
    /\ UNCHANGED <<source, diagnostics, reference, machineVars, History>>

RefuseBuild ==
    /\ phase = "editing"
    /\ \E l \in Levels :
          /\ NoErrors(diagnostics) => Refusals(source, l, Output(source, l)) # {}
          /\ level' = l
    /\ phase' = "refused"
    /\ UNCHANGED <<source, artifact, diagnostics, reference, machineVars, History>>

\* The simulator validates the artifact when it is run.
RunArtifact ==
    /\ phase = "built"
    /\ \E doc \in {Document(artifact.lines)} :
          /\ prog' = Compile(doc)
          /\ phase' = IF HasErrors(doc) THEN "unusable" ELSE "running"
    /\ cpu' = StartCpu(prog')
    /\ UNCHANGED <<Tool, world, History>>

-----------------------------------------------------------------------------
(* The run, as in Ic10Machine, with its history.                           *)

\* debug_line: the source line of a generated one.
SourceLine(g) == IF g \in DOMAIN artifact.origin THEN artifact.origin[g] ELSE Len(source) + 1

RunStep ==
    /\ phase = "running"
    /\ steps < MaxSteps
    /\ Step
    /\ LET o == prog.operations[cpu.pc]
           line == SourceLine(cpu.pc)
           ra == cpu'.regs[RA]
       IN  /\ link' = IF o.op \in LinkBranches /\ ra = cpu.pc + 1 THEN line + 1
                      ELSE IF ra # cpu.regs[RA] THEN ra ELSE link
           /\ last' = line
           /\ executed' = executed \cup {line}
    /\ tickOps' = tickOps + 1
    /\ steps' = steps + 1
    /\ UNCHANGED <<phase, Tool>>

RunEnd ==
    /\ phase = "running"
    /\ RunOut
    /\ UNCHANGED <<phase, Tool, History>>

RunWake ==
    /\ phase = "running"
    /\ Wake
    /\ tickOps' = 0
    /\ UNCHANGED <<phase, Tool, link, last, executed, steps>>

RunSensor ==
    /\ phase = "running"
    /\ cpu.state = "Ready"
    /\ \E s \in Sensors, v \in SensorValues : SetSensor(s[1], s[2], v)
    /\ UNCHANGED <<phase, Tool, History>>

ToolNext ==
    \/ RunSource
    \/ Build
    \/ RefuseBuild
    \/ RunArtifact
    \/ RunStep
    \/ RunEnd
    \/ RunWake
    \/ RunSensor

ToolSpec == ToolInit /\ [][ToolNext]_toolVars

-----------------------------------------------------------------------------
(* Sources the analysis and the builder read as the simulator does.  Each  *)
(* conjunct leaves out a spelling on which they disagree (see the README). *)

\* No branch the analysis does not take for one.
NoDeviceBranches(p) == \A n \in Lines(p) : LineAt(p, n).op \notin DeviceBranches

\* No relative branch to a label: the analysis takes the label's line for the
\* target, the simulator adds it to the branch's line.
NoRelativeLabels(p) ==
    \A n \in Lines(p) : LineAt(p, n).op \in RelativeBranches => ~ IsLabel(p, Target(LineAt(p, n)))

\* No define whose value is a label: the simulator follows it to the label's
\* line, the analysis to nothing.
NoDefinedLabels(p) ==
    \A n \in Lines(p) :
        LineAt(p, n).op = "define" /\ Len(LineAt(p, n).args) = 2
            => ~ IsLabel(p, LineAt(p, n).args[2])

\* A line number is only used to branch: ra, labels and the LineNumber of the
\* housing are never data.
LinesAreNotData(p) ==
    \A n \in Lines(p), i \in 1 .. 4 :
        LET line == LineAt(p, n)
        IN  line.kind = "instruction" /\ i \in DOMAIN line.args =>
                /\ IsLabel(p, line.args[i]) => i = Len(line.args) /\ line.op \in BranchOps
                /\ Resolve(p, line.args[i]) = Reg(RA) => line.op = "j"
                /\ line.args[i] # Field("LineNumber")

\* The target of a device branch is a label.
DeviceBranchesUseLabels(p) ==
    \A n \in Lines(p) : LineAt(p, n).op \in DeviceBranches => IsLabel(p, Target(LineAt(p, n)))

\* No define or alias has the name of an instruction.
NoShadowing(p) == Names(p) \cap Mnemonics = {}

\* A define comes to a number: only the analysis, and a compact build,
\* follow one to a register.
DefinesAreNumbers(p) ==
    \A n \in InstructionLines(p) :
        LineAt(p, n).op = "define" => ResolvesToNumber(p, LineAt(p, n).args[2])

Preservable(src) ==
    LET p == Document(src)
    IN  /\ ~ HasDuplicates(p)
        /\ DeviceBranchesUseLabels(p)
        /\ LinesAreNotData(p)
        /\ NoShadowing(p)
        /\ DefinesAreNumbers(p)

\* Every operand is what its place calls for, a declared name too: the analysis
\* lets one pass in any place (looks_incomplete).
OperandsFit(p) ==
    \A n \in InstructionLines(p) :
        \A i \in DOMAIN LineAt(p, n).args \cap DOMAIN Signature(LineAt(p, n).op) :
            OperandIsValid(p, LineAt(p, n).args[i], Signature(LineAt(p, n).op)[i])

\* Of the operands that do not fit, every one is a label or an alias: a compact
\* build takes defines away, and with them what kept the analysis quiet.
DefinesFit(p) ==
    \A n \in InstructionLines(p) :
        \A i \in DOMAIN LineAt(p, n).args \cap DOMAIN Signature(LineAt(p, n).op) :
            LET t == LineAt(p, n).args[i]
            IN  \/ OperandIsValid(p, t, Signature(LineAt(p, n).op)[i])
                \/ IsName(t) /\ t[2] \in Names(p) /\ SymbolKind(p, t[2]) \in {"label", "alias"}

\* No chain of names can be longer than the simulator follows it.
ChainsFollowed(p) ==
    \A kind \in Declarations : Cardinality(DeclaredAs(p, kind)) <= MaximumHops

\* A field is written by its name (see LogicName), and that of a slot is no
\* channel: LogicSlotType lists none.
FieldsNamed(p) ==
    \A n \in InstructionLines(p) :
        \A i \in DOMAIN LineAt(p, n).args \cap DOMAIN Signature(LineAt(p, n).op) :
            Signature(LineAt(p, n).op)[i] = "logicType"
                => \E f \in Fields : /\ LineAt(p, n).args[i] = Field(f)
                                     /\ LineAt(p, n).op \in {"ls", "ss"} => f # Channel

Fitting(p) ==
    /\ ~ HasDuplicates(p)
    /\ OperandsFit(p)
    /\ DefinesAreNumbers(p)
    /\ ChainsFollowed(p)
    /\ FieldsNamed(p)

-----------------------------------------------------------------------------
(* Properties.                                                             *)

\* Types: the program counter stays at an operation or at the program's end,
\* and the source map covers the program.
ToolTypeOK ==
    /\ phase \in {"editing", "built", "refused", "unusable", "running"}
    /\ level \in Levels \cup {"source"}
    /\ cpu.state \in {"Ready", "Waiting", "Halted", "Error"}
    /\ cpu.pc \in DOMAIN prog.operations \cup {prog.length}
    /\ cpu.regs \in [RegisterSet -> Int]
    /\ phase = "running" => DOMAIN prog.operations \subseteq DOMAIN artifact.origin
    /\ steps \in 0 .. MaxSteps /\ tickOps \in 0 .. steps

(***************************************************************************)
(* A line the editor greys out as unreachable (analyze_control_flow, "This *)
(* line cannot be reached from the program entry point.") is executed by   *)
(* no run, neither of the source nor of an artifact, whatever the sensors  *)
(* say.                                                                    *)
(***************************************************************************)
UnreachableNeverRuns ==
    LET p == Document(source)
    IN  NoDeviceBranches(p) /\ NoRelativeLabels(p) /\ NoDefinedLabels(p) /\ ~ HasDuplicates(p)
            => executed \cap {d.line : d \in UnreachableCode(p)} = {}

(***************************************************************************)
(* The budget the editor shows for a program without branches              *)
(* (estimate_operations) bounds the operations of every tick of a run.     *)
(***************************************************************************)
TickWithinEstimate ==
    LET p == Document(source)
    IN  NoDeviceBranches(p) /\ EstimateOperations(p) # -1 => tickOps <= EstimateOperations(p)

(***************************************************************************)
(* A program that passed validation does not fault on the stack before its *)
(* first label or branch (analyze_straight_line_values reports the fault), *)
(* as long as it moves sp otherwise only to a place on the stack and by a  *)
(* number, and uses no register through another.                           *)
(***************************************************************************)
EntryBlock(p) ==
    {n \in Lines(p) : \A m \in 0 .. n : /\ LineAt(p, m).kind # "label"
                                       /\ LineAt(p, m).op \notin BranchOps}

SetsPointer(line) ==
    /\ line.op = "move"
    /\ line.args[1] = Reg(SP)
    /\ \E v \in 0 .. StackSize : line.args[2] = Num(v)

TouchesPointer(p, n) ==
    \E i \in DOMAIN LineAt(p, n).args :
        \/ Resolve(p, LineAt(p, n).args[i]) = Reg(SP) /\ ~ (i = 1 /\ SetsPointer(LineAt(p, n)))
        \/ Resolve(p, LineAt(p, n).args[i])[1] = "ind"

StackFaultsForeseen(p) ==
    cpu.state = "Error" /\ executed \subseteq EntryBlock(p) =>
        \/ LineAt(p, last).op \notin {"push", "pop", "peek"}
        \/ \E n \in executed : TouchesPointer(p, n)

(***************************************************************************)
(* A program that passed validation does not fault on a batch store to a   *)
(* prefab the device data lists: validate_known_batch_access and           *)
(* write_field read the same access flags.  A register used through        *)
(* another may be none.                                                    *)
(***************************************************************************)
BatchStoresAccepted(p) ==
    cpu.state = "Error" /\ Networked =>
        LET line == LineAt(p, last)
        IN  line.op \in BatchStores /\ ResolvesToNumber(p, line.args[1])
                /\ NumberOf(p, line.args[1]) \in Catalog
            => \E i \in DOMAIN line.args : Resolve(p, line.args[i])[1] = "ind"

(***************************************************************************)
(* A run in the environment the editor knows does not fault on an access   *)
(* whose device, slot and address are written in the program, unless the   *)
(* editor said so on that line (validate_context).                         *)
(***************************************************************************)
StaticAccess(p, line) ==
    LET at == ContextDeviceAt(line.op)
    IN  /\ line.op \in ContextOps \ {"bdnvl"}
        /\ \A i \in DOMAIN line.args : AliasOf(p, line.args[i])[1] # "ind"
        /\ IF ByReferenceId(line.op) THEN IntegerOf(p, line.args[at]) # NoToken
           ELSE DeviceToken(AliasOf(p, line.args[at]))[1] \in {"pin", "base"}
        /\ line.op \in {"ls", "ss", "get", "put"} => IntegerOf(p, line.args[at + 1]) # NoToken

EnvironmentFaultsForeseen(p) ==
    cpu.state = "Error" =>
        LET line == LineAt(p, last)
        IN  StaticAccess(p, line) => ContextCodes(p, line) # {}

(***************************************************************************)
(* And what the editor calls impossible fails: a device that is not        *)
(* assigned, a slot, an address or a field the device does not have.  The  *)
(* memory of the housing is left out: it is the stack of the IC.           *)
(***************************************************************************)
Impossible(line) ==
    {"unassigned-device", "invalid-memory-address", "channel-needs-connection"}
        \cup (IF line.op \in {"ls", "ss"} THEN {"invalid-slot"} ELSE {"unsupported"})

UsesHousingMemory(p, line) ==
    line.op \in {"get", "put"} /\ ContextDevice(p, line) = Housing

EnvironmentErrorsReal(p) ==
    last >= 0 /\ cpu.state \notin {"Error", "Halted"} =>
        LET line == LineAt(p, last)
        IN  ~ UsesHousingMemory(p, line) /\ line.op \in ContextOps \ {"bdnvl"}
                => ContextCodes(p, line) \cap Impossible(line) = {}

(***************************************************************************)
(* The four agreements together: a fault the editor could foresee is on    *)
(* screen before the run, and an access it calls impossible never works.   *)
(***************************************************************************)
DiagnosticsAgree ==
    LET p == Document(source)
    IN  Fitting(p) => /\ StackFaultsForeseen(p)
                      /\ BatchStoresAccepted(p)
                      /\ EnvironmentFaultsForeseen(p)
                      /\ EnvironmentErrorsReal(p)

(***************************************************************************)
(* A build that succeeds writes a program that is well formed: the         *)
(* artifact is not validated again (finish), so every name it still uses   *)
(* must be declared and every branch must stay inside it.  The defines of  *)
(* the source are used where they fit: the analysis passes over any        *)
(* declared name, and over the beginning of one, and a compact build takes *)
(* away the define that kept it quiet.  What the analysis knows of values  *)
(* may still refuse an artifact: without its labels it is read further.    *)
(***************************************************************************)
ValueErrors == {"division-by-zero", "invalid-address", "stack-overflow", "stack-underflow"}

ArtifactLoads ==
    phase = "unusable" /\ DefinesFit(Document(source)) =>
        \A d \in Diagnostics(Document(artifact.lines)) :
            d.code \notin ErrorCodes \ ValueErrors

(***************************************************************************)
(* The processor and the world as the source sees them: the program        *)
(* counter through the source map, ra and the LineNumber of the housing in *)
(* source lines.                                                           *)
(***************************************************************************)
SourceCpu ==
    [cpu EXCEPT !.pc = IF phase # "running" THEN OperationAtOrAfter(reference, 0)
                       ELSE IF cpu.pc < prog.length THEN SourceLine(cpu.pc)
                       ELSE reference.length,
                !.regs[RA] = link]

SourceWorld == IF last = -1 THEN world ELSE Shown(world, "LineNumber", last)

Source == INSTANCE Ic10Machine WITH prog <- reference, cpu <- SourceCpu, world <- SourceWorld

(***************************************************************************)
(* Running an artifact is running its source: every step of the artifact,  *)
(* seen through the source map, is a step of the compiled source with the  *)
(* same effect on registers, stack and devices, but for the housing's      *)
(* LineNumber and for ra, which count the lines of the artifact.  The      *)
(* sources are Preservable: they use neither as data.                      *)
(***************************************************************************)
ArtifactRunsAsSource == Source!Spec
=============================================================================
