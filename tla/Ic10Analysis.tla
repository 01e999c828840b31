---------------------------- MODULE Ic10Analysis ----------------------------
(***************************************************************************)
(* The diagnostics ic10-core reports for a program (analysis.rs, and       *)
(* collect_declarations of lib.rs): the errors that keep a program from    *)
(* being built or run, and the warnings and hints about control flow,      *)
(* registers and the stack.  A diagnostic is the line it is on and its     *)
(* code; its wording and span are left out.                                *)
(***************************************************************************)
EXTENDS Ic10Program

CONSTANTS
    MaximumProgramLines,   \* architecture.maximumProgramLines
    Abbreviates            \* pairs of names: the first is a proper beginning of the second

ASSUME MaximumAssumption == MaximumProgramLines \in Nat \ {0}

Diagnostic(n, c) == [line |-> n, code |-> c]

ErrorCodes == {"unknown-instruction", "operand-count", "symbol-cycle", "invalid-operand",
               "invalid-branch-target", "division-by-zero", "invalid-address",
               "stack-overflow", "stack-underflow",
               "unsupported", "read-only", "write-only"}

IsInstruction(p, n) == LineAt(p, n).kind = "instruction"

InstructionLines(p) == {n \in Lines(p) : IsInstruction(p, n)}

-----------------------------------------------------------------------------
(* Symbols.                                                                *)

\* collect_declarations: a mnemonic the instruction data does not list, or the
\* wrong number of operands.
UnknownInstructions(p) ==
    {Diagnostic(n, "unknown-instruction") :
        n \in {k \in InstructionLines(p) : LineAt(p, k).op \notin Mnemonics}}

OperandCounts(p) ==
    {Diagnostic(n, "operand-count") :
        n \in {k \in InstructionLines(p) :
            /\ LineAt(p, k).op \in Mnemonics
            /\ Len(LineAt(p, k).args) # Len(Signature(LineAt(p, k).op))}}

\* insert_symbol: a second declaration is only a warning.
DuplicateSymbols(p) ==
    {Diagnostic(n, "duplicate-symbol") :
        n \in {k \in Lines(p) : DeclaresOn(p, k) /\ DeclarationLine(p, NameOn(p, k)) # k}}

\* validate_symbol_cycles.
SymbolCycles(p) ==
    {Diagnostic(DeclarationLine(p, x), "symbol-cycle") : x \in {y \in Names(p) : InCycle(p, y)}}

\* collect_occurrences: the lines that use a name other than to declare it.
UsesOf(p, x) ==
    {n \in InstructionLines(p) :
        \E i \in DOMAIN LineAt(p, n).args :
            /\ LineAt(p, n).args[i] = Name(x)
            /\ ~ (n = DeclarationLine(p, x) /\ i = 1)}

\* add_unused_symbol_diagnostics; the exemption of _names is left out.
UnusedSymbols(p) ==
    {Diagnostic(DeclarationLine(p, x), "unused-symbol") : x \in {y \in Names(p) : UsesOf(p, y) = {}}}

-----------------------------------------------------------------------------
(* Operands.                                                               *)

\* operand_is_valid, by the operand kind of the generated instruction data.
OperandIsValid(p, t, kind) ==
    LET r == Resolve(p, t)
    IN  CASE kind = "register" -> IsReg(r)
          [] kind \in {"number", "address"} -> IsReg(r) \/ r[1] = "num"
          [] kind = "device" -> IsDevice(r) \/ IsReg(r) \/ r[1] = "num"
          [] kind = "pin" -> IsDevice(r)
          [] kind = "registerOrDevice" -> IsReg(r) \/ IsDevice(r)
          [] kind = "logicType" -> t[1] = "field" \/ r[1] = "num"
          [] kind = "hash" -> r[1] = "num"
          [] kind = "slotIndex" -> IsReg(r) \/ (r[1] = "num" /\ r[2] >= 0)
          [] kind = "integer" -> IsReg(r) \/ IsLabel(p, t) \/ r[1] = "num"
          [] OTHER -> IsName(t)

\* looks_incomplete: a declared name, or the beginning of one, is not reported,
\* whatever the operand should be.  The constants of the language data (pi) are
\* left out, and the beginnings of their names with them.
LooksIncomplete(p, t) ==
    IsName(t) /\ \E x \in Names(p) : t[2] = x \/ <<t[2], x>> \in Abbreviates

\* validate_operands.
InvalidOperands(p) ==
    {Diagnostic(n, "invalid-operand") :
        n \in {k \in InstructionLines(p) :
            \E i \in DOMAIN LineAt(p, k).args \cap DOMAIN Signature(LineAt(p, k).op) :
                /\ ~ OperandIsValid(p, LineAt(p, k).args[i], Signature(LineAt(p, k).op)[i])
                /\ ~ LooksIncomplete(p, LineAt(p, k).args[i])}}

\* validate_access: the fields an access may read or write.
AccessCodes(write, readers, writers, x) ==
    IF x \notin readers \cup writers THEN {"unsupported"}
    ELSE IF write /\ x \notin writers THEN {"read-only"}
    ELSE IF ~ write /\ x \notin readers THEN {"write-only"}
    ELSE {}

\* validate_known_batch_access: a batch access to a prefab the device data
\* lists, by a slot or a field it does not have or does not let be used this way.
BatchAccessErrors(p) ==
    LET op(n) == LineAt(p, n).op
        arg(n, i) == LineAt(p, n).args[i]
        hash(n) == arg(n, HashAt(op(n)))
        slot(n) == arg(n, SlotAt(op(n)))
        f(n) == arg(n, FieldAt(op(n)))[2]
        codes(n) ==
            IF ~ IsSlotted(op(n))
            THEN AccessCodes(op(n) \in BatchStores, Readable[f(n)], Writable[f(n)], NumberOf(p, hash(n)))
            ELSE IF ~ ResolvesToNumber(p, slot(n)) \/ NumberOf(p, slot(n)) < 0 THEN {}
            ELSE IF NumberOf(p, slot(n)) \notin SlotIds THEN {"unsupported"}
            ELSE AccessCodes(op(n) \in BatchStores, SlotFields, SlotFields, f(n))
    IN  UNION {{Diagnostic(n, c) : c \in codes(n)} :
                n \in {k \in InstructionLines(p) :
                    /\ LineAt(p, k).op \in BatchOps /\ Len(LineAt(p, k).args) >= FieldAt(op(k))
                    /\ ResolvesToNumber(p, hash(k)) /\ NumberOf(p, hash(k)) \in Catalog
                    /\ arg(k, FieldAt(op(k)))[1] = "field"}}

-----------------------------------------------------------------------------
(* Control flow.                                                           *)

IsBranchLine(p, n) == IsInstruction(p, n) /\ LineAt(p, n).op \in Branches

(***************************************************************************)
(* branch_target: the line a branch leads to, -1 when the text does not    *)
(* say.  A label is its declaration line even for a relative branch.       *)
(***************************************************************************)
BranchTarget(p, n) ==
    LET t == Target(LineAt(p, n))
        v == NumberOf(p, t)
    IN  IF IsLabel(p, t) THEN DeclarationLine(p, t[2])
        ELSE IF ~ ResolvesToNumber(p, t) THEN -1
        ELSE IF LineAt(p, n).op \in RelativeBranches
             THEN IF n + v >= 0 THEN n + v ELSE -1
        ELSE IF v >= 0 THEN v ELSE -1

InvalidTargets(p) ==
    {Diagnostic(n, "invalid-branch-target") :
        n \in {k \in Lines(p) : IsBranchLine(p, k) /\ BranchTarget(p, k) >= Len(p)}}

\* A branch whose destination only the run can tell: the analysis then says
\* nothing about reachability.
DynamicTarget(p) ==
    \E n \in Lines(p) :
        /\ IsBranchLine(p, n)
        /\ BranchTarget(p, n) \notin Lines(p)
        /\ LET t == Target(LineAt(p, n))
           IN  \/ ResolvesToRegister(p, t)
               \/ IsSymbol(p, t) /\ SymbolKind(p, t[2]) = "alias"

\* Mutant: no edge to the line after a call.
FallsThrough_NotAfterCalls(p, n) ==
    \/ ~ IsInstruction(p, n)
    \/ LineAt(p, n).op \notin {"hcf"} \cup UnconditionalBranches \cup LinkBranches

\* The lines control can pass from to the next line.
FallsThrough(p, n) ==
    \/ ~ IsInstruction(p, n)
    \/ LineAt(p, n).op \notin {"hcf"} \cup (UnconditionalBranches \ LinkBranches)

\* analyze_control_flow: the edges out of a line.
Edges(p, n) ==
    ((IF FallsThrough(p, n) THEN {n + 1} ELSE {})
        \cup (IF IsBranchLine(p, n) THEN {BranchTarget(p, n)} ELSE {})) \cap Lines(p)

\* The breadth-first search from line 0.
Reachable(p) ==
    LET within[k \in 0 .. Len(p)] ==
            IF k = 0 THEN {0} \cap Lines(p)
            ELSE within[k - 1] \cup UNION {Edges(p, n) : n \in within[k - 1]}
    IN  within[Len(p)]

UnreachableCode(p) ==
    IF DynamicTarget(p) THEN {}
    ELSE {Diagnostic(n, "unreachable-code") :
            n \in {k \in Lines(p) \ Reachable(p) : LineAt(p, k).kind # "empty"}}

TickBoundaries == {"yield", "sleep", "hcf"}

\* A jump back with nothing on the way that ends the tick.
TightLoops(p) ==
    {Diagnostic(n, "tight-loop") :
        n \in {k \in Lines(p) :
            /\ IsBranchLine(p, k) /\ LineAt(p, k).op \in UnconditionalBranches
            /\ BranchTarget(p, k) \in 0 .. k
            /\ \A m \in BranchTarget(p, k) .. k : LineAt(p, m).op \notin TickBoundaries}}

\* constant_branch_result: the value of a condition whose operands are constants.
ConstantBranches(p) ==
    {Diagnostic(n, "constant-branch") :
        n \in {k \in Lines(p) :
            /\ IsBranchLine(p, k) /\ LineAt(p, k).op \in {"beq", "beqz", "bnez", "bnezal", "brnez"}
            /\ \A i \in 1 .. (Len(LineAt(p, k).args) - 1) :
                   ResolvesToNumber(p, LineAt(p, k).args[i])}}

-----------------------------------------------------------------------------
(***************************************************************************)
(* analyze_return_address_clobbering: from the target of a call, read on   *)
(* to the next label, to a return, or to a call made before ra was pushed. *)
(***************************************************************************)
DirectRegister(p, t) == IF Resolve(p, t)[1] = "reg" THEN Resolve(p, t)[2] ELSE -1

SavesReturn(p, n) ==
    LineAt(p, n).op = "push" /\ DirectRegister(p, LineAt(p, n).args[1]) = RA

Returns(p, n) ==
    LineAt(p, n).op = "j" /\ DirectRegister(p, LineAt(p, n).args[1]) = RA

IsCall(p, n) == IsInstruction(p, n) /\ LineAt(p, n).op \in LinkBranches

ClobberedFrom(p, target) ==
    {n \in Lines(p) :
        /\ n >= target /\ IsCall(p, n)
        /\ \A m \in target .. (n - 1) :
              /\ LineAt(p, m).kind = "label" => m = target
              /\ IsInstruction(p, m) => ~ SavesReturn(p, m) /\ ~ IsCall(p, m) /\ ~ Returns(p, m)}

ReturnAddressClobbers(p) ==
    {Diagnostic(n, "return-address-clobber") :
        n \in UNION {ClobberedFrom(p, BranchTarget(p, k)) :
                        k \in {c \in Lines(p) : IsCall(p, c) /\ BranchTarget(p, c) \in Lines(p)}}}

-----------------------------------------------------------------------------
(***************************************************************************)
(* analyze_straight_line_values, one pass over the lines in text order.    *)
(* The scan knows the stack pointer ({v}, or {}), the registers written    *)
(* so far and, per register, the line of a write nothing has read yet.     *)
(* A label or a branch ends what it knows; alias and define are no         *)
(* operations.                                                             *)
(***************************************************************************)
ScanStart == [n |-> 0, pointer |-> {0}, entry |-> TRUE, written |-> {},
              unread |-> [r \in 0 .. (NumRegs - 1) |-> -1], found |-> {}]

Forget(s) == [s EXCEPT !.pointer = {}, !.entry = FALSE,
                       !.unread = [r \in 0 .. (NumRegs - 1) |-> -1]]

\* One register operand: a write replaces an unread one, a read clears it.
ScanRegister(s, r, isWrite) ==
    LET overwritten == IF isWrite /\ s.unread[r] # -1
                       THEN {Diagnostic(s.unread[r], "unused-register-write")} ELSE {}
        early == IF ~ isWrite /\ s.entry /\ r \notin {SP, RA} \cup s.written
                 THEN {Diagnostic(s.n, "register-before-write")} ELSE {}
    IN  [s EXCEPT !.unread[r] = IF isWrite THEN s.n ELSE -1,
                  !.written = IF isWrite \/ early # {} THEN @ \cup {r} ELSE @,
                  !.found = @ \cup overwritten \cup early]

ScanOperands(p, s, line) ==
    LET kinds == Signature(line.op)
        after[i \in 0 .. Len(line.args)] ==
            IF i = 0 THEN s
            ELSE LET r == DirectRegister(p, line.args[i])
                 IN  IF r = -1 THEN after[i - 1]
                     ELSE ScanRegister(after[i - 1], r, i <= Len(kinds) /\ kinds[i] = "register")
    IN  after[Len(line.args)]

\* A constant divisor of zero, and a constant address below zero or past the stack.
ConstantFaults(p, n) ==
    LET line == LineAt(p, n)
        at == {i \in DOMAIN line.args \cap DOMAIN Signature(line.op) :
                    Signature(line.op)[i] = "address"}
    IN  (IF line.op = "mod" /\ Resolve(p, Target(line)) = Num(0)
         THEN {Diagnostic(n, "division-by-zero")} ELSE {})
        \cup
        (IF \E i \in at : /\ ResolvesToNumber(p, line.args[i])
                          /\ \/ NumberOf(p, line.args[i]) < 0
                             \/ line.op = "poke" /\ NumberOf(p, line.args[i]) >= StackSize
         THEN {Diagnostic(n, "invalid-address")} ELSE {})

\* push, pop, peek and move sp, as far as the pointer is known.
ScanStack(p, s, line) ==
    CASE line.op = "move" /\ line.args[1] = Reg(SP) ->
            [s EXCEPT !.pointer = IF ResolvesToNumber(p, line.args[2])
                                  THEN {NumberOf(p, line.args[2])} ELSE {}]
      [] line.op = "push" ->
            IF \E v \in s.pointer : v >= StackSize
            THEN [s EXCEPT !.found = @ \cup {Diagnostic(s.n, "stack-overflow")}]
            ELSE [s EXCEPT !.pointer = {v + 1 : v \in @}]
      [] line.op = "pop" ->
            IF \E v \in s.pointer : v <= 0
            THEN [s EXCEPT !.found = @ \cup {Diagnostic(s.n, "stack-underflow")}]
            ELSE [s EXCEPT !.pointer = {v - 1 : v \in @}]
      [] line.op = "peek" /\ s.pointer = {0} ->
            [s EXCEPT !.found = @ \cup {Diagnostic(s.n, "stack-underflow")}]
      [] OTHER -> s

ScanLine(p, s, line) ==
    LET known == IF line.op \in Branches THEN Forget(s) ELSE s
        read == ScanOperands(p, known, line)
    IN  CASE line.kind = "label" -> Forget(s)
          [] line.kind = "empty" -> s
          [] line.kind = "instruction" /\ line.op \in Declarations -> s
          [] OTHER -> ScanStack(p, [read EXCEPT !.found = @ \cup ConstantFaults(p, s.n)], line)

\* The scan in front of each line, and at the end.
Scans(p) ==
    LET before[n \in 0 .. Len(p)] ==
            IF n = 0 THEN ScanStart
            ELSE [ScanLine(p, before[n - 1], LineAt(p, n - 1)) EXCEPT !.n = n]
    IN  before

StraightLineValues(p) == Scans(p)[Len(p)].found

-----------------------------------------------------------------------------
(***************************************************************************)
(* estimate_operations: the longest run of operations between two yields   *)
(* or sleeps of a program without branches, -1 when it has branches.       *)
(***************************************************************************)
\* Mutant: the count starts over at a yield without counting the yield.
CountLine_YieldFree(s, line) ==
    IF s.done \/ line.kind # "instruction" \/ line.op \in Declarations THEN s
    ELSE [current |-> IF line.op \in {"yield", "sleep"} THEN 0 ELSE s.current + 1,
          maximum |-> IF line.op \in {"yield", "sleep"} THEN s.maximum
                      ELSE Max({s.maximum, s.current + 1}),
          done |-> line.op = "hcf"]

\* One line of the count: its operations since the last wait, the most so far,
\* and whether an hcf has ended it.
CountLine(s, line) ==
    IF s.done \/ line.kind # "instruction" \/ line.op \in Declarations THEN s
    ELSE [current |-> IF line.op \in {"yield", "sleep"} THEN 0 ELSE s.current + 1,
          maximum |-> Max({s.maximum, s.current + 1}),
          done |-> line.op = "hcf"]

\* The count in front of each line, and at the end.
Counts(p) ==
    LET before[n \in 0 .. Len(p)] ==
            IF n = 0 THEN [current |-> 0, maximum |-> 0, done |-> FALSE]
            ELSE CountLine(before[n - 1], LineAt(p, n - 1))
    IN  before

EstimateOperations(p) ==
    IF \E n \in Lines(p) : IsBranchLine(p, n) THEN -1 ELSE Counts(p)[Len(p)].maximum

\* program-too-long: a warning on the first line past the limit; the empty
\* line after the last newline does not count.
TooLong(p) ==
    IF Len(p) - 1 > MaximumProgramLines
    THEN {Diagnostic(MaximumProgramLines, "program-too-long")} ELSE {}

\* Document::diagnostics.
Diagnostics(p) ==
    UNION {UnknownInstructions(p), OperandCounts(p), DuplicateSymbols(p),
           SymbolCycles(p), UnusedSymbols(p), InvalidOperands(p), BatchAccessErrors(p), InvalidTargets(p),
           UnreachableCode(p), TightLoops(p), ConstantBranches(p),
           ReturnAddressClobbers(p), StraightLineValues(p), TooLong(p)}

HasErrors(p) == \E d \in Diagnostics(p) : d.code \in ErrorCodes
=============================================================================
