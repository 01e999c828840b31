---------------------------- MODULE Ic10Program ----------------------------
(***************************************************************************)
(* IC10 source as ic10-core parses it and as ic10-sim compiles it: the     *)
(* kinds of line, the tokens an operand can be, the classes of mnemonic,   *)
(* and the two ways the toolkit resolves a name.  The editor and the       *)
(* builder keep the FIRST declaration of a name (ic10-core, insert_symbol),*)
(* the simulator's compiler keeps the LAST (ic10-sim, Program::compile).   *)
(*                                                                         *)
(* A program is a sequence of lines; the code numbers lines from 0, so     *)
(* line n is p[n + 1].  Text is abstracted to tokens: a token is a pair    *)
(* whose first part says what the characters spell.                        *)
(***************************************************************************)
EXTENDS Integers, Sequences, FiniteSets, SequencesExt, FiniteSetsExt

CONSTANTS
    NumRegs,     \* REGISTER_COUNT: general registers, then sp, then ra
    StackSize,   \* architecture.stackSize
    Catalog,     \* prefab hashes the device data lists
    Readable,    \* field -> prefab hashes that let it be read
    Writable,    \* field -> prefab hashes that let it be written
    SlotIds,     \* slots of every device
    SlotFields,  \* the fields of a slot
    MaximumHops  \* the aliases, and the defines, the simulator follows for a name

ASSUME RegsAssumption == NumRegs \in Nat /\ NumRegs >= 3
ASSUME StackAssumption == StackSize \in Nat \ {0}
ASSUME HopsAssumption == MaximumHops \in Nat

SP == NumRegs - 2    \* STACK_POINTER_REGISTER
RA == NumRegs - 1    \* RETURN_ADDRESS_REGISTER

-----------------------------------------------------------------------------
(* Tokens.                                                                 *)

Reg(i) == <<"reg", i>>          \* r0 .. r15, sp, ra
Indirect(i) == <<"ind", i>>     \* rr0: the register whose number r0 holds
Num(v) == <<"num", v>>          \* a numeric literal
Name(n) == <<"name", n>>        \* an identifier
Pin(i) == <<"pin", i>>          \* d0 .. d5
PinOf(i) == <<"pinof", i>>      \* dr0: the device whose reference id r0 holds
Base == <<"base", 0>>           \* db
Wire(t, c) == <<"wire", <<t, c>>>>  \* db:0, d0:1: a device at one of its connections
Field(f) == <<"field", f>>      \* a member of the LogicType enum

IsReg(t) == t[1] \in {"reg", "ind"}
IsDevice(t) == t[1] \in {"pin", "pinof", "base", "wire"}
IsName(t) == t[1] = "name"

NoToken == <<"none", 0>>

\* What an operand can be.
Plain == {Base} \cup ({"pin"} \X Nat)
Tokens ==
    ({"reg", "ind", "pinof"} \X (0 .. (NumRegs - 1))) \cup ({"num"} \X Int)
        \cup ({"name", "field"} \X STRING) \cup Plain \cup ({"wire"} \X (Plain \X Nat))

-----------------------------------------------------------------------------
(* Lines.  A line of blanks or of a comment only is Empty: both leave no   *)
(* token before the comment mark.                                          *)

NoOp == "none"                  \* the mnemonic of a line without one
Empty == [kind |-> "empty", op |-> NoOp, args |-> <<>>]
Label(n) == [kind |-> "label", op |-> NoOp, args |-> <<Name(n)>>]
Instr(op, args) == [kind |-> "instruction", op |-> op, args |-> args]

\* A parsed text.
TextLine == [kind : {"empty", "label", "instruction"}, op : STRING \cup {NoOp}, args : Seq(Tokens)]
Texts == Seq(TextLine)

Lines(p) == 0 .. (Len(p) - 1)
LineAt(p, n) == p[n + 1]

\* The line's last operand, where a branch has its target.
Target(line) == IF line.args = <<>> THEN NoToken ELSE line.args[Len(line.args)]

-----------------------------------------------------------------------------
(* Classes of mnemonic.  The code tells them apart by spelling: b... but   *)
(* not br..., and not the four device branches.                            *)

ComparisonBranches == {"beq", "bnez", "beqz"}
DeviceBranches == {"bdse", "bdns", "bdnvl"}

AbsoluteBranches == {"j", "jal", "bdseal", "bnezal"} \cup ComparisonBranches
RelativeBranches == {"jr", "brnez", "brdse"}
Branches == AbsoluteBranches \cup RelativeBranches
UnconditionalBranches == {"j", "jr"}
LinkBranches == {"jal", "bdseal", "bnezal"}

Declarations == {"define", "alias"}

\* Batch accesses, and where each has its operands.
BatchLoads == {"lb", "lbn", "lbs", "lbns"}
BatchStores == {"sb", "sbn", "sbs"}
BatchOps == BatchLoads \cup BatchStores
HashAt(op) == IF op \in BatchLoads THEN 2 ELSE 1
NameAt(op) == HashAt(op) + 1
SlotAt(op) == IF op \in {"lbn", "lbns", "sbn"} THEN HashAt(op) + 2 ELSE HashAt(op) + 1
FieldAt(op) == IF op \in {"lbs", "lbns", "sbs"} THEN SlotAt(op) + 1 ELSE SlotAt(op)
IsNamed(op) == op \in {"lbn", "lbns", "sbn"}
IsSlotted(op) == op \in {"lbs", "lbns", "sbs"}

\* The operand kinds of each instruction, from the generated instruction data.
Signature(op) ==
    CASE op \in {"add", "sub", "mul", "mod", "max", "min", "seq", "sne", "sge", "sgt"} ->
            <<"register", "number", "number">>
      [] op \in {"select", "clamp"} -> <<"register", "number", "number", "number">>
      [] op \in {"move", "seqz", "snez", "abs", "sgn"} -> <<"register", "number">>
      [] op \in {"j", "jal", "jr"} -> <<"integer">>
      [] op = "beq" -> <<"number", "number", "number">>
      [] op \in {"bnez", "beqz", "bnezal", "brnez"} -> <<"number", "number">>
      [] op \in {"bdse", "bdns", "bdseal", "brdse"} -> <<"device", "number">>
      [] op = "bdnvl" -> <<"device", "logicType", "number">>
      [] op \in {"pop", "peek"} -> <<"register">>
      [] op \in {"push", "sleep"} -> <<"number">>
      [] op = "poke" -> <<"address", "number">>
      [] op = "get" -> <<"register", "device", "address">>
      [] op = "put" -> <<"device", "address", "number">>
      [] op = "clr" -> <<"pin">>
      [] op = "l" -> <<"register", "device", "logicType">>
      [] op = "s" -> <<"device", "logicType", "number">>
      [] op = "ls" -> <<"register", "device", "slotIndex", "logicType">>
      [] op = "ss" -> <<"device", "slotIndex", "logicType", "number">>
      [] op = "ld" -> <<"register", "number", "logicType">>
      [] op = "sd" -> <<"number", "logicType", "number">>
      [] op = "lb" -> <<"register", "hash", "logicType", "hash">>
      [] op = "lbn" -> <<"register", "hash", "hash", "logicType", "hash">>
      [] op = "lbs" -> <<"register", "hash", "slotIndex", "logicType", "hash">>
      [] op = "lbns" -> <<"register", "hash", "hash", "slotIndex", "logicType", "hash">>
      [] op = "sb" -> <<"hash", "logicType", "number">>
      [] op = "sbn" -> <<"hash", "hash", "logicType", "number">>
      [] op = "sbs" -> <<"hash", "slotIndex", "logicType", "number">>
      [] op = "sdse" -> <<"register", "device">>
      [] op = "define" -> <<"name", "number">>
      [] op = "alias" -> <<"name", "registerOrDevice">>
      [] OTHER -> <<>>                                   \* yield, hcf

Mnemonics ==
    Branches \cup DeviceBranches \cup Declarations \cup
    {"move", "add", "sub", "mul", "mod", "max", "min", "abs", "sgn", "clamp",
     "seq", "sne", "sge", "sgt", "seqz", "snez", "select",
     "push", "pop", "peek", "poke", "get", "put", "clr", "l", "s", "ls", "ss",
     "ld", "sd", "sdse", "yield", "sleep", "hcf"} \cup BatchOps

\* The last line of a file ends in a newline: the parser adds an empty line.
Document(src) == Append(src, Empty)

-----------------------------------------------------------------------------
(* Declarations, as collect_declarations meets them.                       *)

DeclaresOn(p, n) ==
    /\ LineAt(p, n).args # <<>>
    /\ \/ LineAt(p, n).kind = "label"
       \/ LineAt(p, n).kind = "instruction" /\ LineAt(p, n).op \in Declarations
    /\ IsName(LineAt(p, n).args[1])

NameOn(p, n) == LineAt(p, n).args[1][2]

Names(p) == {NameOn(p, n) : n \in {k \in Lines(p) : DeclaresOn(p, k)}}

DeclarationsOf(p, x) == {n \in Lines(p) : DeclaresOn(p, n) /\ NameOn(p, n) = x}

\* insert_symbol: the first declaration stays.
DeclarationLine(p, x) == Min(DeclarationsOf(p, x))

SymbolKind(p, x) ==
    LET line == LineAt(p, DeclarationLine(p, x))
    IN  IF line.kind = "label" THEN "label" ELSE line.op

\* The value of a symbol: none for a label.
SymbolValue(p, x) ==
    LET line == LineAt(p, DeclarationLine(p, x))
    IN  IF line.kind = "label" \/ Len(line.args) < 2 THEN NoToken ELSE line.args[2]

IsSymbol(p, t) == IsName(t) /\ t[2] \in Names(p)
IsLabel(p, t) == IsSymbol(p, t) /\ SymbolKind(p, t[2]) = "label"

HasDuplicates(p) == \E x \in Names(p) : Cardinality(DeclarationsOf(p, x)) > 1

\* Follow a token through the symbol table for as many hops as there are names.
Chase(p, t) ==
    LET hops == Cardinality(Names(p))
        at[k \in 0 .. hops] ==
            IF k = 0 THEN t
            ELSE IF IsSymbol(p, at[k - 1]) THEN SymbolValue(p, at[k - 1][2])
            ELSE at[k - 1]
    IN  at[hops]

\* A chain that is still at a name after that many hops comes back on itself.
InCycle(p, x) == IsSymbol(p, Chase(p, Name(x)))

\* resolve_symbol_value: a label on the way, or a cycle, resolves to nothing.
Settled(p, end) == IF IsSymbol(p, end) THEN NoToken ELSE end
Resolve(p, t) == Settled(p, Chase(p, t))

\* resolve_number: a literal, or a name that leads to one.
ResolvesToNumber(p, t) == Resolve(p, t)[1] = "num"
NumberOf(p, t) == Resolve(p, t)[2]

ResolvesToRegister(p, t) == IsReg(Resolve(p, t))

-----------------------------------------------------------------------------
(***************************************************************************)
(* Program::compile.  Labels, defines and aliases go into maps of their    *)
(* own, so a later declaration of the same kind replaces an earlier one;   *)
(* every other instruction is an operation at its line.                    *)
(***************************************************************************)
LastOf(p, x, kinds) ==
    Max({n \in DeclarationsOf(p, x) :
            (IF LineAt(p, n).kind = "label" THEN "label" ELSE LineAt(p, n).op) \in kinds})

DeclaredAs(p, kind) ==
    {NameOn(p, n) : n \in {k \in Lines(p) :
        /\ DeclaresOn(p, k)
        /\ (IF LineAt(p, k).kind = "label" THEN "label" ELSE LineAt(p, k).op) = kind}}

Compile(p) ==
    [length     |-> Len(p),
     operations |-> [n \in {k \in Lines(p) : /\ LineAt(p, k).kind = "instruction"
                                             /\ LineAt(p, k).op \notin Declarations}
                        |-> [op |-> LineAt(p, n).op, args |-> LineAt(p, n).args]],
     labels     |-> [x \in DeclaredAs(p, "label") |-> LastOf(p, x, {"label"})],
     defines    |-> [x \in DeclaredAs(p, "define") |->
                        LineAt(p, LastOf(p, x, {"define"})).args[2]],
     aliases    |-> [x \in DeclaredAs(p, "alias") |->
                        LineAt(p, LastOf(p, x, {"alias"})).args[2]]]

\* Mutant: a line without an operation is taken for one.
OperationAtOrAfter_Exact(prog, n) == IF n < prog.length THEN n ELSE prog.length

\* operation_at_or_after: the line of the operation a program counter selects,
\* the program's length when none is left.
OperationAtOrAfter(prog, n) ==
    LET later == {k \in DOMAIN prog.operations : k >= n}
    IN  IF later = {} THEN prog.length ELSE Min(later)

\* The hops through a table: as many as it has names come to the end of every
\* chain that has one, if the limit allows.
Hops(table) ==
    IF Cardinality(DOMAIN table) <= MaximumHops THEN Cardinality(DOMAIN table) ELSE MaximumHops

\* resolve_alias: a chain longer than the limit is left at one of its names.
ResolveAlias(prog, t) ==
    LET hops == Hops(prog.aliases)
        at[k \in 0 .. hops] ==
            IF k = 0 THEN t
            ELSE IF IsName(at[k - 1]) /\ at[k - 1][2] \in DOMAIN prog.aliases
                 THEN prog.aliases[at[k - 1][2]]
            ELSE at[k - 1]
    IN  at[hops]

\* resolve_number of the compiled program: aliases, then defines, then labels.
\* NoToken when the operand has no number.
ResolveNumber(prog, t) ==
    LET hops == Hops(prog.defines)
        at[k \in 0 .. hops] ==
            IF k = 0 THEN ResolveAlias(prog, t)
            ELSE IF IsName(at[k - 1]) /\ at[k - 1][2] \in DOMAIN prog.defines
                 THEN prog.defines[at[k - 1][2]]
            ELSE at[k - 1]
        last == at[hops]
    IN  IF IsName(last) /\ last[2] \in DOMAIN prog.labels THEN Num(prog.labels[last[2]])
        ELSE IF last[1] = "num" THEN last
        ELSE NoToken
=============================================================================
