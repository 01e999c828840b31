--------------------------- MODULE Ic10Operations ---------------------------
(***************************************************************************)
(* What one IC10 operation does (simulator.rs, execute_operation and the   *)
(* functions it calls): a function from the processor and the world before *)
(* to the processor and the world after.  Numbers are integers: the        *)
(* instructions that leave them (division, trigonometry, NaN) are left     *)
(* out, as are rand and the bit operations, which read operands and write  *)
(* one register like the arithmetic below.                                 *)
(*                                                                         *)
(* The processor is a record [pc, regs, stack, state], the world a record  *)
(* [fields, memory, slots] of functions over devices, with the channel of  *)
(* the one cable.                                                          *)
(***************************************************************************)
EXTENDS Ic10Program

CONSTANTS
    Devices,      \* the devices of the world
    Housing,      \* the device the IC sits in: db
    PinOfDevice,  \* pins that are set: pin number -> device
    Prefab,       \* prefab hash of each device
    OnNetwork,    \* the devices on the data network of connection 0, in order
    Fields,       \* LogicType names
    MemorySize,   \* words of device memory, of every device but the housing
    NameHash,     \* hash of the name of each device
    DeviceOfId,   \* reference id -> device
    Attached      \* the connections of each device that are on the cable

ASSUME WorldAssumption ==
    /\ Housing \in Devices
    /\ MemorySize \in Nat
    /\ {"LineNumber", "Error"} \subseteq Fields
    /\ SlotIds \subseteq Nat /\ SlotFields \subseteq Fields
    /\ \A i \in DOMAIN PinOfDevice : PinOfDevice[i] \in Devices

RegisterSet == 0 .. (NumRegs - 1)

\* World::new: a housing has no memory of its own.
MemoryOf(d) == IF d = Housing THEN 0 ELSE MemorySize

\* device_by_reference: every device of the world has an id, on the network or not.
ASSUME ReferenceAssumption == {DeviceOfId[id] : id \in DOMAIN DeviceOfId} = Devices

HasReference(id) == id \in DOMAIN DeviceOfId
DeviceByReference(id) == DeviceOfId[id]

-----------------------------------------------------------------------------
(* Operands.  NoRegister and NoToken stand for an operand that does not    *)
(* resolve; the operation then fails.                                      *)

NoRegister == -1

\* register_index: rr0 is the register r0 points at.
RegisterIndex(prog, cpu, t) ==
    LET r == ResolveAlias(prog, t)
    IN  CASE r[1] = "reg" -> r[2]
          [] r[1] = "ind" -> IF cpu.regs[r[2]] \in RegisterSet THEN cpu.regs[r[2]] ELSE NoRegister
          [] OTHER -> NoRegister

\* value: a register, or a number the program resolves.
Value(prog, cpu, t) ==
    IF RegisterIndex(prog, cpu, t) # NoRegister
    THEN Num(cpu.regs[RegisterIndex(prog, cpu, t)])
    ELSE ResolveNumber(prog, t)

\* The device and the connection of db:0; no connection is -1.
DeviceToken(t) == IF t[1] = "wire" THEN t[2][1] ELSE t
Connection(t) == IF t[1] = "wire" THEN t[2][2] ELSE -1

\* device_reference: db, a pin, dr0, a register or a literal reference id.
NoDevice == "no-device"

DeviceReference(prog, cpu, t) ==
    LET r == DeviceToken(ResolveAlias(prog, t))
        id == IF r[1] = "pinof" THEN Num(cpu.regs[r[2]]) ELSE Value(prog, cpu, r)
    IN  CASE r[1] = "base" -> Housing
          [] r[1] = "pin" -> IF r[2] \in DOMAIN PinOfDevice THEN PinOfDevice[r[2]] ELSE NoDevice
          [] OTHER -> IF id # NoToken /\ HasReference(id[2])
                      THEN DeviceByReference(id[2]) ELSE NoDevice

\* logic_name: a LogicType name; numbers that stand for one are left out.
LogicName(t) == t[2]

\* read_field and write_field: a channel belongs to the cable of a connection,
\* any other field to the device, with the access flags of its prefab.
Channel == "Channel0"
CanRead(d, c, f) ==
    d \in Devices /\ f \in Fields /\ IF f = Channel THEN c \in Attached[d] ELSE Prefab[d] \in Readable[f]
CanWrite(d, c, f) ==
    d \in Devices /\ f \in Fields /\ IF f = Channel THEN c \in Attached[d] ELSE Prefab[d] \in Writable[f]

\* A device without a connection is no device on a cable, and the device data
\* lists channels for no prefab.
ASSUME AccessAssumption ==
    /\ NoDevice \notin Devices
    /\ OnNetwork \in Seq(Devices)
    /\ \A d \in Devices : Attached[d] \subseteq Nat
    /\ Channel \in Fields => Readable[Channel] = {} /\ Writable[Channel] = {}

ReadField(world, d, f) == IF f = Channel THEN world.channel ELSE world.fields[d][f]
WriteField(world, d, f, v) ==
    IF f = Channel THEN [world EXCEPT !.channel = v] ELSE [world EXCEPT !.fields[d][f] = v]

-----------------------------------------------------------------------------
(* Results.  Every operation first moves the program counter to the next   *)
(* line; a failed one leaves what it did before the failure.               *)

Result(cpu, world) == [cpu |-> cpu, world |-> world]

Fail(cpu, world) ==
    Result([cpu EXCEPT !.state = "Error"], world)

WriteRegister(prog, cpu, world, t, v) ==
    LET i == RegisterIndex(prog, cpu, t)
    IN  IF i = NoRegister \/ v = NoToken THEN Fail(cpu, world)
        ELSE Result([cpu EXCEPT !.regs[i] = v[2]], world)

Bool(b) == IF b THEN 1 ELSE 0

-----------------------------------------------------------------------------
(* Arithmetic and selection.                                               *)

ArithmeticOps == {"move", "add", "sub", "mul", "mod", "max", "min", "abs", "sgn", "clamp"}
SelectionOps == {"seq", "sne", "sge", "sgt", "seqz", "snez", "select"}
AluOps == ArithmeticOps \cup SelectionOps

\* mod takes the sign of the divisor, below zero too; modulo zero is NaN.
Arithmetic(op, v) ==
    CASE op = "move" -> v[1]
      [] op = "add" -> v[1] + v[2]
      [] op = "sub" -> v[1] - v[2]
      [] op = "mul" -> v[1] * v[2]
      [] op = "mod" -> IF v[2] < 0 THEN - ((- v[1]) % (- v[2])) ELSE v[1] % v[2]
      [] op = "max" -> Max({v[1], v[2]})
      [] op = "min" -> Min({v[1], v[2]})
      [] op = "abs" -> Max({v[1], - v[1]})
      [] op = "sgn" -> IF v[1] > 0 THEN 1 ELSE IF v[1] < 0 THEN -1 ELSE 0
      [] op = "clamp" -> Min({Max({v[1], v[2]}), v[3]})

Selection(op, v) ==
    CASE op = "select" -> IF v[1] # 0 THEN v[2] ELSE v[3]
      [] op \in {"seq", "seqz"} -> Bool(v[1] = v[2])
      [] op \in {"sne", "snez"} -> Bool(v[1] # v[2])
      [] op = "sge" -> Bool(v[1] >= v[2])
      [] op = "sgt" -> Bool(v[1] > v[2])

\* The operands an operation evaluates: select only the value it selects.
Evaluated(o, v) ==
    IF o.op = "select" /\ v[1] # NoToken
    THEN {1, IF v[1][2] # 0 THEN 2 ELSE 3} ELSE DOMAIN v

\* unary, binary and their selecting forms; a comparison with zero has 0 for
\* its second value.
ExecuteAlu(prog, o, cpu, world) ==
    LET n == Len(o.args) - 1
        v == [i \in 1 .. n |-> Value(prog, cpu, o.args[i + 1])]
        x == [i \in 1 .. (n + 1) |-> IF i \in Evaluated(o, v) THEN v[i][2] ELSE 0]
    IN  IF \E i \in Evaluated(o, v) : v[i] = NoToken THEN Fail(cpu, world)
        ELSE WriteRegister(prog, cpu, world, o.args[1],
                 Num(IF o.op \in ArithmeticOps THEN Arithmetic(o.op, x) ELSE Selection(o.op, x)))

-----------------------------------------------------------------------------
(* Branches.                                                               *)

\* line_target and relative_target.
TargetLine(o, line, v) == IF o.op \in RelativeBranches THEN line + v ELSE v

\* branch_to: the return address is written before the target is checked; jal
\* writes it before it evaluates its target.
BranchTo(prog, o, line, cpu, world) ==
    LET linked == IF o.op \in LinkBranches THEN [cpu EXCEPT !.regs[RA] = line + 1] ELSE cpu
        v == Value(prog, IF o.op = "jal" THEN linked ELSE cpu, Target(o))
    IN  IF v = NoToken THEN Fail(IF o.op = "jal" THEN linked ELSE cpu, world)
        ELSE IF TargetLine(o, line, v[2]) < 0 THEN Fail(linked, world)
        ELSE Result([linked EXCEPT !.pc = TargetLine(o, line, v[2])], world)

BranchOps == Branches \cup DeviceBranches

\* Whether the branch is taken: "yes", "no", or "fail" for an operand without a value.
Taken(prog, o, cpu) ==
    LET v(i) == Value(prog, cpu, o.args[i])
        set == DeviceReference(prog, cpu, o.args[1]) # NoDevice
        decide(b) == IF b THEN "yes" ELSE "no"
    IN  IF o.op \in UnconditionalBranches \cup {"jal"} THEN "yes"
        ELSE IF o.op \in {"bdse", "bdseal", "brdse"} THEN decide(set)
        ELSE IF o.op = "bdns" THEN decide(~ set)
        ELSE IF o.op = "bdnvl"
             THEN decide(~ (set /\ CanRead(DeviceReference(prog, cpu, o.args[1]),
                                           Connection(ResolveAlias(prog, o.args[1])),
                                           LogicName(o.args[2]))))
        ELSE IF v(1) = NoToken THEN "fail"
        ELSE IF o.op = "beqz" THEN decide(v(1)[2] = 0)
        ELSE IF o.op \in {"bnez", "bnezal", "brnez"} THEN decide(v(1)[2] # 0)
        ELSE IF v(2) = NoToken THEN "fail"
        ELSE decide(v(1) = v(2))                             \* beq

ExecuteBranch(prog, o, line, cpu, world) ==
    CASE Taken(prog, o, cpu) = "yes" -> BranchTo(prog, o, line, cpu, world)
      [] Taken(prog, o, cpu) = "no" -> Result(cpu, world)
      [] OTHER -> Fail(cpu, world)

-----------------------------------------------------------------------------
(* The stack of the IC.                                                    *)

StackOps == {"push", "pop", "peek", "poke"}

OnStack(a) == a \in 0 .. (StackSize - 1)

\* A pop moves the stack pointer before it checks the address.
ExecuteStack(prog, o, cpu, world) ==
    LET top == cpu.regs[SP]
        popped == [cpu EXCEPT !.regs[SP] = @ - 1]
        v(i) == Value(prog, cpu, o.args[i])
    IN  CASE o.op = "push" ->
                IF ~ OnStack(top) \/ v(1) = NoToken THEN Fail(cpu, world)
                ELSE Result([cpu EXCEPT !.stack[top] = v(1)[2], !.regs[SP] = @ + 1], world)
          [] o.op = "pop" ->
                IF ~ OnStack(top - 1) THEN Fail(popped, world)
                ELSE WriteRegister(prog, popped, world, o.args[1], Num(cpu.stack[top - 1]))
          [] o.op = "peek" ->
                IF ~ OnStack(top - 1) THEN Fail(cpu, world)
                ELSE WriteRegister(prog, cpu, world, o.args[1], Num(cpu.stack[top - 1]))
          [] o.op = "poke" ->
                IF v(1) = NoToken \/ v(2) = NoToken THEN Fail(cpu, world)
                ELSE IF ~ OnStack(v(1)[2]) THEN Fail(cpu, world)
                ELSE Result([cpu EXCEPT !.stack[v(1)[2]] = v(2)[2]], world)

-----------------------------------------------------------------------------
(* Device memory: get, put and clr; on db it is the IC's own stack.        *)

MemoryOps == {"get", "put", "clr"}

ExecuteMemory(prog, o, cpu, world) ==
    LET at == IF o.op = "get" THEN 2 ELSE 1
        d == DeviceReference(prog, cpu, o.args[at])
        isBase == DeviceToken(ResolveAlias(prog, o.args[at])) = Base
        size == IF isBase THEN StackSize ELSE MemoryOf(d)
        a == Value(prog, cpu, o.args[at + 1])
        v == Value(prog, cpu, o.args[3])
    IN  IF d = NoDevice THEN Fail(cpu, world)
        ELSE IF o.op = "clr"
             THEN IF isBase
                  THEN Result([cpu EXCEPT !.stack = [i \in DOMAIN @ |-> 0]], world)
                  ELSE Result(cpu, [world EXCEPT !.memory[d] = [i \in DOMAIN @ |-> 0]])
        ELSE IF a = NoToken THEN Fail(cpu, world)
        ELSE IF a[2] \notin 0 .. (size - 1) THEN Fail(cpu, world)
        ELSE IF o.op = "get"
             THEN WriteRegister(prog, cpu, world, o.args[1],
                                Num(IF isBase THEN cpu.stack[a[2]] ELSE world.memory[d][a[2]]))
        ELSE IF v = NoToken THEN Fail(cpu, world)
        ELSE IF isBase THEN Result([cpu EXCEPT !.stack[a[2]] = v[2]], world)
        ELSE Result(cpu, [world EXCEPT !.memory[d][a[2]] = v[2]])

-----------------------------------------------------------------------------
(* Device fields and slots, directly and in batches.                       *)

DeviceOps == {"l", "s", "ls", "ss", "ld", "sd", "sdse"} \cup BatchOps

\* The housing has a data network on connection 0.
Networked == \E i \in DOMAIN OnNetwork : OnNetwork[i] = Housing

\* The cast of a slot number: a negative one becomes 0.
SlotOf(v) == IF v < 0 THEN 0 ELSE v

\* What a batch operation selects: the devices of a prefab, and of a name, on
\* the data network.
Batch(prog, cpu, o) ==
    LET v(i) == Value(prog, cpu, o.args[i])[2]
    IN  {d \in {OnNetwork[i] : i \in DOMAIN OnNetwork} :
            /\ Prefab[d] = v(HashAt(o.op))
            /\ IsNamed(o.op) => NameHash[d] = v(NameAt(o.op))}

\* An operand of a batch operation without a value.
BatchUnresolved(prog, cpu, o) ==
    \E i \in {HashAt(o.op)} \cup (IF IsNamed(o.op) THEN {NameAt(o.op)} ELSE {})
             \cup (IF IsSlotted(o.op) THEN {SlotAt(o.op)} ELSE {}) :
        Value(prog, cpu, o.args[i]) = NoToken

BatchSlot(prog, cpu, o) == SlotOf(Value(prog, cpu, o.args[SlotAt(o.op)])[2])

\* The sum of what the devices of a batch read, in network order.
Total(values) ==
    LET upTo[i \in 0 .. Len(OnNetwork)] ==
            IF i = 0 THEN 0
            ELSE upTo[i - 1] + (IF OnNetwork[i] \in DOMAIN values THEN values[OnNetwork[i]] ELSE 0)
    IN  upTo[Len(OnNetwork)]

\* aggregate: 1 is Sum, 4 is Count; the modes whose result may be NaN
\* (Average, Minimum, Maximum) are left out like the division.
Aggregate(values, mode) ==
    CASE mode = 1 -> Num(Total(values))
      [] mode = 4 -> Num(Cardinality(DOMAIN values))
      [] OTHER -> NoToken

\* A device that cannot be read is passed over.
ExecuteBatchLoad(prog, o, cpu, world) ==
    LET f == LogicName(o.args[FieldAt(o.op)])
        mode == ResolveNumber(prog, o.args[FieldAt(o.op) + 1])
        slot == BatchSlot(prog, cpu, o)
        seen == {d \in Batch(prog, cpu, o) :
                    IF IsSlotted(o.op) THEN slot \in SlotIds /\ f \in DOMAIN world.slots[d][slot]
                    ELSE CanRead(d, -1, f)}
        values == [d \in seen |-> IF IsSlotted(o.op) THEN world.slots[d][slot][f]
                                  ELSE world.fields[d][f]]
    IN  IF BatchUnresolved(prog, cpu, o) \/ mode = NoToken \/ ~ Networked THEN Fail(cpu, world)
        ELSE WriteRegister(prog, cpu, world, o.args[1], Aggregate(values, mode[2]))

\* slots.insert: a slot takes any field.
Insert(slot, f, v) == [x \in DOMAIN slot \cup {f} |-> IF x = f THEN v ELSE slot[x]]
WriteSlot(world, d, s, f, v) == [world EXCEPT !.slots[d][s] = Insert(@, f, v)]

\* A batch store writes the devices one by one and stops at the first refusal;
\* the devices of one prefab all take the field or all refuse it, and no write
\* touches another's device.  A slot that a device does not have is passed over.
WriteFields(world, hit, f, v) ==
    [world EXCEPT !.fields = [d \in DOMAIN @ |-> IF d \in hit THEN [@[d] EXCEPT ![f] = v] ELSE @[d]]]

WriteSlots(world, hit, s, f, v) ==
    [world EXCEPT !.slots = [d \in DOMAIN @ |-> IF d \in hit THEN WriteSlot(world, d, s, f, v).slots[d]
                                                ELSE @[d]]]

ExecuteBatchStore(prog, o, cpu, world) ==
    LET f == LogicName(o.args[FieldAt(o.op)])
        v == Value(prog, cpu, o.args[FieldAt(o.op) + 1])
        slot == BatchSlot(prog, cpu, o)
        hit == Batch(prog, cpu, o)
    IN  IF BatchUnresolved(prog, cpu, o) \/ v = NoToken \/ ~ Networked THEN Fail(cpu, world)
        ELSE IF IsSlotted(o.op)
             THEN Result(cpu, IF slot \in SlotIds THEN WriteSlots(world, hit, slot, f, v[2]) ELSE world)
        ELSE IF \E d \in hit : ~ CanWrite(d, -1, f) THEN Fail(cpu, world)
        ELSE Result(cpu, WriteFields(world, hit, f, v[2]))

\* execute_slot: ss writes a field of a slot whatever the prefab allows.
ExecuteSlot(prog, o, cpu, world) ==
    LET at == IF o.op = "ls" THEN 2 ELSE 1
        d == DeviceReference(prog, cpu, o.args[at])
        s == Value(prog, cpu, o.args[at + 1])
        slot == SlotOf(s[2])
        f == LogicName(o.args[at + 2])
        v == Value(prog, cpu, o.args[4])
    IN  IF d = NoDevice \/ s = NoToken THEN Fail(cpu, world)
        ELSE IF o.op = "ls"
             THEN IF slot \in SlotIds /\ f \in DOMAIN world.slots[d][slot]
                  THEN WriteRegister(prog, cpu, world, o.args[1], Num(world.slots[d][slot][f]))
                  ELSE Fail(cpu, world)
        ELSE IF v = NoToken \/ slot \notin SlotIds THEN Fail(cpu, world)
        ELSE Result(cpu, WriteSlot(world, d, slot, f, v[2]))

\* l, s, and ld and sd, whose device is a reference id.
ExecuteField(prog, o, cpu, world) ==
    LET at == IF o.op \in {"s", "sd"} THEN 1 ELSE 2
        id == Value(prog, cpu, o.args[at])
        d == IF o.op \in {"l", "s"} THEN DeviceReference(prog, cpu, o.args[at])
             ELSE IF id # NoToken /\ HasReference(id[2]) THEN DeviceByReference(id[2])
             ELSE NoDevice
        c == IF o.op \in {"l", "s"} THEN Connection(ResolveAlias(prog, o.args[at])) ELSE -1
        f == LogicName(o.args[at + 1])
        v == Value(prog, cpu, o.args[3])
    IN  IF o.op \in {"l", "ld"}
        THEN IF CanRead(d, c, f)
             THEN WriteRegister(prog, cpu, world, o.args[1], Num(ReadField(world, d, f)))
             ELSE Fail(cpu, world)
        ELSE IF v # NoToken /\ CanWrite(d, c, f) THEN Result(cpu, WriteField(world, d, f, v[2]))
        ELSE Fail(cpu, world)

ExecuteDevice(prog, o, cpu, world) ==
    CASE o.op \in BatchLoads -> ExecuteBatchLoad(prog, o, cpu, world)
      [] o.op \in BatchStores -> ExecuteBatchStore(prog, o, cpu, world)
      [] o.op \in {"ls", "ss"} -> ExecuteSlot(prog, o, cpu, world)
      [] o.op = "sdse" -> WriteRegister(prog, cpu, world, o.args[1],
                              Num(Bool(DeviceReference(prog, cpu, o.args[2]) # NoDevice)))
      [] OTHER -> ExecuteField(prog, o, cpu, world)

-----------------------------------------------------------------------------
(***************************************************************************)
(* execute_operation on the operation at a line.                           *)
(***************************************************************************)
Execute(prog, line, before, world) ==
    LET o == prog.operations[line]
        cpu == [before EXCEPT !.pc = line + 1]
    IN  CASE o.op \in AluOps -> ExecuteAlu(prog, o, cpu, world)
          [] o.op \in BranchOps -> ExecuteBranch(prog, o, line, cpu, world)
          [] o.op \in StackOps -> ExecuteStack(prog, o, cpu, world)
          [] o.op \in MemoryOps -> ExecuteMemory(prog, o, cpu, world)
          [] o.op \in DeviceOps -> ExecuteDevice(prog, o, cpu, world)
          [] o.op \in {"yield", "sleep"} ->
                IF o.op = "sleep" /\ Value(prog, cpu, o.args[1]) = NoToken THEN Fail(cpu, world)
                ELSE Result([cpu EXCEPT !.state = "Waiting"], world)
          [] o.op = "hcf" -> Result([cpu EXCEPT !.state = "Halted"], world)
          [] OTHER -> Fail(cpu, world)
=============================================================================
