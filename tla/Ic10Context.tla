----------------------------- MODULE Ic10Context -----------------------------
(***************************************************************************)
(* What the editor says of a program in the simulation environment it runs *)
(* in (ic10-sim, context.rs): the pins of the housing, the devices on its  *)
(* data cable, and the fields, slots, connections and memory their prefabs *)
(* have.  The check of a Mode value is left out: it judges a number, not   *)
(* an access.                                                              *)
(***************************************************************************)
EXTENDS Ic10Analysis, Ic10Operations

CONSTANTS
    Connections,     \* prefab -> number of connections
    ExplicitIds,     \* reference ids the scenario states
    ReadOnlyMemory,  \* prefabs whose memory cannot be written
    WriteOnlyMemory  \* prefabs whose memory cannot be read

\* build_contexts: the devices on a data network of the housing.
ReachableDevices == {OnNetwork[i] : i \in DOMAIN OnNetwork}

\* Follow names of one kind of declaration, as often as there are names.
Follow(p, t, kind) ==
    LET hops == Cardinality(Names(p))
        at[k \in 0 .. hops] ==
            IF k = 0 THEN t
            ELSE IF IsSymbol(p, at[k - 1]) /\ SymbolKind(p, at[k - 1][2]) = kind
                 THEN SymbolValue(p, at[k - 1][2])
            ELSE at[k - 1]
    IN  at[hops]

\* resolve_alias of the document, and resolve_integer: aliases, then defines.
AliasOf(p, t) == Follow(p, t, "alias")
IntegerOf(p, t) ==
    LET r == Follow(p, AliasOf(p, t), "define") IN IF r[1] = "num" THEN r ELSE NoToken

ContextOps == {"l", "s", "ls", "ss", "get", "put", "bdnvl", "ld", "sd"}
ByReferenceId(op) == op \in {"ld", "sd"}
ContextDeviceAt(op) == IF op \in {"l", "ls", "get", "ld"} THEN 2 ELSE 1

\* device_for_reference and device_for_reference_id.
ContextDevice(p, line) ==
    LET t == line.args[ContextDeviceAt(line.op)]
        r == DeviceToken(AliasOf(p, t))
        id == IntegerOf(p, t)
    IN  IF ByReferenceId(line.op)
        THEN IF id # NoToken /\ id[2] \in ExplicitIds /\ HasReference(id[2])
             THEN DeviceByReference(id[2]) ELSE NoDevice
        ELSE IF r = Base THEN Housing
        ELSE IF r[1] = "pin" /\ r[2] \in DOMAIN PinOfDevice THEN PinOfDevice[r[2]]
        ELSE NoDevice

-----------------------------------------------------------------------------
(* validate_direct_operation.                                              *)

Stores == {"s", "ss", "put", "sd"}

\* A numbered connection that the prefab does not have, or that is not attached.
ConnectionCodes(p, line, d) ==
    LET c == Connection(AliasOf(p, line.args[ContextDeviceAt(line.op)]))
    IN  IF c = -1 THEN {}
        ELSE IF c >= Connections[Prefab[d]] THEN {"invalid-connection"}
        ELSE IF c \notin Attached[d] THEN {"unattached-connection"}
        ELSE {}

\* Mutant: a channel needs no connection.
FieldCodes_AnyChannel(p, line, d, f) ==
    IF f = Channel THEN {}
    ELSE AccessCodes(line.op \in Stores, Readable[f], Writable[f], Prefab[d])

\* A channel needs a connection; another field, the access of the prefab.
ChannelCodes(p, line) ==
    IF Connection(AliasOf(p, line.args[ContextDeviceAt(line.op)])) = -1
    THEN {"channel-needs-connection"} ELSE {}

FieldCodes(p, line, d, f) ==
    IF f = Channel THEN ChannelCodes(p, line)
    ELSE AccessCodes(line.op \in Stores, Readable[f], Writable[f], Prefab[d])

\* The name of a channel is looked at before the slot is.
SlotCodes(p, line, f) ==
    LET s == IntegerOf(p, line.args[ContextDeviceAt(line.op) + 1])
    IN  IF f = Channel THEN ChannelCodes(p, line)
        ELSE IF s = NoToken THEN {}
        ELSE IF s[2] \notin SlotIds THEN {"invalid-slot"}
        ELSE AccessCodes(line.op \in Stores, SlotFields, SlotFields, f)

\* The memory of the prefab: none for a housing, whose db is the IC's stack.
MemoryCodes(p, line, d) ==
    LET a == IntegerOf(p, line.args[ContextDeviceAt(line.op) + 1])
    IN  IF a = NoToken THEN {}
        ELSE (IF line.op = "put" /\ MemoryOf(d) > 0 /\ Prefab[d] \in ReadOnlyMemory
              THEN {"read-only-memory"} ELSE {})
             \cup (IF line.op = "get" /\ MemoryOf(d) > 0 /\ Prefab[d] \in WriteOnlyMemory
                   THEN {"write-only-memory"} ELSE {})
             \cup (IF a[2] \notin 0 .. (MemoryOf(d) - 1) THEN {"invalid-memory-address"} ELSE {})

DirectCodes(p, line, d) ==
    LET at == ContextDeviceAt(line.op)
    IN  ConnectionCodes(p, line, d) \cup
        (CASE line.op \in {"get", "put"} -> MemoryCodes(p, line, d)
           [] line.op \in {"ls", "ss"} -> SlotCodes(p, line, line.args[at + 2][2])
           [] OTHER -> FieldCodes(p, line, d, line.args[at + 1][2]))

-----------------------------------------------------------------------------
(* validate_batch: the devices selected on the data cable.                 *)

BatchCodes(p, line) ==
    LET hash == IntegerOf(p, line.args[HashAt(line.op)])
        name == IntegerOf(p, line.args[NameAt(line.op)])
        slot == IntegerOf(p, line.args[SlotAt(line.op)])
        f == line.args[FieldAt(line.op)][2]
        hit == {d \in ReachableDevices :
                   /\ Prefab[d] = hash[2]
                   /\ IsNamed(line.op) /\ name # NoToken => NameHash[d] = name[2]}
        codes(d) ==
            IF ~ IsSlotted(line.op)
            THEN AccessCodes(line.op \in BatchStores, Readable[f], Writable[f], Prefab[d])
            ELSE IF slot = NoToken THEN {}
            ELSE IF slot[2] \notin SlotIds THEN {"invalid-slot"}
            ELSE AccessCodes(line.op \in BatchStores, SlotFields, SlotFields, f)
    IN  IF hash = NoToken THEN {}
        ELSE IF hit = {} THEN {"empty-batch"}
        ELSE UNION {codes(d) : d \in hit}

-----------------------------------------------------------------------------
(* validate_context, on one line.                                          *)

ContextCodes(p, line) ==
    LET d == ContextDevice(p, line)
        t == line.args[ContextDeviceAt(line.op)]
        direct == DeviceToken(AliasOf(p, t))[1] \in {"pin", "base"}
    IN  IF line.op \in BatchOps THEN BatchCodes(p, line)
        ELSE IF line.op \notin ContextOps THEN {}
        ELSE IF d # NoDevice
             THEN IF d # Housing /\ d \notin ReachableDevices THEN {"unreachable-device"}
                  ELSE DirectCodes(p, line, d)
        ELSE IF direct THEN {"unassigned-device"}
        ELSE IF ByReferenceId(line.op) /\ IntegerOf(p, t) # NoToken THEN {"unknown-reference-id"}
        ELSE {}

ValidateContext(p) ==
    UNION {{Diagnostic(n, c) : c \in ContextCodes(p, LineAt(p, n))} : n \in InstructionLines(p)}
=============================================================================
