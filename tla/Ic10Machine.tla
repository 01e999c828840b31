---------------------------- MODULE Ic10Machine ----------------------------
(***************************************************************************)
(* What running an IC10 program means: the operations of the program, one  *)
(* after the other, on the processor and the world, while the world may    *)
(* be edited between two of them.  This is the meaning a build has to keep *)
(* (Ic10Toolchain).                                                        *)
(*                                                                         *)
(* The program counter is kept at the line of the operation it selects     *)
(* (Cpu::current_line); the lines without an operation in front of it are  *)
(* not told apart.  Waiting is left without its tick: a waiting processor  *)
(* wakes at some later tick.                                               *)
(***************************************************************************)
EXTENDS Ic10Operations

CONSTANTS
    Sensors,      \* fields a user or a test may set: <<device, field>>
    SensorValues  \* the values they are set to

VARIABLES
    prog,     \* the compiled program
    cpu,      \* the processor
    world     \* the devices

machineVars == <<prog, cpu, world>>

StartWorld == [fields |-> [d \in Devices |-> [f \in Fields |-> 0]],
               memory |-> [d \in Devices |-> [a \in 0 .. (MemoryOf(d) - 1) |-> 0]],
               slots |-> [d \in Devices |-> [s \in SlotIds |-> [f \in SlotFields |-> 0]]],
               channel |-> 0]

StartCpu(p) == [pc |-> OperationAtOrAfter(p, 0), state |-> "Ready",
                regs |-> [r \in RegisterSet |-> 0],
                stack |-> [a \in 0 .. (StackSize - 1) |-> 0]]

Init == cpu = StartCpu(prog) /\ world = StartWorld

\* A field of the housing that the simulator writes itself, past the access
\* flags of write_field.
Shown(w, f, v) == [w EXCEPT !.fields[Housing][f] = v]

\* The operation at the program counter is executed, once the housing shows its
\* line; a failed one leaves its mark on the housing.
Step ==
    /\ cpu.state = "Ready"
    /\ cpu.pc < prog.length
    /\ \E r \in {Execute(prog, cpu.pc, cpu, Shown(world, "LineNumber", cpu.pc))} :
          /\ cpu' = [r.cpu EXCEPT !.pc = OperationAtOrAfter(prog, @)]
          /\ world' = IF r.cpu.state = "Error" THEN Shown(r.world, "Error", 1) ELSE r.world
    /\ UNCHANGED prog

\* No operation is left: the program halts.
RunOut ==
    /\ cpu.state = "Ready"
    /\ cpu.pc = prog.length
    /\ cpu' = [cpu EXCEPT !.state = "Halted"]
    /\ UNCHANGED <<prog, world>>

Wake ==
    /\ cpu.state = "Waiting"
    /\ cpu' = [cpu EXCEPT !.state = "Ready"]
    /\ UNCHANGED <<prog, world>>

\* set_device_field: a user or a test sets a field between two operations.
SetSensor(d, f, v) ==
    /\ world.fields[d][f] # v
    /\ world' = [world EXCEPT !.fields[d][f] = v]
    /\ UNCHANGED <<prog, cpu>>

Next ==
    \/ Step
    \/ RunOut
    \/ Wake
    \/ \E s \in Sensors, v \in SensorValues : SetSensor(s[1], s[2], v)

Spec == Init /\ [][Next]_machineVars
=============================================================================
