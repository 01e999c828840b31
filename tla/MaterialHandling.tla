-------------------------- MODULE MaterialHandling --------------------------
(***************************************************************************)
(* The behaviour runtime of ic10-sim (behaviour.rs) inside advance_tick of *)
(* the simulator: vending machines hand items to digital chute valves,     *)
(* valves hand them to chute outlets, and scheduled actions write device   *)
(* fields when their tick starts.                                          *)
(*                                                                         *)
(* A world tick ends with tick_end, which visits the devices in index      *)
(* order, increments the tick, and runs tick_start, which applies the due  *)
(* actions in key order and stops at the first one that fails.  One step   *)
(* of the model is one iteration of either loop; nothing else runs between *)
(* them (phase).  An item is one value: the code moves all fields of a     *)
(* slot together.  The queue of write notices is left out, because         *)
(* tick_end drains it without reacting to it.                              *)
(***************************************************************************)
EXTENDS Integers, FiniteSets

CONSTANTS
    Count,          \* how many devices the world has; they are 1..Count
    Kind,           \* device -> its BehaviourKind
    Input,          \* device -> the network on its connection 0
    Output,         \* device -> the network on its connection 1
    NoNetwork,      \* an open connection
    SlotCount,      \* device -> how many slots its prefab has
    Fields,         \* the field names in use
    Has,            \* device -> the fields its prefab has
    NaN,            \* the field value that is not a number
    Items, NoItem,  \* what a slot holds
    InitialItem,    \* slot -> its content in the scenario
    StartTick,      \* the tick the world starts in
    MaxTick,        \* bound: the last tick of a behaviour of the model
    MaxActions,     \* bound: how many actions are scheduled
    Writes,         \* the <<device, field, value>> programs and tests store
    Plans           \* the <<tick, device, target, field, value>> scheduled

Devices == 1 .. Count
Kinds == {"passive", "vendingMachine", "digitalChuteValve", "chuteOutlet"}
SlotIds == {p \in Devices \X (0 .. 200) : p[2] < SlotCount[p[1]]}
NoDevice == 0
NoField == ""

ASSUME WorldAssumption ==
    /\ Count \in Nat
    /\ Kind \in [Devices -> Kinds]
    /\ SlotCount \in [Devices -> 0 .. 200]
    /\ NoItem \notin Items /\ NaN \notin Int
    /\ StartTick \in Nat /\ MaxTick \in Nat /\ MaxActions \in Nat
    /\ \A p \in Plans : p[1] \in Nat /\ p[5] \in Int
    /\ \A w \in Writes : w[1] \in Devices /\ w[3] \in Int \cup {NaN}

\* A scenario places each item once.
ASSUME ItemsAssumption ==
    /\ InitialItem \in [SlotIds -> Items \cup {NoItem}]
    /\ \A i \in Items : \E s \in SlotIds : InitialItem[s] = i
    /\ \A s, t \in SlotIds : InitialItem[s] # NoItem
                               /\ InitialItem[s] = InitialItem[t] => s = t

\* What World::build gives every device of these kinds from the catalogue:
\* the fields and the transit slot the hooks use.  All their slots expose the
\* same fields, so no set_field and no move_slot of a tick_end hook fails.
ASSUME CatalogueAssumption ==
    /\ Fields # {} /\ Has \in [Devices -> SUBSET Fields]
    /\ \A d \in Devices :
          /\ Kind[d] = "vendingMachine" =>
                {"Activate", "DispenseSlot", "ExportCount"} \subseteq Has[d]
          /\ Kind[d] = "digitalChuteValve" =>
                {"Open", "Quantity"} \subseteq Has[d] /\ SlotCount[d] > 0
          /\ Kind[d] = "chuteOutlet" =>
                "ExportCount" \in Has[d] /\ SlotCount[d] > 0

VARIABLES
    fields,       \* device -> field -> value; a missing field reads as 0
    slots,        \* slot -> what it holds
    scheduled,    \* the actions not yet applied
    sequence,     \* next_sequence
    activations,  \* BehaviourState, by device
    transfers,
    tick,
    phase,        \* "programs", "ending" (tick_end) or "starting" (tick_start)
    cursor,       \* the device tick_end visits next
    lastError,    \* whether a hook or an action has failed
    collected,    \* items a test took out of an outlet
    lost,         \* history: the actions removed although they failed
    applied       \* history: the actions carried out

vars == <<fields, slots, scheduled, sequence, activations, transfers, tick,
          phase, cursor, lastError, collected, lost, applied>>

-----------------------------------------------------------------------------
Least(S) == CHOOSE n \in S : \A o \in S : n <= o

Occupied(d, s) == <<d, s>> \in SlotIds /\ slots[<<d, s>>] # NoItem

\* Mistake: any device of the kind, whatever it is connected to.
OnInput_AnyNetwork(kind, network) ==
    LET found == {d \in Devices : Kind[d] = kind}
    IN  IF found = {} THEN NoDevice ELSE Least(found)

\* The first device of a kind whose connection 0 is on a network.
OnInput(kind, network) ==
    LET found == {d \in Devices : Kind[d] = kind /\ Input[d] = network}
    IN  IF network = NoNetwork \/ found = {} THEN NoDevice ELSE Least(found)

\* DispenseSlot as an index: negative values saturate at 0, and a value that
\* is not finite requests nothing.
RequestedSlots(d) ==
    LET v == fields[d]["DispenseSlot"]
    IN  IF v = NaN THEN {} ELSE {IF v < 0 THEN 0 ELSE v}

\* The slot a vending machine dispenses from: the requested one when it is
\* occupied, otherwise the first occupied one.
SourceSlots(d) ==
    LET occupied == {s \in 0 .. SlotCount[d] - 1 : Occupied(d, s)}
        wanted   == RequestedSlots(d) \cap occupied
    IN  IF wanted # {} THEN wanted
        ELSE IF occupied = {} THEN {} ELSE {Least(occupied)}

\* A counter that is not a number stays so.
OneMore(v) == IF v = NaN THEN NaN ELSE v + 1

\* move_slot: the source is cleared and the destination takes its content.
MoveSlot(from, to) ==
    slots' = [slots EXCEPT ![from] = NoItem, ![to] = slots[from]]

\* EventKey order; the phase of a key is always 0.
Before(a, b) ==
    \/ a.tick < b.tick
    \/ a.tick = b.tick /\ a.device < b.device
    \/ a.tick = b.tick /\ a.device = b.device /\ a.sequence < b.sequence

\* The actions tick_start collects.
Due(now) == {a \in scheduled : a.tick <= now}

Init ==
    /\ fields = [d \in Devices |-> [f \in Fields |-> 0]]
    /\ slots = InitialItem
    /\ scheduled = {} /\ sequence = 0
    /\ activations = [d \in Devices |-> 0]
    /\ transfers = [d \in Devices |-> 0]
    /\ tick = StartTick /\ phase = "programs" /\ cursor = 1
    /\ lastError = FALSE
    /\ collected = {} /\ lost = 0 /\ applied = 0

-----------------------------------------------------------------------------
(* What programs, tests and the debugger do between two tick boundaries.   *)

\* set_device_field_as, and a store of a program: a device without the field
\* refuses.
SetDeviceField(d, f, v) ==
    /\ phase = "programs" /\ f \in Has[d]
    /\ fields' = [fields EXCEPT ![d][f] = v]
    /\ UNCHANGED <<slots, scheduled, sequence, activations, transfers, tick,
                   phase, cursor, lastError, collected, lost, applied>>

\* A test clears the slot of an outlet.
ClearSlot(d) ==
    /\ phase = "programs" /\ Kind[d] = "chuteOutlet" /\ Occupied(d, 0)
    /\ slots' = [slots EXCEPT ![<<d, 0>>] = NoItem]
    /\ collected' = collected \cup {slots[<<d, 0>>]}
    /\ UNCHANGED <<fields, scheduled, sequence, activations, transfers, tick,
                   phase, cursor, lastError, lost, applied>>

\* schedule: an unknown device, an unknown target and an empty field name are
\* refused; whether the target has the field is not looked at.  made records
\* when the action was scheduled.
Schedule(when, d, target, f, v) ==
    /\ phase = "programs" /\ d \in Devices /\ target \in Devices
    /\ f # NoField /\ sequence < MaxActions
    /\ scheduled' = scheduled \cup
          {[tick |-> when, device |-> d, sequence |-> sequence,
            target |-> target, field |-> f, value |-> v, made |-> tick]}
    /\ sequence' = sequence + 1
    /\ UNCHANGED <<fields, slots, activations, transfers, tick, phase, cursor,
                   lastError, collected, lost, applied>>

-----------------------------------------------------------------------------
(* tick_end.                                                               *)

BeginTickEnd ==
    /\ phase = "programs" /\ tick < MaxTick
    /\ phase' = "ending" /\ cursor' = 1
    /\ UNCHANGED <<fields, slots, scheduled, sequence, activations, transfers,
                   tick, lastError, collected, lost, applied>>

AtDevice(kind) == phase = "ending" /\ cursor \in Devices /\ Kind[cursor] = kind

\* The valve a vending machine delivers to, and from which slot it may do so
\* now: only when the valve is free.
Receivers(d) == {OnInput("digitalChuteValve", Output[d])} \ {NoDevice}

\* Mistake: the valve's slot is not looked at.
Delivery_IntoFull(d) == SourceSlots(d) \X Receivers(d)

Delivery(d) ==
    {p \in SourceSlots(d) \X Receivers(d) : ~Occupied(p[2], 0)}

\* vend: one item moves to the valve, both devices show it, and the request
\* is cleared.
VendItem ==
    /\ AtDevice("vendingMachine") /\ fields[cursor]["Activate"] # 0
    /\ \E delivery \in Delivery(cursor) :
          LET r == delivery[2]
          IN  /\ MoveSlot(<<cursor, delivery[1]>>, <<r, 0>>)
              /\ fields' = [fields EXCEPT
                    ![cursor] = [fields[cursor] EXCEPT !["ExportCount"] = OneMore(@),
                                                       !["Activate"] = 0],
                    ![r] = [fields[r] EXCEPT !["Quantity"] = 1]]
    /\ activations' = [activations EXCEPT ![cursor] = @ + 1]
    /\ transfers' = [transfers EXCEPT ![cursor] = @ + 1]
    /\ cursor' = cursor + 1
    /\ UNCHANGED <<scheduled, sequence, tick, phase, lastError, collected,
                   lost, applied>>

\* Mistake: a request that cannot be met is kept for a later tick.
VendNothing_KeepsRequest ==
    /\ AtDevice("vendingMachine") /\ fields[cursor]["Activate"] # 0
    /\ Delivery(cursor) = {}
    /\ activations' = [activations EXCEPT ![cursor] = @ + 1]
    /\ cursor' = cursor + 1
    /\ UNCHANGED <<fields, slots, scheduled, sequence, transfers, tick, phase,
                   lastError, collected, lost, applied>>

\* vend without an item, a valve or room in it: the request is cleared all
\* the same.
VendNothing ==
    /\ AtDevice("vendingMachine") /\ fields[cursor]["Activate"] # 0
    /\ Delivery(cursor) = {}
    /\ fields' = [fields EXCEPT ![cursor]["Activate"] = 0]
    /\ activations' = [activations EXCEPT ![cursor] = @ + 1]
    /\ cursor' = cursor + 1
    /\ UNCHANGED <<slots, scheduled, sequence, transfers, tick, phase,
                   lastError, collected, lost, applied>>

\* Where an open valve with an item in transit may pass it on.
Passage(d) ==
    {o \in {OnInput("chuteOutlet", Output[d])} \ {NoDevice} :
        /\ fields[d]["Open"] # 0 /\ Occupied(d, 0)
        /\ ~Occupied(o, 0)}

\* Mistake: the valve still shows the item it has passed on.
PassValve_KeepsQuantity ==
    /\ AtDevice("digitalChuteValve")
    /\ \E o \in Passage(cursor) :
          /\ MoveSlot(<<cursor, 0>>, <<o, 0>>)
          /\ fields' = [fields EXCEPT
                ![o] = [fields[o] EXCEPT !["ExportCount"] = OneMore(@)]]
    /\ transfers' = [transfers EXCEPT ![cursor] = @ + 1]
    /\ cursor' = cursor + 1
    /\ UNCHANGED <<scheduled, sequence, activations, tick, phase, lastError,
                   collected, lost, applied>>

PassValve ==
    /\ AtDevice("digitalChuteValve")
    /\ \E o \in Passage(cursor) :
          /\ MoveSlot(<<cursor, 0>>, <<o, 0>>)
          /\ fields' = [fields EXCEPT
                ![o] = [fields[o] EXCEPT !["ExportCount"] = OneMore(@)],
                ![cursor] = [fields[cursor] EXCEPT !["Quantity"] = 0]]
    /\ transfers' = [transfers EXCEPT ![cursor] = @ + 1]
    /\ cursor' = cursor + 1
    /\ UNCHANGED <<scheduled, sequence, activations, tick, phase, lastError,
                   collected, lost, applied>>

\* A device with nothing to do at the end of this tick.
Idle ==
    /\ phase = "ending" /\ cursor \in Devices
    /\ CASE Kind[cursor] = "vendingMachine" -> fields[cursor]["Activate"] = 0
         [] Kind[cursor] = "digitalChuteValve" -> Passage(cursor) = {}
         [] OTHER -> TRUE
    /\ cursor' = cursor + 1
    /\ UNCHANGED <<fields, slots, scheduled, sequence, activations, transfers,
                   tick, phase, lastError, collected, lost, applied>>

-----------------------------------------------------------------------------
(* advance_tick between the two hooks, and tick_start.                     *)

AdvanceTick ==
    /\ phase = "ending" /\ cursor \notin Devices
    /\ tick' = tick + 1 /\ phase' = "starting"
    /\ UNCHANGED <<fields, slots, scheduled, sequence, activations, transfers,
                   cursor, lastError, collected, lost, applied>>

Foremost(a) == a \in Due(tick) /\ \A b \in Due(tick) : b = a \/ Before(a, b)

\* An action leaves the schedule before it is carried out.
ApplyAction ==
    /\ phase = "starting"
    /\ \E a \in scheduled :
          /\ Foremost(a) /\ a.field \in Has[a.target]
          /\ scheduled' = scheduled \ {a}
          /\ fields' = [fields EXCEPT ![a.target][a.field] = a.value]
    /\ applied' = applied + 1
    /\ UNCHANGED <<slots, sequence, activations, transfers, tick, phase,
                   cursor, lastError, collected, lost>>

\* Mistake: the failure discards everything that was due.
FailAction_DropsDue ==
    /\ phase = "starting"
    /\ \E a \in scheduled :
          /\ Foremost(a) /\ a.field \notin Has[a.target]
          /\ scheduled' = scheduled \ Due(tick)
    /\ lastError' = TRUE /\ lost' = lost + 1
    /\ phase' = "programs"
    /\ UNCHANGED <<fields, slots, sequence, activations, transfers, tick,
                   cursor, collected, applied>>

\* A missing field ends tick_start: the action is gone, and what is due
\* behind it waits for the next tick.
FailAction ==
    /\ phase = "starting"
    /\ \E a \in scheduled :
          /\ Foremost(a) /\ a.field \notin Has[a.target]
          /\ scheduled' = scheduled \ {a}
    /\ lastError' = TRUE /\ lost' = lost + 1
    /\ phase' = "programs"
    /\ UNCHANGED <<fields, slots, sequence, activations, transfers, tick,
                   cursor, collected, applied>>

EndTickStart ==
    /\ phase = "starting" /\ Due(tick) = {}
    /\ phase' = "programs"
    /\ UNCHANGED <<fields, slots, scheduled, sequence, activations, transfers,
                   tick, cursor, lastError, collected, lost, applied>>

TickEnd == VendItem \/ VendNothing \/ PassValve \/ Idle
TickStart == ApplyAction \/ FailAction \/ EndTickStart

Next ==
    \/ \E w \in Writes : SetDeviceField(w[1], w[2], w[3])
    \/ \E d \in Devices : ClearSlot(d)
    \/ \E p \in Plans : Schedule(p[1], p[2], p[3], p[4], p[5])
    \/ BeginTickEnd \/ TickEnd \/ AdvanceTick \/ TickStart

Spec == Init /\ [][Next]_vars

-----------------------------------------------------------------------------
(* Properties.                                                             *)

ActionType ==
    [tick : Nat, device : Devices, sequence : Nat, target : Devices,
     field : {p[4] : p \in Plans}, value : {p[5] : p \in Plans}, made : Nat]

\* Type correctness of the behaviour runtime and of the world it works on.
TypeOK ==
    /\ fields \in [Devices -> [Fields -> Int \cup {NaN}]]
    /\ slots \in [SlotIds -> Items \cup {NoItem}]
    /\ \A a \in scheduled : a \in ActionType
    /\ sequence \in Nat /\ tick \in Nat /\ cursor \in Nat
    /\ activations \in [Devices -> Nat] /\ transfers \in [Devices -> Nat]
    /\ phase \in {"programs", "ending", "starting"}
    /\ lastError \in BOOLEAN /\ lost \in Nat /\ applied \in Nat
    /\ collected \subseteq Items

Places(i) == {s \in SlotIds : slots[s] = i}

\* No item is lost, copied or overwritten on its way from a vending machine
\* through a valve to an outlet (move_slot with the occupancy tests of vend
\* and pass_valve): an item lies in one slot, or a test has taken it.
ItemsConserved ==
    /\ \A i \in Items : i \in collected <=> Places(i) = {}
    /\ \A s, t \in SlotIds : slots[s] # NoItem /\ slots[s] = slots[t] => s = t

\* Items only move forward, and only inside tick_end: from a vending machine
\* to the valve on its output network, from a valve to the outlet on its.
ItemsMoveForward ==
    [][\A s, t \in SlotIds :
          slots[s] # NoItem /\ slots'[t] = slots[s] /\ s # t =>
             /\ phase = "ending" /\ s[1] = cursor
             /\ Input[t[1]] = Output[s[1]]
             /\ <<Kind[s[1]], Kind[t[1]]>> \in
                   {<<"vendingMachine", "digitalChuteValve">>,
                    <<"digitalChuteValve", "chuteOutlet">>}]_vars

\* How many items lie in a device.
Holding(d) == Cardinality({s \in SlotIds : s[1] = d /\ slots[s] # NoItem})

\* The fields a hook keeps a count in.
IsCounter(d, f) ==
    \/ Kind[d] = "vendingMachine" /\ f = "ExportCount"
    \/ Kind[d] = "digitalChuteValve" /\ f = "Quantity"

\* A world in which only the hooks write those fields, and in which nothing is
\* in transit at the start.
CountersLeftAlone ==
    /\ \A w \in Writes : ~IsCounter(w[1], w[2])
    /\ \A p \in Plans : p[3] \in Devices => ~IsCounter(p[3], p[4])
    /\ \A s \in SlotIds :
          Kind[s[1]] = "digitalChuteValve" => InitialItem[s] = NoItem

\* The private counters and the fields a program reads agree with where the
\* items are, as long as no program writes those fields itself: a vending
\* machine has exported what it no longer holds, each item for a request of
\* its own, and a valve shows whether it holds an item.
CountersAgree ==
    \A d \in Devices :
        /\ Kind[d] = "vendingMachine" =>
              /\ transfers[d] = fields[d]["ExportCount"]
              /\ transfers[d] <= activations[d]
              /\ Holding(d) + transfers[d] =
                    Cardinality({s \in SlotIds : s[1] = d
                                    /\ InitialItem[s] # NoItem})
        /\ Kind[d] = "digitalChuteValve" =>
              fields[d]["Quantity"] = Holding(d)

\* A request to a vending machine never outlives the tick it was made in.
RequestsCleared ==
    [][AdvanceTick => \A d \in Devices :
          Kind[d] = "vendingMachine" => fields[d]["Activate"] = 0]_vars

\* Every scheduled action is carried out or lost exactly once.
ActionsAccounted ==
    Cardinality(scheduled) + applied + lost = sequence

\* The first tick start an action can take part in.
DueTick(a) == IF a.tick > a.made THEN a.tick ELSE a.made + 1

\* When programs run, an action that is already due has been passed over only
\* because an earlier one failed: it is late by at most one tick for each
\* action lost.
LateOnlyBehindFailures ==
    \A a \in scheduled :
        phase = "programs" => tick - DueTick(a) < lost

\* Nothing scheduled is forgotten: each action is carried out or lost once, and
\* what is still waiting waits no longer than the failures before it explain.
ActionsKept == ActionsAccounted /\ LateOnlyBehindFailures

=============================================================================
