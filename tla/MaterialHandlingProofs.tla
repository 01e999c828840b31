------------------------ MODULE MaterialHandlingProofs ------------------------
(***************************************************************************)
(* Items, requests and scheduled actions of the behaviour runtime, proved  *)
(* for any world of vending machines, valves and outlets.                  *)
(***************************************************************************)
EXTENDS MaterialHandling, FiniteSetTheorems, WellFoundedInduction, TLAPS

-----------------------------------------------------------------------------
(* The operators the hooks choose devices and slots with.                  *)

\* A nonempty set of indices has a least one.
LEMMA LeastIn ==
    ASSUME NEW X \in SUBSET Nat, X # {}
    PROVE  Least(X) \in X
<1> DEFINE R == {p \in Nat \X Nat : p[1] < p[2]}
<1>1. IsWellFoundedOn(R, Nat)
    BY NatLessThanWellFounded, Zenon DEF OpToRel
<1>2. \E n \in X : \A o \in X : ~ (<<o, n>> \in R)
    <2> HIDE DEF R
    <2> QED BY <1>1, WFMin, Zenon
<1>3. PICK n \in X : \A o \in X : ~ (<<o, n>> \in R)
    BY <1>2
<1>4. ASSUME NEW o \in X PROVE n <= o
    <2>1. o \in Nat /\ n \in Nat /\ <<o, n>> \notin R
        BY <1>3
    <2>2. ~ (o < n)
        BY <2>1
    <2> QED BY <2>1, <2>2
<1> QED
    BY <1>4 DEF Least

\* OnInput yields a device of the kind, on the network, or none.
LEMMA OnInputFinds ==
    ASSUME NEW kind, NEW network, OnInput(kind, network) # NoDevice
    PROVE  /\ OnInput(kind, network) \in Devices
           /\ Kind[OnInput(kind, network)] = kind
           /\ Input[OnInput(kind, network)] = network
<1> DEFINE found == {d \in Devices : Kind[d] = kind /\ Input[d] = network}
<1>1. found \in SUBSET Nat
    BY WorldAssumption DEF Devices
<1>2. OnInput(kind, network) = Least(found) /\ found # {}
    BY DEF OnInput, NoDevice
<1>3. Least(found) \in found
    BY <1>1, <1>2, LeastIn
<1> QED
    BY <1>2, <1>3

\* A vending machine dispenses from one of its slots, and an occupied one.
LEMMA SourceIsOccupied ==
    ASSUME NEW d \in Devices, NEW s \in SourceSlots(d)
    PROVE  <<d, s>> \in SlotIds /\ slots[<<d, s>>] # NoItem
<1> DEFINE occupied == {x \in 0 .. SlotCount[d] - 1 : Occupied(d, x)}
<1>1. occupied \in SUBSET Nat
    BY WorldAssumption
<1>2. s \in occupied
    <2>1. CASE RequestedSlots(d) \cap occupied # {}
        BY <2>1 DEF SourceSlots
    <2>2. CASE RequestedSlots(d) \cap occupied = {}
        <3>1. occupied # {} /\ s = Least(occupied)
            BY <2>2 DEF SourceSlots
        <3> QED BY <1>1, <3>1, LeastIn
    <2> QED BY <2>1, <2>2
<1> QED
    BY <1>2 DEF Occupied

\* The valve a vending machine delivers to has a transit slot, and it is free.
LEMMA DeliveryIsFree ==
    ASSUME NEW d \in Devices, NEW p \in Delivery(d)
    PROVE  /\ p = <<p[1], p[2]>> /\ p[2] \in Devices
           /\ Kind[p[2]] = "digitalChuteValve" /\ Input[p[2]] = Output[d]
           /\ <<d, p[1]>> \in SlotIds /\ slots[<<d, p[1]>>] # NoItem
           /\ <<p[2], 0>> \in SlotIds /\ slots[<<p[2], 0>>] = NoItem
<1>1. p \in SourceSlots(d) \X Receivers(d) /\ ~Occupied(p[2], 0)
    BY DEF Delivery
<1>2. p = <<p[1], p[2]>> /\ p[1] \in SourceSlots(d) /\ p[2] \in Receivers(d)
    BY <1>1
<1>3. p[2] = OnInput("digitalChuteValve", Output[d]) /\ p[2] # NoDevice
    BY <1>2 DEF Receivers
<1>4. p[2] \in Devices /\ Kind[p[2]] = "digitalChuteValve" /\ Input[p[2]] = Output[d]
    BY <1>3, OnInputFinds
<1>5. <<p[2], 0>> \in SlotIds
    BY <1>4, CatalogueAssumption, WorldAssumption DEF SlotIds
<1>6. slots[<<p[2], 0>>] = NoItem
    BY <1>1, <1>5 DEF Occupied
<1>7. <<d, p[1]>> \in SlotIds /\ slots[<<d, p[1]>>] # NoItem
    BY <1>2, SourceIsOccupied
<1> QED
    BY <1>2, <1>4, <1>5, <1>6, <1>7

\* The same of the outlet a valve passes its item to.
LEMMA PassageIsFree ==
    ASSUME NEW d \in Devices, NEW o \in Passage(d)
    PROVE  /\ o \in Devices /\ Kind[o] = "chuteOutlet" /\ Input[o] = Output[d]
           /\ <<d, 0>> \in SlotIds /\ slots[<<d, 0>>] # NoItem
           /\ <<o, 0>> \in SlotIds /\ slots[<<o, 0>>] = NoItem
<1>1. /\ o = OnInput("chuteOutlet", Output[d]) /\ o # NoDevice
      /\ Occupied(d, 0) /\ ~Occupied(o, 0)
    BY DEF Passage
<1>2. o \in Devices /\ Kind[o] = "chuteOutlet" /\ Input[o] = Output[d]
    BY <1>1, OnInputFinds
<1>3. <<o, 0>> \in SlotIds
    BY <1>2, CatalogueAssumption, WorldAssumption DEF SlotIds
<1> QED
    BY <1>1, <1>2, <1>3 DEF Occupied

-----------------------------------------------------------------------------
(* Types.                                                                  *)

Value == Int \cup {NaN}

\* Setting or incrementing fields a device has keeps the fields well typed.
LEMMA FieldSet ==
    ASSUME NEW fs \in [Devices -> [Fields -> Value]], NEW d \in Devices,
           NEW f \in Fields, NEW v \in Value
    PROVE  [fs EXCEPT ![d] = [fs[d] EXCEPT ![f] = v]] \in [Devices -> [Fields -> Value]]
OBVIOUS

LEMMA RowSet ==
    ASSUME NEW fs \in [Devices -> [Fields -> Value]], NEW d \in Devices,
           NEW row \in [Fields -> Value]
    PROVE  [fs EXCEPT ![d] = row] \in [Devices -> [Fields -> Value]]
OBVIOUS

LEMMA CounterType ==
    ASSUME NEW v \in Value PROVE OneMore(v) \in Value
BY DEF OneMore, Value

\* The fields the hooks use are fields of the world.
LEMMA HookFields ==
    ASSUME NEW d \in Devices
    PROVE  /\ Has[d] \subseteq Fields
           /\ Kind[d] = "vendingMachine" => {"Activate", "DispenseSlot", "ExportCount"} \subseteq Fields
           /\ Kind[d] = "digitalChuteValve" => {"Open", "Quantity"} \subseteq Fields
           /\ Kind[d] = "chuteOutlet" => "ExportCount" \in Fields
<1>1. Has[d] \subseteq Fields
    BY CatalogueAssumption
<1> QED
    BY <1>1, CatalogueAssumption

LEMMA InitTypes == Init => TypeOK
<1> SUFFICES ASSUME Init PROVE TypeOK
    OBVIOUS
<1>1. slots \in [SlotIds -> Items \cup {NoItem}]
    BY ItemsAssumption DEF Init
<1>2. fields \in [Devices -> [Fields -> Int \cup {NaN}]]
    BY DEF Init
<1> QED
    BY <1>1, <1>2, WorldAssumption DEF Init, TypeOK

\* A transfer from an occupied slot to a free one keeps the slots well typed.
LEMMA MoveType ==
    ASSUME slots \in [SlotIds -> Items \cup {NoItem}],
           NEW from \in SlotIds, NEW to \in SlotIds, MoveSlot(from, to)
    PROVE  slots' \in [SlotIds -> Items \cup {NoItem}]
BY DEF MoveSlot

LEMMA VendTypes ==
    ASSUME TypeOK, VendItem PROVE TypeOK'
<1>1. cursor \in Devices /\ Kind[cursor] = "vendingMachine" /\ cursor \in Nat
    BY WorldAssumption DEF VendItem, AtDevice, TypeOK
<1>2. PICK p \in Delivery(cursor) :
        /\ MoveSlot(<<cursor, p[1]>>, <<p[2], 0>>)
        /\ fields' = [fields EXCEPT
              ![cursor] = [fields[cursor] EXCEPT !["ExportCount"] = OneMore(@), !["Activate"] = 0],
              ![p[2]] = [fields[p[2]] EXCEPT !["Quantity"] = 1]]
    BY DEF VendItem
<1>3. /\ p[2] \in Devices /\ Kind[p[2]] = "digitalChuteValve"
      /\ <<cursor, p[1]>> \in SlotIds /\ <<p[2], 0>> \in SlotIds
    BY <1>1, <1>2, DeliveryIsFree
<1>4. slots' \in [SlotIds -> Items \cup {NoItem}]
    BY <1>2, <1>3, MoveType DEF TypeOK
<1>5. {"Activate", "ExportCount", "Quantity"} \subseteq Fields
    BY <1>1, <1>3, HookFields
<1>6. OneMore(fields[cursor]["ExportCount"]) \in Int \cup {NaN}
    BY <1>1, <1>5, CounterType DEF TypeOK, Value
<1>7. fields' \in [Devices -> [Fields -> Int \cup {NaN}]]
    <2> DEFINE row == [fields[cursor] EXCEPT !["ExportCount"] = OneMore(@), !["Activate"] = 0]
               mid == [fields EXCEPT ![cursor] = row]
    <2>1. fields \in [Devices -> [Fields -> Value]] /\ 1 \in Value
        BY DEF TypeOK, Value
    <2>2. row \in [Fields -> Value]
        BY <1>1, <1>5, <1>6, <2>1 DEF Value
    <2>3. mid \in [Devices -> [Fields -> Value]]
        BY <1>1, <2>1, <2>2, RowSet
    <2> DEFINE other == [fields[p[2]] EXCEPT !["Quantity"] = 1]
    <2>4. fields' = [fields EXCEPT ![cursor] = row, ![p[2]] = other]
        BY <1>1, <1>2, <1>3, <2>1
    <2>5. other \in [Fields -> Value]
        BY <1>3, <1>5, <2>1
    <2> HIDE DEF row, other
    <2>6. fields' = [mid EXCEPT ![p[2]] = other]
        BY <2>4
    <2> HIDE DEF mid
    <2> QED BY <1>3, <2>3, <2>5, <2>6, RowSet DEF Value
<1>8. /\ activations' \in [Devices -> Nat] /\ transfers' \in [Devices -> Nat]
      /\ cursor' \in Nat
    BY <1>1 DEF VendItem, TypeOK
<1>9. UNCHANGED <<scheduled, sequence, tick, phase, lastError, collected, lost, applied>>
    BY DEF VendItem
<1> QED
    BY <1>4, <1>7, <1>8, <1>9 DEF TypeOK

LEMMA PassTypes ==
    ASSUME TypeOK, PassValve PROVE TypeOK'
<1>1. cursor \in Devices /\ Kind[cursor] = "digitalChuteValve" /\ cursor \in Nat
    BY WorldAssumption DEF PassValve, AtDevice, TypeOK
<1>2. PICK o \in Passage(cursor) :
        /\ MoveSlot(<<cursor, 0>>, <<o, 0>>)
        /\ fields' = [fields EXCEPT
              ![o] = [fields[o] EXCEPT !["ExportCount"] = OneMore(@)],
              ![cursor] = [fields[cursor] EXCEPT !["Quantity"] = 0]]
    BY DEF PassValve
<1>3. /\ o \in Devices /\ Kind[o] = "chuteOutlet"
      /\ <<cursor, 0>> \in SlotIds /\ <<o, 0>> \in SlotIds
    BY <1>1, <1>2, PassageIsFree
<1>4. slots' \in [SlotIds -> Items \cup {NoItem}]
    BY <1>2, <1>3, MoveType DEF TypeOK
<1>5. {"ExportCount", "Quantity"} \subseteq Fields
    BY <1>1, <1>3, HookFields
<1>6. OneMore(fields[o]["ExportCount"]) \in Int \cup {NaN}
    BY <1>3, <1>5, CounterType DEF TypeOK, Value
<1>7. fields' \in [Devices -> [Fields -> Int \cup {NaN}]]
    <2> DEFINE row == [fields[o] EXCEPT !["ExportCount"] = OneMore(@)]
               other == [fields[cursor] EXCEPT !["Quantity"] = 0]
               mid == [fields EXCEPT ![o] = row]
    <2>1. fields \in [Devices -> [Fields -> Value]] /\ 0 \in Value
        BY DEF TypeOK, Value
    <2>2. mid \in [Devices -> [Fields -> Value]]
        BY <1>3, <1>5, <1>6, <2>1, FieldSet DEF Value
    <2>3. fields' = [fields EXCEPT ![o] = row, ![cursor] = other]
        BY <1>1, <1>2, <1>3, <2>1
    <2>4. other \in [Fields -> Value]
        BY <1>1, <1>5, <2>1
    <2> HIDE DEF row, other
    <2>5. fields' = [mid EXCEPT ![cursor] = other]
        BY <2>3
    <2> HIDE DEF mid
    <2> QED BY <1>1, <2>2, <2>4, <2>5, RowSet DEF Value
<1>8. transfers' \in [Devices -> Nat] /\ cursor' \in Nat
    BY <1>1 DEF PassValve, TypeOK
<1>9. UNCHANGED <<scheduled, sequence, activations, tick, phase, lastError, collected, lost, applied>>
    BY DEF PassValve
<1> QED
    BY <1>4, <1>7, <1>8, <1>9 DEF TypeOK

LEMMA ScheduleTypes ==
    ASSUME TypeOK, NEW p \in Plans, Schedule(p[1], p[2], p[3], p[4], p[5]) PROVE TypeOK'
<1> DEFINE a == [tick |-> p[1], device |-> p[2], sequence |-> sequence,
                 target |-> p[3], field |-> p[4], value |-> p[5], made |-> tick]
<1>1. a \in ActionType
    BY WorldAssumption DEF Schedule, TypeOK, ActionType
<1>2. scheduled' = scheduled \cup {a}
    BY DEF Schedule
<1>3. \A b \in scheduled' : b \in ActionType
    BY <1>1, <1>2 DEF TypeOK
<1> QED
    BY <1>3 DEF Schedule, TypeOK

\* Every step keeps the types.
LEMMA TypesKept == TypeOK /\ [Next]_vars => TypeOK'
<1> SUFFICES ASSUME TypeOK, [Next]_vars PROVE TypeOK'
    OBVIOUS
<1>1. ASSUME NEW w \in Writes, SetDeviceField(w[1], w[2], w[3]) PROVE TypeOK'
    <2>1. w[1] \in Devices /\ w[2] \in Fields /\ w[3] \in Int \cup {NaN}
        BY <1>1, WorldAssumption, HookFields DEF SetDeviceField
    <2>2. fields' \in [Devices -> [Fields -> Int \cup {NaN}]]
        BY <1>1, <2>1 DEF SetDeviceField, TypeOK
    <2> QED BY <1>1, <2>2 DEF SetDeviceField, TypeOK
<1>2. ASSUME NEW d \in Devices, ClearSlot(d) PROVE TypeOK'
    BY <1>2 DEF ClearSlot, TypeOK, Occupied
<1>3. ASSUME NEW p \in Plans, Schedule(p[1], p[2], p[3], p[4], p[5]) PROVE TypeOK'
    BY <1>3, ScheduleTypes
<1>4. CASE BeginTickEnd
    BY <1>4 DEF BeginTickEnd, TypeOK
<1>5. CASE VendItem
    BY <1>5, VendTypes
<1>6. CASE VendNothing
    <2>1. cursor \in Devices /\ Kind[cursor] = "vendingMachine"
        BY <1>6 DEF VendNothing, AtDevice
    <2>2. "Activate" \in Fields
        BY <2>1, HookFields
    <2>3. fields' \in [Devices -> [Fields -> Int \cup {NaN}]]
        BY <1>6, <2>1, <2>2 DEF VendNothing, TypeOK
    <2>4. activations' \in [Devices -> Nat] /\ cursor' \in Nat
        BY <1>6, <2>1 DEF VendNothing, TypeOK
    <2> QED BY <1>6, <2>3, <2>4 DEF VendNothing, TypeOK
<1>7. CASE PassValve
    BY <1>7, PassTypes
<1>8. CASE Idle
    BY <1>8 DEF Idle, TypeOK
<1>9. CASE AdvanceTick
    BY <1>9 DEF AdvanceTick, TypeOK
<1>10. CASE ApplyAction
    <2>1. PICK a \in scheduled :
            /\ a.field \in Has[a.target] /\ scheduled' = scheduled \ {a}
            /\ fields' = [fields EXCEPT ![a.target][a.field] = a.value]
        BY <1>10 DEF ApplyAction
    <2>2. a.target \in Devices /\ a.value \in Int
        BY <2>1, WorldAssumption DEF TypeOK, ActionType
    <2>3. a.field \in Fields
        BY <2>1, <2>2, HookFields
    <2>4. fields' \in [Devices -> [Fields -> Int \cup {NaN}]]
        BY <2>1, <2>2, <2>3 DEF TypeOK
    <2> QED BY <1>10, <2>1, <2>4 DEF ApplyAction, TypeOK
<1>11. CASE FailAction
    BY <1>11 DEF FailAction, TypeOK
<1>12. CASE EndTickStart
    BY <1>12 DEF EndTickStart, TypeOK
<1>13. CASE UNCHANGED vars
    BY <1>13 DEF vars, TypeOK
<1> QED
    BY <1>1, <1>2, <1>3, <1>4, <1>5, <1>6, <1>7, <1>8, <1>9, <1>10, <1>11, <1>12, <1>13
    DEF Next, TickEnd, TickStart

\* Every reachable state of the behaviour runtime is well typed (behaviour.rs
\* and the tick boundaries of the simulator).
THEOREM TypeCorrect == Spec => []TypeOK
BY InitTypes, TypesKept, PTL DEF Spec

-----------------------------------------------------------------------------
(* Items.                                                                  *)

\* A transfer from an occupied slot to a free one neither loses nor copies.
LEMMA MoveConserves ==
    ASSUME TypeOK, ItemsConserved, NEW from \in SlotIds, NEW to \in SlotIds,
           slots[from] # NoItem, slots[to] = NoItem, MoveSlot(from, to),
           collected' = collected
    PROVE  ItemsConserved'
<1>1. \A s \in SlotIds : slots'[s] = IF s = to THEN slots[from]
                                     ELSE IF s = from THEN NoItem ELSE slots[s]
    BY DEF MoveSlot, TypeOK
<1>2. \A s, t \in SlotIds : slots'[s] # NoItem /\ slots'[s] = slots'[t] => s = t
    BY <1>1 DEF ItemsConserved
<1>3. ASSUME NEW i \in Items PROVE i \in collected' <=> Places(i)' = {}
    <2>1. i # NoItem
        BY ItemsAssumption, WorldAssumption
    <2>2. (\E s \in SlotIds : slots'[s] = i) <=> (\E s \in SlotIds : slots[s] = i)
        <3>1. ASSUME NEW s \in SlotIds, slots'[s] = i PROVE \E t \in SlotIds : slots[t] = i
            BY <1>1, <2>1, <3>1
        <3>2. ASSUME NEW s \in SlotIds, slots[s] = i PROVE \E t \in SlotIds : slots'[t] = i
            <4>1. CASE s = from
                <5>1. slots'[to] = i
                    BY <1>1, <3>2, <4>1
                <5> QED BY <5>1
            <4>2. CASE s # from
                <5>1. slots'[s] = i
                    BY <1>1, <2>1, <3>2, <4>2
                <5> QED BY <5>1
            <4> QED BY <4>1, <4>2
        <3> QED BY <3>1, <3>2
    <2> QED BY <2>2 DEF ItemsConserved, Places
<1> QED
    BY <1>2, <1>3 DEF ItemsConserved

LEMMA ItemsStart == Init => ItemsConserved
<1> SUFFICES ASSUME Init PROVE ItemsConserved
    OBVIOUS
<1>1. \A i \in Items : Places(i) # {}
    BY ItemsAssumption DEF Init, Places
<1>2. collected = {}
    BY DEF Init
<1>3. \A s, t \in SlotIds : slots[s] # NoItem /\ slots[s] = slots[t] => s = t
    BY ItemsAssumption DEF Init
<1> QED
    BY <1>1, <1>2, <1>3 DEF ItemsConserved

\* Every step conserves the items.
LEMMA ItemsKept == TypeOK /\ ItemsConserved /\ [Next]_vars => ItemsConserved'
<1> SUFFICES ASSUME TypeOK, ItemsConserved, [Next]_vars PROVE ItemsConserved'
    OBVIOUS
<1>1. ASSUME NEW d \in Devices, ClearSlot(d) PROVE ItemsConserved'
    <2> DEFINE here == <<d, 0>>
    <2>1. here \in SlotIds /\ slots[here] \in Items
        BY <1>1 DEF ClearSlot, Occupied, TypeOK
    <2>2. \A s \in SlotIds : slots'[s] = IF s = here THEN NoItem ELSE slots[s]
        BY <1>1 DEF ClearSlot, TypeOK
    <2>3. collected' = collected \cup {slots[here]}
        BY <1>1 DEF ClearSlot
    <2>4. \A s, t \in SlotIds : slots[s] # NoItem /\ slots[s] = slots[t] => s = t
        BY DEF ItemsConserved
    <2> HIDE DEF here
    <2>5. ASSUME NEW i \in Items PROVE i \in collected' <=> Places(i)' = {}
        <3>1. i # NoItem
            BY WorldAssumption
        <3>2. CASE i = slots[here]
            <4>1. \A s \in SlotIds : slots'[s] # i
                BY <2>1, <2>2, <2>4, <3>1, <3>2
            <4> QED BY <2>3, <3>2, <4>1 DEF Places
        <3>3. CASE i # slots[here]
            <4>1. \A s \in SlotIds : slots'[s] = i <=> slots[s] = i
                BY <2>2, <3>1, <3>3
            <4>2. i \in collected <=> Places(i) = {}
                BY DEF ItemsConserved
            <4> QED BY <2>3, <3>3, <4>1, <4>2 DEF Places
        <3> QED BY <3>2, <3>3
    <2>6. \A s, t \in SlotIds : slots'[s] # NoItem /\ slots'[s] = slots'[t] => s = t
        BY <2>2, <2>4
    <2> QED BY <2>5, <2>6 DEF ItemsConserved
<1>2. CASE VendItem
    <2>1. cursor \in Devices
        BY <1>2 DEF VendItem, AtDevice
    <2>2. PICK p \in Delivery(cursor) : MoveSlot(<<cursor, p[1]>>, <<p[2], 0>>)
        BY <1>2 DEF VendItem
    <2>3. /\ <<cursor, p[1]>> \in SlotIds /\ slots[<<cursor, p[1]>>] # NoItem
          /\ <<p[2], 0>> \in SlotIds /\ slots[<<p[2], 0>>] = NoItem
        BY <2>1, DeliveryIsFree
    <2>4. collected' = collected
        BY <1>2 DEF VendItem
    <2> QED BY <2>2, <2>3, <2>4, MoveConserves
<1>3. CASE PassValve
    <2>1. cursor \in Devices
        BY <1>3 DEF PassValve, AtDevice
    <2>2. PICK o \in Passage(cursor) : MoveSlot(<<cursor, 0>>, <<o, 0>>)
        BY <1>3 DEF PassValve
    <2>3. /\ <<cursor, 0>> \in SlotIds /\ slots[<<cursor, 0>>] # NoItem
          /\ <<o, 0>> \in SlotIds /\ slots[<<o, 0>>] = NoItem
        BY <2>1, PassageIsFree
    <2>4. collected' = collected
        BY <1>3 DEF PassValve
    <2> QED BY <2>2, <2>3, <2>4, MoveConserves
<1>4. ASSUME UNCHANGED <<slots, collected>> PROVE ItemsConserved'
    BY <1>4 DEF ItemsConserved, Places
<1>5. \/ UNCHANGED <<slots, collected>> \/ VendItem \/ PassValve
      \/ \E d \in Devices : ClearSlot(d)
    BY DEF Next, TickEnd, TickStart, vars, SetDeviceField, Schedule, BeginTickEnd, VendNothing,
           Idle, AdvanceTick, ApplyAction, FailAction, EndTickStart
<1> QED
    BY <1>1, <1>2, <1>3, <1>4, <1>5

\* Whatever the devices, networks, programs and tests: no item is lost, copied
\* or overwritten (move_slot under the occupancy tests of vend and pass_valve).
THEOREM ItemsAreConserved == Spec => []ItemsConserved
<1>1. Init => TypeOK /\ ItemsConserved
    BY InitTypes, ItemsStart
<1>2. TypeOK /\ ItemsConserved /\ [Next]_vars => (TypeOK /\ ItemsConserved)'
    BY TypesKept, ItemsKept
<1> QED
    BY <1>1, <1>2, PTL DEF Spec

\* What ItemsMoveForward says of one step.
Forward ==
    \A s, t \in SlotIds :
        slots[s] # NoItem /\ slots'[t] = slots[s] /\ s # t =>
           /\ phase = "ending" /\ s[1] = cursor
           /\ Input[t[1]] = Output[s[1]]
           /\ <<Kind[s[1]], Kind[t[1]]>> \in
                 {<<"vendingMachine", "digitalChuteValve">>,
                  <<"digitalChuteValve", "chuteOutlet">>}

\* A transfer moves the item of its source, and no other.
LEMMA MoveOnlySource ==
    ASSUME TypeOK, ItemsConserved, NEW from \in SlotIds, NEW to \in SlotIds,
           MoveSlot(from, to), NEW s \in SlotIds, NEW t \in SlotIds,
           slots[s] # NoItem, slots'[t] = slots[s], s # t
    PROVE  s = from /\ t = to
<1>1. slots'[t] = IF t = to THEN slots[from] ELSE IF t = from THEN NoItem ELSE slots[t]
    BY DEF MoveSlot, TypeOK
<1>2. \A x, y \in SlotIds : slots[x] # NoItem /\ slots[x] = slots[y] => x = y
    BY DEF ItemsConserved
<1> QED
    BY <1>1, <1>2

LEMMA StepForward == TypeOK /\ ItemsConserved /\ [Next]_vars => Forward
<1> SUFFICES ASSUME TypeOK, ItemsConserved, [Next]_vars,
                    NEW s \in SlotIds, NEW t \in SlotIds,
                    slots[s] # NoItem, slots'[t] = slots[s], s # t
             PROVE  /\ phase = "ending" /\ s[1] = cursor
                    /\ Input[t[1]] = Output[s[1]]
                    /\ <<Kind[s[1]], Kind[t[1]]>> \in
                          {<<"vendingMachine", "digitalChuteValve">>,
                           <<"digitalChuteValve", "chuteOutlet">>}
    BY DEF Forward
<1>0. \A x, y \in SlotIds : slots[x] # NoItem /\ slots[x] = slots[y] => x = y
    BY DEF ItemsConserved
<1>1. ASSUME NEW d \in Devices, ClearSlot(d) PROVE FALSE
    <2>1. slots'[t] = IF t = <<d, 0>> THEN NoItem ELSE slots[t]
        BY <1>1 DEF ClearSlot, TypeOK
    <2> QED BY <1>0, <2>1
<1>2. CASE UNCHANGED slots
    BY <1>0, <1>2
<1>3. CASE VendItem
    <2>1. cursor \in Devices /\ phase = "ending" /\ Kind[cursor] = "vendingMachine"
        BY <1>3 DEF VendItem, AtDevice
    <2>2. PICK p \in Delivery(cursor) : MoveSlot(<<cursor, p[1]>>, <<p[2], 0>>)
        BY <1>3 DEF VendItem
    <2>3. /\ <<cursor, p[1]>> \in SlotIds /\ <<p[2], 0>> \in SlotIds
          /\ Kind[p[2]] = "digitalChuteValve" /\ Input[p[2]] = Output[cursor]
        BY <2>1, DeliveryIsFree
    <2>4. s = <<cursor, p[1]>> /\ t = <<p[2], 0>>
        BY <2>2, <2>3, MoveOnlySource
    <2>5. s[1] = cursor /\ t[1] = p[2]
        BY <2>4
    <2> QED BY <2>1, <2>3, <2>5
<1>4. CASE PassValve
    <2>1. cursor \in Devices /\ phase = "ending" /\ Kind[cursor] = "digitalChuteValve"
        BY <1>4 DEF PassValve, AtDevice
    <2>2. PICK o \in Passage(cursor) : MoveSlot(<<cursor, 0>>, <<o, 0>>)
        BY <1>4 DEF PassValve
    <2>3. /\ <<cursor, 0>> \in SlotIds /\ <<o, 0>> \in SlotIds
          /\ Kind[o] = "chuteOutlet" /\ Input[o] = Output[cursor]
        BY <2>1, PassageIsFree
    <2>4. s = <<cursor, 0>> /\ t = <<o, 0>>
        BY <2>2, <2>3, MoveOnlySource
    <2>5. s[1] = cursor /\ t[1] = o
        BY <2>4
    <2> QED BY <2>1, <2>3, <2>5
<1>5. \/ UNCHANGED slots \/ VendItem \/ PassValve \/ \E d \in Devices : ClearSlot(d)
    BY DEF Next, TickEnd, TickStart, vars, SetDeviceField, Schedule, BeginTickEnd, VendNothing,
           Idle, AdvanceTick, ApplyAction, FailAction, EndTickStart
<1> QED
    BY <1>1, <1>2, <1>3, <1>4, <1>5

\* Items move only inside tick_end, from a vending machine to the valve on its
\* output network and from a valve to the outlet on its (vend, pass_valve).
THEOREM ItemsGoForward == Spec => ItemsMoveForward
<1>1. TypeOK /\ ItemsConserved /\ [Next]_vars => [Forward]_vars
    BY StepForward
<1> QED
    BY <1>1, TypeCorrect, ItemsAreConserved, PTL DEF Spec, ItemsMoveForward, Forward

-----------------------------------------------------------------------------
(* Requests.                                                               *)

\* While tick_end runs, the vending machines it has visited have no request.
VisitedServed ==
    /\ cursor \in 1 .. Count + 1
    /\ phase = "ending" =>
          \A d \in Devices : d < cursor /\ Kind[d] = "vendingMachine"
                                => fields[d]["Activate"] = 0

LEMMA ServedKept == TypeOK /\ VisitedServed /\ [Next]_vars => VisitedServed'
<1> SUFFICES ASSUME TypeOK, VisitedServed, [Next]_vars PROVE VisitedServed'
    OBVIOUS
<1>0. Count \in Nat /\ Devices = 1 .. Count
    BY WorldAssumption DEF Devices
<1>1. ASSUME phase' # "ending", cursor' = cursor PROVE VisitedServed'
    BY <1>1 DEF VisitedServed
<1>2. CASE BeginTickEnd
    BY <1>0, <1>2 DEF BeginTickEnd, VisitedServed
<1>3. ASSUME phase = "ending", phase' = phase, cursor \in Devices, cursor' = cursor + 1,
             \A d \in Devices : Kind[d] = "vendingMachine" =>
                fields'[d]["Activate"] = IF d = cursor THEN 0 ELSE fields[d]["Activate"]
      PROVE  VisitedServed'
    <2>1. cursor' \in 1 .. Count + 1
        BY <1>0, <1>3
    <2>2. ASSUME NEW d \in Devices, d < cursor', Kind[d] = "vendingMachine"
          PROVE  fields'[d]["Activate"] = 0
        <3>1. d = cursor \/ d < cursor
            BY <1>0, <1>3, <2>2
        <3> QED BY <1>3, <2>2, <3>1 DEF VisitedServed
    <2> QED BY <2>1, <2>2 DEF VisitedServed
<1>4. CASE VendItem
    <2>1. cursor \in Devices /\ Kind[cursor] = "vendingMachine" /\ phase = "ending"
        BY <1>4 DEF VendItem, AtDevice
    <2>2. PICK p \in Delivery(cursor) :
            fields' = [fields EXCEPT
              ![cursor] = [fields[cursor] EXCEPT !["ExportCount"] = OneMore(@), !["Activate"] = 0],
              ![p[2]] = [fields[p[2]] EXCEPT !["Quantity"] = 1]]
        BY <1>4 DEF VendItem
    <2>3. p[2] \in Devices /\ Kind[p[2]] = "digitalChuteValve"
        BY <2>1, DeliveryIsFree
    <2>4. "Activate" \in Fields
        BY <2>1, HookFields
    <2> DEFINE row == [fields[cursor] EXCEPT !["ExportCount"] = OneMore(@), !["Activate"] = 0]
               other == [fields[p[2]] EXCEPT !["Quantity"] = 1]
    <2>5. fields' = [fields EXCEPT ![cursor] = row, ![p[2]] = other]
        BY <2>2
    <2>6. row["Activate"] = 0
        BY <2>1, <2>4 DEF TypeOK
    <2> HIDE DEF row, other
    <2>7. ASSUME NEW d \in Devices, Kind[d] = "vendingMachine"
          PROVE  fields'[d]["Activate"] = IF d = cursor THEN 0 ELSE fields[d]["Activate"]
        BY <2>1, <2>3, <2>5, <2>6, <2>7 DEF TypeOK
    <2> QED BY <1>3, <1>4, <2>1, <2>7 DEF VendItem
<1>5. CASE VendNothing
    <2>1. cursor \in Devices /\ Kind[cursor] = "vendingMachine" /\ phase = "ending"
        BY <1>5 DEF VendNothing, AtDevice
    <2>2. "Activate" \in Fields
        BY <2>1, HookFields
    <2>3. \A d \in Devices : fields'[d]["Activate"] = IF d = cursor THEN 0 ELSE fields[d]["Activate"]
        BY <1>5, <2>1, <2>2 DEF VendNothing, TypeOK
    <2> QED BY <1>3, <1>5, <2>1, <2>3 DEF VendNothing
<1>6. CASE PassValve
    <2>1. cursor \in Devices /\ Kind[cursor] = "digitalChuteValve" /\ phase = "ending"
        BY <1>6 DEF PassValve, AtDevice
    <2>2. PICK o \in Passage(cursor) :
            fields' = [fields EXCEPT
              ![o] = [fields[o] EXCEPT !["ExportCount"] = OneMore(@)],
              ![cursor] = [fields[cursor] EXCEPT !["Quantity"] = 0]]
        BY <1>6 DEF PassValve
    <2>3. o \in Devices /\ Kind[o] = "chuteOutlet"
        BY <2>1, PassageIsFree
    <2> DEFINE row == [fields[o] EXCEPT !["ExportCount"] = OneMore(@)]
               other == [fields[cursor] EXCEPT !["Quantity"] = 0]
    <2>4. fields' = [fields EXCEPT ![o] = row, ![cursor] = other]
        BY <2>2
    <2> HIDE DEF row, other
    <2>5. ASSUME NEW d \in Devices, Kind[d] = "vendingMachine"
          PROVE  fields'[d] = fields[d] /\ d # cursor
        BY <2>1, <2>3, <2>4, <2>5 DEF TypeOK
    <2> QED BY <1>3, <1>6, <2>1, <2>5 DEF PassValve
<1>7. CASE Idle
    <2>1. cursor \in Devices /\ phase = "ending"
        BY <1>7 DEF Idle
    <2>2. Kind[cursor] = "vendingMachine" => fields[cursor]["Activate"] = 0
        BY <1>7 DEF Idle
    <2> QED BY <1>3, <1>7, <2>1, <2>2 DEF Idle
<1>8. CASE UNCHANGED vars
    BY <1>8 DEF vars, VisitedServed
<1>9. \/ phase' # "ending" /\ cursor' = cursor
      \/ BeginTickEnd \/ VendItem \/ VendNothing \/ PassValve \/ Idle \/ UNCHANGED vars
    BY DEF Next, TickEnd, TickStart, SetDeviceField, ClearSlot, Schedule,
           AdvanceTick, ApplyAction, FailAction, EndTickStart
<1> QED
    BY <1>1, <1>2, <1>4, <1>5, <1>6, <1>7, <1>8, <1>9

\* When tick_end is over, no vending machine has a request left: one that
\* could not be met is dropped with the tick it was made in (vend).
THEOREM RequestsAreCleared == Spec => RequestsCleared
<1> DEFINE Served == AdvanceTick => \A d \in Devices :
                        Kind[d] = "vendingMachine" => fields[d]["Activate"] = 0
<1>1. Init => VisitedServed
    BY WorldAssumption DEF Init, VisitedServed
<1>2. VisitedServed => Served
    <2> SUFFICES ASSUME VisitedServed, AdvanceTick, NEW d \in Devices,
                        Kind[d] = "vendingMachine"
                 PROVE  fields[d]["Activate"] = 0
        OBVIOUS
    <2>1. Count \in Nat /\ Devices = 1 .. Count
        BY WorldAssumption DEF Devices
    <2>2. phase = "ending" /\ cursor = Count + 1
        BY <2>1 DEF AdvanceTick, VisitedServed
    <2>3. d < cursor
        BY <2>1, <2>2
    <2> QED BY <2>2, <2>3 DEF VisitedServed
<1>3. VisitedServed /\ [Next]_vars => [Served]_vars
    BY <1>2
<1>4. TypeOK /\ VisitedServed /\ [Next]_vars => (TypeOK /\ VisitedServed)'
    BY TypesKept, ServedKept
<1> QED
    BY <1>1, <1>3, <1>4, InitTypes, PTL DEF Spec, RequestsCleared

-----------------------------------------------------------------------------
(* Scheduled actions.                                                      *)

\* An action was scheduled at a tick that has begun, under a number that is
\* not given out again.
ActionsSound ==
    /\ IsFiniteSet(scheduled)
    /\ \A a \in scheduled : a.made <= tick /\ a.sequence < sequence

\* The bound on lateness, also while tick_start is at work: it has one tick
\* more to make up for.
LatenessBounded ==
    \A a \in scheduled :
        tick - DueTick(a) < IF phase = "starting" THEN lost + 1 ELSE lost

ActionsInv == ActionsSound /\ ActionsAccounted /\ LatenessBounded

LEMMA DueTickType ==
    ASSUME TypeOK, NEW a \in scheduled
    PROVE  /\ DueTick(a) \in Nat /\ a.tick \in Nat /\ a.made \in Nat
           /\ DueTick(a) >= a.tick /\ DueTick(a) > a.made
BY DEF TypeOK, ActionType, DueTick

\* Taking out an action, and counting it as applied or lost.
LEMMA RemoveKept ==
    ASSUME TypeOK, ActionsInv, NEW a \in scheduled, scheduled' = scheduled \ {a},
           UNCHANGED <<tick, sequence>>, applied' \in Nat, lost' \in Nat,
           applied' + lost' = applied + lost + 1
    PROVE  ActionsSound' /\ ActionsAccounted'
<1>1. IsFiniteSet(scheduled) /\ IsFiniteSet(scheduled')
    BY FS_RemoveElement DEF ActionsInv, ActionsSound
<1>2. Cardinality(scheduled') = Cardinality(scheduled) - 1
    BY <1>1, FS_RemoveElement
<1>3. Cardinality(scheduled) \in Nat /\ Cardinality(scheduled') \in Nat
    BY <1>1, FS_CardinalityType
<1>4. ActionsSound'
    BY <1>1 DEF ActionsInv, ActionsSound
<1>5. ActionsAccounted'
    <2>1. applied \in Nat /\ lost \in Nat /\ sequence \in Nat
        BY DEF TypeOK
    <2>2. Cardinality(scheduled) + applied + lost = sequence
        BY DEF ActionsInv, ActionsAccounted
    <2>3. ASSUME NEW c \in Nat, NEW n \in Nat, NEW a1 \in Nat, NEW l1 \in Nat,
                 n = c - 1, a1 + l1 = applied + lost + 1, c + applied + lost = sequence
          PROVE  n + a1 + l1 = sequence
        BY <2>1, <2>3
    <2>4. sequence' = sequence
        OBVIOUS
    <2>5. Cardinality(scheduled') + applied' + lost' = sequence'
        BY <1>2, <1>3, <2>2, <2>3, <2>4
    <2> QED BY <2>5 DEF ActionsAccounted
<1> QED
    BY <1>4, <1>5

LEMMA ActionsStep == TypeOK /\ ActionsInv /\ [Next]_vars => ActionsInv'
<1> SUFFICES ASSUME TypeOK, ActionsInv, [Next]_vars PROVE ActionsInv'
    OBVIOUS
<1>0. tick \in Nat /\ lost \in Nat /\ applied \in Nat /\ sequence \in Nat
    BY DEF TypeOK
<1>1. ASSUME NEW p \in Plans, Schedule(p[1], p[2], p[3], p[4], p[5]) PROVE ActionsInv'
    <2> DEFINE a == [tick |-> p[1], device |-> p[2], sequence |-> sequence,
                     target |-> p[3], field |-> p[4], value |-> p[5], made |-> tick]
    <2>1. /\ scheduled' = scheduled \cup {a} /\ sequence' = sequence + 1
          /\ UNCHANGED <<tick, phase, lost, applied>> /\ phase = "programs"
        BY <1>1 DEF Schedule
    <2>2. a.made = tick /\ a.sequence = sequence /\ a.tick = p[1] /\ p[1] \in Nat
        BY WorldAssumption
    <2> HIDE DEF a
    <2>3. a \notin scheduled
        BY <1>0, <2>2 DEF ActionsInv, ActionsSound
    <2>4. IsFiniteSet(scheduled')  /\ Cardinality(scheduled') = Cardinality(scheduled) + 1
        BY <2>1, <2>3, FS_AddElement DEF ActionsInv, ActionsSound
    <2>5. Cardinality(scheduled) \in Nat
        BY FS_CardinalityType DEF ActionsInv, ActionsSound
    <2>6. \A b \in scheduled : b.sequence \in Nat
        BY DEF TypeOK, ActionType
    <2>7. ActionsSound'
        BY <1>0, <2>1, <2>2, <2>4, <2>6 DEF ActionsInv, ActionsSound
    <2>8. ActionsAccounted'
        <3>1. Cardinality(scheduled) + applied + lost = sequence
            BY DEF ActionsInv, ActionsAccounted
        <3>2. Cardinality(scheduled') + applied' + lost' = sequence'
            BY <1>0, <2>1, <2>4, <2>5, <3>1
        <3> QED BY <3>2 DEF ActionsAccounted
    <2>9. tick - DueTick(a) < lost
        BY <1>0, <2>2 DEF DueTick
    <2>10. LatenessBounded'
        BY <2>1, <2>9 DEF ActionsInv, LatenessBounded, DueTick
    <2> QED BY <2>7, <2>8, <2>10 DEF ActionsInv
<1>2. CASE AdvanceTick
    <2>1. tick' = tick + 1 /\ phase = "ending" /\ phase' = "starting"
          /\ UNCHANGED <<scheduled, sequence, lost, applied>>
        BY <1>2 DEF AdvanceTick
    <2>2. ASSUME NEW a \in scheduled PROVE tick' - DueTick(a) < lost + 1 /\ a.made <= tick'
        <3>1. tick - DueTick(a) < lost /\ a.made <= tick
            BY <2>1 DEF ActionsInv, LatenessBounded, ActionsSound
        <3> QED BY <1>0, <2>1, <3>1, DueTickType
    <2>3. LatenessBounded'
        BY <2>1, <2>2 DEF LatenessBounded, DueTick
    <2>4. ActionsSound' /\ ActionsAccounted'
        BY <2>1, <2>2 DEF ActionsInv, ActionsSound, ActionsAccounted
    <2> QED BY <2>3, <2>4 DEF ActionsInv
<1>3. CASE ApplyAction
    <2>1. PICK a \in scheduled : scheduled' = scheduled \ {a}
        BY <1>3 DEF ApplyAction
    <2>2. applied' = applied + 1 /\ UNCHANGED <<tick, sequence, lost, phase>>
        BY <1>3 DEF ApplyAction
    <2>3. applied' \in Nat /\ lost' \in Nat /\ applied' + lost' = applied + lost + 1
        BY <1>0, <2>2
    <2>4. ActionsSound' /\ ActionsAccounted'
        BY <2>1, <2>2, <2>3, RemoveKept
    <2>5. LatenessBounded'
        BY <2>1, <2>2 DEF ActionsInv, LatenessBounded, DueTick
    <2> QED BY <2>4, <2>5 DEF ActionsInv
<1>4. CASE FailAction
    <2>1. PICK a \in scheduled : scheduled' = scheduled \ {a}
        BY <1>4 DEF FailAction
    <2>2. /\ lost' = lost + 1 /\ UNCHANGED <<tick, sequence, applied>>
          /\ phase = "starting" /\ phase' = "programs"
        BY <1>4 DEF FailAction
    <2>3. applied' \in Nat /\ lost' \in Nat /\ applied' + lost' = applied + lost + 1
        BY <1>0, <2>2
    <2>4. ActionsSound' /\ ActionsAccounted'
        BY <2>1, <2>2, <2>3, RemoveKept
    <2>5. LatenessBounded'
        BY <2>1, <2>2 DEF ActionsInv, LatenessBounded, DueTick
    <2> QED BY <2>4, <2>5 DEF ActionsInv
<1>5. CASE EndTickStart
    <2>1. /\ UNCHANGED <<scheduled, sequence, tick, lost, applied>>
          /\ phase' = "programs" /\ Due(tick) = {}
        BY <1>5 DEF EndTickStart
    <2>2. ASSUME NEW a \in scheduled PROVE tick - DueTick(a) < lost
        <3>1. ~ (a.tick <= tick)
            BY <2>1 DEF Due
        <3> QED BY <1>0, <3>1, DueTickType
    <2>3. LatenessBounded'
        BY <2>1, <2>2 DEF LatenessBounded, DueTick
    <2>4. ActionsSound' /\ ActionsAccounted'
        BY <2>1 DEF ActionsInv, ActionsSound, ActionsAccounted
    <2> QED BY <2>3, <2>4 DEF ActionsInv
<1>6. ASSUME UNCHANGED <<scheduled, sequence, tick, lost, applied>>,
             phase # "starting", phase' # "starting"
      PROVE  ActionsInv'
    BY <1>6 DEF ActionsInv, ActionsSound, ActionsAccounted, LatenessBounded, DueTick
<1>7. CASE UNCHANGED vars
    BY <1>7 DEF vars, ActionsInv, ActionsSound, ActionsAccounted, LatenessBounded, DueTick
<1>8. \/ \E p \in Plans : Schedule(p[1], p[2], p[3], p[4], p[5])
      \/ AdvanceTick \/ ApplyAction \/ FailAction \/ EndTickStart \/ UNCHANGED vars
      \/ /\ UNCHANGED <<scheduled, sequence, tick, lost, applied>>
         /\ phase # "starting" /\ phase' # "starting"
    BY DEF Next, TickEnd, TickStart, AtDevice, SetDeviceField, ClearSlot, BeginTickEnd,
           VendItem, VendNothing, PassValve, Idle
<1> QED
    BY <1>1, <1>2, <1>3, <1>4, <1>5, <1>6, <1>7, <1>8

LEMMA ActionsInvariant == Spec => []ActionsInv
<1>1. Init => ActionsInv
    BY FS_EmptySet DEF Init, ActionsInv, ActionsSound, ActionsAccounted, LatenessBounded
<1>2. TypeOK /\ ActionsInv /\ [Next]_vars => (TypeOK /\ ActionsInv)'
    BY TypesKept, ActionsStep
<1> QED
    BY <1>1, <1>2, InitTypes, PTL DEF Spec

\* Every scheduled action is carried out or lost exactly once, and however many
\* actions fail, one that is due waits at most one tick for each of them
\* (tick_start stops at the first failure and goes on from there at the next
\* tick).
THEOREM ActionsAreKept == Spec => []ActionsKept
<1>1. ActionsInv => ActionsAccounted
    BY DEF ActionsInv
<1>2. ActionsInv => LateOnlyBehindFailures
    BY DEF ActionsInv, LatenessBounded, LateOnlyBehindFailures
<1> QED
    BY <1>1, <1>2, ActionsInvariant, PTL DEF ActionsKept

-----------------------------------------------------------------------------
(* Counters.                                                               *)

\* The slots of a device that hold something.
HeldIn(sl, d) == {s \in SlotIds : s[1] = d /\ sl[s] # NoItem}

\* There are finitely many slots.
LEMMA SlotsFinite ==
    ASSUME NEW sl, NEW d
    PROVE  IsFiniteSet(HeldIn(sl, d)) /\ Cardinality(HeldIn(sl, d)) \in Nat
<1>0. 0 \in Int /\ 1 \in Int /\ 200 \in Int /\ Count \in Int
    BY WorldAssumption
<1>1. IsFiniteSet(Devices)
    BY <1>0, FS_Interval, Zenon DEF Devices
<1>2. IsFiniteSet(0 .. 200)
    BY <1>0, FS_Interval, Zenon
<1>3. IsFiniteSet(Devices \X (0 .. 200))
    BY <1>1, <1>2, FS_Product, Zenon
<1>4. HeldIn(sl, d) \subseteq Devices \X (0 .. 200)
    BY DEF HeldIn, SlotIds
<1>5. IsFiniteSet(HeldIn(sl, d))
    BY <1>3, <1>4, FS_Subset, Zenon
<1> QED
    BY <1>5, FS_CardinalityType, Zenon

\* A device that loses the content of one slot holds one item less.
LEMMA OneLess ==
    ASSUME NEW sl, NEW new, NEW at \in SlotIds, sl[at] # NoItem,
           \A s \in SlotIds : s[1] = at[1] => new[s] = IF s = at THEN NoItem ELSE sl[s]
    PROVE  Cardinality(HeldIn(new, at[1])) = Cardinality(HeldIn(sl, at[1])) - 1
<1>1. HeldIn(new, at[1]) = HeldIn(sl, at[1]) \ {at}
    BY DEF HeldIn
<1>2. at \in HeldIn(sl, at[1])
    BY DEF HeldIn
<1> QED
    BY <1>1, <1>2, SlotsFinite, FS_RemoveElement

\* A valve that uses its transit slot only holds one item or none.
LEMMA TransitSlot ==
    ASSUME NEW sl, NEW d \in Devices, <<d, 0>> \in SlotIds,
           \A s \in SlotIds : s[1] = d /\ sl[s] # NoItem => s[2] = 0
    PROVE  Cardinality(HeldIn(sl, d)) = IF sl[<<d, 0>>] = NoItem THEN 0 ELSE 1
<1>1. \A s \in SlotIds : s = <<s[1], s[2]>>
    BY DEF SlotIds
<1>2. \A s \in HeldIn(sl, d) : s = <<d, 0>>
    BY <1>1 DEF HeldIn
<1>3. CASE sl[<<d, 0>>] = NoItem
    <2>1. HeldIn(sl, d) = {}
        BY <1>2, <1>3 DEF HeldIn
    <2> QED BY <1>3, <2>1, FS_EmptySet
<1>4. CASE sl[<<d, 0>>] # NoItem
    <2>1. HeldIn(sl, d) = {<<d, 0>>}
        BY <1>2, <1>4 DEF HeldIn
    <2>2. Cardinality({<<d, 0>>}) = 1
        BY FS_Singleton
    <2> QED BY <1>4, <2>1, <2>2
<1> QED
    BY <1>3, <1>4

\* What CountersAgree says of one device, and the conjuncts that make it
\* inductive: no action waiting writes a counter, and a valve uses no slot but
\* its transit slot.
DeviceAgrees(d, fs, sl, ts, as) ==
    /\ Kind[d] = "vendingMachine" =>
          /\ ts[d] = fs[d]["ExportCount"]
          /\ ts[d] <= as[d]
          /\ Cardinality(HeldIn(sl, d)) + ts[d] = Cardinality(HeldIn(InitialItem, d))
    /\ Kind[d] = "digitalChuteValve" =>
          fs[d]["Quantity"] = Cardinality(HeldIn(sl, d))

TransitOnly(sl) ==
    \A s \in SlotIds :
        Kind[s[1]] = "digitalChuteValve" /\ sl[s] # NoItem => s[2] = 0

CountersInv ==
    /\ \A d \in Devices : DeviceAgrees(d, fields, slots, transfers, activations)
    /\ \A a \in scheduled : ~IsCounter(a.target, a.field)
    /\ TransitOnly(slots)

LEMMA Transitive == \A x, y, z \in Nat : x <= y /\ z >= y => x <= z
OBVIOUS

\* The counters of a device depend on its own slots and counters only.
LEMMA AgreesStill ==
    ASSUME NEW d \in Devices, NEW fs, NEW sl, NEW ts, NEW as,
           NEW fs2, NEW sl2, NEW ts2, NEW as2,
           DeviceAgrees(d, fs, sl, ts, as),
           ts2[d] = ts[d], as[d] \in Nat, as2[d] \in Nat, ts[d] \in Nat,
           as2[d] >= as[d],
           Kind[d] = "vendingMachine" => fs2[d]["ExportCount"] = fs[d]["ExportCount"],
           Kind[d] = "digitalChuteValve" => fs2[d]["Quantity"] = fs[d]["Quantity"],
           \A s \in SlotIds : s[1] = d => sl2[s] = sl[s]
    PROVE  DeviceAgrees(d, fs2, sl2, ts2, as2)
<1>1. HeldIn(sl2, d) = HeldIn(sl, d)
    BY DEF HeldIn
<1>2. ts[d] <= as[d] => ts2[d] <= as2[d]
    BY Transitive, Zenon
<1> QED
    BY <1>1, <1>2, Zenon DEF DeviceAgrees

\* A vending machine that delivers: one more export, one item less, and the
\* valve shows what it received.
LEMMA VendCounts ==
    ASSUME TypeOK, CountersInv, VendItem PROVE CountersInv'
<1>1. cursor \in Devices /\ Kind[cursor] = "vendingMachine"
    BY DEF VendItem, AtDevice
<1>2. PICK p \in Delivery(cursor) :
        /\ MoveSlot(<<cursor, p[1]>>, <<p[2], 0>>)
        /\ fields' = [fields EXCEPT
              ![cursor] = [fields[cursor] EXCEPT !["ExportCount"] = OneMore(@), !["Activate"] = 0],
              ![p[2]] = [fields[p[2]] EXCEPT !["Quantity"] = 1]]
    BY DEF VendItem
<1> DEFINE from == <<cursor, p[1]>>
           r == p[2]
<1>3. /\ r \in Devices /\ Kind[r] = "digitalChuteValve"
      /\ from \in SlotIds /\ slots[from] # NoItem /\ <<r, 0>> \in SlotIds
    BY <1>1, <1>2, DeliveryIsFree
<1>4. \A s \in SlotIds : slots'[s] = IF s = <<r, 0>> THEN slots[from]
                                     ELSE IF s = from THEN NoItem ELSE slots[s]
    BY <1>2, <1>3 DEF MoveSlot, TypeOK
<1>5. {"Activate", "ExportCount", "Quantity"} \subseteq Fields
    BY <1>1, <1>3, HookFields
<1>6. /\ fields'[r]["Quantity"] = 1
      /\ fields'[cursor]["ExportCount"] = OneMore(fields[cursor]["ExportCount"])
      /\ \A d \in Devices : d # cursor /\ d # r => fields'[d] = fields[d]
    <2>1. fields'[r] = [fields[r] EXCEPT !["Quantity"] = 1]
        BY <1>1, <1>2, <1>3 DEF TypeOK
    <2>2. fields'[cursor] = [fields[cursor] EXCEPT !["ExportCount"] = OneMore(@), !["Activate"] = 0]
        BY <1>1, <1>2, <1>3 DEF TypeOK
    <2>3. \A d \in Devices : d # cursor /\ d # r => fields'[d] = fields[d]
        BY <1>1, <1>2, <1>3 DEF TypeOK
    <2>4. fields'[r]["Quantity"] = 1
        BY <1>3, <1>5, <2>1 DEF TypeOK
    <2>5. fields'[cursor]["ExportCount"] = OneMore(fields[cursor]["ExportCount"])
        BY <1>1, <1>5, <2>2 DEF TypeOK
    <2> QED BY <2>3, <2>4, <2>5
<1>7. TransitOnly(slots')
    BY <1>1, <1>3, <1>4 DEF TransitOnly, CountersInv
<1>8. scheduled' = scheduled
    BY DEF VendItem
<1>9. /\ \A d \in Devices : d # cursor => transfers'[d] = transfers[d] /\ activations'[d] = activations[d]
      /\ transfers'[cursor] = transfers[cursor] + 1
      /\ activations'[cursor] = activations[cursor] + 1
    BY <1>1 DEF VendItem, TypeOK
<1>10. \A d \in Devices : activations[d] \in Nat /\ transfers[d] \in Nat
    BY DEF TypeOK
<1>11. \A d \in Devices : DeviceAgrees(d, fields, slots, transfers, activations)
    BY DEF CountersInv
<1> HIDE DEF from, r
<1>12. ASSUME NEW d \in Devices PROVE DeviceAgrees(d, fields', slots', transfers', activations')
    <2>1. CASE d = r
        <3>1. Cardinality(HeldIn(slots', r)) = IF slots'[<<r, 0>>] = NoItem THEN 0 ELSE 1
            BY <1>3, <1>7, TransitSlot DEF TransitOnly
        <3>2. slots'[<<r, 0>>] # NoItem
            BY <1>3, <1>4
        <3> QED BY <1>3, <1>6, <2>1, <3>1, <3>2 DEF DeviceAgrees
    <2>2. CASE d = cursor
        <3>1. from[1] = cursor
            BY DEF from
        <3>2. \A s \in SlotIds : s[1] = from[1] => slots'[s] = IF s = from THEN NoItem ELSE slots[s]
            BY <1>1, <1>3, <1>4, <3>1
        <3>3. Cardinality(HeldIn(slots', cursor)) = Cardinality(HeldIn(slots, cursor)) - 1
            BY <1>3, <3>1, <3>2, OneLess
        <3>4. /\ transfers[cursor] = fields[cursor]["ExportCount"]
              /\ transfers[cursor] <= activations[cursor]
              /\ Cardinality(HeldIn(slots, cursor)) + transfers[cursor] = Cardinality(HeldIn(InitialItem, cursor))
            BY <1>1, <1>11 DEF DeviceAgrees
        <3>5. fields'[cursor]["ExportCount"] = transfers[cursor] + 1
            BY <1>1, <1>6, <1>10, <3>4, WorldAssumption DEF OneMore
        <3>6. transfers'[cursor] <= activations'[cursor]
            BY <1>1, <1>9, <1>10, <3>4
        <3>7. Cardinality(HeldIn(slots', cursor)) + transfers'[cursor] = Cardinality(HeldIn(InitialItem, cursor))
            BY <1>1, <1>9, <1>10, <3>3, <3>4, SlotsFinite
        <3> QED BY <1>1, <1>9, <2>2, <3>5, <3>6, <3>7 DEF DeviceAgrees
    <2>3. CASE d # cursor /\ d # r
        <3>1. \A s \in SlotIds : s[1] = d => slots'[s] = slots[s]
            BY <1>4, <2>3 DEF from
        <3>2. /\ fields'[d] = fields[d] /\ transfers'[d] = transfers[d]
              /\ activations'[d] = activations[d] /\ activations[d] >= activations[d]
            BY <1>6, <1>9, <1>10, <2>3
        <3> QED BY <1>10, <1>11, <3>1, <3>2, AgreesStill
    <2> QED BY <2>1, <2>2, <2>3
<1> QED
    BY <1>7, <1>8, <1>12 DEF CountersInv

\* Only the valve passing its item on, and the outlet, are changed by a valve.
LEMMA PassCounts ==
    ASSUME TypeOK, CountersInv, PassValve PROVE CountersInv'
<1>1. cursor \in Devices /\ Kind[cursor] = "digitalChuteValve"
    BY DEF PassValve, AtDevice
<1>2. PICK o \in Passage(cursor) :
        /\ MoveSlot(<<cursor, 0>>, <<o, 0>>)
        /\ fields' = [fields EXCEPT
              ![o] = [fields[o] EXCEPT !["ExportCount"] = OneMore(@)],
              ![cursor] = [fields[cursor] EXCEPT !["Quantity"] = 0]]
    BY DEF PassValve
<1>3. /\ o \in Devices /\ Kind[o] = "chuteOutlet"
      /\ <<cursor, 0>> \in SlotIds /\ <<o, 0>> \in SlotIds
    BY <1>1, <1>2, PassageIsFree
<1>4. \A s \in SlotIds : slots'[s] = IF s = <<o, 0>> THEN slots[<<cursor, 0>>]
                                     ELSE IF s = <<cursor, 0>> THEN NoItem ELSE slots[s]
    BY <1>2, <1>3 DEF MoveSlot, TypeOK
<1>5. "Quantity" \in Fields
    BY <1>1, HookFields
<1>6. /\ fields'[cursor]["Quantity"] = 0
      /\ \A d \in Devices : d # cursor /\ d # o => fields'[d] = fields[d]
    <2>1. fields'[cursor] = [fields[cursor] EXCEPT !["Quantity"] = 0]
        BY <1>1, <1>2, <1>3 DEF TypeOK
    <2>2. \A d \in Devices : d # cursor /\ d # o => fields'[d] = fields[d]
        BY <1>1, <1>2, <1>3 DEF TypeOK
    <2> QED BY <1>1, <1>5, <2>1, <2>2 DEF TypeOK
<1>7. TransitOnly(slots')
    BY <1>3, <1>4 DEF TransitOnly, CountersInv
<1>8. activations' = activations /\ scheduled' = scheduled
    BY DEF PassValve
<1>9. \A d \in Devices : d # cursor => transfers'[d] = transfers[d]
    BY <1>1 DEF PassValve, TypeOK
<1>10. ASSUME NEW d \in Devices PROVE DeviceAgrees(d, fields', slots', transfers', activations')
    <2>1. CASE d = cursor
        <3>1. Cardinality(HeldIn(slots', cursor)) =
                IF slots'[<<cursor, 0>>] = NoItem THEN 0 ELSE 1
            BY <1>1, <1>3, <1>7, TransitSlot DEF TransitOnly
        <3>2. slots'[<<cursor, 0>>] = NoItem
            BY <1>1, <1>3, <1>4
        <3> QED BY <1>1, <1>6, <2>1, <3>1, <3>2 DEF DeviceAgrees
    <2>2. CASE d = o
        BY <1>3, <2>2 DEF DeviceAgrees
    <2>3. CASE d # cursor /\ d # o
        <3>1. \A s \in SlotIds : s[1] = d => slots'[s] = slots[s]
            BY <1>4, <2>3
        <3>2. fields'[d] = fields[d] /\ transfers'[d] = transfers[d]
            BY <1>6, <1>9, <2>3
        <3>3. activations[d] \in Nat /\ transfers[d] \in Nat
            BY DEF TypeOK
        <3>4. DeviceAgrees(d, fields, slots, transfers, activations)
            BY DEF CountersInv
        <3> QED BY <1>8, <3>1, <3>2, <3>3, <3>4, AgreesStill
    <2> QED BY <2>1, <2>2, <2>3
<1> QED
    BY <1>7, <1>8, <1>10 DEF CountersInv

\* A write to a field that counts nothing leaves the counters.
LEMMA WriteCounts ==
    ASSUME TypeOK, CountersInv, NEW d \in Devices, NEW f \in Fields, NEW v,
           ~IsCounter(d, f), fields' = [fields EXCEPT ![d][f] = v],
           UNCHANGED <<slots, transfers>>, activations' \in [Devices -> Nat],
           \A c \in Devices : activations'[c] >= activations[c],
           scheduled' \subseteq scheduled
    PROVE  CountersInv'
<1>1. ASSUME NEW c \in Devices
      PROVE  DeviceAgrees(c, fields', slots', transfers', activations')
    <2>1. DeviceAgrees(c, fields, slots, transfers, activations)
        BY DEF CountersInv
    <2>2. activations[c] \in Nat /\ transfers[c] \in Nat /\ activations'[c] \in Nat
        BY DEF TypeOK
    <2>3. \A g \in Fields : c # d \/ g # f => fields'[c][g] = fields[c][g]
        BY DEF TypeOK
    <2>4. /\ Kind[c] = "vendingMachine" => fields'[c]["ExportCount"] = fields[c]["ExportCount"]
          /\ Kind[c] = "digitalChuteValve" => fields'[c]["Quantity"] = fields[c]["Quantity"]
        BY <2>3, HookFields DEF IsCounter
    <2>5. transfers[c] <= activations[c] => transfers[c] <= activations'[c]
        BY <2>2, Transitive, Zenon
    <2>6. transfers' = transfers /\ slots' = slots
        OBVIOUS
    <2> QED BY <2>1, <2>4, <2>5, <2>6, Zenon DEF DeviceAgrees
<1>2. TransitOnly(slots') /\ \A a \in scheduled' : ~IsCounter(a.target, a.field)
    BY DEF CountersInv
<1> QED
    BY <1>1, <1>2 DEF CountersInv

\* Every step keeps the counters right.
LEMMA CountersStep ==
    ASSUME CountersLeftAlone
    PROVE  TypeOK /\ CountersInv /\ [Next]_vars => CountersInv'
<1> SUFFICES ASSUME TypeOK, CountersInv, [Next]_vars PROVE CountersInv'
    OBVIOUS
<1>0. \A d \in Devices : activations[d] \in Nat /\ transfers[d] \in Nat /\ activations[d] >= activations[d]
    BY DEF TypeOK
<1>1. ASSUME NEW w \in Writes, SetDeviceField(w[1], w[2], w[3]) PROVE CountersInv'
    <2>1. w[1] \in Devices /\ w[2] \in Fields
        BY <1>1, WorldAssumption, HookFields DEF SetDeviceField
    <2>2. ~IsCounter(w[1], w[2])
        BY DEF CountersLeftAlone
    <2>3. /\ fields' = [fields EXCEPT ![w[1]][w[2]] = w[3]]
          /\ UNCHANGED <<slots, transfers>> /\ activations' = activations
          /\ scheduled' = scheduled
        BY <1>1 DEF SetDeviceField
    <2>4. activations' \in [Devices -> Nat]
        BY <2>3 DEF TypeOK
    <2> QED BY <1>0, <2>1, <2>2, <2>3, <2>4, WriteCounts
<1>2. ASSUME NEW d \in Devices, ClearSlot(d) PROVE CountersInv'
    <2>1. /\ Kind[d] = "chuteOutlet" /\ UNCHANGED <<fields, transfers, activations, scheduled>>
          /\ slots' = [slots EXCEPT ![<<d, 0>>] = NoItem]
        BY <1>2 DEF ClearSlot
    <2>2. \A s \in SlotIds : s[1] # d => slots'[s] = slots[s]
        BY <2>1 DEF TypeOK
    <2>3. ASSUME NEW c \in Devices PROVE DeviceAgrees(c, fields', slots', transfers', activations')
        <3>1. CASE c = d
            BY <2>1, <3>1 DEF DeviceAgrees
        <3>2. CASE c # d
            <4>1. DeviceAgrees(c, fields, slots, transfers, activations)
                BY DEF CountersInv
            <4>2. \A s \in SlotIds : s[1] = c => slots'[s] = slots[s]
                BY <2>2, <3>2
            <4>3. /\ activations'[c] = activations[c] /\ transfers'[c] = transfers[c]
                  /\ fields'[c] = fields[c]
                BY <2>1
            <4> QED BY <1>0, <4>1, <4>2, <4>3, AgreesStill, ZenonT(30)
        <3> QED BY <3>1, <3>2
    <2>4. TransitOnly(slots')
        BY <2>1, <2>2 DEF TransitOnly, CountersInv
    <2> QED BY <2>1, <2>3, <2>4 DEF CountersInv
<1>3. ASSUME NEW p \in Plans, Schedule(p[1], p[2], p[3], p[4], p[5]) PROVE CountersInv'
    <2> DEFINE a == [tick |-> p[1], device |-> p[2], sequence |-> sequence,
                     target |-> p[3], field |-> p[4], value |-> p[5], made |-> tick]
    <2>1. scheduled' = scheduled \cup {a} /\ p[3] \in Devices
        BY <1>3 DEF Schedule
    <2>2. ~IsCounter(a.target, a.field)
        BY <2>1 DEF CountersLeftAlone
    <2>3. UNCHANGED <<fields, slots, transfers, activations>>
        BY <1>3 DEF Schedule
    <2> HIDE DEF a
    <2> QED BY <2>1, <2>2, <2>3 DEF CountersInv
<1>4. CASE VendItem
    BY <1>4, VendCounts
<1>5. CASE VendNothing
    <2>1. cursor \in Devices /\ Kind[cursor] = "vendingMachine"
        BY <1>5 DEF VendNothing, AtDevice
    <2>2. "Activate" \in Fields /\ ~IsCounter(cursor, "Activate")
        BY <2>1, HookFields DEF IsCounter
    <2>3. /\ fields' = [fields EXCEPT ![cursor]["Activate"] = 0]
          /\ UNCHANGED <<slots, transfers>> /\ scheduled' = scheduled
        BY <1>5 DEF VendNothing
    <2>4. activations' \in [Devices -> Nat] /\ \A c \in Devices : activations'[c] >= activations[c]
        BY <1>5, <2>1 DEF VendNothing, TypeOK
    <2> QED BY <2>1, <2>2, <2>3, <2>4, WriteCounts
<1>6. CASE PassValve
    BY <1>6, PassCounts
<1>7. CASE ApplyAction
    <2>1. PICK a \in scheduled :
            /\ a.field \in Has[a.target] /\ scheduled' = scheduled \ {a}
            /\ fields' = [fields EXCEPT ![a.target][a.field] = a.value]
        BY <1>7 DEF ApplyAction
    <2>2. a.target \in Devices
        BY <2>1 DEF TypeOK, ActionType
    <2>3. a.field \in Fields
        BY <2>1, <2>2, HookFields
    <2>4. ~IsCounter(a.target, a.field)
        BY <2>1 DEF CountersInv
    <2>5. UNCHANGED <<slots, transfers>> /\ activations' = activations /\ scheduled' \subseteq scheduled
        BY <1>7, <2>1 DEF ApplyAction
    <2>6. activations' \in [Devices -> Nat]
        BY <2>5 DEF TypeOK
    <2> QED BY <1>0, <2>1, <2>2, <2>3, <2>4, <2>5, <2>6, WriteCounts
<1>8. CASE FailAction
    BY <1>8 DEF FailAction, CountersInv
<1>9. ASSUME UNCHANGED <<fields, slots, transfers, activations, scheduled>> PROVE CountersInv'
    BY <1>9 DEF CountersInv
<1>10. \/ UNCHANGED <<fields, slots, transfers, activations, scheduled>>
       \/ VendItem \/ VendNothing \/ PassValve \/ ApplyAction \/ FailAction
       \/ \E w \in Writes : SetDeviceField(w[1], w[2], w[3])
       \/ \E d \in Devices : ClearSlot(d)
       \/ \E p \in Plans : Schedule(p[1], p[2], p[3], p[4], p[5])
    BY DEF Next, TickEnd, TickStart, vars, BeginTickEnd, Idle, AdvanceTick, EndTickStart
<1> QED
    BY <1>1, <1>2, <1>3, <1>4, <1>5, <1>6, <1>7, <1>8, <1>9, <1>10

LEMMA CountersStart ==
    ASSUME CountersLeftAlone PROVE Init => CountersInv
<1> SUFFICES ASSUME Init PROVE CountersInv
    OBVIOUS
<1>1. slots = InitialItem /\ scheduled = {}
    BY DEF Init
<1>2. TransitOnly(slots)
    BY <1>1 DEF TransitOnly, CountersLeftAlone
<1>3. ASSUME NEW d \in Devices PROVE DeviceAgrees(d, fields, slots, transfers, activations)
    <2>1. transfers[d] = 0 /\ activations[d] = 0 /\ \A f \in Fields : fields[d][f] = 0
        BY DEF Init
    <2>2. Cardinality(HeldIn(slots, d)) \in Nat
        BY SlotsFinite
    <2>3. Cardinality(HeldIn(slots, d)) + 0 = Cardinality(HeldIn(slots, d)) /\ 0 <= 0
        BY <2>2
    <2>4. Kind[d] = "digitalChuteValve" => Cardinality(HeldIn(slots, d)) = 0
        <3> SUFFICES ASSUME Kind[d] = "digitalChuteValve"
                     PROVE  Cardinality(HeldIn(slots, d)) = 0
            OBVIOUS
        <3>1. HeldIn(slots, d) = {}
            BY <1>1 DEF HeldIn, CountersLeftAlone
        <3> QED BY <3>1, FS_EmptySet
    <2> QED BY <1>1, <2>1, <2>3, <2>4, HookFields, Zenon DEF DeviceAgrees
<1> QED
    BY <1>1, <1>2, <1>3 DEF CountersInv

\* In every world in which only the hooks write the counters and nothing is in
\* transit at the start, what vend and pass_valve count and show is where the
\* items are.
THEOREM CountersDoAgree ==
    ASSUME CountersLeftAlone PROVE Spec => []CountersAgree
<1>1. Init => TypeOK /\ CountersInv
    BY InitTypes, CountersStart
<1>2. TypeOK /\ CountersInv /\ [Next]_vars => (TypeOK /\ CountersInv)'
    BY TypesKept, CountersStep
<1>3. CountersInv => CountersAgree
    BY DEF CountersInv, DeviceAgrees, CountersAgree, Holding, HeldIn
<1> QED
    BY <1>1, <1>2, <1>3, PTL DEF Spec
=============================================================================
