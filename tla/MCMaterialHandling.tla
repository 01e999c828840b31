-------------------------- MODULE MCMaterialHandling --------------------------
(***************************************************************************)
(* Two vending machines around a valve with an outlet, one before and one  *)
(* behind the valve in device order, and a third vending machine that is   *)
(* not connected.                                                          *)
(***************************************************************************)
EXTENDS MaterialHandling

CONSTANTS iron, gold, steel, coal

MCKind == <<"vendingMachine", "digitalChuteValve", "vendingMachine",
            "chuteOutlet", "vendingMachine">>
MCInput == <<NoNetwork, "chute", NoNetwork, "drop", NoNetwork>>
MCOutput == <<"chute", "drop", "chute", NoNetwork, NoNetwork>>
MCSlotCount == <<3, 1, 1, 1, 1>>
MCItems == {iron, gold, steel, coal}
MCInitialItem ==
    [s \in SlotIds |-> CASE s = <<1, 1>> -> iron
                         [] s = <<1, 2>> -> gold
                         [] s = <<3, 0>> -> steel
                         [] s = <<5, 0>> -> coal
                         [] OTHER -> NoItem]
MCFields == {"Activate", "DispenseSlot", "Open", "Quantity", "ExportCount"}
VendorFields == {"Activate", "DispenseSlot", "ExportCount"}
MCHas == <<VendorFields, {"Open", "Quantity"}, VendorFields,
           {"ExportCount"}, VendorFields>>
MCWrites == {<<1, "Activate", 1>>, <<1, "DispenseSlot", 2>>,
             <<1, "DispenseSlot", NaN>>, <<2, "Open", 1>>, <<3, "Activate", 1>>}
\* The second action fails, and the third waits behind it when both are due;
\* the last three are refused.
MCPlans == {<<2, 5, 5, "Activate", 1>>, <<2, 1, 4, "Activate", 1>>,
            <<2, 2, 2, "Open", 0>>, <<1, 1, 0, "Activate", 1>>,
            <<1, 0, 1, "Activate", 1>>, <<1, 1, 1, NoField, 1>>}

\* No program of this world writes a counter, as CountersAgree requires.
ASSUME CountersLeftAlone
=============================================================================
