SPECIFICATION Spec
CONSTANTS
    Count = 5
    Kind <- MCKind
    Input <- MCInput
    Output <- MCOutput
    NoNetwork = NoNetwork
    SlotCount <- MCSlotCount
    Fields <- MCFields
    Has <- MCHas
    NaN = NaN
    Items <- MCItems
    NoItem = NoItem
    iron = iron
    gold = gold
    steel = steel
    coal = coal
    InitialItem <- MCInitialItem
    StartTick = 0
    MaxTick = 3
    MaxActions = 2
    Writes <- MCWrites
    Plans <- MCPlans
INVARIANTS
    ItemsConserved
    CountersAgree
    ActionsKept
PROPERTIES
    ItemsMoveForward
    RequestsCleared
CHECK_DEADLOCK FALSE
