SPECIFICATION FairSpec
CONSTANTS
    NumSlots = 2
    Lua <- MCLua
    Budget = 2
    ProgramLines = 2
    Sleeps <- MCSleeps
    TickSpan = 64
    LuaMayFault = TRUE
    BehaviourFaults = {}
    MaxTick = 2
    MaxManual = 0
PROPERTIES FaultedSlotYields
CHECK_DEADLOCK FALSE
