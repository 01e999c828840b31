SPECIFICATION Spec
CONSTANTS
    NumSlots = 2
    Lua <- MCLua
    Budget = 2
    ProgramLines = 2
    Sleeps <- MCSleeps
    TickSpan = 64
    LuaMayFault = TRUE
    BehaviourFaults = {"tick_end", "tick_start"}
    MaxTick = 3
    MaxManual = 3
PROPERTIES StoppedForGood
CHECK_DEADLOCK FALSE
