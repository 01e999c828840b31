SPECIFICATION FairSpec
CONSTANTS
    NumSlots = 3
    Lua <- MCLua
    Budget = 2
    ProgramLines = 2
    Sleeps <- MCSleeps
    TickSpan = 64
    LuaMayFault = TRUE
    BehaviourFaults = {"tick_end"}
    MaxTick = 3
    MaxManual = 0
INVARIANTS QuotaBatched
PROPERTIES TickEndsWhenDone SleepHonoured PeekIsExact TickProgress
CHECK_DEADLOCK FALSE
