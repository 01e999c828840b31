SPECIFICATION Spec
CONSTANTS
    Programs <- MCMixed
    Budget = 2
    FieldSpan = 1
    MaxEvents = 3
    CheckpointInterval = 2
    RecordCost = 1
    CheckpointCost = 2
    MaxMemory = 0
    Sessions <- MCBreakpointSessions
    Breakpoints <- MCBreakpoints
    DataBreakpoint = FALSE
    ExceptionFilter = TRUE
    HcfFilter = TRUE
    FocusThread = 1
    MaxSequence = 5
    MaxTick = 2
    MaxManual = 2
INVARIANTS NeverSilent
PROPERTIES BreakpointsHonoured
CHECK_DEADLOCK FALSE
