SPECIFICATION Spec
CONSTANTS
    Programs <- MCPrograms
    Budget = 2
    FieldSpan = 2
    MaxEvents = 3
    CheckpointInterval = 2
    RecordCost = 1
    CheckpointCost = 2
    MaxMemory = 7
    Sessions <- MCHistorySessions
    Breakpoints <- MCNoBreakpoints
    DataBreakpoint = FALSE
    ExceptionFilter = TRUE
    HcfFilter = FALSE
    FocusThread = 1
    MaxSequence = 5
    MaxTick = 3
    MaxManual = 3
INVARIANTS HistorySound EveryEventReachable
PROPERTIES NavigationLands RefusedLeavesWorld
CHECK_DEADLOCK FALSE
