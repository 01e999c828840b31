SPECIFICATION FairSpec
CONSTANTS
    Targets = {"button", "door"}
    Values = {0, 1}
    Initially <- MCInitially
    AnyValue = AnyValue
    ScriptActions <- MCScriptActions
    MaxNesting = 2
    Cases <- MCCases
    Ceilings <- MCCeilings
    ProgramSteps <- MCProgramSteps
    MaxCascades = 3
    MaxActionsPerCase = 8
    MaxPendingEvents = 6
INVARIANTS
    PassedIsSound
    EveryWriteAnswered
    NothingOverdue
PROPERTIES
    EveryCaseEnds
CHECK_DEADLOCK FALSE
