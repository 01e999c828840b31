SPECIFICATION Spec
CONSTANTS
    Names <- MCNames
    Files <- MCFiles
    Size <- MCSize
    EntrySize = 1
    DeviceCells = {"On"}
    ChannelCells = {"Channel0"}
    Values = {0, 1}
    InitialValue = 0
    MaxInstructions = 1
    MaxOutput = 1
    MaxDepth = 5
    MaxModules = 2
    MaxSourceBytes = 3
    MaxTick = 1
    MaxWrites = 1
    NoSnapshot = NoSnapshot
INVARIANTS TypeOK RequireExact DepthCovers
PROPERTIES AllOrNothing
CHECK_DEADLOCK FALSE
