CONSTANTS
    NumRegs = 4
    StackSize = 2
    MaximumHops = 32
    MaximumProgramLines = 8
    Devices <- MCDevices
    Housing = "housing"
    PinOfDevice <- MCPins
    Prefab <- MCPrefab
    OnNetwork <- MCNetwork
    Catalog <- MCCatalog
    Readable <- MCReadable
    Writable <- MCWritable
    Fields <- MCFields
    MemorySize = 1
    SlotIds <- MCSlots
    SlotFields <- MCSlotFields
    NameHash <- MCNames
    DeviceOfId <- MCIds
    Abbreviates <- MCAbbreviates
    Attached <- MCAttached
    Connections <- MCConnections
    ExplicitIds = {1, 2, 4, 5}
    ReadOnlyMemory = {2}
    WriteOnlyMemory = {}
    ShortNames <- MCShortNames
    Sensors <- MCSensors
    SensorValues = {0, 1}
    MaxSteps = 5
    Sources <- MCSources
SPECIFICATION ToolSpec
CHECK_DEADLOCK FALSE
INVARIANTS
    ToolTypeOK
    UnreachableNeverRuns
    TickWithinEstimate
    DiagnosticsAgree
    ArtifactLoads
PROPERTY
    ArtifactRunsAsSource
