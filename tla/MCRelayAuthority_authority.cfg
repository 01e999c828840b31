SPECIFICATION Spec
CONSTANTS
    Calls = {1, 2, 3, 4}
    Players = {"p1", "p2"}
    Keys = {"k1", "k2", "k3"}
    PlayerOf <- MCPlayerOf
    KeyOf <- MCKeyOf
    PrintOf <- MCPrintOf
    Malformed = {}
    Cancellable = {2}
    Expiring = {1}
    Revocable = {"p2"}
    Unrecorded = {3}
    Workers = {w1, w2}
    MaxPlayerQueue = 1
    MaxGlobalQueue = 2
    MaxEntries = 2
    NoCall = NoCall
SYMMETRY MCWorkerSymmetry
INVARIANTS BooksExact NoOverlappingExecution RefusedNeverStarted 
CHECK_DEADLOCK FALSE
