SPECIFICATION FairSpec
CONSTANTS
    Calls = {1, 2, 3, 4}
    Players = {"p1", "p2"}
    Keys = {"k1", "k2", "k3"}
    PlayerOf <- MCRetryPlayerOf
    KeyOf <- MCRetryKeyOf
    PrintOf <- MCRetryPrintOf
    Malformed = {}
    Cancellable = {1}
    Expiring = {}
    Revocable = {}
    Unrecorded = {}
    Workers = {w1, w2}
    MaxPlayerQueue = 1
    MaxGlobalQueue = 2
    MaxEntries = 2
    NoCall = NoCall
PROPERTIES EventuallyAnswered
CHECK_DEADLOCK FALSE
