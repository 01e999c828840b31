CONSTANTS
    u1 = u1
    u2 = u2
    i1 = i1
    i2 = i2
    Uris = {u1, u2}
    Scenarios = {s1}
    Ics = {i1, i2}
    Contents <- MCContents
    Levels = {"hint", "off"}
    Slots = {1, 2}
    NoProgram = NoProgram
    NoContext = NoContext
    NoChoice = NoChoice
    NoLevel = NoLevel
    MaxEdits = 2
    MaxVersion = 2
SPECIFICATION FairSpec
INVARIANTS
    IndexAgrees
    SettledView
    SettledTextUnlessRaced
PROPERTY
    EveryHandlerEnds
