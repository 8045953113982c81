SPECIFICATION Spec
CONSTANTS
    SIZE_MAX = 17
    NumBackups = 2
    FlagBytes = 0
    BitsPerByte = 2
    HasFlags = FALSE
    SmartSearch = FALSE
    StopModes = {FALSE}
    EnforceCanonical = FALSE
    PayloadLen = 3
    RootElems = 1
    ManuallyProcess = TRUE
    MovesPayload = TRUE
    MapKinds = {"ordered", "unordered"}
    Headers <- StringHeaders
    StaleBytes <- AllSet
VIEW WhatIsRead
INVARIANTS ProcessedWithinCount SectionsNest
PROPERTY PromiseKept
