SPECIFICATION Spec
CONSTANTS
    SIZE_MAX = 31
    NumBackups = 3
    FlagBytes = 0
    BitsPerByte = 2
    HasFlags = FALSE
    SmartSearch = TRUE
    StopModes = {FALSE}
    EnforceCanonical = FALSE
    PayloadLen = 4
    RootElems = 2
    ManuallyProcess = FALSE
    MovesPayload = FALSE
    MapKinds = {"ordered"}
    Headers <- ListHeaders
    StaleBytes <- AllSet
VIEW WhatIsRead
INVARIANT UnionStartsInRoom
