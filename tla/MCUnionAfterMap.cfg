SPECIFICATION RecordedSpec
CONSTANTS
    SIZE_MAX = 31
    NumBackups = 2
    FlagBytes = 2
    BitsPerByte = 2
    HasFlags = TRUE
    SmartSearch = TRUE
    StopModes = {FALSE}
    EnforceCanonical = FALSE
    PayloadLen = 4
    RootElems = 2
    ManuallyProcess = TRUE
    MovesPayload = FALSE
    MapKinds = {"unordered"}
    Headers <- MapHeaders
    StaleBytes <- AllSet
VIEW WhatIsRecorded
PROPERTY AlternativesStartAlike
