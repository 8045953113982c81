SPECIFICATION Spec
CONSTANTS
    SIZE_MAX = 63
    NumBackups = 3
    FlagBytes = 4
    BitsPerByte = 2
    HasFlags = TRUE
    SmartSearch = TRUE
    StopModes = {FALSE}
    EnforceCanonical = FALSE
    RootElems = 2
    Keys = {1, 2, 3}
    Missing = {0}
    ManuallyProcess = FALSE
    AskOnce = FALSE
    Maps <- Whole
    StaleByte = {}
VIEW WhatIsRead
INVARIANTS CursorAligned FlagsTellProcessed
PROPERTIES FoundIsRight NotFoundIsGone EndMeansAll EndRefusesPart
