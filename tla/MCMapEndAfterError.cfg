SPECIFICATION Spec
CONSTANTS
    SIZE_MAX = 63
    NumBackups = 1
    FlagBytes = 4
    BitsPerByte = 2
    HasFlags = TRUE
    SmartSearch = TRUE
    StopModes = {TRUE}
    EnforceCanonical = FALSE
    RootElems = 2
    Keys = {1, 2, 3}
    Missing = {0}
    ManuallyProcess = FALSE
    AskOnce = FALSE
    Maps <- Text
    StaleByte = {}
PROPERTIES MapEndReturns
