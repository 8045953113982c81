SPECIFICATION Spec
CONSTANTS
    SIZE_MAX = 63
    NumBackups = 2
    FlagBytes = 0
    BitsPerByte = 2
    HasFlags = FALSE
    SmartSearch = FALSE
    StopModes = {FALSE}
    EnforceCanonical = FALSE
    RootElems = 2
    Keys = {1, 2}
    Missing = {0, 1, 3}
    ManuallyProcess = TRUE
    AskOnce = TRUE
    Maps <- Cuttable
    StaleByte = {}
PROPERTIES NotFoundIsGone EndMeansAll FailsInPlace SearchEnds MapEndReturns
