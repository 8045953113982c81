SPECIFICATION RecordedSpec
CONSTANTS
    SIZE_MAX = 31
    NumBackups = 2
    FlagBytes = 2
    BitsPerByte = 2
    HasFlags = TRUE
    SmartSearch = TRUE
    StopModes = {TRUE, FALSE}
    EnforceCanonical = FALSE
    PayloadLen = 3
    RootElems = 2
    ManuallyProcess = TRUE
    MovesPayload = FALSE
    MapKinds = {"ordered", "unordered"}
    Headers <- MapHeaders
    StaleBytes <- AllSet
VIEW WhatIsRecorded
INVARIANTS TypeOK FlagsInBounds FlagsApart RetryIsPossible MarkIsAtomic
PROPERTIES SavedStaysSaved PromiseKept FirstErrorStops NothingReadBehind
           OnlyMapsStrand RetriesStartAlike
