SPECIFICATION Spec
CONSTANTS
    SIZE_MAX = 63
    NumBackups = 2
    FlagBytes = 0
    BitsPerByte = 2
    HasFlags = FALSE
    SmartSearch = FALSE
    StopModes = {FALSE}
    HeaderLimits <- SmallLimits
    Builds = {TRUE, FALSE}
    Payloads = {3, 6}
    MaxBytes = 6
    MaxDepth = 2
    Values = {0}
    Lengths = {2}
    Hints = {1, 4}
VIEW WhatIsRead
INVARIANTS WrittenIsAsked EndsIfItFits StaysInPayload
CHECK_DEADLOCK FALSE
