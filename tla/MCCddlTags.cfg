\* Tags that the generated code does not ask for.
SPECIFICATION Spec
CONSTANTS
    Cases <- TaggedLists
    Data <- TheData
    MaxQty = 4
    FlagsInByte = 2
INVARIANT DecoderSound
CHECK_DEADLOCK FALSE
