\* A range whose smaller end takes more bytes in a header than by itself.
SPECIFICATION Spec
CONSTANTS
    Byte = 2
    MaxSize = 4
    InlineMax = 0
    MaxTokens = 1
    Literals <- Numbers
    Combos <- Nothing
    Ranges <- ThreeByteRange
    NotSizedByRange <- NoTypes
INVARIANT MeansWhatIsAsked
CHECK_DEADLOCK FALSE
