\* Elements of up to three tokens, bounded in one way on each side.
SPECIFICATION Spec
CONSTANTS
    Byte = 2
    MaxSize = 4
    InlineMax = 0
    MaxTokens = 3
    Literals <- Numbers
    Combos <- BoundedOneWay
    Ranges <- PlainRanges
    NotSizedByRange <- SignedTypes
INVARIANTS TypeOK MeansWhatIsAsked ModifiersCommute
PROPERTY OnlyTightens
CHECK_DEADLOCK FALSE
