SPECIFICATION Spec
CONSTANTS
    Names <- MCNames
    Values <- MCValues
    Types = {"ZMQ_STREAM"}
    IntBits = 3
    WideBits = 5
    Mantissa = 3
    StringMax = 9
    MaxSets = 2
INVARIANTS
    TypeOK
    GetReturnsSet
    GettersAnswer
    RestoredAsSaved
