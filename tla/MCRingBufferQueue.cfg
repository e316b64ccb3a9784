CONSTANTS
    BufferSize = 3
    Item = {b0, b1}
    ZeroItem = b0
SPECIFICATION RingSpec
INVARIANT RingTypeOK
PROPERTY ImplementsQueue
