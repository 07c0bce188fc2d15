CONSTANTS
    Base = 6
    IntSize = 2
    LongSize = 4
    Chunk = 2
    BufferSize = 5
    FileLengths = {1, 7}
    Names <- SmallNames
    Extension = 5
    Keys = {1, 8}
SPECIFICATION Spec
INVARIANT FileLengthReceived
CHECK_DEADLOCK FALSE
