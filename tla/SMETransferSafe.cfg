CONSTANTS
    Base = 6
    IntSize = 2
    LongSize = 4
    Chunk = 2
    BufferSize = 5
    FileLengths = {0, 1, 4, 7, 20, 38}
    Names <- SmallNames
    Extension = 5
    Keys = {1, 8}
SPECIFICATION FairSpec
INVARIANTS
    OnlyKeyBytesSlip
    RecordedFileIsWhole
PROPERTIES
    ReceiveEnds
    SenderEnds
CHECK_DEADLOCK FALSE
