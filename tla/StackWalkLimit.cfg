CONSTANTS
    Max = 4
    Entries = {e1, e2}
    NoName = NoName
    NoModule = NoModule
SPECIFICATION StackSpec
INVARIANT
    FramesWithinLimit
