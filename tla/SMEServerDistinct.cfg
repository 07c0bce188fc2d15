CONSTANTS
    Receivers = {c1, c2}
    Names = {xml, dmp}
    DumpNames = {dmp}
    NameOf <- OwnNames
    PoolSize = 2
    NoReceiver = NoReceiver
SPECIFICATION FairSpec
CHECK_DEADLOCK FALSE
INVARIANTS
    OwnReportLoaded
    RowsOfOwnDump
    CompleteReport
PROPERTIES
    ImplementsStore
    ReceiverEnds
