CONSTANTS
    Receivers = {c1, c2}
    Names = {xml, dmp}
    DumpNames = {dmp}
    NameOf <- OneXml
    PoolSize = 2
    NoReceiver = NoReceiver
SPECIFICATION Spec
CHECK_DEADLOCK FALSE
INVARIANT OwnDumpID
