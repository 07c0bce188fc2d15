CONSTANTS
    Receivers = {c1, c2}
    Names = {xml, dmp}
    DumpNames = {dmp}
    NameOf <- OneDump
    PoolSize = 2
    NoReceiver = NoReceiver
SPECIFICATION Spec
CHECK_DEADLOCK FALSE
SYMMETRY Symmetry
INVARIANT OneWriterPerFile
PROPERTY DumpStableWhileMapped
