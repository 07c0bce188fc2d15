CONSTANTS
    Handlers = {h1, h2}
    Threads = {t1, t2}
    None = None
    Types <- AllTypes
    OutOfProcess = {h1}
    HasFilter = {h2}
    AlwaysTrue = {}
    MayFault = {h2}
    HandleDebug = {h1}
    ConsumeInvalid = {h2}
    Creators = {t1, t2}
    Destroyable = {}
    CleanNesting = FALSE
    Users = {}
    Events = {"fault", "purecall", "invalid_parameter"}
    MaxIds = 2
    h1 = h1
    h2 = h2
    t1 = t1
    t2 = t2
    w1 = w1
    w2 = w2
    w3 = w3
SPECIFICATION SuiteSpec
INVARIANTS
    CrashIsHandled
    NothingInUseIsDeleted
    SuccessIsTrue
    AtMostPerDay
    FilesAreClosed
PROPERTIES
    DumpHoldsRegistered
    NobodyWaitsForever
CHECK_DEADLOCK FALSE
