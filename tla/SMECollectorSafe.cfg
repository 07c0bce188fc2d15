CONSTANTS
    Reports = {r1, r2}
    UIThread = ui
    Workers = {w1}
    Seconds = {0, 1}
    NoReport = NoReport
SPECIFICATION Spec
SYMMETRY Symmetry
INVARIANTS
    TypeOK
    SemaphoreWithinMaximum
    SaveAfterCollect
    SendAfterSave
    OwnReportSent
    SavedReportStays
    FailedSendIsReported
PROPERTY FileStableWhileRead
CHECK_DEADLOCK FALSE
