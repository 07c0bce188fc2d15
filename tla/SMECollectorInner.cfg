CONSTANTS
    Reports = {r1}
    UIThread = ui
    Workers = {w1}
    Seconds = {0}
    NoReport = NoReport
SPECIFICATION FairSpec
PROPERTY InnerExceptionReported
CHECK_DEADLOCK FALSE
