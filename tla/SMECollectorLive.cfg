CONSTANTS
    Reports = {r1, r2}
    UIThread = ui
    Workers = {w1}
    Seconds = {0}
    NoReport = NoReport
SPECIFICATION FairSpec
PROPERTY HandlerReturns
CHECK_DEADLOCK FALSE
