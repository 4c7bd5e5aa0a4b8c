SPECIFICATION FairSpec
CONSTANTS
    Loggers = {irp, hook}
    RunDown = {irp}
    Failures = {"resource", "pool", "absent", "file", "thread", "log"}
INVARIANTS
    TypeOK
    NothingLeaks
    FlushThreadOutlived
    StatusIsTrue
    LoggersUseLiveLog
PROPERTIES
    ControlReturns
CHECK_DEADLOCK FALSE
