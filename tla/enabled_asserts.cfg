SPECIFICATION Spec
CONSTANTS
    Loggers = {irp, hook}
    RunDown = {irp}
    Failures = {"resource", "pool", "absent", "file", "thread", "log"}
INVARIANTS
    EnabledAsserts
CHECK_DEADLOCK FALSE
