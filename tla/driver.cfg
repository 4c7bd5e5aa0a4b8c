SPECIFICATION FairDriverSpec
CONSTANTS
    Loggers = {irp1, irp2, hook}
    RunDown = {irp1, irp2}
    Failures = {"resource", "pool", "absent", "file", "thread", "log"}
    DeviceFailures = {"device", "link"}
INVARIANTS
    DriverTypeOK
    NothingInstalled
    LinkLeadsToDevice
PROPERTIES
    FollowsLogProtocol
    RequestsComplete
CHECK_DEADLOCK FALSE
