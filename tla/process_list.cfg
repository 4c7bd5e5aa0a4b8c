SPECIFICATION FairSpec
CONSTANTS
    idle = idle
    init = init
    bash = bash
    cmd = cmd
    Processes <- MCProcesses
    Minimal <- MCMinimal
    Named <- MCNamed
    Running <- MCRunning
    RecordSize <- MCRecordSize
    ThreadSize = 1
    MaxEvents = 3
    ShowMinimalOnly = TRUE
    Pid = Any
    AnyProcess = Any
    Silent = Silent
    Refused = Refused
INVARIANTS
    TypeOK
    OnlyGrowthIsMismatch
PROPERTIES
    PrintsSnapshot
CHECK_DEADLOCK FALSE
