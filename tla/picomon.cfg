SPECIFICATION FairSpec
CONSTANTS
    Processes = {p1, p2}
    MaxLoads = 2
INVARIANTS
    TypeOK
    OnlyOvertakenExitsFault
    UnhookedWhenOut
    HookHasOriginal
PROPERTIES
    ExitsReachProvider
CHECK_DEADLOCK FALSE
