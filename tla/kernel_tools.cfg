SPECIFICATION FairSpec
CONSTANTS
    ntoskrnl = ntoskrnl
    xNtKrnl = xNtKrnl
    driver1 = driver1
    driver2 = driver2
    Modules <- MCModules
    KernelImages <- MCKernelImages
    Loaded <- MCLoaded
    Garbage = {0, 2, 9}
    MaxChanges = 2
    Routine = 100
    Flags = {30, 31, 32, 150, 159, 160, 200}
    HalfRange = 128
    Null = Null
    Pending = Pending
    Refused = Refused
INVARIANTS
    TypeOK
    BlockIsFreed
    TableFollowsFlag
PROPERTIES
    FindsKernel
CHECK_DEADLOCK FALSE
