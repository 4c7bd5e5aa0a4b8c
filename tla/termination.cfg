SPECIFICATION EndingFairSpec
CONSTANTS
    Writers = {w1, w2}
    Closers = {w1}
    FlushThread = flusher
    Msgs = {m1, m2, m3}
    Size <- MCSize
    BufferSize = 7
    Contexts = {"raised"}
    WritesMayFail = TRUE
    OpeningMayFail = TRUE
    Nul = Nul
    Torn = Torn
    Begun = Begun
    None = None
INVARIANTS
    TerminationFlushes
    ShutdownDrains
PROPERTIES
    FileIsQuiet
    TerminationReturns
CHECK_DEADLOCK FALSE
