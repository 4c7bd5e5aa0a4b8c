SPECIFICATION HistoryFairSpec
CONSTANTS
    Writers = {w1, w2}
    Closers = {w1}
    FlushThread = flusher
    Msgs = {m1, m2, m3}
    Long = {m3}
    Size <- MCSize
    BufferSize = 7
    Contexts = {"passive", "guarded", "raised", "safe"}
    WritesMayFail = TRUE
    OpeningMayFail = FALSE
    Nul = Nul
    Torn = Torn
    Begun = Begun
    None = None
INVARIANTS
    BufferedNotLost
    FileIsClean
    PrintedOnce
    WalkStaysInside
PROPERTIES
    ImplementsQueue
CHECK_DEADLOCK FALSE
