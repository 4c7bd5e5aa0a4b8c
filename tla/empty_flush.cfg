SPECIFICATION FairSpec
CONSTANTS
    Writers = {w1, w2}
    Closers = {}
    FlushThread = flusher
    Msgs = {m1, m2}
    Long = {}
    Size <- MCSize
    BufferSize = 7
    Contexts = {"passive"}
    WritesMayFail = FALSE
    OpeningMayFail = FALSE
    Nul = Nul
    Torn = Torn
    Begun = Begun
    None = None
PROPERTIES
    BufferedIsFlushed
CHECK_DEADLOCK FALSE
