SPECIFICATION FairSpec
CONSTANTS
    Writers = {w1, w2}
    Closers = {w1}
    FlushThread = flusher
    Msgs = {m1, m2, m3}
    Long = {m3}
    Size <- MCSize
    BufferSize = 7
    Contexts = {"passive", "safe"}
    WritesMayFail = TRUE
    OpeningMayFail = TRUE
    Nul = Nul
    Torn = Torn
    Begun = Begun
    None = None
INVARIANTS
    TypeOK
    BufferBounds
    UsageIsRecorded
PROPERTIES
    CallsReturn
CHECK_DEADLOCK FALSE
