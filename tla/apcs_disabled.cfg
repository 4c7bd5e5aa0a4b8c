SPECIFICATION Spec
CONSTANTS
    Writers = {w1, w2}
    Closers = {}
    FlushThread = flusher
    Msgs = {m1, m2, m3}
    Long = {m3}
    Size <- MCSize
    BufferSize = 7
    Contexts = {"guarded", "safe"}
    WritesMayFail = FALSE
    OpeningMayFail = FALSE
    Nul = Nul
    Torn = Torn
    Begun = Begun
    None = None
INVARIANTS
    NeverDropped
