\* Two circuits, one with a stream, and no deadline: whatever ends a circuit or the
\* channel frees everybody.
CONSTANTS
    c1 = c1
    c2 = c2
    s1 = s1
    s2 = s2
    k1 = k1
    Circuits = {c1, c2}
    Streams = {s1}
    Closers = {}
    Of <- OfOwn
    Nobody = nobody
    PathLength = 1
    CloseWhenIdle = TRUE
    RelayFaults = FALSE
    MayFail = TRUE
    MaxExtra = 1
    MaxTimeouts = 0
SPECIFICATION FairSpec
PROPERTIES WaitersReleased ShutdownReachesAll
CHECK_DEADLOCK FALSE
