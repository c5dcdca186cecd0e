\* A channel that is closed while its relay is silent.
CONSTANTS
    c1 = c1
    c2 = c2
    s1 = s1
    s2 = s2
    k1 = k1
    Circuits = {c1}
    Streams = {}
    Closers = {}
    Of <- OfOwn
    Nobody = nobody
    PathLength = 1
    CloseWhenIdle = TRUE
    RelayFaults = FALSE
    MayFail = TRUE
    MaxExtra = 0
    MaxTimeouts = 0
SPECIFICATION FairSpec
PROPERTIES CloseReachesAll
CHECK_DEADLOCK FALSE
