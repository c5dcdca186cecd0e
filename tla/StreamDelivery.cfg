\* Full cells, two streams that share the circuit window, read to the end; one may be
\* closed and the circuit destroyed at any moment with data on its way.
CONSTANTS
    Streams = {s1, s2}
    Nobody = nobody
    CircuitInitial = 2
    CircuitIncrement = 2
    StreamInitial = 1
    StreamIncrement = 1
    PayloadLen = 1
    CellSizes = {1}
    ReadSizes = {3}
    Closable = {s1}
    MayDestroy = TRUE
    MaxCells = 2
SPECIFICATION FairSpec
PROPERTIES EveryReadEnds CloseEndsRead
CHECK_DEADLOCK FALSE
