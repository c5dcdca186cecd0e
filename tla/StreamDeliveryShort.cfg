\* The relay sends cells that are not full.
CONSTANTS
    Streams = {s1}
    Nobody = nobody
    CircuitInitial = 3
    CircuitIncrement = 1
    StreamInitial = 2
    StreamIncrement = 1
    PayloadLen = 3
    CellSizes = {1}
    ReadSizes = {3}
    Closable = {}
    MayDestroy = FALSE
    MaxCells = 4
SPECIFICATION FairSpec
PROPERTIES EveryReadEnds
CHECK_DEADLOCK FALSE
