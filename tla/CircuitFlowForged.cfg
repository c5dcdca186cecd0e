\* A relay that makes up SENDMEs and sends data, and everybody who can end the
\* circuit.
CONSTANTS
    Streams = {s1, s2}
    Receiver = receiver
    Closer = closer
    Nobody = nobody
    CircuitInitial = 1
    CircuitIncrement = 1
    StreamInitial = 1
    StreamIncrement = 1
    HonestRelay = FALSE
    MayClose = FALSE
    MayDestroy = TRUE
    MayFail = TRUE
    MaxCells = 1
    MaxDown = 1
    MaxSendmes = 3
    MaxTimeouts = 1
SYMMETRY StreamSymmetry
SPECIFICATION Spec
INVARIANTS UnitsConserved LiveCircuitKeepsUnits LockHolderMoves
CHECK_DEADLOCK FALSE
