\* A relay that keeps the protocol, two streams that between them exhaust both
\* windows, and a client that may close the circuit at any moment.
CONSTANTS
    Streams = {s1, s2}
    Receiver = receiver
    Closer = closer
    Nobody = nobody
    CircuitInitial = 2
    CircuitIncrement = 2
    StreamInitial = 1
    StreamIncrement = 1
    HonestRelay = TRUE
    MayClose = TRUE
    MayDestroy = FALSE
    MayFail = FALSE
    MaxCells = 2
    MaxDown = 0
    MaxSendmes = 0
    MaxTimeouts = 1
SPECIFICATION FairSpec
INVARIANTS HonestRelayAccepted StreamUnitsConserved
PROPERTIES EndToEndWindow  TeardownReleases
CHECK_DEADLOCK FALSE
