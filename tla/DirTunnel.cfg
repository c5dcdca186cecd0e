\* Two clients that install tunnels and are closed in every order, and two threads
\* that need documents.
CONSTANTS
    a = a
    b = b
    ka = ka
    kb = kb
    Clients = {a, b}
    Closers = {ka, kb}
    Of <- OfEach
    Fetchers = {f1, f2}
    None = none
    Attempts = 1
    MaxDeaths = 1
SPECIFICATION FairSpec
INVARIANTS ActiveTunnelSurvives CleartextOnlyIfUnlucky TunnelCircuitOwned ClosedTunnelStaysClosed
PROPERTIES EverybodyReturns
CHECK_DEADLOCK FALSE
