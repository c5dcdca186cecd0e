\* A body that ends with its connection.
CONSTANTS
    Streams = {s0}
    Nobody = nobody
    CircuitInitial = 4
    CircuitIncrement = 2
    StreamInitial = 4
    StreamIncrement = 2
    PayloadLen = 2
    CellSizes = {1, 2}
    ReadSizes = {1, 5}
    Closable = {s0}
    MayDestroy = TRUE
    MaxCells = 5
    t1 = t1
    t2 = t2
    p1 = p1
    p2 = p2
    a1 = a1
    a2 = a2
    a3 = a3
    a4 = a4
    Callers = {t1, t2}
    Processes = {p1, p2}
    Placements <- OneProcessOrTwo
    Authorities = {a1, a2, a3, a4}
    Texts <- SomeTexts
    NoText = no_text
    Partial = partial
    Stranger = stranger
    MaxTime = 2
    MaxCrashes = 1
    r1 = r1
    r2 = r2
    r3 = r3
    r4 = r4
    r5 = r5
    r6 = r6
    NoRelay = no_relay
    Relays = {r1, r2, r3, r4, r5, r6}
    Consensuses <- SomeViews
    Facts <- SomeFacts
    Unanswered <- NothingOrR6
    SampleSize = 2
    FamilyAttempts = 2
    RingSize = 6
    MaxNodes = 5
    Replicas = 2
    SpreadFetch = 2
    alice = alice
    mallory = mallory
    srv1 = srv1
    srv2 = srv2
    h1 = h1
    h2 = h2
    h3 = h3
    Clients = {alice, mallory}
    Srvs = {srv1, srv2, no_srv}
    Disaster = srv2
    NoSrv = no_srv
    Responsible <- ThreeDirs
    Documents <- SomeDocuments
    NoKey = no_key
    NoDoc = no_doc
    relay = relay
    middle = middle
    relayTls = relayTls
    middleTls = middleTls
    relayId = relayId
    middleId = middleId
    relaySigning = relaySigning
    middleSigning = middleSigning
    Peers = {relay, middle}
    Relay = relay
    Supported = {4, 5}
    TlsDigest <- TlsDigests
    Identity <- Identities
    Signing <- SigningKeys
    CertLists <- SomeCertLists
    Nothing = nothing
    Framings = {"close"}
    Parts = 3
    Users = {u1, u2}
    MaxHops = 3
    MaxCalls = 2
    Downloads = 2
    Uploads = 3
    SendWindow = 2
SPECIFICATION FairServices
INVARIANTS BodyComplete
CHECK_DEADLOCK FALSE
