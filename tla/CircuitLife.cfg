\* One single-request circuit of two hops, two streams that race for it, a thread
\* that closes it, late, wrong and missing answers.
CONSTANTS
    c1 = c1
    c2 = c2
    s1 = s1
    s2 = s2
    k1 = k1
    Circuits = {c1}
    Streams = {s1, s2}
    Closers = {k1}
    Of <- OfShared
    Nobody = nobody
    PathLength = 2
    CloseWhenIdle = TRUE
    RelayFaults = TRUE
    MayFail = TRUE
    MaxExtra = 1
    MaxTimeouts = 1
SYMMETRY StreamSymmetry
SPECIFICATION Spec
INVARIANTS RepliesMatch FailedBuildLeavesNothing NobodyForgotten IdleCircuitCloses
CHECK_DEADLOCK FALSE
