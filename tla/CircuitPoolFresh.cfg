\* new_identity while a circuit is being built.
CONSTANTS
    r1 = r1
    r2 = r2
    r3 = r3
    a = a
    Requests = {r1, r2}
    Identities = {i1}
    Closers = {}
    Keys = {a}
    NoKey = nokey
    KeyOf <- KeysMixed
    Guards = {g1}
    None = none
    Attempts = 1
    MaxDeaths = 0
SPECIFICATION Spec
INVARIANTS FreshAfterNewIdentity
CHECK_DEADLOCK FALSE
