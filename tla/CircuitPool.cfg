\* Two requests for one key, one without, new_identity and close() at any moment,
\* and a circuit or channel that ends on its own.
CONSTANTS
    r1 = r1
    r2 = r2
    r3 = r3
    a = a
    Requests = {r1, r2, r3}
    Identities = {i1}
    Closers = {k1}
    Keys = {a}
    NoKey = nokey
    KeyOf <- KeysMixed
    Guards = {g1}
    None = none
    Attempts = 1
    MaxDeaths = 1
SYMMETRY RequestSymmetry
SPECIFICATION Spec
INVARIANTS ChannelsOwned CircuitsOwned Isolation ClosedClientIsEmpty
CHECK_DEADLOCK FALSE
