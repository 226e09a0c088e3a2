SPECIFICATION Spec
CONSTANTS
    k1 = k1
    k2 = k2
    old = old
    new = new
    w1 = w1
    w2 = w2
    None = None
    Torn = Torn
    Identity = {k1, k2}
    Value = {old, new}
    Writer = {w1, w2}
    PowerMayFail = TRUE
INVARIANTS
    ReadsAreWhole
    DiskIsWhole
PROPERTIES
    IsAtomic
