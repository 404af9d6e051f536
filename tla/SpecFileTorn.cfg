CONSTANTS
    Writer = {w1, w2}
    Patchers = {w1, w2}
    Orig = Orig
    None = None
    Shim = Shim
SPECIFICATION Spec
INVARIANTS
    NeverTorn
