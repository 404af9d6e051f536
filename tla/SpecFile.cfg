CONSTANTS
    Writer = {w1, w2, w3}
    Patchers = {w1, w2}
    Orig = Orig
    None = None
    Shim = Shim
SPECIFICATION Spec
INVARIANTS
    TypeOK
    NeverTornAlone
    ReportedEditsSurvive
    LockSerialises
