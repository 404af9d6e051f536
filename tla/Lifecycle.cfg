CONSTANTS
    Starters = {s1, q1}
    Stoppers = {q1}
    Recoverers = {}
    None = None
    MaxFaults = 3
SPECIFICATION Spec
CHECK_DEADLOCK FALSE
INVARIANTS
    TypeOK
    OneVm
    EvidenceKeptUnlessRaced
    AtRest
PROPERTIES
    OneWriterUnlessRaced
