CONSTANTS
    Starters = {s1, s2}
    Stoppers = {}
    Recoverers = {r1}
    None = None
    MaxFaults = 2
SPECIFICATION Spec
CHECK_DEADLOCK FALSE
INVARIANTS
    EvidenceKeptUnlessRaced
