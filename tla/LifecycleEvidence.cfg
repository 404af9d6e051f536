CONSTANTS
    Starters = {s1, s2}
    Stoppers = {}
    Recoverers = {}
    None = None
    MaxFaults = 1
SPECIFICATION Spec
CHECK_DEADLOCK FALSE
INVARIANTS
    EvidenceKept
