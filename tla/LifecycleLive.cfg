CONSTANTS
    Starters = {s1, q1}
    Stoppers = {q1}
    Recoverers = {}
    None = None
    MaxFaults = 1
SPECIFICATION FairSpec
CHECK_DEADLOCK FALSE
PROPERTIES
    LockComesFree
    RunsEnd
