CONSTANTS
    Parts = {"snapshots"}
    Proc = {p1, p2}
    Image = {i1, i2}
    Machine = {m1, m2}
    Nil = Nil
    MaxTick = 2
    MaxTokens = 4
    MaxMembers = 3
    MaxEntries = 3
    MaxSnapGen = 3
    MaxPruneOps = 2
    PruneMachine = {"a"}
    MaxSnapSpec = 1
SPECIFICATION Spec
SYMMETRY Symmetry
INVARIANTS
    ResumesCaptured
CHECK_DEADLOCK FALSE
