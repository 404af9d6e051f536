CONSTANTS
    Parts = {"image_store", "image_source", "catalog", "oci_reference", "oci_registry", "oci_layers", "snapshots", "prune"}
    Proc = {p1, p2}
    Image = {i1, i2}
    Machine = {m1, m2}
    Nil = Nil
    MaxTick = 2
    MaxTokens = 4
    MaxMembers = 3
    MaxEntries = 3
    MaxSnapGen = 2
    MaxPruneOps = 2
    PruneMachine = {"a"}
    MaxSnapSpec = 2
SPECIFICATION Spec
SYMMETRY Symmetry
INVARIANTS
    TypesOK
    ImagesAreBacked
    SourcesAreVerified
    OciIsFaithful
    SnapshotsFit
    PruneSpares
CHECK_DEADLOCK FALSE
