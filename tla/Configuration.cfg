CONSTANTS
    Parts = {"spec_layers", "cloud_init", "spec_validation", "edit_session", "port_forwards", "mounts", "vm_config", "resize", "seed", "guest_config", "ssh_identity", "ssh_identity_faults", "doctor"}
    User = {u1, u2}
    File = {f1, f2}
    Nil = Nil
    MaxResizeBoots = 2
    MaxSeedKeys = 3
    MaxSeedWrites = 3
    MaxCalls = 3
    MaxDoctorRuns = 2
SPECIFICATION Spec
SYMMETRY Symmetry
INVARIANTS
    TypesOK
    SpecificationIsKept
    DevicesAreChecked
    GuestIsProvisioned
    IdentityIsWhole
PROPERTY NeverWithoutConsent
CHECK_DEADLOCK FALSE
