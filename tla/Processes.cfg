CONSTANTS
    Parts = {"sidecars", "process_tree", "shim_control", "console", "console_log", "log_follow", "log_sanitizer", "cmd_runner", "readiness", "vsock_proxy", "terminal_bridge", "serve", "serve_dispatch", "guest_init", "guest_lease", "helpers", "uninstall"}
    Live = FALSE
    Peer = {p1, p2}
    Orphan = {o1}
    Old = Old
    New = New
    Nil = Nil
    Empty = Empty
    MaxLaunch = 3
    MaxProcs = 4
    MaxOut = 2
    MaxTyped = 2
    MaxBytes = 3
    MaxLen = 4
    MaxEvents = 1
SPECIFICATION Spec
SYMMETRY Symmetry
INVARIANTS
    TypesOK
    LogsAreWhole
    StreamsAreOrdered
    ProcessesAreOwned
    AnswersAreTrue
    ChangesAreMeant
PROPERTIES
    NeverWithoutCause
    RelayIsStream
CHECK_DEADLOCK FALSE
