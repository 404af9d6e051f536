CONSTANTS
    Parts = {"shim_control", "console", "log_follow", "cmd_runner", "readiness", "vsock_proxy", "terminal_bridge", "serve_dispatch", "guest_init", "helpers", "purge"}
    Live = TRUE
    Peer = {p1, p2}
    Orphan = {o1, o2}
    Old = Old
    New = New
    Nil = Nil
    Empty = Empty
    MaxLaunch = 3
    MaxProcs = 4
    MaxOut = 1
    MaxTyped = 1
    MaxBytes = 2
    MaxLen = 4
    MaxEvents = 1
SPECIFICATION FairSpec
PROPERTIES
    Answered
    WaitsEnd
    FollowersKeepUp
    HostsAndGuestsSettle
CHECK_DEADLOCK FALSE
