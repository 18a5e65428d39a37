SPECIFICATION CapacitySpec
CONSTANTS
    Threshold <- MCThreshold
    InitialCooldown <- MCInitialCooldown
    MaxCooldown <- MCMaxCooldown
    TrialTimeout <- MCTrialTimeout
    IdleEvictAfter <- MCIdleEvictAfter
    Channels = {c1, c2, c3}
    Slots = {s1, s2, s3}
    Clients = {v1, v2}
    LegacyClients = {v1, v2}
    None = None
    MaxSessions = 2
    MaxReencode = 1
    ReadyTimeout = 1
    WatchExtra = 0
    IdleTimeout = 0
    GateWired = FALSE
    ReencodeFallback = TRUE
    StopCalled = FALSE
INVARIANTS
    CapsRespected
SYMMETRY Symmetry
