SPECIFICATION FairSpec
CONSTANTS
    Threshold <- MCThreshold
    InitialCooldown <- MCInitialCooldown
    MaxCooldown <- MCMaxCooldown
    TrialTimeout <- MCTrialTimeout
    IdleEvictAfter <- MCIdleEvictAfter
    Channels = {c1, c2}
    Slots = {s1}
    Clients = {v1}
    LegacyClients = {v1}
    None = None
    MaxSessions = 1
    MaxReencode = 1
    ReadyTimeout = 1
    WatchExtra = 0
    IdleTimeout = 0
    GateWired = TRUE
    ReencodeFallback = FALSE
    StopCalled = FALSE
PROPERTIES
    NeverLockedOut
