SPECIFICATION Spec
CONSTANTS
    Threshold <- MCThreshold
    InitialCooldown <- MCInitialCooldown
    MaxCooldown <- MCMaxCooldown
    TrialTimeout <- MCTrialTimeout
    IdleEvictAfter <- MCIdleEvictAfter
    Channels = {c1, c2}
    Slots = {s1, s2}
    Clients = {v1}
    LegacyClients = {}
    None = None
    MaxSessions = 1
    MaxReencode = 1
    ReadyTimeout = 1
    WatchExtra = 0
    IdleTimeout = 0
    GateWired = FALSE
    ReencodeFallback = FALSE
    StopCalled = FALSE
INVARIANTS
    TypeOK
    MapHoldsLiveSessions
    NoOrphanProcess
    ShutdownStopsAll
    
SYMMETRY Symmetry
