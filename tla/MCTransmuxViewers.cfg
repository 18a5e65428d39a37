SPECIFICATION FairSpec
CONSTANTS
    Threshold <- MCThreshold
    InitialCooldown <- MCInitialCooldown
    MaxCooldown <- MCMaxCooldown
    TrialTimeout <- MCTrialTimeout
    IdleEvictAfter <- MCIdleEvictAfter
    Channels = {c1}
    Slots = {s1}
    Clients = {v1, v2}
    LegacyClients = {}
    None = None
    MaxSessions = 1
    MaxReencode = 1
    ReadyTimeout = 1
    WatchExtra = 0
    IdleTimeout = 0
    GateWired = FALSE
    ReencodeFallback = FALSE
    StopCalled = TRUE
INVARIANTS
    SpawnExclusive
PROPERTIES
    UnwatchedSessionsEnd
    StuckSpawnsEnd
    ShutdownReturns
