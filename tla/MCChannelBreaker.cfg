SPECIFICATION FairSpec
CONSTANTS
    Threshold <- MCThreshold
    InitialCooldown <- MCInitialCooldown
    MaxCooldown <- MCMaxCooldown
    TrialTimeout <- MCTrialTimeout
    IdleEvictAfter <- MCIdleEvictAfter
    Channels = {c1}
    Callers = {k1, k2, k3}
INVARIANTS
    TypeOK
PROPERTIES
    ProbesSpaced
    FailuresRemembered
    GateSpec
    NeverLockedOut
