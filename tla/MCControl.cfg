SPECIFICATION ControlSpec
CONSTANTS
    Callers = {c1, c2}
    MaxSessions = 1
    MaxTokens = 4
    MaxFaults = 1
    Admins = {a1, a2}
    MaxKeys = 4
    Attempts = {t1, t2, t3}
    MaxFails = 2
    Window = 3
    Lockout = 2
    Polls = {p1, p2}
    Approvers = {u1, u2}
    Servers = {s1, s2}
    Handlers = {h1, h2}
    MaxRequests = 2
    PeerItems = {i1, i2, i3}
    Requests = {r1, r2}
    MaxStreams = 1
    TTL = 2
    QueueSize = 2
    MaxEntries = 3
    None = None
SYMMETRY Symmetry
CHECK_DEADLOCK FALSE
INVARIANTS
    ControlTypeOK
    CanSign
    PeerStreamsSafe
PROPERTIES
    SessionsSafe
    LimiterSafe
    DeviceSafe
    PairingSafe
