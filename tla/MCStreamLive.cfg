SPECIFICATION LiveSpec
CONSTANTS
    k1 = k1
    k2 = k2
    Keys = {k1, k2}
    ShowOf <- MCShowOf
    UserOf <- MCUserOf
    Requests = {r1, r2}
    Slots = {s1, s2}
    Procs = {p1, p2}
    None = None
    Copies = {FALSE}
    MaxSessions = 1
    MaxPerUser = 0
PROPERTIES
    RequestsReturn
    IdleSessionsEnd
