SPECIFICATION FairSpec
CONSTANTS
    w1 = w1
    w2 = w2
    u1 = u1
    u2 = u2
    s1 = s1
    s2 = s2
    e1 = e1
    e2 = e2
    p1 = p1
    p2 = p2
    n1 = n1
    n2 = n2
    None = None
    Workers = {w1, w2}
    Ids = {u1, u2}
    SessionIds = {s1, s2}
    Emails = {e1, e2}
    Passwords = {p1, p2}
    Phones = {n1, n2}
    Requests <- AllRequests
    MaxFaults = 1
INVARIANTS
    TypeOK
    OneAccountEach
    UniqueProfiles
PROPERTIES
    EndedSessionsStayEnded
    EveryRequestAnswered
