SPECIFICATION FairSpec
CONSTANTS
    a1 = a1
    s1 = s1
    v1 = v1
    Account = {a1}
    Session = {s1}
    Request = {r1, r2, r3}
    Process = {p1, p2}
    Owner <- OneAccount
    Value = {v1, v2}
    Default <- Defaults
    NoRequest = NoRequest
    NoAccount = NoAccount
INVARIANTS NoPreferenceLost
PROPERTIES WritesInOpenSession RequestsEndApart
CHECK_DEADLOCK FALSE
