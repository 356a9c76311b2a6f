SPECIFICATION FairSpec
CONSTANTS
    a1 = a1
    s1 = s1
    v1 = v1
    Account = {a1}
    Session = {s1}
    Request = {r1, r2}
    Process = {p1}
    Owner <- OneAccount
    Value = {v1, v2}
    Default <- Defaults
    NoRequest = NoRequest
    NoAccount = NoAccount
PROPERTIES RequestsEnd
CHECK_DEADLOCK FALSE
