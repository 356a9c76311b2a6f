SPECIFICATION Spec
CONSTANTS
    a1 = a1
    a2 = a2
    s1 = s1
    s2 = s2
    Account = {a1, a2}
    Session = {s1, s2}
    NoSession = NoSession
    Owner <- OneEach
    Person = {p1, p2}
    NoPerson = NoPerson
    Challenge = {c1, c2}
    Request = {r1, r2}
SYMMETRY Symmetry
INVARIANTS ConnectionsAreConsented UnlinkedAsksNothing
PROPERTIES SignedOutDoesNothing ImplementsContract
CHECK_DEADLOCK FALSE
