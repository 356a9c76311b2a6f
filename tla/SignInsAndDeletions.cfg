SPECIFICATION Spec
CONSTANTS
    Email = {e1}
    User = {u1, u2}
    Link = {l1, l2}
    Ask = {a1, a2}
    Visit = {v1, v2}
    AddressLimit = 1
    NetworkLimit = 2
    MaxWindow = 2
    NoEmail = NoEmail
    NoUser = NoUser
    NoLink = NoLink
SYMMETRY Symmetry
INVARIANTS LinkSignsInOnce WhatWasReadHolds MailsWithinLimits NoUserHasTombstone WaitsEnd
CHECK_DEADLOCK FALSE
