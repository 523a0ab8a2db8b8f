SPECIFICATION Spec
CONSTANTS
    Sessions = {s1, s2}
    Tickets = {t1, t2}
    Devices = {d1, d2}
    Requests = {r1, r2}
    NoSession = none
    NoTicket = noticket
    MaxAttempts = 1
    MaxResets = 1
SYMMETRY Symmetry
INVARIANTS PushFollowsDevice ResetStands
PROPERTY OneChangePerTicket
CHECK_DEADLOCK FALSE
