SPECIFICATION Spec
CONSTANTS
    Users = {u1, u2}
    Connectors = {c1}
    Emails = {e1, e2}
    LinkRequests = {q1}
    Calls = {k1}
    NoUser = NoUser
    NoConnector = NoConnector
    NoEmail = NoEmail
    Links = {l1, l2}
    MaxChanges = 3
INVARIANTS
    PermanentAdministrator
    LinkFitsAccount
    BarredStaysOut
SYMMETRY Interchangeable
CHECK_DEADLOCK FALSE
