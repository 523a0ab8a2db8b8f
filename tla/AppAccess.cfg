SPECIFICATION AccessSpec
CONSTANTS
    Apps = {a1, a2}
    Users = {u1, u2}
    Client = client
    Launchers = {launcher}
    AccessRequests = {r1}
    NoApp = NoApp
    NoUser = NoUser
    MaxPending = 1
    RequestTTL = 1
    TokenTTL = 2
    MaxDuration = 1
    MaxTime = 2
    MaxEdits = 3
INVARIANTS
    TokenEndsWithAccess
PROPERTIES
    DecisionNeverShortens
    RelinkKeepsAccess
SYMMETRY Interchangeable
CHECK_DEADLOCK FALSE
