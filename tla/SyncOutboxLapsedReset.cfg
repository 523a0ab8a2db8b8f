SPECIFICATION Spec
CONSTANTS
    Workers = {w1}
    Tokens = {t1, t2}
    NoToken = NoToken
    Versioned = TRUE
    Budget = 2
    MaxChanges = 4
    MaxFaults = 0
INVARIANT
    ScopeDelivered
CHECK_DEADLOCK FALSE
