SPECIFICATION LiveSpec
CONSTANTS
    Workers = {w1}
    Tokens = {t1, t2, t3}
    NoToken = NoToken
    Versioned = FALSE
    Budget = 2
    MaxChanges = 2
    MaxFaults = 1
PROPERTIES
    RemovalNeedsNoOperator
CHECK_DEADLOCK FALSE
