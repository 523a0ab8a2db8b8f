SPECIFICATION Spec
CONSTANTS
    u1 = u1
    r1 = r1
    other = other
    Users = {u1}
    Other = other
    IdCount = 3
    Runners = {r1}
    MaxAttempts = 1
    MaxClaims = 1
    MaxChanges = 2
    MaxTarget = 2
    MaxFaults = 1
INVARIANTS NoDuplicateAccount NoneLeftActive
PROPERTY OthersUntouched
CHECK_DEADLOCK FALSE
