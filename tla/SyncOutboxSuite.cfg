SPECIFICATION Spec
CONSTANTS
    Workers = {w1, w2}
    Tokens = {t1, t2}
    NoToken = NoToken
    Versioned = TRUE
    Budget = 1
    MaxChanges = 3
    MaxFaults = 1
SYMMETRY Symmetry
INVARIANTS
    UncertainWriteHoldsFence
    AcknowledgedOffboarding
    ResetBeforeReactivation
    DrainedMeansDelivered
CHECK_DEADLOCK FALSE
