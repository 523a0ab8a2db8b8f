SPECIFICATION SignOnSpec
CONSTANTS
    Exchanges = {x1, x2}
    Assertions = {a1}
    NoAssertion = none
    Window = 1
    Skew = 2
    MaxTime = 4
    MaxKeys = 2
    MaxEdits = 1
SYMMETRY Symmetry
INVARIANTS TokenUnderPolicy OneSignOnPerAssertion
PROPERTY RecordedForTheDevice
CHECK_DEADLOCK FALSE
