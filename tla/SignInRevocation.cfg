SPECIFICATION Spec
CONSTANTS
    Calls = {a, b}
    Sources = {s1}
    AnySource = AnySource
    Steps = {1}
    MaxFailedLogins = 1
    MaxMFAAttempts = 1
    MaxRequests = 2
    MaxTokens = 1
    MaxPushes = 1
    MaxSessions = 2
    MaxChanges = 1
    MaxFactors = 3
    Enrolments <- AtMostOneFactor
SYMMETRY Symmetry
CHECK_DEADLOCK FALSE
INVARIANTS
    ProofsEndWithRevocation
