SPECIFICATION Spec
CONSTANTS
    Calls = {a, b}
    Sources = {s1}
    AnySource = AnySource
    Steps = {1}
    MaxFailedLogins = 1
    MaxMFAAttempts = 1
    MaxRequests = 4
    MaxTokens = 2
    MaxPushes = 1
    MaxSessions = 2
    MaxChanges = 2
    MaxFactors = 3
    Enrolments <- AtMostOneFactor
SYMMETRY Symmetry
CHECK_DEADLOCK FALSE
INVARIANTS
    SessionsProvePassword
    OneSessionPerProof
    GuessesBounded
    LockoutBound
    ApprovalInTimeForItsLogin
