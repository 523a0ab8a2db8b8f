SPECIFICATION FairSpec
CONSTANTS
    Clients = {a}
    Sessions = {s1}
    Calls = {k1}
    Workers = {w1, w2}
    NoClient = NoClient
    NoSession = NoSession
    NoWorker = NoWorker
    Budget = 2
    MaxSids = 1
    MaxChanges = 2
    MaxCrashes = 1
CHECK_DEADLOCK FALSE
INVARIANTS
    CompletionIsEvidence
PROPERTIES
    LogoutIsAttempted
