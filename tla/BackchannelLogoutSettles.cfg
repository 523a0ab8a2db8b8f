SPECIFICATION FairSpec
CONSTANTS
    Clients = {a}
    Sessions = {s1}
    Calls = {k1}
    Workers = {w1}
    NoClient = NoClient
    NoSession = NoSession
    NoWorker = NoWorker
    Budget = 1
    MaxSids = 1
    MaxChanges = 1
    MaxCrashes = 1
CHECK_DEADLOCK FALSE
PROPERTIES
    LogoutSettles
