SPECIFICATION AuthSpec
CONSTANTS
    b1 = b1
    u1 = u1
    u2 = u2
    h1 = h1
    Browsers = {b1}
    Users = {u1, u2}
    NoUser = NoUser
    Factors <- MCFactors
    Queries <- MCQueries
    Policies <- MCPolicies
    Handlers = {h1}
    MaxTabs = 2
    MaxTotal = 2
    TTL = 1
    MaxTime = 1
    MaxInteractions = 2
    MaxLogins = 3
    MaxCodes = 1
    MaxEdits = 1
INVARIANT CodeMeetsPolicy
PROPERTIES OwnSignInPerRequest CodeForWhoAsked
CHECK_DEADLOCK FALSE
