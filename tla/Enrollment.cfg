CONSTANTS
    u1 = u1
    u2 = u2
    r1 = r1
    Users = {u1, u2}
    Owned = {u2}
    Groups = {g1}
    Methods = {"totp", "webauthn"}
    Requests = {r1}
    Graces = {1}
    MaxTime = 2
    MaxEdits = 3
    MaxLogins = 1
    NoDate = NoDate
    NoGroup = NoGroup
SPECIFICATION Spec
INVARIANTS PolicySatisfiable GrantsKeepTheirPolicies
PROPERTIES EmergencyAdministrator GraceOnce UpstreamEditKeepsOthers
CHECK_DEADLOCK FALSE
