SPECIFICATION Spec
CONSTANTS
    Sessions = {s1}
    Codes = {c1}
    Requests = {r1, r2}
    NoSession = NoSession
    NoCode = NoCode
    Refresh = TRUE
    MaxRefresh = 2
    MaxChanges = 2
SYMMETRY Symmetry
INVARIANTS
    SingleRedemption
    FamilyEndsWhole
    AuthorityHasRoots
    RevokedStaysRevoked
