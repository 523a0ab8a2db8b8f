SPECIFICATION Spec
CONSTANTS
    Sessions = {s1}
    Codes = {c1}
    Requests = {r1}
    NoSession = NoSession
    NoCode = NoCode
    Refresh = TRUE
    MaxRefresh = 1
    MaxChanges = 2
SYMMETRY Symmetry
INVARIANTS
    DisabledHasNoSession
