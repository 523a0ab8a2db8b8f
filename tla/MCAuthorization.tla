--------------------------- MODULE MCAuthorization ---------------------------
EXTENDS Authorization

CONSTANTS b1, u1, u2, h1

MCFactors == [u \in Users |-> IF u = u1 THEN {"webauthn"} ELSE {}]
MCQueries == {[prompt |-> p[1], max_age |-> p[2], acr |-> ""] : p \in {<<"", 0>>, <<"", -1>>, <<"none", -1>>}}

\* A sign-in of its own for every request, or a maximum age shorter than one unit of time.
\* The latter admits the reuse of a session, which is all that the third mode does.
MCPolicies == {[mode |-> "fresh", age |-> 0, factor |-> "password", fage |-> 0],
               [mode |-> "max_age", age |-> 0, factor |-> "passkey", fage |-> 0]}
=============================================================================
