----------------------------- MODULE OAuthGrants -----------------------------
(***************************************************************************)
(* What one account is granted at one OAuth client: authorization codes,   *)
(* access tokens (issued_tokens), refresh families and their tokens, and   *)
(* every operation that takes them away again.                             *)
(*                                                                         *)
(* The token endpoint reads and writes in several transactions with        *)
(* nothing locked between them, so an exchange is a process: each of its   *)
(* transactions is an action, and a revocation may fall between any two.   *)
(* A row that has expired passes no guard of the code, so expiry removes   *)
(* it; only an expired session still counts as a row until it is purged.   *)
(***************************************************************************)
EXTENDS Integers, FiniteSets

CONSTANTS
    Sessions,    \* browser sessions of the account
    Codes,       \* authorization codes; a code also names the family it starts
    Requests,    \* concurrent calls of the token endpoint
    NoSession,
    NoCode,
    Refresh,     \* TRUE: the app's policy hands out refresh tokens
    MaxRefresh,  \* bound on the refresh tokens of a family
    MaxChanges   \* bound on administrative changes

ASSUME GrantAssumption ==
    /\ NoSession \notin Sessions /\ NoCode \notin Codes
    /\ Refresh \in BOOLEAN
    /\ MaxRefresh \in Nat /\ MaxChanges \in Nat

VARIABLES
    user,     \* "active", "ended" (end date passed, row still active), "disabled", "deleted"
    acc,      \* the account's grant at the app: "none", "on", "lapsed" (expired, not swept)
    bound,    \* which end instant the grant carries; 0 if it has none
    client,   \* the client: "on", "off" (not enabled), "gone"
    pol,      \* the app's policy and role revisions
    admitted, \* password_change_required is off and mfa_session_access allows
    sess,     \* each session row: "none", "live", "expired", "purged" (deleted by the
              \* cleanup once expired), "gone" (revoked)
    code,     \* each authorization code: where it stands, its session and policy binding
    tok,      \* access tokens on the registry, neither revoked nor expired
    fam,      \* each code's refresh family, the end instant it is cut to, and how many
              \* refresh tokens it has had
    rt,       \* refresh tokens
    req,      \* calls in progress
    void,     \* history: codes whose grant a revocation of the user side has ended
    cvoid,    \* history: codes already redeemed when the client was disabled or re-keyed
    changes

subject == <<user, acc, bound, client, pol, admitted>>
grants == <<code, tok, fam, rt>>
vars == <<user, acc, bound, client, pol, admitted, sess, code, tok, fam, rt, req, void, cvoid, changes>>

Token == [code : Codes, n : Nat, by : Requests, cap : Nat]
RefreshToken == [code : Codes, n : Nat, st : {"fresh", "stale", "used"}]
Request == [pc : {"idle", "presented", "spent", "resolved", "recorded", "refreshing"},
            code : Codes \cup {NoCode}, n : Nat, cap : Nat, own : BOOLEAN]

TypeOK ==
    /\ user \in {"active", "ended", "disabled", "deleted"}
    /\ acc \in {"none", "on", "lapsed"} /\ bound \in Nat
    /\ client \in {"on", "off", "gone"}
    /\ pol \in Nat /\ admitted \in BOOLEAN
    /\ sess \in [Sessions -> {"none", "live", "expired", "purged", "gone"}]
    /\ code \in [Codes -> [st : {"none", "issued", "spent", "gone"},
                           sess : Sessions \cup {NoSession}, pol : Nat]]
    /\ tok \subseteq Token
    /\ fam \in [Codes -> [st : {"none", "live", "expired", "revoked"}, cap : Nat, n : Nat]]
    /\ rt \subseteq RefreshToken
    /\ req \in [Requests -> Request]
    /\ \A r \in Requests : req[r].pc # "idle" => req[r].code \in Codes
    /\ void \subseteq Codes /\ cvoid \subseteq Codes
    /\ changes \in Nat

IdleRequest == [pc |-> "idle", code |-> NoCode, n |-> 0, cap |-> 0, own |-> TRUE]

Init ==
    /\ user = "active" /\ acc = "on" /\ bound = 0 /\ client = "on"
    /\ pol = 0 /\ admitted = TRUE
    /\ sess = [s \in Sessions |-> "none"]
    /\ code = [c \in Codes |-> [st |-> "none", sess |-> NoSession, pol |-> 0]]
    /\ tok = {} /\ rt = {}
    /\ fam = [c \in Codes |-> [st |-> "none", cap |-> 0, n |-> 0]]
    /\ req = [r \in Requests |-> IdleRequest]
    /\ void = {} /\ cvoid = {}
    /\ changes = 0

-----------------------------------------------------------------------------
(* Decisions and the parts revocations are made of.                        *)

\* effective_app_access, joined with an enabled client.
Allowed(u, a, cl) == u = "active" /\ a = "on" /\ cl = "on"

\* The part of recordIssuedTokenTx's guard every issuance shares.
Issuable(s) ==
    /\ s \in Sessions /\ sess[s] = "live"
    /\ admitted /\ Allowed(user, acc, client)

\* Mutant of CodeStands: the policy binding holds, whether the code still exists or not.
CodeBound(c) == code[c].pol = pol

\* Its part for a code just redeemed: the code still exists and its policy binding holds.
CodeStands(c) == code[c].st = "spent" /\ code[c].pol = pol

\* AccessEndsAt: the end instant a token issued now is cut to.
EndOfAccess == IF acc = "on" THEN bound ELSE 0

\* UPDATE issued_tokens SET revoked_at over the grants of cs: access tokens and families.
Revoke(cs) ==
    /\ tok' = {t \in tok : t.code \notin cs}
    /\ fam' = [c \in Codes |-> IF c \in cs /\ fam[c].st = "live"
                               THEN [fam[c] EXCEPT !.st = "revoked"] ELSE fam[c]]
    /\ UNCHANGED rt

\* The end of the families of cs passes. Every access token a rotation minted is cut to
\* its family; the first one is not.
Expire(cs, toks) ==
    /\ tok' = {t \in toks : t.code \in cs => t.n = 0}
    /\ fam' = [c \in Codes |-> IF c \in cs THEN [fam[c] EXCEPT !.st = "expired"] ELSE fam[c]]

\* DELETE FROM authorization_codes over cs, spent codes too.
Drop(cs) ==
    code' = [c \in Codes |-> IF c \in cs /\ code[c].st # "none"
                             THEN [code[c] EXCEPT !.st = "gone"] ELSE code[c]]

\* Both: the grants of cs end, whatever an exchange in progress still holds of them.
End(cs) ==
    /\ Revoke(cs) /\ Drop(cs)
    /\ void' = void \cup {c \in cs : code[c].st # "none"}

\* Sessions that have a row. A revocation by session reaches nothing through any other.
Rows == {s \in Sessions : sess[s] \in {"live", "expired"}}

CodesOf(ss) == {c \in Codes : code[c].sess \in ss}

\* DELETE FROM sessions over ss.
DropRows(ss) == sess' = [s \in Sessions |-> IF s \in ss \cap Rows THEN "gone" ELSE sess[s]]

\* revokeSessionsTx: the rows of ss go, with everything they minted.
RevokeSessions(ss) == DropRows(ss) /\ End(CodesOf(ss \cap Rows))

\* revokeUserAccessTx.
RevokeAll == DropRows(Sessions) /\ End(Codes)

\* Mutant of RevokeLost: lost access is left to the guards of later issuance.
LeaveLost(allowed) == UNCHANGED <<grants, void>>

\* revokeLostAppAccessTx under the writer lock, given the access the mutation leaves.
RevokeLost(allowed) ==
    IF allowed THEN UNCHANGED <<grants, void>> ELSE End(Codes)

Change == changes < MaxChanges /\ changes' = changes + 1

-----------------------------------------------------------------------------
(* Signing in, authorizing, redeeming.                                     *)

\* CreateSession asks for an active row: an end date that passes after the sign-in read
\* the account does not stop it.
SignIn(s) ==
    /\ user \in {"active", "ended"} /\ sess[s] = "none"
    /\ sess' = [sess EXCEPT ![s] = "live"]
    /\ UNCHANGED <<subject, grants, req, void, cvoid, changes>>

\* CreateAuthorizationCode: access, session and policy are checked as the row is written.
CreateAuthorizationCode(c, s) ==
    /\ code[c].st = "none" /\ Issuable(s)
    /\ code' = [code EXCEPT ![c] = [st |-> "issued", sess |-> s, pol |-> pol]]
    /\ UNCHANGED <<subject, sess, tok, fam, rt, req, void, cvoid, changes>>

\* ExchangeAuthorizationCode reads a valid code and authenticates the client.
Present(r, c) ==
    /\ req[r].pc = "idle" /\ client = "on" /\ code[c].st = "issued"
    /\ req' = [req EXCEPT ![r] = [IdleRequest EXCEPT !.pc = "presented", !.code = c]]
    /\ UNCHANGED <<subject, sess, grants, void, cvoid, changes>>

\* Mutant of ConsumeAuthorizationCode: the update does not ask whether the code is unspent.
ConsumeAgain(r) ==
    /\ req[r].pc = "presented"
    /\ code' = [code EXCEPT ![req[r].code].st = IF @ = "gone" THEN @ ELSE "spent"]
    /\ req' = [req EXCEPT ![r].pc = "spent"]
    /\ UNCHANGED <<subject, sess, tok, fam, rt, void, cvoid, changes>>

\* ConsumeAuthorizationCode: the compare-and-swap, or the end of the call.
ConsumeAuthorizationCode(r) ==
    /\ req[r].pc = "presented"
    /\ LET c == req[r].code
       IN  IF code[c].st = "issued"
           THEN /\ code' = [code EXCEPT ![c].st = "spent"]
                /\ req' = [req EXCEPT ![r].pc = "spent"]
           ELSE UNCHANGED code /\ req' = [req EXCEPT ![r] = IdleRequest]
    /\ UNCHANGED <<subject, sess, tok, fam, rt, void, cvoid, changes>>

\* The reads that follow: the user, the end of access, and for a family the session.
Resolve(r) ==
    /\ req[r].pc = "spent"
    /\ IF user = "active" /\ (Refresh => sess[code[req[r].code].sess] = "live")
       THEN req' = [req EXCEPT ![r].pc = "resolved", ![r].cap = EndOfAccess]
       ELSE req' = [req EXCEPT ![r] = IdleRequest]
    /\ UNCHANGED <<subject, sess, grants, void, cvoid, changes>>

\* RecordIssuedToken: the access token is registered under the guard, or the call fails.
RecordIssuedToken(r) ==
    /\ req[r].pc = "resolved"
    /\ LET c == req[r].code
       IN  IF Issuable(code[c].sess) /\ CodeStands(c)
           THEN /\ tok' = tok \cup {[code |-> c, n |-> 0, by |-> r, cap |-> req[r].cap]}
                /\ req' = [req EXCEPT ![r] = IF Refresh THEN [@ EXCEPT !.pc = "recorded"] ELSE IdleRequest]
           ELSE UNCHANGED tok /\ req' = [req EXCEPT ![r] = IdleRequest]
    /\ UNCHANGED <<subject, sess, code, fam, rt, void, cvoid, changes>>

\* CreateRefreshFamily: a second transaction, through the same guard.
CreateRefreshFamily(r) ==
    /\ req[r].pc = "recorded"
    /\ LET c == req[r].code
       IN  IF Issuable(code[c].sess) /\ CodeStands(c)
           THEN /\ fam' = [fam EXCEPT ![c] = [st |-> "live", cap |-> req[r].cap, n |-> 1]]
                /\ rt' = rt \cup {[code |-> c, n |-> 1, st |-> "fresh"]}
           ELSE UNCHANGED <<fam, rt>>
    /\ req' = [req EXCEPT ![r] = IdleRequest]
    /\ UNCHANGED <<subject, sess, code, tok, void, cvoid, changes>>

\* ExchangeRefreshToken authenticates the client and looks the family up, trusting
\* nothing. own: the client is the one the token was issued to.
PresentRefresh(r, x, own) ==
    /\ req[r].pc = "idle" /\ (own => client = "on")
    /\ req' = [req EXCEPT ![r] = [pc |-> "refreshing", code |-> x.code, n |-> x.n,
                                  cap |-> EndOfAccess, own |-> own]]
    /\ UNCHANGED <<subject, sess, grants, void, cvoid, changes>>

\* Mutant of EndFamily: the access tokens it minted stay.
EndFamilyRow(c) ==
    /\ fam' = [fam EXCEPT ![c].st = IF @ = "live" THEN "revoked" ELSE @]
    /\ UNCHANGED tok

\* revokeRefreshFamilyTx: the family and every access token it minted.
EndFamily(c) ==
    /\ tok' = {t \in tok : t.code # c}
    /\ fam' = [fam EXCEPT ![c].st = IF @ = "live" THEN "revoked" ELSE @]

\* The refresh tokens once x is spent and its successor, the n-th, is written.
Succeed(x, n) ==
    (rt \ {x}) \cup {[x EXCEPT !.st = "used"], [code |-> x.code, n |-> n, st |-> "fresh"]}

\* RotateRefreshToken: a spent token, or another client's, ends the family; a good one is
\* spent, and its access token and its successor are written with it; else nothing is.
RotateRefreshToken(r) ==
    /\ req[r].pc = "refreshing"
    /\ LET c      == req[r].code
           rows   == {x \in rt : x.code = c /\ x.n = req[r].n}
           reused == \E x \in rows : x.st = "used" \/ ~req[r].own
           good(x) == /\ ~reused /\ x.st = "fresh" /\ fam[c].st = "live"
                      /\ Issuable(code[c].sess) /\ code[c].pol = pol
           next   == fam[c].n + 1
       IN  \/ reused /\ EndFamily(c) /\ UNCHANGED rt
           \/ \E x \in rows :
                /\ good(x) /\ next <= MaxRefresh
                /\ rt' = Succeed(x, next)
                /\ tok' = tok \cup {[code |-> c, n |-> next, by |-> r, cap |-> req[r].cap]}
                /\ fam' = [fam EXCEPT ![c].n = next]
           \/ ~reused /\ (\A x \in rows : ~good(x)) /\ UNCHANGED <<tok, fam, rt>>
    /\ req' = [req EXCEPT ![r] = IdleRequest]
    /\ UNCHANGED <<subject, sess, code, void, cvoid, changes>>

\* A call fails (an idle session refuses a rotation, say), its client disconnects or the
\* process dies between two transactions.
Abandon(r) ==
    /\ req[r].pc # "idle"
    /\ req' = [req EXCEPT ![r] = IdleRequest]
    /\ UNCHANGED <<subject, sess, grants, void, cvoid, changes>>

Endpoint ==
    \/ \E s \in Sessions : SignIn(s)
    \/ \E c \in Codes, s \in Sessions : CreateAuthorizationCode(c, s)
    \/ \E r \in Requests :
        \/ \E c \in Codes : Present(r, c)
        \/ \E x \in rt, own \in BOOLEAN : PresentRefresh(r, x, own)
        \/ ConsumeAuthorizationCode(r) \/ Resolve(r) \/ RecordIssuedToken(r)
        \/ CreateRefreshFamily(r) \/ RotateRefreshToken(r) \/ Abandon(r)

-----------------------------------------------------------------------------
(* Taking it away.                                                          *)

\* oauth.RevokeToken by the token's client: one access token, or a whole family.
RevokeToken(t) ==
    /\ t \in tok /\ client = "on"
    /\ tok' = tok \ {t}
    /\ UNCHANGED <<subject, sess, code, fam, rt, req, void, cvoid, changes>>

RevokeRefreshFamily(x) ==
    /\ x \in rt /\ client = "on"
    /\ EndFamily(x.code)
    /\ UNCHANGED <<subject, sess, code, rt, req, void, cvoid, changes>>

\* RevokeSession and logout (one session), RevokeOtherSessions (all but one).
RevokeSession(ss) ==
    /\ Change /\ ss \cap Rows # {}
    /\ RevokeSessions(ss)
    /\ UNCHANGED <<subject, req, cvoid>>

\* RevokeUserClientAccess: this app's tokens and codes; sessions stay.
RevokeUserClientAccess ==
    /\ Change
    /\ End(Codes)
    /\ UNCHANGED <<subject, sess, req, cvoid>>

RevokeUserAccess ==
    /\ Change /\ user # "deleted"
    /\ RevokeAll
    /\ UNCHANGED <<subject, req, cvoid>>

\* ChangePassword: the proving session stays, everything else ends.
ChangePassword(keep) ==
    /\ Change /\ user \in {"active", "ended"} /\ sess[keep] = "live"
    /\ DropRows(Sessions \ {keep}) /\ End(Codes)
    /\ UNCHANGED <<subject, req, cvoid>>

\* updateUser: disabling an active account offboards it and a set password or a demotion
\* revokes; nothing else does. An ended account reads as disabled, so disabling one, or
\* editing it with its status untouched, only writes the row.
UpdateUser(status, revoke) ==
    /\ Change /\ user # "deleted"
    /\ user' = status
    /\ IF revoke \/ (user = "active" /\ status = "disabled") THEN RevokeAll
       ELSE UNCHANGED <<sess, grants, void>>
    /\ UNCHANGED <<acc, bound, client, pol, admitted, req, cvoid>>

\* DeleteUserWithSyncEvents offboards; sessions and codes also go by cascade.
DeleteUser ==
    /\ Change /\ user # "deleted"
    /\ user' = "deleted"
    /\ RevokeAll
    /\ UNCHANGED <<acc, bound, client, pol, admitted, req, cvoid>>

EndDatePasses ==
    /\ Change /\ user = "active"
    /\ user' = "ended"
    /\ UNCHANGED <<acc, bound, client, pol, admitted, sess, grants, req, void, cvoid>>

\* RunDueExpiries, an account whose row is active and past its end date (and who is not
\* the last active administrator, whom it keeps).
ExpireAccount ==
    /\ user = "ended"
    /\ user' = "disabled"
    /\ RevokeAll
    /\ UNCHANGED <<acc, bound, client, pol, admitted, req, cvoid, changes>>

\* RunDueExpiries' follow-up: expired grants are gone, grants without access end. (The
\* deletion of an expired row is a transaction before it that changes no decision.)
FollowUp ==
    /\ acc' = IF acc = "lapsed" THEN "none" ELSE acc
    /\ RevokeLost(Allowed(user, acc, client))
    /\ UNCHANGED <<user, bound, client, pol, admitted, sess, req, cvoid, changes>>

\* An access mutation (assignment with or without an end, policy, membership), with
\* revokeLostAppAccessTx in the same transaction.
SetAccess(on, bounded) ==
    /\ Change
    /\ acc' = IF on THEN "on" ELSE "none"
    /\ bound' = IF on /\ bounded THEN changes + 1 ELSE 0
    /\ RevokeLost(Allowed(user, acc', client))
    /\ UNCHANGED <<user, client, pol, admitted, sess, req, cvoid>>

\* The grant's end instant passes; tokens and families cut to that instant end with it.
AccessLapses ==
    /\ acc = "on" /\ bound # 0
    /\ acc' = "lapsed"
    /\ Expire({c \in Codes : fam[c].st = "live" /\ fam[c].cap = bound},
              {t \in tok : t.cap # bound})
    /\ UNCHANGED <<user, bound, client, pol, admitted, sess, code, rt, req, void, cvoid, changes>>

\* SetAppAuthenticationPolicy: every code and token of the client ends.
SetAppAuthentication ==
    /\ Change
    /\ pol' = pol + 1
    /\ End(Codes)
    /\ UNCHANGED <<user, acc, bound, client, admitted, sess, req, cvoid>>

\* roleChangeTx: the revision moves for everyone, the grants of the affected users end.
RoleChange(affected) ==
    /\ Change
    /\ pol' = pol + 1
    /\ IF affected THEN End(Codes) ELSE UNCHANGED <<grants, void>>
    /\ UNCHANGED <<user, acc, bound, client, admitted, sess, req, cvoid>>

\* UpdateOAuthClientWithAudit disabling the client or rotating its secret: its tokens are
\* revoked, its codes are not touched.
UpdateOAuthClient(enabled) ==
    /\ Change /\ client = "on"
    /\ client' = IF enabled THEN "on" ELSE "off"
    /\ Revoke(Codes)
    /\ cvoid' = cvoid \cup {c \in Codes : code[c].st = "spent"}
    /\ UNCHANGED <<user, acc, bound, pol, admitted, sess, code, req, void>>

EnableOAuthClient ==
    /\ Change /\ client = "off"
    /\ client' = "on"
    /\ UNCHANGED <<user, acc, bound, pol, admitted, sess, grants, req, void, cvoid>>

\* DeleteOAuthClient: tokens are revoked, codes cascade.
DeleteOAuthClient ==
    /\ Change /\ client # "gone"
    /\ client' = "gone"
    /\ End(Codes)
    /\ UNCHANGED <<user, acc, bound, pol, admitted, sess, req, cvoid>>

\* An MFA enrolment deadline, a policy edit or a required password change shuts the
\* account's sessions out, or lets them in again.
AdmissionChanges ==
    /\ admitted' = ~admitted
    /\ UNCHANGED <<user, acc, bound, client, pol, sess, grants, req, void, cvoid, changes>>

Administration ==
    \/ \E t \in tok : RevokeToken(t)
    \/ \E x \in rt : RevokeRefreshFamily(x)
    \/ \E ss \in SUBSET Sessions : RevokeSession(ss)
    \/ RevokeUserClientAccess \/ RevokeUserAccess
    \/ \E s \in Sessions : ChangePassword(s)
    \/ \E status \in {"active", "disabled"}, revoke \in BOOLEAN : UpdateUser(status, revoke)
    \/ DeleteUser \/ EndDatePasses \/ ExpireAccount \/ FollowUp
    \/ \E on, bounded \in BOOLEAN : SetAccess(on, bounded)
    \/ AccessLapses \/ SetAppAuthentication
    \/ \E affected \in BOOLEAN : RoleChange(affected)
    \/ \E enabled \in BOOLEAN : UpdateOAuthClient(enabled)
    \/ EnableOAuthClient \/ DeleteOAuthClient \/ AdmissionChanges

-----------------------------------------------------------------------------
(* The clock, and the cleanup of what it expired.                           *)

SessionExpires(s) ==
    /\ sess[s] = "live"
    /\ sess' = [sess EXCEPT ![s] = "expired"]
    /\ UNCHANGED <<subject, grants, req, void, cvoid, changes>>

CleanupExpiredSessions ==
    /\ sess' = [s \in Sessions |-> IF sess[s] = "expired" THEN "purged" ELSE sess[s]]
    /\ UNCHANGED <<subject, grants, req, void, cvoid, changes>>

CodeExpires(c) ==
    /\ code[c].st \in {"issued", "spent"}
    /\ code' = [code EXCEPT ![c].st = "gone"]
    /\ UNCHANGED <<subject, sess, tok, fam, rt, req, void, cvoid, changes>>

TokenExpires(t) ==
    /\ tok' = tok \ {t}
    /\ UNCHANGED <<subject, sess, code, fam, rt, req, void, cvoid, changes>>

\* A refresh token passes its idle limit.
RefreshExpires(x) ==
    /\ x.st = "fresh"
    /\ rt' = (rt \ {x}) \cup {[x EXCEPT !.st = "stale"]}
    /\ UNCHANGED <<subject, sess, code, tok, fam, req, void, cvoid, changes>>

FamilyExpires(c) ==
    /\ fam[c].st = "live"
    /\ Expire({c}, tok)
    /\ UNCHANGED <<subject, sess, code, rt, req, void, cvoid, changes>>

\* DeleteExpiredIssuedTokens: an expired family goes, its refresh tokens by cascade.
DeleteExpiredIssuedTokens ==
    /\ rt' = {x \in rt : fam[x.code].st # "expired"}
    /\ UNCHANGED <<subject, sess, code, tok, fam, req, void, cvoid, changes>>

Clock ==
    \/ \E s \in Sessions : SessionExpires(s)
    \/ CleanupExpiredSessions
    \/ \E c \in Codes : CodeExpires(c) \/ FamilyExpires(c)
    \/ \E t \in tok : TokenExpires(t)
    \/ \E x \in rt : RefreshExpires(x)
    \/ DeleteExpiredIssuedTokens

Next == Endpoint \/ Administration \/ Clock

Spec == Init /\ [][Next]_vars

-----------------------------------------------------------------------------
(* Properties                                                               *)

\* Calls that have spent a code and not finished.
Redeeming == {r \in Requests : req[r].pc \in {"spent", "resolved", "recorded"}}

\* A code is redeemed once, however many calls race for it: ConsumeAuthorizationCode's
\* compare-and-swap leaves one caller between it and registration, and none after one.
SingleRedemption ==
    /\ \A t, u \in tok : t.code = u.code /\ t.n = 0 /\ u.n = 0 => t = u
    /\ \A r, q \in Redeeming : req[r].code = req[q].code => r = q
    /\ \A r \in Redeeming, t \in tok :
        req[r].code = t.code /\ req[r].pc # "recorded" => t.n # 0

\* Each refresh token works once: a family never has two tokens that could be spent, and
\* the one it has is the latest.
OneRefreshHead ==
    \A x, y \in rt : x.code = y.code /\ x.st # "used" /\ y.n >= x.n => x = y

\* Ending a family ends every access token it minted: none survives a replay or a
\* revocation of the refresh token, the one of the first exchange included.
FamilyEndsWhole ==
    \A c \in Codes : fam[c].st = "revoked" => \A t \in tok : t.code # c

\* Authority has its roots: a token or family that is not revoked has a session nobody
\* revoked, its grant and its enabled client. (A grant that expired is the sweep's to end.)
AuthorityHasRoots ==
    \A c \in Codes : fam[c].st = "live" \/ (\E t \in tok : t.code = c) =>
        /\ code[c].sess \in Sessions /\ sess[code[c].sess] \in {"live", "expired", "purged"}
        /\ acc # "none" /\ client = "on"

\* Re-granting access cannot revive invalidated codes or tokens: once a revocation has
\* ended a grant, nothing derived from it is ever usable again, whatever was in flight.
RevokedStaysRevoked ==
    \A c \in void : /\ code[c].st = "gone" /\ fam[c].st # "live"
                    /\ \A t \in tok : t.code # c

\* Disabling a client or rotating its secret revokes the authority the old configuration
\* carried: what was redeemed under it has no token or family afterwards.
\* The code does not keep to it: TLC refutes it under OAuthClientRevocation.cfg.
ClientRevocationIsFinal ==
    \A c \in cvoid : fam[c].st # "live" /\ \A t \in tok : t.code # c

\* Account disablement revokes all sessions.
\* The code does not keep to it: TLC refutes it under OAuthEndedEdit.cfg.
DisabledHasNoSession ==
    user = "disabled" => Rows = {}
=============================================================================
