------------------------------ MODULE AppAccess ------------------------------
(***************************************************************************)
(* Who may reach an application: the registry that ties connections to app *)
(* records (store/app_registry.go), policies and time-limited grants       *)
(* (store/app_access.go), access requests and their decisions              *)
(* (store/access_requests.go), the expiry follow-up (store/expiry.go) and  *)
(* the tokens bounded by it.                                               *)
(*                                                                         *)
(* Time is a clock; an instant e is ahead while e > now, 0 stands for no   *)
(* row and Never for a row without an expiry.  Each store transaction is   *)
(* one step; one made against an earlier revision of its record            *)
(* (lockAppRecord) is refused and changes nothing.                         *)
(***************************************************************************)
EXTENDS Naturals, FiniteSets

CONSTANTS
    Apps, Users,
    Client,            \* the OAuth client whose tokens are followed
    Launchers,         \* launcher entries; a paired system is linked in the same way
    AccessRequests,    \* bound: requests pending at once
    NoApp, NoUser,
    MaxPending,        \* maxPendingRequests
    RequestTTL, TokenTTL, MaxDuration,
    MaxTime,           \* bound: the clock
    MaxEdits           \* bound: administrative edits and requests

ASSUME AppAccessAssumption ==
    /\ IsFiniteSet(Apps) /\ NoApp \notin Apps
    /\ NoUser \notin Users /\ Client \notin Launchers
    /\ MaxPending \in Nat \ {0} /\ RequestTTL \in Nat \ {0} /\ TokenTTL \in Nat \ {0}
    /\ MaxDuration \in Nat /\ MaxTime \in Nat \ {0} /\ MaxEdits \in Nat

VARIABLES
    app,       \* app_registry
    direct,    \* app_user_assignments: expires_at
    grp,       \* app_group_assignments: the apps assigned to the group
    mem,       \* group_memberships: expires_at
    end,       \* users: ends_at
    admins,    \* users with the administrator role
    owners,    \* admin_delegations of kind app_owner
    pending,   \* access_requests that are pending
    issuing,   \* the expiry read for a token that is not recorded yet, 0 for none
    token,     \* issued_tokens: the expiry of each user's live token, 0 once revoked
    now,
    edits,
    debt,      \* history: an instant passed since the last follow-up
    overtaken, \* history: users whose end of access moved closer since their expiry was read
    shortened  \* history: the same of the expiry of their recorded token

issueVars == <<issuing, token, overtaken, shortened>>
accessVars == <<app, direct, grp, mem, end, admins, owners, pending, now, edits, debt, issueVars>>
-----------------------------------------------------------------------------
Never == MaxTime + MaxDuration + RequestTTL + TokenTTL + 1
Instants == 1..Never
Connections == {Client} \cup Launchers
Modes == {"assigned_only", "all_active_users"}

AppRows == [there : BOOLEAN, mode : Modes, enabled : BOOLEAN, requestable : BOOLEAN,
            refs : SUBSET Connections]
ReqRows == [app : Apps \cup {NoApp}, user : Users \cup {NoUser}, duration : 0..MaxDuration, expires : 0..Never]
NoReq == [app |-> NoApp, user |-> NoUser, duration |-> 0, expires |-> 0]

\* The types of the variables, and the registry: a record there is has connections, and
\* a connection has one record.
AccessTypes ==
    /\ app \in [Apps -> AppRows]
    /\ direct \in [Apps -> [Users -> 0..Never]]
    /\ grp \subseteq Apps
    /\ mem \in [Users -> 0..Never]
    /\ end \in [Users -> Instants]
    /\ admins \subseteq Users
    /\ owners \subseteq Apps \X Users
    /\ pending \in [AccessRequests -> ReqRows]
    /\ issuing \in [Users -> 0..Never]
    /\ token \in [Users -> 0..Never]
    /\ now \in 0..MaxTime
    /\ edits \in 0..MaxEdits
    /\ debt \in BOOLEAN
    /\ overtaken \subseteq Users /\ shortened \subseteq Users
    /\ \A a \in Apps : app[a].there <=> app[a].refs # {}
    /\ \A a, b \in Apps : a # b => app[a].refs \cap app[b].refs = {}

NewApp(refs) == [there |-> refs # {}, mode |-> "assigned_only", enabled |-> TRUE, requestable |-> FALSE,
                 refs |-> refs]

\* A directory some time after its setup: the connections are linked or not and their
\* records are open to requests.
AccessInit ==
    /\ grp = {}
    /\ \E f \in [Apps -> SUBSET Connections] :
          /\ \A a \in Apps : Cardinality(f[a] \cap Launchers) <= 1
          /\ \A c \in Connections : Cardinality({a \in Apps : c \in f[a]}) = 1
          /\ app = [a \in Apps |-> [NewApp(f[a]) EXCEPT !.requestable = f[a] # {}]]
    /\ direct = [a \in Apps |-> [u \in Users |-> 0]]
    /\ mem = [u \in Users |-> 0]
    /\ end = [u \in Users |-> Never]
    /\ \E u \in Users : admins = {u}
    /\ owners = {}
    /\ pending = [r \in AccessRequests |-> NoReq]
    /\ issuing = [u \in Users |-> 0]
    /\ token = [u \in Users |-> 0]
    /\ now = 0
    /\ edits = 0
    /\ debt = FALSE
    /\ overtaken = {} /\ shortened = {}
-----------------------------------------------------------------------------
(* Effective access. *)

Active(u) == end[u] > now
Assigned(a, u) == direct[a][u] > now \/ (a \in grp /\ mem[u] > now)

\* The view effective_app_access.
Access(a, u) ==
    /\ app[a].there /\ app[a].enabled
    /\ Active(u)
    /\ app[a].mode = "all_active_users" \/ Assigned(a, u)

\* ClientAccessAllowed
ClientAccess(u) == \E a \in Apps : Client \in app[a].refs /\ Access(a, u)

Least(a, b) == IF a <= b THEN a ELSE b
Most(a, b) == IF a <= b THEN b ELSE a
Ahead(e) == IF e > now THEN e ELSE 0

\* Mutant of AccessEndsAt: the account's end does not cap the grants.
AccessEndsAtUncapped(a, u) ==
    LET latest == Most(Ahead(direct[a][u]), IF a \in grp THEN Ahead(mem[u]) ELSE 0)
    IN  IF app[a].mode = "all_active_users" \/ latest = 0 THEN end[u] ELSE latest

\* AccessEndsAt: the latest live grant, capped by the account's end.
AccessEndsAt(a, u) ==
    LET latest == Most(Ahead(direct[a][u]), IF a \in grp THEN Ahead(mem[u]) ELSE 0)
    IN  IF app[a].mode = "all_active_users" \/ latest = 0 THEN end[u] ELSE Least(latest, end[u])

\* What a token request reads: the end for the client's record, whether or not there is
\* access; a client without a record has none.
ReadEnd(u) ==
    IF \E a \in Apps : Client \in app[a].refs
    THEN AccessEndsAt(CHOOSE a \in Apps : Client \in app[a].refs, u)
    ELSE Never

\* The instant a client's access ends; what has ended is over now.
ClientEnd(u) == IF ClientAccess(u) THEN ReadEnd(u) ELSE now

\* revokeLostAppAccessTx, against the state the transaction leaves.
RevokeLostAppAccess ==
    /\ token' = [u \in Users |-> IF ClientAccess(u)' THEN token[u] ELSE 0]
    /\ issuing' = issuing

\* Histories: whose end of access an edit moves closer, while they have an expiry it overtakes.
Closer == {u \in Users : ReadEnd(u)' < ReadEnd(u)}
Shortens ==
    /\ shortened' = {u \in shortened \cup Closer : token'[u] # 0}
    /\ overtaken' = {u \in overtaken \cup Closer : issuing[u] # 0}

Edit == edits < MaxEdits /\ edits' = edits + 1
-----------------------------------------------------------------------------
(* The registry. *)

\* store.SetAppPolicy
SetAppPolicyTx(a, mode, enabled) ==
    /\ app[a].there
    /\ app' = [app EXCEPT ![a].mode = mode, ![a].enabled = enabled]
    /\ UNCHANGED <<direct, grp, mem, end, now>>
    /\ RevokeLostAppAccess

\* AdminHandler.SetAppPolicy
SetAppPolicy(a) ==
    /\ Edit
    /\ \E mode \in Modes, enabled \in BOOLEAN : SetAppPolicyTx(a, mode, enabled)
    /\ Shortens
    /\ UNCHANGED <<admins, owners, pending, debt>>

\* store.SetAppRequestable
SetAppRequestableTx(a, open) ==
    /\ app[a].there
    /\ app' = [app EXCEPT ![a].requestable = open]

\* AdminHandler.SetAppRequestable
SetAppRequestable(a) ==
    /\ Edit
    /\ \E open \in BOOLEAN : SetAppRequestableTx(a, open)
    /\ UNCHANGED <<direct, grp, mem, end, admins, owners, pending, now, debt, issueVars>>

\* Mutant of EnsureAppLinkPolicies: assignments do not keep two records apart.
SamePolicyOnly(a, b) == app[a].mode = app[b].mode /\ app[a].enabled = app[b].enabled

\* ensureAppLinkPoliciesTx
EnsureAppLinkPolicies(a, b) ==
    /\ app[a].mode = app[b].mode /\ app[a].enabled = app[b].enabled
    /\ \A u \in Users : direct[a][u] = 0 /\ direct[b][u] = 0
    /\ a \notin grp /\ b \notin grp

\* The registry once b's connections moved to a and b's record went.
Merged(a, b) == [app EXCEPT ![a].refs = @ \cup app[b].refs, ![b] = NewApp({})]

\* What goes with a record: its assignments, its owners and the requests for it.
Cascade(a) ==
    /\ direct' = [direct EXCEPT ![a] = [u \in Users |-> 0]]
    /\ grp' = grp \ {a}
    /\ owners' = {o \in owners : o[1] # a}
    /\ pending' = [r \in AccessRequests |-> IF pending[r].app = a THEN NoReq ELSE pending[r]]

\* store.LinkAppRecords: b's connections move to a.
LinkAppRecordsTx(a, b) ==
    /\ a # b /\ app[a].there /\ app[b].there
    /\ EnsureAppLinkPolicies(a, b)
    /\ Client \notin app[a].refs \/ Client \notin app[b].refs
    /\ app[a].refs \cap Launchers = {} \/ app[b].refs \cap Launchers = {}
    /\ app' = Merged(a, b)
    /\ Cascade(b)

\* AdminHandler.LinkAppRecords
LinkAppRecords(a, b) ==
    /\ Edit
    /\ LinkAppRecordsTx(a, b)
    /\ UNCHANGED <<mem, end, admins, now, debt, issueVars>>

\* Mutant of CopiedGrants: the copies of time-limited grants have no end.
CopiedForever(a, u) == IF direct[a][u] = 0 THEN 0 ELSE Never

\* The grants an unlinked record starts with: its origin's, with their ends.
CopiedGrants(a, u) == direct[a][u]

\* store.UnlinkAppRecord: connection c gets the record b, a copy of a's.
UnlinkAppRecordTx(a, b, c) ==
    /\ app[a].there /\ ~app[b].there
    /\ c \in app[a].refs /\ Cardinality(app[a].refs) >= 2
    /\ app' = [app EXCEPT ![a].refs = @ \ {c},
                          ![b] = [NewApp({c}) EXCEPT !.mode = app[a].mode, !.enabled = app[a].enabled]]
    /\ direct' = [direct EXCEPT ![b] = [u \in Users |-> CopiedGrants(a, u)]]
    /\ grp' = IF a \in grp THEN grp \cup {b} ELSE grp

\* AdminHandler.UnlinkAppRecord
UnlinkAppRecord(a, b, c) ==
    /\ Edit
    /\ UnlinkAppRecordTx(a, b, c)
    /\ UNCHANGED <<mem, end, admins, owners, pending, now, debt, issueVars>>
-----------------------------------------------------------------------------
(* Grants. *)

\* applyAppAssignmentTx, for a user and for the group.
ApplyUserAssignment(a, u, expires) ==
    /\ app[a].there
    /\ direct' = [direct EXCEPT ![a][u] = expires]
    /\ UNCHANGED <<app, grp, mem, end, now>>
    /\ RevokeLostAppAccess
ApplyGroupAssignment(a, assigned) ==
    /\ app[a].there
    /\ grp' = IF assigned THEN grp \cup {a} ELSE grp \ {a}
    /\ UNCHANGED <<app, direct, mem, end, now>>
    /\ RevokeLostAppAccess

\* readExpiry and checkExpiry: an instant ahead, or none.
Expiries == {e \in Instants : now < e /\ (e <= MaxTime \/ e = Never)}

\* SetAppAssignment: put with an expiry, or delete.
SetAppAssignment(a) ==
    /\ Edit
    /\ \/ \E u \in Users, e \in {0} \cup Expiries : ApplyUserAssignment(a, u, e)
       \/ \E assigned \in BOOLEAN : ApplyGroupAssignment(a, assigned)
    /\ Shortens
    /\ UNCHANGED <<admins, owners, pending, debt>>

\* A membership is set or removed (see EnrollmentPolicy), with the same follow-up.
SetMembership(u, e) ==
    /\ Edit
    /\ mem' = [mem EXCEPT ![u] = e]
    /\ UNCHANGED <<app, direct, grp, end, now>>
    /\ RevokeLostAppAccess
    /\ Shortens
    /\ UNCHANGED <<admins, owners, pending, debt>>

\* The account's end is scheduled or cleared (see Accounts): nothing is lost yet.
SetEnd(u, e) ==
    /\ Edit
    /\ Active(u)
    /\ end' = [end EXCEPT ![u] = e]
    /\ UNCHANGED <<app, direct, grp, mem, admins, owners, pending, issuing, token, now, debt>>
    /\ Shortens

\* Roles and app ownership move (see Accounts).
SetAuthority(u) ==
    /\ Edit
    /\ \/ admins' \in {admins \cup {u}, admins \ {u}} /\ owners' = owners
       \/ /\ \E a \in Apps : app[a].there /\ owners' \in {owners \cup {<<a, u>>}, owners \ {<<a, u>>}}
          /\ admins' = admins
    /\ UNCHANGED <<app, direct, grp, mem, end, pending, now, debt, issueVars>>
-----------------------------------------------------------------------------
(* Access requests. *)

Open(a) == app[a].there /\ app[a].requestable /\ app[a].enabled /\ app[a].mode = "assigned_only"

\* store.CreateAccessRequest
CreateAccessRequest(r, u, a, duration) ==
    /\ pending[r] = NoReq
    /\ Open(a) /\ ~Access(a, u)
    /\ Cardinality({q \in AccessRequests : pending[q].user = u}) < MaxPending
    /\ ~\E q \in AccessRequests : pending[q].user = u /\ pending[q].app = a
    /\ pending' = [pending EXCEPT ![r] = [app |-> a, user |-> u, duration |-> duration, expires |-> now + RequestTTL]]

\* AccessRequestHandler.Create, by a signed-in user
Create(r, u) ==
    /\ Edit
    /\ Active(u)
    /\ \E a \in Apps, duration \in 0..MaxDuration : CreateAccessRequest(r, u, a, duration)
    /\ UNCHANGED <<app, direct, grp, mem, end, admins, owners, now, debt, issueVars>>

\* CancelAccessRequest and Cancel
Cancel(r) ==
    /\ pending[r] # NoReq /\ Active(pending[r].user)
    /\ pending' = [pending EXCEPT ![r] = NoReq]
    /\ UNCHANGED <<app, direct, grp, mem, end, admins, owners, now, edits, debt, issueVars>>

\* The authority to decide, as DecideAccessRequest reads it.
MayDecide(by, a) == Active(by) /\ (by \in admins \/ <<a, by>> \in owners)

\* Mutant of KeepsLonger: only a grant with no end is kept.
KeepsForeverOnly(a, u, expires) == direct[a][u] = Never

\* A direct grant made since that lasts at least as long is kept.
KeepsLonger(a, u, expires) ==
    direct[a][u] # 0 /\ (direct[a][u] = Never \/ (expires # Never /\ direct[a][u] >= expires))

\* DecideAccessRequest: the state, the authority and the policy are read under the lock.
DecideAccessRequest(r, by, approve) ==
    LET q == pending[r]
        expires == IF q.duration = 0 THEN Never ELSE now + q.duration
    IN  /\ q # NoReq /\ q.expires > now
        /\ q.user # by /\ MayDecide(by, q.app)
        /\ IF approve /\ ~KeepsLonger(q.app, q.user, expires)
           THEN Open(q.app) /\ ApplyUserAssignment(q.app, q.user, expires)
           ELSE (approve => Open(q.app)) /\ UNCHANGED <<app, direct, grp, mem, end, issuing, token, now>>
        /\ pending' = [pending EXCEPT ![r] = NoReq]

\* AccessRequestHandler.Decide
Decide(r, by) ==
    /\ \E approve \in BOOLEAN : DecideAccessRequest(r, by, approve)
    /\ Shortens
    /\ UNCHANGED <<admins, owners, edits, debt>>
-----------------------------------------------------------------------------
(* Time, and RunDueExpiries: each row in a transaction of its own, then the follow-up. *)

Tick ==
    /\ now < MaxTime
    /\ now' = now + 1
    /\ debt' = (debt \/ \E u \in Users : \/ end[u] = now + 1 \/ mem[u] = now + 1
                                         \/ \E a \in Apps : direct[a][u] = now + 1)
    /\ token' = [u \in Users |-> IF token[u] <= now + 1 THEN 0 ELSE token[u]]
    /\ shortened' = {u \in shortened : token'[u] # 0}
    /\ UNCHANGED <<app, direct, grp, mem, end, admins, owners, pending, issuing, overtaken, edits>>

Due(e) == e # 0 /\ e <= now

\* The assignments part.
ExpireAssignment(a, u) ==
    /\ Due(direct[a][u])
    /\ direct' = [direct EXCEPT ![a][u] = 0]
    /\ UNCHANGED <<app, grp, mem, end, admins, owners, pending, now, edits, debt, issueVars>>

\* The memberships part.
ExpireMembership(u) ==
    /\ Due(mem[u])
    /\ mem' = [mem EXCEPT ![u] = 0]
    /\ UNCHANGED <<app, direct, grp, end, admins, owners, pending, now, edits, debt, issueVars>>

\* The shared follow-up, expireAccessRequestsTx and revokeLostAppAccessTx.
ExpiryFollowUp ==
    /\ pending' = [r \in AccessRequests |-> IF Due(pending[r].expires) THEN NoReq ELSE pending[r]]
    /\ UNCHANGED <<app, direct, grp, mem, end, now>>
    /\ RevokeLostAppAccess
    /\ debt' = FALSE
    /\ shortened' = {u \in shortened : token'[u] # 0}
    /\ UNCHANGED <<admins, owners, edits, overtaken>>

\* A token request reads the end of access and bounds the token to it.
ReadAccessEnd(u) ==
    /\ issuing[u] = 0 /\ token[u] = 0
    /\ issuing' = [issuing EXCEPT ![u] = Least(now + TokenTTL, ReadEnd(u))]
    /\ UNCHANGED <<app, direct, grp, mem, end, admins, owners, pending, token, now, edits, debt, overtaken, shortened>>

\* recordIssuedTokenTx records it later: it checks that there is access, not until when.
RecordToken(u) ==
    /\ issuing[u] > now /\ ClientAccess(u)
    /\ token' = [token EXCEPT ![u] = issuing[u]]
    /\ issuing' = [issuing EXCEPT ![u] = 0]
    /\ shortened' = IF u \in overtaken THEN shortened \cup {u} ELSE shortened
    /\ overtaken' = overtaken \ {u}
    /\ UNCHANGED <<app, direct, grp, mem, end, admins, owners, pending, now, edits, debt>>

\* ErrAppAccessDenied, a request that goes no further, or a row that has expired before it
\* is written.
TokenNotIssued(u) ==
    /\ issuing[u] # 0
    /\ issuing' = [issuing EXCEPT ![u] = 0]
    /\ overtaken' = overtaken \ {u}
    /\ UNCHANGED <<app, direct, grp, mem, end, admins, owners, pending, token, now, edits, debt, shortened>>
-----------------------------------------------------------------------------
AccessNext ==
    \/ \E a \in Apps : SetAppPolicy(a) \/ SetAppRequestable(a) \/ SetAppAssignment(a)
    \/ \E a, b \in Apps : LinkAppRecords(a, b)
    \/ \E a, b \in Apps, c \in Connections : UnlinkAppRecord(a, b, c)
    \/ \E u \in Users, e \in {0} \cup Expiries : SetMembership(u, e)
    \/ \E u \in Users, e \in Expiries : SetEnd(u, e)
    \/ \E u \in Users : SetAuthority(u) \/ ExpireMembership(u)
    \/ \E u \in Users : ReadAccessEnd(u) \/ RecordToken(u) \/ TokenNotIssued(u)
    \/ \E r \in AccessRequests, u \in Users : Create(r, u) \/ Decide(r, u)
    \/ \E r \in AccessRequests : Cancel(r)
    \/ \E a \in Apps, u \in Users : ExpireAssignment(a, u)
    \/ Tick \/ ExpiryFollowUp

AccessSpec == AccessInit /\ [][AccessNext]_accessVars
-----------------------------------------------------------------------------
(* Properties. *)

\* Who holds a live token still has access, except when an edit brought the end of access
\* closer after the token's expiry was read and access has ended since the last follow-up.
\* No edit takes access away and leaves the token, no token outlives the end of access that
\* was read for it, and one that an edit overtook, before its recording or after it, is
\* left only until the next follow-up (app_access.go revokeLostAppAccessTx, expiry.go
\* AccessEndsAt, store.go recordIssuedTokenTx).
TokenEndsWithAccess ==
    \A u \in Users : token[u] # 0 /\ ~ClientAccess(u) => debt /\ u \in shortened

\* A decision on a request never brings the end of anyone's access closer, whatever was
\* granted between the request and the decision (access_requests.go DecideAccessRequest).
DecisionNeverShortens ==
    [][(\E r \in AccessRequests, u \in Users : Decide(r, u)) =>
          \A a \in Apps, u \in Users : Access(a, u) =>
              Access(a, u)' /\ AccessEndsAt(a, u) <= AccessEndsAt(a, u)']_accessVars

\* Linking and unlinking records changes neither who may use the client nor until when,
\* which is why neither revokes anything (app_registry.go LinkAppRecords, UnlinkAppRecord).
RelinkKeepsAccess ==
    [][(\E a, b \in Apps : LinkAppRecords(a, b) \/ \E c \in Connections : UnlinkAppRecord(a, b, c)) =>
          \A u \in Users : ClientEnd(u)' = ClientEnd(u) /\ ClientAccess(u)' = ClientAccess(u)]_accessVars
=============================================================================
