----------------------------- MODULE Enrollment -----------------------------
(***************************************************************************)
(* Required MFA enrolment: the policies of the organization, of the        *)
(* administrators and of directory groups, the deadlines they give, and    *)
(* what they let a session do (store/enrollment_policy.go,                 *)
(* store/group_enrollment.go), against everything that decides whom they   *)
(* bind: roles, delegations, group memberships written by administrators,  *)
(* by an upstream directory and by the expiry job (store/groups.go,        *)
(* store/scim_inbound_groups.go and their handlers, store/expiry.go).      *)
(*                                                                         *)
(* One session and one grant per account.  A policy that is not required   *)
(* binds nobody, whatever factors and grace it names, and is Off.  An edit *)
(* that names a revision which is not the current one is refused, and has  *)
(* no step.                                                                *)
(***************************************************************************)
EXTENDS Naturals, FiniteSets

CONSTANTS
    Users,      \* bound: accounts
    Owned,      \* the accounts that an upstream directory owns
    Groups,     \* bound: directory groups ever created
    Methods,    \* factors: a subset of totp, push and webauthn
    Requests,   \* upstream group writes that may be open at once
    Graces,     \* the grace periods a policy may give
    MaxTime,    \* bound: the clock
    MaxEdits,   \* bound: writes to policies, groups, roles and delegations
    MaxLogins,  \* bound: sign-ins, enrolments and removals of factors
    NoDate, NoGroup

ASSUME EnrollmentAssumption ==
    /\ Owned \subseteq Users
    /\ Methods \subseteq {"totp", "push", "webauthn"}
    /\ Graces \subseteq Nat /\ MaxTime \in Nat \ {0} /\ MaxEdits \in Nat /\ MaxLogins \in Nat
    /\ NoDate \notin Nat /\ NoGroup \notin Groups
    /\ Groups \cap {"organization", "administrators"} = {}

VARIABLES
    acct,     \* users: the role, or none
    deleg,    \* admin_delegations: the users with one
    factor,   \* enrolled_factors
    group,    \* directory_groups: who owns it, and its version
    member,   \* group_memberships: who added it and whether it ends
    policy,   \* enrollment_policies
    due,      \* enrollment_deadlines
    session,  \* sessions
    grant,    \* authorization_codes and issued_tokens
    read,     \* upstream clients: the group as last read
    now, edits, logins

vars == <<acct, deleg, factor, group, member, policy, due, session, grant, read, now, edits, logins>>
-----------------------------------------------------------------------------
Scopes == {"organization", "administrators"} \cup Groups
Masks == SUBSET Methods \ {{}}
Off == [on |-> FALSE, mask |-> Methods, grace |-> 0]
Policies == [on : {TRUE}, mask : Masks, grace : Graces]
Dates == 0..MaxTime \cup {t + g : t \in 1..MaxTime, g \in Graces}
Membership == {"out", "local", "until", "upstream"}

GroupRows == [by : {"new", "local", "upstream", "gone"}, ver : 0..MaxEdits]
\* at: both login evidences.  only: enrollment_only.
SessionRows == [live : BOOLEAN, method : Methods \cup {"none", "recovery"}, at : 0..MaxTime, only : BOOLEAN]
NoSession == [live |-> FALSE, method |-> "none", at |-> 0, only |-> FALSE]
\* under: history, the policies that bound the account when the grant was issued.
GrantRows == [live : BOOLEAN, under : SUBSET Scopes]
NoGrant == [live |-> FALSE, under |-> {}]
ReadRows == [g : Groups \cup {NoGroup}, ver : 0..MaxEdits, seen : SUBSET Users]
NoRead == [g |-> NoGroup, ver |-> 0, seen |-> {}]

TypeOK ==
    /\ acct \in [Users -> {"none", "user", "admin"}]
    /\ deleg \subseteq Users
    /\ factor \in [Users -> SUBSET Methods]
    /\ group \in [Groups -> GroupRows]
    /\ member \in [Groups -> [Users -> Membership]]
    /\ policy \in [Scopes -> Policies \cup {Off}]
    /\ due \in [Users -> [Scopes -> Dates \cup {NoDate}]]
    /\ session \in [Users -> SessionRows]
    /\ grant \in [Users -> GrantRows]
    /\ read \in [Requests -> ReadRows]
    /\ now \in 1..MaxTime
    /\ edits \in 0..MaxEdits
    /\ logins \in 0..MaxLogins

\* A directory with its administrator, who has enrolled and just signed in, and groups without
\* a policy; time 0 is long ago.
Init ==
    /\ \E root \in Users \ Owned :
         /\ acct = [u \in Users |-> IF u = root THEN "admin" ELSE "user"]
         /\ \E m \in Methods :
              /\ factor = [u \in Users |-> IF u = root THEN {m} ELSE {}]
              /\ session = [[u \in Users |-> NoSession] EXCEPT
                               ![root] = [live |-> TRUE, method |-> m, at |-> 1, only |-> FALSE]]
    /\ deleg = {}
    /\ group \in [Groups -> {[by |-> b, ver |-> 0] : b \in {"new", "local", "upstream"}}]
    /\ member \in [Groups -> [Users -> {"out", "local"}]]
    /\ \A g \in Groups, u \in Users : member[g][u] # "out" => group[g].by = "local"
    /\ policy = [s \in Scopes |-> Off]
    /\ due = [u \in Users |-> [s \in Scopes |-> NoDate]]
    /\ grant = [u \in Users |-> NoGrant]
    /\ read = [r \in Requests |-> NoRead]
    /\ now = 1
    /\ edits = 0
    /\ logins = 0
-----------------------------------------------------------------------------
(* The views.  P, M and A are the policies, the memberships and the       *)
(* privileged accounts of a state, which a transaction may have changed.  *)

Accounts == {u \in Users : acct[u] # "none"}
Exists(g) == group[g].by \in {"local", "upstream"}
Members(M, g) == {u \in Users : M[g][u] # "out"}

\* whom the administrators' policy binds: administrators and delegates
Privileged == {u \in Accounts : acct[u] = "admin" \/ u \in deleg}

\* applicable_enrollment_policies
Binding(P, M, A, u) ==
    {s \in Scopes : /\ P[s].on
                    /\ \/ s = "organization"
                       \/ s = "administrators" /\ u \in A
                       \/ s \in Groups /\ u \in Members(M, s)}

\* enrollment_requirements: the factors every applicable policy permits, and whether the first
\* deadline is ahead; a policy without one counts as long due
AllowedMask(P, B) == {m \in Methods : \A s \in B : m \in P[s].mask}
InGrace(D, B, u) == \A s \in B : D[u][s] # NoDate /\ D[u][s] > now

Bound(u) == Binding(policy, member, Privileged, u)
Compliant(u) == Bound(u) # {} /\ factor[u] \cap AllowedMask(policy, Bound(u)) # {}

\* mfa_session_access
SessionAllowed(s, P, D, B, u) ==
    /\ s.live /\ ~s.only
    /\ \/ B = {}
       \/ s.method # "recovery" /\ InGrace(D, B, u) /\ factor[u] \cap AllowedMask(P, B) = {}
       \/ s.method \in AllowedMask(P, B) \cap factor[u]
Allowed(u) == SessionAllowed(session[u], policy, due, Bound(u), u)

\* Mutant of EarliestDeadline: a policy edit starts the grace period again.
LatestDeadline(old, new) == new

\* ON CONFLICT DO UPDATE SET due_at=MIN
EarliestDeadline(old, new) == IF old = NoDate \/ new < old THEN new ELSE old

\* The triggers on new accounts, roles, members and delegations: INSERT OR IGNORE.
Dated(P, M, A, u) ==
    [due EXCEPT ![u] = [s \in Scopes |-> IF s \in Binding(P, M, A, u) /\ due[u][s] = NoDate
                                         THEN now + P[s].grace ELSE due[u][s]]]

\* What the triggers and the membership transaction refuse: no factor satisfies every policy.
Compatible(P, M, A, u) == Binding(P, M, A, u) = {} \/ AllowedMask(P, Binding(P, M, A, u)) # {}

\* Mutant of CanActivate: any administrator will do.
CanActivateAnyone(a, P, M, A) == acct[a] = "admin" /\ session[a].live /\ ~session[a].only

\* previewEnrollmentTx: the acting administrator is a tested way in.
CanActivate(a, P, M, A) ==
    /\ acct[a] = "admin" /\ session[a].live /\ ~session[a].only
    /\ LET B == Binding(P, M, A, a)
       IN  \/ B = {}
           \/ session[a].method \in factor[a] \cap AllowedMask(P, B) /\ session[a].at = now

\* revokeUserAccessTx, and the end of an account's sessions
EndAccess(u) ==
    /\ session' = [session EXCEPT ![u] = NoSession]
    /\ grant' = [grant EXCEPT ![u] = NoGrant]

\* invalidateUserEnrollmentTx
InvalidateUserEnrollment(U) == grant' = [u \in Users |-> IF u \in U THEN NoGrant ELSE grant[u]]

Edit == edits < MaxEdits /\ edits' = edits + 1 /\ UNCHANGED logins
Self == logins < MaxLogins /\ logins' = logins + 1 /\ UNCHANGED edits
-----------------------------------------------------------------------------
(* Policies. *)

\* Mutant of PolicyEditRevokes: grants survive.
PolicyEditRevokesNothing == UNCHANGED grant

\* Every edit ends the outstanding codes, interactions and tokens of everyone.
PolicyEditRevokes == InvalidateUserEnrollment(Users)

\* applyEnrollmentPolicyTx: refused where someone could not comply; deadlines for everyone bound
ApplyEnrollmentPolicyTx(P) ==
    /\ \A u \in Accounts : Compatible(P, member, Privileged, u)
    /\ policy' = P
    /\ due' = [u \in Users |-> [t \in Scopes |->
                 IF u \in Accounts /\ t \in Binding(P, member, Privileged, u)
                 THEN EarliestDeadline(due[u][t], now + P[t].grace) ELSE due[u][t]]]

\* SetEnrollmentPolicy.  A preview is the same, rolled back.
SetEnrollmentPolicy(a, s, p) ==
    LET P == [policy EXCEPT ![s] = p]
    IN  /\ Edit
        /\ s \in Groups => Exists(s)
        /\ ApplyEnrollmentPolicyTx(P)
        /\ CanActivate(a, P, member, Privileged)
        /\ PolicyEditRevokes
        /\ UNCHANGED <<acct, deleg, factor, group, member, session, read, now>>

\* SetEnrollmentPolicy, the handler: a form that is not a valid policy is refused
AdminSetEnrollmentPolicy ==
    \E a \in Users, s \in Scopes, p \in Policies \cup {Off} : SetEnrollmentPolicy(a, s, p)
-----------------------------------------------------------------------------
(* Groups, by administrators. *)

\* CreateGroup, with the trigger that gives it a policy that is not required
CreateGroup(g) ==
    /\ Edit
    /\ group[g].by = "new"
    /\ group' = [group EXCEPT ![g] = [by |-> "local", ver |-> edits + 1]]
    /\ UNCHANGED <<acct, deleg, factor, member, policy, due, session, grant, read, now>>

\* UpdateGroup: the description, and the name where no connector owns it
UpdateGroup(g) ==
    /\ Edit
    /\ Exists(g)
    /\ group' = [group EXCEPT ![g].ver = edits + 1]
    /\ UNCHANGED <<acct, deleg, factor, member, policy, due, session, grant, read, now>>

\* saveGroup, the handler of both
SaveGroup(g) == CreateGroup(g) \/ UpdateGroup(g)

\* applyGroupMembershipTx: a change under a required policy needs a factor that fits, and
\* an administrator who signed in with one; a connector has no such session.
MembershipAccepted(a, g, u, to) ==
    LET M == [member EXCEPT ![g][u] = to]
    IN  policy[g].on => Compatible(policy, M, Privileged, u) /\ CanActivate(a, policy, M, Privileged)

\* applyGroupMembershipTx: adding, removing, or moving the end of a membership; an addition
\* that changes nothing is no change
ApplyGroupMembershipTx(a, g, u, to) ==
    /\ to # member[g][u] /\ ~(to = "local" /\ member[g][u] = "upstream")
    /\ MembershipAccepted(a, g, u, to)
    /\ member' = [member EXCEPT ![g][u] = to]
    /\ due' = IF member[g][u] = "out" THEN Dated(policy, member', Privileged, u) ELSE due
    /\ IF policy[g].on THEN InvalidateUserEnrollment({u}) ELSE UNCHANGED grant

\* setGroupMembership
SetGroupMembershipTx(a, g, u, to) ==
    /\ Edit
    /\ Exists(g) /\ u \in Accounts
    /\ ApplyGroupMembershipTx(a, g, u, to)
    /\ UNCHANGED <<acct, deleg, factor, group, policy, session, read, now>>

\* SetGroupMembership, the handler
SetGroupMembership(a, g, u) ==
    \E to \in {"out", "local", "until"} : SetGroupMembershipTx(a, g, u, to)

\* RunDueExpiries: a membership that ends; nobody is asked
ExpireMembership(g, u) ==
    /\ member[g][u] = "until"
    /\ member' = [member EXCEPT ![g][u] = "out"]
    /\ IF policy[g].on THEN InvalidateUserEnrollment({u}) ELSE UNCHANGED grant
    /\ UNCHANGED <<acct, deleg, factor, group, policy, due, session, read, now, edits, logins>>

\* deleteGroupTx: the policy, the memberships and the deadlines go with the group
DeleteGroupTx(g) ==
    /\ group' = [group EXCEPT ![g].by = "gone"]
    /\ member' = [member EXCEPT ![g] = [u \in Users |-> "out"]]
    /\ policy' = [policy EXCEPT ![g] = Off]
    /\ due' = [u \in Users |-> [due[u] EXCEPT ![g] = NoDate]]
    /\ IF policy[g].on THEN InvalidateUserEnrollment(Members(member, g)) ELSE UNCHANGED grant

\* DeleteGroup, by an administrator
DeleteGroup(a, g) ==
    /\ Edit
    /\ Exists(g)
    /\ policy[g].on => CanActivate(a, policy, member, Privileged)
    /\ DeleteGroupTx(g)
    /\ UNCHANGED <<acct, deleg, factor, session, read, now>>
-----------------------------------------------------------------------------
(* Groups, by the upstream directory: a client reads, then writes what it  *)
(* makes of it.                                                            *)

\* membersOwnedTx: accounts of the connector
MembersOwned(members) == members \subseteq Owned \cap Accounts

\* CreateUpstreamGroup: with a first member, who must be the connector's
CreateUpstreamGroup(g, u) ==
    /\ Edit
    /\ group[g].by = "new"
    /\ MembersOwned({u})
    /\ group' = [group EXCEPT ![g] = [by |-> "upstream", ver |-> edits + 1]]
    /\ member' = [member EXCEPT ![g][u] = "upstream"]
    /\ due' = Dated(policy, member', Privileged, u)
    /\ UNCHANGED <<acct, deleg, factor, policy, session, grant, read, now>>

\* CreateGroup of the SCIM endpoint
SCIMCreateGroup(g, u) == CreateUpstreamGroup(g, u)

\* GetUpstreamGroup: what a client keeps until it reads again
GetUpstreamGroup(r, g) ==
    /\ group[g].by = "upstream"
    /\ read' = [read EXCEPT ![r] = [g |-> g, ver |-> group[g].ver, seen |-> Members(member, g)]]
    /\ UNCHANGED <<acct, deleg, factor, group, member, policy, due, session, grant, now, edits, logins>>

\* groupIfMatch, under the write lock
IfMatch(r, g, cond) == cond => read[r].g = g /\ group[g].ver = read[r].ver

\* Every member the upstream adds is its own; no change under a required policy is accepted,
\* for lack of a session.
ReplaceAccepted(g, members) ==
    /\ MembersOwned(members \ Members(member, g))
    /\ policy[g].on => members = Members(member, g)

\* ReplaceUpstreamGroup: membership rows for the difference, and a new version
ReplaceUpstreamGroup(g, members) ==
    /\ Edit
    /\ group[g].by = "upstream"
    /\ ReplaceAccepted(g, members)
    /\ group' = [group EXCEPT ![g].ver = edits + 1]
    /\ member' = [member EXCEPT ![g] = [u \in Users |->
          IF u \notin members THEN "out" ELSE IF member[g][u] = "out" THEN "upstream" ELSE member[g][u]]]
    /\ due' = [u \in Users |-> IF u \in members THEN Dated(policy, member', Privileged, u)[u] ELSE due[u]]
    /\ UNCHANGED <<acct, deleg, factor, policy, session, grant, read, now>>

Changed(S, op, u) == IF op = "add" THEN S \cup {u} ELSE S \ {u}

\* ReplaceGroup: the client sends the members it read, one changed
ReplaceGroup(r, g, op, u, cond) ==
    /\ read[r].g = g /\ IfMatch(r, g, cond)
    /\ ReplaceUpstreamGroup(g, Changed(read[r].seen, op, u))

\* Mutant of PatchBase: the operations land on the membership the client read.
PatchBaseAsRead(r, g) == IF read[r].g = g THEN read[r].seen ELSE Members(member, g)

\* The membership that a PATCH changes is the current one, read under the write lock.
PatchBase(r, g) == Members(member, g)

\* PatchGroup: one operation, by a client that need not have read
PatchGroup(r, g, op, u, cond) ==
    /\ IfMatch(r, g, cond)
    /\ ReplaceUpstreamGroup(g, Changed(PatchBase(r, g), op, u))

\* DeleteUpstreamGroup: the version read before is compared again, and a required policy refuses
DeleteUpstreamGroup(r, g, cond) ==
    /\ Edit
    /\ IfMatch(r, g, cond)
    /\ group[g].by = "upstream" /\ ~policy[g].on
    /\ DeleteGroupTx(g)
    /\ UNCHANGED <<acct, deleg, factor, session, read, now>>

\* DeleteGroup of the SCIM endpoint
SCIMDeleteGroup(r, g, cond) == DeleteUpstreamGroup(r, g, cond)
-----------------------------------------------------------------------------
(* Accounts. *)

\* A new account, with the trigger that dates it; nothing looks at compatibility.
CreateUser(u, role) ==
    /\ Edit
    /\ acct[u] = "none"
    /\ acct' = [acct EXCEPT ![u] = role]
    /\ due' = Dated(policy, member, IF role = "admin" THEN {u} ELSE {}, u)
    /\ UNCHANGED <<deleg, factor, group, member, policy, session, grant, read, now>>

\* requirePermanentAdminTx
OtherAdministrator(u) == \E v \in Users \ {u} : acct[v] = "admin"

DeleteUser(u) ==
    /\ Edit
    /\ acct[u] # "none" /\ OtherAdministrator(u)
    /\ acct' = [acct EXCEPT ![u] = "none"]
    /\ deleg' = deleg \ {u}
    /\ factor' = [factor EXCEPT ![u] = {}]
    /\ member' = [g \in Groups |-> [member[g] EXCEPT ![u] = "out"]]
    /\ due' = [due EXCEPT ![u] = [s \in Scopes |-> NoDate]]
    /\ EndAccess(u)
    /\ UNCHANGED <<group, policy, read, now>>

\* Mutant of RoleCompatible: the trigger is missing.
RoleCompatibleAlways(u, A) == TRUE

\* enrollment_role_compatibility and the check of enrollment_new_delegation
RoleCompatible(u, A) == Compatible(policy, member, A, u)

\* updateUser with another role: a promotion keeps access, a demotion ends it
SetRole(u, role) ==
    LET A == IF role = "admin" THEN Privileged \cup {u} ELSE IF u \in deleg THEN Privileged ELSE Privileged \ {u}
    IN  /\ Edit
        /\ acct[u] # "none" /\ role # acct[u]
        /\ acct[u] = "admin" => OtherAdministrator(u)
        /\ RoleCompatible(u, A)
        /\ acct' = [acct EXCEPT ![u] = role]
        /\ due' = Dated(policy, member, A, u)
        /\ IF role = "user" THEN EndAccess(u) ELSE UNCHANGED <<session, grant>>
        /\ UNCHANGED <<deleg, factor, group, member, policy, read, now>>

\* SetDelegations: given, or taken away
SetDelegations(u, on) ==
    /\ Edit
    /\ acct[u] # "none"
    /\ on => RoleCompatible(u, Privileged \cup {u})
    /\ deleg' = IF on THEN deleg \cup {u} ELSE deleg \ {u}
    /\ due' = IF on THEN [due EXCEPT ![u]["administrators"] = Dated(policy, member, Privileged \cup {u}, u)[u]["administrators"]] ELSE due
    /\ InvalidateUserEnrollment({u})
    /\ UNCHANGED <<acct, factor, group, member, policy, session, read, now>>
-----------------------------------------------------------------------------
(* Factors, sessions and grants. *)

\* A factor is enrolled (see StepUp): open to a restricted session too.
EnrolFactor(u, m) ==
    /\ Self
    /\ session[u].live /\ m \notin factor[u]
    /\ factor' = [factor EXCEPT ![u] = @ \cup {m}]
    /\ UNCHANGED <<acct, deleg, group, member, policy, due, session, grant, read, now>>

\* preserveCompliantEnrollmentTx: a phone or the passkeys go, and the last compliant factor stays
RemoveFactor(u, m) ==
    /\ Self
    /\ session[u].live /\ m \in factor[u] \ {"totp"}
    /\ Compliant(u) => (factor[u] \ {m}) \cap AllowedMask(policy, Bound(u)) # {}
    /\ factor' = [factor EXCEPT ![u] = @ \ {m}]
    /\ UNCHANGED <<acct, deleg, group, member, policy, due, session, grant, read, now>>

\* ResetUserMFA: no grace is left afterwards
ResetUserMFA(u) ==
    /\ Edit
    /\ acct[u] # "none"
    /\ factor' = [factor EXCEPT ![u] = {}]
    /\ due' = [due EXCEPT ![u] = [s \in Scopes |-> IF @[s] = NoDate THEN NoDate ELSE 0]]
    /\ EndAccess(u)
    /\ UNCHANGED <<acct, deleg, group, member, policy, read, now>>

\* CreateSession: by an enrolled factor or a recovery code, or by the password where there is
\* none; a login the view does not allow may only enrol
CreateSession(u) ==
    /\ Self
    /\ acct[u] # "none"
    /\ \E m \in IF factor[u] = {} THEN {"none"} ELSE factor[u] \cup {"recovery"} :
         LET s == [live |-> TRUE, method |-> m, at |-> now, only |-> FALSE]
         IN  session' = [session EXCEPT ![u] = [s EXCEPT !.only = ~SessionAllowed(s, policy, due, Bound(u), u)]]
    /\ UNCHANGED <<acct, deleg, factor, group, member, policy, due, grant, read, now>>

\* A code or a token for the session; the access view is read in the same statement
IssueGrant(u) ==
    /\ Allowed(u)
    /\ grant' = [grant EXCEPT ![u] = [live |-> TRUE, under |-> Bound(u) \ {"administrators"}]]
    /\ UNCHANGED <<acct, deleg, factor, group, member, policy, due, session, read, now, edits, logins>>

\* A logout ends the session and its grants.
Logout(u) ==
    /\ session[u].live
    /\ EndAccess(u)
    /\ UNCHANGED <<acct, deleg, factor, group, member, policy, due, read, now, edits, logins>>

Tick ==
    /\ now < MaxTime
    /\ now' = now + 1
    /\ UNCHANGED <<acct, deleg, factor, group, member, policy, due, session, grant, read, edits, logins>>
-----------------------------------------------------------------------------
Next ==
    \/ AdminSetEnrollmentPolicy
    \/ \E g \in Groups : SaveGroup(g)
    \/ \E a \in Users, g \in Groups, u \in Users : SetGroupMembership(a, g, u)
    \/ \E g \in Groups, u \in Users : ExpireMembership(g, u) \/ SCIMCreateGroup(g, u)
    \/ \E a \in Users, g \in Groups : DeleteGroup(a, g)
    \/ \E r \in Requests, g \in Groups : GetUpstreamGroup(r, g)
    \/ \E r \in Requests, g \in Groups, op \in {"add", "drop"}, u \in Users, cond \in BOOLEAN :
          ReplaceGroup(r, g, op, u, cond) \/ PatchGroup(r, g, op, u, cond)
    \/ \E r \in Requests, g \in Groups, cond \in BOOLEAN : SCIMDeleteGroup(r, g, cond)
    \/ \E u \in Users, role \in {"user", "admin"} : CreateUser(u, role) \/ SetRole(u, role)
    \/ \E u \in Users, on \in BOOLEAN : SetDelegations(u, on)
    \/ \E u \in Users, m \in Methods : EnrolFactor(u, m) \/ RemoveFactor(u, m)
    \/ \E u \in Users : DeleteUser(u) \/ ResetUserMFA(u) \/ CreateSession(u) \/ IssueGrant(u) \/ Logout(u)
    \/ Tick

Spec == Init /\ [][Next]_vars
-----------------------------------------------------------------------------
(***************************************************************************)
(* Properties                                                              *)
(***************************************************************************)

\* Whatever policies, roles, delegations and memberships are combined, every account has a
\* factor that all its policies permit: nobody is required to do the impossible.  The trigger on
\* new accounts does not look; that it need not rests on an administrator always being there.
PolicySatisfiable == \A u \in Accounts : Compatible(policy, member, Privileged, u)

\* A code or token that is still good was issued under the policies that bind its account now, as
\* far as the organization and groups are concerned: leaving a group and joining it again, or an
\* edit and its reversal, never revives one.
GrantsKeepTheirPolicies ==
    \A u \in Users : grant[u].live => grant[u].under = Bound(u) \ {"administrators"}

\* A change to the policies, or to who is in a group with a required one, leaves an administrator
\* whose session still has full access under the new rules: the change cannot lock everyone out.
EmergencyAdministrator ==
    [][\/ policy' = policy /\ \A g \in Groups : policy[g].on => Members(member', g) = Members(member, g)
       \/ \E g \in Groups, u \in Users : ExpireMembership(g, u)
       \/ \E u \in Users : DeleteUser(u)
       \/ \E a \in Users : acct'[a] = "admin" /\ Allowed(a)']_vars

\* An account has a deadline for every policy that binds it, and while account and policy last it
\* only ever moves closer, through membership changes, role changes and edits: no second grace.
GraceOnce ==
    [][\A u \in Users, s \in Scopes :
         /\ u \in Accounts' /\ s \in Bound(u)' => due'[u][s] # NoDate
         /\ due[u][s] # NoDate /\ u \in Accounts' /\ (s \in Groups => Exists(s)')
              => due'[u][s] # NoDate /\ due'[u][s] <= due[u][s]]_vars

\* An upstream write to one member, made as a PATCH or with If-Match, takes nobody else out of the
\* group, except one an administrator put there; under a required policy it takes or adds nobody.
UpstreamEditKeepsOthers ==
    [][\A g \in Groups : group'[g].ver # group[g].ver =>
         LET before == Members(member, g)
             after == Members(member', g)
         IN  \A r \in Requests, op \in {"add", "drop"}, w \in Users, cond \in BOOLEAN :
               /\ PatchGroup(r, g, op, w, cond) => before \ after \subseteq {w} /\ (policy[g].on => after = before)
               /\ ReplaceGroup(r, g, op, w, TRUE) => {u \in before \ after : member[g][u] = "upstream"} \subseteq {w}]_vars
=============================================================================
