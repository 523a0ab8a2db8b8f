------------------------- MODULE Enrollment_proofs -------------------------
(***************************************************************************)
(* Proofs about Enrollment, for any accounts, groups, factors, graces and  *)
(* upstream clients and every bound.                                       *)
(*                                                                         *)
(* That every account can satisfy its policies is not inductive: nothing   *)
(* compares a new account with them.  It is the administrator that is      *)
(* always there who shows that the organization's and the administrators'  *)
(* policies have a factor in common, and a new account is in no group,     *)
(* since an account that is deleted leaves its memberships behind nowhere. *)
(* That no upstream write takes out a member its client never saw rests on *)
(* the version: an upstream member that is there at the version a client   *)
(* read is one the client saw.                                             *)
(***************************************************************************)
EXTENDS Enrollment, TLAPS

\* requirePermanentAdminTx keeps one.
Administered == \E u \in Users : acct[u] = "admin"

\* An account that does not exist has left nothing behind.
NothingLeft ==
    \A u \in Users : acct[u] = "none" =>
        /\ u \notin deleg /\ ~session[u].live /\ ~grant[u].live
        /\ \A g \in Groups : member[g][u] = "out"

\* A group that does not exist has no policy and no members.
GroupsEmpty ==
    \A g \in Groups : ~Exists(g) => ~policy[g].on /\ \A u \in Users : member[g][u] = "out"

\* Every policy that binds an account has given it a deadline.
DatesGiven == \A u \in Accounts : \A s \in Bound(u) : due[u][s] # NoDate

\* What a client read, if the version is still that one, shows every upstream member.
ReadsFit ==
    /\ \A g \in Groups : group[g].ver <= edits
    /\ \A r \in Requests : read[r].ver <= edits
    /\ \A r \in Requests, g \in Groups : read[r].g = g =>
          /\ group[g].by # "new"
          /\ group[g].ver = read[r].ver =>
                \A u \in Users : member[g][u] = "upstream" => u \in read[r].seen

IInv ==
    /\ TypeOK
    /\ Administered /\ NothingLeft /\ GroupsEmpty
    /\ PolicySatisfiable /\ GrantsKeepTheirPolicies
    /\ DatesGiven /\ ReadsFit
-----------------------------------------------------------------------------
(* Types.                                                                   *)

\* Deadlines are dates, the grace of a policy that binds is one of Graces.
LEMMA DateType ==
    ASSUME TypeOK, NEW P \in [Scopes -> Policies \cup {Off}], NEW s \in Scopes, P[s].on
    PROVE  now + P[s].grace \in Dates
<1>1. P[s] \in Policies
  BY DEF Off
<1>2. P[s].grace \in Graces /\ now \in 1..MaxTime
  BY <1>1 DEF Policies, TypeOK
<1> QED
  BY <1>2 DEF Dates

\* The triggers date the one account they are about.
LEMMA DatedType ==
    ASSUME TypeOK, NEW P \in [Scopes -> Policies \cup {Off}], NEW M, NEW A, NEW u \in Users
    PROVE  /\ Dated(P, M, A, u) \in [Users -> [Scopes -> Dates \cup {NoDate}]]
           /\ \A v \in Users \ {u} : Dated(P, M, A, u)[v] = due[v]
           /\ \A s \in Scopes :
                Dated(P, M, A, u)[u][s] = IF s \in Binding(P, M, A, u) /\ due[u][s] = NoDate
                                          THEN now + P[s].grace ELSE due[u][s]
<1> DEFINE row == [s \in Scopes |-> IF s \in Binding(P, M, A, u) /\ due[u][s] = NoDate
                                    THEN now + P[s].grace ELSE due[u][s]]
<1>1. due \in [Users -> [Scopes -> Dates \cup {NoDate}]]
  BY DEF TypeOK
<1>2. row \in [Scopes -> Dates \cup {NoDate}]
  <2>1. ASSUME NEW s \in Scopes, s \in Binding(P, M, A, u) PROVE now + P[s].grace \in Dates
    <3>1. P[s].on
      BY <2>1 DEF Binding
    <3> QED
      BY <3>1, DateType
  <2> QED
    BY <1>1, <2>1
<1>3. Dated(P, M, A, u) = [due EXCEPT ![u] = row]
  BY DEF Dated
<1>4. \A s \in Scopes : row[s] = IF s \in Binding(P, M, A, u) /\ due[u][s] = NoDate
                                 THEN now + P[s].grace ELSE due[u][s]
  OBVIOUS
<1> HIDE DEF row
<1>5. [due EXCEPT ![u] = row][u] = row /\ \A v \in Users \ {u} : [due EXCEPT ![u] = row][v] = due[v]
  BY <1>1
<1>6. [due EXCEPT ![u] = row] \in [Users -> [Scopes -> Dates \cup {NoDate}]]
  BY <1>1, <1>2
<1> QED
  BY <1>3, <1>4, <1>5, <1>6

\* The edits and the sign-ins are counted within their bounds.
LEMMA CountsType ==
    ASSUME TypeOK
    PROVE  /\ Edit => edits' \in 0..MaxEdits /\ edits + 1 \in 0..MaxEdits /\ logins' \in 0..MaxLogins
           /\ Self => edits' \in 0..MaxEdits /\ logins' \in 0..MaxLogins
  BY EnrollmentAssumption DEF TypeOK, Edit, Self

\* Ending access leaves rows of sessions and grants.
LEMMA EndAccessType ==
    ASSUME TypeOK, NEW u \in Users, EndAccess(u)
    PROVE  /\ session' \in [Users -> SessionRows] /\ grant' \in [Users -> GrantRows]
           /\ session'[u] = NoSession /\ grant'[u] = NoGrant
           /\ \A v \in Users \ {u} : session'[v] = session[v] /\ grant'[v] = grant[v]
<1>1. NoSession \in SessionRows /\ NoGrant \in GrantRows
  BY EnrollmentAssumption DEF NoSession, NoGrant, SessionRows, GrantRows
<1>2. session \in [Users -> SessionRows] /\ grant \in [Users -> GrantRows]
  BY DEF TypeOK
<1> QED
  BY <1>1, <1>2 DEF EndAccess

\* Invalidating ends the grants of the accounts named.
LEMMA InvalidateType ==
    ASSUME TypeOK, NEW U, InvalidateUserEnrollment(U)
    PROVE  /\ grant' \in [Users -> GrantRows]
           /\ \A u \in Users : grant'[u] = IF u \in U THEN NoGrant ELSE grant[u]
<1>1. NoGrant \in GrantRows
  BY DEF NoGrant, GrantRows
<1> QED
  BY <1>1 DEF InvalidateUserEnrollment, TypeOK

\* Likewise where only a required policy does.
LEMMA GrantType ==
    ASSUME TypeOK, NEW U, NEW c, IF c THEN InvalidateUserEnrollment(U) ELSE UNCHANGED grant
    PROVE  grant' \in [Users -> GrantRows]
<1>1. CASE c
  BY <1>1, InvalidateType
<1>2. CASE ~c
  BY <1>2 DEF TypeOK
<1> QED
  BY <1>1, <1>2

\* A policy edit.
LEMMA PolicyType ==
    ASSUME TypeOK, AdminSetEnrollmentPolicy
    PROVE  TypeOK'
<1>1. PICK a \in Users, s \in Scopes, p \in Policies \cup {Off} : SetEnrollmentPolicy(a, s, p)
  BY DEF AdminSetEnrollmentPolicy
<1> DEFINE P == [policy EXCEPT ![s] = p]
<1>2. P \in [Scopes -> Policies \cup {Off}]
  BY DEF TypeOK
<1>3. ApplyEnrollmentPolicyTx(P) /\ Edit /\ PolicyEditRevokes
      /\ UNCHANGED <<acct, deleg, factor, group, member, session, read, now>>
  BY <1>1 DEF SetEnrollmentPolicy
<1> HIDE DEF P
<1>4. due' \in [Users -> [Scopes -> Dates \cup {NoDate}]]
  <2>1. due \in [Users -> [Scopes -> Dates \cup {NoDate}]]
    BY DEF TypeOK
  <2>2. ASSUME NEW u \in Users, NEW t \in Scopes, t \in Binding(P, member, Privileged, u)
        PROVE  EarliestDeadline(due[u][t], now + P[t].grace) \in Dates \cup {NoDate}
    <3>1. P[t].on
      BY <2>2 DEF Binding
    <3>2. now + P[t].grace \in Dates
      BY <1>2, <3>1, DateType
    <3> QED
      BY <2>1, <3>2 DEF EarliestDeadline
  <2> QED
    BY <1>3, <2>1, <2>2 DEF ApplyEnrollmentPolicyTx
<1>5. policy' \in [Scopes -> Policies \cup {Off}]
  BY <1>2, <1>3 DEF ApplyEnrollmentPolicyTx
<1>6. grant' \in [Users -> GrantRows]
  BY <1>3, InvalidateType DEF PolicyEditRevokes
<1> QED
  BY <1>3, <1>4, <1>5, <1>6, CountsType DEF TypeOK

\* Groups are created, renamed and read.
LEMMA GroupType ==
    ASSUME TypeOK, NEW g \in Groups, SaveGroup(g) \/ \E r \in Requests : GetUpstreamGroup(r, g)
    PROVE  TypeOK'
<1>1. group \in [Groups -> GroupRows]
  BY DEF TypeOK
<1>2. CASE CreateGroup(g)
  <2>1. [by |-> "local", ver |-> edits + 1] \in GroupRows
    BY <1>2, CountsType DEF CreateGroup, GroupRows
  <2>2. group' \in [Groups -> GroupRows]
    BY <1>1, <1>2, <2>1 DEF CreateGroup
  <2> QED
    BY <1>2, <2>2, CountsType DEF CreateGroup, TypeOK
<1>3. CASE UpdateGroup(g)
  <2>1. [group[g] EXCEPT !.ver = edits + 1] \in GroupRows
    BY <1>1, <1>3, CountsType DEF UpdateGroup, GroupRows
  <2>2. group' \in [Groups -> GroupRows]
    BY <1>1, <1>3, <2>1 DEF UpdateGroup
  <2> QED
    BY <1>3, <2>2, CountsType DEF UpdateGroup, TypeOK
<1>4. ASSUME NEW r \in Requests, GetUpstreamGroup(r, g) PROVE TypeOK'
  <2>1. [g |-> g, ver |-> group[g].ver, seen |-> Members(member, g)] \in ReadRows
    BY <1>1 DEF ReadRows, GroupRows, Members
  <2>2. read' \in [Requests -> ReadRows]
    BY <1>4, <2>1 DEF GetUpstreamGroup, TypeOK
  <2> QED
    BY <1>4, <2>2 DEF GetUpstreamGroup, TypeOK
<1> QED
  BY <1>2, <1>3, <1>4 DEF SaveGroup

\* Members come and go, by administrators, the expiry job and the upstream.
LEMMA MemberType ==
    ASSUME TypeOK, NEW g \in Groups, NEW u \in Users
    PROVE  /\ \A a \in Users : SetGroupMembership(a, g, u) => TypeOK'
           /\ ExpireMembership(g, u) => TypeOK'
           /\ SCIMCreateGroup(g, u) => TypeOK'
<1>0. /\ member \in [Groups -> [Users -> Membership]] /\ group \in [Groups -> GroupRows]
      /\ policy \in [Scopes -> Policies \cup {Off}]
  BY DEF TypeOK
<1>1. ASSUME NEW m \in Membership PROVE [member EXCEPT ![g][u] = m] \in [Groups -> [Users -> Membership]]
  BY <1>0
<1>2. ASSUME NEW a \in Users, NEW to \in {"out", "local", "until"}, SetGroupMembershipTx(a, g, u, to)
      PROVE  TypeOK'
  <2>1. ApplyGroupMembershipTx(a, g, u, to) /\ Edit
        /\ UNCHANGED <<acct, deleg, factor, group, policy, session, read, now>>
    BY <1>2 DEF SetGroupMembershipTx
  <2>2. member' \in [Groups -> [Users -> Membership]]
    BY <1>1, <2>1 DEF ApplyGroupMembershipTx, Membership
  <2>3. due' \in [Users -> [Scopes -> Dates \cup {NoDate}]]
    BY <1>0, <2>1, DatedType DEF ApplyGroupMembershipTx, TypeOK
  <2>4. grant' \in [Users -> GrantRows]
    BY <2>1, GrantType DEF ApplyGroupMembershipTx
  <2> QED
    BY <2>1, <2>2, <2>3, <2>4, CountsType DEF TypeOK
<1>3. ASSUME ExpireMembership(g, u) PROVE TypeOK'
  <2>1. member' \in [Groups -> [Users -> Membership]]
    BY <1>1, <1>3 DEF ExpireMembership, Membership
  <2>2. grant' \in [Users -> GrantRows]
    BY <1>3, GrantType DEF ExpireMembership
  <2> QED
    BY <1>3, <2>1, <2>2 DEF ExpireMembership, TypeOK
<1>4. ASSUME SCIMCreateGroup(g, u) PROVE TypeOK'
  <2>1. member' \in [Groups -> [Users -> Membership]]
    BY <1>1, <1>4 DEF SCIMCreateGroup, CreateUpstreamGroup, Membership
  <2>2. due' \in [Users -> [Scopes -> Dates \cup {NoDate}]]
    BY <1>0, <1>4, DatedType DEF SCIMCreateGroup, CreateUpstreamGroup
  <2>3. [by |-> "upstream", ver |-> edits + 1] \in GroupRows
    BY <1>4, CountsType DEF SCIMCreateGroup, CreateUpstreamGroup, GroupRows
  <2>4. group' \in [Groups -> GroupRows]
    BY <1>0, <1>4, <2>3 DEF SCIMCreateGroup, CreateUpstreamGroup
  <2> QED
    BY <1>4, <2>1, <2>2, <2>4, CountsType DEF SCIMCreateGroup, CreateUpstreamGroup, TypeOK
<1> QED
  BY <1>2, <1>3, <1>4 DEF SetGroupMembership

\* deleteGroupTx.
LEMMA DeleteGroupType ==
    ASSUME TypeOK, NEW g \in Groups, DeleteGroupTx(g)
    PROVE  /\ group' \in [Groups -> GroupRows] /\ member' \in [Groups -> [Users -> Membership]]
           /\ policy' \in [Scopes -> Policies \cup {Off}]
           /\ due' \in [Users -> [Scopes -> Dates \cup {NoDate}]] /\ grant' \in [Users -> GrantRows]
<1>1. group' \in [Groups -> GroupRows]
  BY DEF DeleteGroupTx, TypeOK, GroupRows
<1>2. member' \in [Groups -> [Users -> Membership]]
  BY DEF DeleteGroupTx, TypeOK, Membership
<1>3. policy' \in [Scopes -> Policies \cup {Off}]
  BY DEF DeleteGroupTx, TypeOK
<1>4. due' \in [Users -> [Scopes -> Dates \cup {NoDate}]]
  BY DEF DeleteGroupTx, TypeOK
<1>5. grant' \in [Users -> GrantRows]
  BY GrantType DEF DeleteGroupTx
<1> QED
  BY <1>1, <1>2, <1>3, <1>4, <1>5

\* An upstream write of the whole membership.
LEMMA ReplaceType ==
    ASSUME TypeOK, NEW g \in Groups, NEW members, ReplaceUpstreamGroup(g, members)
    PROVE  TypeOK'
<1>1. group' \in [Groups -> GroupRows]
  <2>1. [group[g] EXCEPT !.ver = edits + 1] \in GroupRows
    BY CountsType DEF ReplaceUpstreamGroup, GroupRows, TypeOK
  <2> QED
    BY <2>1 DEF ReplaceUpstreamGroup, TypeOK
<1>2. member' \in [Groups -> [Users -> Membership]]
  BY DEF ReplaceUpstreamGroup, TypeOK, Membership
<1>3. due' \in [Users -> [Scopes -> Dates \cup {NoDate}]]
  <2>1. \A u \in Users : /\ due[u] \in [Scopes -> Dates \cup {NoDate}]
                         /\ Dated(policy, member', Privileged, u)[u] \in [Scopes -> Dates \cup {NoDate}]
    BY DatedType DEF TypeOK
  <2> QED
    BY <2>1 DEF ReplaceUpstreamGroup
<1> QED
  BY <1>1, <1>2, <1>3, CountsType DEF ReplaceUpstreamGroup, TypeOK

\* Accounts, roles and delegations.
LEMMA AccountType ==
    ASSUME TypeOK, NEW u \in Users
    PROVE  /\ \A role \in {"user", "admin"} : CreateUser(u, role) \/ SetRole(u, role) => TypeOK'
           /\ \A on \in BOOLEAN : SetDelegations(u, on) => TypeOK'
           /\ DeleteUser(u) => TypeOK'
<1>0. /\ policy \in [Scopes -> Policies \cup {Off}] /\ acct \in [Users -> {"none", "user", "admin"}]
      /\ due \in [Users -> [Scopes -> Dates \cup {NoDate}]]
  BY DEF TypeOK
<1>1. ASSUME NEW role \in {"user", "admin"}, CreateUser(u, role) PROVE TypeOK'
  <2>1. due' \in [Users -> [Scopes -> Dates \cup {NoDate}]]
    BY <1>0, <1>1, DatedType DEF CreateUser
  <2>2. acct' \in [Users -> {"none", "user", "admin"}]
    BY <1>0, <1>1 DEF CreateUser
  <2> QED
    BY <1>1, <2>1, <2>2, CountsType DEF CreateUser, TypeOK
<1>2. ASSUME NEW role \in {"user", "admin"}, SetRole(u, role) PROVE TypeOK'
  <2>1. due' \in [Users -> [Scopes -> Dates \cup {NoDate}]]
    BY <1>0, <1>2, DatedType DEF SetRole
  <2>2. acct' \in [Users -> {"none", "user", "admin"}]
    BY <1>0, <1>2 DEF SetRole
  <2>3. session' \in [Users -> SessionRows] /\ grant' \in [Users -> GrantRows]
    BY <1>2, EndAccessType DEF SetRole, TypeOK
  <2> QED
    BY <1>2, <2>1, <2>2, <2>3, CountsType DEF SetRole, TypeOK
<1>3. ASSUME NEW on \in BOOLEAN, SetDelegations(u, on) PROVE TypeOK'
  <2>1. due' \in [Users -> [Scopes -> Dates \cup {NoDate}]]
    <3> DEFINE d == Dated(policy, member, Privileged \cup {u}, u)[u]["administrators"]
    <3>1. d \in Dates \cup {NoDate}
      <4>1. "administrators" \in Scopes
        BY DEF Scopes
      <4> QED
        BY <1>0, <4>1, DatedType
    <3>2. due' = due \/ due' = [due EXCEPT ![u]["administrators"] = d]
      BY <1>3 DEF SetDelegations
    <3> HIDE DEF d
    <3> QED
      BY <1>0, <3>1, <3>2
  <2>2. grant' \in [Users -> GrantRows]
    BY <1>3, InvalidateType DEF SetDelegations
  <2>3. deleg' \subseteq Users
    BY <1>3 DEF SetDelegations, TypeOK
  <2> QED
    BY <1>3, <2>1, <2>2, <2>3, CountsType DEF SetDelegations, TypeOK
<1>4. ASSUME DeleteUser(u) PROVE TypeOK'
  <2>1. due' \in [Users -> [Scopes -> Dates \cup {NoDate}]]
    BY <1>0, <1>4 DEF DeleteUser
  <2>2. member' \in [Groups -> [Users -> Membership]]
    BY <1>4 DEF DeleteUser, TypeOK, Membership
  <2>3. session' \in [Users -> SessionRows] /\ grant' \in [Users -> GrantRows]
    BY <1>4, EndAccessType DEF DeleteUser
  <2>4. /\ acct' \in [Users -> {"none", "user", "admin"}] /\ factor' \in [Users -> SUBSET Methods]
        /\ deleg' \subseteq Users
    BY <1>4 DEF DeleteUser, TypeOK
  <2> QED
    BY <1>4, <2>1, <2>2, <2>3, <2>4, CountsType DEF DeleteUser, TypeOK
<1> QED
  BY <1>1, <1>2, <1>3, <1>4

\* Factors, sessions and grants.
LEMMA SessionType ==
    ASSUME TypeOK, NEW u \in Users
    PROVE  /\ \A m \in Methods : EnrolFactor(u, m) \/ RemoveFactor(u, m) => TypeOK'
           /\ ResetUserMFA(u) \/ CreateSession(u) \/ IssueGrant(u) \/ Logout(u) => TypeOK'
<1>1. ASSUME NEW m \in Methods, EnrolFactor(u, m) \/ RemoveFactor(u, m) PROVE TypeOK'
  <2>1. factor' \in [Users -> SUBSET Methods]
    <3>1. factor \in [Users -> SUBSET Methods]
      BY DEF TypeOK
    <3>2. factor' = [factor EXCEPT ![u] = factor[u] \cup {m}] \/ factor' = [factor EXCEPT ![u] = factor[u] \ {m}]
      BY <1>1, <3>1 DEF EnrolFactor, RemoveFactor
    <3>3. factor[u] \cup {m} \in SUBSET Methods /\ factor[u] \ {m} \in SUBSET Methods
      BY <3>1
    <3> QED
      BY <3>1, <3>2, <3>3
  <2> QED
    BY <1>1, <2>1, CountsType DEF EnrolFactor, RemoveFactor, TypeOK
<1>2. CASE ResetUserMFA(u)
  <2>1. due' \in [Users -> [Scopes -> Dates \cup {NoDate}]]
    <3> DEFINE row == [s \in Scopes |-> IF due[u][s] = NoDate THEN NoDate ELSE 0]
    <3>1. row \in [Scopes -> Dates \cup {NoDate}]
      BY EnrollmentAssumption DEF Dates
    <3>2. due' = [due EXCEPT ![u] = row]
      BY <1>2 DEF ResetUserMFA, TypeOK
    <3> HIDE DEF row
    <3> QED
      BY <3>1, <3>2 DEF TypeOK
  <2>2. factor' \in [Users -> SUBSET Methods]
    BY <1>2 DEF ResetUserMFA, TypeOK
  <2> QED
    BY <1>2, <2>1, <2>2, EndAccessType, CountsType DEF ResetUserMFA, TypeOK
<1>3. CASE CreateSession(u)
  <2>1. PICK m \in IF factor[u] = {} THEN {"none"} ELSE factor[u] \cup {"recovery"} :
          LET s == [live |-> TRUE, method |-> m, at |-> now, only |-> FALSE]
          IN  session' = [session EXCEPT ![u] = [s EXCEPT !.only = ~SessionAllowed(s, policy, due, Bound(u), u)]]
    BY <1>3 DEF CreateSession
  <2>2. m \in Methods \cup {"none", "recovery"} /\ now \in 0..MaxTime
    BY <2>1 DEF TypeOK
  <2> DEFINE s == [live |-> TRUE, method |-> m, at |-> now, only |-> FALSE]
             b == ~SessionAllowed(s, policy, due, Bound(u), u)
  <2>3. session' = [session EXCEPT ![u] = [s EXCEPT !.only = b]] /\ b \in BOOLEAN
    BY <2>1 DEF SessionAllowed
  <2>4. [s EXCEPT !.only = b] \in SessionRows
    <3>1. s \in SessionRows
      BY <2>2 DEF SessionRows
    <3> HIDE DEF s, b
    <3>2. CASE b
      <4>1. [s EXCEPT !.only = b] = [s EXCEPT !.only = TRUE]
        BY <3>2, Zenon
      <4> QED BY <3>1, <4>1 DEF SessionRows
    <3>3. CASE ~b
      <4>1. [s EXCEPT !.only = b] = [s EXCEPT !.only = FALSE]
        BY <2>3, <3>3, Zenon
      <4> QED BY <3>1, <4>1 DEF SessionRows
    <3> QED BY <3>2, <3>3
  <2> HIDE DEF s, b
  <2>5. session' \in [Users -> SessionRows]
    BY <2>3, <2>4 DEF TypeOK
  <2> QED
    BY <1>3, <2>5, CountsType DEF CreateSession, TypeOK
<1>4. CASE IssueGrant(u)
  <2>1. [live |-> TRUE, under |-> Bound(u) \ {"administrators"}] \in GrantRows
    BY DEF GrantRows, Bound, Binding
  <2>2. grant' \in [Users -> GrantRows]
    BY <1>4, <2>1 DEF IssueGrant, TypeOK
  <2> QED
    BY <1>4, <2>2 DEF IssueGrant, TypeOK
<1>5. CASE Logout(u)
  BY <1>5, EndAccessType DEF Logout, TypeOK
<1> QED
  BY <1>1, <1>2, <1>3, <1>4, <1>5

\* Every step keeps the types.
LEMMA NextType == TypeOK /\ [Next]_vars => TypeOK'
<1> SUFFICES ASSUME TypeOK, [Next]_vars PROVE TypeOK'
  OBVIOUS
<1>1. CASE AdminSetEnrollmentPolicy
  BY <1>1, PolicyType
<1>2. ASSUME NEW g \in Groups, SaveGroup(g) \/ \E r \in Requests : GetUpstreamGroup(r, g) PROVE TypeOK'
  BY <1>2, GroupType
<1>3. ASSUME NEW g \in Groups, NEW u \in Users,
             \/ \E a \in Users : SetGroupMembership(a, g, u)
             \/ ExpireMembership(g, u) \/ SCIMCreateGroup(g, u)
      PROVE  TypeOK'
  BY <1>3, MemberType
<1>4. ASSUME NEW g \in Groups, \/ \E a \in Users : DeleteGroup(a, g)
                               \/ \E r \in Requests, cond \in BOOLEAN : SCIMDeleteGroup(r, g, cond)
      PROVE  TypeOK'
  <2>1. Edit /\ DeleteGroupTx(g) /\ UNCHANGED <<acct, deleg, factor, session, read, now>>
    BY <1>4 DEF DeleteGroup, SCIMDeleteGroup, DeleteUpstreamGroup
  <2> QED
    BY <2>1, DeleteGroupType, CountsType DEF TypeOK
<1>5. ASSUME NEW r \in Requests, NEW g \in Groups, NEW op \in {"add", "drop"}, NEW u \in Users, NEW cond \in BOOLEAN,
             ReplaceGroup(r, g, op, u, cond) \/ PatchGroup(r, g, op, u, cond)
      PROVE  TypeOK'
  BY <1>5, ReplaceType DEF ReplaceGroup, PatchGroup
<1>6. ASSUME NEW u \in Users, \/ \E role \in {"user", "admin"} : CreateUser(u, role) \/ SetRole(u, role)
                              \/ \E on \in BOOLEAN : SetDelegations(u, on)
                              \/ DeleteUser(u)
      PROVE  TypeOK'
  BY <1>6, AccountType
<1>7. ASSUME NEW u \in Users, \/ \E m \in Methods : EnrolFactor(u, m) \/ RemoveFactor(u, m)
                              \/ ResetUserMFA(u) \/ CreateSession(u) \/ IssueGrant(u) \/ Logout(u)
      PROVE  TypeOK'
  BY <1>7, SessionType
<1>8. CASE Tick
  BY <1>8, EnrollmentAssumption DEF Tick, TypeOK
<1>9. CASE UNCHANGED vars
  BY <1>9 DEF vars, TypeOK
<1> QED
  BY <1>1, <1>2, <1>3, <1>4, <1>5, <1>6, <1>7, <1>8, <1>9 DEF Next

\* The directory with its administrator is well typed.
LEMMA InitType == Init => TypeOK
<1> SUFFICES ASSUME Init PROVE TypeOK
  OBVIOUS
<1>1. PICK root \in Users \ Owned :
        /\ acct = [u \in Users |-> IF u = root THEN "admin" ELSE "user"]
        /\ \E m \in Methods :
             /\ factor = [u \in Users |-> IF u = root THEN {m} ELSE {}]
             /\ session = [[u \in Users |-> NoSession] EXCEPT
                              ![root] = [live |-> TRUE, method |-> m, at |-> 1, only |-> FALSE]]
  BY DEF Init
<1>2. acct \in [Users -> {"none", "user", "admin"}] /\ factor \in [Users -> SUBSET Methods]
  BY <1>1
<1>3. session \in [Users -> SessionRows]
  <2>1. NoSession \in SessionRows
    BY EnrollmentAssumption DEF NoSession, SessionRows
  <2>2. \A m \in Methods : [live |-> TRUE, method |-> m, at |-> 1, only |-> FALSE] \in SessionRows
    BY EnrollmentAssumption DEF SessionRows
  <2> QED
    BY <1>1, <2>1, <2>2
<1>4. grant \in [Users -> GrantRows] /\ read \in [Requests -> ReadRows]
  BY EnrollmentAssumption DEF Init, NoGrant, GrantRows, NoRead, ReadRows
<1>5. group \in [Groups -> GroupRows] /\ member \in [Groups -> [Users -> Membership]]
  <2>1. \A b \in {"new", "local", "upstream"} : [by |-> b, ver |-> 0] \in GroupRows
    BY EnrollmentAssumption DEF GroupRows
  <2>2. group \in [Groups -> {[by |-> b, ver |-> 0] : b \in {"new", "local", "upstream"}}]
    BY DEF Init
  <2>3. group \in [Groups -> GroupRows]
    BY <2>1, <2>2
  <2> QED
    BY <2>3 DEF Init, Membership
<1>6. policy \in [Scopes -> Policies \cup {Off}] /\ due \in [Users -> [Scopes -> Dates \cup {NoDate}]]
  BY DEF Init
<1>7. deleg \subseteq Users /\ now \in 1..MaxTime /\ edits \in 0..MaxEdits /\ logins \in 0..MaxLogins
  BY EnrollmentAssumption DEF Init
<1> QED
  BY <1>2, <1>3, <1>4, <1>5, <1>6, <1>7 DEF TypeOK

\* Policies, deadlines, memberships, sessions and grants keep their shapes, and no date is
\* beyond the last grace a policy can give.
THEOREM TypeCorrect == Spec => []TypeOK
  BY InitType, NextType, PTL DEF Spec

-----------------------------------------------------------------------------
(* Kinds of step.                                                           *)

\* The deadline is no later than before.
Closer(u, s) == due[u][s] # NoDate => due'[u][s] # NoDate /\ due'[u][s] <= due[u][s]

\* Nobody is bound differently.
Rests ==
    /\ UNCHANGED <<acct, deleg, member, policy>>
    /\ \A u \in Users :
          /\ session'[u].live => session[u].live \/ acct[u] # "none"
          /\ grant'[u].live => \/ grant'[u] = grant[u]
                               \/ session[u].live /\ grant'[u].under = Bound(u) \ {"administrators"}
          /\ \A s \in Scopes : Closer(u, s)
    /\ \A g \in Groups : Exists(g) => Exists(g)'

\* Accounts join and leave the group g. Under a required policy whoever joins or leaves loses
\* the grants, and whoever joins has a deadline and a factor that fits.
Moves(g) ==
    /\ UNCHANGED <<acct, deleg, policy, session>>
    /\ \A h \in Groups \ {g} : member'[h] = member[h]
    /\ Exists(g)' /\ \A h \in Groups : Exists(h) => Exists(h)'
    /\ \A u \in Users :
          /\ member'[g][u] # "out" => member[g][u] # "out" \/ acct[u] # "none"
          /\ grant'[u] = grant[u] \/ ~grant'[u].live
          /\ \A s \in Scopes : Closer(u, s)
          /\ policy[g].on /\ ~(member[g][u] = "out" <=> member'[g][u] = "out") => ~grant'[u].live
          /\ policy[g].on /\ member[g][u] = "out" /\ member'[g][u] # "out" =>
                Compatible(policy, member', Privileged, u) /\ due'[u][g] # NoDate

\* Group scopes are not the organization's or the administrators'.
LEMMA GroupScopes ==
    \A g \in Groups : g \in Scopes /\ g # "organization" /\ g # "administrators"
  BY EnrollmentAssumption DEF Scopes

\* Dates are numbers.
LEMMA DatesNat == Dates \subseteq Nat
  BY EnrollmentAssumption DEF Dates

\* A deadline that is given by the triggers replaces none.
LEMMA DatedCloser ==
    ASSUME TypeOK, NEW M, NEW A, NEW u \in Users, due' = Dated(policy, M, A, u)
    PROVE  /\ \A v \in Users, s \in Scopes : Closer(v, s)
           /\ \A s \in Binding(policy, M, A, u) : due'[u][s] # NoDate
<1>0. policy \in [Scopes -> Policies \cup {Off}] /\ due \in [Users -> [Scopes -> Dates \cup {NoDate}]]
  BY DEF TypeOK
<1>1. ASSUME NEW v \in Users, NEW s \in Scopes, due[v][s] # NoDate
      PROVE  due'[v][s] = due[v][s] /\ due[v][s] \in Nat
  <2>1. due[v][s] \in Nat
    BY <1>0, <1>1, DatesNat
  <2>2. CASE v = u
    BY <1>0, <1>1, <2>1, <2>2, DatedType
  <2>3. CASE v # u
    BY <1>0, <2>1, <2>3, DatedType
  <2> QED BY <2>2, <2>3
<1>2. ASSUME NEW s \in Binding(policy, M, A, u) PROVE due'[u][s] # NoDate
  <2>1. s \in Scopes /\ policy[s].on
    BY DEF Binding
  <2>2. now + policy[s].grace \in Dates
    BY <1>0, <2>1, DateType
  <2>3. now + policy[s].grace # NoDate
    BY <2>2, DatesNat, EnrollmentAssumption
  <2>4. due'[u][s] = IF due[u][s] = NoDate THEN now + policy[s].grace ELSE due[u][s]
    BY <1>0, <2>1, DatedType
  <2> QED
    BY <2>3, <2>4
<1> QED
  BY <1>1, <1>2 DEF Closer

\* Unchanged deadlines are no later.
LEMMA SameCloser ==
    ASSUME TypeOK, due' = due
    PROVE  \A u \in Users, s \in Scopes : Closer(u, s)
<1>1. due \in [Users -> [Scopes -> Dates \cup {NoDate}]]
  BY DEF TypeOK
<1>2. \A u \in Users, s \in Scopes : due[u][s] # NoDate => due[u][s] \in Nat
  BY <1>1, DatesNat
<1> QED
  BY <1>2 DEF Closer

\* Whether an account is in a group is read off its row.
LEMMA MemberSets ==
    ASSUME NEW M, NEW g, NEW u \in Users
    PROVE  u \in Members(M, g) <=> M[g][u] # "out"
  BY DEF Members

\* SetGroupMembership moves one account.
LEMMA SetMoves ==
    ASSUME IInv, NEW a \in Users, NEW g \in Groups, NEW u \in Users, SetGroupMembership(a, g, u)
    PROVE  Moves(g)
<1>1. PICK to \in {"out", "local", "until"} : SetGroupMembershipTx(a, g, u, to)
  BY DEF SetGroupMembership
<1>2. /\ UNCHANGED <<acct, deleg, group, policy, session>>
      /\ Exists(g) /\ u \in Accounts /\ ApplyGroupMembershipTx(a, g, u, to)
  BY <1>1 DEF SetGroupMembershipTx
<1>3. TypeOK /\ member \in [Groups -> [Users -> Membership]] /\ g \in Scopes
  BY GroupScopes DEF IInv, TypeOK
<1>4. member' = [member EXCEPT ![g][u] = to]
  BY <1>2 DEF ApplyGroupMembershipTx
<1>5. /\ \A h \in Groups \ {g} : member'[h] = member[h]
      /\ member'[g][u] = to /\ \A v \in Users \ {u} : member'[g][v] = member[g][v]
  BY <1>3, <1>4
<1>6. Exists(g)' /\ \A h \in Groups : Exists(h) => Exists(h)'
  BY <1>2 DEF Exists
<1>7. \A v \in Users : grant'[v] = IF policy[g].on /\ v = u THEN NoGrant ELSE grant[v]
  BY <1>2, <1>3, InvalidateType DEF ApplyGroupMembershipTx
<1>8. /\ \A v \in Users, s \in Scopes : Closer(v, s)
      /\ member[g][u] = "out" => \A s \in Binding(policy, member', Privileged, u) : due'[u][s] # NoDate
  BY <1>2, <1>3, DatedCloser, SameCloser DEF ApplyGroupMembershipTx
<1>9. policy[g].on /\ member'[g][u] # "out" => g \in Binding(policy, member', Privileged, u)
  BY <1>3 DEF Binding, Members
<1>10. policy[g].on => Compatible(policy, member', Privileged, u)
  BY <1>2, <1>4 DEF ApplyGroupMembershipTx, MembershipAccepted
<1>11. ~NoGrant.live /\ acct[u] # "none"
  BY <1>2 DEF NoGrant, Accounts
<1> QED
  BY <1>2, <1>5, <1>6, <1>7, <1>8, <1>9, <1>10, <1>11 DEF Moves

\* The expiry job takes one account out.
LEMMA ExpireMoves ==
    ASSUME IInv, NEW g \in Groups, NEW u \in Users, ExpireMembership(g, u)
    PROVE  Moves(g)
<1>1. TypeOK /\ member \in [Groups -> [Users -> Membership]]
  BY DEF IInv, TypeOK
<1>2. /\ UNCHANGED <<acct, deleg, group, policy, session>> /\ due' = due
      /\ member[g][u] = "until" /\ member' = [member EXCEPT ![g][u] = "out"]
  BY DEF ExpireMembership
<1>3. /\ \A h \in Groups \ {g} : member'[h] = member[h]
      /\ member'[g][u] = "out" /\ \A v \in Users \ {u} : member'[g][v] = member[g][v]
  BY <1>1, <1>2
<1>4. Exists(g)
  BY <1>2 DEF IInv, GroupsEmpty
<1>5. Exists(g)' /\ \A h \in Groups : Exists(h) => Exists(h)'
  BY <1>2, <1>4 DEF Exists
<1>6. \A v \in Users : grant'[v] = IF policy[g].on /\ v = u THEN NoGrant ELSE grant[v]
  BY <1>1, InvalidateType DEF ExpireMembership
<1>7. \A v \in Users, s \in Scopes : Closer(v, s)
  BY <1>1, <1>2, SameCloser
<1>8. ~NoGrant.live
  BY DEF NoGrant
<1> QED
  BY <1>2, <1>3, <1>5, <1>6, <1>7, <1>8 DEF Moves

\* The upstream's new group has no policy yet.
LEMMA CreateMoves ==
    ASSUME IInv, NEW g \in Groups, NEW u \in Users, SCIMCreateGroup(g, u)
    PROVE  Moves(g)
<1>1. TypeOK /\ member \in [Groups -> [Users -> Membership]] /\ group \in [Groups -> GroupRows]
  BY DEF IInv, TypeOK
<1>2. /\ UNCHANGED <<acct, deleg, policy, session, grant>>
      /\ due' = Dated(policy, member', Privileged, u)
      /\ group[g].by = "new" /\ MembersOwned({u}) /\ member' = [member EXCEPT ![g][u] = "upstream"]
      /\ group' = [group EXCEPT ![g] = [by |-> "upstream", ver |-> edits + 1]]
  BY DEF SCIMCreateGroup, CreateUpstreamGroup
<1>3. /\ \A h \in Groups \ {g} : member'[h] = member[h] /\ group'[h] = group[h]
      /\ \A v \in Users \ {u} : member'[g][v] = member[g][v]
      /\ group'[g].by = "upstream"
  BY <1>1, <1>2
<1>4. ~policy[g].on
  BY <1>2 DEF IInv, GroupsEmpty, Exists
<1>5. Exists(g)' /\ \A h \in Groups : Exists(h) => Exists(h)'
  BY <1>3 DEF Exists
<1>6. \A v \in Users, s \in Scopes : Closer(v, s)
  BY <1>1, <1>2, DatedCloser
<1>7. acct[u] # "none"
  BY <1>2 DEF MembersOwned, Accounts
<1> QED
  BY <1>2, <1>3, <1>4, <1>5, <1>6, <1>7 DEF Moves

\* An upstream write under a required policy moves nobody.
LEMMA ReplaceMoves ==
    ASSUME IInv, NEW g \in Groups, NEW members, members \subseteq Users, ReplaceUpstreamGroup(g, members)
    PROVE  Moves(g)
<1>1. TypeOK /\ member \in [Groups -> [Users -> Membership]] /\ group \in [Groups -> GroupRows]
  BY DEF IInv, TypeOK
<1>2. /\ UNCHANGED <<acct, deleg, policy, session, grant>>
      /\ group[g].by = "upstream" /\ ReplaceAccepted(g, members)
      /\ group' = [group EXCEPT ![g].ver = edits + 1]
  BY DEF ReplaceUpstreamGroup
<1>3. /\ \A h \in Groups \ {g} : member'[h] = member[h] /\ group'[h] = group[h]
      /\ group'[g].by = "upstream"
      /\ \A u \in Users : member'[g][u] = IF u \notin members THEN "out"
                                          ELSE IF member[g][u] = "out" THEN "upstream" ELSE member[g][u]
  BY <1>1, <1>2 DEF ReplaceUpstreamGroup, GroupRows
<1>4. Exists(g)' /\ \A h \in Groups : Exists(h) => Exists(h)'
  BY <1>2, <1>3 DEF Exists
<1>5. ASSUME NEW u \in Users PROVE /\ member'[g][u] = "out" <=> u \notin members
                                   /\ u \in members => member[g][u] # "out" \/ acct[u] # "none"
                                   /\ policy[g].on => (u \in members <=> member[g][u] # "out")
  BY <1>2, <1>3, MemberSets DEF ReplaceAccepted, MembersOwned, Accounts
<1>6. ASSUME NEW u \in Users, NEW s \in Scopes PROVE Closer(u, s)
  <2>1. due'[u] = IF u \in members THEN Dated(policy, member', Privileged, u)[u] ELSE due[u]
    BY DEF ReplaceUpstreamGroup
  <2>2. policy \in [Scopes -> Policies \cup {Off}] /\ due \in [Users -> [Scopes -> Dates \cup {NoDate}]]
    BY <1>1 DEF TypeOK
  <2>3. due[u][s] # NoDate => due'[u][s] = due[u][s] /\ due[u][s] \in Nat
    <3>1. due[u][s] # NoDate => due[u][s] \in Nat
      BY <2>2, DatesNat
    <3>2. due[u][s] # NoDate => Dated(policy, member', Privileged, u)[u][s] = due[u][s]
      BY <1>1, <2>2, DatedType
    <3> QED
      BY <2>1, <3>1, <3>2
  <2> QED
    BY <2>3 DEF Closer
<1> QED
  BY <1>2, <1>3, <1>4, <1>5, <1>6 DEF Moves

\* What does not touch accounts, memberships or policies binds nobody differently.
LEMMA RestSteps ==
    ASSUME IInv,
           \/ \E g \in Groups : SaveGroup(g) \/ \E r \in Requests : GetUpstreamGroup(r, g)
           \/ \E u \in Users, m \in Methods : EnrolFactor(u, m) \/ RemoveFactor(u, m)
           \/ \E u \in Users : ResetUserMFA(u) \/ CreateSession(u) \/ IssueGrant(u) \/ Logout(u)
           \/ Tick \/ UNCHANGED vars
    PROVE  Rests
<1>0. /\ TypeOK /\ group \in [Groups -> GroupRows] /\ session \in [Users -> SessionRows]
      /\ grant \in [Users -> GrantRows] /\ due \in [Users -> [Scopes -> Dates \cup {NoDate}]]
  BY DEF IInv, TypeOK
<1>1. CASE UNCHANGED <<acct, deleg, member, policy, session, grant, due, group>>
  BY <1>0, <1>1, SameCloser DEF Rests, Exists
<1>2. ASSUME NEW g \in Groups, SaveGroup(g) PROVE Rests
  <2>1. /\ UNCHANGED <<acct, deleg, member, policy, session, grant, due>>
        /\ \A h \in Groups : group'[h].by = group[h].by \/ group'[h].by = "local"
    <3>1. CASE CreateGroup(g)
      BY <1>0, <3>1 DEF CreateGroup
    <3>2. CASE UpdateGroup(g)
      BY <1>0, <3>2 DEF UpdateGroup, GroupRows
    <3> QED
      BY <1>2, <3>1, <3>2 DEF SaveGroup
  <2> QED
    BY <1>0, <2>1, SameCloser DEF Rests, Exists
<1>3. ASSUME NEW u \in Users, EndAccess(u), UNCHANGED <<acct, deleg, member, policy, group>>,
             \A v \in Users, s \in Scopes : Closer(v, s)
      PROVE  Rests
  <2>1. \A v \in Users : /\ session'[v].live => session[v].live
                         /\ grant'[v].live => grant'[v] = grant[v]
    BY <1>0, <1>3, EndAccessType DEF NoSession, NoGrant
  <2> QED
    BY <1>3, <2>1 DEF Rests, Exists
<1>4. ASSUME NEW u \in Users, ResetUserMFA(u) PROVE Rests
  <2>1. due' = [due EXCEPT ![u] = [s \in Scopes |-> IF due[u][s] = NoDate THEN NoDate ELSE 0]]
    BY <1>0, <1>4 DEF ResetUserMFA
  <2>2. ASSUME NEW v \in Users, NEW s \in Scopes, due[v][s] # NoDate
        PROVE  due'[v][s] \in {0, due[v][s]} /\ due[v][s] \in Nat
    <3>1. due[v][s] \in Nat
      BY <1>0, <2>2, DatesNat
    <3> QED
      BY <1>0, <2>1, <2>2, <3>1
  <2>3. \A v \in Users, s \in Scopes : Closer(v, s)
    BY <2>2, EnrollmentAssumption DEF Closer
  <2> QED
    BY <1>3, <1>4, <2>3 DEF ResetUserMFA
<1>5. ASSUME NEW u \in Users, Logout(u) PROVE Rests
  BY <1>0, <1>3, <1>5, SameCloser DEF Logout
<1>6. ASSUME NEW u \in Users, CreateSession(u) PROVE Rests
  <2>1. /\ UNCHANGED <<acct, deleg, member, policy, grant, due, group>> /\ acct[u] # "none"
        /\ \A v \in Users \ {u} : session'[v] = session[v]
    BY <1>0, <1>6 DEF CreateSession
  <2> QED
    BY <1>0, <2>1, SameCloser DEF Rests, Exists
<1>7. ASSUME NEW u \in Users, IssueGrant(u) PROVE Rests
  <2>1. /\ UNCHANGED <<acct, deleg, member, policy, session, due, group>> /\ session[u].live
        /\ \A v \in Users \ {u} : grant'[v] = grant[v]
        /\ grant'[u].under = Bound(u) \ {"administrators"}
    BY <1>0, <1>7 DEF IssueGrant, Allowed, SessionAllowed
  <2> QED
    BY <1>0, <2>1, SameCloser DEF Rests, Exists
<1>8. ASSUME NEW u \in Users, NEW m \in Methods, EnrolFactor(u, m) \/ RemoveFactor(u, m) PROVE Rests
  BY <1>1, <1>8 DEF EnrolFactor, RemoveFactor
<1>9. ASSUME NEW g \in Groups, NEW r \in Requests, GetUpstreamGroup(r, g) PROVE Rests
  BY <1>1, <1>9 DEF GetUpstreamGroup
<1> QED
  BY <1>1, <1>2, <1>4, <1>5, <1>6, <1>7, <1>8, <1>9 DEF Tick, vars

-----------------------------------------------------------------------------
(* What a step leaves of the invariant, but for the versions upstream      *)
(* clients read.                                                            *)

Core ==
    /\ Administered /\ NothingLeft /\ GroupsEmpty
    /\ PolicySatisfiable /\ GrantsKeepTheirPolicies /\ DatesGiven

\* Whom fewer policies bind has a factor left.
LEMMA FewerPolicies ==
    ASSUME NEW P, NEW M, NEW A, NEW u, NEW Q, NEW N, NEW B, NEW v, Compatible(P, M, A, u),
           \A s \in Binding(Q, N, B, v) : s \in Binding(P, M, A, u) /\ Q[s] = P[s]
    PROVE  Compatible(Q, N, B, v)
<1>1. CASE Binding(Q, N, B, v) = {}
  BY <1>1 DEF Compatible
<1>2. CASE Binding(Q, N, B, v) # {}
  <2>1. PICK m \in Methods : \A s \in Binding(P, M, A, u) : m \in P[s].mask
    BY <1>2 DEF Compatible, AllowedMask
  <2>2. \A s \in Binding(Q, N, B, v) : m \in Q[s].mask
    BY <2>1
  <2> QED
    BY <2>2 DEF Compatible, AllowedMask
<1> QED
  BY <1>1, <1>2

\* A step that binds nobody differently.
LEMMA RestsCore ==
    ASSUME IInv, Rests
    PROVE  Core'
<1>1. UNCHANGED <<acct, deleg, member, policy>>
  BY DEF Rests
<1>2. Accounts' = Accounts /\ Privileged' = Privileged /\ \A u \in Users : Bound(u)' = Bound(u)
  BY <1>1 DEF Accounts, Privileged, Bound
<1>3. Administered'
  BY <1>1 DEF IInv, Administered
<1>4. NothingLeft'
  BY <1>1 DEF IInv, NothingLeft, Rests
<1>5. GroupsEmpty'
  BY <1>1 DEF IInv, GroupsEmpty, Rests
<1>6. PolicySatisfiable'
  BY <1>1, <1>2 DEF IInv, PolicySatisfiable
<1>7. GrantsKeepTheirPolicies'
  BY <1>2 DEF IInv, GrantsKeepTheirPolicies, Rests
<1>8. DatesGiven'
  <2>1. \A u \in Users : \A s \in Bound(u) : s \in Scopes
    BY DEF Bound, Binding
  <2> QED
    BY <1>2, <2>1 DEF IInv, DatesGiven, Rests, Closer, Accounts
<1> QED
  BY <1>3, <1>4, <1>5, <1>6, <1>7, <1>8 DEF Core

\* Accounts that join and leave a group.
LEMMA MovesCore ==
    ASSUME IInv, NEW g \in Groups, Moves(g)
    PROVE  Core'
<1>1. /\ UNCHANGED <<acct, deleg, policy, session>>
      /\ \A h \in Groups \ {g} : member'[h] = member[h]
  BY DEF Moves
<1>2. Accounts' = Accounts /\ Privileged' = Privileged
  BY <1>1 DEF Accounts, Privileged
<1>3. ASSUME NEW u \in Users, NEW s \in Scopes, s # g \/ (member'[g][u] = "out" <=> member[g][u] = "out")
      PROVE  s \in Bound(u)' <=> s \in Bound(u)
  BY <1>1, <1>2, <1>3, GroupScopes DEF Bound, Binding, Members
<1>4. ASSUME NEW u \in Users, ~policy[g].on \/ (member'[g][u] = "out" <=> member[g][u] = "out")
      PROVE  Bound(u)' = Bound(u)
  <2>1. g \in Bound(u)' <=> g \in Bound(u)
    BY <1>1, <1>3, <1>4, GroupScopes DEF Bound, Binding
  <2> QED
    BY <1>3, <2>1 DEF Bound, Binding
<1>5. Administered'
  BY <1>1 DEF IInv, Administered
<1>6. NothingLeft'
  <2>1. ASSUME NEW u \in Users, acct[u] = "none" PROVE \A h \in Groups : member'[h][u] = "out"
    BY <1>1, <2>1 DEF IInv, NothingLeft, Moves
  <2>2. ASSUME NEW u \in Users, acct[u] = "none" PROVE ~grant'[u].live
    BY <2>2 DEF IInv, NothingLeft, Moves
  <2> QED
    BY <1>1, <2>1, <2>2 DEF IInv, NothingLeft
<1>7. GroupsEmpty'
  <2>1. ASSUME NEW h \in Groups, ~Exists(h)' PROVE h # g /\ ~Exists(h)
    BY <2>1 DEF Moves
  <2> QED
    BY <1>1, <2>1 DEF IInv, GroupsEmpty
<1>8. PolicySatisfiable'
  <2>1. ASSUME NEW u \in Accounts PROVE Compatible(policy, member', Privileged, u)
    <3>0. u \in Users /\ Compatible(policy, member, Privileged, u)
      BY DEF IInv, PolicySatisfiable, Accounts
    <3>1. CASE policy[g].on /\ member[g][u] = "out" /\ member'[g][u] # "out"
      BY <3>0, <3>1 DEF Moves
    <3>2. CASE ~(policy[g].on /\ member[g][u] = "out" /\ member'[g][u] # "out")
      <4>1. ASSUME NEW s \in Binding(policy, member', Privileged, u) PROVE s \in Binding(policy, member, Privileged, u)
        BY <1>1, <3>0, <3>2, GroupScopes DEF Binding, Members
      <4> QED
        BY <3>0, <4>1, FewerPolicies
    <3> QED
      BY <3>1, <3>2
  <2> QED
    BY <1>1, <1>2, <2>1 DEF PolicySatisfiable
<1>9. GrantsKeepTheirPolicies'
  <2>1. ASSUME NEW u \in Users, grant'[u].live PROVE grant'[u].under = Bound(u)' \ {"administrators"}
    <3>1. grant'[u] = grant[u] /\ (~policy[g].on \/ (member'[g][u] = "out" <=> member[g][u] = "out"))
      BY <2>1 DEF Moves
    <3>2. Bound(u)' = Bound(u)
      BY <1>4, <3>1
    <3> QED
      BY <2>1, <3>1, <3>2 DEF IInv, GrantsKeepTheirPolicies
  <2> QED
    BY <2>1 DEF GrantsKeepTheirPolicies
<1>10. DatesGiven'
  <2>1. ASSUME NEW u \in Accounts, NEW s \in Bound(u)' PROVE due'[u][s] # NoDate
    <3>1. u \in Users /\ s \in Scopes /\ policy[s].on
      BY <1>1 DEF Accounts, Bound, Binding
    <3>2. CASE s \in Bound(u)
      BY <3>1, <3>2 DEF IInv, DatesGiven, Moves, Closer
    <3>3. CASE s \notin Bound(u)
      <4>1. s = g /\ ~(member'[g][u] = "out" <=> member[g][u] = "out")
        BY <1>3, <2>1, <3>1, <3>3
      <4>2. member'[g][u] # "out"
        BY <2>1, <4>1, GroupScopes DEF Bound, Binding, Members
      <4> QED
        BY <3>1, <4>1, <4>2 DEF Moves
    <3> QED
      BY <3>2, <3>3
  <2> QED
    BY <1>2, <2>1 DEF DatesGiven
<1> QED
  BY <1>5, <1>6, <1>7, <1>8, <1>9, <1>10 DEF Core

\* A policy edit: refused where somebody could not comply, and every grant ends.
LEMMA PolicyCore ==
    ASSUME IInv, NEW a \in Users, NEW s \in Scopes, NEW p \in Policies \cup {Off}, SetEnrollmentPolicy(a, s, p)
    PROVE  Core' /\ \A u \in Users, t \in Scopes : Closer(u, t)
<1> DEFINE P == [policy EXCEPT ![s] = p]
<1>0. /\ TypeOK /\ due \in [Users -> [Scopes -> Dates \cup {NoDate}]]
      /\ P \in [Scopes -> Policies \cup {Off}]
  BY DEF IInv, TypeOK
<1>1. /\ UNCHANGED <<acct, deleg, group, member, session>>
      /\ s \in Groups => Exists(s)
      /\ \A u \in Accounts : Compatible(P, member, Privileged, u)
      /\ policy' = P
      /\ due' = [u \in Users |-> [t \in Scopes |->
                   IF u \in Accounts /\ t \in Binding(P, member, Privileged, u)
                   THEN EarliestDeadline(due[u][t], now + P[t].grace) ELSE due[u][t]]]
      /\ InvalidateUserEnrollment(Users)
  BY DEF SetEnrollmentPolicy, ApplyEnrollmentPolicyTx, PolicyEditRevokes
<1>2. \A t \in Scopes \ {s} : P[t] = policy[t]
  BY DEF IInv, TypeOK
<1> HIDE DEF P
<1>3. Accounts' = Accounts /\ Privileged' = Privileged
  BY <1>1 DEF Accounts, Privileged
<1>4. \A u \in Users : ~grant'[u].live
  BY <1>0, <1>1, InvalidateType DEF NoGrant
<1>5. ASSUME NEW u \in Users, NEW t \in Scopes
      PROVE  /\ Closer(u, t)
             /\ u \in Accounts /\ t \in Binding(P, member, Privileged, u) => due'[u][t] # NoDate
  <2>1. due'[u][t] = IF u \in Accounts /\ t \in Binding(P, member, Privileged, u)
                     THEN EarliestDeadline(due[u][t], now + P[t].grace) ELSE due[u][t]
    BY <1>1
  <2>2. due[u][t] # NoDate => due[u][t] \in Nat
    BY <1>0, DatesNat
  <2>3. CASE u \in Accounts /\ t \in Binding(P, member, Privileged, u)
    <3>1. P[t].on
      BY <2>3 DEF Binding
    <3>2. now + P[t].grace \in Nat
      BY <1>0, <3>1, DateType, DatesNat
    <3> QED
      BY <2>1, <2>2, <2>3, <3>2, EnrollmentAssumption DEF EarliestDeadline, Closer
  <2>4. CASE ~(u \in Accounts /\ t \in Binding(P, member, Privileged, u))
    BY <2>1, <2>2, <2>4 DEF Closer
  <2> QED
    BY <2>3, <2>4
<1>6. Administered' /\ NothingLeft'
  BY <1>1, <1>4 DEF IInv, Administered, NothingLeft
<1>7. GroupsEmpty'
  BY <1>1, <1>2, GroupScopes DEF IInv, GroupsEmpty, Exists
<1>8. PolicySatisfiable'
  BY <1>1, <1>3 DEF PolicySatisfiable
<1>9. GrantsKeepTheirPolicies'
  BY <1>4 DEF GrantsKeepTheirPolicies
<1>10. DatesGiven'
  <2>1. ASSUME NEW u \in Accounts, NEW t \in Binding(P, member, Privileged, u) PROVE due'[u][t] # NoDate
    BY <1>5 DEF Accounts, Binding
  <2> QED
    BY <1>1, <1>3, <2>1 DEF DatesGiven, Bound
<1> QED
  BY <1>5, <1>6, <1>7, <1>8, <1>9, <1>10 DEF Core

\* deleteGroupTx takes the group's policy from everyone.
LEMMA DeleteGroupCore ==
    ASSUME IInv, NEW g \in Groups, DeleteGroupTx(g), UNCHANGED <<acct, deleg, session>>
    PROVE  /\ Core' /\ ~Exists(g)'
           /\ \A u \in Users, t \in Scopes \ {g} : Closer(u, t)
<1>0. /\ TypeOK /\ due \in [Users -> [Scopes -> Dates \cup {NoDate}]]
      /\ group \in [Groups -> GroupRows] /\ member \in [Groups -> [Users -> Membership]]
      /\ policy \in [Scopes -> Policies \cup {Off}] /\ g \in Scopes
  BY GroupScopes DEF IInv, TypeOK
<1>1. /\ \A h \in Groups \ {g} : group'[h] = group[h] /\ member'[h] = member[h]
      /\ group'[g].by = "gone" /\ \A u \in Users : member'[g][u] = "out"
  BY <1>0 DEF DeleteGroupTx, GroupRows
<1>2. /\ \A t \in Scopes \ {g} : policy'[t] = policy[t]
      /\ ~policy'[g].on
  BY <1>0 DEF DeleteGroupTx, Off
<1>3. \A u \in Users, t \in Scopes \ {g} : due'[u][t] = due[u][t]
  BY <1>0 DEF DeleteGroupTx
<1>4. Accounts' = Accounts /\ Privileged' = Privileged
  BY DEF Accounts, Privileged
<1>5. ASSUME NEW u \in Users PROVE Bound(u)' = Bound(u) \ {g}
  <2>1. ASSUME NEW t \in Scopes PROVE t \in Bound(u)' <=> t \in Bound(u) /\ t # g
    BY <1>1, <1>2, <1>4, GroupScopes DEF Bound, Binding, Members
  <2> QED
    BY <2>1 DEF Bound, Binding
<1>6. ASSUME NEW u \in Users
      PROVE  /\ grant'[u].live => grant'[u] = grant[u]
             /\ grant'[u].live => g \notin Bound(u)
  <2>1. CASE policy[g].on
    <3>1. grant'[u] = IF u \in Members(member, g) THEN NoGrant ELSE grant[u]
      BY <1>0, <2>1, InvalidateType DEF DeleteGroupTx
    <3> QED
      BY <3>1, GroupScopes DEF NoGrant, Bound, Binding
  <2>2. CASE ~policy[g].on
    BY <2>2 DEF DeleteGroupTx, Bound, Binding
  <2> QED
    BY <2>1, <2>2
<1>7. ASSUME NEW u \in Users, NEW t \in Scopes \ {g} PROVE Closer(u, t)
  <2>1. due[u][t] # NoDate => due[u][t] \in Nat
    BY <1>0, DatesNat
  <2> QED
    BY <1>3, <2>1 DEF Closer
<1>8. Administered' /\ NothingLeft'
  BY <1>1, <1>6 DEF IInv, Administered, NothingLeft
<1>9. GroupsEmpty' /\ ~Exists(g)'
  BY <1>1, <1>2, GroupScopes DEF IInv, GroupsEmpty, Exists
<1>10. PolicySatisfiable'
  <2>1. ASSUME NEW u \in Accounts PROVE Compatible(policy', member', Privileged, u)
    <3>1. u \in Users /\ Compatible(policy, member, Privileged, u)
      BY DEF IInv, PolicySatisfiable, Accounts
    <3>2. ASSUME NEW t \in Binding(policy', member', Privileged, u)
          PROVE  t \in Binding(policy, member, Privileged, u) /\ policy'[t] = policy[t]
      BY <1>2, <1>4, <1>5, <3>1 DEF Bound, Binding
    <3> QED
      BY <3>1, <3>2, FewerPolicies
  <2> QED
    BY <1>4, <2>1 DEF PolicySatisfiable
<1>11. GrantsKeepTheirPolicies'
  BY <1>5, <1>6 DEF IInv, GrantsKeepTheirPolicies
<1>12. DatesGiven'
  <2>1. ASSUME NEW u \in Accounts, NEW t \in Bound(u)' PROVE due'[u][t] # NoDate
    <3>1. u \in Users /\ t \in Bound(u) /\ t \in Scopes \ {g}
      BY <1>5 DEF Accounts, Bound, Binding
    <3> QED
      BY <1>3, <3>1 DEF IInv, DatesGiven
  <2> QED
    BY <1>4, <2>1 DEF DatesGiven
<1> QED
  BY <1>7, <1>8, <1>9, <1>10, <1>11, <1>12 DEF Core

\* Only the account u, its role, its delegation and its memberships change, it can comply
\* with what binds it then, and a grant it keeps is bound as before but for its role.
Changes(u) ==
    /\ policy' = policy /\ group' = group
    /\ \A v \in Users \ {u} :
          /\ acct'[v] = acct[v] /\ (v \in deleg' <=> v \in deleg)
          /\ session'[v] = session[v] /\ grant'[v] = grant[v] /\ due'[v] = due[v]
          /\ \A g \in Groups : member'[g][v] = member[g][v]
    /\ \A g \in Groups : member'[g][u] \in {member[g][u], "out"}
    /\ Administered'
    /\ acct'[u] = "none" => /\ u \notin deleg' /\ ~session'[u].live /\ ~grant'[u].live
                            /\ \A g \in Groups : member'[g][u] = "out"
    /\ acct'[u] # "none" => /\ Compatible(policy', member', Privileged', u)
                            /\ \A s \in Bound(u)' : due'[u][s] # NoDate
                            /\ \A s \in Scopes : Closer(u, s)
    /\ grant'[u].live => grant'[u] = grant[u] /\ \A g \in Groups : member'[g][u] = member[g][u]

\* A change to one account.
LEMMA ChangesCore ==
    ASSUME IInv, NEW u \in Users, Changes(u)
    PROVE  Core' /\ \A v \in Users, s \in Scopes : acct'[v] # "none" => Closer(v, s)
<1>0. TypeOK /\ due \in [Users -> [Scopes -> Dates \cup {NoDate}]]
  BY DEF IInv, TypeOK
<1>1. ASSUME NEW v \in Users \ {u}
      PROVE  Bound(v)' = Bound(v) /\ (v \in Accounts' <=> v \in Accounts) /\ (v \in Privileged' <=> v \in Privileged)
  <2>1. (v \in Accounts' <=> v \in Accounts) /\ (v \in Privileged' <=> v \in Privileged)
    BY DEF Changes, Accounts, Privileged
  <2>2. ASSUME NEW s \in Scopes PROVE s \in Bound(v)' <=> s \in Bound(v)
    BY <2>1, GroupScopes DEF Changes, Bound, Binding, Members
  <2> QED
    BY <2>1, <2>2 DEF Bound, Binding
<1>2. ASSUME grant'[u].live PROVE Bound(u)' \ {"administrators"} = Bound(u) \ {"administrators"}
  <2>1. ASSUME NEW s \in Scopes, s # "administrators" PROVE s \in Bound(u)' <=> s \in Bound(u)
    BY <1>2, <2>1 DEF Changes, Bound, Binding, Members
  <2> QED
    BY <2>1 DEF Bound, Binding
<1>3. Administered' /\ NothingLeft'
  BY DEF IInv, NothingLeft, Changes
<1>4. GroupsEmpty'
  <2>1. ASSUME NEW g \in Groups, ~Exists(g)' PROVE ~policy'[g].on /\ \A v \in Users : member'[g][v] = "out"
    <3>1. ~policy'[g].on /\ \A v \in Users : member[g][v] = "out"
      BY <2>1 DEF IInv, GroupsEmpty, Changes, Exists
    <3> QED
      BY <3>1 DEF Changes
  <2> QED
    BY <2>1 DEF GroupsEmpty
<1>5. PolicySatisfiable'
  <2>1. ASSUME NEW v \in Users, v \in Accounts' PROVE Compatible(policy', member', Privileged', v)
    <3>1. CASE v = u
      BY <2>1, <3>1 DEF Changes, Accounts
    <3>2. CASE v # u
      <4>1. Compatible(policy, member, Privileged, v)
        BY <1>1, <2>1, <3>2 DEF IInv, PolicySatisfiable
      <4>2. ASSUME NEW s \in Binding(policy', member', Privileged', v)
            PROVE  s \in Binding(policy, member, Privileged, v) /\ policy'[s] = policy[s]
        BY <1>1, <3>2 DEF Bound, Changes
      <4> QED
        BY <4>1, <4>2, FewerPolicies
    <3> QED
      BY <3>1, <3>2
  <2> QED
    BY <2>1 DEF PolicySatisfiable, Accounts
<1>6. GrantsKeepTheirPolicies'
  <2>1. ASSUME NEW v \in Users, grant'[v].live PROVE grant'[v].under = Bound(v)' \ {"administrators"}
    <3>1. grant'[v] = grant[v]
      BY <2>1 DEF Changes
    <3>2. Bound(v)' \ {"administrators"} = Bound(v) \ {"administrators"}
      BY <1>1, <1>2, <2>1
    <3> QED
      BY <2>1, <3>1, <3>2 DEF IInv, GrantsKeepTheirPolicies
  <2> QED
    BY <2>1 DEF GrantsKeepTheirPolicies
<1>7. DatesGiven'
  <2>1. ASSUME NEW v \in Users, v \in Accounts', NEW s \in Bound(v)' PROVE due'[v][s] # NoDate
    <3>1. CASE v = u
      BY <2>1, <3>1 DEF Changes, Accounts
    <3>2. CASE v # u
      BY <1>1, <2>1, <3>2 DEF IInv, DatesGiven, Changes
    <3> QED
      BY <3>1, <3>2
  <2> QED
    BY <2>1 DEF DatesGiven, Accounts
<1>8. ASSUME NEW v \in Users, NEW s \in Scopes, acct'[v] # "none" PROVE Closer(v, s)
  <2>1. due[v][s] # NoDate => due[v][s] \in Nat
    BY <1>0, DatesNat
  <2> QED
    BY <1>8, <2>1 DEF Changes, Closer
<1> QED
  BY <1>3, <1>4, <1>5, <1>6, <1>7, <1>8 DEF Core

\* A new account is in no group, and an administrator shows that the rest can be met.
LEMMA CreateUserChanges ==
    ASSUME IInv, NEW u \in Users, NEW role \in {"user", "admin"}, CreateUser(u, role)
    PROVE  Changes(u)
<1> DEFINE A == IF role = "admin" THEN {u} ELSE {}
<1>0. /\ TypeOK /\ acct \in [Users -> {"none", "user", "admin"}]
      /\ due \in [Users -> [Scopes -> Dates \cup {NoDate}]] /\ policy \in [Scopes -> Policies \cup {Off}]
  BY DEF IInv, TypeOK
<1>1. /\ UNCHANGED <<deleg, group, member, policy, session, grant>>
      /\ acct[u] = "none" /\ acct'[u] = role /\ \A v \in Users \ {u} : acct'[v] = acct[v]
      /\ due' = Dated(policy, member, A, u)
  BY <1>0 DEF CreateUser
<1>2. u \notin deleg /\ ~grant[u].live /\ \A g \in Groups : member[g][u] = "out"
  BY <1>1 DEF IInv, NothingLeft
<1>3. PICK a \in Users : acct[a] = "admin"
  BY DEF IInv, Administered
<1>4. u \in Privileged' <=> u \in A
  BY <1>1, <1>2 DEF Privileged, Accounts
<1> HIDE DEF A
<1>5. Binding(policy', member', Privileged', u) = Binding(policy, member, A, u)
  BY <1>1, <1>4 DEF Binding
<1>6. Compatible(policy', member', Privileged', u)
  <2>1. Compatible(policy, member, Privileged, a) /\ a \in Privileged
    BY <1>3 DEF IInv, PolicySatisfiable, Privileged, Accounts
  <2>2. ASSUME NEW s \in Binding(policy', member', Privileged', u)
        PROVE  s \in Binding(policy, member, Privileged, a) /\ policy'[s] = policy[s]
    BY <1>1, <1>2, <2>1 DEF Binding, Members
  <2> QED
    BY <2>1, <2>2, FewerPolicies
<1>7. (\A v \in Users, s \in Scopes : Closer(v, s)) /\ \A s \in Bound(u)' : due'[u][s] # NoDate
  BY <1>0, <1>1, <1>5, DatedCloser DEF Bound
<1>8. \A v \in Users \ {u} : due'[v] = due[v]
  BY <1>0, <1>1, DatedType
<1>9. Administered'
  BY <1>1, <1>3 DEF Administered
<1> QED
  BY <1>1, <1>2, <1>6, <1>7, <1>8, <1>9 DEF Changes

\* The triggers on roles compare the new role with the policies.
LEMMA SetRoleChanges ==
    ASSUME IInv, NEW u \in Users, NEW role \in {"user", "admin"}, SetRole(u, role)
    PROVE  Changes(u)
<1> DEFINE A == IF role = "admin" THEN Privileged \cup {u}
                ELSE IF u \in deleg THEN Privileged ELSE Privileged \ {u}
<1>0. /\ TypeOK /\ acct \in [Users -> {"none", "user", "admin"}]
      /\ due \in [Users -> [Scopes -> Dates \cup {NoDate}]] /\ policy \in [Scopes -> Policies \cup {Off}]
  BY DEF IInv, TypeOK
<1>1. /\ UNCHANGED <<deleg, group, member, policy>>
      /\ acct[u] # "none" /\ acct'[u] = role /\ \A v \in Users \ {u} : acct'[v] = acct[v]
      /\ acct[u] = "admin" => OtherAdministrator(u)
      /\ due' = Dated(policy, member, A, u) /\ Compatible(policy, member, A, u)
  BY <1>0 DEF SetRole, RoleCompatible
<1>2. u \in Privileged' <=> u \in A
  BY <1>1 DEF Privileged, Accounts
<1> HIDE DEF A
<1>3. Binding(policy', member', Privileged', u) = Binding(policy, member, A, u)
  BY <1>1, <1>2 DEF Binding
<1>4. Compatible(policy', member', Privileged', u)
  BY <1>1, <1>3 DEF Compatible
<1>5. (\A v \in Users, s \in Scopes : Closer(v, s)) /\ \A s \in Bound(u)' : due'[u][s] # NoDate
  BY <1>0, <1>1, <1>3, DatedCloser DEF Bound
<1>6. \A v \in Users \ {u} : due'[v] = due[v]
  BY <1>0, <1>1, DatedType
<1>7. Administered'
  BY <1>1 DEF IInv, Administered, OtherAdministrator
<1>8. /\ \A v \in Users \ {u} : session'[v] = session[v] /\ grant'[v] = grant[v]
      /\ grant'[u].live => grant'[u] = grant[u]
  BY <1>0, EndAccessType DEF SetRole, NoGrant
<1> QED
  BY <1>1, <1>4, <1>5, <1>6, <1>7, <1>8 DEF Changes

\* A delegation is compared with the policies, and ends the grants of the account.
LEMMA SetDelegationsChanges ==
    ASSUME IInv, NEW u \in Users, NEW on \in BOOLEAN, SetDelegations(u, on)
    PROVE  Changes(u)
<1>0. /\ TypeOK /\ due \in [Users -> [Scopes -> Dates \cup {NoDate}]]
      /\ policy \in [Scopes -> Policies \cup {Off}] /\ "administrators" \in Scopes
  BY DEF IInv, TypeOK, Scopes
<1>1. /\ UNCHANGED <<acct, group, member, policy, session>> /\ acct[u] # "none"
      /\ on => Compatible(policy, member, Privileged \cup {u}, u)
      /\ deleg' = IF on THEN deleg \cup {u} ELSE deleg \ {u}
      /\ InvalidateUserEnrollment({u})
  BY DEF SetDelegations, RoleCompatible
<1>2. \A v \in Users : grant'[v] = IF v = u THEN NoGrant ELSE grant[v]
  BY <1>0, <1>1, InvalidateType
<1>3. Administered'
  BY <1>1 DEF IInv, Administered
<1>4. CASE on
  <2> DEFINE B == Privileged \cup {u}
             D == Dated(policy, member, B, u)
  <2>1. due' = [due EXCEPT ![u]["administrators"] = D[u]["administrators"]]
    BY <1>4 DEF SetDelegations
  <2>2. u \in Privileged' <=> u \in B
    BY <1>1, <1>4 DEF Privileged, Accounts
  <2>3. /\ D \in [Users -> [Scopes -> Dates \cup {NoDate}]]
        /\ \A s \in Scopes : D[u][s] = IF s \in Binding(policy, member, B, u) /\ due[u][s] = NoDate
                                       THEN now + policy[s].grace ELSE due[u][s]
    BY <1>0, DatedType
  <2>4. Compatible(policy, member, B, u)
    BY <1>1, <1>4
  <2>5. \A s \in Binding(policy, member, B, u) : s # "administrators" => s \in Bound(u)
    BY DEF Bound, Binding
  <2> HIDE DEF B, D
  <2>6. Binding(policy', member', Privileged', u) = Binding(policy, member, B, u)
    BY <1>1, <2>2 DEF Binding
  <2>7. Compatible(policy', member', Privileged', u)
    BY <1>1, <2>4, <2>6 DEF Compatible
  <2>8. /\ \A v \in Users \ {u} : due'[v] = due[v]
        /\ \A s \in Scopes : due'[u][s] = IF s = "administrators" THEN D[u][s] ELSE due[u][s]
    BY <1>0, <2>1
  <2>9. ASSUME NEW s \in Scopes PROVE Closer(u, s)
    <3>1. due[u][s] # NoDate => due[u][s] \in Nat
      BY <1>0, DatesNat
    <3> QED
      BY <2>3, <2>8, <3>1 DEF Closer
  <2>10. ASSUME NEW s \in Binding(policy, member, B, u) PROVE due'[u][s] # NoDate
    <3>1. s \in Scopes /\ policy[s].on
      BY DEF Binding
    <3>2. now + policy[s].grace # NoDate
      BY <1>0, <3>1, DateType, DatesNat, EnrollmentAssumption
    <3>3. s # "administrators" => due[u][s] # NoDate
      BY <1>1, <2>5 DEF IInv, DatesGiven, Accounts
    <3> QED
      BY <2>3, <2>8, <3>1, <3>2, <3>3
  <2>11. \A s \in Bound(u)' : due'[u][s] # NoDate
    BY <2>6, <2>10 DEF Bound
  <2> QED
    BY <1>1, <1>2, <1>3, <1>4, <2>7, <2>8, <2>9, <2>11 DEF Changes, NoGrant
<1>5. CASE ~on
  <2>1. due' = due
    BY <1>5 DEF SetDelegations
  <2>2. u \in Privileged' => u \in Privileged
    BY <1>1, <1>5 DEF Privileged, Accounts
  <2>3. ASSUME NEW s \in Binding(policy', member', Privileged', u)
        PROVE  s \in Binding(policy, member, Privileged, u) /\ policy'[s] = policy[s]
    BY <1>1, <2>2 DEF Binding
  <2>4. Compatible(policy, member, Privileged, u)
    BY <1>1 DEF IInv, PolicySatisfiable, Accounts
  <2>5. Compatible(policy', member', Privileged', u)
    BY <2>3, <2>4, FewerPolicies
  <2>6. \A s \in Bound(u)' : due'[u][s] # NoDate
    BY <1>1, <2>1, <2>3 DEF Bound, IInv, DatesGiven, Accounts
  <2>7. \A s \in Scopes : Closer(u, s)
    BY <1>0, <2>1, SameCloser
  <2> QED
    BY <1>1, <1>2, <1>3, <1>5, <2>1, <2>5, <2>6, <2>7 DEF Changes, NoGrant
<1> QED
  BY <1>4, <1>5

\* A deleted account leaves nothing, and another administrator.
LEMMA DeleteUserChanges ==
    ASSUME IInv, NEW u \in Users, DeleteUser(u)
    PROVE  Changes(u)
<1>0. /\ TypeOK /\ acct \in [Users -> {"none", "user", "admin"}]
      /\ due \in [Users -> [Scopes -> Dates \cup {NoDate}]]
      /\ member \in [Groups -> [Users -> Membership]]
  BY DEF IInv, TypeOK
<1>1. /\ policy' = policy /\ group' = group /\ deleg' = deleg \ {u}
      /\ acct'[u] = "none" /\ \A v \in Users \ {u} : acct'[v] = acct[v]
      /\ \A v \in Users \ {u} : due'[v] = due[v]
  BY <1>0 DEF DeleteUser
<1>2. \A g \in Groups : member'[g][u] = "out" /\ \A v \in Users \ {u} : member'[g][v] = member[g][v]
  BY <1>0 DEF DeleteUser
<1>3. Administered'
  BY <1>1 DEF DeleteUser, OtherAdministrator, Administered
<1>4. /\ \A v \in Users \ {u} : session'[v] = session[v] /\ grant'[v] = grant[v]
      /\ ~session'[u].live /\ ~grant'[u].live
  BY <1>0, EndAccessType DEF DeleteUser, NoSession, NoGrant
<1> QED
  BY <1>1, <1>2, <1>3, <1>4 DEF Changes

\* Every step is of one of these kinds.
LEMMA StepKinds ==
    ASSUME IInv, [Next]_vars
    PROVE  \/ Rests
           \/ \E g \in Groups : Moves(g)
           \/ AdminSetEnrollmentPolicy
           \/ \E g \in Groups : DeleteGroupTx(g) /\ UNCHANGED <<acct, deleg, session>>
           \/ \E u \in Users : Changes(u)
<1>1. ASSUME NEW a \in Users, NEW g \in Groups, NEW u \in Users, SetGroupMembership(a, g, u) PROVE Moves(g)
  BY <1>1, SetMoves
<1>2. ASSUME NEW g \in Groups, NEW u \in Users, ExpireMembership(g, u) \/ SCIMCreateGroup(g, u) PROVE Moves(g)
  BY <1>2, ExpireMoves, CreateMoves
<1>3. ASSUME NEW g \in Groups, \/ \E a \in Users : DeleteGroup(a, g)
                               \/ \E r \in Requests, cond \in BOOLEAN : SCIMDeleteGroup(r, g, cond)
      PROVE  DeleteGroupTx(g) /\ UNCHANGED <<acct, deleg, session>>
  BY <1>3 DEF DeleteGroup, SCIMDeleteGroup, DeleteUpstreamGroup
<1>4. ASSUME NEW r \in Requests, NEW g \in Groups, NEW op \in {"add", "drop"}, NEW u \in Users, NEW cond \in BOOLEAN,
             ReplaceGroup(r, g, op, u, cond) \/ PatchGroup(r, g, op, u, cond)
      PROVE  Moves(g)
  <2>1. read[r].seen \subseteq Users /\ Members(member, g) \subseteq Users
    <3>1. read[r] \in ReadRows
      BY DEF IInv, TypeOK
    <3> QED
      BY <3>1 DEF ReadRows, Members
  <2>2. PICK members : members \subseteq Users /\ ReplaceUpstreamGroup(g, members)
    BY <1>4, <2>1 DEF ReplaceGroup, PatchGroup, PatchBase, Changed
  <2> QED
    BY <2>2, ReplaceMoves
<1>5. ASSUME NEW u \in Users, NEW role \in {"user", "admin"}, CreateUser(u, role) \/ SetRole(u, role)
      PROVE  Changes(u)
  BY <1>5, CreateUserChanges, SetRoleChanges
<1>6. ASSUME NEW u \in Users, \E on \in BOOLEAN : SetDelegations(u, on) PROVE Changes(u)
  BY <1>6, SetDelegationsChanges
<1>7. ASSUME NEW u \in Users, DeleteUser(u) PROVE Changes(u)
  BY <1>7, DeleteUserChanges
<1>8. CASE \/ \E g \in Groups : SaveGroup(g) \/ \E r \in Requests : GetUpstreamGroup(r, g)
           \/ \E u \in Users, m \in Methods : EnrolFactor(u, m) \/ RemoveFactor(u, m)
           \/ \E u \in Users : ResetUserMFA(u) \/ CreateSession(u) \/ IssueGrant(u) \/ Logout(u)
           \/ Tick \/ UNCHANGED vars
  BY <1>8, RestSteps
<1> QED
  BY <1>1, <1>2, <1>3, <1>4, <1>5, <1>6, <1>7, <1>8 DEF Next

\* The versions: a group that changes takes a number nobody has read.
Versions ==
    /\ edits' \in {edits, edits + 1}
    /\ read' = read
    /\ \A g \in Groups :
          /\ group[g].by # "new" => group'[g].by # "new"
          /\ \/ /\ group'[g].ver = group[g].ver
                /\ \A u \in Users : member'[g][u] = "upstream" => member[g][u] = "upstream"
             \/ group'[g].ver = edits + 1 /\ edits' = edits + 1

\* Such a step leaves what clients read in order.
LEMMA VersionsFit ==
    ASSUME IInv, Versions
    PROVE  ReadsFit'
<1>0. /\ \A g \in Groups : group[g].ver \in Nat
      /\ \A r \in Requests : read[r].ver \in Nat
      /\ edits \in Nat /\ edits' \in Nat
  BY DEF Versions, IInv, TypeOK, GroupRows, ReadRows
<1>1. ASSUME NEW g \in Groups PROVE group'[g].ver <= edits'
  <2>1. group[g].ver <= edits /\ (group'[g].ver = group[g].ver \/ (group'[g].ver = edits + 1 /\ edits' = edits + 1))
    BY DEF Versions, IInv, ReadsFit
  <2> QED
    BY <1>0, <2>1 DEF Versions
<1>2. ASSUME NEW r \in Requests PROVE read'[r].ver <= edits'
  <2>1. read[r].ver <= edits /\ read' = read
    BY DEF Versions, IInv, ReadsFit
  <2> QED
    BY <1>0, <2>1 DEF Versions
<1>3. ASSUME NEW r \in Requests, NEW g \in Groups, read'[r].g = g
      PROVE  /\ group'[g].by # "new"
             /\ group'[g].ver = read'[r].ver =>
                   \A u \in Users : member'[g][u] = "upstream" => u \in read'[r].seen
  <2>1. read' = read /\ group'[g].by # "new"
    BY <1>3 DEF Versions, IInv, ReadsFit
  <2>2. CASE group'[g].ver = edits + 1
    <3>1. read[r].ver <= edits
      BY DEF Versions, IInv, ReadsFit
    <3> QED
      BY <1>0, <2>1, <2>2, <3>1
  <2>3. CASE group'[g].ver # edits + 1
    BY <1>3, <2>1, <2>3 DEF Versions, IInv, ReadsFit
  <2> QED
    BY <2>1, <2>2, <2>3
<1> QED
  BY <1>1, <1>2, <1>3 DEF ReadsFit

\* Every write to an upstream group takes a new version; a read takes the current one.
LEMMA ReadsKept ==
    ASSUME IInv, [Next]_vars
    PROVE  ReadsFit'
<1>0. /\ group \in [Groups -> GroupRows] /\ member \in [Groups -> [Users -> Membership]]
      /\ read \in [Requests -> ReadRows] /\ edits \in Nat
  BY DEF IInv, TypeOK
<1>1. CASE UNCHANGED <<group, member, read>> /\ (Edit \/ edits' = edits)
  BY <1>0, <1>1, VersionsFit DEF Versions, Edit
<1>2. ASSUME NEW g \in Groups, SaveGroup(g) PROVE ReadsFit'
  <2>1. /\ read' = read /\ member' = member /\ edits' = edits + 1
        /\ group'[g].ver = edits + 1 /\ \A h \in Groups \ {g} : group'[h] = group[h]
        /\ group'[g].by # "new"
    <3>1. CASE CreateGroup(g)
      BY <1>0, <3>1 DEF CreateGroup, Edit
    <3>2. CASE UpdateGroup(g)
      BY <1>0, <3>2 DEF UpdateGroup, Edit, GroupRows, Exists
    <3> QED
      BY <1>2, <3>1, <3>2 DEF SaveGroup
  <2> QED
    BY <1>0, <2>1, VersionsFit DEF Versions
<1>3. ASSUME NEW a \in Users, NEW g \in Groups, NEW u \in Users,
             SetGroupMembership(a, g, u) \/ ExpireMembership(g, u)
      PROVE  ReadsFit'
  <2>1. PICK to \in {"out", "local", "until"} : member' = [member EXCEPT ![g][u] = to]
    BY <1>3 DEF SetGroupMembership, SetGroupMembershipTx, ApplyGroupMembershipTx, ExpireMembership
  <2>2. \A h \in Groups, v \in Users : member'[h][v] = "upstream" => member[h][v] = "upstream"
    BY <1>0, <2>1
  <2>3. group' = group /\ read' = read /\ (edits' = edits + 1 \/ edits' = edits)
    BY <1>3 DEF SetGroupMembership, SetGroupMembershipTx, ExpireMembership, Edit
  <2> QED
    BY <1>0, <2>2, <2>3, VersionsFit DEF Versions
<1>4. ASSUME NEW g \in Groups, NEW u \in Users, SCIMCreateGroup(g, u) PROVE ReadsFit'
  <2>1. /\ read' = read /\ edits' = edits + 1
        /\ group'[g] = [by |-> "upstream", ver |-> edits + 1]
        /\ \A h \in Groups \ {g} : group'[h] = group[h] /\ member'[h] = member[h]
    BY <1>0, <1>4 DEF SCIMCreateGroup, CreateUpstreamGroup, Edit
  <2> QED
    BY <1>0, <2>1, VersionsFit DEF Versions
<1>5. ASSUME NEW g \in Groups, DeleteGroupTx(g), read' = read, Edit PROVE ReadsFit'
  <2>1. /\ group'[g].by = "gone" /\ group'[g].ver = group[g].ver
        /\ \A h \in Groups \ {g} : group'[h] = group[h]
        /\ \A h \in Groups, v \in Users : member'[h][v] = "upstream" => member[h][v] = "upstream"
        /\ edits' = edits + 1
    BY <1>0, <1>5 DEF DeleteGroupTx, Edit, GroupRows
  <2> QED
    BY <1>0, <1>5, <2>1, VersionsFit DEF Versions
<1>6. ASSUME NEW g \in Groups, NEW members, ReplaceUpstreamGroup(g, members) PROVE ReadsFit'
  <2>1. /\ read' = read /\ edits' = edits + 1
        /\ group'[g].by = group[g].by /\ group'[g].ver = edits + 1
        /\ \A h \in Groups \ {g} : group'[h] = group[h] /\ member'[h] = member[h]
    BY <1>0, <1>6 DEF ReplaceUpstreamGroup, Edit, GroupRows
  <2> QED
    BY <1>0, <2>1, VersionsFit DEF Versions
<1>7. ASSUME NEW u \in Users, DeleteUser(u) PROVE ReadsFit'
  <2>1. /\ group' = group /\ read' = read /\ edits' = edits + 1
        /\ \A h \in Groups, v \in Users : member'[h][v] = "upstream" => member[h][v] = "upstream"
    BY <1>0, <1>7 DEF DeleteUser, Edit
  <2> QED
    BY <1>0, <2>1, VersionsFit DEF Versions
<1>8. ASSUME NEW r \in Requests, NEW g \in Groups, GetUpstreamGroup(r, g) PROVE ReadsFit'
  <2>1. /\ UNCHANGED <<group, member, edits>> /\ group[g].by = "upstream"
        /\ read'[r] = [g |-> g, ver |-> group[g].ver, seen |-> Members(member, g)]
        /\ \A q \in Requests \ {r} : read'[q] = read[q]
    BY <1>0, <1>8 DEF GetUpstreamGroup
  <2>2. \A u \in Users : member[g][u] = "upstream" => u \in Members(member, g)
    BY MemberSets
  <2> QED
    BY <2>1, <2>2 DEF IInv, ReadsFit
<1>9. ASSUME NEW u \in Users, NEW role \in {"user", "admin"}, CreateUser(u, role) \/ SetRole(u, role) PROVE ReadsFit'
  BY <1>1, <1>9 DEF CreateUser, SetRole
<1>10. ASSUME NEW u \in Users,
              \/ \E on \in BOOLEAN : SetDelegations(u, on)
              \/ \E m \in Methods : EnrolFactor(u, m) \/ RemoveFactor(u, m)
              \/ ResetUserMFA(u) \/ CreateSession(u) \/ IssueGrant(u) \/ Logout(u)
       PROVE  ReadsFit'
  BY <1>1, <1>10 DEF SetDelegations, EnrolFactor, RemoveFactor, ResetUserMFA, CreateSession, IssueGrant, Logout, Self
<1>11. CASE AdminSetEnrollmentPolicy \/ Tick \/ UNCHANGED vars
  BY <1>1, <1>11 DEF AdminSetEnrollmentPolicy, SetEnrollmentPolicy, Tick, vars
<1>12. ASSUME NEW g \in Groups, \/ \E a \in Users : DeleteGroup(a, g)
                                \/ \E r \in Requests, cond \in BOOLEAN : SCIMDeleteGroup(r, g, cond)
       PROVE  ReadsFit'
  BY <1>5, <1>12 DEF DeleteGroup, SCIMDeleteGroup, DeleteUpstreamGroup
<1>13. ASSUME NEW r \in Requests, NEW g \in Groups, NEW op \in {"add", "drop"}, NEW u \in Users, NEW cond \in BOOLEAN,
              ReplaceGroup(r, g, op, u, cond) \/ PatchGroup(r, g, op, u, cond)
       PROVE  ReadsFit'
  BY <1>6, <1>13 DEF ReplaceGroup, PatchGroup
<1>14. ASSUME NEW g \in Groups, NEW u \in Users, ExpireMembership(g, u) PROVE ReadsFit'
  BY <1>3, <1>14
<1> QED
  BY <1>2, <1>3, <1>4, <1>7, <1>8, <1>9, <1>10, <1>11, <1>12, <1>13, <1>14 DEF Next

-----------------------------------------------------------------------------
(* Theorems.                                                                *)

\* The invariant is inductive.
LEMMA NextInv == IInv /\ [Next]_vars => IInv'
<1> SUFFICES ASSUME IInv, [Next]_vars PROVE IInv'
  OBVIOUS
<1>1. TypeOK' /\ ReadsFit'
  BY NextType, ReadsKept DEF IInv
<1>2. ASSUME AdminSetEnrollmentPolicy PROVE Core'
  BY <1>2, PolicyCore DEF AdminSetEnrollmentPolicy
<1>3. Core'
  BY <1>2, StepKinds, RestsCore, MovesCore, DeleteGroupCore, ChangesCore
<1> QED
  BY <1>1, <1>3 DEF IInv, Core

\* It holds where nobody is bound yet.
LEMMA InitInv == Init => IInv
<1> SUFFICES ASSUME Init PROVE IInv
  OBVIOUS
<1>1. TypeOK
  BY InitType
<1>2. PICK root \in Users : acct = [u \in Users |-> IF u = root THEN "admin" ELSE "user"]
  BY DEF Init
<1>3. Administered /\ NothingLeft
  BY <1>2 DEF Administered, NothingLeft
<1>4. \A s \in Scopes : ~policy[s].on
  BY DEF Init, Off
<1>5. \A u \in Users : Bound(u) = {}
  BY <1>4 DEF Bound, Binding
<1>6. GroupsEmpty
  <2>1. ASSUME NEW g \in Groups, ~Exists(g), NEW u \in Users PROVE member[g][u] = "out"
    BY <2>1 DEF Init, Exists
  <2> QED
    BY <1>4, <2>1, GroupScopes DEF GroupsEmpty
<1>7. PolicySatisfiable /\ DatesGiven
  BY <1>5 DEF PolicySatisfiable, DatesGiven, Compatible, Bound, Accounts
<1>8. GrantsKeepTheirPolicies
  BY DEF Init, NoGrant, GrantsKeepTheirPolicies
<1>9. ReadsFit
  <2>1. \A g \in Groups : group[g].ver = 0
    BY DEF Init
  <2>2. \A r \in Requests : read[r] = NoRead
    BY DEF Init
  <2>3. edits = 0
    BY DEF Init
  <2> QED
    BY <2>1, <2>2, <2>3, EnrollmentAssumption DEF ReadsFit, NoRead
<1> QED
  BY <1>1, <1>3, <1>6, <1>7, <1>8, <1>9 DEF IInv

\* Every reachable state satisfies it.
LEMMA Invariance == Spec => []IInv
  BY InitInv, NextInv, PTL DEF Spec

\* However policies, roles, delegations and memberships are combined (applyEnrollmentPolicyTx,
\* applyGroupMembershipTx and the triggers), every account has a factor that all its policies
\* permit. The new account that nothing looks at is bound by no more than an administrator is.
THEOREM NobodyIsAskedTheImpossible == Spec => []PolicySatisfiable
  BY Invariance, PTL DEF IInv

\* A live code or token was issued under the organization and group policies that bind its
\* account now (invalidateUserEnrollmentTx): every way into or out of a group with a required
\* policy, and every edit of a policy, ends the grants it touches.
THEOREM GrantsAreOfTheirPolicies == Spec => []GrantsKeepTheirPolicies
  BY Invariance, PTL DEF IInv

-----------------------------------------------------------------------------
(* What a step may not do.                                                  *)

\* An administrator who may activate a set of rules has full access under them, and under
\* any that bind the account less.
LEMMA ActivatorStaysIn ==
    ASSUME NEW P, NEW M, NEW A, NEW a \in Users, CanActivate(a, P, M, A),
           acct' = acct, session' = session, factor' = factor,
           \A s \in Bound(a)' : s \in Binding(P, M, A, a) /\ policy'[s] = P[s]
    PROVE  acct'[a] = "admin" /\ Allowed(a)'
<1>1. acct'[a] = "admin" /\ session'[a].live /\ ~session'[a].only
  BY DEF CanActivate
<1>2. CASE Binding(P, M, A, a) = {}
  <2>1. Bound(a)' = {}
    BY <1>2
  <2> QED
    BY <1>1, <2>1 DEF Allowed, SessionAllowed
<1>3. CASE session[a].method \in factor[a] \cap AllowedMask(P, Binding(P, M, A, a))
  <2>1. session'[a].method \in AllowedMask(policy', Bound(a)')
    BY <1>3 DEF AllowedMask
  <2>2. session'[a].method \in factor'[a]
    BY <1>3
  <2> QED
    BY <1>1, <2>1, <2>2 DEF Allowed, SessionAllowed
<1> QED
  BY <1>1, <1>2, <1>3 DEF CanActivate

\* Only the change that an administrator makes, and can live with, binds anybody new; an
\* upstream has no session to show and changes nothing under a required policy.
LEMMA EmergencyStep ==
    ASSUME IInv, [Next]_vars
    PROVE  \/ policy' = policy /\ \A g \in Groups : policy[g].on => Members(member', g) = Members(member, g)
           \/ \E g \in Groups, u \in Users : ExpireMembership(g, u)
           \/ \E u \in Users : DeleteUser(u)
           \/ \E a \in Users : acct'[a] = "admin" /\ Allowed(a)'
<1> DEFINE Still == policy' = policy /\ \A g \in Groups : policy[g].on => Members(member', g) = Members(member, g)
           WayIn == \E a \in Users : acct'[a] = "admin" /\ Allowed(a)'
<1>0. /\ TypeOK /\ member \in [Groups -> [Users -> Membership]] /\ policy \in [Scopes -> Policies \cup {Off}]
  BY DEF IInv, TypeOK
<1>1. policy' = policy /\ member' = member => Still
  OBVIOUS
<1>2. ASSUME NEW a \in Users, NEW s \in Scopes, NEW p \in Policies \cup {Off}, SetEnrollmentPolicy(a, s, p)
      PROVE  WayIn
  <2> DEFINE P == [policy EXCEPT ![s] = p]
  <2>1. /\ CanActivate(a, P, member, Privileged) /\ policy' = P
        /\ UNCHANGED <<acct, deleg, member, session, factor>>
    BY <1>2 DEF SetEnrollmentPolicy, ApplyEnrollmentPolicyTx
  <2> HIDE DEF P
  <2>2. Bound(a)' = Binding(P, member, Privileged, a)
    BY <2>1 DEF Bound, Privileged, Accounts
  <2> QED
    BY <2>1, <2>2, ActivatorStaysIn
<1>3. ASSUME NEW a \in Users, NEW g \in Groups, NEW u \in Users, SetGroupMembership(a, g, u)
      PROVE  Still \/ WayIn
  <2>1. PICK to \in {"out", "local", "until"} : SetGroupMembershipTx(a, g, u, to)
    BY <1>3 DEF SetGroupMembership
  <2>2. /\ UNCHANGED <<acct, deleg, policy, session, factor>> /\ member' = [member EXCEPT ![g][u] = to]
        /\ policy[g].on => CanActivate(a, policy, member', Privileged)
    BY <2>1 DEF SetGroupMembershipTx, ApplyGroupMembershipTx, MembershipAccepted
  <2>3. CASE policy[g].on
    <3>1. Bound(a)' = Binding(policy, member', Privileged, a)
      BY <2>2 DEF Bound, Privileged, Accounts
    <3> QED
      BY <2>2, <2>3, <3>1, ActivatorStaysIn
  <2>4. CASE ~policy[g].on
    <3>1. \A h \in Groups \ {g} : member'[h] = member[h]
      BY <1>0, <2>2
    <3> QED
      BY <2>2, <2>4, <3>1 DEF Members
  <2> QED
    BY <2>3, <2>4
<1>4. ASSUME NEW g \in Groups, NEW u \in Users, SCIMCreateGroup(g, u) PROVE Still
  <2>1. /\ policy' = policy /\ ~policy[g].on
        /\ \A h \in Groups \ {g} : member'[h] = member[h]
    BY <1>0, <1>4 DEF SCIMCreateGroup, CreateUpstreamGroup, IInv, GroupsEmpty, Exists
  <2> QED
    BY <2>1 DEF Members
<1>5. ASSUME NEW g \in Groups, DeleteGroupTx(g), ~policy[g].on PROVE Still
  <2>1. /\ policy' = [policy EXCEPT ![g] = Off] /\ policy[g] = Off
        /\ \A h \in Groups \ {g} : member'[h] = member[h]
    BY <1>0, <1>5, GroupScopes DEF DeleteGroupTx, Policies
  <2>2. policy' = policy
    BY <1>0, <2>1
  <2> QED
    BY <1>5, <2>1, <2>2 DEF Members
<1>6. ASSUME NEW a \in Users, NEW g \in Groups, DeleteGroup(a, g) PROVE Still \/ WayIn
  <2>1. DeleteGroupTx(g) /\ UNCHANGED <<acct, deleg, session, factor>>
    BY <1>6 DEF DeleteGroup
  <2>2. CASE policy[g].on
    <3>1. CanActivate(a, policy, member, Privileged)
      BY <1>6, <2>2 DEF DeleteGroup
    <3>2. /\ \A h \in Groups \ {g} : member'[h] = member[h]
          /\ \A t \in Scopes \ {g} : policy'[t] = policy[t]
          /\ ~policy'[g].on
      BY <1>0, <2>1, GroupScopes DEF DeleteGroupTx, Off
    <3>3. Privileged' = Privileged
      BY <2>1 DEF Privileged, Accounts
    <3>4. ASSUME NEW t \in Bound(a)' PROVE t \in Binding(policy, member, Privileged, a) /\ policy'[t] = policy[t]
      BY <3>2, <3>3, GroupScopes DEF Bound, Binding, Members
    <3> QED
      BY <2>1, <3>1, <3>4, ActivatorStaysIn
  <2>3. CASE ~policy[g].on
    BY <1>5, <2>1, <2>3
  <2> QED
    BY <2>2, <2>3
<1>7. ASSUME NEW r \in Requests, NEW g \in Groups, NEW op \in {"add", "drop"}, NEW u \in Users, NEW cond \in BOOLEAN,
             ReplaceGroup(r, g, op, u, cond) \/ PatchGroup(r, g, op, u, cond)
      PROVE  Still
  <2>1. PICK members : ReplaceUpstreamGroup(g, members)
    BY <1>7 DEF ReplaceGroup, PatchGroup
  <2>2. /\ policy' = policy /\ (policy[g].on => members = Members(member, g))
        /\ \A h \in Groups \ {g} : member'[h] = member[h]
        /\ \A v \in Users : member'[g][v] = "out" <=> v \notin members
    <3>1. \A v \in Users : member'[g][v] = IF v \notin members THEN "out"
                                           ELSE IF member[g][v] = "out" THEN "upstream" ELSE member[g][v]
      BY <1>0, <2>1 DEF ReplaceUpstreamGroup
    <3> QED
      BY <1>0, <2>1, <3>1 DEF ReplaceUpstreamGroup, ReplaceAccepted
  <2>3. policy[g].on => Members(member', g) = Members(member, g)
    BY <2>2 DEF Members
  <2> QED
    BY <2>2, <2>3 DEF Members
<1>8. ASSUME NEW r \in Requests, NEW g \in Groups, NEW cond \in BOOLEAN, SCIMDeleteGroup(r, g, cond) PROVE Still
  BY <1>5, <1>8 DEF SCIMDeleteGroup, DeleteUpstreamGroup
<1>9. ASSUME NEW u \in Users, \/ \E role \in {"user", "admin"} : CreateUser(u, role) \/ SetRole(u, role)
                              \/ \E on \in BOOLEAN : SetDelegations(u, on)
                              \/ \E m \in Methods : EnrolFactor(u, m) \/ RemoveFactor(u, m)
                              \/ ResetUserMFA(u) \/ CreateSession(u) \/ IssueGrant(u) \/ Logout(u)
      PROVE  Still
  BY <1>1, <1>9 DEF CreateUser, SetRole, SetDelegations, EnrolFactor, RemoveFactor, ResetUserMFA, CreateSession,
     IssueGrant, Logout
<1>10. ASSUME NEW g \in Groups, SaveGroup(g) \/ \E r \in Requests : GetUpstreamGroup(r, g)
       PROVE  Still
  BY <1>1, <1>10 DEF SaveGroup, CreateGroup, UpdateGroup, GetUpstreamGroup
<1>11. Tick \/ UNCHANGED vars => Still
  BY <1>1 DEF Tick, vars
<1>12. Still \/ WayIn \/ (\E g \in Groups, u \in Users : ExpireMembership(g, u)) \/ \E u \in Users : DeleteUser(u)
  <2> HIDE DEF Still, WayIn
  <2>1. CASE AdminSetEnrollmentPolicy
    BY <1>2, <2>1 DEF AdminSetEnrollmentPolicy
  <2> QED
    BY <2>1, <1>3, <1>4, <1>6, <1>7, <1>8, <1>9, <1>10, <1>11 DEF Next
<1> QED
  BY <1>12

\* SetEnrollmentPolicy, applyGroupMembershipTx and DeleteGroup leave an administrator with full
\* access under the rules they put in force, for every set of policies and memberships.
THEOREM ChangesLeaveAWayIn == Spec => EmergencyAdministrator
<1>1. IInv /\ [Next]_vars =>
        [\/ policy' = policy /\ \A g \in Groups : policy[g].on => Members(member', g) = Members(member, g)
         \/ \E g \in Groups, u \in Users : ExpireMembership(g, u)
         \/ \E u \in Users : DeleteUser(u)
         \/ \E a \in Users : acct'[a] = "admin" /\ Allowed(a)']_vars
  BY EmergencyStep
<1> QED
  BY <1>1, Invariance, PTL DEF Spec, EmergencyAdministrator

\* A deadline is taken away with its group or its account only.
LEMMA GraceStep ==
    ASSUME IInv, [Next]_vars, NEW u \in Users, NEW s \in Scopes
    PROVE  /\ u \in Accounts' /\ s \in Bound(u)' => due'[u][s] # NoDate
           /\ due[u][s] # NoDate /\ u \in Accounts' /\ (s \in Groups => Exists(s)')
                => due'[u][s] # NoDate /\ due'[u][s] <= due[u][s]
<1>1. u \in Accounts' /\ s \in Bound(u)' => due'[u][s] # NoDate
  BY NextInv DEF IInv, DatesGiven
<1>2. CASE Rests \/ \E g \in Groups : Moves(g)
  BY <1>1, <1>2 DEF Rests, Moves, Closer
<1>3. CASE AdminSetEnrollmentPolicy
  <2>1. Closer(u, s)
    BY <1>3, PolicyCore DEF AdminSetEnrollmentPolicy
  <2> QED
    BY <1>1, <2>1 DEF Closer
<1>4. ASSUME NEW g \in Groups, DeleteGroupTx(g), UNCHANGED <<acct, deleg, session>>
      PROVE  (s = g /\ ~Exists(s)') \/ Closer(u, s)
  BY <1>4, DeleteGroupCore
<1>5. ASSUME NEW v \in Users, Changes(v) PROVE u \in Accounts' => Closer(u, s)
  BY <1>5, ChangesCore DEF Accounts
<1> QED
  BY <1>1, <1>2, <1>3, <1>4, <1>5, StepKinds DEF Closer

\* Every policy that binds an account has dated it, and the date only comes closer while both
\* last: MIN on an edit, INSERT OR IGNORE in the triggers, and deadlines that go only with
\* their group or account. Leaving and joining, or a new role, gives no second grace.
THEOREM NoSecondGrace == Spec => GraceOnce
<1>1. IInv /\ [Next]_vars =>
        [\A u \in Users, s \in Scopes :
           /\ u \in Accounts' /\ s \in Bound(u)' => due'[u][s] # NoDate
           /\ due[u][s] # NoDate /\ u \in Accounts' /\ (s \in Groups => Exists(s)')
                => due'[u][s] # NoDate /\ due'[u][s] <= due[u][s]]_vars
  BY GraceStep
<1> QED
  BY <1>1, Invariance, PTL DEF Spec, GraceOnce

\* The members after an upstream write are the ones it names.
LEMMA MembersWritten ==
    ASSUME IInv, NEW g \in Groups, NEW members, members \subseteq Users, ReplaceUpstreamGroup(g, members)
    PROVE  /\ Members(member', g) = members
           /\ policy[g].on => members = Members(member, g)
<1>1. \A v \in Users : member'[g][v] = IF v \notin members THEN "out"
                                       ELSE IF member[g][v] = "out" THEN "upstream" ELSE member[g][v]
  BY DEF ReplaceUpstreamGroup, IInv, TypeOK
<1> QED
  BY <1>1 DEF Members, ReplaceUpstreamGroup, ReplaceAccepted

\* A PATCH works on the members of the moment, and If-Match on those of its version.
LEMMA UpstreamStep ==
    ASSUME IInv, NEW g \in Groups, NEW r \in Requests, NEW op \in {"add", "drop"}, NEW w \in Users, NEW cond \in BOOLEAN
    PROVE  /\ PatchGroup(r, g, op, w, cond) =>
                /\ Members(member, g) \ Members(member', g) \subseteq {w}
                /\ policy[g].on => Members(member', g) = Members(member, g)
           /\ ReplaceGroup(r, g, op, w, TRUE) =>
                {u \in Members(member, g) \ Members(member', g) : member[g][u] = "upstream"} \subseteq {w}
<1>0. read[r].seen \subseteq Users /\ Members(member, g) \subseteq Users
  <2>1. read[r] \in ReadRows
    BY DEF IInv, TypeOK
  <2> QED
    BY <2>1 DEF ReadRows, Members
<1>1. ASSUME PatchGroup(r, g, op, w, cond)
      PROVE  /\ Members(member, g) \ Members(member', g) \subseteq {w}
             /\ policy[g].on => Members(member', g) = Members(member, g)
  <2> DEFINE members == Changed(Members(member, g), op, w)
  <2>1. ReplaceUpstreamGroup(g, members)
    BY <1>1 DEF PatchGroup, PatchBase
  <2>2. members \subseteq Users /\ Members(member, g) \ members \subseteq {w}
    BY <1>0 DEF Changed
  <2> HIDE DEF members
  <2> QED
    BY <2>1, <2>2, MembersWritten
<1>2. ASSUME ReplaceGroup(r, g, op, w, TRUE)
      PROVE  {u \in Members(member, g) \ Members(member', g) : member[g][u] = "upstream"} \subseteq {w}
  <2> DEFINE members == Changed(read[r].seen, op, w)
  <2>1. ReplaceUpstreamGroup(g, members) /\ read[r].g = g /\ group[g].ver = read[r].ver
    BY <1>2 DEF ReplaceGroup, IfMatch
  <2>2. members \subseteq Users /\ read[r].seen \ members \subseteq {w}
    BY <1>0 DEF Changed
  <2>3. \A u \in Users : member[g][u] = "upstream" => u \in read[r].seen
    BY <2>1 DEF IInv, ReadsFit
  <2> HIDE DEF members
  <2> QED
    BY <1>0, <2>1, <2>2, <2>3, MembersWritten
<1> QED
  BY <1>1, <1>2

\* An upstream write to one member, as a PATCH or with If-Match (ReplaceUpstreamGroup under
\* groupIfMatch), takes out nobody else that the upstream put there, whoever wrote between
\* the client's read and its write.
THEOREM UpstreamWritesOneMember == Spec => UpstreamEditKeepsOthers
<1>1. IInv /\ [Next]_vars =>
        [\A g \in Groups : group'[g].ver # group[g].ver =>
           LET before == Members(member, g)
               after == Members(member', g)
           IN  \A r \in Requests, op \in {"add", "drop"}, w \in Users, cond \in BOOLEAN :
                 /\ PatchGroup(r, g, op, w, cond) => before \ after \subseteq {w} /\ (policy[g].on => after = before)
                 /\ ReplaceGroup(r, g, op, w, TRUE) => {u \in before \ after : member[g][u] = "upstream"} \subseteq {w}]_vars
  BY UpstreamStep
<1> QED
  BY <1>1, Invariance, PTL DEF Spec, UpstreamEditKeepsOthers
=============================================================================
