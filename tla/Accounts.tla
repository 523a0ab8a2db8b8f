------------------------------ MODULE Accounts ------------------------------
(***************************************************************************)
(* Accounts and the parties that write them: administrators and the CLI    *)
(* (api/admin_handlers.go, store.updateUser, cmd/disable_user.go), the     *)
(* upstream directories that own some of them (store/scim_inbound.go,      *)
(* api/scim_inbound_handlers.go), the expiry follow-up, the owners of      *)
(* activation and reset links (store/onboarding.go) and the delegates who  *)
(* may issue such links (store/delegations.go, api/permissions.go).        *)
(*                                                                         *)
(* Every store transaction is one step.  Two requests read before their    *)
(* transaction: one for a link (the permission gate and the address) and   *)
(* one of an upstream (its Bearer token); each is open between the two.    *)
(***************************************************************************)
EXTENDS Naturals, FiniteSets

CONSTANTS
    Users, Connectors, Emails,
    Links,          \* bound: links that can be redeemed at once
    LinkRequests,   \* requests for a link that may be open at once
    Calls,          \* upstream requests that may be open at once
    NoUser, NoConnector, NoEmail,
    MaxChanges      \* bound: changes of accounts and connectors

ASSUME AccountsAssumption ==
    /\ NoUser \notin Users /\ NoConnector \notin Connectors /\ NoEmail \notin Emails
    /\ MaxChanges \in Nat

VARIABLES
    user,     \* users, with the delegation rows of each
    conn,     \* scim_connectors, and whether a live token of each may write
    link,     \* account_tokens that can still be redeemed
    ask,      \* requests for a link past their gate
    call,     \* upstream requests past Authenticate
    changes,
    moved,    \* history: redeemable links whose account changed privilege, address or password since
    barred    \* history: accounts shut out and not let back in by anyone entitled to

vars == <<user, conn, link, ask, call, changes, moved, barred>>
-----------------------------------------------------------------------------
Kinds == {"activation", "reset"}

\* src: source_connector_id.  end: ends_at, unset, ahead or passed.  deleg: the rows of
\* admin_delegations, where an auditor and an app owner differ in nothing here.
UserFields ==
    [there : BOOLEAN, role : {"user", "admin"}, active : BOOLEAN, pending : BOOLEAN,
     email : Emails \cup {NoEmail}, verified : BOOLEAN, end : {"none", "ahead", "passed"},
     deleg : {"none", "helpdesk", "other"},
     src : Connectors \cup {NoConnector}, srcActive : BOOLEAN, local : BOOLEAN]
\* ApplySourceState, and a pending account is not active.
SourceState(r) ==
    /\ r.pending => ~r.active
    /\ r.src # NoConnector => r.active = (r.srcActive /\ ~r.local /\ ~r.pending)
UserRows == {r \in UserFields : SourceState(r)}
NoRow ==
    [there |-> FALSE, role |-> "user", active |-> FALSE, pending |-> FALSE, email |-> NoEmail,
     verified |-> FALSE, end |-> "none", deleg |-> "none", src |-> NoConnector,
     srcActive |-> TRUE, local |-> FALSE]

\* user: whom the link is for; NoUser once it is used or expired.  sent: whether it was mailed,
\* and not handed over.
LinkRows == [user : Users \cup {NoUser}, kind : Kinds, sent : BOOLEAN]
NoLink == [user |-> NoUser, kind |-> "reset", sent |-> FALSE]


\* The types of the variables; a row's status agrees with its source, its local override and
\* its pending activation, whichever writer came last.
TypeOK ==
    /\ user \in [Users -> UserRows]
    /\ conn \in [Connectors -> [st : {"none", "active", "disabled", "gone"}, token : BOOLEAN]]
    /\ link \in [Links -> LinkRows]
    /\ ask \in [LinkRequests -> LinkRows]
    /\ call \in [Calls -> Connectors \cup {NoConnector}]
    /\ changes \in 0..MaxChanges
    /\ moved \subseteq Links
    /\ barred \subseteq Users

Bootstrap(e) == [NoRow EXCEPT !.there = TRUE, !.role = "admin", !.active = TRUE, !.email = e]

Init ==
    /\ \E u \in Users, e \in Emails :
          user = [v \in Users |-> IF v = u THEN Bootstrap(e) ELSE NoRow]
    /\ conn = [c \in Connectors |-> [st |-> "none", token |-> FALSE]]
    /\ link = [l \in Links |-> NoLink]
    /\ ask = [q \in LinkRequests |-> NoLink]
    /\ call = [k \in Calls |-> NoConnector]
    /\ changes = 0
    /\ moved = {}
    /\ barred = {}
-----------------------------------------------------------------------------
(* What the transactions share. *)

Admin(u) == user[u].there /\ user[u].role = "admin" /\ user[u].active
Permanent(u) == Admin(u) /\ user[u].end = "none"
ActiveAdmin(u) == Admin(u) /\ user[u].end # "passed"
Privileged(r) == r.role = "admin" \/ r.deleg # "none"

\* requirePermanentAdminTx with id<>?
RequirePermanentAdmin(u) == \E v \in Users \ {u} : Permanent(v)

\* ApplySourceState: an upstream's account follows the upstream, the override and its activation.
ApplySourceState(r) ==
    IF r.src = NoConnector THEN r
    ELSE [r EXCEPT !.active = r.srcActive /\ ~r.local /\ ~r.pending]

LinksOf(u) == {l \in Links : link[l].user = u}

\* expireAccountTokensTx
ExpireAccountTokens(S) == [l \in Links |-> IF l \in S THEN NoLink ELSE link[l]]

\* History: the links of an account whose password is set, whose address changes, or that
\* becomes privileged.
Moves(u, passwordSet) ==
    moved' = {l \in Links : /\ link'[l] # NoLink
                            /\ \/ l \in moved
                               \/ /\ link[l].user = u
                                  /\ \/ passwordSet
                                     \/ user'[u].email # user[u].email
                                     \/ Privileged(user'[u]) /\ ~Privileged(user[u])}

\* History: a link that ended is not redeemable any more.
Ends == moved' = {l \in moved : link'[l] # NoLink}

Change == changes < MaxChanges /\ changes' = changes + 1

\* The address is free: the unique indexes on users, and rejectCrossIdentityTx.
Free(e, u) == \A v \in Users \ {u} : user[v].email # e
-----------------------------------------------------------------------------
(* updateUser: the one account-update transaction.                          *)
(* n is the row as the caller's edit leaves it; schedule says that the edit *)
(* names a new end date, revoke that it must revoke the account's access.   *)

\* Mutant of KeepsAdministrator: scheduling an end is not treated as a removal.
KeepsAdministratorIgnoringEnd(u, n, schedule) ==
    (Admin(u) /\ (n.role # "admin" \/ ~n.active)) => RequirePermanentAdmin(u)

KeepsAdministrator(u, n, schedule) ==
    (Admin(u) /\ (n.role # "admin" \/ ~n.active \/ schedule)) => RequirePermanentAdmin(u)

\* Mutant of LosesLinks: an address change leaves the links mailed to the old address.
KeepsLinksOnReaddress(r, n) ==
    \/ r.role # "admin" /\ n.role = "admin"
    \/ r.active /\ ~n.active

\* The edits after which no earlier link may act: promotion, a new address, offboarding.
LosesLinks(r, n) ==
    \/ r.role # "admin" /\ n.role = "admin"
    \/ r.email # n.email
    \/ r.active /\ ~n.active

UpdateUserTx(u, edited, schedule, revoke) ==
    LET r == user[u]
        n == ApplySourceState(edited)
        readdressed == r.email # n.email
    IN  /\ r.there
        /\ schedule => n.end = "ahead"
        /\ KeepsAdministrator(u, n, schedule)
        /\ readdressed => Free(n.email, u)
        /\ user' = [user EXCEPT ![u] = [n EXCEPT !.verified = n.verified /\ ~readdressed]]
        /\ link' = ExpireAccountTokens(IF revoke \/ LosesLinks(r, n) THEN LinksOf(u) ELSE {})

\* UpdateUser: the request names what it changes.  A source-owned account keeps its address
\* and turns a status into the local override; setting a password activates a pending one.
EditUser(u, role, status, email, passwordSet, end) ==
    LET r == user[u]
        owned == r.src # NoConnector
        s == [r EXCEPT !.role = role,
                       !.email = email,
                       !.end = CASE end = "keep" -> r.end [] end = "clear" -> "none" [] end = "set" -> "ahead",
                       !.active = IF status = "keep" THEN r.active ELSE status = "active",
                       !.local = IF owned /\ status # "keep" THEN status = "disabled" ELSE r.local]
        e == [ApplySourceState(s) EXCEPT !.pending = r.pending /\ ~passwordSet]
        revoke == passwordSet \/ (r.active /\ ~e.active) \/ (r.role = "admin" /\ role # "admin")
    IN  /\ owned => email = r.email
        /\ ~(e.pending /\ e.active)
        /\ UpdateUserTx(u, e, end = "set", revoke)
        /\ Moves(u, passwordSet)
        /\ barred' = IF status = "active" THEN barred \ {u}
                     ELSE IF (r.active /\ ~user'[u].active) \/ (owned /\ status = "disabled") THEN barred \cup {u}
                     ELSE barred

UpdateUser(u) ==
    /\ Change
    /\ user[u].there
    /\ \E role \in {"user", "admin"}, status \in {"keep", "active", "disabled"},
          email \in {user[u].email} \cup Emails, passwordSet \in BOOLEAN, end \in {"keep", "clear", "set"} :
          EditUser(u, role, status, email, passwordSet, end)
    /\ UNCHANGED <<conn, ask, call>>

\* An id is free when no row and no open request has it: the code never uses one twice.
Unused(u) == ~user[u].there /\ \A q \in LinkRequests : ask[q].user # u

\* CreateUserWithSyncEvents
InsertUser(u, row) ==
    /\ Unused(u)
    /\ Free(row.email, u)
    /\ user' = [user EXCEPT ![u] = row]
    /\ UNCHANGED <<link, moved, barred>>

\* CreateUser: without a password the account is invited, pending and disabled.
CreateUser(u) ==
    /\ Change
    /\ \E role \in {"user", "admin"}, active \in BOOLEAN, invited \in BOOLEAN, e \in Emails :
          InsertUser(u, [NoRow EXCEPT !.there = TRUE, !.role = role, !.email = e,
                                      !.pending = invited, !.active = active /\ ~invited])
    /\ UNCHANGED <<conn, ask, call>>

\* DeleteUserWithSyncEvents: the links go with the row.
DeleteUserRow(u) ==
    /\ user[u].there
    /\ Admin(u) => RequirePermanentAdmin(u)
    /\ user' = [user EXCEPT ![u] = NoRow]
    /\ link' = ExpireAccountTokens(LinksOf(u))
    /\ Ends
    /\ barred' = barred \ {u}

\* DeleteUser
DeleteUser(u) ==
    /\ Change
    /\ DeleteUserRow(u)
    /\ UNCHANGED <<conn, ask, call>>

LiveLink(u) == LinksOf(u) # {}

\* DisableUserByName: g is the guard, another permanent administrator.
DisableUserByName(u, g) ==
    LET r == user[u]
    IN  /\ r.there /\ u # g
        /\ ~r.active /\ (r.src = NoConnector \/ r.local) => LiveLink(u)
        /\ Permanent(g)
        /\ UpdateUserTx(u, [r EXCEPT !.active = FALSE, !.local = r.local \/ r.src # NoConnector], FALSE, TRUE)
        /\ Moves(u, FALSE)
        /\ barred' = barred \cup {u}

\* runDisableUser, from the CLI
RunDisableUser(u) ==
    /\ Change
    /\ \E g \in Users : DisableUserByName(u, g)
    /\ UNCHANGED <<conn, ask, call>>
-----------------------------------------------------------------------------
(* End dates. *)

EndPasses(u) ==
    /\ user[u].there /\ user[u].end = "ahead"
    /\ user' = [user EXCEPT ![u].end = "passed"]
    /\ UNCHANGED <<conn, link, ask, call, changes, moved, barred>>

\* The accounts part of RunDueExpiries, one transaction an account: the last administrator
\* is kept and loses the date.
EndAccount(u) ==
    LET r == user[u]
        last == r.role = "admin" /\ ~\E v \in Users \ {u} : ActiveAdmin(v)
    IN  /\ r.there /\ r.active /\ r.end = "passed"
        /\ user' = [user EXCEPT ![u] = IF last THEN [r EXCEPT !.end = "none"]
                                       ELSE [r EXCEPT !.active = FALSE, !.local = TRUE]]
        /\ link' = IF last THEN link ELSE ExpireAccountTokens(LinksOf(u))
        /\ barred' = IF last THEN barred ELSE barred \cup {u}
        /\ Ends
        /\ UNCHANGED <<conn, ask, call, changes>>
-----------------------------------------------------------------------------
(* Delegations. *)

\* store.SetDelegations: whoever holds one may not be reached by an earlier link.
SetDelegationRows(u, d) ==
    /\ user[u].there
    /\ user' = [user EXCEPT ![u].deleg = d]
    /\ link' = ExpireAccountTokens(IF d # "none" THEN LinksOf(u) ELSE {})
    /\ Moves(u, FALSE)

\* AdminHandler.SetDelegations
SetDelegations(u) ==
    /\ Change
    /\ \E d \in {"none", "helpdesk", "other"} : SetDelegationRows(u, d)
    /\ UNCHANGED <<conn, ask, call, barred>>

\* Access.allows and Server.require with permRecovery: an administrator may act on anyone, a helpdesk
\* delegate on an ordinary account only.
MayRecover(by, u) ==
    \/ Admin(by)
    \/ /\ user[by].there /\ user[by].active /\ user[by].deleg = "helpdesk"
       /\ ~Privileged(user[u])
-----------------------------------------------------------------------------
(* Activation and reset links. *)

\* AdminIssueLink up to IssueAccountToken: the gate, and the account as read.
AdminIssueLink(q, by, u, kind, send) ==
    /\ ask[q] = NoLink
    /\ user[u].there
    /\ MayRecover(by, u)
    /\ ask' = [ask EXCEPT ![q] = [user |-> u, kind |-> kind, sent |-> send]]
    /\ UNCHANGED <<user, conn, link, call, changes, moved, barred>>

\* Forgot: only a proven address may receive a reset.
Forgot(q, u) ==
    /\ ask[q] = NoLink
    /\ user[u].there /\ user[u].active /\ ~user[u].pending /\ user[u].verified
    /\ ask' = [ask EXCEPT ![q] = [user |-> u, kind |-> "reset", sent |-> TRUE]]
    /\ UNCHANGED <<user, conn, link, call, changes, moved, barred>>

Eligible(u, kind) ==
    /\ user[u].there
    /\ IF kind = "activation"
       THEN user[u].pending /\ (user[u].src = NoConnector \/ (user[u].srcActive /\ ~user[u].local))
       ELSE user[u].active /\ ~user[u].pending

\* IssueAccountToken, then the mail: the account must be eligible, and a new link retires
\* the earlier one of its kind.
IssueAccountToken(q) ==
    LET a == ask[q]
    IN  /\ a # NoLink
        /\ IF Eligible(a.user, a.kind)
           THEN \E l \in Links :
                   LET kept == ExpireAccountTokens({m \in LinksOf(a.user) : link[m].kind = a.kind})
                   IN  /\ kept[l] = NoLink
                       /\ link' = [kept EXCEPT ![l] = a]
                       /\ moved' = {m \in moved : kept[m] # NoLink}
                       /\ barred' = IF a.kind = "activation" THEN barred \ {a.user} ELSE barred
           ELSE UNCHANGED <<link, moved, barred>>
        /\ ask' = [ask EXCEPT ![q] = NoLink]
        /\ UNCHANGED <<user, conn, call, changes>>

LinkLapses(l) ==
    /\ link[l] # NoLink
    /\ link' = [link EXCEPT ![l] = NoLink]
    /\ moved' = moved \ {l}
    /\ UNCHANGED <<user, conn, ask, call, changes, barred>>

\* The status an activation leaves.
ActivatedStatus(r) == r.src = NoConnector \/ (r.srcActive /\ ~r.local)

\* RedeemAccountToken: the link is spent, the password set, and every other link ends.
RedeemAccountToken(l, kind) ==
    LET k == link[l]
        r == user[k.user]
    IN  /\ k # NoLink /\ k.kind = kind
        /\ r.there
        /\ IF kind = "activation" THEN r.pending ELSE r.active /\ ~r.pending
        /\ user' = [user EXCEPT ![k.user] =
                      [r EXCEPT !.pending = FALSE,
                                !.active = IF kind = "activation" THEN ActivatedStatus(r) ELSE @,
                                !.verified = r.verified \/ k.sent]]
        /\ link' = ExpireAccountTokens(LinksOf(k.user))
        /\ Moves(k.user, TRUE)

\* Redeem: whoever holds the link, at the route of its kind.
Redeem(l) ==
    /\ \E kind \in Kinds : RedeemAccountToken(l, kind)
    /\ UNCHANGED <<conn, ask, call, changes, barred>>

\* store.ChangePassword
SetPassword(u) ==
    /\ link' = ExpireAccountTokens(LinksOf(u))
    /\ user' = user
    /\ Moves(u, TRUE)

\* OnboardingHandler.ChangePassword, by the signed-in owner.
ChangePassword(u) ==
    /\ Change
    /\ user[u].there /\ user[u].active /\ ~user[u].pending
    /\ SetPassword(u)
    /\ UNCHANGED <<conn, ask, call, barred>>
-----------------------------------------------------------------------------
(* Upstream directories. *)

\* CreateSCIMConnector
CreateSCIMConnector(c) == conn[c].st = "none" /\ conn' = [conn EXCEPT ![c].st = "active"]

\* UpdateSCIMConnector
UpdateSCIMConnector(c, st) ==
    /\ conn[c].st \in {"active", "disabled"}
    /\ conn' = [conn EXCEPT ![c].st = st]

\* IssueSCIMToken and RevokeSCIMToken
SetSCIMTokens(c, writes) ==
    /\ conn[c].st \in {"active", "disabled"}
    /\ conn' = [conn EXCEPT ![c].token = writes]

\* AdminCreate
AdminCreate(c) ==
    /\ CreateSCIMConnector(c)
    /\ UNCHANGED <<user, link, ask, call, changes, moved, barred>>

\* AdminUpdate
AdminUpdate(c) ==
    /\ Change
    /\ \E st \in {"active", "disabled"} : UpdateSCIMConnector(c, st)
    /\ UNCHANGED <<user, link, ask, call, moved, barred>>

\* AdminIssueToken and AdminRevokeToken
AdminTokens(c) ==
    /\ \E writes \in BOOLEAN : SetSCIMTokens(c, writes)
    /\ UNCHANGED <<user, link, ask, call, changes, moved, barred>>

\* AuthenticateSCIMToken: a live token of an active connector.
AuthenticateSCIMToken(c) == conn[c].st = "active" /\ conn[c].token

\* Authenticate, for a write
Authenticate(k, c) ==
    /\ call[k] = NoConnector
    /\ AuthenticateSCIMToken(c)
    /\ call' = [call EXCEPT ![k] = c]
    /\ UNCHANGED <<user, conn, link, ask, changes, moved, barred>>

Answered(k) == call[k] # NoConnector /\ call' = [call EXCEPT ![k] = NoConnector]

\* CreateUpstreamUser: pending until a link sets a password.
CreateUpstreamUser(c, u, e, active) ==
    InsertUser(u, ApplySourceState([NoRow EXCEPT !.there = TRUE, !.email = e, !.pending = TRUE,
                                                 !.src = c, !.srcActive = active]))

\* SCIMHandler.Create: an omitted active is true.
Create(k, u) ==
    /\ Change
    /\ Answered(k)
    /\ \E e \in Emails, active \in BOOLEAN : CreateUpstreamUser(call[k], u, e, active)
    /\ UNCHANGED <<conn, ask>>

\* UpdateUpstreamUser: only the owner's, never the address of a privileged account; the
\* profile and the active flag are all it writes.
UpdateUpstreamUser(c, u, n) ==
    LET r == user[u]
    IN  /\ r.there /\ r.src = c
        /\ n.email # r.email => ~Privileged(r)
        /\ UpdateUserTx(u, n, FALSE, FALSE)
        /\ Moves(u, FALSE)

\* save: the edit of the row as it is under the write lock.
Save(k, u, n) ==
    /\ Change
    /\ Answered(k)
    /\ UpdateUpstreamUser(call[k], u, n)
    /\ UNCHANGED <<conn, ask, barred>>

\* Replace: an omitted active or address keeps the one there is.
Replace(k, u) ==
    \E active \in {user[u].srcActive} \cup BOOLEAN, email \in {user[u].email} \cup Emails :
       Save(k, u, [user[u] EXCEPT !.srcActive = active, !.email = email])

\* setAttribute: what one operation of a PATCH sets; a name is no part of the state.
Attributes == {<<"name">>} \cup ({"active"} \X BOOLEAN) \cup ({"email"} \X Emails)
SetAttribute(r, op) ==
    CASE op[1] = "active" -> [r EXCEPT !.srcActive = op[2]]
      [] op[1] = "email"  -> [r EXCEPT !.email = op[2]]
      [] OTHER -> r

\* Patch: its operations in turn, in one transaction.
Patch(k, u) ==
    \E op1, op2 \in Attributes : Save(k, u, SetAttribute(SetAttribute(user[u], op1), op2))

\* Delete deactivates.
Delete(k, u) == Save(k, u, [user[u] EXCEPT !.srcActive = FALSE])

\* An answer without a write: a conflict, a stale If-Match, a body that is refused.
Refused(k) ==
    /\ Answered(k)
    /\ UNCHANGED <<user, conn, link, ask, changes, moved, barred>>

\* Mutant of ShutOutLosesLink: the links of accounts that were shut out stay.
KeepLinks(r, disable) == FALSE

\* What DeleteSCIMConnector expires beyond the offboarded: a pending account that the
\* upstream or an administrator had shut out.
ShutOutLosesLink(r, disable) == r.pending /\ (disable \/ ~r.srcActive \/ r.local)

\* DeleteSCIMConnector: its accounts become local, disabled first if the operator says so.
DeleteSCIMConnector(c, disable) ==
    LET Owned(u) == user[u].there /\ user[u].src = c
        ends(u) == disable /\ user[u].active
    IN  /\ conn[c].st \in {"active", "disabled"}
        /\ (disable /\ \E u \in Users : Owned(u) /\ ActiveAdmin(u))
              => \E v \in Users : Permanent(v) /\ ~Owned(v)
        /\ user' = [u \in Users |->
                      IF Owned(u)
                      THEN [user[u] EXCEPT !.src = NoConnector, !.srcActive = TRUE, !.local = FALSE,
                                           !.active = @ /\ ~disable]
                      ELSE user[u]]
        /\ link' = ExpireAccountTokens({l \in Links : \E u \in Users :
                         link[l].user = u /\ Owned(u) /\ (ends(u) \/ ShutOutLosesLink(user[u], disable))})
        /\ conn' = [conn EXCEPT ![c] = [st |-> "gone", token |-> FALSE]]
        /\ barred' = barred \cup {u \in Users : Owned(u) /\ (disable \/ ~user[u].srcActive \/ user[u].local)}
        /\ Ends

\* AdminDelete: the body says keep or disable.
AdminDelete(c) ==
    /\ Change
    /\ \E disable \in BOOLEAN : DeleteSCIMConnector(c, disable)
    /\ UNCHANGED <<ask, call>>
-----------------------------------------------------------------------------
Next ==
    \/ \E u \in Users : UpdateUser(u) \/ CreateUser(u) \/ DeleteUser(u) \/ RunDisableUser(u)
    \/ \E u \in Users : EndPasses(u) \/ EndAccount(u) \/ SetDelegations(u) \/ ChangePassword(u)
    \/ \E q \in LinkRequests, by, u \in Users, kind \in Kinds, send \in BOOLEAN : AdminIssueLink(q, by, u, kind, send)
    \/ \E q \in LinkRequests, u \in Users : Forgot(q, u)
    \/ \E q \in LinkRequests : IssueAccountToken(q)
    \/ \E l \in Links : LinkLapses(l) \/ Redeem(l)
    \/ \E c \in Connectors : AdminCreate(c) \/ AdminUpdate(c) \/ AdminTokens(c) \/ AdminDelete(c)
    \/ \E k \in Calls, c \in Connectors : Authenticate(k, c)
    \/ \E k \in Calls, u \in Users : Create(k, u) \/ Replace(k, u) \/ Patch(k, u) \/ Delete(k, u)
    \/ \E k \in Calls : Refused(k)

Spec == Init /\ [][Next]_vars
-----------------------------------------------------------------------------
(* Properties. *)

\* There is always an active administrator with no end date, whatever demotions, end dates,
\* deletions, disconnections and upstream deactivations are interleaved, each legal by itself
\* (store/expiry.go requirePermanentAdminTx and its callers).
PermanentAdministrator == \E u \in Users : Permanent(u)

\* A link that can still be redeemed was minted for the account as it is: since then no
\* password was set, the address did not change and the account gained no privilege
\* (store/onboarding.go, updateUser, SetDelegations); and each account has at most one live
\* link of a kind.
LinkFitsAccount ==
    /\ moved = {}
    /\ \A l, m \in Links :
          link[l] # NoLink /\ link[l].user = link[m].user /\ link[l].kind = link[m].kind => l = m

\* An account that an administrator, its end date or its disconnection shut out is not
\* active until an administrator enables it or invites it again: no upstream write, and no
\* link from before, brings it back (scim_inbound.go ApplySourceState, DeleteSCIMConnector;
\* onboarding.go RedeemAccountToken).
BarredStaysOut == \A u \in barred : ~user[u].active

\* An account is owned by a connector there is: DeleteSCIMConnector says that the accounts of
\* a removed connector become local.
\* The code does not keep to it: TLC refutes it under AccountsRemovedConnector.cfg.
OwnersExist == \A u \in Users : user[u].src # NoConnector => conn[user[u].src].st # "gone"
=============================================================================
