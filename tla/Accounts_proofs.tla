-------------------------- MODULE Accounts_proofs --------------------------
(***************************************************************************)
(* Theorems about Accounts, for any accounts, connectors, addresses, links *)
(* and requests and any number of changes.                                 *)
(***************************************************************************)
EXTENDS Accounts, TLAPS

-----------------------------------------------------------------------------
(* Rows. *)

\* ApplySourceState writes the status and nothing else, and makes it agree with the source.
LEMMA SourceRow ==
    ASSUME NEW r \in UserFields
    PROVE  LET n == ApplySourceState(r)
           IN  /\ n \in UserFields
               /\ n.there = r.there /\ n.role = r.role /\ n.pending = r.pending /\ n.email = r.email
               /\ n.end = r.end /\ n.deleg = r.deleg /\ n.src = r.src /\ n.srcActive = r.srcActive
               /\ n.local = r.local /\ n.verified = r.verified
               /\ n.src = NoConnector => n = r
               /\ n.src # NoConnector => (n.active <=> (n.srcActive /\ ~n.local /\ ~n.pending))
<1>1. CASE r.src = NoConnector
  BY <1>1 DEF ApplySourceState, UserFields
<1>2. CASE r.src # NoConnector
  <2> DEFINE b == r.srcActive /\ ~r.local /\ ~r.pending
  <2>1. ApplySourceState(r) = [r EXCEPT !.active = b] /\ b \in BOOLEAN
    BY <1>2 DEF ApplySourceState
  <2>2. CASE b
    <3>1. ApplySourceState(r) = [r EXCEPT !.active = TRUE]
      BY <2>1, <2>2, Zenon
    <3> QED BY <1>2, <2>2, <3>1 DEF UserFields
  <2>3. CASE ~b
    <3>1. ApplySourceState(r) = [r EXCEPT !.active = FALSE]
      BY <2>1, <2>3, Zenon
    <3> QED BY <1>2, <2>3, <3>1 DEF UserFields
  <2> QED BY <2>2, <2>3
<1> QED BY <1>1, <1>2

\* A row that is local and not both active and pending is in order once its source was applied.
LEMMA SourceRowInOrder ==
    ASSUME NEW r \in UserFields, r.src = NoConnector => ~(r.pending /\ r.active)
    PROVE  ApplySourceState(r) \in UserRows
  BY SourceRow DEF UserRows, SourceState, UserFields

\* Neither the place holder nor the bootstrap administrator is out of order.
LEMMA InitialRows ==
    /\ NoRow \in UserRows
    /\ \A e \in Emails : Bootstrap(e) \in UserRows
  BY DEF NoRow, Bootstrap, UserRows, UserFields, SourceState
-----------------------------------------------------------------------------
(* The inductive invariant. *)

\* Links and requests for one name accounts, and LinkFitsAccount.
LinkOk ==
    /\ LinkFitsAccount
    /\ \A l \in Links : link[l] # NoLink => link[l].user \in Users
    /\ \A q \in LinkRequests : ask[q] # NoLink => ask[q].user \in Users

\* An account that was shut out cannot come back by itself: one that an upstream owns has the local
\* override, and a local one that is pending has no link to activate it.
Out(u) ==
    /\ user[u].there /\ ~user[u].active
    /\ user[u].src # NoConnector => user[u].local
    /\ user[u].pending /\ user[u].src = NoConnector =>
          \A l \in LinksOf(u) : link[l].kind # "activation"

BarredOk == \A u \in barred : Out(u)

IInv == TypeOK /\ PermanentAdministrator /\ LinkOk /\ BarredOk
-----------------------------------------------------------------------------
(* updateUser. *)

\* What an edited row must be for updateUser to leave the table in order.
Editable(e) == e \in UserFields /\ e.there /\ (e.src = NoConnector => ~(e.pending /\ e.active))

\* What updateUser leaves in the row it writes.
LEMMA UpdateRow ==
    ASSUME TypeOK, NEW u \in Users, NEW e, Editable(e), NEW schedule, NEW revoke,
           UpdateUserTx(u, e, schedule, revoke)
    PROVE  /\ user' \in [Users -> UserRows]
           /\ \A v \in Users \ {u} : user'[v] = user[v]
           /\ user'[u].there /\ user'[u].role = e.role /\ user'[u].end = e.end /\ user'[u].email = e.email
           /\ user'[u].deleg = e.deleg /\ user'[u].src = e.src /\ user'[u].local = e.local
           /\ user'[u].pending = e.pending /\ user'[u].srcActive = e.srcActive
           /\ user'[u].active = ApplySourceState(e).active
           /\ ApplySourceState(e).role = e.role /\ ApplySourceState(e).email = e.email
           /\ ApplySourceState(e).src = e.src
<1> DEFINE n == ApplySourceState(e)
           w == [n EXCEPT !.verified = n.verified /\ ~(user[u].email # n.email)]
<1>1. n \in UserRows /\ n \in UserFields
  BY SourceRow, SourceRowInOrder DEF Editable
<1>2. user' = [user EXCEPT ![u] = w]
  BY DEF UpdateUserTx
<1>3. /\ n.there = e.there /\ n.role = e.role /\ n.end = e.end /\ n.email = e.email /\ n.deleg = e.deleg
      /\ n.src = e.src /\ n.local = e.local /\ n.pending = e.pending /\ n.srcActive = e.srcActive
  BY SourceRow DEF Editable
<1> DEFINE b == n.verified /\ ~(user[u].email # n.email)
<1>4. w = [n EXCEPT !.verified = b] /\ b \in BOOLEAN
  OBVIOUS
<1>5. /\ w \in UserRows
      /\ w.there = n.there /\ w.role = n.role /\ w.end = n.end /\ w.email = n.email /\ w.deleg = n.deleg
      /\ w.src = n.src /\ w.local = n.local /\ w.pending = n.pending /\ w.srcActive = n.srcActive
      /\ w.active = n.active
  <2> HIDE DEF n, w
  <2>1. CASE b
    <3>1. w = [n EXCEPT !.verified = TRUE]
      BY <1>4, <2>1, Zenon
    <3> HIDE DEF b
    <3> QED BY <1>1, <3>1 DEF UserRows, UserFields, SourceState
  <2>2. CASE ~b
    <3>1. w = [n EXCEPT !.verified = FALSE]
      BY <1>4, <2>2, Zenon
    <3> HIDE DEF b
    <3> QED BY <1>1, <3>1 DEF UserRows, UserFields, SourceState
  <2> QED BY <2>1, <2>2
<1> HIDE DEF n, w
<1>6. user'[u] = w /\ \A v \in Users \ {u} : user'[v] = user[v]
  BY <1>2 DEF TypeOK
<1>7. user' \in [Users -> UserRows]
  BY <1>2, <1>5 DEF TypeOK
<1>8. n = ApplySourceState(e)
  BY DEF n
<1>9. e.there
  BY DEF Editable
<1> QED BY <1>3, <1>5, <1>6, <1>7, <1>8, <1>9

\* updateUser does not lose the last permanent administrator.
LEMMA UpdateKeepsAdministrator ==
    ASSUME TypeOK, PermanentAdministrator, NEW u \in Users, NEW e, Editable(e), NEW schedule, NEW revoke,
           UpdateUserTx(u, e, schedule, revoke),
           user[u].end = "none" /\ ~schedule => e.end = "none"
    PROVE  PermanentAdministrator'
<1>1. PICK w \in Users : Permanent(w)
  BY DEF PermanentAdministrator
<1>2. ASSUME NEW v \in Users \ {u}, Permanent(v) PROVE PermanentAdministrator'
  <2>1. user'[v] = user[v]
    BY UpdateRow
  <2> QED BY <1>2, <2>1 DEF PermanentAdministrator, Permanent, Admin
<1>3. CASE w # u
  BY <1>1, <1>2, <1>3
<1>4. CASE w = u
  <2>1. Admin(u) /\ user[u].end = "none"
    BY <1>1, <1>4 DEF Permanent
  <2>2. KeepsAdministrator(u, ApplySourceState(e), schedule)
    BY DEF UpdateUserTx
  <2>3. CASE RequirePermanentAdmin(u)
    BY <1>2, <2>3 DEF RequirePermanentAdmin
  <2>4. CASE ~RequirePermanentAdmin(u)
    <3>1. ApplySourceState(e).role = "admin" /\ ApplySourceState(e).active /\ ~schedule
      BY <2>1, <2>2, <2>4 DEF KeepsAdministrator
    <3>2. user'[u].there /\ user'[u].role = "admin" /\ user'[u].active /\ user'[u].end = "none"
      BY <2>1, <3>1, UpdateRow
    <3> QED BY <3>2 DEF PermanentAdministrator, Permanent, Admin
  <2> QED BY <2>3, <2>4
<1> QED BY <1>3, <1>4
-----------------------------------------------------------------------------
(* The edits that go through it. *)

\* The row as UpdateUser's request leaves it, before updateUser.
Edited(u, role, status, email, passwordSet, end) ==
    LET r == user[u]
        owned == r.src # NoConnector
        s == [r EXCEPT !.role = role,
                       !.email = email,
                       !.end = CASE end = "keep" -> r.end [] end = "clear" -> "none" [] end = "set" -> "ahead",
                       !.active = IF status = "keep" THEN r.active ELSE status = "active",
                       !.local = IF owned /\ status # "keep" THEN status = "disabled" ELSE r.local]
    IN  [ApplySourceState(s) EXCEPT !.pending = r.pending /\ ~passwordSet]

\* The parts of that row.
LEMMA EditedRow ==
    ASSUME TypeOK, NEW u \in Users, NEW role \in {"user", "admin"}, NEW status \in {"keep", "active", "disabled"},
           NEW email \in Emails \cup {NoEmail}, NEW passwordSet \in BOOLEAN, NEW end \in {"keep", "clear", "set"}
    PROVE  LET e == Edited(u, role, status, email, passwordSet, end)
               r == user[u]
           IN  /\ e \in UserFields
               /\ e.there = r.there /\ e.role = role /\ e.email = email /\ e.deleg = r.deleg /\ e.src = r.src
               /\ e.srcActive = r.srcActive
               /\ e.end = (CASE end = "keep" -> r.end [] end = "clear" -> "none" [] end = "set" -> "ahead")
               /\ e.pending <=> (r.pending /\ ~passwordSet)
               /\ e.local <=> IF r.src # NoConnector /\ status # "keep" THEN status = "disabled" ELSE r.local
               /\ r.src = NoConnector => (e.active <=> IF status = "keep" THEN r.active ELSE status = "active")
<1> DEFINE r == user[u]
           l == IF r.src # NoConnector /\ status # "keep" THEN status = "disabled" ELSE r.local
           a == IF status = "keep" THEN r.active ELSE status = "active"
           d == CASE end = "keep" -> r.end [] end = "clear" -> "none" [] end = "set" -> "ahead"
           p == r.pending /\ ~passwordSet
           s == [r EXCEPT !.role = role, !.email = email, !.end = d, !.active = a, !.local = l]
           n == ApplySourceState(s)
           e == [n EXCEPT !.pending = p]
<1>1. r \in UserFields
  BY DEF TypeOK, UserRows
<1>2. l \in BOOLEAN /\ a \in BOOLEAN /\ p \in BOOLEAN /\ d \in {"none", "ahead", "passed"}
  <2> HIDE DEF r
  <2>1. r.local \in BOOLEAN /\ r.active \in BOOLEAN /\ r.pending \in BOOLEAN /\ r.end \in {"none", "ahead", "passed"}
    BY <1>1 DEF UserFields
  <2>2. l \in BOOLEAN
    BY <2>1
  <2>3. a \in BOOLEAN
    BY <2>1
  <2>4. d \in {"none", "ahead", "passed"}
    BY <2>1
  <2> QED BY <2>2, <2>3, <2>4
<1>3. /\ s \in UserFields
      /\ s.there = r.there /\ s.role = role /\ s.email = email /\ s.deleg = r.deleg /\ s.src = r.src
      /\ s.srcActive = r.srcActive /\ s.end = d /\ s.local = l /\ s.active = a /\ s.pending = r.pending
  <2> HIDE DEF r, l, a, d
  <2>1. r \in UserFields /\ l \in BOOLEAN /\ a \in BOOLEAN /\ d \in {"none", "ahead", "passed"}
    BY <1>1, <1>2
  <2> QED BY <2>1, ZenonT(30) DEF UserFields
<1>4. /\ n \in UserFields
      /\ n.there = r.there /\ n.role = role /\ n.email = email /\ n.deleg = r.deleg /\ n.src = r.src
      /\ n.srcActive = r.srcActive /\ n.end = d /\ n.local = l
      /\ r.src = NoConnector => n.active = a
  <2> HIDE DEF s
  <2> QED BY <1>3, SourceRow
<1>5. /\ e \in UserFields
      /\ e.there = r.there /\ e.role = role /\ e.email = email /\ e.deleg = r.deleg /\ e.src = r.src
      /\ e.srcActive = r.srcActive /\ e.end = d /\ e.local = l /\ e.pending = p
      /\ r.src = NoConnector => e.active = a
  <2> HIDE DEF n, r, l, a, d, p
  <2> QED BY <1>2, <1>4 DEF UserFields
<1>6. e = Edited(u, role, status, email, passwordSet, end)
  BY DEF Edited
<1> HIDE DEF e
<1> QED BY <1>5, <1>6
-----------------------------------------------------------------------------
(* Links. *)

\* Expiring links keeps the rest as they are, so what holds of links goes on holding.
LEMMA ExpireKeeps ==
    ASSUME TypeOK, LinkOk, NEW S, link' = ExpireAccountTokens(S)
    PROVE  /\ link' \in [Links -> LinkRows]
           /\ \A l \in Links : link'[l] # NoLink => l \notin S /\ link'[l] = link[l] /\ link[l].user \in Users
           /\ \A l \in S \cap Links : link'[l] = NoLink
           /\ \A l, m \in Links :
                 link'[l] # NoLink /\ link'[l].user = link'[m].user /\ link'[l].kind = link'[m].kind => l = m
<1>1. NoLink \in LinkRows
  BY DEF NoLink, LinkRows, Kinds
<1>2. \A l \in Links : link'[l] = IF l \in S THEN NoLink ELSE link[l]
  BY DEF ExpireAccountTokens
<1>3. link' \in [Links -> LinkRows]
  BY <1>1 DEF ExpireAccountTokens, TypeOK
<1>4. \A l \in Links : link'[l] # NoLink => l \notin S /\ link'[l] = link[l] /\ link[l].user \in Users
  BY <1>2 DEF LinkOk
<1>5. ASSUME NEW l \in Links, NEW m \in Links,
             link'[l] # NoLink, link'[l].user = link'[m].user, link'[l].kind = link'[m].kind
      PROVE  l = m
  <2>1. link'[l] = link[l] /\ link[l].user \in Users /\ link[l] # NoLink
    BY <1>4, <1>5
  <2>2. NoLink.user \notin Users
    BY AccountsAssumption DEF NoLink
  <2>3. link'[m] = link[m]
    BY <1>2, <1>5, <2>1, <2>2
  <2> QED BY <1>5, <2>1, <2>3 DEF LinkOk, LinkFitsAccount
<1> QED BY <1>2, <1>3, <1>4, <1>5

\* Links expire when the account they are for changes in a way Moves records.
LEMMA ExpireFits ==
    ASSUME TypeOK, LinkOk, NEW S, link' = ExpireAccountTokens(S), NEW u \in Users, NEW pw, Moves(u, pw),
           ask' = ask,
           \/ LinksOf(u) \subseteq S
           \/ /\ ~pw /\ user'[u].email = user[u].email
              /\ Privileged(user'[u]) => Privileged(user[u])
    PROVE  LinkOk' /\ link' \in [Links -> LinkRows] /\ moved' \subseteq Links
<1>1. moved' = {}
  <2>1. moved = {}
    BY DEF LinkOk, LinkFitsAccount
  <2>2. \A l \in Links : link'[l] # NoLink => l \notin S
    BY ExpireKeeps
  <2>3. \A l \in Links : link[l].user = u => l \in LinksOf(u)
    BY DEF LinksOf
  <2> QED BY <2>1, <2>2, <2>3 DEF Moves
<1>2. LinkFitsAccount'
  BY <1>1, ExpireKeeps DEF LinkFitsAccount
<1>3. /\ \A l \in Links : link'[l] # NoLink => link'[l].user \in Users
      /\ link' \in [Links -> LinkRows]
  BY ExpireKeeps
<1> QED BY <1>1, <1>2, <1>3 DEF LinkOk

\* The same where no account is written in such a way.
LEMMA ExpireEnds ==
    ASSUME TypeOK, LinkOk, NEW S, link' = ExpireAccountTokens(S), Ends, ask' = ask
    PROVE  LinkOk' /\ link' \in [Links -> LinkRows] /\ moved' \subseteq Links
<1>1. moved' = {}
  BY DEF Ends, LinkOk, LinkFitsAccount
<1>2. LinkFitsAccount'
  BY <1>1, ExpireKeeps DEF LinkFitsAccount
<1>3. /\ \A l \in Links : link'[l] # NoLink => link'[l].user \in Users
      /\ link' \in [Links -> LinkRows]
  BY ExpireKeeps
<1> QED BY <1>1, <1>2, <1>3 DEF LinkOk

\* updateUser expires the links of an account it promotes, readdresses or shuts out.
LEMMA UpdateLinks ==
    ASSUME TypeOK, LinkOk, NEW u \in Users, NEW e, Editable(e), NEW schedule, NEW revoke, NEW pw,
           UpdateUserTx(u, e, schedule, revoke), Moves(u, pw), ask' = ask,
           pw => revoke, e.deleg = user[u].deleg
    PROVE  LinkOk' /\ link' \in [Links -> LinkRows] /\ moved' \subseteq Links
<1> DEFINE S == IF revoke \/ LosesLinks(user[u], ApplySourceState(e)) THEN LinksOf(u) ELSE {}
<1>1. link' = ExpireAccountTokens(S)
  BY DEF UpdateUserTx
<1>2. CASE revoke \/ LosesLinks(user[u], ApplySourceState(e))
  <2>1. LinksOf(u) \subseteq S
    BY <1>2
  <2> HIDE DEF S
  <2> QED BY <1>1, <2>1, ExpireFits
<1>3. CASE ~(revoke \/ LosesLinks(user[u], ApplySourceState(e)))
  <2>1. ~pw /\ ~LosesLinks(user[u], ApplySourceState(e))
    BY <1>3
  <2>2. user'[u].email = user[u].email
    BY <2>1, UpdateRow DEF LosesLinks
  <2>3. Privileged(user'[u]) => Privileged(user[u])
    BY <2>1, UpdateRow DEF LosesLinks, Privileged
  <2> HIDE DEF S
  <2> QED BY <1>1, <2>1, <2>2, <2>3, ExpireFits
<1> QED BY <1>2, <1>3

\* And of an account that updateUser leaves alone in every such way, links stay.
LEMMA UpdateKeepsKinds ==
    ASSUME TypeOK, LinkOk, NEW u \in Users, NEW e, NEW schedule, NEW revoke,
           UpdateUserTx(u, e, schedule, revoke)
    PROVE  /\ \A v \in Users, l \in Links : link'[l].user = v => link'[l] = link[l]
           /\ revoke => \A l \in Links : link'[l].user # u
<1> DEFINE S == IF revoke \/ LosesLinks(user[u], ApplySourceState(e)) THEN LinksOf(u) ELSE {}
<1>1. link' = ExpireAccountTokens(S)
  BY DEF UpdateUserTx
<1>2. NoLink.user \notin Users
  BY AccountsAssumption DEF NoLink
<1>3. revoke => S = LinksOf(u)
  OBVIOUS
<1> HIDE DEF S
<1> QED BY <1>1, <1>2, <1>3, ExpireKeeps DEF LinksOf
-----------------------------------------------------------------------------
(* The actions of administrators. *)

\* Who was out stays out while the row and the links are as they were.
LEMMA OutStays ==
    ASSUME NEW v \in Users, Out(v), user'[v] = user[v],
           \A l \in Links : link'[l].user = v => link'[l] = link[l]
    PROVE  Out(v)'
  BY DEF Out, LinksOf

\* UpdateUser.
LEMMA UpdateUserKeeps ==
    ASSUME IInv, NEW u \in Users, UpdateUser(u)
    PROVE  IInv'
<1> USE AccountsAssumption
<1>0. TypeOK /\ PermanentAdministrator /\ LinkOk /\ BarredOk
  BY DEF IInv
<1>1. PICK role \in {"user", "admin"}, status \in {"keep", "active", "disabled"},
           email \in {user[u].email} \cup Emails, passwordSet \in BOOLEAN, end \in {"keep", "clear", "set"} :
           EditUser(u, role, status, email, passwordSet, end)
  BY DEF UpdateUser
<1> DEFINE r == user[u]
           e == Edited(u, role, status, email, passwordSet, end)
           revoke == passwordSet \/ (r.active /\ ~e.active) \/ (r.role = "admin" /\ role # "admin")
<1>2. r \in UserRows /\ r \in UserFields /\ r.there
  BY <1>0 DEF TypeOK, UserRows, UpdateUser
<1>3. /\ r.src # NoConnector => email = r.email
      /\ ~(e.pending /\ e.active)
      /\ UpdateUserTx(u, e, end = "set", revoke)
      /\ Moves(u, passwordSet)
      /\ barred' = IF status = "active" THEN barred \ {u}
                   ELSE IF (r.active /\ ~user'[u].active) \/ (r.src # NoConnector /\ status = "disabled") THEN barred \cup {u}
                   ELSE barred
  BY <1>1 DEF EditUser, Edited
<1>4. email \in Emails \cup {NoEmail}
  BY <1>2 DEF UserFields
<1>5. /\ e \in UserFields
      /\ e.there = r.there /\ e.role = role /\ e.email = email /\ e.deleg = r.deleg /\ e.src = r.src
      /\ e.srcActive = r.srcActive
      /\ e.end = (CASE end = "keep" -> r.end [] end = "clear" -> "none" [] end = "set" -> "ahead")
      /\ e.pending <=> (r.pending /\ ~passwordSet)
      /\ e.local <=> IF r.src # NoConnector /\ status # "keep" THEN status = "disabled" ELSE r.local
      /\ r.src = NoConnector => (e.active <=> IF status = "keep" THEN r.active ELSE status = "active")
  BY <1>0, <1>4, EditedRow
<1> HIDE DEF e
<1>6. Editable(e)
  BY <1>2, <1>3, <1>5 DEF Editable
<1>7. /\ user' \in [Users -> UserRows]
      /\ \A v \in Users \ {u} : user'[v] = user[v]
      /\ user'[u].there /\ user'[u].src = e.src /\ user'[u].local = e.local
      /\ user'[u].pending = e.pending /\ user'[u].active = ApplySourceState(e).active
  BY <1>0, <1>3, <1>6, UpdateRow
<1>8. PermanentAdministrator'
  <2>1. r.end = "none" /\ ~(end = "set") => e.end = "none"
    BY <1>5
  <2> QED BY <1>0, <1>3, <1>6, <2>1, UpdateKeepsAdministrator
<1>9. LinkOk' /\ link' \in [Links -> LinkRows] /\ moved' \subseteq Links
  <2>1. passwordSet => revoke
    OBVIOUS
  <2>2. ask' = ask
    BY DEF UpdateUser
  <2> HIDE DEF revoke
  <2> QED BY <1>0, <1>3, <1>5, <1>6, <2>1, <2>2, UpdateLinks
<1>10. TypeOK'
  BY <1>0, <1>3, <1>7, <1>9 DEF TypeOK, UpdateUser, Change
<1>11. /\ \A v \in Users, l \in Links : link'[l].user = v => link'[l] = link[l]
       /\ (r.active /\ ~user'[u].active) => \A l \in Links : link'[l].user # u
  <2>1. \A v \in Users, l \in Links : link'[l].user = v => link'[l] = link[l]
    BY <1>0, <1>3, UpdateKeepsKinds
  <2>2. ASSUME r.active, ~user'[u].active PROVE \A l \in Links : link'[l].user # u
    <3>1. LosesLinks(r, ApplySourceState(e))
      BY <1>7, <2>2 DEF LosesLinks
    <3>2. link' = ExpireAccountTokens(LinksOf(u))
      BY <1>3, <3>1 DEF UpdateUserTx
    <3>3. NoLink.user # u
      BY DEF NoLink
    <3> QED BY <3>2, <3>3 DEF ExpireAccountTokens, LinksOf
  <2> QED BY <2>1, <2>2
<1>12. /\ e.src # NoConnector => (user'[u].active <=> (e.srcActive /\ ~e.local /\ ~e.pending))
       /\ e.src = NoConnector => (user'[u].active <=> e.active)
  BY <1>5, <1>7, SourceRow
<1>13. BarredOk'
  <2> SUFFICES ASSUME NEW v \in barred' PROVE Out(v)'
    BY DEF BarredOk
  <2>1. v \in Users
    BY <1>10 DEF TypeOK
  <2>2. CASE v # u
    <3>1. v \in barred
      BY <1>3, <2>2
    <3> QED BY <1>0, <1>7, <1>11, <2>1, <2>2, <3>1, OutStays DEF BarredOk
  <2>3. CASE v = u /\ r.active /\ ~user'[u].active
    <3>1. status # "active"
      BY <1>3, <2>3
    <3>2. r.src # NoConnector => e.local
      <4>1. r.src # NoConnector => r.srcActive /\ ~r.local /\ ~r.pending
        BY <1>2, <2>3 DEF UserRows, SourceState
      <4> QED BY <1>5, <1>12, <2>3, <3>1, <4>1
    <3> QED BY <1>5, <1>7, <1>11, <2>3, <3>2 DEF Out, LinksOf
  <2>4. CASE v = u /\ r.src # NoConnector /\ status = "disabled"
    <3>1. e.local
      BY <1>5, <2>4
    <3> QED BY <1>5, <1>7, <1>12, <2>4, <3>1 DEF Out
  <2>5. CASE v = u /\ ~(r.active /\ ~user'[u].active) /\ ~(r.src # NoConnector /\ status = "disabled")
    <3>1. u \in barred /\ status # "active"
      BY <1>3, <2>5
    <3>2. Out(u)
      BY <1>0, <3>1 DEF BarredOk
    <3>3. ~user'[u].active
      BY <1>5, <1>12, <2>5, <3>1, <3>2 DEF Out
    <3>4. r.src # NoConnector => e.local
      BY <1>5, <2>5, <3>1, <3>2 DEF Out
    <3>5. e.pending => r.pending
      BY <1>5
    <3> QED BY <1>5, <1>7, <1>11, <2>5, <3>2, <3>3, <3>4, <3>5 DEF Out, LinksOf
  <2> QED BY <2>2, <2>3, <2>4, <2>5
<1> QED BY <1>8, <1>9, <1>10, <1>13 DEF IInv

\* A new row keeps everything that holds of the others.
LEMMA InsertKeeps ==
    ASSUME IInv, NEW u \in Users, NEW row \in UserRows, InsertUser(u, row), ask' = ask
    PROVE  /\ user' \in [Users -> UserRows] /\ PermanentAdministrator' /\ LinkOk' /\ BarredOk'
<1>0. TypeOK /\ PermanentAdministrator /\ LinkOk /\ BarredOk
  BY DEF IInv
<1>1. /\ user' = [user EXCEPT ![u] = row] /\ link' = link /\ moved' = moved /\ barred' = barred
      /\ ~user[u].there
  BY DEF InsertUser, Unused
<1>2. user' \in [Users -> UserRows] /\ \A v \in Users \ {u} : user'[v] = user[v]
  BY <1>0, <1>1 DEF TypeOK
<1>3. PermanentAdministrator'
  <2>1. PICK w \in Users : Permanent(w)
    BY <1>0 DEF PermanentAdministrator
  <2>2. w # u
    BY <1>1, <2>1 DEF Permanent, Admin
  <2> QED BY <1>2, <2>1, <2>2 DEF PermanentAdministrator, Permanent, Admin
<1>4. LinkOk'
  BY <1>0, <1>1 DEF LinkOk, LinkFitsAccount
<1>5. BarredOk'
  <2> SUFFICES ASSUME NEW v \in barred PROVE Out(v)'
    BY <1>1 DEF BarredOk
  <2>1. Out(v) /\ v \in Users /\ v # u
    BY <1>0, <1>1 DEF BarredOk, Out, TypeOK
  <2> QED BY <1>1, <1>2, <2>1, OutStays
<1> QED BY <1>2, <1>3, <1>4, <1>5

\* CreateUser.
LEMMA CreateUserKeeps ==
    ASSUME IInv, NEW u \in Users, CreateUser(u)
    PROVE  IInv'
<1>1. PICK role \in {"user", "admin"}, active \in BOOLEAN, invited \in BOOLEAN, e \in Emails :
          InsertUser(u, [NoRow EXCEPT !.there = TRUE, !.role = role, !.email = e,
                                      !.pending = invited, !.active = active /\ ~invited])
  BY DEF CreateUser
<1> DEFINE b == active /\ ~invited
           row == [NoRow EXCEPT !.there = TRUE, !.role = role, !.email = e, !.pending = invited, !.active = b]
<1>2. row \in UserRows
  <2>1. b \in BOOLEAN /\ (invited => ~b)
    OBVIOUS
  <2> HIDE DEF b
  <2> QED BY <2>1 DEF NoRow, UserRows, UserFields, SourceState
<1>3. ask' = ask
  BY DEF CreateUser
<1>4. user' \in [Users -> UserRows] /\ PermanentAdministrator' /\ LinkOk' /\ BarredOk'
  <2> HIDE DEF row
  <2>1. InsertUser(u, row)
    BY <1>1 DEF row
  <2> QED BY <1>2, <1>3, <2>1, InsertKeeps
<1>5. TypeOK'
  BY <1>1, <1>4, AccountsAssumption DEF IInv, TypeOK, CreateUser, Change, InsertUser
<1> QED BY <1>4, <1>5 DEF IInv

\* DeleteUser.
LEMMA DeleteUserKeeps ==
    ASSUME IInv, NEW u \in Users, DeleteUser(u)
    PROVE  IInv'
<1>0. TypeOK /\ PermanentAdministrator /\ LinkOk /\ BarredOk
  BY DEF IInv
<1>1. /\ Admin(u) => RequirePermanentAdmin(u)
      /\ user' = [user EXCEPT ![u] = NoRow] /\ link' = ExpireAccountTokens(LinksOf(u)) /\ Ends
      /\ barred' = barred \ {u} /\ ask' = ask /\ conn' = conn /\ call' = call
      /\ changes \in 0..MaxChanges /\ changes < MaxChanges /\ changes' = changes + 1
  BY <1>0 DEF DeleteUser, DeleteUserRow, Change, TypeOK
<1>2. user' \in [Users -> UserRows] /\ \A v \in Users \ {u} : user'[v] = user[v]
  BY <1>0, <1>1, InitialRows DEF TypeOK
<1>3. PermanentAdministrator'
  <2>1. PICK w \in Users : Permanent(w)
    BY <1>0 DEF PermanentAdministrator
  <2>2. \E v \in Users \ {u} : Permanent(v)
    BY <1>1, <2>1 DEF Permanent, RequirePermanentAdmin
  <2> QED BY <1>2, <2>2 DEF PermanentAdministrator, Permanent, Admin
<1>4. LinkOk' /\ link' \in [Links -> LinkRows] /\ moved' \subseteq Links
  BY <1>0, <1>1, ExpireEnds
<1>5. TypeOK'
  BY <1>0, <1>1, <1>2, <1>4, AccountsAssumption DEF TypeOK
<1>6. BarredOk'
  <2> SUFFICES ASSUME NEW v \in barred, v # u PROVE Out(v)'
    BY <1>1 DEF BarredOk
  <2>1. Out(v) /\ v \in Users
    BY <1>0 DEF BarredOk, TypeOK
  <2>2. NoLink.user # v
    BY <2>1, AccountsAssumption DEF NoLink
  <2>3. \A l \in Links : link'[l].user = v => link'[l] = link[l]
    BY <1>0, <1>1, <2>2, ExpireKeeps
  <2> QED BY <1>2, <2>1, <2>3, OutStays
<1> QED BY <1>3, <1>4, <1>5, <1>6 DEF IInv

\* RunDisableUser.
LEMMA RunDisableUserKeeps ==
    ASSUME IInv, NEW u \in Users, RunDisableUser(u)
    PROVE  IInv'
<1> USE AccountsAssumption
<1>0. TypeOK /\ PermanentAdministrator /\ LinkOk /\ BarredOk
  BY DEF IInv
<1>1. PICK g \in Users : DisableUserByName(u, g)
  BY DEF RunDisableUser
<1> DEFINE r == user[u]
           b == r.local \/ r.src # NoConnector
           e == [r EXCEPT !.active = FALSE, !.local = b]
<1>2. r \in UserFields /\ r.there /\ b \in BOOLEAN
  BY <1>0, <1>1 DEF TypeOK, UserRows, UserFields, DisableUserByName
<1>3. /\ e \in UserFields /\ e.there = r.there /\ ~e.active /\ e.local = b
      /\ e.src = r.src /\ e.end = r.end /\ e.deleg = r.deleg /\ e.pending = r.pending
  <2> HIDE DEF b, r
  <2> QED BY <1>2 DEF UserFields
<1>4. UpdateUserTx(u, e, FALSE, TRUE) /\ Moves(u, FALSE) /\ barred' = barred \cup {u} /\ ask' = ask
  BY <1>1 DEF DisableUserByName, RunDisableUser
<1>5. r.src # NoConnector => e.local
  BY <1>3
<1> HIDE DEF e
<1>6. Editable(e)
  BY <1>2, <1>3 DEF Editable
<1>7. /\ user' \in [Users -> UserRows]
      /\ \A v \in Users \ {u} : user'[v] = user[v]
      /\ user'[u].there /\ user'[u].src = e.src /\ user'[u].local = e.local
      /\ user'[u].active = ApplySourceState(e).active
  BY <1>0, <1>4, <1>6, UpdateRow, ZenonT(30)
<1>8. PermanentAdministrator'
  BY <1>0, <1>3, <1>4, <1>6, UpdateKeepsAdministrator
<1>9. LinkOk' /\ link' \in [Links -> LinkRows] /\ moved' \subseteq Links
  BY <1>0, <1>3, <1>4, <1>6, UpdateLinks
<1>10. TypeOK'
  BY <1>0, <1>4, <1>7, <1>9 DEF TypeOK, RunDisableUser, Change
<1>11. /\ \A v \in Users, l \in Links : link'[l].user = v => link'[l] = link[l]
       /\ \A l \in Links : link'[l].user # u
  BY <1>0, <1>4, UpdateKeepsKinds
<1>12. ~user'[u].active
  BY <1>3, <1>5, <1>7, SourceRow
<1>13. BarredOk'
  <2> SUFFICES ASSUME NEW v \in barred' PROVE Out(v)'
    BY DEF BarredOk
  <2>1. CASE v # u
    <3>1. Out(v) /\ v \in Users
      BY <1>0, <1>4, <2>1 DEF BarredOk, TypeOK
    <3> QED BY <1>7, <1>11, <2>1, <3>1, OutStays
  <2>2. CASE v = u
    BY <1>3, <1>5, <1>7, <1>11, <1>12, <2>2 DEF Out, LinksOf
  <2> QED BY <2>1, <2>2
<1> QED BY <1>8, <1>9, <1>10, <1>13 DEF IInv
-----------------------------------------------------------------------------
(* End dates and delegations. *)

\* EndPasses.
LEMMA EndPassesKeeps ==
    ASSUME IInv, NEW u \in Users, EndPasses(u)
    PROVE  IInv'
<1>0. TypeOK /\ PermanentAdministrator /\ LinkOk /\ BarredOk
  BY DEF IInv
<1>1. /\ user' = [user EXCEPT ![u].end = "passed"] /\ user[u].end = "ahead"
      /\ UNCHANGED <<conn, link, ask, call, changes, moved, barred>>
  BY DEF EndPasses
<1>2. /\ user' \in [Users -> UserRows]
      /\ \A v \in Users \ {u} : user'[v] = user[v]
      /\ user'[u].there = user[u].there /\ user'[u].active = user[u].active /\ user'[u].src = user[u].src
      /\ user'[u].local = user[u].local /\ user'[u].pending = user[u].pending
  <2> DEFINE r == user[u]
             w == [r EXCEPT !.end = "passed"]
  <2>1. r \in UserRows
    BY <1>0 DEF TypeOK
  <2>2. /\ w \in UserRows /\ w.there = r.there /\ w.active = r.active /\ w.src = r.src
        /\ w.local = r.local /\ w.pending = r.pending
    <3> HIDE DEF r
    <3> QED BY <2>1 DEF UserRows, UserFields, SourceState
  <2>3. user' = [user EXCEPT ![u] = w]
    BY <1>0, <1>1 DEF TypeOK
  <2> HIDE DEF w
  <2> QED BY <1>0, <2>2, <2>3 DEF TypeOK
<1>3. PermanentAdministrator'
  <2>1. PICK w \in Users : Permanent(w)
    BY <1>0 DEF PermanentAdministrator
  <2>2. w # u
    BY <1>1, <2>1 DEF Permanent
  <2> QED BY <1>2, <2>1, <2>2 DEF PermanentAdministrator, Permanent, Admin
<1>4. LinkOk'
  BY <1>0, <1>1 DEF LinkOk, LinkFitsAccount
<1>5. BarredOk'
  <2>1. \A v \in barred : v \in Users /\ Out(v)
    BY <1>0 DEF BarredOk, TypeOK
  <2> QED BY <1>1, <1>2, <2>1 DEF BarredOk, Out, LinksOf
<1>6. TypeOK'
  BY <1>0, <1>1, <1>2 DEF TypeOK
<1> QED BY <1>3, <1>4, <1>5, <1>6 DEF IInv

\* EndAccount.
LEMMA EndAccountKeeps ==
    ASSUME IInv, NEW u \in Users, EndAccount(u)
    PROVE  IInv'
<1> USE AccountsAssumption
<1>0. TypeOK /\ PermanentAdministrator /\ LinkOk /\ BarredOk
  BY DEF IInv
<1> DEFINE r == user[u]
           last == r.role = "admin" /\ ~\E v \in Users \ {u} : ActiveAdmin(v)
<1>1. /\ r.there /\ r.active /\ r.end = "passed"
      /\ user' = [user EXCEPT ![u] = IF last THEN [r EXCEPT !.end = "none"]
                                     ELSE [r EXCEPT !.active = FALSE, !.local = TRUE]]
      /\ link' = (IF last THEN link ELSE ExpireAccountTokens(LinksOf(u)))
      /\ barred' = (IF last THEN barred ELSE barred \cup {u})
      /\ Ends /\ UNCHANGED <<conn, ask, call, changes>>
  BY DEF EndAccount
<1>w. PICK w \in Users : Permanent(w) /\ w # u
  BY <1>0, <1>1 DEF PermanentAdministrator, Permanent
<1>2. ~last
  BY <1>w DEF Permanent, ActiveAdmin
<1> HIDE DEF last
<1>3. user' = [user EXCEPT ![u] = [r EXCEPT !.active = FALSE, !.local = TRUE]]
      /\ link' = ExpireAccountTokens(LinksOf(u)) /\ barred' = barred \cup {u}
  BY <1>1, <1>2
<1>4. /\ user' \in [Users -> UserRows]
      /\ \A v \in Users \ {u} : user'[v] = user[v]
      /\ user'[u].there /\ ~user'[u].active /\ user'[u].local
  <2> DEFINE n == [r EXCEPT !.active = FALSE, !.local = TRUE]
  <2>1. r \in UserRows /\ r.there
    BY <1>0, <1>1 DEF TypeOK
  <2>2. n \in UserRows /\ n.there = r.there /\ ~n.active /\ n.local
    <3> HIDE DEF r
    <3> QED BY <2>1 DEF UserRows, UserFields, SourceState
  <2>3. user' = [user EXCEPT ![u] = n]
    BY <1>3
  <2> HIDE DEF n
  <2> QED BY <1>0, <2>1, <2>2, <2>3 DEF TypeOK
<1>5. PermanentAdministrator'
  BY <1>w, <1>4 DEF PermanentAdministrator, Permanent, Admin
<1>6. LinkOk' /\ link' \in [Links -> LinkRows] /\ moved' \subseteq Links
  BY <1>0, <1>1, <1>3, ExpireEnds
<1>7. TypeOK'
  BY <1>0, <1>1, <1>3, <1>4, <1>6 DEF TypeOK
<1>8. \A v \in Users, l \in Links : link'[l].user = v => link'[l] = link[l] /\ v # u
  <2>1. NoLink.user \notin Users
    BY DEF NoLink
  <2> QED BY <1>0, <1>3, <2>1, ExpireKeeps DEF LinksOf
<1>9. BarredOk'
  <2> SUFFICES ASSUME NEW v \in barred' PROVE Out(v)'
    BY DEF BarredOk
  <2>1. CASE v # u
    <3>1. Out(v) /\ v \in Users
      BY <1>0, <1>3, <2>1 DEF BarredOk, TypeOK
    <3> QED BY <1>4, <1>8, <2>1, <3>1, OutStays
  <2>2. CASE v = u
    BY <1>4, <1>8, <2>2 DEF Out, LinksOf
  <2> QED BY <2>1, <2>2
<1> QED BY <1>5, <1>6, <1>7, <1>9 DEF IInv

\* SetDelegations.
LEMMA SetDelegationsKeeps ==
    ASSUME IInv, NEW u \in Users, SetDelegations(u)
    PROVE  IInv'
<1> USE AccountsAssumption
<1>0. TypeOK /\ PermanentAdministrator /\ LinkOk /\ BarredOk
  BY DEF IInv
<1>1. PICK d \in {"none", "helpdesk", "other"} : SetDelegationRows(u, d)
  BY DEF SetDelegations
<1> DEFINE r == user[u]
           n == [r EXCEPT !.deleg = d]
           S == IF d # "none" THEN LinksOf(u) ELSE {}
<1>2. /\ n \in UserRows /\ n.there = r.there /\ n.active = r.active /\ n.src = r.src /\ n.local = r.local
      /\ n.pending = r.pending /\ n.role = r.role /\ n.end = r.end /\ n.email = r.email /\ n.deleg = d
  <2>1. r \in UserRows
    BY <1>0 DEF TypeOK
  <2> HIDE DEF r
  <2> QED BY <2>1 DEF UserRows, UserFields, SourceState
<1>3. user' = [user EXCEPT ![u] = n] /\ link' = ExpireAccountTokens(S) /\ Moves(u, FALSE) /\ barred' = barred
      /\ ask' = ask
  BY <1>0, <1>1 DEF SetDelegationRows, SetDelegations, TypeOK
<1> HIDE DEF n
<1>4. user' \in [Users -> UserRows] /\ user'[u] = n /\ \A v \in Users \ {u} : user'[v] = user[v]
  BY <1>0, <1>2, <1>3 DEF TypeOK
<1>5. PermanentAdministrator'
  BY <1>0, <1>2, <1>4 DEF PermanentAdministrator, Permanent, Admin
<1>6. LinkOk' /\ link' \in [Links -> LinkRows] /\ moved' \subseteq Links
  <2>1. \/ LinksOf(u) \subseteq S
        \/ user'[u].email = user[u].email /\ (Privileged(user'[u]) => Privileged(user[u]))
    BY <1>2, <1>4 DEF Privileged
  <2> HIDE DEF S
  <2> QED BY <1>0, <1>3, <2>1, ExpireFits
<1>7. TypeOK'
  BY <1>0, <1>3, <1>4, <1>6 DEF TypeOK, SetDelegations, Change
<1>8. \A v \in Users, l \in Links : link'[l].user = v => link'[l] = link[l]
  <2>1. NoLink.user \notin Users
    BY DEF NoLink
  <2> HIDE DEF S
  <2> QED BY <1>0, <1>3, <2>1, ExpireKeeps
<1>9. BarredOk'
  <2>1. \A v \in barred : v \in Users /\ Out(v)
    BY <1>0 DEF BarredOk, TypeOK
  <2>2. ASSUME NEW v \in barred PROVE Out(v)'
    <3>1. v \in Users /\ Out(v)
      BY <2>1
    <3>2. CASE v # u
      BY <1>4, <1>8, <3>1, <3>2, OutStays
    <3>3. CASE v = u
      BY <1>2, <1>4, <1>8, <3>1, <3>3 DEF Out, LinksOf
    <3> QED BY <3>2, <3>3
  <2> QED BY <1>3, <2>2 DEF BarredOk
<1> QED BY <1>5, <1>6, <1>7, <1>9 DEF IInv
-----------------------------------------------------------------------------
(* Requests for links, and links. *)

\* A step that leaves the rows, the links and the two histories alone.
LEMMA AsideKeeps ==
    ASSUME IInv, UNCHANGED <<user, link, moved, barred>>,
           conn' \in [Connectors -> [st : {"none", "active", "disabled", "gone"}, token : BOOLEAN]],
           ask' \in [LinkRequests -> LinkRows],
           call' \in [Calls -> Connectors \cup {NoConnector}],
           changes' \in 0..MaxChanges,
           \A q \in LinkRequests : ask'[q] # NoLink => ask'[q].user \in Users
    PROVE  IInv'
  BY DEF IInv, TypeOK, PermanentAdministrator, Permanent, Admin, LinkOk, LinkFitsAccount, BarredOk, Out, LinksOf

\* AdminIssueLink and Forgot.
LEMMA AskKeeps ==
    ASSUME IInv, NEW q \in LinkRequests, NEW u \in Users, NEW kind \in Kinds, NEW send \in BOOLEAN,
           ask' = [ask EXCEPT ![q] = [user |-> u, kind |-> kind, sent |-> send]],
           UNCHANGED <<user, conn, link, call, changes, moved, barred>>
    PROVE  IInv'
<1>1. ask' \in [LinkRequests -> LinkRows]
  BY DEF IInv, TypeOK, LinkRows
<1>2. \A p \in LinkRequests : ask'[p] # NoLink => ask'[p].user \in Users
  BY DEF IInv, TypeOK, LinkOk
<1> QED BY <1>1, <1>2, AsideKeeps DEF IInv, TypeOK

\* IssueAccountToken.
LEMMA IssueKeeps ==
    ASSUME IInv, NEW q \in LinkRequests, IssueAccountToken(q)
    PROVE  IInv'
<1> USE AccountsAssumption
<1>0. TypeOK /\ PermanentAdministrator /\ LinkOk /\ BarredOk
  BY DEF IInv
<1> DEFINE a == ask[q]
<1>1. a # NoLink /\ a.user \in Users /\ a \in LinkRows /\ NoLink \in LinkRows
  BY <1>0 DEF IssueAccountToken, LinkOk, TypeOK, LinkRows, NoLink, Kinds
<1>2. /\ ask' = [ask EXCEPT ![q] = NoLink] /\ UNCHANGED <<user, conn, call, changes>>
      /\ ask' \in [LinkRequests -> LinkRows]
      /\ \A p \in LinkRequests : ask'[p] # NoLink => ask'[p].user \in Users
  BY <1>0, <1>1 DEF IssueAccountToken, TypeOK, LinkOk
<1>3. CASE ~Eligible(a.user, a.kind)
  <2>1. UNCHANGED <<user, link, moved, barred>>
    BY <1>2, <1>3 DEF IssueAccountToken
  <2> QED BY <1>0, <1>2, <2>1, AsideKeeps DEF TypeOK
<1>4. CASE Eligible(a.user, a.kind)
  <2> DEFINE S == {m \in LinksOf(a.user) : link[m].kind = a.kind}
             kept == ExpireAccountTokens(S)
  <2>1. PICK l \in Links :
           /\ kept[l] = NoLink
           /\ link' = [kept EXCEPT ![l] = a]
           /\ moved' = {m \in moved : kept[m] # NoLink}
           /\ barred' = IF a.kind = "activation" THEN barred \ {a.user} ELSE barred
    BY <1>4 DEF IssueAccountToken
  <2>2. /\ kept \in [Links -> LinkRows]
        /\ \A m \in Links : kept[m] = IF m \in S THEN NoLink ELSE link[m]
    BY <1>0, <1>1 DEF ExpireAccountTokens, TypeOK
  <2>3. \A m \in Links : m \in S <=> link[m].user = a.user /\ link[m].kind = a.kind
    BY DEF LinksOf
  <2> HIDE DEF S, kept
  <2>4. link' \in [Links -> LinkRows] /\ link'[l] = a /\ \A m \in Links \ {l} : link'[m] = kept[m]
    BY <1>1, <2>1, <2>2
  <2>5. \A m \in Links \ {l} : link'[m] # NoLink => /\ link'[m] = link[m] /\ link[m].user \in Users
                                                   /\ ~(link[m].user = a.user /\ link[m].kind = a.kind)
    BY <1>0, <2>2, <2>3, <2>4 DEF LinkOk
  <2>6. NoLink.user \notin Users
    BY DEF NoLink
  <2>7. moved' = {}
    BY <1>0, <2>1 DEF LinkOk, LinkFitsAccount
  <2>8. ASSUME NEW m \in Links, NEW k \in Links,
               link'[m] # NoLink, link'[m].user = link'[k].user, link'[m].kind = link'[k].kind
        PROVE  m = k
    <3>1. link'[m].user \in Users
      BY <1>1, <2>4, <2>5, <2>8
    <3>2. link'[k] # NoLink
      BY <2>6, <2>8, <3>1
    <3>3. CASE m = l \/ k = l
      BY <2>4, <2>5, <2>8, <3>2, <3>3
    <3>4. CASE m # l /\ k # l
      <4>1. link'[m] = link[m] /\ link'[k] = link[k]
        BY <2>5, <2>8, <3>2, <3>4
      <4> QED BY <1>0, <2>8, <4>1 DEF LinkOk, LinkFitsAccount
    <3> QED BY <3>3, <3>4
  <2>9. LinkOk'
    <3>1. LinkFitsAccount'
      BY <2>7, <2>8 DEF LinkFitsAccount
    <3>2. \A m \in Links : link'[m] # NoLink => link'[m].user \in Users
      BY <1>1, <2>4, <2>5
    <3> QED BY <1>2, <3>1, <3>2 DEF LinkOk
  <2>10. TypeOK'
    BY <1>0, <1>2, <2>1, <2>4, <2>7 DEF TypeOK
  <2>11. PermanentAdministrator'
    BY <1>0, <1>2 DEF PermanentAdministrator, Permanent, Admin
  <2>12. BarredOk'
    <3> SUFFICES ASSUME NEW v \in barred' PROVE Out(v)'
      BY DEF BarredOk
    <3>1. v \in Users /\ Out(v) /\ (a.kind = "activation" => v # a.user)
      BY <1>0, <2>1 DEF BarredOk, TypeOK
    <3>2. \A m \in Links : link'[m].user = v /\ link'[m].kind = "activation" => link'[m] = link[m]
      BY <2>4, <2>5, <2>6, <3>1
    <3> QED BY <1>2, <3>1, <3>2 DEF Out, LinksOf
  <2> QED BY <2>9, <2>10, <2>11, <2>12 DEF IInv
<1> QED BY <1>3, <1>4

\* LinkLapses.
LEMMA LinkLapsesKeeps ==
    ASSUME IInv, NEW l \in Links, LinkLapses(l)
    PROVE  IInv'
<1> USE AccountsAssumption
<1>0. TypeOK /\ PermanentAdministrator /\ LinkOk /\ BarredOk
  BY DEF IInv
<1>1. /\ link' = ExpireAccountTokens({l}) /\ ask' = ask
      /\ UNCHANGED <<user, conn, call, changes, barred>>
  BY <1>0 DEF LinkLapses, ExpireAccountTokens, TypeOK
<1>2. Ends
  BY <1>0 DEF LinkLapses, Ends, LinkOk, LinkFitsAccount
<1>3. LinkOk' /\ link' \in [Links -> LinkRows] /\ moved' \subseteq Links
  BY <1>0, <1>1, <1>2, ExpireEnds
<1>4. \A v \in Users, m \in Links : link'[m].user = v => link'[m] = link[m]
  <2>1. NoLink.user \notin Users
    BY DEF NoLink
  <2> QED BY <1>0, <1>1, <2>1, ExpireKeeps
<1>5. BarredOk'
  BY <1>0, <1>1, <1>4, OutStays DEF BarredOk, TypeOK
<1>6. TypeOK' /\ PermanentAdministrator'
  BY <1>0, <1>1, <1>3 DEF TypeOK, PermanentAdministrator, Permanent, Admin
<1> QED BY <1>3, <1>5, <1>6 DEF IInv

\* ChangePassword.
LEMMA ChangePasswordKeeps ==
    ASSUME IInv, NEW u \in Users, ChangePassword(u)
    PROVE  IInv'
<1> USE AccountsAssumption
<1>0. TypeOK /\ PermanentAdministrator /\ LinkOk /\ BarredOk
  BY DEF IInv
<1>1. /\ link' = ExpireAccountTokens(LinksOf(u)) /\ Moves(u, TRUE) /\ ask' = ask
      /\ UNCHANGED <<user, conn, call, barred>>
  BY DEF ChangePassword, SetPassword
<1>2. LinkOk' /\ link' \in [Links -> LinkRows] /\ moved' \subseteq Links
  BY <1>0, <1>1, ExpireFits
<1>3. \A v \in Users, m \in Links : link'[m].user = v => link'[m] = link[m]
  <2>1. NoLink.user \notin Users
    BY DEF NoLink
  <2> QED BY <1>0, <1>1, <2>1, ExpireKeeps
<1>4. BarredOk'
  BY <1>0, <1>1, <1>3, OutStays DEF BarredOk, TypeOK
<1>5. TypeOK' /\ PermanentAdministrator'
  BY <1>0, <1>1, <1>2 DEF TypeOK, PermanentAdministrator, Permanent, Admin, ChangePassword, Change
<1> QED BY <1>2, <1>4, <1>5 DEF IInv

\* Redeem.
LEMMA RedeemKeeps ==
    ASSUME IInv, NEW l \in Links, Redeem(l)
    PROVE  IInv'
<1> USE AccountsAssumption
<1>0. TypeOK /\ PermanentAdministrator /\ LinkOk /\ BarredOk
  BY DEF IInv
<1>1. PICK kind \in Kinds : RedeemAccountToken(l, kind)
  BY DEF Redeem
<1> DEFINE u == link[l].user
           r == user[u]
           b == IF kind = "activation" THEN ActivatedStatus(r) ELSE r.active
           s == r.verified \/ link[l].sent
           n == [r EXCEPT !.pending = FALSE, !.active = b, !.verified = s]
<1>2. u \in Users /\ link[l].kind = kind /\ l \in LinksOf(u)
  BY <1>0, <1>1 DEF RedeemAccountToken, LinkOk, LinksOf
<1>3. r \in UserRows /\ r \in UserFields
  BY <1>0, <1>2 DEF TypeOK, UserRows
<1>4. /\ r.there /\ (IF kind = "activation" THEN r.pending ELSE r.active /\ ~r.pending)
      /\ user' = [user EXCEPT ![u] = n]
      /\ link' = ExpireAccountTokens(LinksOf(u)) /\ Moves(u, TRUE)
      /\ UNCHANGED <<conn, ask, call, changes, barred>>
  BY <1>1 DEF RedeemAccountToken, Redeem
<1>5. b \in BOOLEAN /\ s \in BOOLEAN /\ (r.src # NoConnector => (b <=> (r.srcActive /\ ~r.local)))
  <2>1. r.active \in BOOLEAN
    BY <1>3 DEF UserFields
  <2>2. b \in BOOLEAN
    BY <2>1 DEF ActivatedStatus
  <2>3. r.src # NoConnector => (b <=> (r.srcActive /\ ~r.local))
    BY <1>3, <1>4 DEF ActivatedStatus, UserRows, SourceState
  <2> QED BY <2>2, <2>3
<1>6. /\ n \in UserRows /\ n.there = r.there /\ n.role = r.role /\ n.end = r.end /\ n.src = r.src
      /\ n.local = r.local /\ ~n.pending /\ (n.active <=> b)
  <2> HIDE DEF r, b, s
  <2>1. CASE b = TRUE
    <3>1. n = [r EXCEPT !.pending = FALSE, !.active = TRUE, !.verified = s]
      BY <2>1
    <3> QED BY <1>3, <1>5, <2>1, <3>1 DEF UserRows, UserFields, SourceState
  <2>2. CASE b = FALSE
    <3>1. n = [r EXCEPT !.pending = FALSE, !.active = FALSE, !.verified = s]
      BY <2>2
    <3> QED BY <1>3, <1>5, <2>2, <3>1 DEF UserRows, UserFields, SourceState
  <2>3. (b = TRUE) \/ (b = FALSE)
    BY <1>5, Zenon
  <2> QED BY <2>1, <2>2, <2>3
<1> HIDE DEF n
<1>7. user' \in [Users -> UserRows] /\ user'[u] = n /\ \A v \in Users \ {u} : user'[v] = user[v]
  BY <1>0, <1>2, <1>4, <1>6 DEF TypeOK
<1>8. PermanentAdministrator'
  <2>1. PICK w \in Users : Permanent(w)
    BY <1>0 DEF PermanentAdministrator
  <2>2. CASE w # u
    BY <1>7, <2>1, <2>2 DEF PermanentAdministrator, Permanent, Admin
  <2>3. CASE w = u
    <3>1. r.active /\ ~r.pending
      BY <1>3, <2>1, <2>3 DEF Permanent, Admin, UserRows, SourceState
    <3>2. n.active
      BY <1>4, <1>6, <3>1
    <3> QED BY <1>6, <1>7, <2>1, <2>3, <3>2 DEF PermanentAdministrator, Permanent, Admin
  <2> QED BY <2>2, <2>3
<1>9. LinkOk' /\ link' \in [Links -> LinkRows] /\ moved' \subseteq Links
  BY <1>0, <1>2, <1>4, ExpireFits
<1>10. TypeOK'
  BY <1>0, <1>4, <1>7, <1>9 DEF TypeOK
<1>11. \A v \in Users, m \in Links : link'[m].user = v => link'[m] = link[m]
  <2>1. NoLink.user \notin Users
    BY DEF NoLink
  <2> QED BY <1>0, <1>4, <2>1, ExpireKeeps
<1>12. BarredOk'
  <2> SUFFICES ASSUME NEW v \in barred PROVE Out(v)'
    BY <1>4 DEF BarredOk
  <2>1. Out(v) /\ v \in Users
    BY <1>0 DEF BarredOk, TypeOK
  <2>2. CASE v # u
    BY <1>7, <1>11, <2>1, <2>2, OutStays
  <2>3. CASE v = u
    <3>1. ~r.active /\ kind = "activation" /\ r.pending
      BY <1>4, <2>1, <2>3 DEF Out, Kinds
    <3>2. r.src # NoConnector /\ r.local
      BY <1>2, <2>1, <2>3, <3>1 DEF Out
    <3>3. ~n.active /\ ~n.pending
      BY <1>5, <1>6, <3>2
    <3> QED BY <1>4, <1>6, <1>7, <2>3, <3>2, <3>3 DEF Out
  <2> QED BY <2>2, <2>3
<1> QED BY <1>8, <1>9, <1>10, <1>12 DEF IInv
-----------------------------------------------------------------------------
(* Upstream directories. *)

\* Create, of an account an upstream owns.
LEMMA CreateKeeps ==
    ASSUME IInv, NEW k \in Calls, NEW u \in Users, Create(k, u)
    PROVE  IInv'
<1>1. PICK e \in Emails, active \in BOOLEAN : CreateUpstreamUser(call[k], u, e, active)
  BY DEF Create
<1> DEFINE c == call[k]
           f == [NoRow EXCEPT !.there = TRUE, !.email = e, !.pending = TRUE, !.src = c, !.srcActive = active]
           row == ApplySourceState(f)
<1>2. c \in Connectors /\ c # NoConnector
  BY DEF Create, Answered, IInv, TypeOK
<1>3. f \in UserFields /\ f.src = c
  <2> HIDE DEF c
  <2> QED BY <1>2 DEF NoRow, UserFields
<1>4. row \in UserRows
  <2> HIDE DEF f
  <2> QED BY <1>2, <1>3, SourceRowInOrder
<1>5. InsertUser(u, row) /\ ask' = ask
  BY <1>1 DEF CreateUpstreamUser, Create
<1> HIDE DEF row
<1>6. user' \in [Users -> UserRows] /\ PermanentAdministrator' /\ LinkOk' /\ BarredOk'
  BY <1>4, <1>5, InsertKeeps
<1>7. TypeOK'
  BY <1>5, <1>6, AccountsAssumption DEF IInv, TypeOK, Create, Answered, Change, InsertUser
<1> QED BY <1>6, <1>7 DEF IInv

\* Replace, Patch and Delete, which write the active flag and the address of an owned row.
LEMMA SaveKeeps ==
    ASSUME IInv, NEW k \in Calls, NEW u \in Users, NEW n \in UserFields, Save(k, u, n),
           n.there = user[u].there, n.end = user[u].end, n.deleg = user[u].deleg, n.src = user[u].src,
           n.local = user[u].local, n.pending = user[u].pending
    PROVE  IInv'
<1> USE AccountsAssumption
<1>0. TypeOK /\ PermanentAdministrator /\ LinkOk /\ BarredOk
  BY DEF IInv
<1>1. /\ user[u].there /\ user[u].src = call[k] /\ call[k] # NoConnector
      /\ UpdateUserTx(u, n, FALSE, FALSE) /\ Moves(u, FALSE) /\ ask' = ask /\ barred' = barred
  BY DEF Save, UpdateUpstreamUser, Answered
<1>2. Editable(n)
  BY <1>1 DEF Editable
<1>3. /\ user' \in [Users -> UserRows]
      /\ \A v \in Users \ {u} : user'[v] = user[v]
      /\ user'[u].there /\ user'[u].src = n.src /\ user'[u].local = n.local
      /\ user'[u].pending = n.pending /\ user'[u].active = ApplySourceState(n).active
  BY <1>0, <1>1, <1>2, UpdateRow
<1>4. PermanentAdministrator'
  BY <1>0, <1>1, <1>2, UpdateKeepsAdministrator
<1>5. LinkOk' /\ link' \in [Links -> LinkRows] /\ moved' \subseteq Links
  BY <1>0, <1>1, <1>2, UpdateLinks
<1>6. TypeOK'
  BY <1>0, <1>1, <1>3, <1>5 DEF TypeOK, Save, Change, Answered
<1>7. \A v \in Users, l \in Links : link'[l].user = v => link'[l] = link[l]
  BY <1>0, <1>1, UpdateKeepsKinds
<1>8. user[u].local => ~user'[u].active
  <2> DEFINE m == ApplySourceState(n)
  <2>1. m.src = n.src /\ m.local = n.local /\ (m.src # NoConnector => (m.active <=> (m.srcActive /\ ~m.local /\ ~m.pending)))
    BY SourceRow
  <2>2. m.src # NoConnector
    BY <1>1, <2>1
  <2>3. user'[u].active = m.active
    BY <1>3
  <2> HIDE DEF m
  <2>4. n.local => ~m.active
    BY <2>1, <2>2
  <2> QED BY <2>3, <2>4
<1>9. BarredOk'
  <2> SUFFICES ASSUME NEW v \in barred PROVE Out(v)'
    BY <1>1 DEF BarredOk
  <2>1. Out(v) /\ v \in Users
    BY <1>0 DEF BarredOk, TypeOK
  <2>2. CASE v # u
    BY <1>3, <1>7, <2>1, <2>2, OutStays
  <2>3. CASE v = u
    BY <1>1, <1>3, <1>8, <2>1, <2>3 DEF Out
  <2> QED BY <2>2, <2>3
<1> QED BY <1>4, <1>5, <1>6, <1>9 DEF IInv

\* A row whose upstream attributes are written is a row.
SameButAttributes(n, r) ==
    /\ n \in UserFields /\ n.there = r.there /\ n.end = r.end /\ n.deleg = r.deleg /\ n.src = r.src
    /\ n.local = r.local /\ n.pending = r.pending

\* setAttribute writes an attribute.
LEMMA AttributeRow ==
    ASSUME NEW r \in UserFields, NEW op \in Attributes
    PROVE  SameButAttributes(SetAttribute(r, op), r)
<1>1. CASE op \in {<<"name">>}
  BY <1>1 DEF SetAttribute, SameButAttributes
<1>2. CASE op \in {"active"} \X BOOLEAN
  BY <1>2 DEF SetAttribute, SameButAttributes, UserFields
<1>3. CASE op \in {"email"} \X Emails
  BY <1>3 DEF SetAttribute, SameButAttributes, UserFields
<1> QED BY <1>1, <1>2, <1>3 DEF Attributes

\* Replace, Patch and Delete.
LEMMA UpstreamKeeps ==
    ASSUME IInv, NEW k \in Calls, NEW u \in Users, Replace(k, u) \/ Patch(k, u) \/ Delete(k, u)
    PROVE  IInv'
<1> DEFINE r == user[u]
<1>1. r \in UserFields
  BY DEF IInv, TypeOK, UserRows
<1>2. \E n : Save(k, u, n) /\ SameButAttributes(n, r)
  <2> HIDE DEF r
  <2>1. CASE Replace(k, u)
    <3>1. PICK active \in {r.srcActive} \cup BOOLEAN, email \in {r.email} \cup Emails :
             Save(k, u, [r EXCEPT !.srcActive = active, !.email = email])
      BY <2>1 DEF Replace, r
    <3>2. SameButAttributes([r EXCEPT !.srcActive = active, !.email = email], r)
      BY <1>1 DEF SameButAttributes, UserFields
    <3> QED BY <3>1, <3>2
  <2>2. CASE Patch(k, u)
    <3>1. PICK op1 \in Attributes, op2 \in Attributes : Save(k, u, SetAttribute(SetAttribute(r, op1), op2))
      BY <2>2 DEF Patch, r
    <3>2. SameButAttributes(SetAttribute(SetAttribute(r, op1), op2), r)
      BY <1>1, AttributeRow DEF SameButAttributes
    <3> QED BY <3>1, <3>2
  <2>3. CASE Delete(k, u)
    <3>1. Save(k, u, [r EXCEPT !.srcActive = FALSE])
      BY <2>3 DEF Delete, r
    <3>2. SameButAttributes([r EXCEPT !.srcActive = FALSE], r)
      BY <1>1 DEF SameButAttributes, UserFields
    <3> QED BY <3>1, <3>2
  <2> QED BY <2>1, <2>2, <2>3
<1> QED BY <1>2, SaveKeeps DEF SameButAttributes

\* Authenticate, Refused and the connectors' own settings.
LEMMA ConnectorKeeps ==
    ASSUME IInv, NEW c \in Connectors, AdminCreate(c) \/ AdminUpdate(c) \/ AdminTokens(c)
    PROVE  IInv'
<1>1. conn' \in [Connectors -> [st : {"none", "active", "disabled", "gone"}, token : BOOLEAN]]
  BY DEF IInv, TypeOK, AdminCreate, AdminUpdate, AdminTokens, CreateSCIMConnector, UpdateSCIMConnector, SetSCIMTokens
<1>2. changes' \in 0..MaxChanges
  BY AccountsAssumption DEF IInv, TypeOK, AdminCreate, AdminUpdate, AdminTokens, Change
<1>3. UNCHANGED <<user, link, ask, call, moved, barred>>
  BY DEF AdminCreate, AdminUpdate, AdminTokens
<1> QED BY <1>1, <1>2, <1>3, AsideKeeps DEF IInv, TypeOK, LinkOk

\* An upstream's request comes and goes.
LEMMA CallKeeps ==
    ASSUME IInv, NEW k \in Calls, Refused(k) \/ (\E c \in Connectors : Authenticate(k, c))
    PROVE  IInv'
<1>1. call' \in [Calls -> Connectors \cup {NoConnector}]
  BY DEF IInv, TypeOK, Refused, Answered, Authenticate
<1>2. UNCHANGED <<user, conn, link, ask, changes, moved, barred>>
  BY DEF Refused, Authenticate
<1> QED BY <1>1, <1>2, AsideKeeps DEF IInv, TypeOK, LinkOk

\* AdminDelete: all accounts of the connector at once.
LEMMA DisconnectKeeps ==
    ASSUME IInv, NEW c \in Connectors, AdminDelete(c)
    PROVE  IInv'
<1> USE AccountsAssumption
<1>0. TypeOK /\ PermanentAdministrator /\ LinkOk /\ BarredOk
  BY DEF IInv
<1>1. PICK disable \in BOOLEAN : DeleteSCIMConnector(c, disable)
  BY DEF AdminDelete
<1> DEFINE Owned(u) == user[u].there /\ user[u].src = c
           Local(r) == [r EXCEPT !.src = NoConnector, !.srcActive = TRUE, !.local = FALSE,
                                 !.active = r.active /\ ~disable]
           S == {l \in Links : \E u \in Users :
                   link[l].user = u /\ Owned(u) /\ ((disable /\ user[u].active) \/ ShutOutLosesLink(user[u], disable))}
<1>2. /\ (disable /\ \E u \in Users : Owned(u) /\ ActiveAdmin(u)) => \E v \in Users : Permanent(v) /\ ~Owned(v)
      /\ user' = [u \in Users |-> IF Owned(u) THEN Local(user[u]) ELSE user[u]]
      /\ link' = ExpireAccountTokens(S)
      /\ conn' = [conn EXCEPT ![c] = [st |-> "gone", token |-> FALSE]]
      /\ barred' = barred \cup {u \in Users : Owned(u) /\ (disable \/ ~user[u].srcActive \/ user[u].local)}
      /\ Ends /\ ask' = ask /\ call' = call
  BY <1>0, <1>1 DEF DeleteSCIMConnector, AdminDelete, TypeOK
<1>3. ASSUME NEW r \in UserRows
      PROVE  /\ Local(r) \in UserRows /\ Local(r).there = r.there /\ Local(r).role = r.role
             /\ Local(r).end = r.end /\ Local(r).src = NoConnector /\ Local(r).pending = r.pending
             /\ Local(r).active <=> r.active /\ ~disable
  <2>1. CASE disable = TRUE
    <3>1. Local(r) = [r EXCEPT !.src = NoConnector, !.srcActive = TRUE, !.local = FALSE, !.active = FALSE]
      BY <2>1
    <3> QED BY <1>3, <2>1, <3>1 DEF UserRows, UserFields, SourceState
  <2>2. CASE disable = FALSE
    <3>1. r.active \in BOOLEAN
      BY <1>3 DEF UserRows, UserFields
    <3>2. Local(r) = [r EXCEPT !.src = NoConnector, !.srcActive = TRUE, !.local = FALSE, !.active = r.active]
      BY <2>2, <3>1
    <3> QED BY <1>3, <2>2, <3>2 DEF UserRows, UserFields, SourceState
  <2> QED BY <2>1, <2>2
<1> HIDE DEF Local
<1>4. /\ user' \in [Users -> UserRows]
      /\ \A u \in Users : user'[u] = IF Owned(u) THEN Local(user[u]) ELSE user[u]
  BY <1>0, <1>2, <1>3 DEF TypeOK
<1>5. \A u \in Users : user[u] \in UserRows
  BY <1>0 DEF TypeOK
<1>6. PermanentAdministrator'
  <2>1. PICK w \in Users : Permanent(w)
    BY <1>0 DEF PermanentAdministrator
  <2>2. ASSUME NEW v \in Users, Permanent(v), ~Owned(v) PROVE PermanentAdministrator'
    BY <1>4, <2>2 DEF PermanentAdministrator, Permanent, Admin
  <2>3. CASE ~Owned(w)
    BY <2>1, <2>2, <2>3
  <2>4. CASE Owned(w) /\ disable
    <3>1. ActiveAdmin(w)
      BY <2>1 DEF Permanent, ActiveAdmin
    <3> QED BY <1>2, <2>2, <2>4, <3>1
  <2>5. CASE Owned(w) /\ ~disable
    <3>1. user'[w] = Local(user[w])
      BY <1>4, <2>5
    <3> QED BY <1>3, <1>5, <2>1, <2>5, <3>1 DEF PermanentAdministrator, Permanent, Admin
  <2> QED BY <2>3, <2>4, <2>5
<1>7. LinkOk' /\ link' \in [Links -> LinkRows] /\ moved' \subseteq Links
  <2> HIDE DEF S
  <2> QED BY <1>0, <1>2, ExpireEnds
<1>8. TypeOK'
  BY <1>0, <1>2, <1>4, <1>7 DEF TypeOK, AdminDelete, Change
<1>9. \A v \in Users, l \in Links : link'[l].user = v => link'[l] = link[l] /\ l \notin S
  <2>1. NoLink.user \notin Users
    BY DEF NoLink
  <2> HIDE DEF S
  <2> QED BY <1>0, <1>2, <2>1, ExpireKeeps
<1>10. BarredOk'
  <2> SUFFICES ASSUME NEW v \in barred' PROVE Out(v)'
    BY DEF BarredOk
  <2>1. v \in Users
    BY <1>8 DEF TypeOK
  <2>2. CASE ~Owned(v)
    <3>1. v \in barred
      BY <1>2, <2>2
    <3> QED BY <1>0, <1>4, <1>9, <2>1, <2>2, <3>1, OutStays DEF BarredOk
  <2>3. CASE Owned(v)
    <3>1. disable \/ ~user[v].srcActive \/ user[v].local
      <4>1. CASE v \in barred
        BY <1>0, <1>2, <2>3, <4>1 DEF BarredOk, Out, DeleteSCIMConnector
      <4>2. CASE v \notin barred
        BY <1>2, <4>2
      <4> QED BY <4>1, <4>2
    <3>2. user'[v].there /\ ~user'[v].active
      <4>1. user'[v] = Local(user[v])
        BY <1>4, <2>1, <2>3
      <4>2. c # NoConnector
        BY DEF IInv
      <4>3. user[v].active => user[v].srcActive /\ ~user[v].local
        BY <1>5, <2>1, <2>3, <4>2 DEF UserRows, SourceState
      <4> QED BY <1>3, <1>5, <2>1, <2>3, <3>1, <4>1, <4>3
    <3>3. user'[v].src = NoConnector /\ user'[v].pending = user[v].pending
      BY <1>3, <1>4, <1>5, <2>1, <2>3
    <3>4. user[v].pending => \A l \in Links : link'[l].user # v
      <4>1. user[v].pending => ShutOutLosesLink(user[v], disable)
        BY <3>1 DEF ShutOutLosesLink
      <4> QED BY <1>9, <2>1, <2>3, <4>1
    <3> QED BY <3>2, <3>3, <3>4 DEF Out, LinksOf
  <2> QED BY <2>2, <2>3
<1> QED BY <1>6, <1>7, <1>8, <1>10 DEF IInv
-----------------------------------------------------------------------------
(* The theorems. *)

\* The bootstrap administrator is permanent, and there are no links.
LEMMA AccountsInit == Init => IInv
<1> USE AccountsAssumption
<1> SUFFICES ASSUME Init PROVE IInv
  OBVIOUS
<1>1. PICK u \in Users, e \in Emails : user = [v \in Users |-> IF v = u THEN Bootstrap(e) ELSE NoRow]
  BY DEF Init
<1>2. NoLink \in LinkRows
  BY DEF NoLink, LinkRows, Kinds
<1>3. TypeOK
  BY <1>1, <1>2, InitialRows DEF Init, TypeOK
<1>4. user[u].there /\ user[u].role = "admin" /\ user[u].active /\ user[u].end = "none"
  BY <1>1 DEF Bootstrap, NoRow
<1>5. PermanentAdministrator
  BY <1>4 DEF PermanentAdministrator, Permanent, Admin
<1>6. LinkOk /\ BarredOk
  BY DEF Init, LinkOk, LinkFitsAccount, BarredOk
<1> QED BY <1>3, <1>5, <1>6 DEF IInv

\* Every step keeps the invariant.
LEMMA AccountsStep == IInv /\ [Next]_vars => IInv'
<1> SUFFICES ASSUME IInv, [Next]_vars PROVE IInv'
  OBVIOUS
<1>1. CASE UNCHANGED vars
  BY <1>1 DEF vars, IInv, TypeOK, PermanentAdministrator, Permanent, Admin, LinkOk, LinkFitsAccount, BarredOk, Out, LinksOf
<1>2. ASSUME NEW u \in Users, UpdateUser(u) \/ CreateUser(u) \/ DeleteUser(u) \/ RunDisableUser(u) PROVE IInv'
  BY <1>2, UpdateUserKeeps, CreateUserKeeps, DeleteUserKeeps, RunDisableUserKeeps
<1>3. ASSUME NEW u \in Users, EndPasses(u) \/ EndAccount(u) \/ SetDelegations(u) \/ ChangePassword(u) PROVE IInv'
  BY <1>3, EndPassesKeeps, EndAccountKeeps, SetDelegationsKeeps, ChangePasswordKeeps
<1>4. ASSUME NEW q \in LinkRequests, NEW by \in Users, NEW u \in Users, NEW kind \in Kinds, NEW send \in BOOLEAN,
             AdminIssueLink(q, by, u, kind, send)
      PROVE  IInv'
  BY <1>4, AskKeeps DEF AdminIssueLink
<1>5. ASSUME NEW q \in LinkRequests, NEW u \in Users, Forgot(q, u) PROVE IInv'
  BY <1>5, AskKeeps DEF Forgot, Kinds
<1>6. ASSUME NEW q \in LinkRequests, IssueAccountToken(q) PROVE IInv'
  BY <1>6, IssueKeeps
<1>7. ASSUME NEW l \in Links, LinkLapses(l) \/ Redeem(l) PROVE IInv'
  BY <1>7, LinkLapsesKeeps, RedeemKeeps
<1>8. ASSUME NEW c \in Connectors, AdminCreate(c) \/ AdminUpdate(c) \/ AdminTokens(c) \/ AdminDelete(c) PROVE IInv'
  BY <1>8, ConnectorKeeps, DisconnectKeeps
<1>9. ASSUME NEW k \in Calls, NEW u \in Users, Create(k, u) \/ Replace(k, u) \/ Patch(k, u) \/ Delete(k, u) PROVE IInv'
  BY <1>9, CreateKeeps, UpstreamKeeps
<1>10. ASSUME NEW k \in Calls, Refused(k) \/ (\E c \in Connectors : Authenticate(k, c)) PROVE IInv'
  BY <1>10, CallKeeps
<1> QED BY <1>1, <1>2, <1>3, <1>4, <1>5, <1>6, <1>7, <1>8, <1>9, <1>10 DEF Next

\* The invariant holds in every reachable state.
LEMMA AccountsInvariance == Spec => []IInv
  BY AccountsInit, AccountsStep, PTL DEF Spec

\* Rows stay well typed, and their status agrees with source, override and activation.
THEOREM AccountTypes == Spec => []TypeOK
  BY AccountsInvariance, PTL DEF IInv

\* Whatever administrators, the CLI, end dates and upstream directories do to any number of
\* accounts, an active administrator without an end date remains.
THEOREM AdministratorRemains == Spec => []PermanentAdministrator
  BY AccountsInvariance, PTL DEF IInv

\* No activation or reset link outlives a new password, a new address or a gain of privilege of
\* its account, and an account has one live link of a kind at most.
THEOREM LinksFitAccounts == Spec => []LinkFitsAccount
  BY AccountsInvariance, PTL DEF IInv, LinkOk

\* An account that was shut out is not active before an administrator lets it in again.
THEOREM ShutOutStaysOut == Spec => []BarredStaysOut
<1>1. IInv => BarredStaysOut
  BY DEF IInv, BarredOk, Out, BarredStaysOut
<1> QED BY <1>1, AccountsInvariance, PTL
=============================================================================
