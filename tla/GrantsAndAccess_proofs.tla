----------------------- MODULE GrantsAndAccess_proofs -----------------------
(***************************************************************************)
(* Proofs about who may use a client and what is issued to it: OAuthGrants *)
(* (codes, tokens and refresh families) and AppAccess (records, grants,    *)
(* requests and the tokens bounded by them), for any number of sessions,   *)
(* codes, concurrent calls, records, users and requests.                   *)
(*                                                                         *)
(* OAuthGrants. The invariants checked by TLC are nearly inductive         *)
(* together. What they lack is where a code stands relative to what is     *)
(* derived from it: before it is spent there is nothing, and while a call  *)
(* that spent it is still in progress there is no family (Untouched,       *)
(* NoFamilyYet), a family's tokens are numbered up to its count            *)
(* (Numbered), and a code that was ever issued names its session           *)
(* (HasSession).                                                           *)
(*                                                                         *)
(* AppAccess. TokenEndsWithAccess says nothing of tokens whose holder has  *)
(* access, so the invariant adds until when those are good                 *)
(* (BoundedTokens); a record that is not there has no grants that a new    *)
(* record in its place would inherit (BareRecords). Every step either      *)
(* keeps each user's access to the client and its end (Keeps), or revokes  *)
(* and records what it takes away, or is the clock.                        *)
(***************************************************************************)
EXTENDS OAuthGrants, AppAccess, FiniteSetTheorems, TLAPS

-----------------------------------------------------------------------------
(* OAuthGrants: the invariant.                                              *)

HasSession == \A c \in Codes : code[c].st # "none" => code[c].sess \in Sessions

Untouched ==
    \A c \in Codes : code[c].st \in {"none", "issued"} =>
        /\ fam[c].st = "none"
        /\ \A t \in tok : t.code # c
        /\ \A r \in Redeeming : req[r].code # c

NoFamilyYet == \A r \in Redeeming : fam[req[r].code].st = "none"

Numbered ==
    \A x \in rt : fam[x.code].st # "none" /\ x.n <= fam[x.code].n

\* What the invariant says beyond the types.
Order == /\ HasSession /\ Untouched /\ NoFamilyYet /\ Numbered
         /\ SingleRedemption /\ OneRefreshHead

Authority == FamilyEndsWhole /\ AuthorityHasRoots /\ RevokedStaysRevoked

IInv == TypeOK /\ Order /\ Authority

\* A token somebody holds, or a live family.
Rooted(c) == fam[c].st = "live" \/ \E t \in tok : t.code = c

-----------------------------------------------------------------------------
(* Types                                                                    *)

\* Ending grants keeps the types.
LEMMA EndType ==
    ASSUME TypeOK, NEW cs \in SUBSET Codes, End(cs)
    PROVE  /\ code' \in [Codes -> [st : {"none", "issued", "spent", "gone"},
                                   sess : Sessions \cup {NoSession}, pol : Nat]]
           /\ tok' \subseteq Token
           /\ fam' \in [Codes -> [st : {"none", "live", "expired", "revoked"}, cap : Nat, n : Nat]]
           /\ rt' \subseteq RefreshToken /\ void' \subseteq Codes
  BY DEF TypeOK, End, Revoke, Drop

Calls == /\ req \in [Requests -> Request]
         /\ \A r \in Requests : req[r].pc # "idle" => req[r].code \in Codes

\* A call that moves on, or gives up, is still a call.
LEMMA CallType ==
    ASSUME TypeOK, NEW r \in Requests, NEW q \in Request, q.pc # "idle" => q.code \in Codes,
           req' = [req EXCEPT ![r] = q]
    PROVE  Calls'
  BY DEF TypeOK, Calls, Request

\* The next stages of a call.
LEMMA StageType ==
    ASSUME TypeOK, NEW r \in Requests, req[r].pc # "idle"
    PROVE  /\ IdleRequest \in Request /\ IdleRequest.pc = "idle"
           /\ \A p \in {"spent", "recorded"} :
                /\ [req[r] EXCEPT !.pc = p] \in Request
                /\ [req[r] EXCEPT !.pc = p].code \in Codes
           /\ \A k \in Nat :
                /\ [req[r] EXCEPT !.pc = "resolved", !.cap = k] \in Request
                /\ [req[r] EXCEPT !.pc = "resolved", !.cap = k].code \in Codes
<1>1. req[r] \in Request /\ req[r].code \in Codes
  BY DEF TypeOK
<1> QED
  BY <1>1 DEF Request, IdleRequest

\* Every step of the token endpoint keeps the types.
LEMMA EndpointType == TypeOK /\ Endpoint => TypeOK'
<1> SUFFICES ASSUME TypeOK, Endpoint PROVE TypeOK'
  OBVIOUS
<1> USE DEF TypeOK, subject, grants
<1>1. ASSUME NEW s \in Sessions, SignIn(s) PROVE TypeOK'
  BY <1>1 DEF SignIn
<1>2. ASSUME NEW c \in Codes, NEW s \in Sessions, CreateAuthorizationCode(c, s) PROVE TypeOK'
  BY <1>2 DEF CreateAuthorizationCode
<1>3. ASSUME NEW r \in Requests, NEW c \in Codes, Present(r, c) PROVE TypeOK'
  BY <1>3 DEF Present, IdleRequest, Request
<1>4. ASSUME NEW r \in Requests, NEW x \in rt, NEW own \in BOOLEAN, PresentRefresh(r, x, own)
      PROVE TypeOK'
  BY <1>4 DEF PresentRefresh, IdleRequest, Request, RefreshToken, EndOfAccess
<1>5. ASSUME NEW r \in Requests, ConsumeAuthorizationCode(r) PROVE TypeOK'
  <2>1. Calls'
    BY <1>5, StageType, CallType DEF ConsumeAuthorizationCode
  <2>2. code' \in [Codes -> [st : {"none", "issued", "spent", "gone"},
                             sess : Sessions \cup {NoSession}, pol : Nat]]
    <3>1. code' = code \/ code' = [code EXCEPT ![req[r].code].st = "spent"]
      BY <1>5 DEF ConsumeAuthorizationCode
    <3> QED
      BY <3>1
  <2> QED
    BY <1>5, <2>1, <2>2 DEF ConsumeAuthorizationCode, Calls
<1>6. ASSUME NEW r \in Requests, Resolve(r) PROVE TypeOK'
  <2>1. EndOfAccess \in Nat
    BY DEF EndOfAccess
  <2>2. \/ req' = [req EXCEPT ![r] = IdleRequest]
        \/ req' = [req EXCEPT ![r] = [req[r] EXCEPT !.pc = "resolved", !.cap = EndOfAccess]]
    BY <1>6 DEF Resolve
  <2> DEFINE q == [req[r] EXCEPT !.pc = "resolved", !.cap = EndOfAccess]
  <2>3. req[r].pc # "idle"
    BY <1>6 DEF Resolve
  <2>4. q \in Request /\ q.code \in Codes
    BY <2>1, <2>3, StageType
  <2>5. IdleRequest \in Request /\ IdleRequest.pc = "idle"
    BY <2>3, StageType
  <2> HIDE DEF q
  <2>6. Calls'
    BY <2>2, <2>4, <2>5, CallType DEF q
  <2> QED
    BY <1>6, <2>6 DEF Resolve, Calls
<1>7. ASSUME NEW r \in Requests, RecordIssuedToken(r) PROVE TypeOK'
  <2>0. \/ req' = [req EXCEPT ![r] = IdleRequest]
        \/ req' = [req EXCEPT ![r] = [req[r] EXCEPT !.pc = "recorded"]]
    BY <1>7 DEF RecordIssuedToken
  <2>1. Calls'
    BY <1>7, <2>0, StageType, CallType DEF RecordIssuedToken
  <2>2. tok' \subseteq Token
    BY <1>7 DEF RecordIssuedToken, Token, Request
  <2> QED
    BY <1>7, <2>1, <2>2 DEF RecordIssuedToken, Calls
<1>8. ASSUME NEW r \in Requests, CreateRefreshFamily(r) PROVE TypeOK'
  <2>1. Calls'
    BY <1>8, StageType, CallType DEF CreateRefreshFamily
  <2> DEFINE c == req[r].code
  <2>2. c \in Codes /\ req[r].cap \in Nat
    BY <1>8 DEF CreateRefreshFamily, Request
  <2>3. \/ UNCHANGED <<fam, rt>>
        \/ /\ fam' = [fam EXCEPT ![c] = [st |-> "live", cap |-> req[r].cap, n |-> 1]]
           /\ rt' = rt \cup {[code |-> c, n |-> 1, st |-> "fresh"]}
    BY <1>8 DEF CreateRefreshFamily
  <2>4. fam' \in [Codes -> [st : {"none", "live", "expired", "revoked"}, cap : Nat, n : Nat]]
    BY <2>2, <2>3
  <2>5. rt' \subseteq RefreshToken
    BY <2>2, <2>3 DEF RefreshToken
  <2> QED
    BY <1>8, <2>1, <2>4, <2>5 DEF CreateRefreshFamily, Calls
<1>9. ASSUME NEW r \in Requests, RotateRefreshToken(r) PROVE TypeOK'
  <2>1. Calls'
    BY <1>9, StageType, CallType DEF RotateRefreshToken
  <2> DEFINE c == req[r].code
             next == fam[c].n + 1
  <2>2. c \in Codes /\ fam[c].n \in Nat /\ next \in Nat /\ req[r].cap \in Nat
    BY <1>9 DEF RotateRefreshToken, Request
  <2>3. tok' \subseteq Token
    <3>1. \/ tok' \subseteq tok
          \/ tok' = tok \cup {[code |-> c, n |-> next, by |-> r, cap |-> req[r].cap]}
      BY <1>9 DEF RotateRefreshToken, EndFamily
    <3> QED
      BY <2>2, <3>1 DEF Token
  <2>4. fam' \in [Codes -> [st : {"none", "live", "expired", "revoked"}, cap : Nat, n : Nat]]
    <3>1. \/ fam' = fam
          \/ fam' = [fam EXCEPT ![c].n = next]
          \/ fam' = [fam EXCEPT ![c].st = IF @ = "live" THEN "revoked" ELSE @]
      BY <1>9 DEF RotateRefreshToken, EndFamily
    <3> QED
      BY <2>2, <3>1
  <2>5. rt' \subseteq RefreshToken
    <3>1. rt' = rt \/ \E x \in rt : x.code = c /\ rt' = Succeed(x, next)
      BY <1>9 DEF RotateRefreshToken
    <3> QED
      BY <2>2, <3>1 DEF Succeed, RefreshToken
  <2> QED
    BY <1>9, <2>1, <2>3, <2>4, <2>5 DEF RotateRefreshToken, Calls
<1>10. ASSUME NEW r \in Requests, Abandon(r) PROVE TypeOK'
  BY <1>10 DEF Abandon, IdleRequest, Request
<1> QED
  BY <1>1, <1>2, <1>3, <1>4, <1>5, <1>6, <1>7, <1>8, <1>9, <1>10 DEF Endpoint

\* Every administrative step keeps the types.
LEMMA AdministrationType == TypeOK /\ Administration => TypeOK'
<1> SUFFICES ASSUME TypeOK, Administration PROVE TypeOK'
  OBVIOUS
<1> USE DEF TypeOK, subject, grants, Change
<1>1. ASSUME NEW t \in tok, RevokeToken(t) PROVE TypeOK'
  BY <1>1 DEF RevokeToken
<1>2. ASSUME NEW x \in rt, RevokeRefreshFamily(x) PROVE TypeOK'
  BY <1>2 DEF RevokeRefreshFamily, EndFamily
<1>3. ASSUME NEW ss \in SUBSET Sessions, RevokeSession(ss) PROVE TypeOK'
  BY <1>3, EndType, CodesOf(ss \cap Rows) \in SUBSET Codes DEF RevokeSession, RevokeSessions, CodesOf, DropRows
<1>4. CASE RevokeUserClientAccess
  BY <1>4, EndType DEF RevokeUserClientAccess
<1>5. CASE RevokeUserAccess
  BY <1>5, EndType DEF RevokeUserAccess, RevokeAll, DropRows
<1>6. ASSUME NEW s \in Sessions, ChangePassword(s) PROVE TypeOK'
  BY <1>6, EndType DEF ChangePassword, DropRows
<1>7. ASSUME NEW status \in {"active", "disabled"}, NEW revoke \in BOOLEAN, UpdateUser(status, revoke)
      PROVE TypeOK'
  BY <1>7, EndType DEF UpdateUser, RevokeAll, DropRows
<1>8. CASE DeleteUser
  BY <1>8, EndType DEF DeleteUser, RevokeAll, DropRows
<1>9. CASE EndDatePasses
  BY <1>9 DEF EndDatePasses
<1>10. CASE ExpireAccount
  BY <1>10, EndType DEF ExpireAccount, RevokeAll, DropRows
<1>11. CASE FollowUp
  BY <1>11, EndType DEF FollowUp, RevokeLost
<1>12. ASSUME NEW on \in BOOLEAN, NEW bounded \in BOOLEAN, SetAccess(on, bounded) PROVE TypeOK'
  BY <1>12, EndType DEF SetAccess, RevokeLost
<1>13. CASE AccessLapses
  BY <1>13 DEF AccessLapses, Expire
<1>14. CASE SetAppAuthentication
  BY <1>14, EndType DEF SetAppAuthentication
<1>15. ASSUME NEW affected \in BOOLEAN, RoleChange(affected) PROVE TypeOK'
  BY <1>15, EndType DEF RoleChange
<1>16. ASSUME NEW enabled \in BOOLEAN, UpdateOAuthClient(enabled) PROVE TypeOK'
  BY <1>16 DEF UpdateOAuthClient, Revoke
<1>17. CASE EnableOAuthClient
  BY <1>17 DEF EnableOAuthClient
<1>18. CASE DeleteOAuthClient
  BY <1>18, EndType DEF DeleteOAuthClient
<1>19. CASE AdmissionChanges
  BY <1>19 DEF AdmissionChanges
<1> QED
  BY <1>1, <1>2, <1>3, <1>4, <1>5, <1>6, <1>7, <1>8, <1>9, <1>10, <1>11, <1>12, <1>13,
     <1>14, <1>15, <1>16, <1>17, <1>18, <1>19 DEF Administration

\* Time passing keeps the types.
LEMMA ClockType == TypeOK /\ Clock => TypeOK'
<1> SUFFICES ASSUME TypeOK, Clock PROVE TypeOK'
  OBVIOUS
<1> USE DEF TypeOK, subject, grants
<1>1. ASSUME NEW s \in Sessions, SessionExpires(s) PROVE TypeOK'
  BY <1>1 DEF SessionExpires
<1>2. ASSUME NEW c \in Codes, CodeExpires(c) PROVE TypeOK'
  BY <1>2 DEF CodeExpires
<1>3. ASSUME NEW c \in Codes, FamilyExpires(c) PROVE TypeOK'
  BY <1>3 DEF FamilyExpires, Expire
<1>4. ASSUME NEW t \in tok, TokenExpires(t) PROVE TypeOK'
  BY <1>4 DEF TokenExpires
<1>5. ASSUME NEW x \in rt, RefreshExpires(x) PROVE TypeOK'
  BY <1>5 DEF RefreshExpires, RefreshToken
<1>6. CASE DeleteExpiredIssuedTokens
  BY <1>6 DEF DeleteExpiredIssuedTokens
<1>7. CASE CleanupExpiredSessions
  BY <1>7 DEF CleanupExpiredSessions
<1> QED
  BY <1>1, <1>2, <1>3, <1>4, <1>5, <1>6, <1>7 DEF Clock

-----------------------------------------------------------------------------
(* The invariant                                                            *)

\* Grants only shrink: tokens go, codes go, live families end, nothing else moves.
Shrinks ==
    /\ tok' \subseteq tok /\ rt' = rt /\ req' = req
    /\ \A c \in Codes :
        /\ code'[c].sess = code[c].sess
        /\ code'[c].st = code[c].st \/ (code[c].st # "none" /\ code'[c].st = "gone")
        /\ fam'[c].n = fam[c].n
        /\ fam'[c].st = fam[c].st \/ (fam[c].st = "live" /\ fam'[c].st \in {"expired", "revoked"})

\* A revocation or an expiry disturbs nothing of the order in which grants arise.
LEMMA ShrinkOrder ==
    ASSUME IInv, Shrinks
    PROVE  Order'
<1> USE DEF IInv, Order, Shrinks
<1>0. Redeeming' = Redeeming /\ \A r \in Redeeming : req[r].code \in Codes
  BY DEF Redeeming, TypeOK
<1>1. HasSession'
  BY DEF HasSession
<1>2. Untouched'
  BY <1>0 DEF Untouched
<1>3. NoFamilyYet'
  BY <1>0 DEF NoFamilyYet
<1>4. Numbered'
  BY DEF Numbered, TypeOK, RefreshToken
<1>5. SingleRedemption'
  BY <1>0 DEF SingleRedemption
<1>6. OneRefreshHead'
  BY DEF OneRefreshHead
<1> QED
  BY <1>1, <1>2, <1>3, <1>4, <1>5, <1>6

\* revokeSessionGrantsTx and its kin: when the grants of cs end, what is left has roots.
LEMMA EndOk ==
    ASSUME IInv, NEW cs \in SUBSET Codes, End(cs), req' = req,
           \A c \in Codes \ cs : code[c].st # "none" => sess'[code[c].sess] = sess[code[c].sess],
           cs = Codes \/ (acc' = acc /\ client' = client)
    PROVE  Order' /\ Authority'
<1> USE DEF IInv, Authority
<1>1. Shrinks
  BY DEF Shrinks, End, Revoke, Drop, TypeOK
<1>2. \A c \in Codes : Rooted(c)' => c \notin cs /\ Rooted(c)
  BY DEF Rooted, End, Revoke, TypeOK
<1>3. \A c \in Codes : Rooted(c) => code[c].st # "none"
  BY DEF Rooted, Order, Untouched
<1>4. FamilyEndsWhole'
  BY DEF FamilyEndsWhole, End, Revoke, TypeOK
<1>5. AuthorityHasRoots'
  <2> SUFFICES ASSUME NEW c \in Codes, Rooted(c)'
               PROVE  /\ code'[c].sess \in Sessions /\ sess'[code'[c].sess] \in {"live", "expired", "purged"}
                      /\ acc' # "none" /\ client' = "on"
    BY DEF AuthorityHasRoots, Rooted
  <2>1. c \notin cs /\ Rooted(c) /\ code[c].st # "none"
    BY <1>2, <1>3
  <2>2. /\ code[c].sess \in Sessions /\ sess[code[c].sess] \in {"live", "expired", "purged"}
        /\ acc # "none" /\ client = "on"
    BY <2>1 DEF AuthorityHasRoots, Rooted
  <2> QED
    BY <1>1, <2>1, <2>2 DEF Shrinks
<1>6. RevokedStaysRevoked'
  BY DEF RevokedStaysRevoked, End, Revoke, Drop, TypeOK
<1> QED
  BY <1>1, <1>4, <1>5, <1>6, ShrinkOrder

\* A step that leaves the grants alone and takes no root away.
LEMMA SameOk ==
    ASSUME IInv, UNCHANGED <<grants, req, void>>,
           acc # "none" => acc' # "none", client = "on" => client' = "on",
           \A s \in Sessions : sess[s] \in {"live", "expired", "purged"} => sess'[s] \in {"live", "expired", "purged"}
    PROVE  Order' /\ Authority'
<1> USE DEF IInv, Authority, grants
<1>1. Shrinks
  BY DEF Shrinks
<1>2. FamilyEndsWhole' /\ AuthorityHasRoots' /\ RevokedStaysRevoked'
  BY DEF FamilyEndsWhole, AuthorityHasRoots, RevokedStaysRevoked
<1> QED
  BY <1>1, <1>2, ShrinkOrder

\* Every administrative step keeps the invariant.
LEMMA AdministrationOk == IInv /\ Administration => Order' /\ Authority'
<1> SUFFICES ASSUME IInv, Administration PROVE Order' /\ Authority'
  OBVIOUS
<1> USE DEF subject, grants, Change
<1>0. TypeOK /\ Codes \in SUBSET Codes
  BY DEF IInv
<1>1. ASSUME NEW t \in tok, RevokeToken(t) PROVE Order' /\ Authority'
  <2>1. Shrinks
    BY <1>1 DEF Shrinks, RevokeToken
  <2>2. Authority'
    BY <1>1 DEF RevokeToken, IInv, Authority, FamilyEndsWhole, AuthorityHasRoots, RevokedStaysRevoked
  <2> QED
    BY <2>1, <2>2, ShrinkOrder
<1>2. ASSUME NEW x \in rt, RevokeRefreshFamily(x) PROVE Order' /\ Authority'
  <2>1. Shrinks
    BY <1>0, <1>2 DEF Shrinks, RevokeRefreshFamily, EndFamily, TypeOK, RefreshToken
  <2>2. FamilyEndsWhole'
    BY <1>0, <1>2 DEF RevokeRefreshFamily, EndFamily, IInv, Authority, FamilyEndsWhole, TypeOK, RefreshToken
  <2>3. AuthorityHasRoots'
    BY <1>0, <1>2 DEF RevokeRefreshFamily, EndFamily, IInv, Authority, AuthorityHasRoots, TypeOK, RefreshToken
  <2>4. RevokedStaysRevoked'
    BY <1>0, <1>2 DEF RevokeRefreshFamily, EndFamily, IInv, Authority, RevokedStaysRevoked, TypeOK, RefreshToken
  <2> QED
    BY <2>1, <2>2, <2>3, <2>4, ShrinkOrder DEF Authority
<1>3. ASSUME NEW ss \in SUBSET Sessions, RevokeSession(ss) PROVE Order' /\ Authority'
  <2>1. CodesOf(ss \cap Rows) \in SUBSET Codes
    BY DEF CodesOf
  <2>2. \A c \in Codes \ CodesOf(ss \cap Rows) : code[c].st # "none" => sess'[code[c].sess] = sess[code[c].sess]
    BY <1>3 DEF IInv, Order, HasSession, CodesOf, RevokeSession, RevokeSessions, DropRows, TypeOK
  <2> QED
    BY <1>3, <2>1, <2>2, EndOk DEF RevokeSession, RevokeSessions
<1>4. CASE RevokeUserClientAccess
  BY <1>0, <1>4, EndOk DEF RevokeUserClientAccess
<1>5. CASE RevokeUserAccess
  BY <1>0, <1>5, EndOk DEF RevokeUserAccess, RevokeAll
<1>6. ASSUME NEW s \in Sessions, ChangePassword(s) PROVE Order' /\ Authority'
  BY <1>0, <1>6, EndOk DEF ChangePassword
<1>7. ASSUME NEW status \in {"active", "disabled"}, NEW revoke \in BOOLEAN, UpdateUser(status, revoke)
      PROVE Order' /\ Authority'
  BY <1>0, <1>7, EndOk, SameOk DEF UpdateUser, RevokeAll
<1>8. CASE DeleteUser
  BY <1>0, <1>8, EndOk DEF DeleteUser, RevokeAll
<1>9. CASE EndDatePasses
  BY <1>9, SameOk DEF EndDatePasses
<1>10. CASE ExpireAccount
  BY <1>0, <1>10, EndOk DEF ExpireAccount, RevokeAll
<1>11. CASE FollowUp
  BY <1>0, <1>11, EndOk, SameOk DEF FollowUp, RevokeLost, Allowed
<1>12. ASSUME NEW on \in BOOLEAN, NEW bounded \in BOOLEAN, SetAccess(on, bounded)
       PROVE Order' /\ Authority'
  BY <1>0, <1>12, EndOk, SameOk DEF SetAccess, RevokeLost, Allowed
<1>13. CASE AccessLapses
  <2>1. Shrinks
    BY <1>0, <1>13 DEF Shrinks, AccessLapses, Expire, TypeOK
  <2>2. FamilyEndsWhole'
    BY <1>0, <1>13 DEF AccessLapses, Expire, IInv, Authority, FamilyEndsWhole, TypeOK
  <2>3. AuthorityHasRoots'
    BY <1>0, <1>13 DEF AccessLapses, Expire, IInv, Authority, AuthorityHasRoots, TypeOK
  <2>4. RevokedStaysRevoked'
    BY <1>0, <1>13 DEF AccessLapses, Expire, IInv, Authority, RevokedStaysRevoked, TypeOK
  <2> QED
    BY <2>1, <2>2, <2>3, <2>4, ShrinkOrder DEF Authority
<1>14. CASE SetAppAuthentication
  BY <1>0, <1>14, EndOk DEF SetAppAuthentication
<1>15. ASSUME NEW affected \in BOOLEAN, RoleChange(affected) PROVE Order' /\ Authority'
  BY <1>0, <1>15, EndOk, SameOk DEF RoleChange
<1>16. ASSUME NEW enabled \in BOOLEAN, UpdateOAuthClient(enabled) PROVE Order' /\ Authority'
  <2>1. Shrinks
    BY <1>0, <1>16 DEF Shrinks, UpdateOAuthClient, Revoke, TypeOK
  <2>2. tok' = {} /\ \A c \in Codes : fam'[c].st # "live"
    BY <1>0, <1>16 DEF UpdateOAuthClient, Revoke, TypeOK, Token
  <2>3. FamilyEndsWhole' /\ AuthorityHasRoots'
    BY <2>2 DEF FamilyEndsWhole, AuthorityHasRoots
  <2>4. RevokedStaysRevoked'
    BY <1>0, <1>16, <2>2 DEF UpdateOAuthClient, IInv, Authority, RevokedStaysRevoked, TypeOK
  <2> QED
    BY <2>1, <2>3, <2>4, ShrinkOrder DEF Authority
<1>17. CASE EnableOAuthClient
  BY <1>17, SameOk DEF EnableOAuthClient
<1>18. CASE DeleteOAuthClient
  BY <1>0, <1>18, EndOk DEF DeleteOAuthClient
<1>19. CASE AdmissionChanges
  BY <1>19, SameOk DEF AdmissionChanges
<1> QED
  BY <1>1, <1>2, <1>3, <1>4, <1>5, <1>6, <1>7, <1>8, <1>9, <1>10, <1>11, <1>12, <1>13,
     <1>14, <1>15, <1>16, <1>17, <1>18, <1>19 DEF Administration

\* Time passing keeps the invariant.
LEMMA ClockOk == IInv /\ Clock => Order' /\ Authority'
<1> SUFFICES ASSUME IInv, Clock PROVE Order' /\ Authority'
  OBVIOUS
<1> USE DEF subject, grants
<1>0. TypeOK
  BY DEF IInv
<1>1. ASSUME NEW s \in Sessions, SessionExpires(s) PROVE Order' /\ Authority'
  BY <1>0, <1>1, SameOk DEF SessionExpires, TypeOK
<1>2. ASSUME NEW c \in Codes, CodeExpires(c) PROVE Order' /\ Authority'
  <2>1. Shrinks
    BY <1>0, <1>2 DEF Shrinks, CodeExpires, TypeOK
  <2>2. Authority'
    BY <1>0, <1>2 DEF CodeExpires, IInv, Authority, FamilyEndsWhole, AuthorityHasRoots,
                      RevokedStaysRevoked, TypeOK
  <2> QED
    BY <2>1, <2>2, ShrinkOrder
<1>3. ASSUME NEW c \in Codes, FamilyExpires(c) PROVE Order' /\ Authority'
  <2>1. Shrinks
    BY <1>0, <1>3 DEF Shrinks, FamilyExpires, Expire, TypeOK
  <2>2. FamilyEndsWhole' /\ AuthorityHasRoots'
    BY <1>0, <1>3 DEF FamilyExpires, Expire, IInv, Authority, FamilyEndsWhole, AuthorityHasRoots, TypeOK
  <2>3. RevokedStaysRevoked'
    BY <1>0, <1>3 DEF FamilyExpires, Expire, IInv, Authority, RevokedStaysRevoked, TypeOK
  <2> QED
    BY <2>1, <2>2, <2>3, ShrinkOrder DEF Authority
<1>4. ASSUME NEW t \in tok, TokenExpires(t) PROVE Order' /\ Authority'
  <2>1. Shrinks
    BY <1>4 DEF Shrinks, TokenExpires
  <2>2. Authority'
    BY <1>4 DEF TokenExpires, IInv, Authority, FamilyEndsWhole, AuthorityHasRoots, RevokedStaysRevoked
  <2> QED
    BY <2>1, <2>2, ShrinkOrder
<1>5. ASSUME NEW x \in rt, RefreshExpires(x) PROVE Order' /\ Authority'
  <2>1. Authority'
    BY <1>5 DEF RefreshExpires, IInv, Authority, FamilyEndsWhole, AuthorityHasRoots, RevokedStaysRevoked
  <2>2. (HasSession /\ Untouched /\ NoFamilyYet /\ SingleRedemption)'
    BY <1>5 DEF RefreshExpires, IInv, Order, HasSession, Untouched, NoFamilyYet, SingleRedemption, Redeeming
  <2>3. (Numbered /\ OneRefreshHead)'
    <3> DEFINE z == [x EXCEPT !.st = "stale"]
    <3>1. x \in RefreshToken /\ z \in RefreshToken /\ z.code = x.code /\ z.n = x.n
      BY <1>0 DEF TypeOK, RefreshToken
    <3>2. rt' = (rt \ {x}) \cup {z} /\ x.st # "used" /\ UNCHANGED fam
      BY <1>5 DEF RefreshExpires
    <3>3. Numbered'
      BY <3>1, <3>2 DEF IInv, Order, Numbered
    <3> HIDE DEF z
    <3>4. \A y \in rt : (y.n >= x.n \/ (x.n >= y.n /\ y.st # "used")) /\ y.code = x.code => y = x
      BY <3>2 DEF IInv, Order, OneRefreshHead
    <3>5. OneRefreshHead'
      <4> SUFFICES ASSUME NEW a \in rt', NEW b \in rt', a.code = b.code, a.st # "used", b.n >= a.n
                   PROVE  a = b
        BY DEF OneRefreshHead
      <4>1. CASE a \in rt /\ b \in rt
        BY <4>1 DEF IInv, Order, OneRefreshHead
      <4>2. CASE a = z /\ b # z
        BY <4>2, <3>1, <3>2, <3>4
      <4>3. CASE b = z /\ a # z
        BY <4>3, <3>1, <3>2, <3>4
      <4> QED
        BY <4>1, <4>2, <4>3, <3>2
    <3> QED
      BY <3>3, <3>5
  <2> QED
    BY <2>1, <2>2, <2>3 DEF Order
<1>6. CASE DeleteExpiredIssuedTokens
  <2>1. Authority'
    BY <1>6 DEF DeleteExpiredIssuedTokens, IInv, Authority, FamilyEndsWhole, AuthorityHasRoots,
                RevokedStaysRevoked
  <2>2. Order'
    BY <1>6 DEF DeleteExpiredIssuedTokens, IInv, Order, HasSession, Untouched, NoFamilyYet,
                SingleRedemption, Redeeming, Numbered, OneRefreshHead
  <2> QED
    BY <2>1, <2>2
<1>7. CASE CleanupExpiredSessions
  BY <1>0, <1>7, SameOk DEF CleanupExpiredSessions, TypeOK
<1> QED
  BY <1>1, <1>2, <1>3, <1>4, <1>5, <1>6, <1>7 DEF Clock

\* A call that stops, or has not yet spent anything, keeps the invariant.
LEMMA CallOk ==
    ASSUME IInv, UNCHANGED <<grants, void, sess, acc, client>>, Redeeming' \subseteq Redeeming,
           \A r \in Redeeming' : req'[r].code = req[r].code /\ req'[r].pc \in {req[r].pc, "resolved"},
           \A r \in Redeeming' : req'[r].pc = "resolved" => req[r].pc # "recorded"
    PROVE  Order' /\ Authority'
<1> USE DEF IInv, grants
<1>1. Authority'
  BY DEF Authority, FamilyEndsWhole, AuthorityHasRoots, RevokedStaysRevoked
<1>2. (HasSession /\ Numbered /\ OneRefreshHead)'
  BY DEF Order, HasSession, Numbered, OneRefreshHead
<1>3. (Untouched /\ NoFamilyYet)'
  BY DEF Order, Untouched, NoFamilyYet
<1>4. SingleRedemption'
  BY DEF Order, SingleRedemption
<1> QED
  BY <1>1, <1>2, <1>3, <1>4 DEF Order

\* Every step of the token endpoint keeps the invariant.
LEMMA EndpointOk == IInv /\ Endpoint => Order' /\ Authority'
<1> SUFFICES ASSUME IInv, Endpoint PROVE Order' /\ Authority'
  OBVIOUS
<1> USE DEF subject, grants
<1>0. TypeOK /\ Order /\ Authority
  BY DEF IInv
<1>1. ASSUME NEW s \in Sessions, SignIn(s) PROVE Order' /\ Authority'
  BY <1>0, <1>1, SameOk DEF SignIn, TypeOK
<1>2. ASSUME NEW c \in Codes, NEW s \in Sessions, CreateAuthorizationCode(c, s)
      PROVE Order' /\ Authority'
  <2> USE <1>0, <1>2 DEF CreateAuthorizationCode, TypeOK
  <2>1. \A t \in tok : t.code # c
    BY DEF Order, Untouched
  <2>2. fam[c].st = "none" /\ c \notin void
    BY DEF Order, Untouched, Authority, RevokedStaysRevoked
  <2>3. (FamilyEndsWhole /\ RevokedStaysRevoked)'
    BY <2>2 DEF Authority, FamilyEndsWhole, RevokedStaysRevoked
  <2>4. AuthorityHasRoots'
    BY <2>1, <2>2 DEF Authority, AuthorityHasRoots
  <2>5. (HasSession /\ Untouched)'
    BY DEF Order, HasSession, Untouched, Redeeming
  <2>6. (NoFamilyYet /\ SingleRedemption /\ Numbered /\ OneRefreshHead)'
    BY DEF Order, NoFamilyYet, SingleRedemption, Numbered, OneRefreshHead, Redeeming
  <2> QED
    BY <2>3, <2>4, <2>5, <2>6 DEF Order, Authority
<1>3. ASSUME NEW r \in Requests, NEW c \in Codes, Present(r, c) PROVE Order' /\ Authority'
  <2>1. /\ req'[r].pc = "presented"
        /\ \A q \in Requests : q # r => req'[q] = req[q]
    BY <1>0, <1>3 DEF Present, TypeOK, IdleRequest
  <2> QED
    BY <1>0, <1>3, <2>1, CallOk DEF Present, Redeeming
<1>4. ASSUME NEW r \in Requests, NEW x \in rt, NEW own \in BOOLEAN, PresentRefresh(r, x, own)
      PROVE Order' /\ Authority'
  <2>1. req'[r].pc = "refreshing" /\ \A q \in Requests : q # r => req'[q] = req[q]
    BY <1>0, <1>4 DEF PresentRefresh, TypeOK
  <2> QED
    BY <1>0, <1>4, <2>1, CallOk DEF PresentRefresh, Redeeming
<1>5. ASSUME NEW r \in Requests, ConsumeAuthorizationCode(r) PROVE Order' /\ Authority'
  <2> DEFINE c == req[r].code
  <2>1. c \in Codes /\ \A q \in Requests : q # r => req'[q] = req[q]
    BY <1>0, <1>5 DEF ConsumeAuthorizationCode, TypeOK
  <2>2. CASE code[c].st # "issued"
    <3>1. req'[r].pc = "idle" /\ UNCHANGED code
      BY <1>0, <1>5, <2>2 DEF ConsumeAuthorizationCode, TypeOK, IdleRequest
    <3> QED
      BY <1>0, <1>5, <2>1, <3>1, CallOk DEF ConsumeAuthorizationCode, Redeeming
  <2>3. CASE code[c].st = "issued"
    <3>1. /\ code' = [code EXCEPT ![c].st = "spent"]
          /\ req'[r].pc = "spent" /\ req'[r].code = c
      BY <1>0, <1>5, <2>3 DEF ConsumeAuthorizationCode, TypeOK, Request
    <3>2. Redeeming' = Redeeming \cup {r}
      BY <2>1, <3>1 DEF Redeeming
    <3>3. \A q \in Redeeming : req[q].code # c
      BY <1>0, <2>1, <2>3 DEF Order, Untouched
    <3>4. fam[c].st = "none" /\ (\A t \in tok : t.code # c) /\ c \notin void
      BY <1>0, <2>1, <2>3 DEF Order, Untouched, Authority, RevokedStaysRevoked
    <3>5. \A q \in Redeeming : q # r /\ req'[q] = req[q]
      BY <1>5, <2>1 DEF Redeeming, ConsumeAuthorizationCode
    <3>6. \A d \in Codes : code'[d].sess = code[d].sess /\ (d # c => code'[d] = code[d])
      BY <1>0, <2>1, <3>1 DEF TypeOK
    <3>7. code'[c].st = "spent"
      BY <1>0, <2>1, <3>1 DEF TypeOK
    <3>8. HasSession' /\ Untouched'
      BY <1>0, <1>5, <2>3, <3>1, <3>2, <3>5, <3>6, <3>7
         DEF Order, HasSession, Untouched, ConsumeAuthorizationCode
    <3>9. (NoFamilyYet /\ SingleRedemption)'
      BY <1>0, <1>5, <3>1, <3>2, <3>3, <3>4, <3>5
         DEF Order, NoFamilyYet, SingleRedemption, ConsumeAuthorizationCode
    <3>10. (Numbered /\ OneRefreshHead)'
      BY <1>0, <1>5 DEF Order, Numbered, OneRefreshHead, ConsumeAuthorizationCode
    <3>11. Authority'
      BY <1>0, <1>5, <3>4, <3>6
         DEF Authority, FamilyEndsWhole, AuthorityHasRoots, RevokedStaysRevoked,
             ConsumeAuthorizationCode, TypeOK
    <3> QED
      BY <3>8, <3>9, <3>10, <3>11 DEF Order
  <2> QED
    BY <2>2, <2>3
<1>6. ASSUME NEW r \in Requests, Resolve(r) PROVE Order' /\ Authority'
  <2>1. /\ \A q \in Requests : q # r => req'[q] = req[q]
        /\ req[r].pc = "spent"
        /\ req'[r].pc = "idle" \/ (req'[r].pc = "resolved" /\ req'[r].code = req[r].code)
    BY <1>0, <1>6 DEF Resolve, TypeOK, IdleRequest, Request
  <2> QED
    BY <1>0, <1>6, <2>1, CallOk DEF Resolve, Redeeming
<1>7. ASSUME NEW r \in Requests, RecordIssuedToken(r) PROVE Order' /\ Authority'
  <2> DEFINE c == req[r].code
             t == [code |-> c, n |-> 0, by |-> r, cap |-> req[r].cap]
  <2>1. /\ c \in Codes /\ r \in Redeeming /\ req[r].pc = "resolved"
        /\ \A q \in Requests : q # r => req'[q] = req[q]
        /\ req'[r].pc = "idle" \/ (req'[r].pc = "recorded" /\ req'[r].code = c)
    BY <1>0, <1>7 DEF RecordIssuedToken, TypeOK, IdleRequest, Redeeming, Request
  <2>2. CASE ~(Issuable(code[c].sess) /\ CodeStands(c))
    <3>1. req'[r].pc = "idle" /\ UNCHANGED tok
      BY <1>0, <1>7, <2>2 DEF RecordIssuedToken, TypeOK, IdleRequest
    <3> QED
      BY <1>0, <1>7, <2>1, <3>1, CallOk DEF RecordIssuedToken, Redeeming
  <2>3. CASE Issuable(code[c].sess) /\ CodeStands(c)
    <3>1. tok' = tok \cup {t}
      BY <1>7, <2>3 DEF RecordIssuedToken
    <3>2. Redeeming' \subseteq Redeeming /\ \A q \in Redeeming' : q # r => req'[q] = req[q]
      BY <2>1 DEF Redeeming
    <3>3. fam[c].st = "none" /\ code[c].st = "spent" /\ c \notin void
      BY <1>0, <2>1, <2>3 DEF Order, NoFamilyYet, CodeStands, Authority, RevokedStaysRevoked
    <3>4. \A u \in tok : u.code = c => u.n # 0
      BY <1>0, <2>1 DEF Order, SingleRedemption
    <3>5. \A q \in Redeeming : req[q].code = c => q = r
      BY <1>0, <2>1 DEF Order, SingleRedemption
    <3>11. \A q \in Redeeming' : req'[q].code = req[q].code
      BY <2>1, <3>2 DEF Redeeming
    <3>12. UNCHANGED <<code, fam>>
      BY <1>7 DEF RecordIssuedToken
    <3>6. HasSession' /\ Untouched' /\ NoFamilyYet'
      <4>1. HasSession' /\ NoFamilyYet'
        BY <1>0, <3>2, <3>11, <3>12 DEF Order, HasSession, NoFamilyYet
      <4>2. Untouched'
        BY <1>0, <3>1, <3>2, <3>3, <3>11, <3>12 DEF Order, Untouched
      <4> QED
        BY <4>1, <4>2
    <3>7. SingleRedemption'
      <4>1. \A u, v \in tok' : u.code = v.code /\ u.n = 0 /\ v.n = 0 => u = v
        BY <1>0, <3>1, <3>4 DEF Order, SingleRedemption
      <4>2. \A p, q \in Redeeming' : req'[p].code = req'[q].code => p = q
        BY <1>0, <2>1, <3>2 DEF Order, SingleRedemption, Redeeming
      <4>3. \A q \in Redeeming', u \in tok' : req'[q].code = u.code /\ req'[q].pc # "recorded" => u.n # 0
        BY <1>0, <2>1, <3>1, <3>2, <3>5 DEF Order, SingleRedemption, Redeeming
      <4> QED
        BY <4>1, <4>2, <4>3 DEF SingleRedemption
    <3>8. (Numbered /\ OneRefreshHead)'
      BY <1>0, <1>7 DEF Order, Numbered, OneRefreshHead, RecordIssuedToken
    <3>9. (FamilyEndsWhole /\ RevokedStaysRevoked)'
      BY <1>0, <1>7, <3>1, <3>3 DEF Authority, FamilyEndsWhole, RevokedStaysRevoked, RecordIssuedToken
    <3>10. AuthorityHasRoots'
      BY <1>0, <1>7, <2>3, <3>1 DEF Authority, AuthorityHasRoots, RecordIssuedToken, Issuable, Allowed
    <3> QED
      BY <3>6, <3>7, <3>8, <3>9, <3>10 DEF Order, Authority
  <2> QED
    BY <2>2, <2>3
<1>8. ASSUME NEW r \in Requests, CreateRefreshFamily(r) PROVE Order' /\ Authority'
  <2> DEFINE c == req[r].code
             x == [code |-> c, n |-> 1, st |-> "fresh"]
  <2>1. /\ c \in Codes /\ r \in Redeeming
        /\ \A q \in Requests : q # r => req'[q] = req[q]
        /\ req'[r].pc = "idle"
    BY <1>0, <1>8 DEF CreateRefreshFamily, TypeOK, IdleRequest, Redeeming
  <2>2. CASE ~(Issuable(code[c].sess) /\ CodeStands(c))
    BY <1>0, <1>8, <2>1, <2>2, CallOk DEF CreateRefreshFamily, Redeeming
  <2>3. CASE Issuable(code[c].sess) /\ CodeStands(c)
    <3>1. /\ rt' = rt \cup {x}
          /\ fam' = [fam EXCEPT ![c] = [st |-> "live", cap |-> req[r].cap, n |-> 1]]
      BY <1>8, <2>3 DEF CreateRefreshFamily
    <3>2. /\ fam'[c].st = "live" /\ fam'[c].n = 1
          /\ \A d \in Codes : d # c => fam'[d] = fam[d]
      BY <1>0, <2>1, <3>1 DEF TypeOK
    <3>3. /\ Redeeming' \subseteq Redeeming \ {r}
          /\ \A q \in Redeeming' : req'[q] = req[q] /\ req[q].code \in Codes
      BY <1>0, <2>1 DEF Redeeming, TypeOK
    <3>4. fam[c].st = "none" /\ code[c].st = "spent" /\ c \notin void
      BY <1>0, <2>1, <2>3 DEF Order, NoFamilyYet, CodeStands, Authority, RevokedStaysRevoked
    <3>5. \A y \in rt : y.code \in Codes /\ y.code # c
      BY <1>0, <3>4 DEF Order, Numbered, TypeOK, RefreshToken
    <3>6. \A q \in Redeeming' : req[q].code # c
      BY <1>0, <2>1, <3>3 DEF Order, SingleRedemption
    <3>7. HasSession' /\ Untouched' /\ NoFamilyYet'
      BY <1>0, <1>8, <3>2, <3>3, <3>4, <3>6
         DEF Order, HasSession, Untouched, NoFamilyYet, CreateRefreshFamily
    <3>8. SingleRedemption'
      BY <1>0, <1>8, <3>3 DEF Order, SingleRedemption, CreateRefreshFamily
    <3>9. (Numbered /\ OneRefreshHead)'
      BY <1>0, <2>1, <3>1, <3>2, <3>5 DEF Order, Numbered, OneRefreshHead
    <3>10. (FamilyEndsWhole /\ RevokedStaysRevoked)'
      BY <1>0, <1>8, <3>2, <3>4 DEF Authority, FamilyEndsWhole, RevokedStaysRevoked, CreateRefreshFamily, TypeOK
    <3>11. AuthorityHasRoots'
      BY <1>0, <1>8, <2>3, <3>2
         DEF Authority, AuthorityHasRoots, CreateRefreshFamily, Issuable, Allowed
    <3> QED
      BY <3>7, <3>8, <3>9, <3>10, <3>11 DEF Order, Authority
  <2> QED
    BY <2>2, <2>3
<1>9. ASSUME NEW r \in Requests, RotateRefreshToken(r) PROVE Order' /\ Authority'
  <2> DEFINE c == req[r].code
             rows == {x \in rt : x.code = c /\ x.n = req[r].n}
             reused == \E x \in rows : x.st = "used" \/ ~req[r].own
             next == fam[c].n + 1
             good(x) == /\ ~reused /\ x.st = "fresh" /\ fam[c].st = "live"
                        /\ Issuable(code[c].sess) /\ code[c].pol = pol
  <2>1. /\ c \in Codes /\ UNCHANGED <<subject, sess, code, void>>
        /\ Redeeming' = Redeeming /\ \A q \in Redeeming : req'[q] = req[q]
    BY <1>0, <1>9 DEF RotateRefreshToken, TypeOK, IdleRequest, Redeeming
  <2>2. ASSUME EndFamily(c), UNCHANGED rt PROVE Order' /\ Authority'
    <3>1. /\ tok' = {t \in tok : t.code # c}
          /\ \A d \in Codes :
               /\ fam'[d].n = fam[d].n
               /\ fam'[d].st = fam[d].st \/ (fam[d].st = "live" /\ fam'[d].st = "revoked" /\ d = c)
      BY <1>0, <2>1, <2>2 DEF EndFamily, TypeOK
    <3>2. (HasSession /\ Untouched /\ NoFamilyYet)'
      BY <1>0, <2>1, <3>1 DEF Order, HasSession, Untouched, NoFamilyYet, TypeOK, Redeeming
    <3>3. (Numbered /\ OneRefreshHead)'
      <4>1. \A w \in rt : w.code \in Codes
        BY <1>0 DEF TypeOK, RefreshToken
      <4>2. Numbered'
        BY <1>0, <2>2, <3>1, <4>1 DEF Order, Numbered
      <4>3. OneRefreshHead'
        BY <1>0, <2>2 DEF Order, OneRefreshHead
      <4> QED
        BY <4>2, <4>3
    <3>4. SingleRedemption'
      BY <1>0, <2>1, <3>1 DEF Order, SingleRedemption
    <3>5. FamilyEndsWhole'
      BY <1>0, <2>1, <3>1 DEF Authority, FamilyEndsWhole
    <3>6. AuthorityHasRoots'
      BY <1>0, <2>1, <3>1 DEF Authority, AuthorityHasRoots
    <3>7. RevokedStaysRevoked'
      BY <1>0, <2>1, <3>1 DEF Authority, RevokedStaysRevoked, TypeOK
    <3> QED
      BY <3>2, <3>3, <3>4, <3>5, <3>6, <3>7 DEF Order, Authority
  <2>3. ASSUME NEW x \in rows, good(x),
               rt' = Succeed(x, next),
               tok' = tok \cup {[code |-> c, n |-> next, by |-> r, cap |-> req[r].cap]},
               fam' = [fam EXCEPT ![c].n = next]
        PROVE  Order' /\ Authority'
    <3> DEFINE y == [x EXCEPT !.st = "used"]
               z == [code |-> x.code, n |-> next, st |-> "fresh"]
               t == [code |-> c, n |-> next, by |-> r, cap |-> req[r].cap]
    <3> HIDE DEF good
    <3>1. /\ x \in rt /\ x.code = c /\ x.st # "used" /\ fam[c].st = "live"
          /\ Issuable(code[c].sess)
      BY <2>3 DEF good
    <3>2. /\ y.code = c /\ y.n = x.n /\ y.st = "used" /\ x.n \in Nat
          /\ z.code = c /\ z.n = next /\ fam[c].n \in Nat /\ next \in Nat /\ next > fam[c].n
          /\ t.code = c /\ t.n = next /\ t.n # 0
      BY <1>0, <2>1, <3>1 DEF TypeOK, RefreshToken
    <3>3. rt' = (rt \ {x}) \cup {y, z} /\ tok' = tok \cup {t}
      BY <2>3 DEF Succeed
    <3> HIDE DEF y, z, t, next
    <3>4. /\ \A d \in Codes : fam'[d].st = fam[d].st /\ (d # c => fam'[d] = fam[d])
          /\ fam'[c].n = next
      BY <1>0, <2>1, <2>3 DEF TypeOK
    <3>5. \A w \in rt : /\ w.code \in Codes /\ w.n \in Nat
                        /\ w.code = c => w.n <= fam[c].n /\ w.n < next
      BY <1>0, <2>1, <3>2 DEF Order, Numbered, TypeOK, RefreshToken
    <3>6. \A q \in Redeeming : req[q].code # c
      BY <1>0, <3>1 DEF Order, NoFamilyYet
    <3>7. code[c].st \notin {"none", "issued"} /\ c \notin void
      BY <1>0, <2>1, <3>1 DEF Order, Untouched, Authority, RevokedStaysRevoked
    <3>8. (HasSession /\ Untouched /\ NoFamilyYet)'
      <4>1. HasSession'
        BY <1>0, <2>1 DEF Order, HasSession
      <4>2. Untouched'
        BY <1>0, <2>1, <3>2, <3>3, <3>4, <3>7 DEF Order, Untouched
      <4>3. NoFamilyYet'
        BY <1>0, <2>1, <3>4 DEF Order, NoFamilyYet, TypeOK, Redeeming
      <4> QED
        BY <4>1, <4>2, <4>3
    <3>9. SingleRedemption'
      BY <1>0, <2>1, <3>2, <3>3, <3>6 DEF Order, SingleRedemption
    <3>10. Numbered'
      <4> SUFFICES ASSUME NEW w \in rt' PROVE fam'[w.code].st # "none" /\ w.n <= fam'[w.code].n
        BY DEF Numbered
      <4>1. CASE w \in rt
        BY <1>0, <4>1, <3>2, <3>4, <3>5 DEF Order, Numbered
      <4>2. CASE w \in {y, z}
        BY <4>2, <2>1, <3>1, <3>2, <3>4, <3>5
      <4> QED
        BY <4>1, <4>2, <3>3
    <3>11. OneRefreshHead'
      <4> SUFFICES ASSUME NEW a \in rt', NEW b \in rt', a.code = b.code, a.st # "used", b.n >= a.n
                   PROVE  a = b
        BY DEF OneRefreshHead
      <4>1. CASE a \in rt \ {x} /\ b \in rt
        BY <1>0, <4>1 DEF Order, OneRefreshHead
      <4>2. CASE a \in rt \ {x} /\ b = y
        BY <1>0, <4>2, <3>1, <3>2 DEF Order, OneRefreshHead
      <4>3. CASE a \in rt \ {x} /\ b = z
        <5>1. a.code = c /\ a.n \in Nat
          BY <4>3, <3>2, <3>5
        <5>2. a.n >= x.n \/ x.n >= a.n
          BY <5>1, <3>2
        <5> QED
          BY <1>0, <4>3, <5>1, <5>2, <3>1 DEF Order, OneRefreshHead
      <4>4. CASE a = z
        BY <4>4, <3>1, <3>2, <3>3, <3>5
      <4> QED
        BY <4>1, <4>2, <4>3, <4>4, <3>2, <3>3
    <3>12. (FamilyEndsWhole /\ RevokedStaysRevoked)'
      BY <1>0, <2>1, <3>1, <3>2, <3>3, <3>4, <3>7
         DEF Authority, FamilyEndsWhole, RevokedStaysRevoked, TypeOK
    <3>13. AuthorityHasRoots'
      BY <1>0, <2>1, <3>1, <3>2, <3>3, <3>4 DEF Authority, AuthorityHasRoots, Issuable, Allowed
    <3> QED
      BY <3>8, <3>9, <3>10, <3>11, <3>12, <3>13 DEF Order, Authority
  <2>4. ASSUME UNCHANGED <<tok, fam, rt>> PROVE Order' /\ Authority'
    BY <1>0, <2>1, <2>4, CallOk DEF Redeeming
  <2>5. \/ EndFamily(c) /\ UNCHANGED rt
        \/ \E x \in rows :
             /\ good(x)
             /\ rt' = Succeed(x, next)
             /\ tok' = tok \cup {[code |-> c, n |-> next, by |-> r, cap |-> req[r].cap]}
             /\ fam' = [fam EXCEPT ![c].n = next]
        \/ UNCHANGED <<tok, fam, rt>>
    BY <1>9 DEF RotateRefreshToken
  <2> HIDE DEF rows, good, next
  <2> QED
    BY <2>2, <2>3, <2>4, <2>5
<1>10. ASSUME NEW r \in Requests, Abandon(r) PROVE Order' /\ Authority'
  <2>1. req'[r].pc = "idle" /\ \A q \in Requests : q # r => req'[q] = req[q]
    BY <1>0, <1>10 DEF Abandon, TypeOK, IdleRequest
  <2> QED
    BY <1>0, <1>10, <2>1, CallOk DEF Abandon, Redeeming
<1> QED
  BY <1>1, <1>2, <1>3, <1>4, <1>5, <1>6, <1>7, <1>8, <1>9, <1>10 DEF Endpoint

-----------------------------------------------------------------------------
(* The specification                                                        *)

\* The initial state satisfies the invariant.
LEMMA InitOk == Init => IInv
<1> SUFFICES ASSUME Init PROVE IInv
  OBVIOUS
<1> USE DEF Init
<1>1. TypeOK
  BY GrantAssumption DEF TypeOK, IdleRequest, Request
<1>2. Redeeming = {}
  BY DEF Redeeming, IdleRequest
<1>3. Order
  BY <1>2 DEF Order, HasSession, Untouched, NoFamilyYet, Numbered, SingleRedemption, OneRefreshHead
<1>4. Authority
  BY DEF Authority, FamilyEndsWhole, AuthorityHasRoots, RevokedStaysRevoked
<1> QED
  BY <1>1, <1>3, <1>4 DEF IInv

\* Every step keeps it.
LEMMA NextOk == IInv /\ [Next]_vars => IInv'
<1> SUFFICES ASSUME IInv, [Next]_vars PROVE IInv'
  OBVIOUS
<1>1. CASE Endpoint
  BY <1>1, EndpointType, EndpointOk DEF IInv
<1>2. CASE Administration
  BY <1>2, AdministrationType, AdministrationOk DEF IInv
<1>3. CASE Clock
  BY <1>3, ClockType, ClockOk DEF IInv
<1>4. CASE UNCHANGED vars
  <2>1. TypeOK'
    BY <1>4 DEF IInv, TypeOK, vars
  <2>2. Order' /\ Authority'
    BY <1>4, CallOk DEF vars, grants, Redeeming
  <2> QED
    BY <2>1, <2>2 DEF IInv
<1> QED
  BY <1>1, <1>2, <1>3, <1>4 DEF Next

\* The invariant holds in every reachable state.
LEMMA Inductive == Spec => []IInv
  BY InitOk, NextOk, PTL DEF Spec

\* The variables keep their types, for every instance.
THEOREM GrantTypes == Spec => []TypeOK
<1>1. IInv => TypeOK
  BY DEF IInv
<1> QED
  BY <1>1, Inductive, PTL

\* However many calls race to redeem a code, ConsumeAuthorizationCode lets one through
\* and at most one access token comes of it.
THEOREM RedeemedOnce == Spec => []SingleRedemption
<1>1. IInv => SingleRedemption
  BY DEF IInv, Order
<1> QED
  BY <1>1, Inductive, PTL

\* Rotation keeps a family linear: one refresh token of it can be spent, the latest.
THEOREM LinearFamily == Spec => []OneRefreshHead
<1>1. IInv => OneRefreshHead
  BY DEF IInv, Order
<1> QED
  BY <1>1, Inductive, PTL

\* A revoked family leaves no access token behind, on any of the paths that revoke one.
THEOREM WholeFamilyEnds == Spec => []FamilyEndsWhole
<1>1. IInv => FamilyEndsWhole
  BY DEF IInv, Authority
<1> QED
  BY <1>1, Inductive, PTL

\* No token or family outlives the revocation of its session, its app grant or its client.
THEOREM RootsOutliveAuthority == Spec => []AuthorityHasRoots
<1>1. IInv => AuthorityHasRoots
  BY DEF IInv, Authority
<1> QED
  BY <1>1, Inductive, PTL

\* A grant that revokeUserAccessTx, revokeSessionsTx or revokeLostAppAccessTx has ended
\* never comes back, not even through an exchange that was already under way.
THEOREM RevocationIsFinal == Spec => []RevokedStaysRevoked
<1>1. IInv => RevokedStaysRevoked
  BY DEF IInv, Authority
<1> QED
  BY <1>1, Inductive, PTL

-----------------------------------------------------------------------------
(* AppAccess: the invariant.                                                *)

\* A record that is not there has neither grants nor the group.
BareRecords ==
    \A a \in Apps : ~app[a].there => a \notin grp /\ \A u \in Users : direct[a][u] = 0

\* A request is somebody's, for some record.
NamedRequests ==
    \A r \in AccessRequests : pending[r] # NoReq => pending[r].app \in Apps /\ pending[r].user \in Users

\* A live token ends ahead, and while no edit shortened its holder's access, no later than it;
\* and so will a token that is still to be recorded, while no edit overtook what was read.
BoundedTokens ==
    \A u \in Users :
        /\ token[u] # 0 =>
              /\ now < token[u]
              /\ u \notin shortened => ClientAccess(u) /\ token[u] <= ReadEnd(u)
        /\ issuing[u] # 0 /\ u \notin overtaken => issuing[u] <= ReadEnd(u)

Records == AccessTypes /\ BareRecords /\ NamedRequests
AccessInv == Records /\ BoundedTokens /\ TokenEndsWithAccess

-----------------------------------------------------------------------------
(* What the clock, the grants and the ends say about access.                *)

\* Instants the clock can reach come before Never, with any duration or lifetime added.
LEMMA NeverLast ==
    /\ Never \in Nat /\ MaxTime < Never /\ Client \in Connections
    /\ \A t \in 0..MaxTime, d \in 0..MaxDuration : t + d \in 0..Never /\ t + d < Never
    /\ \A t \in 0..MaxTime : t + RequestTTL \in 0..Never /\ t + TokenTTL \in 0..Never
  BY AppAccessAssumption DEF Never, Connections

\* Access ends ahead.
LEMMA EndsAhead ==
    ASSUME AccessTypes, NEW a \in Apps, NEW u \in Users
    PROVE  /\ AccessEndsAt(a, u) \in 0..Never
           /\ Access(a, u) => now < AccessEndsAt(a, u)
  BY NeverLast, AppAccessAssumption
     DEF AccessTypes, Instants, AccessEndsAt, Access, Active, Assigned, Least, Most, Ahead, AppRows

\* One record is the client's, and its access is the client's.
LEMMA ClientOf ==
    ASSUME AccessTypes, NEW a \in Apps, Client \in app[a].refs, NEW u \in Users
    PROVE  /\ ClientAccess(u) <=> Access(a, u)
           /\ ReadEnd(u) = AccessEndsAt(a, u)
<1>1. \A b \in Apps : Client \in app[b].refs => b = a
  BY DEF AccessTypes
<1>2. (CHOOSE b \in Apps : Client \in app[b].refs) = a
  BY <1>1
<1>3. ClientAccess(u) <=> Access(a, u)
  BY <1>1 DEF ClientAccess
<1> QED
  BY <1>2, <1>3 DEF ReadEnd

\* The same of the state a step leads to.
LEMMA ClientOfNext ==
    ASSUME AccessTypes', NEW a \in Apps, Client \in app'[a].refs, NEW u \in Users
    PROVE  /\ ClientAccess(u)' <=> Access(a, u)'
           /\ ReadEnd(u)' = AccessEndsAt(a, u)'
<1>1. \A b \in Apps : Client \in app'[b].refs => b = a
  BY DEF AccessTypes
<1>2. (CHOOSE b \in Apps : Client \in app'[b].refs) = a
  BY <1>1
<1>3. ClientAccess(u)' <=> Access(a, u)'
  BY <1>1 DEF ClientAccess
<1> QED
  BY <1>2, <1>3 DEF ReadEnd

\* The client's access ends ahead too.
LEMMA ClientEnds ==
    ASSUME AccessTypes, NEW u \in Users
    PROVE  ReadEnd(u) \in 0..Never /\ (ClientAccess(u) => now < ReadEnd(u))
<1>1. CASE \E a \in Apps : Client \in app[a].refs
  <2>1. PICK a \in Apps : Client \in app[a].refs
    BY <1>1
  <2> QED
    BY <2>1, ClientOf, EndsAhead
<1>2. CASE ~\E a \in Apps : Client \in app[a].refs
  BY <1>2, NeverLast DEF ReadEnd, ClientAccess
<1> QED
  BY <1>1, <1>2

\* Access ends ahead in the state a step leads to.
LEMMA EndsAheadNext ==
    ASSUME AccessTypes', NEW a \in Apps, NEW u \in Users
    PROVE  /\ AccessEndsAt(a, u)' \in 0..Never
           /\ Access(a, u)' => now' < AccessEndsAt(a, u)'
  BY NeverLast, AppAccessAssumption
     DEF AccessTypes, Instants, AccessEndsAt, Access, Active, Assigned, Least, Most, Ahead, AppRows

\* So does the client's.
LEMMA ClientEndsNext ==
    ASSUME AccessTypes', NEW u \in Users
    PROVE  ReadEnd(u)' \in 0..Never /\ (ClientAccess(u)' => now' < ReadEnd(u)')
<1>1. CASE \E a \in Apps : Client \in app'[a].refs
  <2>1. PICK a \in Apps : Client \in app'[a].refs
    BY <1>1
  <2> QED
    BY <2>1, ClientOfNext, EndsAheadNext
<1>2. CASE ~\E a \in Apps : Client \in app'[a].refs
  BY <1>2, NeverLast DEF ReadEnd, ClientAccess
<1> QED
  BY <1>1, <1>2

-----------------------------------------------------------------------------
(* Records, grants and requests.                                            *)

\* The types, one element at a time.
LEMMA RegistryType ==
    ASSUME Records
    PROVE  /\ \A a \in Apps : app[a] \in AppRows /\ direct[a] \in [Users -> 0..Never]
           /\ \A u \in Users : mem[u] \in 0..Never /\ end[u] \in Instants /\ token[u] \in 0..Never /\ issuing[u] \in 0..Never
           /\ \A r \in AccessRequests : pending[r] \in ReqRows
           /\ now \in 0..MaxTime /\ now \in Nat /\ MaxTime \in Nat /\ NoReq \in ReqRows
  BY AppAccessAssumption, NeverLast DEF Records, AccessTypes, NoReq, ReqRows

\* Tokens are only left or taken.
LEMMA RevokeType ==
    ASSUME AccessTypes, RevokeLostAppAccess
    PROVE  token' \in [Users -> 0..Never] /\ issuing' \in [Users -> 0..Never]
  BY NeverLast DEF AccessTypes, RevokeLostAppAccess

\* Only users are recorded.
LEMMA ShortensType == ASSUME AccessTypes, Shortens PROVE shortened' \subseteq Users /\ overtaken' \subseteq Users
  BY DEF AccessTypes, Shortens, Closer

\* A new record has the connections it is given.
LEMMA FreshRow ==
    ASSUME NEW refs \in SUBSET Connections
    PROVE  /\ NewApp(refs) \in AppRows /\ NewApp(refs).refs = refs
           /\ NewApp(refs).there <=> refs # {}
  BY DEF NewApp, AppRows, Modes

\* Records do not share connections.
LEMMA Apart ==
    ASSUME Records
    PROVE  /\ \A a \in Apps : app[a].there <=> app[a].refs # {}
           /\ \A a, b \in Apps : a # b => app[a].refs \cap app[b].refs = {}
           /\ \A a \in Apps : app[a].refs \in SUBSET Connections
  BY DEF Records, AccessTypes, AppRows

\* A policy edit leaves connections, grants and requests as they are.
LEMMA PolicyRecords ==
    ASSUME Records, NEW a \in Apps, SetAppPolicy(a)
    PROVE  Records'
<1>1. PICK mode \in Modes, enabled \in BOOLEAN : SetAppPolicyTx(a, mode, enabled)
  BY DEF SetAppPolicy
<1>2. /\ app' \in [Apps -> AppRows]
      /\ \A b \in Apps : app'[b].there = app[b].there /\ app'[b].refs = app[b].refs
  BY <1>1 DEF SetAppPolicyTx, Records, AccessTypes, AppRows
<1>3. /\ token' \in [Users -> 0..Never] /\ issuing' \in [Users -> 0..Never]
      /\ shortened' \subseteq Users /\ overtaken' \subseteq Users
      /\ edits' \in 0..MaxEdits
  BY <1>1, RevokeType, ShortensType, AppAccessAssumption
     DEF SetAppPolicyTx, SetAppPolicy, Edit, Records, AccessTypes
<1>4. UNCHANGED <<direct, grp, mem, end, admins, owners, pending, now, debt>>
  BY <1>1 DEF SetAppPolicyTx, SetAppPolicy
<1> QED
  BY <1>2, <1>3, <1>4 DEF Records, AccessTypes, BareRecords, NamedRequests

\* So does opening or closing a record to requests.
LEMMA RequestableRecords ==
    ASSUME Records, NEW a \in Apps, SetAppRequestable(a)
    PROVE  Records'
<1>1. PICK open \in BOOLEAN : SetAppRequestableTx(a, open)
  BY DEF SetAppRequestable
<1>2. /\ app' \in [Apps -> AppRows]
      /\ \A b \in Apps : app'[b].there = app[b].there /\ app'[b].refs = app[b].refs
  BY <1>1 DEF SetAppRequestableTx, Records, AccessTypes, AppRows
<1>3. edits' \in 0..MaxEdits
  BY AppAccessAssumption DEF SetAppRequestable, Edit, Records, AccessTypes
<1>4. UNCHANGED <<direct, grp, mem, end, admins, owners, pending, now, debt, issuing, token, overtaken, shortened>>
  BY DEF SetAppRequestable, issueVars
<1> QED
  BY <1>2, <1>3, <1>4 DEF Records, AccessTypes, BareRecords, NamedRequests

\* What goes with a record leaves the rest.
LEMMA CascadeRecords ==
    ASSUME Records, NEW a \in Apps, Cascade(a)
    PROVE  /\ direct' \in [Apps -> [Users -> 0..Never]]
           /\ \A u \in Users : direct'[a][u] = 0
           /\ \A b \in Apps \ {a} : direct'[b] = direct[b] /\ (b \in grp' <=> b \in grp)
           /\ grp' \subseteq Apps /\ a \notin grp'
           /\ owners' \subseteq Apps \X Users
           /\ pending' \in [AccessRequests -> ReqRows]
           /\ NamedRequests'
  BY NeverLast, RegistryType DEF Records, AccessTypes, Cascade, NamedRequests

\* Linking: one record takes the other's connections, which goes with all it had.
LEMMA LinkRecords ==
    ASSUME Records, NEW a \in Apps, NEW b \in Apps, LinkAppRecords(a, b)
    PROVE  Records'
<1>1. /\ app' = Merged(a, b) /\ Cascade(b) /\ a # b /\ app[a].there /\ app[b].there
      /\ edits < MaxEdits /\ edits' = edits + 1
      /\ UNCHANGED <<mem, end, admins, now, debt, issuing, token, overtaken, shortened>>
  BY DEF LinkAppRecords, LinkAppRecordsTx, Edit, issueVars
<1>2. /\ app'[a] = [app[a] EXCEPT !.refs = @ \cup app[b].refs] /\ app'[b] = NewApp({})
      /\ \A c \in Apps \ {a, b} : app'[c] = app[c]
  BY <1>1 DEF Merged, Records, AccessTypes
<1>3. /\ app'[a].refs = app[a].refs \cup app[b].refs /\ app'[a].there /\ app[a].refs # {}
      /\ app'[a] \in AppRows
  BY <1>1, <1>2, RegistryType, Apart DEF AppRows
<1>4. app'[b].refs = {} /\ ~app'[b].there /\ app'[b] \in AppRows
  BY <1>2, FreshRow
<1>5. /\ \A c \in Apps : app'[c].there <=> app'[c].refs # {}
      /\ \A c, d \in Apps : c # d => app'[c].refs \cap app'[d].refs = {}
  <2>1. /\ \A c \in Apps : app[c].there <=> app[c].refs # {}
        /\ \A c, d \in Apps : c # d => app[c].refs \cap app[d].refs = {}
    BY Apart
  <2>2. \A c \in Apps \ {a, b} : app'[c].refs = app[c].refs /\ app'[c].there = app[c].there
    BY <1>2
  <2>3. \A c \in Apps : app'[c].there <=> app'[c].refs # {}
    BY <1>3, <1>4, <2>1, <2>2
  <2>4. ASSUME NEW c \in Apps, NEW d \in Apps, c # d, c # b, d # b
        PROVE  app'[c].refs \cap app'[d].refs = {}
    BY <1>3, <2>1, <2>2, <2>4
  <2> QED
    BY <1>4, <2>3, <2>4
<1>7. app' \in [Apps -> AppRows]
  <2>1. \A c \in Apps : app'[c] \in AppRows
    BY <1>2, <1>3, <1>4, RegistryType
  <2> QED
    BY <1>1, <2>1 DEF Merged, Records, AccessTypes
<1>6. BareRecords'
  <2>1. /\ \A c \in Apps \ {a, b} : app'[c].there = app[c].there
        /\ \A c \in Apps \ {b} : direct'[c] = direct[c] /\ (c \in grp' <=> c \in grp)
        /\ b \notin grp' /\ \A u \in Users : direct'[b][u] = 0
    BY <1>1, <1>2, CascadeRecords
  <2> QED
    BY <1>3, <2>1 DEF Records, BareRecords
<1> QED
  BY <1>1, <1>5, <1>6, <1>7, CascadeRecords, AppAccessAssumption DEF Records, AccessTypes

\* Unlinking: both records keep a connection, and none is shared.
LEMMA UnlinkRecords ==
    ASSUME Records, NEW a \in Apps, NEW b \in Apps, NEW c \in Connections, UnlinkAppRecord(a, b, c)
    PROVE  /\ Records'
           /\ a # b /\ app'[a].refs = app[a].refs \ {c} /\ app'[b].refs = {c}
<1>1. /\ app[a].there /\ ~app[b].there /\ c \in app[a].refs /\ Cardinality(app[a].refs) >= 2
      /\ app' = [app EXCEPT ![a].refs = @ \ {c},
                            ![b] = [NewApp({c}) EXCEPT !.mode = app[a].mode, !.enabled = app[a].enabled]]
      /\ direct' = [direct EXCEPT ![b] = [u \in Users |-> CopiedGrants(a, u)]]
      /\ grp' = IF a \in grp THEN grp \cup {b} ELSE grp
      /\ edits < MaxEdits /\ edits' = edits + 1
      /\ UNCHANGED <<mem, end, admins, owners, pending, now, debt, issuing, token, overtaken, shortened>>
  BY DEF UnlinkAppRecord, UnlinkAppRecordTx, Edit, issueVars
<1>2. a # b
  BY <1>1
<1>3. app[a].refs \ {c} # {}
  <2>1. SUFFICES ASSUME app[a].refs = {c} PROVE FALSE
    BY <1>1
  <2>2. Cardinality({c}) = 1
    BY FS_Singleton
  <2> QED
    BY <1>1, <2>1, <2>2
<1>4. /\ app'[a] = [app[a] EXCEPT !.refs = @ \ {c}]
      /\ app'[b] = [NewApp({c}) EXCEPT !.mode = app[a].mode, !.enabled = app[a].enabled]
      /\ \A d \in Apps \ {a, b} : app'[d] = app[d]
  BY <1>1, <1>2 DEF Records, AccessTypes
<1>5. app'[a].refs = app[a].refs \ {c} /\ app'[a].there /\ app'[a] \in AppRows
  <2>1. app[a] \in AppRows /\ app[a].there
    BY <1>1, RegistryType
  <2> QED
    BY <1>4, <2>1 DEF AppRows
<1>6. app'[b].refs = {c} /\ app'[b].there /\ app'[b] \in AppRows
  <2>1. NewApp({c}) \in AppRows /\ NewApp({c}).refs = {c} /\ NewApp({c}).there
    BY FreshRow
  <2>2. app[a] \in AppRows
    BY RegistryType
  <2> QED
    BY <1>4, <2>1, <2>2 DEF AppRows
<1>10. /\ \A d \in Apps : app'[d].there <=> app'[d].refs # {}
       /\ \A d, e \in Apps : d # e => app'[d].refs \cap app'[e].refs = {}
  <2>1. /\ \A d \in Apps : app[d].there <=> app[d].refs # {}
        /\ \A d, e \in Apps : d # e => app[d].refs \cap app[e].refs = {}
    BY Apart
  <2>2. \A d \in Apps \ {a, b} : app'[d].refs = app[d].refs /\ app'[d].there = app[d].there
    BY <1>4
  <2>3. c \in app[a].refs
    BY <1>1
  <2>4. \A d \in Apps : app'[d].there <=> app'[d].refs # {}
    BY <1>3, <1>5, <1>6, <2>1, <2>2
  <2>5. ASSUME NEW d \in Apps, NEW e \in Apps, d # e PROVE app'[d].refs \cap app'[e].refs = {}
    BY <1>5, <1>6, <2>1, <2>2, <2>3, <2>5
  <2> QED
    BY <2>4, <2>5
<1>11. app' \in [Apps -> AppRows]
  <2>1. \A d \in Apps : app'[d] \in AppRows
    BY <1>4, <1>5, <1>6, RegistryType
  <2> QED
    BY <1>1, <2>1 DEF Records, AccessTypes
<1>7. direct' \in [Apps -> [Users -> 0..Never]] /\ \A d \in Apps \ {b} : direct'[d] = direct[d]
  BY <1>1, RegistryType DEF CopiedGrants, Records, AccessTypes
<1>8. BareRecords'
  BY <1>1, <1>4, <1>5, <1>6, <1>7 DEF Records, BareRecords
<1>9. NamedRequests' /\ grp' \subseteq Apps /\ edits' \in 0..MaxEdits
  BY <1>1, AppAccessAssumption DEF Records, AccessTypes, NamedRequests
<1> QED
  BY <1>1, <1>2, <1>5, <1>6, <1>7, <1>8, <1>9, <1>10, <1>11 DEF Records, AccessTypes

\* A grant to a user, of any end.
LEMMA GrantRecords ==
    ASSUME Records, NEW a \in Apps, NEW u \in Users, NEW e \in 0..Never, ApplyUserAssignment(a, u, e)
    PROVE  /\ direct' \in [Apps -> [Users -> 0..Never]] /\ token' \in [Users -> 0..Never]
           /\ issuing' \in [Users -> 0..Never]
           /\ UNCHANGED <<app, grp, mem, end, now>> /\ BareRecords'
           /\ \A b \in Apps, v \in Users : direct'[b][v] = IF b = a /\ v = u THEN e ELSE direct[b][v]
<1>1. /\ app[a].there /\ direct' = [direct EXCEPT ![a][u] = e]
      /\ UNCHANGED <<app, grp, mem, end, now>> /\ RevokeLostAppAccess
  BY DEF ApplyUserAssignment
<1>2. token' \in [Users -> 0..Never] /\ issuing' \in [Users -> 0..Never]
  BY <1>1, RevokeType DEF Records
<1>3. /\ direct' \in [Apps -> [Users -> 0..Never]]
      /\ \A b \in Apps, v \in Users : direct'[b][v] = IF b = a /\ v = u THEN e ELSE direct[b][v]
  BY <1>1 DEF Records, AccessTypes
<1> QED
  BY <1>1, <1>2, <1>3 DEF Records, BareRecords

\* A grant to the group, or its end.
LEMMA GroupRecords ==
    ASSUME Records, NEW a \in Apps, NEW assigned \in BOOLEAN, ApplyGroupAssignment(a, assigned)
    PROVE  /\ grp' \subseteq Apps /\ token' \in [Users -> 0..Never]
           /\ issuing' \in [Users -> 0..Never]
           /\ UNCHANGED <<app, direct, mem, end, now>> /\ BareRecords'
<1>1. /\ app[a].there /\ grp' = IF assigned THEN grp \cup {a} ELSE grp \ {a}
      /\ UNCHANGED <<app, direct, mem, end, now>> /\ RevokeLostAppAccess
  BY DEF ApplyGroupAssignment
<1>2. token' \in [Users -> 0..Never] /\ issuing' \in [Users -> 0..Never]
  BY <1>1, RevokeType DEF Records
<1> QED
  BY <1>1, <1>2 DEF Records, AccessTypes, BareRecords

\* An expiry an administrator may set is an instant ahead.
LEMMA ExpiriesType ==
    ASSUME NEW e \in {0} \cup Expiries
    PROVE  e \in 0..Never /\ (e # 0 => e \in Instants /\ now < e)
  BY NeverLast DEF Expiries, Instants

\* SetAppAssignment keeps the registry.
LEMMA AssignmentRecords ==
    ASSUME Records, NEW a \in Apps, SetAppAssignment(a)
    PROVE  Records'
<1>1. /\ Shortens /\ edits < MaxEdits /\ edits' = edits + 1
      /\ UNCHANGED <<admins, owners, pending, debt>>
  BY DEF SetAppAssignment, Edit
<1>2. shortened' \subseteq Users /\ overtaken' \subseteq Users /\ edits' \in 0..MaxEdits
  BY <1>1, ShortensType, AppAccessAssumption DEF Records, AccessTypes
<1>3. ASSUME NEW u \in Users, NEW e \in {0} \cup Expiries, ApplyUserAssignment(a, u, e)
      PROVE  Records'
  <2>1. e \in 0..Never
    BY ExpiriesType
  <2> QED
    BY <1>1, <1>2, <1>3, <2>1, GrantRecords DEF Records, AccessTypes, NamedRequests
<1>4. ASSUME NEW assigned \in BOOLEAN, ApplyGroupAssignment(a, assigned)
      PROVE  Records'
  BY <1>1, <1>2, <1>4, GroupRecords DEF Records, AccessTypes, NamedRequests
<1> QED
  BY <1>3, <1>4 DEF SetAppAssignment

\* SetMembership keeps the registry.
LEMMA MembershipRecords ==
    ASSUME Records, NEW u \in Users, NEW e \in {0} \cup Expiries, SetMembership(u, e)
    PROVE  Records'
<1>1. /\ token' \in [Users -> 0..Never] /\ issuing' \in [Users -> 0..Never]
      /\ shortened' \subseteq Users /\ overtaken' \subseteq Users /\ edits' \in 0..MaxEdits
  BY RevokeType, ShortensType, AppAccessAssumption DEF SetMembership, Edit, Records, AccessTypes
<1>2. mem' \in [Users -> 0..Never]
  BY ExpiriesType DEF SetMembership, Records, AccessTypes
<1>3. UNCHANGED <<app, direct, grp, end, now, admins, owners, pending, debt>>
  BY DEF SetMembership
<1> QED
  BY <1>1, <1>2, <1>3 DEF Records, AccessTypes, BareRecords, NamedRequests

\* SetEnd keeps the registry, and its end is ahead.
LEMMA EndRecords ==
    ASSUME Records, NEW u \in Users, NEW e \in Expiries, SetEnd(u, e)
    PROVE  Records' /\ now < e
<1>1. shortened' \subseteq Users /\ overtaken' \subseteq Users /\ edits' \in 0..MaxEdits
  BY ShortensType, AppAccessAssumption DEF SetEnd, Edit, Records, AccessTypes
<1>2. end' \in [Users -> Instants] /\ now < e
  BY DEF SetEnd, Expiries, Records, AccessTypes
<1>3. UNCHANGED <<app, direct, grp, mem, now, admins, owners, pending, debt, issuing, token>>
  BY DEF SetEnd
<1> QED
  BY <1>1, <1>2, <1>3 DEF Records, AccessTypes, BareRecords, NamedRequests

\* SetAuthority keeps the registry.
LEMMA AuthorityRecords ==
    ASSUME Records, NEW u \in Users, SetAuthority(u)
    PROVE  Records'
<1>1. admins' \subseteq Users /\ owners' \subseteq Apps \X Users /\ edits' \in 0..MaxEdits
  BY AppAccessAssumption DEF SetAuthority, Edit, Records, AccessTypes
<1>2. UNCHANGED <<app, direct, grp, mem, end, pending, now, debt, issuing, token, overtaken, shortened>>
  BY DEF SetAuthority, issueVars
<1> QED
  BY <1>1, <1>2 DEF Records, AccessTypes, BareRecords, NamedRequests

\* A request that is created names its user and a record.
LEMMA CreateRecords ==
    ASSUME Records, NEW r \in AccessRequests, NEW u \in Users, Create(r, u)
    PROVE  Records'
<1>1. PICK a \in Apps, d \in 0..MaxDuration : CreateAccessRequest(r, u, a, d)
  BY DEF Create
<1>2. [app |-> a, user |-> u, duration |-> d, expires |-> now + RequestTTL] \in ReqRows
  BY NeverLast DEF ReqRows, Records, AccessTypes
<1>3. pending' \in [AccessRequests -> ReqRows] /\ NamedRequests'
  BY <1>1, <1>2 DEF CreateAccessRequest, Records, AccessTypes, NamedRequests
<1>4. UNCHANGED <<app, direct, grp, mem, end, admins, owners, now, debt, issuing, token, overtaken, shortened>>
  BY DEF Create, issueVars
<1>5. edits' \in 0..MaxEdits
  BY AppAccessAssumption DEF Create, Edit, Records, AccessTypes
<1> QED
  BY <1>3, <1>4, <1>5 DEF Records, AccessTypes, BareRecords

\* Cancel keeps the registry.
LEMMA CancelRecords ==
    ASSUME Records, NEW r \in AccessRequests, Cancel(r)
    PROVE  Records'
<1>1. pending' \in [AccessRequests -> ReqRows] /\ NamedRequests'
  BY RegistryType DEF Cancel, Records, AccessTypes, NamedRequests
<1>2. UNCHANGED <<app, direct, grp, mem, end, admins, owners, now, edits, debt, issuing, token, overtaken, shortened>>
  BY DEF Cancel, issueVars
<1> QED
  BY <1>1, <1>2 DEF Records, AccessTypes, BareRecords

\* What an approval writes, if it writes: a grant ahead that replaces a shorter one.
LEMMA DecisionGrant ==
    ASSUME Records, NEW r \in AccessRequests, NEW by \in Users, NEW approve \in BOOLEAN,
           DecideAccessRequest(r, by, approve)
    PROVE  \/ UNCHANGED <<app, direct, grp, mem, end, issuing, token, now>>
           \/ \E a \in Apps, u \in Users, e \in 0..Never :
                 ApplyUserAssignment(a, u, e) /\ now < e /\ direct[a][u] <= e
<1> DEFINE q == pending[r]
           e == IF q.duration = 0 THEN Never ELSE now + q.duration
<1>1. q # NoReq /\ q.app \in Apps /\ q.user \in Users /\ q.duration \in 0..MaxDuration
  BY RegistryType DEF DecideAccessRequest, Records, NamedRequests, ReqRows
<1>2. e \in 0..Never /\ now < e /\ now \in Nat
  BY <1>1, NeverLast, RegistryType, AppAccessAssumption
<1>3. direct[q.app][q.user] \in 0..Never
  BY <1>1, RegistryType
<1>4. CASE approve /\ ~KeepsLonger(q.app, q.user, e)
  <2>1. ApplyUserAssignment(q.app, q.user, e)
    BY <1>4 DEF DecideAccessRequest
  <2>2. direct[q.app][q.user] <= e
    BY <1>2, <1>3, <1>4, NeverLast DEF KeepsLonger
  <2> QED
    BY <1>1, <1>2, <2>1, <2>2
<1>5. CASE ~(approve /\ ~KeepsLonger(q.app, q.user, e))
  BY <1>5 DEF DecideAccessRequest
<1> QED
  BY <1>4, <1>5

\* A decision keeps the registry.
LEMMA DecideRecords ==
    ASSUME Records, NEW r \in AccessRequests, NEW by \in Users, Decide(r, by)
    PROVE  Records'
<1>1. PICK approve \in BOOLEAN : DecideAccessRequest(r, by, approve)
  BY DEF Decide
<1>2. pending' \in [AccessRequests -> ReqRows] /\ NamedRequests'
  BY <1>1, RegistryType DEF DecideAccessRequest, Records, AccessTypes, NamedRequests
<1>3. shortened' \subseteq Users /\ overtaken' \subseteq Users /\ UNCHANGED <<admins, owners, edits, debt>>
  BY ShortensType DEF Decide, Records
<1>4. CASE UNCHANGED <<app, direct, grp, mem, end, issuing, token, now>>
  BY <1>2, <1>3, <1>4 DEF Records, AccessTypes, BareRecords
<1>5. ASSUME NEW a \in Apps, NEW u \in Users, NEW e \in 0..Never, ApplyUserAssignment(a, u, e)
      PROVE  Records'
  BY <1>2, <1>3, <1>5, GrantRecords DEF Records, AccessTypes
<1> QED
  BY <1>1, <1>4, <1>5, DecisionGrant

\* The clock keeps the registry.
LEMMA TickRecords == ASSUME Records, Tick PROVE Records'
<1>1. now' \in 0..MaxTime /\ debt' \in BOOLEAN
  BY AppAccessAssumption DEF Tick, Records, AccessTypes
<1>2. token' \in [Users -> 0..Never] /\ shortened' \subseteq Users
  BY NeverLast DEF Tick, Records, AccessTypes
<1>3. UNCHANGED <<app, direct, grp, mem, end, admins, owners, pending, issuing, overtaken, edits>>
  BY DEF Tick
<1> QED
  BY <1>1, <1>2, <1>3 DEF Records, AccessTypes, BareRecords, NamedRequests

\* A lapsed assignment goes.
LEMMA ExpireRecords ==
    ASSUME Records, NEW a \in Apps, NEW u \in Users, ExpireAssignment(a, u)
    PROVE  Records'
<1>1. direct' \in [Apps -> [Users -> 0..Never]] /\ BareRecords'
  BY NeverLast DEF ExpireAssignment, Records, AccessTypes, BareRecords
<1>2. UNCHANGED <<app, grp, mem, end, admins, owners, pending, now, edits, debt, issuing, token, overtaken, shortened>>
  BY DEF ExpireAssignment, issueVars
<1> QED
  BY <1>1, <1>2 DEF Records, AccessTypes, NamedRequests

\* A lapsed membership goes.
LEMMA LeaveRecords ==
    ASSUME Records, NEW u \in Users, ExpireMembership(u)
    PROVE  Records'
<1>1. mem' \in [Users -> 0..Never]
  BY NeverLast DEF ExpireMembership, Records, AccessTypes
<1>2. UNCHANGED <<app, direct, grp, end, admins, owners, pending, now, edits, debt, issuing, token, overtaken, shortened>>
  BY DEF ExpireMembership, issueVars
<1> QED
  BY <1>1, <1>2 DEF Records, AccessTypes, BareRecords, NamedRequests

\* The follow-up keeps the registry.
LEMMA FollowUpRecords == ASSUME Records, ExpiryFollowUp PROVE Records'
<1>1. pending' \in [AccessRequests -> ReqRows] /\ NamedRequests'
  BY RegistryType DEF ExpiryFollowUp, Records, AccessTypes, NamedRequests
<1>2. token' \in [Users -> 0..Never] /\ issuing' \in [Users -> 0..Never] /\ debt' \in BOOLEAN
  BY RevokeType DEF ExpiryFollowUp, Records
<1>4. shortened' \subseteq Users
  BY DEF ExpiryFollowUp, Records, AccessTypes
<1>3. UNCHANGED <<app, direct, grp, mem, end, now, admins, owners, edits, overtaken>>
  BY DEF ExpiryFollowUp
<1> QED
  BY <1>1, <1>2, <1>3, <1>4 DEF Records, AccessTypes, BareRecords

\* A token request has an instant of the clock in hand, and a token it records has one.
LEMMA IssueRecords ==
    ASSUME Records, NEW u \in Users, ReadAccessEnd(u) \/ RecordToken(u) \/ TokenNotIssued(u)
    PROVE  Records'
<1>1. now + TokenTTL \in 0..Never /\ ReadEnd(u) \in 0..Never /\ 0 \in 0..Never /\ issuing[u] \in 0..Never
  BY NeverLast, ClientEnds DEF Records, AccessTypes
<1>2. Least(now + TokenTTL, ReadEnd(u)) \in 0..Never
  BY <1>1 DEF Least
<1>3. /\ issuing' \in [Users -> 0..Never] /\ token' \in [Users -> 0..Never]
      /\ shortened' \subseteq Users /\ overtaken' \subseteq Users
  BY <1>1, <1>2 DEF ReadAccessEnd, RecordToken, TokenNotIssued, Records, AccessTypes
<1>4. UNCHANGED <<app, direct, grp, mem, end, admins, owners, pending, now, edits, debt>>
  BY DEF ReadAccessEnd, RecordToken, TokenNotIssued
<1> QED
  BY <1>3, <1>4 DEF Records, AccessTypes, BareRecords, NamedRequests

-----------------------------------------------------------------------------
(* Steps that keep who may use the client, and until when.                  *)

Keeps(u) == ClientAccess(u)' = ClientAccess(u) /\ ReadEnd(u)' = ReadEnd(u)

\* Nothing access depends on changes.
LEMMA SameDirectory ==
    ASSUME NEW u \in Users, UNCHANGED <<app, direct, grp, mem, end, now>>
    PROVE  Keeps(u)
  BY DEF Keeps, ClientAccess, ReadEnd, Access, AccessEndsAt, Active, Assigned, Ahead

\* Record y stands where x stood: the same switches, and the same grants ahead.
Stands(x, y, u) ==
    /\ app'[y].there = app[x].there /\ app'[y].enabled = app[x].enabled /\ app'[y].mode = app[x].mode
    /\ Ahead(direct[y][u])' = Ahead(direct[x][u]) /\ Ahead(mem[u])' = Ahead(mem[u])
    /\ y \in grp' <=> x \in grp
    /\ end' = end /\ now' = now

\* Its access is what the other's was.
LEMMA StandsAccess ==
    ASSUME Records, Records', NEW x \in Apps, NEW y \in Apps, NEW u \in Users, Stands(x, y, u)
    PROVE  (Access(y, u)' <=> Access(x, u)) /\ AccessEndsAt(y, u)' = AccessEndsAt(x, u)
<1>1. /\ direct[x][u] \in Nat /\ direct'[y][u] \in Nat /\ mem[u] \in Nat /\ mem'[u] \in Nat
      /\ now \in Nat /\ now' = now
  BY NeverLast DEF Stands, Records, AccessTypes
<1>2. /\ direct'[y][u] > now' <=> direct[x][u] > now
      /\ mem'[u] > now' <=> mem[u] > now
  BY <1>1 DEF Stands, Ahead
<1>3. Access(y, u)' <=> Access(x, u)
  BY <1>2 DEF Stands, Access, Active, Assigned
<1>4. AccessEndsAt(y, u)' = AccessEndsAt(x, u)
  BY DEF Stands, AccessEndsAt
<1> QED
  BY <1>3, <1>4

\* When the client moves to it, or stays, nobody's access changes.
LEMMA StandsClient ==
    ASSUME Records, Records', NEW x \in Apps, NEW y \in Apps, NEW u \in Users, Stands(x, y, u),
           Client \in app[x].refs, Client \in app'[y].refs
    PROVE  Keeps(u)
<1>1. /\ ClientAccess(u) <=> Access(x, u)
      /\ ReadEnd(u) = AccessEndsAt(x, u)
  BY ClientOf DEF Records
<1>2. /\ ClientAccess(u)' <=> Access(y, u)'
      /\ ReadEnd(u)' = AccessEndsAt(y, u)'
  BY ClientOfNext DEF Records
<1>3. ClientAccess(u)' \in BOOLEAN /\ ClientAccess(u) \in BOOLEAN
  BY DEF ClientAccess
<1> QED
  BY <1>1, <1>2, <1>3, StandsAccess DEF Keeps, Stands

\* A client without a record is nobody's before and after.
LEMMA NobodysClient ==
    ASSUME NEW u \in Users, now' = now,
           \A a \in Apps : Client \notin app[a].refs /\ Client \notin app'[a].refs
    PROVE  Keeps(u)
  BY DEF Keeps, ClientAccess, ReadEnd

\* Linked records have the same policy and no grants.
LEMMA LinkKeeps ==
    ASSUME Records, NEW a \in Apps, NEW b \in Apps, LinkAppRecords(a, b), NEW u \in Users
    PROVE  Keeps(u)
<1>1. /\ a # b /\ app[a].there /\ app[b].there /\ EnsureAppLinkPolicies(a, b)
      /\ app' = Merged(a, b) /\ Cascade(b) /\ UNCHANGED <<mem, end, now>>
  BY DEF LinkAppRecords, LinkAppRecordsTx
<1>2. Records'
  BY LinkRecords
<1>3. /\ app'[a] = [app[a] EXCEPT !.refs = @ \cup app[b].refs] /\ app'[b] = NewApp({})
      /\ \A c \in Apps \ {a, b} : app'[c] = app[c]
  BY <1>1 DEF Merged, Records, AccessTypes
<1>4. app[a] \in AppRows /\ app[b] \in AppRows
  BY RegistryType
<1>5. /\ app'[a].refs = app[a].refs \cup app[b].refs /\ app'[b].refs = {}
      /\ app'[a].there = app[a].there /\ app'[a].mode = app[a].mode /\ app'[a].enabled = app[a].enabled
  BY <1>3, <1>4 DEF NewApp, AppRows
<1>6. \A c \in Apps \ {b} : direct'[c] = direct[c] /\ (c \in grp' <=> c \in grp)
  BY <1>1, CascadeRecords
<1>7. CASE Client \in app[a].refs
  <2>1. Stands(a, a, u)
    BY <1>1, <1>5, <1>6 DEF Stands, Ahead
  <2> QED
    BY <1>2, <1>5, <1>7, <2>1, StandsClient
<1>8. CASE Client \in app[b].refs
  <2>1. /\ direct'[a][u] = direct[b][u] /\ a \notin grp /\ b \notin grp
        /\ app[a].mode = app[b].mode /\ app[a].enabled = app[b].enabled
    BY <1>1, <1>6 DEF EnsureAppLinkPolicies
  <2>2. app[a].there = app[b].there
    BY <1>1, <1>4 DEF AppRows
  <2>3. Stands(b, a, u)
    BY <1>1, <1>5, <1>6, <2>1, <2>2 DEF Stands, Ahead
  <2> QED
    BY <1>2, <1>5, <1>8, <2>3, StandsClient
<1>9. ASSUME NEW c \in Apps \ {a, b}, Client \in app[c].refs PROVE Keeps(u)
  <2>1. Stands(c, c, u)
    BY <1>1, <1>3, <1>6, <1>9 DEF Stands, Ahead
  <2> QED
    BY <1>2, <1>3, <1>9, <2>1, StandsClient
<1>10. CASE \A c \in Apps : Client \notin app[c].refs
  <2>1. \A c \in Apps : Client \notin app'[c].refs
    BY <1>3, <1>5, <1>10
  <2> QED
    BY <1>1, <1>10, <2>1, NobodysClient
<1> QED
  BY <1>7, <1>8, <1>9, <1>10

\* An unlinked record starts with its origin's policy and grants.
LEMMA UnlinkKeeps ==
    ASSUME Records, NEW a \in Apps, NEW b \in Apps, NEW c \in Connections, UnlinkAppRecord(a, b, c),
           NEW u \in Users
    PROVE  Keeps(u)
<1>1. /\ app[a].there /\ ~app[b].there /\ c \in app[a].refs
      /\ app' = [app EXCEPT ![a].refs = @ \ {c},
                            ![b] = [NewApp({c}) EXCEPT !.mode = app[a].mode, !.enabled = app[a].enabled]]
      /\ direct' = [direct EXCEPT ![b] = [v \in Users |-> direct[a][v]]]
      /\ grp' = IF a \in grp THEN grp \cup {b} ELSE grp
      /\ UNCHANGED <<mem, end, now>>
  BY DEF UnlinkAppRecord, UnlinkAppRecordTx, CopiedGrants
<1>13. app[a].there /\ c \in app[a].refs /\ UNCHANGED <<mem, end, now>>
  BY <1>1
<1>2. Records' /\ a # b /\ app'[a].refs = app[a].refs \ {c} /\ app'[b].refs = {c}
  BY UnlinkRecords
<1>3. /\ app'[a] = [app[a] EXCEPT !.refs = @ \ {c}]
      /\ app'[b] = [NewApp({c}) EXCEPT !.mode = app[a].mode, !.enabled = app[a].enabled]
      /\ \A d \in Apps \ {a, b} : app'[d] = app[d]
  BY <1>1, <1>2 DEF Records, AccessTypes
<1>4. app[a] \in AppRows /\ NewApp({c}) \in AppRows /\ NewApp({c}).there /\ NewApp({c}).enabled \in BOOLEAN
  BY RegistryType, FreshRow DEF AppRows
<1>5. \A d \in {a, b} : /\ app'[d].there = app[a].there /\ app'[d].mode = app[a].mode
                        /\ app'[d].enabled = app[a].enabled
  <2>1. app'[a].there = app[a].there /\ app'[a].mode = app[a].mode /\ app'[a].enabled = app[a].enabled
    BY <1>3, <1>4 DEF AppRows
  <2>2. /\ app'[b].there = NewApp({c}).there /\ app'[b].mode = app[a].mode
        /\ app'[b].enabled = app[a].enabled
    BY <1>3, <1>4 DEF AppRows
  <2>3. NewApp({c}).there = app[a].there
    BY <1>4, <1>13 DEF AppRows
  <2> QED
    BY <2>1, <2>2, <2>3
<1>6. app[b].refs = {}
  BY <1>1, Apart
<1>7. b \notin grp
  BY <1>1 DEF Records, BareRecords
<1>8. /\ \A d \in Apps \ {b} : direct'[d] = direct[d] /\ (d \in grp' <=> d \in grp)
      /\ direct'[b][u] = direct[a][u] /\ (b \in grp' <=> a \in grp)
  BY <1>1, <1>2, <1>7 DEF Records, AccessTypes
<1>9. CASE Client \in app[a].refs /\ c = Client
  <2>1. Stands(a, b, u)
    BY <1>5, <1>8, <1>13 DEF Stands, Ahead
  <2> QED
    BY <1>2, <1>9, <2>1, StandsClient
<1>10. CASE Client \in app[a].refs /\ c # Client
  <2>1. Stands(a, a, u)
    BY <1>2, <1>5, <1>8, <1>13 DEF Stands, Ahead
  <2> QED
    BY <1>2, <1>10, <2>1, StandsClient
<1>11. ASSUME NEW d \in Apps \ {a, b}, Client \in app[d].refs PROVE Keeps(u)
  <2>1. Stands(d, d, u)
    BY <1>3, <1>8, <1>11, <1>13 DEF Stands, Ahead
  <2> QED
    BY <1>2, <1>3, <1>11, <2>1, StandsClient
<1>12. CASE \A d \in Apps : Client \notin app[d].refs
  <2>1. \A d \in Apps : Client \notin app'[d].refs
    <3>1. c # Client
      BY <1>12, <1>13
    <3>2. \A d \in Apps \ {a, b} : app'[d].refs = app[d].refs
      BY <1>3
    <3> QED
      BY <1>2, <1>12, <3>1, <3>2
  <2> QED
    BY <1>12, <1>13, <2>1, NobodysClient
<1> QED
  BY <1>6, <1>9, <1>10, <1>11, <1>12

\* The record of a connection stays, and so do the grants ahead.
LEMMA EachStands ==
    ASSUME Records, Records', NEW u \in Users, now' = now,
           \A a \in Apps : Stands(a, a, u) /\ app'[a].refs = app[a].refs
    PROVE  Keeps(u)
<1>1. CASE \E a \in Apps : Client \in app[a].refs
  BY <1>1, StandsClient
<1>2. CASE \A a \in Apps : Client \notin app[a].refs
  BY <1>2, NobodysClient
<1> QED
  BY <1>1, <1>2

\* Whether a record is open to requests is not a matter of access.
LEMMA RequestableKeeps ==
    ASSUME Records, NEW a \in Apps, SetAppRequestable(a), NEW u \in Users
    PROVE  Keeps(u)
<1>1. PICK open \in BOOLEAN : SetAppRequestableTx(a, open)
  BY DEF SetAppRequestable
<1>2. UNCHANGED <<direct, grp, mem, end, now>>
  BY DEF SetAppRequestable
<1>3. \A b \in Apps : /\ app'[b].there = app[b].there /\ app'[b].enabled = app[b].enabled
                      /\ app'[b].mode = app[b].mode /\ app'[b].refs = app[b].refs
  BY <1>1 DEF SetAppRequestableTx, Records, AccessTypes, AppRows
<1> QED
  BY <1>2, <1>3, RequestableRecords, EachStands DEF Stands, Ahead

\* What has lapsed counts for nothing before its row goes.
LEMMA ExpireKeeps ==
    ASSUME Records, NEW a \in Apps, NEW v \in Users, ExpireAssignment(a, v), NEW u \in Users
    PROVE  Keeps(u)
<1>1. /\ direct[a][v] <= now /\ direct' = [direct EXCEPT ![a][v] = 0]
      /\ UNCHANGED <<app, grp, mem, end, now>>
  BY DEF ExpireAssignment, Due
<1>2. \A b \in Apps : Ahead(direct[b][u])' = Ahead(direct[b][u])
  BY <1>1, RegistryType, NeverLast DEF Ahead, Records, AccessTypes
<1> QED
  BY <1>1, <1>2, ExpireRecords, EachStands DEF Stands, Ahead

\* Nor does a lapsed membership.
LEMMA LeaveKeeps ==
    ASSUME Records, NEW v \in Users, ExpireMembership(v), NEW u \in Users
    PROVE  Keeps(u)
<1>1. /\ mem[v] <= now /\ mem' = [mem EXCEPT ![v] = 0]
      /\ UNCHANGED <<app, direct, grp, end, now>>
  BY DEF ExpireMembership, Due
<1>2. Ahead(mem[u])' = Ahead(mem[u])
  BY <1>1, RegistryType, NeverLast DEF Ahead, Records, AccessTypes
<1>3. \A b \in Apps : Ahead(direct[b][u])' = Ahead(direct[b][u])
  BY <1>1 DEF Ahead
<1> QED
  BY <1>1, <1>2, <1>3, LeaveRecords, EachStands DEF Stands

-----------------------------------------------------------------------------
(* Tokens.                                                                  *)

Tokens == BoundedTokens /\ TokenEndsWithAccess

\* A step that keeps access and tokens.
LEMMA QuietTokens ==
    ASSUME Tokens, UNCHANGED <<issuing, token, overtaken, shortened, debt, now>>, \A u \in Users : Keeps(u)
    PROVE  Tokens'
  BY DEF Tokens, BoundedTokens, TokenEndsWithAccess, Keeps

\* The end of access that a token was bounded to holds until an edit is recorded to shorten it.
LEMMA StillBounded ==
    ASSUME Records, Records', BoundedTokens, Shortens, now' = now, NEW u \in Users,
           token'[u] # 0, token'[u] = token[u], ClientAccess(u)' \/ ClientAccess(u)' = ClientAccess(u)
    PROVE  /\ now' < token'[u]
           /\ u \notin shortened' => ClientAccess(u)' /\ token'[u] <= ReadEnd(u)'
<1>1. token[u] \in Nat /\ ReadEnd(u) \in Nat /\ ReadEnd(u)' \in Nat
  BY RegistryType, NeverLast, ClientEnds, ClientEndsNext DEF Records
<1>2. now < token[u]
  BY DEF BoundedTokens
<1>3. ASSUME u \notin shortened' PROVE ClientAccess(u)' /\ token'[u] <= ReadEnd(u)'
  <2>1. u \notin shortened /\ ~(ReadEnd(u)' < ReadEnd(u))
    BY <1>3 DEF Shortens, Closer
  <2>2. ClientAccess(u) /\ token[u] <= ReadEnd(u)
    BY <2>1 DEF BoundedTokens
  <2>3. ClientAccess(u)'
    BY <2>2
  <2>4. token'[u] <= ReadEnd(u)'
    BY <1>1, <2>1, <2>2
  <2> QED
    BY <2>3, <2>4
<1> QED
  BY <1>2, <1>3

\* So does the end that was read for a token which is not recorded yet.
LEMMA StillRead ==
    ASSUME Records, Records', BoundedTokens, Shortens, issuing' = issuing, NEW u \in Users,
           issuing'[u] # 0, u \notin overtaken'
    PROVE  issuing'[u] <= ReadEnd(u)'
<1>1. issuing[u] \in Nat /\ ReadEnd(u) \in Nat /\ ReadEnd(u)' \in Nat
  BY RegistryType, NeverLast, ClientEnds, ClientEndsNext DEF Records
<1>2. u \notin overtaken /\ ~(ReadEnd(u)' < ReadEnd(u))
  BY DEF Shortens, Closer
<1>3. issuing[u] <= ReadEnd(u)
  BY <1>2 DEF BoundedTokens
<1> QED
  BY <1>1, <1>2, <1>3

\* An edit that takes access away takes the tokens with it.
LEMMA EditTokens ==
    ASSUME Records, Records', Tokens, RevokeLostAppAccess, Shortens, UNCHANGED <<debt, now>>
    PROVE  Tokens'
<1>1. /\ issuing' = issuing
      /\ \A u \in Users : token'[u] # 0 => ClientAccess(u)' /\ token'[u] = token[u]
  BY DEF RevokeLostAppAccess
<1>2. BoundedTokens'
  BY <1>1, StillBounded, StillRead DEF Tokens, BoundedTokens
<1>3. TokenEndsWithAccess'
  BY <1>1 DEF TokenEndsWithAccess
<1> QED
  BY <1>2, <1>3 DEF Tokens

\* An edit that takes no access away yet is recorded to shorten it.
LEMMA ScheduleTokens ==
    ASSUME Records, Records', Tokens, Shortens, UNCHANGED <<issuing, token, debt, now>>,
           \A u \in Users : ClientAccess(u)' = ClientAccess(u)
    PROVE  Tokens'
<1>1. BoundedTokens'
  BY StillBounded, StillRead DEF Tokens, BoundedTokens
<1>2. TokenEndsWithAccess'
  BY DEF Tokens, TokenEndsWithAccess, Shortens
<1> QED
  BY <1>1, <1>2 DEF Tokens

\* An account whose end is moved was active and stays so.
LEMMA EndTokens ==
    ASSUME Records, Tokens, NEW u \in Users, NEW e \in Expiries, SetEnd(u, e)
    PROVE  Tokens'
<1>1. Records' /\ now < e
  BY EndRecords
<1>2. /\ end[u] > now /\ end' = [end EXCEPT ![u] = e] /\ Shortens
      /\ UNCHANGED <<app, direct, grp, mem, issuing, token, now, debt>>
  BY DEF SetEnd, Active
<1>3. \A v \in Users : end'[v] > now' <=> end[v] > now
  <2>1. end'[u] = e /\ \A v \in Users \ {u} : end'[v] = end[v]
    BY <1>2 DEF Records, AccessTypes
  <2>2. e \in Nat /\ end[u] \in Nat /\ now \in Nat
    <3>1. e \in Instants
      BY DEF Expiries
    <3>2. end[u] \in Instants /\ now \in Nat
      BY RegistryType
    <3> QED
      BY <3>1, <3>2, NeverLast DEF Instants
  <2> QED
    BY <1>1, <1>2, <2>1, <2>2
<1>4. \A a \in Apps, v \in Users : Access(a, v)' = Access(a, v)
  BY <1>2, <1>3 DEF Access, Active, Assigned
<1>5. \A v \in Users : ClientAccess(v)' = ClientAccess(v)
  BY <1>2, <1>4 DEF ClientAccess
<1> QED
  BY <1>1, <1>2, <1>5, ScheduleTokens

\* Access that ends later than the next instant outlasts it.
LEMMA Outlasts ==
    ASSUME Records, Tick, NEW a \in Apps, NEW u \in Users, Access(a, u), now + 1 < AccessEndsAt(a, u)
    PROVE  Access(a, u)' /\ AccessEndsAt(a, u)' = AccessEndsAt(a, u)
<1>1. /\ direct[a][u] \in Nat /\ mem[u] \in Nat /\ end[u] \in Nat /\ now \in Nat
      /\ app[a].mode \in Modes
  BY RegistryType, NeverLast DEF Instants, AppRows
<1>2. now' = now + 1 /\ UNCHANGED <<app, direct, grp, mem, end>>
  BY DEF Tick
<1>3. CASE app[a].mode = "all_active_users"
  BY <1>1, <1>2, <1>3 DEF Access, Active, AccessEndsAt
<1>4. CASE app[a].mode # "all_active_users"
  <2> DEFINE d == direct[a][u]
             m == IF a \in grp THEN mem[u] ELSE 0
             L == Most(Ahead(d), IF a \in grp THEN Ahead(mem[u]) ELSE 0)
  <2>1. m \in Nat /\ d \in Nat /\ (IF a \in grp THEN Ahead(mem[u]) ELSE 0) = Ahead(m)
    BY <1>1 DEF Ahead
  <2>2. L = Most(Ahead(d), Ahead(m)) /\ L # 0
    BY <1>1, <1>4, <2>1 DEF Access, Assigned, Ahead, Most
  <2>3. AccessEndsAt(a, u) = Least(L, end[u])
    BY <1>4, <2>2 DEF AccessEndsAt
  <2>4. L \in Nat /\ now + 1 < L /\ now + 1 < end[u]
    BY <1>1, <2>1, <2>2, <2>3 DEF Least, Most, Ahead
  <2>5. d > now + 1 \/ m > now + 1
    BY <1>1, <2>1, <2>2, <2>4 DEF Most, Ahead
  <2>6. L' = L
    BY <1>1, <1>2, <2>1, <2>2, <2>4, <2>5 DEF Most, Ahead
  <2>7. Access(a, u)'
    BY <1>1, <1>2, <2>1, <2>4, <2>5 DEF Access, Active, Assigned
  <2>8. AccessEndsAt(a, u)' = Least(L', end'[u])
    BY <1>2, <1>4, <2>2, <2>6 DEF AccessEndsAt
  <2> QED
    BY <1>2, <2>3, <2>6, <2>7, <2>8
<1> QED
  BY <1>3, <1>4

\* What is read for a token never comes closer by the clock alone.
LEMMA ReadOutlasts ==
    ASSUME Records, Records', Tick, NEW u \in Users
    PROVE  ReadEnd(u) <= ReadEnd(u)'
<1>1. now' = now + 1 /\ UNCHANGED <<app, direct, grp, mem, end>>
  BY DEF Tick
<1>2. CASE \E a \in Apps : Client \in app[a].refs
  <2>1. PICK a \in Apps : Client \in app[a].refs
    BY <1>2
  <2>2. ReadEnd(u) = AccessEndsAt(a, u) /\ ReadEnd(u)' = AccessEndsAt(a, u)'
    BY <1>1, <2>1, ClientOf, ClientOfNext DEF Records
  <2>3. direct[a][u] \in Nat /\ mem[u] \in Nat /\ end[u] \in Nat /\ now \in Nat
    BY RegistryType, NeverLast DEF Instants
  <2>4. PICK d \in Nat, m \in Nat : d = direct[a][u] /\ m = IF a \in grp THEN mem[u] ELSE 0
    BY <2>3
  <2>5. (IF a \in grp THEN Ahead(mem[u]) ELSE 0) = Ahead(m)
    BY <2>4 DEF Ahead
  <2>6. (IF a \in grp' THEN Ahead(mem[u])' ELSE 0) = IF m > now + 1 THEN m ELSE 0
    BY <1>1, <2>4 DEF Ahead
  <2>7. Ahead(direct[a][u])' = IF d > now + 1 THEN d ELSE 0
    BY <1>1, <2>4 DEF Ahead
  <2>8. PICK L \in Nat : L = Most(Ahead(d), Ahead(m))
    BY <2>3, <2>4 DEF Most, Ahead
  <2>9. PICK N \in Nat : N = Most(IF d > now + 1 THEN d ELSE 0, IF m > now + 1 THEN m ELSE 0)
    BY <2>3, <2>4 DEF Most
  <2>10. N = 0 \/ N = L
    BY <2>3, <2>4, <2>8, <2>9 DEF Most, Ahead
  <2>11. AccessEndsAt(a, u) = IF app[a].mode = "all_active_users" \/ L = 0 THEN end[u] ELSE Least(L, end[u])
    BY <2>4, <2>5, <2>8 DEF AccessEndsAt
  <2>12. AccessEndsAt(a, u)' = IF app[a].mode = "all_active_users" \/ N = 0 THEN end[u] ELSE Least(N, end[u])
    BY <1>1, <2>6, <2>7, <2>9 DEF AccessEndsAt
  <2> QED
    BY <2>2, <2>3, <2>10, <2>11, <2>12 DEF Least
<1>3. CASE ~\E a \in Apps : Client \in app[a].refs
  <2>1. ReadEnd(u) = Never /\ ReadEnd(u)' = Never
    BY <1>1, <1>3 DEF ReadEnd, Never
  <2> QED
    BY <2>1, NeverLast
<1> QED
  BY <1>2, <1>3

\* Access that an instant ends leaves something to follow up.
LEMMA LapseIsOwed ==
    ASSUME Records, Tick, NEW u \in Users, ClientAccess(u), ~ClientAccess(u)'
    PROVE  debt'
<1>1. PICK a \in Apps : Client \in app[a].refs /\ Access(a, u)
  BY DEF ClientAccess
<1>2. now' = now + 1 /\ UNCHANGED <<app, direct, grp, mem, end>>
  BY DEF Tick
<1>3. ~Access(a, u)'
  BY <1>1, <1>2 DEF ClientAccess
<1>4. direct[a][u] \in Nat /\ mem[u] \in Nat /\ end[u] \in Nat /\ now \in Nat
  BY RegistryType, NeverLast DEF Instants
<1>5. end[u] = now + 1 \/ mem[u] = now + 1 \/ direct[a][u] = now + 1
  BY <1>1, <1>2, <1>3, <1>4 DEF Access, Active, Assigned
<1> QED
  BY <1>5 DEF Tick

\* An instant that passes ends the tokens bounded to it.
LEMMA TickTokens == ASSUME Records, Tokens, Tick PROVE Tokens'
<1>1. Records' /\ now' = now + 1 /\ now \in Nat /\ UNCHANGED <<app, direct, grp, mem, end>>
  BY TickRecords, RegistryType DEF Tick
<1>2. ASSUME NEW u \in Users, token'[u] # 0
      PROVE  /\ token'[u] = token[u] /\ token[u] # 0 /\ token[u] \in Nat /\ now + 1 < token[u]
             /\ u \in shortened' <=> u \in shortened
  <2>1. token[u] \in Nat
    BY RegistryType, NeverLast
  <2>2. token'[u] = IF token[u] <= now + 1 THEN 0 ELSE token[u]
    BY DEF Tick
  <2> QED
    BY <1>1, <1>2, <2>1, <2>2 DEF Tick
<1>3. ASSUME NEW u \in Users, token'[u] # 0, u \notin shortened'
      PROVE  ClientAccess(u)' /\ token'[u] <= ReadEnd(u)'
  <2>1. /\ token'[u] = token[u] /\ token[u] \in Nat /\ now + 1 < token[u]
        /\ ClientAccess(u) /\ token[u] <= ReadEnd(u)
    BY <1>2, <1>3 DEF Tokens, BoundedTokens
  <2>2. PICK a \in Apps : Client \in app[a].refs /\ Access(a, u)
    BY <2>1 DEF ClientAccess
  <2>3. ReadEnd(u) = AccessEndsAt(a, u) /\ ReadEnd(u) \in 0..Never
    BY <2>2, ClientOf, ClientEnds DEF Records
  <2>4. now + 1 < AccessEndsAt(a, u)
    BY <1>1, <2>1, <2>3, NeverLast
  <2>5. Access(a, u)' /\ AccessEndsAt(a, u)' = AccessEndsAt(a, u)
    BY <2>2, <2>4, Outlasts
  <2>6. Client \in app'[a].refs
    BY <1>1, <2>2
  <2>7. ClientAccess(u)' /\ ReadEnd(u)' = AccessEndsAt(a, u)'
    BY <1>1, <2>5, <2>6, ClientOfNext DEF Records
  <2> QED
    BY <2>1, <2>3, <2>5, <2>7
<1>7. ASSUME NEW u \in Users, issuing'[u] # 0, u \notin overtaken'
      PROVE  issuing'[u] <= ReadEnd(u)'
  <2>1. issuing'[u] = issuing[u] /\ issuing[u] <= ReadEnd(u)
    BY <1>7 DEF Tick, Tokens, BoundedTokens
  <2>2. issuing[u] \in Nat /\ ReadEnd(u) \in Nat /\ ReadEnd(u)' \in Nat
    BY <1>1, RegistryType, NeverLast, ClientEnds, ClientEndsNext DEF Records
  <2> QED
    BY <1>1, <2>1, <2>2, ReadOutlasts
<1>4. BoundedTokens'
  BY <1>1, <1>2, <1>3, <1>7 DEF BoundedTokens
<1>5. ASSUME NEW u \in Users, token'[u] # 0, ~ClientAccess(u)'
      PROVE  debt' /\ u \in shortened'
  <2>1. u \in shortened'
    BY <1>3, <1>5
  <2>2. CASE ClientAccess(u)
    BY <1>5, <2>1, <2>2, LapseIsOwed
  <2>3. CASE ~ClientAccess(u)
    BY <1>2, <1>5, <2>1, <2>3 DEF Tokens, TokenEndsWithAccess, Tick
  <2> QED
    BY <2>2, <2>3
<1>6. TokenEndsWithAccess'
  BY <1>5 DEF TokenEndsWithAccess
<1> QED
  BY <1>4, <1>6 DEF Tokens

\* The follow-up takes what lapsed since the last one.
LEMMA FollowUpTokens == ASSUME Records, Tokens, ExpiryFollowUp PROVE Tokens'
<1>1. /\ UNCHANGED <<app, direct, grp, mem, end, now, issuing, overtaken>>
      /\ shortened' = {u \in shortened : token'[u] # 0}
      /\ \A u \in Users : token'[u] # 0 => ClientAccess(u)' /\ token'[u] = token[u]
  BY DEF ExpiryFollowUp, RevokeLostAppAccess
<1>2. \A u \in Users : Keeps(u)
  BY <1>1, SameDirectory
<1> QED
  BY <1>1, <1>2 DEF Tokens, BoundedTokens, TokenEndsWithAccess, Keeps

\* The expiry a token request has in hand is no later than the end it read.
LEMMA ReadTokens ==
    ASSUME Records, Tokens, NEW u \in Users, ReadAccessEnd(u)
    PROVE  Tokens'
<1>1. /\ issuing' = [issuing EXCEPT ![u] = Least(now + TokenTTL, ReadEnd(u))]
      /\ UNCHANGED <<app, direct, grp, mem, end, now, debt, token, overtaken, shortened>>
  BY DEF ReadAccessEnd
<1>2. \A v \in Users : Keeps(v)
  BY <1>1, SameDirectory
<1>3. issuing'[u] = Least(now + TokenTTL, ReadEnd(u)) /\ \A v \in Users \ {u} : issuing'[v] = issuing[v]
  BY <1>1 DEF Records, AccessTypes
<1>4. ReadEnd(u) \in Nat /\ now \in Nat
  BY ClientEnds, RegistryType, NeverLast DEF Records
<1>5. issuing'[u] <= ReadEnd(u)
  BY <1>3, <1>4, AppAccessAssumption DEF Least
<1> QED
  BY <1>1, <1>2, <1>3, <1>5 DEF Tokens, BoundedTokens, TokenEndsWithAccess, Keeps

\* Its token is recorded while there is access, and unless an edit overtook it, that access
\* lasts as long as the token.
LEMMA RecordTokens ==
    ASSUME Records, Tokens, NEW u \in Users, RecordToken(u)
    PROVE  Tokens'
<1>1. /\ issuing[u] > now /\ ClientAccess(u)
      /\ token' = [token EXCEPT ![u] = issuing[u]] /\ issuing' = [issuing EXCEPT ![u] = 0]
      /\ shortened' = IF u \in overtaken THEN shortened \cup {u} ELSE shortened
      /\ overtaken' = overtaken \ {u} /\ UNCHANGED <<app, direct, grp, mem, end, now, debt>>
  BY DEF RecordToken
<1>2. \A v \in Users : Keeps(v)
  BY <1>1, SameDirectory
<1>3. /\ token'[u] = issuing[u] /\ issuing'[u] = 0
      /\ \A v \in Users \ {u} : token'[v] = token[v] /\ issuing'[v] = issuing[v]
  BY <1>1 DEF Records, AccessTypes
<1>4. now < issuing[u] /\ issuing[u] # 0 /\ now' = now
  BY <1>1, RegistryType, NeverLast
<1>5. u \notin overtaken => issuing[u] <= ReadEnd(u)
  BY <1>4 DEF Tokens, BoundedTokens
<1>6. ASSUME NEW v \in Users \ {u}
      PROVE  (v \in shortened' <=> v \in shortened) /\ (v \in overtaken' <=> v \in overtaken)
  BY <1>1, <1>6
<1>7. u \notin shortened' => u \notin overtaken
  BY <1>1
<1> QED
  BY <1>1, <1>2, <1>3, <1>4, <1>5, <1>6, <1>7 DEF Tokens, BoundedTokens, TokenEndsWithAccess, Keeps

\* A request that ends without a token leaves none.
LEMMA NotIssuedTokens ==
    ASSUME Records, Tokens, NEW u \in Users, TokenNotIssued(u)
    PROVE  Tokens'
<1>1. /\ issuing' = [issuing EXCEPT ![u] = 0] /\ overtaken' = overtaken \ {u}
      /\ UNCHANGED <<app, direct, grp, mem, end, now, debt, token, shortened>>
  BY DEF TokenNotIssued
<1>2. \A v \in Users : Keeps(v)
  BY <1>1, SameDirectory
<1>3. issuing'[u] = 0 /\ \A v \in Users \ {u} : issuing'[v] = issuing[v]
  BY <1>1 DEF Records, AccessTypes
<1> QED
  BY <1>1, <1>2, <1>3 DEF Tokens, BoundedTokens, TokenEndsWithAccess, Keeps

-----------------------------------------------------------------------------
(* The invariant.                                                           *)

\* A decision applies a grant with its follow-up, or nothing.
LEMMA DecideTokens ==
    ASSUME Records, Tokens, NEW r \in AccessRequests, NEW by \in Users, Decide(r, by)
    PROVE  Tokens'
<1>1. PICK approve \in BOOLEAN : DecideAccessRequest(r, by, approve)
  BY DEF Decide
<1>2. Records' /\ Shortens /\ debt' = debt
  BY DecideRecords DEF Decide
<1>3. CASE UNCHANGED <<app, direct, grp, mem, end, issuing, token, now>>
  <2>1. \A u \in Users : ClientAccess(u)' = ClientAccess(u)
    BY <1>3, SameDirectory DEF Keeps
  <2> QED
    BY <1>2, <1>3, <2>1, ScheduleTokens
<1>4. ASSUME NEW a \in Apps, NEW u \in Users, NEW e \in 0..Never, ApplyUserAssignment(a, u, e)
      PROVE  Tokens'
  BY <1>2, <1>4, EditTokens DEF ApplyUserAssignment
<1> QED
  BY <1>1, <1>3, <1>4, DecisionGrant

\* Every step keeps the invariant.
LEMMA AccessStep == AccessInv /\ [AccessNext]_accessVars => AccessInv'
<1> SUFFICES ASSUME Records, Tokens, [AccessNext]_accessVars PROVE Records' /\ Tokens'
  BY DEF AccessInv, Tokens
<1>1. CASE UNCHANGED accessVars
  <2>1. UNCHANGED <<app, direct, grp, mem, end, admins, owners, pending, now, edits, debt, issuing, token, overtaken, shortened>>
    BY <1>1 DEF accessVars, issueVars
  <2>2. Records'
    BY <2>1 DEF Records, AccessTypes, BareRecords, NamedRequests
  <2> QED
    BY <2>1, <2>2, SameDirectory, QuietTokens
<1>2. ASSUME NEW a \in Apps, SetAppPolicy(a) PROVE Records' /\ Tokens'
  BY <1>2, PolicyRecords, EditTokens DEF SetAppPolicy, SetAppPolicyTx
<1>3. ASSUME NEW a \in Apps, SetAppRequestable(a) PROVE Records' /\ Tokens'
  BY <1>3, RequestableRecords, RequestableKeeps, QuietTokens DEF SetAppRequestable, issueVars
<1>4. ASSUME NEW a \in Apps, SetAppAssignment(a) PROVE Records' /\ Tokens'
  BY <1>4, AssignmentRecords, EditTokens DEF SetAppAssignment, ApplyUserAssignment, ApplyGroupAssignment
<1>5. ASSUME NEW a \in Apps, NEW b \in Apps, LinkAppRecords(a, b) PROVE Records' /\ Tokens'
  BY <1>5, LinkRecords, LinkKeeps, QuietTokens DEF LinkAppRecords, issueVars
<1>6. ASSUME NEW a \in Apps, NEW b \in Apps, NEW c \in Connections, UnlinkAppRecord(a, b, c)
      PROVE  Records' /\ Tokens'
  BY <1>6, UnlinkRecords, UnlinkKeeps, QuietTokens DEF UnlinkAppRecord, issueVars
<1>7. ASSUME NEW u \in Users, NEW e \in {0} \cup Expiries, SetMembership(u, e) PROVE Records' /\ Tokens'
  BY <1>7, MembershipRecords, EditTokens DEF SetMembership
<1>8. ASSUME NEW u \in Users, NEW e \in Expiries, SetEnd(u, e) PROVE Records' /\ Tokens'
  BY <1>8, EndRecords, EndTokens
<1>9. ASSUME NEW u \in Users, SetAuthority(u) PROVE Records' /\ Tokens'
  BY <1>9, AuthorityRecords, SameDirectory, QuietTokens DEF SetAuthority, issueVars
<1>10. ASSUME NEW u \in Users, ReadAccessEnd(u) \/ RecordToken(u) \/ TokenNotIssued(u)
       PROVE  Records' /\ Tokens'
  BY <1>10, IssueRecords, ReadTokens, RecordTokens, NotIssuedTokens
<1>11. ASSUME NEW u \in Users, ExpireMembership(u) PROVE Records' /\ Tokens'
  BY <1>11, LeaveRecords, LeaveKeeps, QuietTokens DEF ExpireMembership, issueVars
<1>12. ASSUME NEW r \in AccessRequests, NEW u \in Users, Create(r, u) PROVE Records' /\ Tokens'
  BY <1>12, CreateRecords, SameDirectory, QuietTokens DEF Create, issueVars
<1>13. ASSUME NEW r \in AccessRequests, NEW u \in Users, Decide(r, u) PROVE Records' /\ Tokens'
  BY <1>13, DecideRecords, DecideTokens
<1>14. ASSUME NEW r \in AccessRequests, Cancel(r) PROVE Records' /\ Tokens'
  BY <1>14, CancelRecords, SameDirectory, QuietTokens DEF Cancel, issueVars
<1>15. ASSUME NEW a \in Apps, NEW u \in Users, ExpireAssignment(a, u) PROVE Records' /\ Tokens'
  BY <1>15, ExpireRecords, ExpireKeeps, QuietTokens DEF ExpireAssignment, issueVars
<1>16. ASSUME Tick PROVE Records' /\ Tokens'
  BY <1>16, TickRecords, TickTokens
<1>17. ASSUME ExpiryFollowUp PROVE Records' /\ Tokens'
  BY <1>17, FollowUpRecords, FollowUpTokens
<1> QED
  BY <1>1, <1>2, <1>3, <1>4, <1>5, <1>6, <1>7, <1>8, <1>9, <1>10, <1>11, <1>12, <1>13, <1>14, <1>15, <1>16,
     <1>17 DEF AccessNext

\* Every connection has one record when the directory is set up.
LEMMA AccessInitOk == AccessInit => AccessInv
<1> SUFFICES ASSUME AccessInit PROVE AccessInv
  OBVIOUS
<1>1. PICK f \in [Apps -> SUBSET Connections] :
         /\ \A c \in Connections : Cardinality({a \in Apps : c \in f[a]}) = 1
         /\ app = [a \in Apps |-> [NewApp(f[a]) EXCEPT !.requestable = f[a] # {}]]
  BY DEF AccessInit
<1>2. \A a \in Apps : /\ app[a] \in AppRows /\ app[a].refs = f[a]
                      /\ app[a].there <=> app[a].refs # {}
  BY <1>1 DEF NewApp, AppRows, Modes
<1>3. ASSUME NEW a \in Apps, NEW b \in Apps, a # b PROVE f[a] \cap f[b] = {}
  <2> SUFFICES ASSUME NEW c \in f[a], c \in f[b] PROVE FALSE
    OBVIOUS
  <2> DEFINE A == {x \in Apps : c \in f[x]}
  <2>1. c \in Connections /\ Cardinality(A) = 1
    BY <1>1
  <2>2. IsFiniteSet(A)
    BY AppAccessAssumption, FS_Subset
  <2>3. \E x : A = {x}
    BY <2>1, <2>2, FS_Singleton
  <2>4. a \in A /\ b \in A
    OBVIOUS
  <2> QED
    BY <1>3, <2>3, <2>4
<1>4. app \in [Apps -> AppRows]
  BY <1>1, <1>2
<1>5. Never \in Instants /\ 0 \in 0..Never /\ 0 \in 0..MaxTime /\ 0 \in 0..MaxEdits /\ NoReq \in ReqRows
  BY NeverLast, AppAccessAssumption DEF Instants, NoReq, ReqRows
<1>6. AccessTypes
  BY <1>2, <1>3, <1>4, <1>5 DEF AccessInit, AccessTypes
<1> QED
  BY <1>6 DEF AccessInit, AccessInv, Records, BareRecords, NamedRequests, BoundedTokens, TokenEndsWithAccess

\* The invariant holds in every reachable state.
LEMMA AccessInductive == AccessSpec => []AccessInv
  BY AccessInitOk, AccessStep, PTL DEF AccessSpec

\* The registry is well formed: a record there is has connections, and a connection has one
\* record (app_registry.go), whatever is linked, unlinked, granted or decided.
THEOREM RegistryStaysWhole == AccessSpec => []AccessTypes
<1>1. AccessInv => AccessTypes
  BY DEF AccessInv, Records
<1> QED
  BY <1>1, AccessInductive, PTL

\* No edit takes access away and leaves the token, no token outlives the end of access that
\* was read for it, and one that an edit overtook since that read is gone with the next
\* follow-up (revokeLostAppAccessTx, AccessEndsAt, recordIssuedTokenTx).
THEOREM TokensFollowAccess == AccessSpec => []TokenEndsWithAccess
<1>1. AccessInv => TokenEndsWithAccess
  BY DEF AccessInv
<1> QED
  BY <1>1, AccessInductive, PTL

\* A longer grant keeps what a shorter one gave.
LEMMA LongerGrant ==
    ASSUME Records, NEW a \in Apps, NEW u \in Users, NEW e \in 0..Never,
           ApplyUserAssignment(a, u, e), now < e, direct[a][u] <= e,
           NEW b \in Apps, NEW v \in Users, Access(b, v)
    PROVE  Access(b, v)' /\ AccessEndsAt(b, v) <= AccessEndsAt(b, v)'
<1>1. /\ UNCHANGED <<app, grp, mem, end, now>>
      /\ direct'[b][v] = IF b = a /\ v = u THEN e ELSE direct[b][v]
  BY GrantRecords
<1>2. /\ direct[b][v] \in Nat /\ mem[v] \in Nat /\ end[v] \in Nat /\ now \in Nat /\ e \in Nat
      /\ app[b].mode \in Modes
  BY RegistryType, NeverLast DEF Instants, AppRows
<1>3. direct'[b][v] \in Nat /\ direct[b][v] <= direct'[b][v]
  BY <1>1, <1>2
<1>4. Access(b, v)'
  BY <1>1, <1>2, <1>3 DEF Access, Active, Assigned
<1>5. AccessEndsAt(b, v) <= AccessEndsAt(b, v)'
  <2>1. CASE app[b].mode = "all_active_users"
    BY <1>1, <1>2, <2>1 DEF AccessEndsAt
  <2>2. CASE app[b].mode # "all_active_users"
    <3> DEFINE m == IF b \in grp THEN Ahead(mem[v]) ELSE 0
               L == Most(Ahead(direct[b][v]), m)
               N == Most(IF direct'[b][v] > now THEN direct'[b][v] ELSE 0, m)
    <3>1. m \in Nat
      BY <1>2 DEF Ahead
    <3>2. L \in Nat /\ N \in Nat /\ L # 0 /\ L <= N
      BY <1>2, <1>3, <2>2, <3>1 DEF Access, Assigned, Ahead, Most
    <3>3. AccessEndsAt(b, v) = Least(L, end[v])
      BY <2>2, <3>2 DEF AccessEndsAt
    <3>4. N # 0
      BY <3>2
    <3>5. AccessEndsAt(b, v)' = Least(N, end[v])
      BY <1>1, <2>2, <3>4 DEF AccessEndsAt, Ahead
    <3> QED
      BY <1>2, <3>2, <3>3, <3>5 DEF Least
  <2> QED
    BY <2>1, <2>2
<1> QED
  BY <1>4, <1>5

\* Whatever was granted between a request and its decision, the decision never brings the
\* end of anyone's access closer (DecideAccessRequest keeps a longer grant).
THEOREM DecisionsOnlyExtend == AccessSpec => DecisionNeverShortens
<1>1. AccessInv /\ [AccessNext]_accessVars =>
        [(\E r \in AccessRequests, u \in Users : Decide(r, u)) =>
            \A a \in Apps, u \in Users : Access(a, u) =>
                Access(a, u)' /\ AccessEndsAt(a, u) <= AccessEndsAt(a, u)']_accessVars
  <2> SUFFICES ASSUME Records, NEW r \in AccessRequests, NEW by \in Users, Decide(r, by),
                      NEW a \in Apps, NEW u \in Users, Access(a, u)
               PROVE  Access(a, u)' /\ AccessEndsAt(a, u) <= AccessEndsAt(a, u)'
    BY DEF AccessInv
  <2>1. PICK approve \in BOOLEAN : DecideAccessRequest(r, by, approve)
    BY DEF Decide
  <2>2. CASE UNCHANGED <<app, direct, grp, mem, end, issuing, token, now>>
    <3>1. Access(a, u)' /\ AccessEndsAt(a, u)' = AccessEndsAt(a, u)
      BY <2>2 DEF Access, AccessEndsAt, Active, Assigned, Ahead
    <3>2. AccessEndsAt(a, u) \in Nat
      BY EndsAhead, NeverLast DEF Records
    <3> QED
      BY <3>1, <3>2
  <2>3. ASSUME NEW b \in Apps, NEW v \in Users, NEW e \in 0..Never,
               ApplyUserAssignment(b, v, e), now < e, direct[b][v] <= e
        PROVE  Access(a, u)' /\ AccessEndsAt(a, u) <= AccessEndsAt(a, u)'
    BY <2>3, LongerGrant
  <2> QED
    BY <2>1, <2>2, <2>3, DecisionGrant
<1> QED
  BY <1>1, AccessInductive, PTL DEF AccessSpec, DecisionNeverShortens

\* Linking and unlinking records changes neither who may use the client nor until when, so
\* neither has anything to revoke (LinkAppRecords, UnlinkAppRecord).
THEOREM RelinkingIsNeutral == AccessSpec => RelinkKeepsAccess
<1>1. AccessInv /\ [AccessNext]_accessVars =>
        [(\E a, b \in Apps : LinkAppRecords(a, b) \/ \E c \in Connections : UnlinkAppRecord(a, b, c)) =>
            \A u \in Users : ClientEnd(u)' = ClientEnd(u) /\ ClientAccess(u)' = ClientAccess(u)]_accessVars
  <2>1. ASSUME Records, NEW u \in Users, NEW a \in Apps, NEW b \in Apps,
               LinkAppRecords(a, b) \/ \E c \in Connections : UnlinkAppRecord(a, b, c)
        PROVE  ClientEnd(u)' = ClientEnd(u) /\ ClientAccess(u)' = ClientAccess(u)
    <3>1. Keeps(u)
      BY <2>1, LinkKeeps, UnlinkKeeps
    <3>2. now' = now
      BY <2>1 DEF LinkAppRecords, UnlinkAppRecord
    <3> QED
      BY <3>1, <3>2 DEF Keeps, ClientEnd
  <2> QED
    BY <2>1 DEF AccessInv
<1> QED
  BY <1>1, AccessInductive, PTL DEF AccessSpec, RelinkKeepsAccess
=============================================================================
