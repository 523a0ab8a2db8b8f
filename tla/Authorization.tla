---------------------------- MODULE Authorization ----------------------------
(***************************************************************************)
(* The authorization endpoint of one client: the request of an app that a   *)
(* browser brings, the interaction it becomes when the session there is not *)
(* enough, the sign-in that answers the interaction, and the code issued at *)
(* the end. Tabs of one browser share its cookies, requests and sign-ins    *)
(* overlap, and the app's authentication policy may change in between.      *)
(*                                                                         *)
(* What a code is exchanged for is OAuthGrants; how a password and a second *)
(* factor are proved is SignIn; a sign-in here is the moment its password   *)
(* was accepted and the moment its session is written.                      *)
(***************************************************************************)
EXTENDS Integers, FiniteSets, Sequences

CONSTANTS
    Browsers, Users, NoUser,
    Factors,         \* Factors[u]: the second factors u has enrolled
    Queries,         \* authentication requests as clients write them
    Policies,        \* AppAuthenticationPolicy values an administrator may set
    Handlers,        \* authorization requests being handled at the same time
    MaxTabs,         \* interactions per browser and per account (10)
    MaxTotal,        \* interactions of the server (10000)
    TTL,             \* lifetime of an interaction (5 minutes)
    MaxTime, MaxInteractions, MaxLogins, MaxCodes, MaxEdits

\* AppAuthenticationPolicy.Valid. Ages are in whole units of time, rounded down.
Valid(p) ==
    /\ p.mode \in {"reuse", "fresh", "max_age"} /\ p.factor \in {"password", "mfa", "passkey"}
    /\ p.age \in Nat /\ p.fage \in Nat
    /\ p.mode # "max_age" => p.age = 0
    /\ p.factor = "password" => p.fage = 0

ASSUME AuthorizationAssumption ==
    /\ Browsers # {} /\ NoUser \notin Users
    /\ MaxLogins >= 1
    /\ {MaxTabs, MaxTotal, TTL, MaxTime, MaxInteractions, MaxLogins, MaxCodes, MaxEdits} \subseteq Nat
    /\ \A p \in Policies : Valid(p)
    /\ Factors \in [Users -> SUBSET {"totp", "webauthn"}]

\* Parameters left out are empty, and -1.
ASSUME QueriesAssumption ==
    Queries \subseteq [prompt : {"", "none", "login"}, max_age : Nat \cup {-1}, acr : {"", "password", "mfa"}]

VARIABLES
    policy,  \* the app's authentication policy
    inter,   \* authorization_interactions
    sessions, \* sessions; a session has the number of the sign-in that created it
    cookie,  \* the session token each browser holds, as the sign-in that set it
    login,   \* sign-ins whose password was accepted
    hnd,     \* each authorization request
    codes,   \* authorization codes that can be exchanged
    answered, \* history: sign-ins that answered a request for a new one
    now,
    edits

authVars == <<policy, inter, sessions, cookie, login, hnd, codes, answered, now, edits>>

Interactions == 1..MaxInteractions
Logins == 1..MaxLogins
Methods == {"none", "totp", "webauthn"}
Times == 0..MaxTime

\* AuthenticationEvidence: when the password and the factor were proved, in which sign-in.
Evidence == [login : Logins \cup {0}, primary : Times, factor : Methods, fat : Times]
NoEvidence == [login |-> 0, primary |-> 0, factor |-> "none", fat |-> 0]

\* ParseAuthenticationRequest, of a well-formed request: max_age=0 asks what prompt=login does.
Parse(q) == [fresh |-> q.prompt = "login" \/ q.max_age = 0, silent |-> q.prompt = "none",
             age |-> IF q.max_age = -1 THEN 0 ELSE q.max_age, mfa |-> q.acr = "mfa"]
Asks == {Parse(q) : q \in Queries}
NoAsk == Parse([prompt |-> "", max_age |-> -1, acr |-> ""])

NoInteraction == [st |-> "none", by |-> CHOOSE b \in Browsers : TRUE, user |-> NoUser,
                  orig |-> 0, sess |-> 0, made |-> 0, exp |-> 0, ask |-> NoAsk, after |-> 0]
Deleted == [NoInteraction EXCEPT !.st = "gone"]
NoSess == [live |-> FALSE, user |-> NoUser, ev |-> NoEvidence]
NoLogin == [st |-> "none", by |-> CHOOSE b \in Browsers : TRUE, user |-> NoUser, i |-> 0, primary |-> 0]
Idle == [pc |-> "idle", by |-> CHOOSE b \in Browsers : TRUE, ask |-> NoAsk, i |-> 0, s |-> 0,
         ev |-> NoEvidence]

AuthTypes ==
    /\ policy \in Policies
    /\ inter \in [Interactions -> [st : {"none", "live", "gone"}, by : Browsers,
                     user : Users \cup {NoUser}, orig : Logins \cup {0}, sess : Logins \cup {0},
                     made : Times, exp : 0..MaxTime + TTL, ask : Asks \cup {NoAsk}, after : 0..MaxLogins]]
    /\ sessions \in [Logins -> [live : BOOLEAN, user : Users \cup {NoUser}, ev : Evidence]]
    /\ cookie \in [Browsers -> Logins \cup {0}]
    /\ login \in [Logins -> [st : {"none", "proved", "done"}, by : Browsers, user : Users \cup {NoUser},
                             i : Interactions \cup {0}, primary : Times]]
    /\ hnd \in [Handlers -> [pc : {"idle", "mint", "commit"}, by : Browsers,
                  ask : Asks \cup {NoAsk}, i : Interactions \cup {0}, s : Logins \cup {0}, ev : Evidence]]
    /\ codes \subseteq [sess : Logins, ev : Evidence, fresh : BOOLEAN, at : Times]
    /\ answered \subseteq Logins
    /\ now \in Times /\ edits \in 0..MaxEdits

\* What an account signs in with: a factor if it has one.
Proofs(u) == IF Factors[u] = {} THEN {"none"} ELSE Factors[u]

\* Somebody has signed in, in one of the browsers.
AuthInit ==
    /\ policy \in Policies
    /\ inter = [i \in Interactions |-> NoInteraction]
    /\ \E b \in Browsers, u \in Users, f \in Methods :
          /\ f \in Proofs(u)
          /\ cookie = [c \in Browsers |-> IF c = b THEN 1 ELSE 0]
          /\ sessions = [s \in Logins |-> IF s = 1 THEN [live |-> TRUE, user |-> u,
                        ev |-> [login |-> 1, primary |-> 0, factor |-> f, fat |-> 0]] ELSE NoSess]
    /\ login = [l \in Logins |-> IF l = 1 THEN [NoLogin EXCEPT !.st = "done"] ELSE NoLogin]
    /\ hnd = [h \in Handlers |-> Idle] /\ codes = {} /\ answered = {}
    /\ now = 0 /\ edits = 0

-----------------------------------------------------------------------------
(* What a request and an app ask of a sign-in.                              *)

\* EvidenceReason, when it finds nothing to object to.
EvidenceMeets(p, ev, t) ==
    /\ p.mode = "max_age" => ev.primary + p.age >= t
    /\ p.factor # "password" =>
          /\ ev.factor # "none"
          /\ p.factor = "passkey" => ev.factor = "webauthn"
          /\ p.fage > 0 => ev.fat + p.fage >= t

\* Satisfied with WithAppPolicy: the stricter of both. A fresh sign-in is only ever shown by
\* a completed interaction, which then answers it.
Satisfied(ask, p, ev, completed) ==
    /\ EvidenceMeets(p, ev, now)
    /\ (ask.fresh \/ p.mode = "fresh") => completed
    /\ ask.age > 0 => ev.primary + ask.age >= now
    /\ ask.mfa => ev.factor # "none"

\* The session a browser's cookie names: renewing a session replaces its token.
SessionOf(b) ==
    IF \E s \in Logins : sessions[s].live /\ sessions[s].ev.login = cookie[b]
    THEN CHOOSE s \in Logins : sessions[s].live /\ sessions[s].ev.login = cookie[b] ELSE 0

Live == {i \in Interactions : inter[i].st = "live"}
OwnedBy(u) == {i \in Live : inter[i].user = u}

\* GetAuthorizationInteraction: unexpired, of this browser, and the session it was begun in
\* not ended since.
Usable(i, b) ==
    /\ i \in Live /\ inter[i].by = b /\ inter[i].exp > now
    /\ inter[i].orig # 0 => sessions[inter[i].orig].live

Without(I) == [i \in Interactions |-> IF i \in I \cap Live THEN Deleted ELSE inter[i]]

-----------------------------------------------------------------------------
(* The authorization endpoint.                                              *)

Rest(h) == hnd' = [hnd EXCEPT ![h] = Idle]

\* Expired rows go; then, under pressure, the oldest pending ones nobody owns.
Reclaimed ==
    LET kept == {i \in Live : inter[i].exp > now}
        anon == {i \in kept : inter[i].user = NoUser /\ inter[i].sess = 0}
        over == Cardinality(kept) - (MaxTotal - 1)
        evicted == {i \in anon : Cardinality({j \in anon : j <= i}) <= over}
    IN  kept \ evicted

\* CreateAuthorizationInteraction: a bounded number for a browser, an account, the server.
RoomFor(b, u) ==
    /\ Cardinality({i \in Reclaimed : inter[i].by = b}) < MaxTabs
    /\ u # NoUser => Cardinality({i \in Reclaimed : inter[i].user = u}) < MaxTabs
    /\ Cardinality(Reclaimed) < MaxTotal

\* beginInteraction: the row keeps the session the browser had, and its account. A refused
\* one is rolled back.
BeginInteraction(b, s, ask) ==
    LET u == IF s = 0 THEN NoUser ELSE sessions[s].user
        new == {i \in Interactions : inter[i].st = "none"}
        i == CHOOSE j \in new : \A k \in new : j <= k
    IN  IF RoomFor(b, u)
        THEN /\ new # {}
             /\ inter' = [Without(Live \ Reclaimed) EXCEPT ![i] =
                   [NoInteraction EXCEPT !.st = "live", !.by = b, !.user = u, !.orig = s,
                        !.made = now, !.exp = now + TTL, !.ask = ask,
                        !.after = Cardinality({l \in Logins : login[l].st # "none"})]]
        ELSE inter' = inter

\* Authorize, with a request: the session there is enough, or an interaction is begun; a
\* request for a silent answer is told to sign in, which changes nothing.
Authorize(h, b, ask) ==
    LET s == SessionOf(b)
    IN  /\ hnd[h].pc = "idle"
        /\ IF s # 0 /\ Satisfied(ask, policy, sessions[s].ev, FALSE)
           THEN /\ hnd' = [hnd EXCEPT ![h] = [Idle EXCEPT !.pc = "mint", !.by = b, !.ask = ask, !.s = s]]
                /\ inter' = inter
           ELSE ~ask.silent /\ hnd' = hnd /\ BeginInteraction(b, s, ask)
        /\ UNCHANGED <<policy, sessions, cookie, login, codes, answered, now, edits>>

\* Authorize, back from a sign-in: only in the session that completed the interaction.
AuthorizeInteraction(h, b, i) ==
    /\ hnd[h].pc = "idle"
    /\ Usable(i, b) /\ SessionOf(b) # 0 /\ inter[i].sess = SessionOf(b)
    /\ Satisfied(inter[i].ask, policy, sessions[SessionOf(b)].ev, TRUE)
    /\ hnd' = [hnd EXCEPT ![h] = [Idle EXCEPT !.pc = "mint", !.by = b, !.ask = inter[i].ask,
                                              !.i = i, !.s = SessionOf(b)]]
    /\ UNCHANGED <<policy, inter, sessions, cookie, login, codes, answered, now, edits>>

\* CreateAuthorizationCodeForInteraction: the session and the policy are read again.
ReadEvidence(h) ==
    LET H == hnd[h]
    IN  /\ H.pc = "mint"
        /\ IF sessions[H.s].live /\ Satisfied(H.ask, policy, sessions[H.s].ev, H.i # 0)
           THEN hnd' = [hnd EXCEPT ![h].pc = "commit", ![h].ev = sessions[H.s].ev]
           ELSE Rest(h)
        /\ UNCHANGED <<policy, inter, sessions, cookie, login, codes, answered, now, edits>>

Answers(i, s) == i \in Live /\ inter[i].sess = s /\ inter[i].exp > now

\* Mutant of PolicyStillMet: the policy read before the transaction is relied on.
PolicyAsRead(H) == TRUE

\* checkCodeAppAuthenticationTx: the policy of this instant, on the evidence read before.
PolicyStillMet(H) ==
    /\ EvidenceMeets(policy, H.ev, now)
    /\ policy.mode = "fresh" => H.i # 0 /\ Answers(H.i, H.s) /\ H.ev.primary >= inter[H.i].made

\* CreateAuthorizationCode: the interaction is consumed with the insert, or neither happens.
CreateAuthorizationCode(h) ==
    LET H == hnd[h]
    IN  /\ H.pc = "commit"
        /\ Rest(h)
        /\ IF PolicyStillMet(H) /\ (H.i # 0 => Answers(H.i, H.s)) /\ sessions[H.s].live
           THEN /\ Cardinality(codes) < MaxCodes
                /\ inter' = Without({H.i})
                /\ codes' = codes \cup {[sess |-> H.s, ev |-> H.ev, fresh |-> H.i # 0, at |-> now]}
                /\ answered' = IF H.ask.fresh THEN answered \cup {H.ev.login} ELSE answered
           ELSE UNCHANGED <<inter, codes, answered>>
        /\ UNCHANGED <<policy, sessions, cookie, login, now, edits>>

\* A code is exchanged or lapses (OAuthGrants).
CodeEnds(c) ==
    /\ c \in codes /\ codes' = codes \ {c}
    /\ UNCHANGED <<policy, inter, sessions, cookie, login, hnd, answered, now, edits>>

CancelInteraction(b, i) ==
    /\ i \in Live /\ inter[i].by = b
    /\ inter' = Without({i})
    /\ UNCHANGED <<policy, sessions, cookie, login, hnd, codes, answered, now, edits>>

-----------------------------------------------------------------------------
(* Signing in.                                                              *)

\* The methods Login offers: a passkey-only app narrows them.
Offered(u, i) == IF i # 0 /\ policy.factor = "passkey" THEN Factors[u] \cap {"webauthn"} ELSE Factors[u]

\* Login: the password was right. An interaction is the browser's own, unanswered, and of
\* this account or of nobody yet; an app that needs a factor refuses an account without one.
Login(b, u, i) ==
    LET new == {l \in Logins : login[l].st = "none"}
        l == CHOOSE k \in new : \A j \in new : k <= j
    IN  /\ new # {}
        /\ i # 0 => Usable(i, b) /\ inter[i].sess = 0 /\ inter[i].user \in {NoUser, u}
        /\ i # 0 /\ (policy.factor # "password" \/ inter[i].ask.mfa) => Offered(u, i) # {}
        /\ login' = [login EXCEPT ![l] = [st |-> "proved", by |-> b, user |-> u, i |-> i, primary |-> now]]
        /\ UNCHANGED <<policy, inter, sessions, cookie, hnd, codes, answered, now, edits>>

\* Mutant of Renews: every sign-in makes a session of its own.
RenewsNever(i, b, u) == FALSE

\* The session of the interaction's browser is renewed in place while it lives.
Renews(i, b, u) ==
    /\ i \in Live /\ inter[i].by = b /\ inter[i].orig # 0
    /\ sessions[inter[i].orig].live /\ sessions[inter[i].orig].user = u

\* CreateSessionForInteraction's UPDATE: still there, of this browser, unanswered, in time,
\* of this account, which has room for it.
Completes(l, b) ==
    LET L == login[l]
    IN  /\ Usable(L.i, b) /\ inter[L.i].sess = 0
        /\ inter[L.i].user \in {NoUser, L.user}
        /\ Cardinality(OwnedBy(L.user) \ {L.i}) < MaxTabs
        /\ inter[L.i].made <= L.primary

\* Mutant of EarlierAnswers: a renewed session keeps what its last sign-in answered.
EarlierAnswersKept(s, i) == {}

\* Interactions the session answered before: its new sign-in is not theirs.
EarlierAnswers(s, i) == {j \in Live \ {i} : inter[j].sess = s}

\* createSessionAndRespond: the session and the interaction are written together; when the
\* interaction is not there to complete, the sign-in stands without it.
FinishLogin(l, b, factor) ==
    LET L == login[l]
        completes == L.i # 0 /\ Completes(l, b)
        renews == completes /\ Renews(L.i, b, L.user)
        s == IF renews THEN inter[L.i].orig ELSE l
    IN  /\ L.st = "proved"
        /\ factor \in Proofs(L.user)
        /\ Factors[L.user] = {} => b = L.by
        /\ login' = [login EXCEPT ![l] = [NoLogin EXCEPT !.st = "done"]]
        /\ sessions' = [sessions EXCEPT ![s] = [live |-> TRUE, user |-> L.user,
                       ev |-> [login |-> l, primary |-> L.primary, factor |-> factor,
                               fat |-> IF factor = "none" THEN 0 ELSE now]]]
        /\ inter' = [i \in Interactions |->
              IF completes /\ i = L.i THEN [inter[i] EXCEPT !.sess = s, !.user = L.user]
              ELSE IF renews /\ i \in EarlierAnswers(s, L.i) THEN [inter[i] EXCEPT !.exp = now]
              ELSE inter[i]]
        /\ cookie' = [cookie EXCEPT ![b] = l]
        /\ UNCHANGED <<policy, hnd, codes, answered, now, edits>>

-----------------------------------------------------------------------------
(* What ends sessions and requirements.                                     *)

\* revokeSessionsTx: what the sessions answered and issued goes with them.
EndSessions(S) ==
    /\ sessions' = [s \in Logins |-> IF s \in S THEN NoSess ELSE sessions[s]]
    /\ codes' = {c \in codes : c.sess \notin S}

\* RevokeSession, of the session the browser is in; the cookie is cleared with it.
SignOut(b) ==
    /\ SessionOf(b) # 0
    /\ EndSessions({SessionOf(b)})
    /\ inter' = Without({i \in Live : inter[i].sess = SessionOf(b)})
    /\ cookie' = [cookie EXCEPT ![b] = 0]
    /\ UNCHANGED <<policy, login, hnd, answered, now, edits>>

Logout(b) == SignOut(b)

\* EndSession: an app asks for the sign-out. What ends is the browser's own session, when the
\* app's ID token names it or the user confirms on a page made out for its token.
EndSession(b) == SignOut(b)

Edit == edits < MaxEdits /\ edits' = edits + 1

\* revokeUserAccessTx: an administrator or a factor reset ends all of it. A sign-in whose
\* second factor is still to come ends too; one that is past it, or needs none, goes on.
RevokeUserAccess(u) ==
    /\ Edit
    /\ EndSessions({s \in Logins : sessions[s].live /\ sessions[s].user = u})
    /\ inter' = Without({i \in Live : inter[i].user = u})
    /\ \E spent \in SUBSET {l \in Logins : login[l].st = "proved" /\ login[l].user = u} :
          /\ Factors[u] = {} => spent = {}
          /\ login' = [l \in Logins |-> IF l \in spent THEN [NoLogin EXCEPT !.st = "done"] ELSE login[l]]
    /\ UNCHANGED <<policy, cookie, hnd, answered, now>>

\* SetAppAuthenticationPolicy: what was begun or issued under the old policy is void.
SetAppAuthenticationPolicy(p) ==
    /\ Edit /\ p # policy
    /\ policy' = p
    /\ inter' = Without(Live) /\ codes' = {}
    /\ UNCHANGED <<sessions, cookie, login, hnd, answered, now>>

Tick ==
    /\ now < MaxTime /\ now' = now + 1
    /\ UNCHANGED <<policy, inter, sessions, cookie, login, hnd, codes, answered, edits>>

AuthNext ==
    \/ \E h \in Handlers :
          \/ \E b \in Browsers : \/ \E ask \in Asks : Authorize(h, b, ask)
                                 \/ \E i \in Interactions : AuthorizeInteraction(h, b, i)
          \/ ReadEvidence(h) \/ CreateAuthorizationCode(h)
    \/ \E b \in Browsers :
          \/ \E i \in Interactions : CancelInteraction(b, i)
          \/ \E u \in Users, i \in Interactions \cup {0} : Login(b, u, i)
          \/ \E l \in Logins, f \in Methods : FinishLogin(l, b, f)
          \/ Logout(b) \/ EndSession(b)
    \/ \E u \in Users : RevokeUserAccess(u)
    \/ \E p \in Policies : SetAppAuthenticationPolicy(p)
    \/ \E c \in codes : CodeEnds(c)
    \/ Tick

AuthSpec == AuthInit /\ [][AuthNext]_authVars

-----------------------------------------------------------------------------
(* Properties.                                                              *)

Issues(h) == hnd[h].pc = "commit" /\ codes' # codes /\ hnd'[h] = Idle

\* A request that demands a new sign-in gets a code only from one begun after it, and no
\* two such requests are answered by the same sign-in, whatever other tabs do with the
\* session meanwhile (CreateSessionForInteraction, prompt=login and max_age=0).
OwnSignInPerRequest ==
    [][\A h \in Handlers : (Issues(h) /\ hnd[h].ask.fresh) =>
          /\ hnd[h].i # 0 /\ hnd[h].ev.login > inter[hnd[h].i].after
          /\ hnd[h].ev.login \notin answered]_authVars

\* The code of an interaction goes to the browser that brought it, to the account that was
\* signed in there, and into that same session if there was one: signing out of it, or
\* signing in as somebody else in another tab, never carries the request over.
CodeForWhoAsked ==
    [][\A h \in Handlers : (Issues(h) /\ hnd[h].i # 0) =>
          LET row == inter[hnd[h].i]
          IN  /\ row.by = hnd[h].by
              /\ row.user = sessions[hnd[h].s].user
              /\ row.orig # 0 => row.orig = hnd[h].s]_authVars

\* A code that can still be exchanged rests on a sign-in that met, when the code was issued,
\* the policy the app has now, although the policy was read and judged before the
\* transaction that inserts it (checkCodeAppAuthenticationTx, SetAppAuthenticationPolicy).
CodeMeetsPolicy ==
    \A c \in codes : EvidenceMeets(policy, c.ev, c.at) /\ (policy.mode = "fresh" => c.fresh)
=============================================================================
