------------------------------- MODULE SignIn -------------------------------
(***************************************************************************)
(* Signing in to one account: the password step, the second factor (TOTP,  *)
(* a recovery code, a push approval), the lockout counters, and the        *)
(* sessions that result (internal/api/auth_handlers.go, internal/mfa and   *)
(* the tables of internal/store they use), while passwords change, factors *)
(* are reset and access is revoked.                                        *)
(*                                                                         *)
(* A member of Calls is an HTTP request in progress.  It runs one handler, *)
(* one statement of the store at a time, and may end after any of them     *)
(* (an error, a saturated password hasher, a restart: Abandon).  Sign-ins  *)
(* are those of the dashboard: they carry no authorization interaction.    *)
(***************************************************************************)
EXTENDS Naturals, Sequences, FiniteSets

CONSTANTS
    Calls,            \* requests that may be in progress at once
    Sources,          \* client addresses (an IPv6 /64 is one)
    AnySource,        \* the source "" that second-factor failures count under
    Steps,            \* TOTP time steps a code may be for
    MaxFailedLogins,  \* store.MaxFailedLogins
    MaxMFAAttempts,   \* mfa.MaxMFAAttempts
    MaxRequests,      \* bound: sign-in requests ever made
    MaxTokens,        \* bound: second-factor tokens ever issued
    MaxPushes,        \* bound: login pushes ever sent
    MaxSessions,      \* bound: sessions ever created
    MaxChanges,       \* bound: administrative and owner's changes
    MaxFactors,       \* bound: TOTP secrets and recovery codes ever issued
    Enrolments        \* factors the account may start with

ASSUME SignInAssumption ==
    /\ AnySource \notin Sources
    /\ IsFiniteSet(Calls)
    /\ Steps \subseteq Nat \ {0}
    /\ MaxFailedLogins \in Nat \ {0}
    /\ MaxMFAAttempts \in Nat \ {0}
    /\ MaxRequests \in Nat /\ MaxTokens \in Nat /\ MaxPushes \in Nat /\ MaxSessions \in Nat
    /\ MaxChanges \in Nat /\ MaxFactors \in Nat
    /\ Enrolments \subseteq SUBSET {"totp", "push"}

VARIABLES
    user,      \* the users row: status, and which password it has
    mfa,       \* enrolled factors and unused recovery code
    failures,  \* login_failures: count of the current window, per source
    tokens,    \* mfa_tokens
    pushes,    \* mfa_challenges with purpose login
    sessions,  \* every session ever created, in order; live marks the rows that remain
    call,      \* the requests in progress
    requests,  \* sign-in requests made so far
    changes,   \* changes made so far
    rev        \* history: how often revokeUserAccessTx has run

vars == <<user, mfa, failures, tokens, pushes, sessions, call, requests, changes, rev>>
-----------------------------------------------------------------------------
Statuses == {"active", "disabled"}
AllSources == Sources \cup {AnySource}
Tokens == 1..MaxTokens
Pushes == 1..MaxPushes

\* A proof of the second factor: a TOTP code of a secret for a time step, a
\* recovery code, an approved push, or anything else.
NoProof == <<"none", 0, 0>>
WrongProof == <<"wrong", 0, 0>>
TotpCode(secret, step) == <<"totp", secret, step>>
RecoveryCode(code) == <<"recovery", code, 0>>
PushApproval(p) == <<"push", p, 0>>
Proofs == {"none", "wrong", "totp", "recovery", "push"} \X Nat \X Nat

PCs == {"idle", "login", "password", "push", "issue",
        "token", "resolved", "reserve", "prove", "counter", "approval", "spend",
        "session", "clear", "fail", "enroll", "codes", "others"}

Idle == [pc |-> "idle", src |-> AnySource, right |-> FALSE, pw |-> 0,
         proved |-> 0, rev |-> 0, tok |-> 0, proof |-> NoProof, id |-> 0]

NoTokenRow == [state |-> "none", attempts |-> 0, guesses |-> 0,
               pw |-> 0, rev |-> 0, push |-> 0]

\* A login push: "pending"; "checked" when an answer has passed its checks and is
\* yet to be written; "overdue" when its life ended before that; "approved" in
\* time; "late", approved when it was overdue; "closed" when it is denied, marked
\* expired, or past its life with nothing under way, which no guard accepts.
PushStatuses == {"none", "pending", "checked", "overdue", "approved", "late", "closed"}

TokenRows == [state : {"none", "live", "lapsed", "used"}, attempts : Nat, guesses : Nat,
              pw : Nat, rev : Nat, push : Nat]
SessionRows == [live : BOOLEAN, pw : Nat, rev : Nat, tok : Nat, proof : Proofs]
Handlers == [pc : PCs, src : AllSources, right : BOOLEAN, pw : Nat, proved : Nat,
             rev : Nat, tok : Nat, proof : Proofs, id : Nat]

TypeOK ==
    /\ user \in [status : Statuses, pw : Nat]
    /\ mfa \in [secret : Nat, last : Nat, push : BOOLEAN, code : Nat, fresh : Nat]
    /\ failures \in [AllSources -> Nat]
    /\ tokens \in [Tokens -> TokenRows]
    /\ pushes \in [Pushes -> PushStatuses]
    /\ sessions \in Seq(SessionRows)
    /\ call \in [Calls -> Handlers]
    /\ requests \in Nat
    /\ changes \in Nat
    /\ rev \in Nat

\* The account starts active; TOTP comes with recovery codes.
Init ==
    /\ user = [status |-> "active", pw |-> 0]
    /\ \E E \in Enrolments :
          mfa = [secret |-> IF "totp" \in E THEN 1 ELSE 0, last |-> 0, push |-> "push" \in E,
                 code |-> IF "totp" \in E THEN 1 ELSE 0, fresh |-> 1]
    /\ failures = [s \in AllSources |-> 0]
    /\ tokens = [t \in Tokens |-> NoTokenRow]
    /\ pushes = [p \in Pushes |-> "none"]
    /\ sessions = <<>>
    /\ call = [c \in Calls |-> Idle]
    /\ requests = 0
    /\ changes = 0
    /\ rev = 0
-----------------------------------------------------------------------------
\* The handler returns.
Done(c) == call' = [call EXCEPT ![c] = Idle]

\* The handler goes on to its next statement.
Goto(c, pc) == call' = [call EXCEPT ![c].pc = pc]

\* Mutant of Locked: one failure more before the account locks.
LockedLate(s) ==
    \/ failures[s] > MaxFailedLogins
    \/ failures[AnySource] > MaxFailedLogins

\* IsAccountLocked: failures from this address, or second-factor failures.
Locked(s) ==
    \/ failures[s] >= MaxFailedLogins
    \/ failures[AnySource] >= MaxFailedLogins

Enrolled == mfa.secret # 0 \/ mfa.push

\* A row that GetValidMFAToken and ReserveMFAAttempt accept: neither spent nor
\* past its five minutes, with an attempt left.
ValidToken(t) == tokens[t].state = "live" /\ tokens[t].attempts < MaxMFAAttempts

\* A challenge that is pending and has not expired.
PendingPush(p) == pushes[p] \in {"pending", "checked"}

\* The row an INSERT adds: rows are numbered in the order they are created.
NewToken(t) == t \in Tokens /\ \A u \in Tokens : tokens[u].state = "none" <=> u >= t
NewPush(p) == p \in Pushes /\ \A q \in Pushes : pushes[q] = "none" <=> q >= p

LiveSession(i) == i \in DOMAIN sessions /\ sessions[i].live
-----------------------------------------------------------------------------
(* The password step. *)

Request == requests < MaxRequests /\ requests' = requests + 1

\* Login reads the account; right says whether the password offered is the one
\* of the row just read.
Login(c, s, right) ==
    /\ Request
    /\ call[c].pc = "idle"
    /\ user.status = "active"
    /\ call' = [call EXCEPT ![c] = [Idle EXCEPT !.pc = "login", !.src = s,
                                        !.right = right, !.pw = user.pw, !.proved = user.pw]]
    /\ UNCHANGED <<user, mfa, failures, tokens, pushes, sessions, changes, rev>>

\* The lockout check of loginRefusal and of resolveMFAToken.
CheckLockout(c) ==
    /\ call[c].pc \in {"login", "resolved"}
    /\ IF Locked(call[c].src) THEN Done(c)
       ELSE Goto(c, IF call[c].pc = "login" THEN "password"
                    ELSE IF call[c].proof[1] = "push" THEN "approval" ELSE "reserve")
    /\ UNCHANGED <<user, mfa, failures, tokens, pushes, sessions, requests, changes, rev>>

\* The password is checked against the row read first; then Login asks which
\* factors are enrolled.  With none, the session follows.
VerifyPassword(c) ==
    /\ call[c].pc = "password"
    /\ IF call[c].right
       THEN call' = [call EXCEPT ![c].rev = rev,
                        ![c].pc = CASE ~Enrolled -> "session" [] mfa.push -> "push" [] OTHER -> "issue"]
       ELSE Goto(c, "fail")
    /\ UNCHANGED <<user, mfa, failures, tokens, pushes, sessions, requests, changes, rev>>

\* loginPush: a challenge is created while no other is live, in one statement;
\* without one (pending, or the hourly allowance spent) the login goes on.
LoginPush(c) ==
    /\ call[c].pc = "push"
    /\ \/ \E p \in Pushes :
             /\ NewPush(p)
             /\ \A q \in Pushes : ~PendingPush(q)
             /\ pushes' = [pushes EXCEPT ![p] = "pending"]
             /\ call' = [call EXCEPT ![c].pc = "issue", ![c].id = p]
       \/ /\ Goto(c, "issue")
          /\ UNCHANGED pushes
    /\ UNCHANGED <<user, mfa, failures, tokens, sessions, requests, changes, rev>>

\* A row that is used up keeps what the history is about.
Used(row) == [row EXCEPT !.state = "used", !.pw = 0, !.rev = 0]

TokenFor(c) ==
    [NoTokenRow EXCEPT !.state = "live", !.pw = call[c].proved,
                       !.rev = call[c].rev, !.push = call[c].id]

\* Mutant of IssueMFAToken: CreateMFAToken inserts without looking at the account.
IssueMFATokenUnguarded(c) ==
    /\ call[c].pc = "issue"
    /\ \E t \in Tokens :
          /\ NewToken(t)
          /\ tokens' = [tokens EXCEPT ![t] = TokenFor(c)]
    /\ Done(c)
    /\ UNCHANGED <<user, mfa, failures, pushes, sessions, requests, changes, rev>>

\* CreateMFAToken: only while the account is active with the password proved.
IssueMFAToken(c) ==
    /\ call[c].pc = "issue"
    /\ IF user.status = "active" /\ user.pw = call[c].pw
       THEN \E t \in Tokens :
               /\ NewToken(t)
               /\ tokens' = [tokens EXCEPT ![t] = TokenFor(c)]
       ELSE UNCHANGED tokens
    /\ Done(c)
    /\ UNCHANGED <<user, mfa, failures, pushes, sessions, requests, changes, rev>>
-----------------------------------------------------------------------------
(* The second factor. *)

\* What a request may offer: a code of the secret as it is now, the unused
\* recovery code, a push challenge, or something wrong.
Offered ==
    {TotpCode(mfa.secret, k) : k \in IF mfa.secret # 0 THEN Steps ELSE {}}
      \cup {RecoveryCode(n) : n \in {mfa.code} \ {0}}
      \cup {PushApproval(p) : p \in {q \in Pushes : pushes[q] # "none"}}
      \cup {WrongProof}

\* VerifyTOTP, VerifyRecoveryCode, FinishPushLogin: ValidateMFAToken.
Verify(c, s, t, proof) ==
    /\ Request
    /\ call[c].pc = "idle"
    /\ ValidToken(t)
    /\ call' = [call EXCEPT ![c] = [Idle EXCEPT !.pc = "token", !.src = s,
                                        !.tok = t, !.proof = proof]]
    /\ UNCHANGED <<user, mfa, failures, tokens, pushes, sessions, changes, rev>>

\* resolveMFAToken reads the account again, and with it the password hash the
\* session will be checked against.
ResolveUser(c) ==
    /\ call[c].pc = "token"
    /\ IF user.status = "active"
       THEN call' = [call EXCEPT ![c].pc = "resolved", ![c].pw = user.pw]
       ELSE Done(c)
    /\ UNCHANGED <<user, mfa, failures, tokens, pushes, sessions, requests, changes, rev>>

\* Mutant of ReserveMFAAttempt: trusts the check made when the token was read.
ReserveMFAAttemptUnguarded(c) ==
    /\ call[c].pc = "reserve"
    /\ tokens' = [tokens EXCEPT ![call[c].tok].attempts = @ + 1]
    /\ Goto(c, "prove")
    /\ UNCHANGED <<user, mfa, failures, pushes, sessions, requests, changes, rev>>

ReserveMFAAttempt(c) ==
    /\ call[c].pc = "reserve"
    /\ IF ValidToken(call[c].tok)
       THEN /\ tokens' = [tokens EXCEPT ![call[c].tok].attempts = @ + 1]
            /\ Goto(c, "prove")
       ELSE /\ Done(c)
            /\ UNCHANGED tokens
    /\ UNCHANGED <<user, mfa, failures, pushes, sessions, requests, changes, rev>>

Guess(t) == tokens' = [tokens EXCEPT ![t].guesses = @ + 1]

\* VerifyUserTOTP reads the enrolled secret and matches the code with it.
VerifyUserTOTP(c) ==
    /\ call[c].pc = "prove"
    /\ call[c].proof[1] = "totp"
    /\ Guess(call[c].tok)
    /\ Goto(c, IF call[c].proof[2] = mfa.secret THEN "counter" ELSE "fail")
    /\ UNCHANGED <<user, mfa, failures, pushes, sessions, requests, changes, rev>>

\* It then spends the time step, which must be later than any spent before, on the
\* row as it is by now: another secret, perhaps, or no row.
ConsumeTOTPCounter(c) ==
    /\ call[c].pc = "counter"
    /\ IF mfa.secret # 0 /\ mfa.last < call[c].proof[3]
       THEN mfa' = [mfa EXCEPT !.last = call[c].proof[3]] /\ Goto(c, "spend")
       ELSE UNCHANGED mfa /\ Goto(c, "fail")
    /\ UNCHANGED <<user, failures, tokens, pushes, sessions, requests, changes, rev>>

\* ConsumeRecoveryCode spends the code in the statement that matches it; a wrong
\* code of either kind fails here.
ConsumeRecoveryCode(c) ==
    /\ call[c].pc = "prove"
    /\ call[c].proof[1] \in {"recovery", "wrong"}
    /\ Guess(call[c].tok)
    /\ IF call[c].proof = RecoveryCode(mfa.code)
       THEN mfa' = [mfa EXCEPT !.code = 0] /\ Goto(c, "spend")
       ELSE UNCHANGED mfa /\ Goto(c, "fail")
    /\ UNCHANGED <<user, failures, pushes, sessions, requests, changes, rev>>

\* Mutant of FinishPushLogin: an approval counts however late it came.
FinishPushLoginLate(c) ==
    /\ call[c].pc = "approval"
    /\ IF /\ call[c].proof[2] = tokens[call[c].tok].push
          /\ pushes[call[c].proof[2]] \in {"approved", "late"}
       THEN Goto(c, "spend") ELSE Done(c)
    /\ UNCHANGED <<user, mfa, failures, tokens, pushes, sessions, requests, changes, rev>>

\* FinishPushLogin: the challenge must be the token's own, approved, and still
\* inside its life.
FinishPushLogin(c) ==
    /\ call[c].pc = "approval"
    /\ IF /\ call[c].proof[2] = tokens[call[c].tok].push
          /\ pushes[call[c].proof[2]] = "approved"
       THEN Goto(c, "spend") ELSE Done(c)
    /\ UNCHANGED <<user, mfa, failures, tokens, pushes, sessions, requests, changes, rev>>

\* Mutant of SpendMFAToken: a token that was used is marked used again.
SpendMFATokenAgain(c) ==
    /\ call[c].pc = "spend"
    /\ tokens' = [tokens EXCEPT ![call[c].tok] = Used(@)]
    /\ call' = [call EXCEPT ![c].pc = "session", ![c].proved = call[c].pw]
    /\ UNCHANGED <<user, mfa, failures, pushes, sessions, requests, changes, rev>>

\* ConsumeMFAToken: the request that marks the token used goes on; its age was
\* checked before.
SpendMFAToken(c) ==
    /\ call[c].pc = "spend"
    /\ IF tokens[call[c].tok].state \in {"live", "lapsed"}
       THEN /\ tokens' = [tokens EXCEPT ![call[c].tok] = Used(@)]
            /\ call' = [call EXCEPT ![c].pc = "session", ![c].proved = tokens[call[c].tok].pw,
                                    ![c].rev = tokens[call[c].tok].rev]
       ELSE Done(c) /\ UNCHANGED tokens
    /\ UNCHANGED <<user, mfa, failures, pushes, sessions, requests, changes, rev>>
-----------------------------------------------------------------------------
(* Sessions and lockout. *)

\* CreateSession: a session starts only while the account is active and has the
\* password hash the handler read.
CreateSession(c) ==
    /\ call[c].pc = "session"
    /\ IF user.status = "active" /\ user.pw = call[c].pw
       THEN /\ Len(sessions) < MaxSessions
            /\ sessions' = Append(sessions,
                  [live |-> TRUE, pw |-> call[c].proved, rev |-> call[c].rev,
                   tok |-> call[c].tok, proof |-> call[c].proof])
            /\ Goto(c, "clear")
       ELSE Done(c) /\ UNCHANGED sessions
    /\ UNCHANGED <<user, mfa, failures, tokens, pushes, requests, changes, rev>>

\* ClearFailedLogins: the address's own failures and the second factor's; all of
\* them for an administrator, whose source is empty.
ClearFailedLogins(c) ==
    /\ call[c].pc = "clear"
    /\ failures' = [s \in AllSources |->
                      IF call[c].src = AnySource \/ s \in {call[c].src, AnySource}
                      THEN 0 ELSE failures[s]]
    /\ Done(c)
    /\ UNCHANGED <<user, mfa, tokens, pushes, sessions, requests, changes, rev>>

\* RecordFailedLogin: a wrong password counts for the address it came from, a
\* wrong second factor (mfaFailure) for the account.
RecordFailedLogin(c) ==
    /\ call[c].pc = "fail"
    /\ failures' = [failures EXCEPT ![IF call[c].tok = 0 THEN call[c].src ELSE AnySource] = @ + 1]
    /\ Done(c)
    /\ UNCHANGED <<user, mfa, tokens, pushes, sessions, requests, changes, rev>>

Abandon(c) ==
    /\ call[c].pc # "idle"
    /\ Done(c)
    /\ UNCHANGED <<user, mfa, failures, tokens, pushes, sessions, requests, changes, rev>>
-----------------------------------------------------------------------------
(* The authenticator device. *)

\* RespondPushChallenge reads the challenge, still pending and in time, and checks
\* the signature of an approver device; ResetUserMFA leaves no such device.
RespondPush(p) ==
    /\ pushes[p] = "pending"
    /\ mfa.push
    /\ pushes' = [pushes EXCEPT ![p] = "checked"]
    /\ UNCHANGED <<user, mfa, failures, tokens, sessions, call, requests, changes, rev>>

\* TransitionMFAChallengeStatus compares the status, and no longer the clock.
Answer(p, approve) ==
    /\ \/ /\ pushes[p] = "checked"
          /\ pushes' = [pushes EXCEPT ![p] = IF approve THEN "approved" ELSE "closed"]
       \/ /\ pushes[p] = "overdue"
          /\ pushes' = [pushes EXCEPT ![p] = IF approve THEN "late" ELSE "closed"]
    /\ UNCHANGED <<user, mfa, failures, tokens, sessions, call, requests, changes, rev>>

\* A poll (CheckPushChallenge) or another answer finds the challenge overdue.
ExpirePush(p) ==
    /\ pushes[p] = "overdue"
    /\ pushes' = [pushes EXCEPT ![p] = "closed"]
    /\ UNCHANGED <<user, mfa, failures, tokens, sessions, call, requests, changes, rev>>
-----------------------------------------------------------------------------
(* Revocation. *)

EndedSession(s) == [s EXCEPT !.live = FALSE, !.pw = 0, !.rev = 0]

\* revokeSessionsTx over the sessions in S.
SessionsWithout(S) == [i \in DOMAIN sessions |-> IF i \in S THEN EndedSession(sessions[i]) ELSE sessions[i]]

\* spendMFATokensTx.
SpendMFATokens ==
    tokens' = [t \in Tokens |->
                 IF tokens[t].state \in {"live", "lapsed"} THEN Used(tokens[t]) ELSE tokens[t]]

\* revokeUserAccessTx: every session, and every pending sign-in.
RevokeUserAccessTx ==
    /\ sessions' = SessionsWithout(DOMAIN sessions)
    /\ SpendMFATokens
    /\ rev' = rev + 1

Change == changes < MaxChanges /\ changes' = changes + 1

RevokeUserAccess ==
    /\ Change
    /\ RevokeUserAccessTx
    /\ UNCHANGED <<user, mfa, failures, pushes, call, requests>>

ResetUserMFA ==
    /\ Change
    /\ mfa' = [mfa EXCEPT !.secret = 0, !.last = 0, !.push = FALSE, !.code = 0]
    /\ RevokeUserAccessTx
    /\ UNCHANGED <<user, failures, pushes, call, requests>>

\* EditUser with a status: disabling offboards, enabling ends nothing.
DisableUser ==
    /\ Change
    /\ user.status = "active"
    /\ user' = [user EXCEPT !.status = "disabled"]
    /\ RevokeUserAccessTx
    /\ UNCHANGED <<mfa, failures, pushes, call, requests>>

EnableUser ==
    /\ user.status = "disabled"
    /\ user' = [user EXCEPT !.status = "active"]
    /\ UNCHANGED <<mfa, failures, tokens, pushes, sessions, call, requests, changes, rev>>

\* EditUser with a password; the failures are cleared by a later statement.
SetPassword(c) ==
    /\ Change
    /\ call[c].pc = "idle"
    /\ user' = [user EXCEPT !.pw = @ + 1]
    /\ RevokeUserAccessTx
    /\ Goto(c, "clear")
    /\ UNCHANGED <<mfa, failures, pushes, requests>>

\* RedeemAccountToken with a reset link: one transaction, failures included.
ResetPassword ==
    /\ Change
    /\ user.status = "active"
    /\ user' = [user EXCEPT !.pw = @ + 1]
    /\ RevokeUserAccessTx
    /\ failures' = [s \in AllSources |-> 0]
    /\ UNCHANGED <<mfa, pushes, call, requests>>

\* ChangePassword by the owner: the session that proved itself stays.
ChangePassword(i) ==
    /\ Change
    /\ LiveSession(i)
    /\ user.status = "active"
    /\ user' = [user EXCEPT !.pw = @ + 1]
    /\ sessions' = [SessionsWithout(DOMAIN sessions \ {i}) EXCEPT ![i].pw = user'.pw]
    /\ SpendMFATokens
    /\ UNCHANGED <<mfa, failures, pushes, call, requests, rev>>

\* Logout, RevokeSession, and a session that reached the end of its life.
EndSession(i) ==
    /\ Change
    /\ LiveSession(i)
    /\ sessions' = SessionsWithout({i})
    /\ UNCHANGED <<user, mfa, failures, tokens, pushes, call, requests, rev>>

\* EnableTOTP by a signed-in owner, whose step-up is spent first: the secret, then
\* new recovery codes, then the other sessions.
EnableTOTP(c, i) ==
    /\ Change
    /\ call[c].pc = "idle"
    /\ LiveSession(i)
    /\ call' = [call EXCEPT ![c].pc = "enroll", ![c].id = i]
    /\ UNCHANGED <<user, mfa, failures, tokens, pushes, sessions, requests, rev>>

\* SetMFAMethod: a replaced secret keeps the row and its last counter.
SaveUserTOTP(c) ==
    /\ call[c].pc = "enroll"
    /\ mfa.fresh < MaxFactors
    /\ mfa' = [mfa EXCEPT !.secret = mfa.fresh + 1, !.fresh = @ + 1]
    /\ Goto(c, "codes")
    /\ UNCHANGED <<user, failures, tokens, pushes, sessions, requests, changes, rev>>

ReplaceRecoveryCodes(c) ==
    /\ call[c].pc = "codes"
    /\ mfa.fresh < MaxFactors
    /\ mfa' = [mfa EXCEPT !.code = mfa.fresh + 1, !.fresh = @ + 1]
    /\ Goto(c, "others")
    /\ UNCHANGED <<user, failures, tokens, pushes, sessions, requests, changes, rev>>

RevokeOtherSessions(c) ==
    /\ call[c].pc = "others"
    /\ sessions' = SessionsWithout(DOMAIN sessions \ {call[c].id})
    /\ Done(c)
    /\ UNCHANGED <<user, mfa, failures, tokens, pushes, requests, changes, rev>>
-----------------------------------------------------------------------------
(* Time. *)

\* MFATokenTTL passes; DeleteExpiredMFATokens may then drop the row, after which
\* ConsumeMFAToken finds nothing to mark.
TokenLapses(t) ==
    /\ \/ /\ tokens[t].state = "live"
          /\ tokens' = [tokens EXCEPT ![t].state = "lapsed"]
       \/ /\ tokens[t].state = "lapsed"
          /\ tokens' = [tokens EXCEPT ![t] = Used(@)]
    /\ UNCHANGED <<user, mfa, failures, pushes, sessions, call, requests, changes, rev>>

PushLapses(p) ==
    /\ \/ /\ pushes[p] \in {"pending", "approved"}
          /\ pushes' = [pushes EXCEPT ![p] = "closed"]
       \/ /\ pushes[p] = "checked"
          /\ pushes' = [pushes EXCEPT ![p] = "overdue"]
    /\ UNCHANGED <<user, mfa, failures, tokens, sessions, call, requests, changes, rev>>

\* LockoutDuration without a failure: the row no longer locks, the next failure
\* starts a new window, and DeleteExpiredLoginFailures may drop it.
WindowLapses(s) ==
    /\ failures[s] > 0
    /\ failures' = [failures EXCEPT ![s] = 0]
    /\ UNCHANGED <<user, mfa, tokens, pushes, sessions, call, requests, changes, rev>>
-----------------------------------------------------------------------------
PasswordStep(c) ==
    \/ \E s \in Sources, right \in BOOLEAN : Login(c, s, right)
    \/ VerifyPassword(c)
    \/ LoginPush(c)
    \/ IssueMFAToken(c)

FactorStep(c) ==
    \/ \E s \in Sources, t \in Tokens, proof \in Offered : Verify(c, s, t, proof)
    \/ ResolveUser(c)
    \/ ReserveMFAAttempt(c)
    \/ VerifyUserTOTP(c)
    \/ ConsumeTOTPCounter(c)
    \/ ConsumeRecoveryCode(c)
    \/ FinishPushLogin(c)
    \/ SpendMFAToken(c)

CallStep(c) ==
    \/ PasswordStep(c)
    \/ FactorStep(c)
    \/ CheckLockout(c)
    \/ CreateSession(c)
    \/ ClearFailedLogins(c)
    \/ RecordFailedLogin(c)
    \/ Abandon(c)
    \/ SetPassword(c)
    \/ \E i \in DOMAIN sessions : EnableTOTP(c, i)
    \/ SaveUserTOTP(c)
    \/ ReplaceRecoveryCodes(c)
    \/ RevokeOtherSessions(c)

Administration ==
    \/ RevokeUserAccess
    \/ ResetUserMFA
    \/ DisableUser
    \/ EnableUser
    \/ ResetPassword
    \/ \E i \in DOMAIN sessions : ChangePassword(i) \/ EndSession(i)

Device == \E p \in Pushes : RespondPush(p) \/ \E approve \in BOOLEAN : Answer(p, approve)

Clock ==
    \/ \E t \in Tokens : TokenLapses(t)
    \/ \E p \in Pushes : PushLapses(p) \/ ExpirePush(p)
    \/ \E s \in AllSources : WindowLapses(s)

Next == (\E c \in Calls : CallStep(c)) \/ Administration \/ Device \/ Clock

Spec == Init /\ [][Next]_vars
-----------------------------------------------------------------------------
(* Properties. *)

\* Whoever holds a live session proved the password the account has now, or
\* changed it in that very session: no interleaving of the password step, the
\* second factor, which reads the account again, and a change or reset of the
\* password leaves a session that rests on an old one.
SessionsProvePassword ==
    \A i \in DOMAIN sessions : sessions[i].live => sessions[i].pw = user.pw

\* A second-factor token, a TOTP time step, a recovery code and a push approval
\* each make at most one session, however many requests present them at once.
OneSessionPerProof ==
    \A i, j \in DOMAIN sessions :
       /\ sessions[i].tok # 0
       /\ sessions[i].tok = sessions[j].tok \/ sessions[i].proof = sessions[j].proof
       => i = j

\* Requests racing on one token check no more codes than mfa.MaxMFAAttempts.
GuessesBounded == \A t \in Tokens : tokens[t].guesses <= MaxMFAAttempts

\* Failures in one window exceed MaxFailedLogins by no more than the requests
\* that were already past the lockout check when the limit was reached.
LockoutBound ==
    \A s \in AllSources : failures[s] < MaxFailedLogins + Cardinality(Calls)

\* A user is asked to approve one login at a time.
OneLivePush ==
    \A p, q \in Pushes : PendingPush(p) /\ PendingPush(q) => p = q

\* A push approval signs in the login it was asked for and no other, and an
\* approval recorded after the challenge had expired, which
\* TransitionMFAChallengeStatus allows, signs in nobody.
ApprovalInTimeForItsLogin ==
    \A i \in DOMAIN sessions : sessions[i].proof[1] = "push" =>
       /\ sessions[i].proof[2] = tokens[sessions[i].tok].push
       /\ pushes[sessions[i].proof[2]] # "late"

\* "a password proof taken before a revocation or password change cannot finish
\* after it" (spendMFATokensTx): no live session rests on a password proof older
\* than the last revocation.
\* The code does not keep to it: TLC refutes it under SignInRevocation.cfg.
ProofsEndWithRevocation ==
    \A i \in DOMAIN sessions : sessions[i].live => sessions[i].rev = rev
=============================================================================
