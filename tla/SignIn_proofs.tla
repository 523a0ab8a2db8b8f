--------------------------- MODULE SignIn_proofs ---------------------------
(***************************************************************************)
(* What SignIn guarantees for any number of concurrent requests, addresses *)
(* and tokens, and any limits.                                             *)
(***************************************************************************)
EXTENDS SignIn, FiniteSetTheorems, TLAPS

\* The steps of a second-factor request that holds a token.
FactorPCs == {"token", "resolved", "reserve", "prove", "counter", "approval", "spend"}
\* The steps of a password request.
PasswordPCs == {"login", "password", "push", "issue"}

\* A second-factor request holds a token that exists.
HoldsToken ==
    \A c \in Calls : call[c].pc \in FactorPCs =>
       call[c].tok \in Tokens /\ tokens[call[c].tok].state # "none"

Types == TypeOK /\ HoldsToken

\* The row CreateSession inserts.
SessionOf(c) == [live |-> TRUE, pw |-> call[c].proved, rev |-> call[c].rev,
                 tok |-> call[c].tok, proof |-> call[c].proof]

-----------------------------------------------------------------------------
(* Facts about the operators. *)

\* Ending sessions keeps the sequence, and what it ends is not live.
LEMMA SessionsWithoutType ==
  ASSUME NEW S, sessions \in Seq(SessionRows)
  PROVE  /\ SessionsWithout(S) \in Seq(SessionRows)
         /\ DOMAIN SessionsWithout(S) = DOMAIN sessions
         /\ \A i \in DOMAIN sessions :
              SessionsWithout(S)[i] = IF i \in S THEN EndedSession(sessions[i]) ELSE sessions[i]
<1>1. \A i \in DOMAIN sessions : sessions[i] \in SessionRows
  OBVIOUS
<1>2. \A i \in DOMAIN sessions : EndedSession(sessions[i]) \in SessionRows
  BY <1>1 DEF EndedSession, SessionRows
<1>3. DOMAIN sessions = 1..Len(sessions) /\ Len(sessions) \in Nat
  OBVIOUS
<1>4. \A i \in 1..Len(sessions) : SessionsWithout(S)[i] \in SessionRows
  BY <1>1, <1>2, <1>3 DEF SessionsWithout
<1>5. SessionsWithout(S) \in [1..Len(sessions) -> SessionRows]
  BY <1>3, <1>4 DEF SessionsWithout
<1>6. SessionsWithout(S) \in Seq(SessionRows)
  BY <1>3, <1>5
<1> QED BY <1>6 DEF SessionsWithout

LEMMA IdleType == Idle \in Handlers
BY DEF Idle, Handlers, PCs, AllSources, Proofs, NoProof

\* Returning and going on to another step touch one request.
LEMMA DoneType ==
  ASSUME NEW c \in Calls, call \in [Calls -> Handlers], Done(c)
  PROVE  /\ call' \in [Calls -> Handlers]
         /\ call'[c] = Idle
         /\ \A d \in Calls \ {c} : call'[d] = call[d]
BY IdleType DEF Done

LEMMA GotoType ==
  ASSUME NEW c \in Calls, NEW pc \in PCs, call \in [Calls -> Handlers], Goto(c, pc)
  PROVE  /\ call' \in [Calls -> Handlers]
         /\ call'[c] = [call[c] EXCEPT !.pc = pc]
         /\ \A d \in Calls \ {c} : call'[d] = call[d]
BY DEF Goto, Handlers

LEMMA UsedType ==
  ASSUME NEW row \in TokenRows
  PROVE  /\ Used(row) \in TokenRows
         /\ Used(row).state = "used"
         /\ Used(row).attempts = row.attempts /\ Used(row).guesses = row.guesses
         /\ Used(row).push = row.push
BY DEF Used, TokenRows

\* Spending the pending sign-ins leaves no token that could be used.
LEMMA SpendType ==
  ASSUME tokens \in [Tokens -> TokenRows], SpendMFATokens
  PROVE  /\ tokens' \in [Tokens -> TokenRows]
         /\ \A t \in Tokens : /\ tokens'[t].state \in {"none", "used"}
                              /\ tokens'[t].state = "none" <=> tokens[t].state = "none"
                              /\ tokens'[t].attempts = tokens[t].attempts
                              /\ tokens'[t].guesses = tokens[t].guesses
                              /\ tokens'[t].push = tokens[t].push
<1>1. \A t \in Tokens : tokens[t] \in TokenRows
  OBVIOUS
<1>2. \A t \in Tokens : /\ Used(tokens[t]) \in TokenRows
                        /\ Used(tokens[t]).state = "used"
                        /\ Used(tokens[t]).attempts = tokens[t].attempts
                        /\ Used(tokens[t]).guesses = tokens[t].guesses
                        /\ Used(tokens[t]).push = tokens[t].push
  BY <1>1, UsedType
<1>3. \A t \in Tokens : tokens[t].state \in {"none", "live", "lapsed", "used"}
  BY <1>1 DEF TokenRows
<1> QED BY <1>1, <1>2, <1>3 DEF SpendMFATokens
-----------------------------------------------------------------------------
(* Types. *)

\* What a request may offer is a proof.
LEMMA OfferedType ==
  ASSUME TypeOK, NEW proof \in Offered
  PROVE  proof \in Proofs
<1>1. mfa.secret \in Nat /\ mfa.code \in Nat
  BY DEF TypeOK
<1>2. \A k \in Steps : k \in Nat
  BY SignInAssumption
<1>3. \A p \in Pushes : p \in Nat
  BY SignInAssumption DEF Pushes
<1>4. 0 \in Nat
  OBVIOUS
<1>5. proof \in {TotpCode(mfa.secret, k) : k \in Steps} \cup {RecoveryCode(n) : n \in {mfa.code}}
                  \cup {PushApproval(p) : p \in Pushes} \cup {WrongProof}
  BY DEF Offered
<1> QED BY <1>1, <1>2, <1>3, <1>4, <1>5 DEF Proofs, TotpCode, RecoveryCode, PushApproval, WrongProof

\* A session is added at the end; the others stay where they are.
LEMMA AppendType ==
  ASSUME NEW S, NEW q \in Seq(S), NEW x \in S
  PROVE  /\ Append(q, x) \in Seq(S)
         /\ DOMAIN Append(q, x) = DOMAIN q \cup {Len(q) + 1}
         /\ Append(q, x)[Len(q) + 1] = x
         /\ \A i \in DOMAIN q : Append(q, x)[i] = q[i]
OBVIOUS

LEMMA CountedType ==
  ASSUME NEW row \in TokenRows
  PROVE  /\ [row EXCEPT !.attempts = @ + 1] \in TokenRows
         /\ [row EXCEPT !.guesses = @ + 1] \in TokenRows
BY DEF TokenRows

LEMMA InitTypes == Init => Types
<1> SUFFICES ASSUME Init PROVE Types
  OBVIOUS
<1>1. NoTokenRow \in TokenRows
  BY DEF NoTokenRow, TokenRows
<1>2. mfa \in [secret : Nat, last : Nat, push : BOOLEAN, code : Nat, fresh : Nat]
  BY DEF Init
<1>3. <<>> \in Seq(SessionRows)
  OBVIOUS
<1>4. TypeOK
  BY <1>1, <1>2, <1>3, IdleType DEF Init, TypeOK, Statuses, PushStatuses
<1>5. HoldsToken
  BY DEF Init, HoldsToken, Idle, FactorPCs
<1> QED BY <1>4, <1>5 DEF Types

\* The rows a step of one request leaves alone, and what it may do to the others.
LEMMA CallTypes ==
  ASSUME Types, NEW c \in Calls, CallStep(c)
  PROVE  TypeOK'
<1>1. /\ user \in [status : Statuses, pw : Nat]
      /\ user.status \in Statuses /\ user.pw \in Nat
      /\ mfa \in [secret : Nat, last : Nat, push : BOOLEAN, code : Nat, fresh : Nat]
      /\ failures \in [AllSources -> Nat]
      /\ tokens \in [Tokens -> TokenRows]
      /\ pushes \in [Pushes -> PushStatuses]
      /\ sessions \in Seq(SessionRows)
      /\ call \in [Calls -> Handlers]
      /\ call[c] \in Handlers
      /\ requests \in Nat /\ changes \in Nat /\ rev \in Nat
  BY DEF Types, TypeOK
<1>2. /\ \A t \in Tokens : t \in Nat
      /\ \A p \in Pushes : p \in Nat
  BY SignInAssumption DEF Tokens, Pushes
<1>3. {"login", "password", "push", "issue", "token", "resolved", "reserve", "prove", "counter", "approval",
       "spend", "session", "clear", "fail", "enroll", "codes", "others"} \subseteq PCs
  BY DEF PCs
<1>4. ASSUME NEW s \in Sources, NEW right \in BOOLEAN, Login(c, s, right) PROVE TypeOK'
  <2>1. [Idle EXCEPT !.pc = "login", !.src = s, !.right = right, !.pw = user.pw,
                     !.proved = user.pw] \in Handlers
    BY <1>1, <1>3, IdleType DEF Handlers, AllSources
  <2>2. call' \in [Calls -> Handlers]
    BY <1>1, <1>4, <2>1 DEF Login
  <2> QED BY <1>1, <1>4, <2>2 DEF Login, Request, TypeOK
<1>5. CASE VerifyPassword(c)
  <2>1. [call[c] EXCEPT !.rev = rev, !.pc = CASE ~Enrolled -> "session" [] mfa.push -> "push"
                                              [] OTHER -> "issue"] \in Handlers
    BY <1>1, <1>3 DEF Handlers
  <2>2. call' \in [Calls -> Handlers]
    BY <1>1, <1>3, <1>5, <2>1, GotoType DEF VerifyPassword
  <2> QED BY <1>1, <1>5, <2>2 DEF VerifyPassword, TypeOK
<1>6. CASE LoginPush(c)
  <2>1. \A p \in Pushes : [call[c] EXCEPT !.pc = "issue", !.id = p] \in Handlers
    BY <1>1, <1>2, <1>3 DEF Handlers
  <2>a. ASSUME NEW p \in Pushes, call' = [call EXCEPT ![c].pc = "issue", ![c].id = p]
        PROVE  call' \in [Calls -> Handlers]
    <3>1. call' = [call EXCEPT ![c] = [call[c] EXCEPT !.pc = "issue", !.id = p]]
      BY <1>1, <2>a
    <3> QED BY <1>1, <2>1, <3>1
  <2>b. ASSUME Goto(c, "issue") PROVE call' \in [Calls -> Handlers]
    BY <1>1, <1>3, <2>b, GotoType
  <2>2. call' \in [Calls -> Handlers]
    BY <1>6, <2>a, <2>b DEF LoginPush
  <2>3. pushes' \in [Pushes -> PushStatuses]
    BY <1>1, <1>6 DEF LoginPush, PushStatuses
  <2> QED BY <1>1, <1>6, <2>2, <2>3 DEF LoginPush, TypeOK
<1>7. CASE IssueMFAToken(c)
  <2>1. TokenFor(c) \in TokenRows
    BY <1>1 DEF TokenFor, TokenRows, NoTokenRow, Handlers
  <2>2. tokens' \in [Tokens -> TokenRows]
    BY <1>1, <1>7, <2>1 DEF IssueMFAToken
  <2>3. call' \in [Calls -> Handlers]
    BY <1>1, <1>7, DoneType DEF IssueMFAToken
  <2> QED BY <1>1, <1>7, <2>2, <2>3 DEF IssueMFAToken, TypeOK
<1>8. ASSUME NEW s \in Sources, NEW t \in Tokens, NEW proof \in Offered, Verify(c, s, t, proof)
      PROVE  TypeOK'
  <2>1. proof \in Proofs
    BY OfferedType DEF Types
  <2>2. [Idle EXCEPT !.pc = "token", !.src = s, !.tok = t, !.proof = proof] \in Handlers
    BY <1>2, <1>3, <2>1, IdleType DEF Handlers, AllSources
  <2>3. call' \in [Calls -> Handlers]
    BY <1>1, <1>8, <2>2 DEF Verify
  <2> QED BY <1>1, <1>8, <2>3 DEF Verify, Request, TypeOK
<1>9. CASE ResolveUser(c)
  <2>1. [call[c] EXCEPT !.pc = "resolved", !.pw = user.pw] \in Handlers
    BY <1>1, <1>3 DEF Handlers
  <2>2. call' \in [Calls -> Handlers]
    BY <1>1, <1>9, <2>1, DoneType DEF ResolveUser
  <2> QED BY <1>1, <1>9, <2>2 DEF ResolveUser, TypeOK
<1>10. CASE ReserveMFAAttempt(c)
  <2>1. \A t \in Tokens : [tokens[t] EXCEPT !.attempts = @ + 1] \in TokenRows
    BY <1>1, CountedType
  <2>2. tokens' \in [Tokens -> TokenRows]
    <3>1. \/ tokens' = tokens
          \/ tokens' = [tokens EXCEPT ![call[c].tok] = [tokens[call[c].tok] EXCEPT !.attempts = @ + 1]]
      BY <1>10 DEF ReserveMFAAttempt
    <3> QED BY <1>1, <2>1, <3>1
  <2>3. call' \in [Calls -> Handlers]
    BY <1>1, <1>3, <1>10, DoneType, GotoType DEF ReserveMFAAttempt
  <2> QED BY <1>1, <1>10, <2>2, <2>3 DEF ReserveMFAAttempt, TypeOK
<1>11. ASSUME NEW t, Guess(t) PROVE tokens' \in [Tokens -> TokenRows]
  <2>1. \A u \in Tokens : [tokens[u] EXCEPT !.guesses = @ + 1] \in TokenRows
    BY <1>1, CountedType
  <2> QED BY <1>1, <1>11, <2>1 DEF Guess
<1>12. CASE VerifyUserTOTP(c)
  <2>2. call' \in [Calls -> Handlers]
    BY <1>1, <1>3, <1>12, GotoType DEF VerifyUserTOTP
  <2>4. tokens' \in [Tokens -> TokenRows]
    BY <1>11, <1>12 DEF VerifyUserTOTP
  <2> QED BY <1>1, <1>12, <2>2, <2>4 DEF VerifyUserTOTP, TypeOK
<1>25. CASE ConsumeTOTPCounter(c)
  <2>1. call[c].proof[3] \in Nat
    BY <1>1 DEF Handlers, Proofs
  <2>2. call' \in [Calls -> Handlers]
    BY <1>1, <1>3, <1>25, GotoType DEF ConsumeTOTPCounter
  <2>3. mfa' \in [secret : Nat, last : Nat, push : BOOLEAN, code : Nat, fresh : Nat]
    BY <1>1, <1>25, <2>1 DEF ConsumeTOTPCounter
  <2> QED BY <1>1, <1>25, <2>2, <2>3 DEF ConsumeTOTPCounter, TypeOK
<1>13. CASE ConsumeRecoveryCode(c)
  <2>2. call' \in [Calls -> Handlers]
    BY <1>1, <1>3, <1>13, GotoType DEF ConsumeRecoveryCode
  <2>3. mfa' \in [secret : Nat, last : Nat, push : BOOLEAN, code : Nat, fresh : Nat]
    BY <1>1, <1>13 DEF ConsumeRecoveryCode
  <2>4. tokens' \in [Tokens -> TokenRows]
    BY <1>11, <1>13 DEF ConsumeRecoveryCode
  <2> QED BY <1>1, <1>13, <2>2, <2>3, <2>4 DEF ConsumeRecoveryCode, TypeOK
<1>14. CASE FinishPushLogin(c)
  <2>2. call' \in [Calls -> Handlers]
    BY <1>1, <1>3, <1>14, DoneType, GotoType DEF FinishPushLogin
  <2> QED BY <1>1, <1>14, <2>2 DEF FinishPushLogin, TypeOK
<1>15. CASE SpendMFAToken(c)
  <2>1. call[c].tok \in Tokens
    BY <1>15 DEF Types, HoldsToken, FactorPCs, SpendMFAToken
  <2>2. tokens[call[c].tok] \in TokenRows
    BY <1>1, <2>1
  <2>3. [call[c] EXCEPT !.pc = "session", !.proved = tokens[call[c].tok].pw,
                        !.rev = tokens[call[c].tok].rev] \in Handlers
    BY <1>1, <1>3, <2>2 DEF Handlers, TokenRows
  <2>4. call' \in [Calls -> Handlers]
    BY <1>1, <1>15, <2>3, DoneType DEF SpendMFAToken
  <2>5. tokens' \in [Tokens -> TokenRows]
    BY <1>1, <1>15, <2>1, <2>2, UsedType DEF SpendMFAToken
  <2> QED BY <1>1, <1>15, <2>4, <2>5 DEF SpendMFAToken, TypeOK
<1>16. CASE CheckLockout(c)
  <2>1. (IF call[c].pc = "login" THEN "password"
         ELSE IF call[c].proof[1] = "push" THEN "approval" ELSE "reserve") \in PCs
    BY <1>3
  <2>2. call' \in [Calls -> Handlers]
    BY <1>1, <1>16, <2>1, DoneType, GotoType DEF CheckLockout
  <2> QED BY <1>1, <1>16, <2>2 DEF CheckLockout, TypeOK
<1>17. CASE CreateSession(c)
  <2>1. SessionOf(c) \in SessionRows
    BY <1>1 DEF Handlers, SessionRows, SessionOf
  <2>a. sessions' = Append(sessions, SessionOf(c)) \/ sessions' = sessions
    BY <1>17 DEF CreateSession, SessionOf
  <2>b. Append(sessions, SessionOf(c)) \in Seq(SessionRows)
    BY <1>1, <2>1, AppendType
  <2>2. sessions' \in Seq(SessionRows)
    BY <1>1, <2>a, <2>b
  <2>3. call' \in [Calls -> Handlers]
    BY <1>1, <1>3, <1>17, DoneType, GotoType DEF CreateSession
  <2> QED BY <1>1, <1>17, <2>2, <2>3 DEF CreateSession, TypeOK
<1>18. CASE ClearFailedLogins(c)
  <2>1. call' \in [Calls -> Handlers]
    BY <1>1, <1>18, DoneType DEF ClearFailedLogins
  <2>2. failures' \in [AllSources -> Nat]
    BY <1>1, <1>18 DEF ClearFailedLogins
  <2> QED BY <1>1, <1>18, <2>1, <2>2 DEF ClearFailedLogins, TypeOK
<1>19. CASE RecordFailedLogin(c)
  <2>1. call' \in [Calls -> Handlers]
    BY <1>1, <1>19, DoneType DEF RecordFailedLogin
  <2>2. failures' \in [AllSources -> Nat]
    <3>1. \A s \in AllSources : failures[s] + 1 \in Nat
      BY <1>1
    <3> QED BY <1>1, <1>19, <3>1 DEF RecordFailedLogin
  <2> QED BY <1>1, <1>19, <2>1, <2>2 DEF RecordFailedLogin, TypeOK
<1>20. CASE Abandon(c)
  BY <1>1, <1>20, DoneType DEF Abandon, TypeOK
<1>21. CASE SetPassword(c)
  <2>1. sessions' \in Seq(SessionRows)
    BY <1>1, <1>21, SessionsWithoutType DEF SetPassword, RevokeUserAccessTx
  <2>2. tokens' \in [Tokens -> TokenRows]
    BY <1>1, <1>21, SpendType DEF SetPassword, RevokeUserAccessTx
  <2>3. call' \in [Calls -> Handlers]
    BY <1>1, <1>3, <1>21, GotoType DEF SetPassword
  <2>4. user' \in [status : Statuses, pw : Nat]
    <3>1. user' = [user EXCEPT !.pw = user.pw + 1] /\ user.pw + 1 \in Nat
      BY <1>1, <1>21 DEF SetPassword
    <3> QED BY <1>1, <3>1
  <2> QED BY <1>1, <1>21, <2>1, <2>2, <2>3, <2>4 DEF SetPassword, RevokeUserAccessTx, Change, TypeOK
<1>22. ASSUME NEW i \in DOMAIN sessions, EnableTOTP(c, i) PROVE TypeOK'
  <2>1. i \in Nat
    BY <1>1
  <2>2. [call[c] EXCEPT !.pc = "enroll", !.id = i] \in Handlers
    BY <1>1, <1>3, <2>1 DEF Handlers
  <2>3. call' \in [Calls -> Handlers]
    BY <1>1, <1>22, <2>2 DEF EnableTOTP
  <2> QED BY <1>1, <1>22, <2>3 DEF EnableTOTP, Change, TypeOK
<1>26. CASE SaveUserTOTP(c)
  <2>1. call' \in [Calls -> Handlers]
    BY <1>1, <1>3, <1>26, GotoType DEF SaveUserTOTP
  <2>2. mfa' \in [secret : Nat, last : Nat, push : BOOLEAN, code : Nat, fresh : Nat]
    <3>1. mfa.fresh + 1 \in Nat
      BY <1>1
    <3> QED BY <1>1, <1>26, <3>1 DEF SaveUserTOTP
  <2> QED BY <1>1, <1>26, <2>1, <2>2 DEF SaveUserTOTP, TypeOK
<1>23. CASE ReplaceRecoveryCodes(c)
  <2>1. call' \in [Calls -> Handlers]
    BY <1>1, <1>3, <1>23, GotoType DEF ReplaceRecoveryCodes
  <2>2. mfa' \in [secret : Nat, last : Nat, push : BOOLEAN, code : Nat, fresh : Nat]
    <3>1. mfa.fresh + 1 \in Nat
      BY <1>1
    <3> QED BY <1>1, <1>23, <3>1 DEF ReplaceRecoveryCodes
  <2> QED BY <1>1, <1>23, <2>1, <2>2 DEF ReplaceRecoveryCodes, TypeOK
<1>24. CASE RevokeOtherSessions(c)
  <2>1. sessions' \in Seq(SessionRows)
    BY <1>1, <1>24, SessionsWithoutType DEF RevokeOtherSessions
  <2>2. call' \in [Calls -> Handlers]
    BY <1>1, <1>24, DoneType DEF RevokeOtherSessions
  <2> QED BY <1>1, <1>24, <2>1, <2>2 DEF RevokeOtherSessions, TypeOK
<1> QED BY <1>4, <1>5, <1>6, <1>7, <1>8, <1>9, <1>10, <1>12, <1>13, <1>14, <1>15, <1>16, <1>17,
           <1>18, <1>19, <1>20, <1>21, <1>22, <1>23, <1>24, <1>25, <1>26 DEF CallStep, PasswordStep, FactorStep

\* Administrators, the device and the clock keep the types.
LEMMA OtherTypes ==
  ASSUME Types, Administration \/ Device \/ Clock
  PROVE  TypeOK'
<1>1. /\ user \in [status : Statuses, pw : Nat]
      /\ user.status \in Statuses /\ user.pw \in Nat
      /\ mfa \in [secret : Nat, last : Nat, push : BOOLEAN, code : Nat, fresh : Nat]
      /\ failures \in [AllSources -> Nat]
      /\ tokens \in [Tokens -> TokenRows]
      /\ pushes \in [Pushes -> PushStatuses]
      /\ sessions \in Seq(SessionRows)
      /\ call \in [Calls -> Handlers]
      /\ requests \in Nat /\ changes \in Nat /\ rev \in Nat
  BY DEF Types, TypeOK
<1>2. ASSUME RevokeUserAccessTx
      PROVE  /\ sessions' \in Seq(SessionRows)
             /\ tokens' \in [Tokens -> TokenRows]
             /\ rev' \in Nat
  BY <1>1, <1>2, SessionsWithoutType, SpendType DEF RevokeUserAccessTx
<1>3. ASSUME Change PROVE changes' \in Nat
  BY <1>1, <1>3 DEF Change
<1>4. user.pw + 1 \in Nat
  BY <1>1
<1>5. CASE RevokeUserAccess
  BY <1>1, <1>2, <1>3, <1>5 DEF RevokeUserAccess, TypeOK
<1>6. CASE ResetUserMFA
  <2>1. mfa' \in [secret : Nat, last : Nat, push : BOOLEAN, code : Nat, fresh : Nat]
    BY <1>1, <1>6 DEF ResetUserMFA
  <2> QED BY <1>1, <1>2, <1>3, <1>6, <2>1 DEF ResetUserMFA, TypeOK
<1>7. CASE DisableUser
  <2>1. user' \in [status : Statuses, pw : Nat]
    BY <1>1, <1>7 DEF DisableUser, Statuses
  <2> QED BY <1>1, <1>2, <1>3, <1>7, <2>1 DEF DisableUser, TypeOK
<1>8. CASE EnableUser
  <2>1. user' \in [status : Statuses, pw : Nat]
    BY <1>1, <1>8 DEF EnableUser, Statuses
  <2> QED BY <1>1, <1>8, <2>1 DEF EnableUser, TypeOK
<1>9. CASE ResetPassword
  <2>1. user' \in [status : Statuses, pw : Nat]
    BY <1>1, <1>4, <1>9 DEF ResetPassword
  <2>2. failures' \in [AllSources -> Nat]
    BY <1>9 DEF ResetPassword
  <2> QED BY <1>1, <1>2, <1>3, <1>9, <2>1, <2>2 DEF ResetPassword, TypeOK
<1>10. ASSUME NEW i \in DOMAIN sessions, ChangePassword(i) PROVE TypeOK'
  <2>1. user' \in [status : Statuses, pw : Nat] /\ user'.pw \in Nat
    BY <1>1, <1>4, <1>10 DEF ChangePassword
  <2>2. tokens' \in [Tokens -> TokenRows]
    BY <1>1, <1>10, SpendType DEF ChangePassword
  <2>3. sessions' \in Seq(SessionRows)
    <3> DEFINE q == SessionsWithout(DOMAIN sessions \ {i})
    <3>1. q \in Seq(SessionRows)
      BY <1>1, SessionsWithoutType
    <3>2. \A j \in DOMAIN q : [q[j] EXCEPT !.pw = user'.pw] \in SessionRows
      <4>1. \A j \in DOMAIN q : q[j] \in SessionRows
        BY <3>1
      <4>2. \A r \in SessionRows : [r EXCEPT !.pw = user'.pw] \in SessionRows
        BY <2>1 DEF SessionRows
      <4> QED BY <4>1, <4>2
    <3>3. sessions' = [q EXCEPT ![i] = [q[i] EXCEPT !.pw = user'.pw]]
      BY <1>10 DEF ChangePassword
    <3> HIDE DEF q
    <3>4. i \in DOMAIN q => [q[i] EXCEPT !.pw = user'.pw] \in SessionRows
      BY <3>2
    <3>5. \A r \in SessionRows : i \in DOMAIN q => [q EXCEPT ![i] = r] \in Seq(SessionRows)
      BY <3>1
    <3>6. i \in DOMAIN q
      BY <1>1, SessionsWithoutType DEF q
    <3> QED BY <3>3, <3>4, <3>5, <3>6
  <2> QED BY <1>1, <1>3, <1>10, <2>1, <2>2, <2>3 DEF ChangePassword, TypeOK
<1>11. ASSUME NEW i \in DOMAIN sessions, EndSession(i) PROVE TypeOK'
  <2>1. sessions' \in Seq(SessionRows)
    BY <1>1, <1>11, SessionsWithoutType DEF EndSession
  <2> QED BY <1>1, <1>3, <1>11, <2>1 DEF EndSession, TypeOK
<1>12. CASE Device
  BY <1>1, <1>12 DEF Device, RespondPush, Answer, PushStatuses, TypeOK
<1>13. ASSUME NEW t \in Tokens, TokenLapses(t) PROVE TypeOK'
  <2>1. tokens[t] \in TokenRows /\ Used(tokens[t]) \in TokenRows
    BY <1>1, UsedType
  <2>2. [tokens[t] EXCEPT !.state = "lapsed"] \in TokenRows
    BY <2>1 DEF TokenRows
  <2>3. tokens' \in [Tokens -> TokenRows]
    BY <1>1, <1>13, <2>1, <2>2 DEF TokenLapses
  <2> QED BY <1>1, <1>13, <2>3 DEF TokenLapses, TypeOK
<1>14. ASSUME NEW p \in Pushes, PushLapses(p) \/ ExpirePush(p) PROVE TypeOK'
  BY <1>1, <1>14 DEF PushLapses, ExpirePush, PushStatuses, TypeOK
<1>15. ASSUME NEW s \in AllSources, WindowLapses(s) PROVE TypeOK'
  BY <1>1, <1>15 DEF WindowLapses, TypeOK
<1> QED BY <1>5, <1>6, <1>7, <1>8, <1>9, <1>10, <1>11, <1>12, <1>13, <1>14, <1>15
        DEF Administration, Clock
-----------------------------------------------------------------------------
(* The password behind a session. *)

\* The steps at which a second-factor request has read the account.
ResolvedPCs == {"resolved", "reserve", "prove", "counter", "approval", "spend"}

Unspent(t) == tokens[t].state \in {"live", "lapsed"}

\* What each request knows of the password: a password request compares with the
\* row it read; while a token is unspent no password has changed since it was
\* issued, so the row read for it has the password it proves.
PasswordOK(c) ==
    /\ call[c].pc \in PasswordPCs => call[c].tok = 0 /\ call[c].proved = call[c].pw
    /\ call[c].pc \in ResolvedPCs /\ Unspent(call[c].tok) => call[c].pw = user.pw
    /\ call[c].pc = "session" => call[c].proved = call[c].pw

TokensProvePassword == \A t \in Tokens : Unspent(t) => tokens[t].pw = user.pw

PasswordInv ==
    /\ TypeOK
    /\ HoldsToken
    /\ \A c \in Calls : PasswordOK(c)
    /\ TokensProvePassword
    /\ SessionsProvePassword

\* A step of one request that adds no token and no session.
LEMMA OneCallMoves ==
  ASSUME PasswordInv, TypeOK', NEW c \in Calls,
         \A d \in Calls \ {c} : call'[d] = call[d],
         UNCHANGED <<user, sessions>>,
         \A t \in Tokens : /\ tokens'[t].state = "none" <=> tokens[t].state = "none"
                           /\ Unspent(t)' => Unspent(t) /\ tokens'[t].pw = tokens[t].pw,
         PasswordOK(c)',
         call'[c].pc \in FactorPCs => call'[c].tok \in Tokens /\ tokens[call'[c].tok].state # "none"
  PROVE  PasswordInv'
<1>1. ASSUME NEW d \in Calls PROVE PasswordOK(d)'
  <2>1. CASE d = c
    BY <2>1
  <2>2. CASE d # c
    <3>1. call'[d] = call[d] /\ PasswordOK(d)
      BY <2>2 DEF PasswordInv
    <3>2. call[d].pc \in ResolvedPCs => call[d].tok \in Tokens
      BY DEF PasswordInv, HoldsToken, ResolvedPCs, FactorPCs
    <3>3. call[d].pc \in ResolvedPCs /\ tokens'[call[d].tok].state \in {"live", "lapsed"}
            => Unspent(call[d].tok)
      BY <3>2 DEF Unspent
    <3>4. call'[d].pc \in ResolvedPCs /\ Unspent(call[d].tok)' => call'[d].pw = user'.pw
      BY <3>1, <3>3 DEF PasswordOK, Unspent
    <3> QED BY <3>1, <3>4 DEF PasswordOK, Unspent
  <2> QED BY <2>1, <2>2
<1>2. HoldsToken'
  BY DEF PasswordInv, HoldsToken
<1>3. TokensProvePassword'
  BY DEF PasswordInv, TokensProvePassword
<1>4. SessionsProvePassword'
  BY DEF PasswordInv, SessionsProvePassword
<1> QED BY <1>1, <1>2, <1>3, <1>4 DEF PasswordInv

LEMMA InitPassword == Init => PasswordInv
<1> SUFFICES ASSUME Init PROVE PasswordInv
  OBVIOUS
<1>1. Types
  BY InitTypes
<1>2. \A c \in Calls : PasswordOK(c)
  BY DEF Init, PasswordOK, Idle, PasswordPCs, ResolvedPCs
<1>3. TokensProvePassword
  BY DEF Init, TokensProvePassword, Unspent, NoTokenRow
<1>4. SessionsProvePassword
  BY DEF Init, SessionsProvePassword
<1> QED BY <1>1, <1>2, <1>3, <1>4 DEF PasswordInv, Types

\* Ending sessions leaves the others with the password they proved.
LEMMA EndedSessionsProve ==
  ASSUME NEW S, TypeOK, SessionsProvePassword, UNCHANGED user, sessions' = SessionsWithout(S)
  PROVE  SessionsProvePassword'
<1>1. /\ DOMAIN sessions' = DOMAIN sessions
      /\ \A i \in DOMAIN sessions :
           sessions'[i] = IF i \in S THEN EndedSession(sessions[i]) ELSE sessions[i]
  BY SessionsWithoutType DEF TypeOK
<1>2. \A i \in DOMAIN sessions : sessions[i] \in SessionRows
  BY DEF TypeOK
<1>3. \A i \in DOMAIN sessions : ~EndedSession(sessions[i]).live
  BY <1>2 DEF EndedSession, SessionRows
<1> QED BY <1>1, <1>3 DEF SessionsProvePassword

\* revokeUserAccessTx leaves no session and no token to be used.
LEMMA RevokedAccess ==
  ASSUME TypeOK, RevokeUserAccessTx
  PROVE  /\ SpendMFATokens
         /\ \A i \in DOMAIN sessions' : ~sessions'[i].live
<1>1. /\ DOMAIN sessions' = DOMAIN sessions
      /\ \A i \in DOMAIN sessions : sessions'[i] = EndedSession(sessions[i])
  BY SessionsWithoutType DEF TypeOK, RevokeUserAccessTx
<1>2. \A i \in DOMAIN sessions : sessions[i] \in SessionRows
  BY DEF TypeOK
<1>3. \A i \in DOMAIN sessions : ~EndedSession(sessions[i]).live
  BY <1>2 DEF EndedSession, SessionRows
<1> QED BY <1>1, <1>3 DEF RevokeUserAccessTx

\* Once the tokens are spent it does not matter what the requests read: whatever
\* happens to the password.
LEMMA RevokedPassword ==
  ASSUME PasswordInv, TypeOK', SpendMFATokens,
         \A i \in DOMAIN sessions' : sessions'[i].live => sessions'[i].pw = user'.pw,
         \A d \in Calls : \/ call'[d] = call[d]
                          \/ call'[d].pc \notin FactorPCs \cup PasswordPCs \cup {"session"}
  PROVE  PasswordInv'
<1>1. \A t \in Tokens : /\ tokens'[t].state \in {"none", "used"}
                        /\ tokens'[t].state = "none" <=> tokens[t].state = "none"
  BY SpendType DEF PasswordInv, TypeOK
<1>2. HoldsToken'
  BY <1>1 DEF PasswordInv, HoldsToken
<1>3. ASSUME NEW d \in Calls PROVE PasswordOK(d)'
  <2>1. CASE call'[d] = call[d]
    <3>1. call[d].pc \in ResolvedPCs => call[d].tok \in Tokens
      BY DEF PasswordInv, HoldsToken, ResolvedPCs, FactorPCs
    <3> QED BY <1>1, <2>1, <3>1 DEF PasswordInv, PasswordOK, Unspent
  <2>2. CASE call'[d].pc \notin FactorPCs \cup PasswordPCs \cup {"session"}
    BY <2>2 DEF PasswordOK, FactorPCs, ResolvedPCs
  <2> QED BY <2>1, <2>2
<1>4. TokensProvePassword'
  BY <1>1 DEF TokensProvePassword, Unspent
<1>5. SessionsProvePassword'
  BY DEF SessionsProvePassword
<1> QED BY <1>2, <1>3, <1>4, <1>5 DEF PasswordInv

\* Tokens that were spent or counted, and new ones nobody holds, keep what the
\* requests know.
LEMMA CallPassword ==
  ASSUME PasswordInv, TypeOK', NEW c \in Calls, CallStep(c)
  PROVE  PasswordInv'
<1> DEFINE K == call[c]
<1>1. /\ call \in [Calls -> Handlers] /\ call[c] \in Handlers
      /\ tokens \in [Tokens -> TokenRows]
      /\ sessions \in Seq(SessionRows)
      /\ TypeOK /\ HoldsToken /\ PasswordOK(c)
      /\ TokensProvePassword /\ SessionsProvePassword
  BY DEF PasswordInv, TypeOK
<1>a. ASSUME UNCHANGED tokens
      PROVE  \A t \in Tokens : /\ tokens'[t].state = "none" <=> tokens[t].state = "none"
                               /\ Unspent(t)' => Unspent(t) /\ tokens'[t].pw = tokens[t].pw
  BY <1>a DEF Unspent
<1>2. {"login", "password", "push", "issue", "token", "resolved", "reserve", "prove", "counter", "approval",
       "spend", "session", "clear", "fail", "enroll", "codes", "others"} \subseteq PCs
  BY DEF PCs
<1>3. Idle.pc = "idle" /\ Idle.tok = 0
  BY DEF Idle
<1>4. ASSUME Done(c), UNCHANGED <<user, tokens, sessions>> PROVE PasswordInv'
  <2>1. call'[c] = Idle /\ \A d \in Calls \ {c} : call'[d] = call[d]
    BY <1>1, <1>4, DoneType
  <2> QED BY <1>3, <1>4, <2>1, <1>a, OneCallMoves DEF PasswordOK, PasswordPCs, ResolvedPCs, FactorPCs
<1>5. ASSUME NEW pc \in PCs, Goto(c, pc), UNCHANGED <<user, tokens, sessions>>,
             pc \in FactorPCs => K.pc \in FactorPCs,
             pc \in ResolvedPCs => K.pc \in ResolvedPCs,
             pc \in PasswordPCs => K.pc \in PasswordPCs,
             pc = "session" => K.pc \in PasswordPCs
      PROVE  PasswordInv'
  <2>1. call'[c] = [call[c] EXCEPT !.pc = pc] /\ \A d \in Calls \ {c} : call'[d] = call[d]
    BY <1>1, <1>5, GotoType
  <2>2. /\ call'[c].pc = pc /\ call'[c].tok = K.tok /\ call'[c].pw = K.pw
        /\ call'[c].proved = K.proved
    BY <1>1, <2>1 DEF Handlers
  <2>3. PasswordOK(c)'
    BY <1>1, <1>5, <2>2 DEF PasswordOK, Unspent
  <2>4. call'[c].pc \in FactorPCs => call'[c].tok \in Tokens /\ tokens[call'[c].tok].state # "none"
    BY <1>1, <1>5, <2>2 DEF HoldsToken
  <2> QED BY <1>5, <2>1, <2>3, <2>4, <1>a, OneCallMoves
<1>6. ASSUME NEW pc \in PCs, Goto(c, pc), UNCHANGED <<user, sessions>>,
             \A t \in Tokens : tokens'[t].state = tokens[t].state /\ tokens'[t].pw = tokens[t].pw,
             K.pc \in ResolvedPCs, pc \in ResolvedPCs \cup {"fail"}
      PROVE  PasswordInv'
  <2>1. call'[c] = [call[c] EXCEPT !.pc = pc] /\ \A d \in Calls \ {c} : call'[d] = call[d]
    BY <1>1, <1>6, GotoType
  <2>2. /\ call'[c].pc = pc /\ call'[c].tok = K.tok /\ call'[c].pw = K.pw
        /\ call'[c].proved = K.proved
    BY <1>1, <2>1 DEF Handlers
  <2>3. K.tok \in Tokens /\ tokens[K.tok].state # "none"
    BY <1>1, <1>6 DEF HoldsToken, ResolvedPCs, FactorPCs
  <2>4. PasswordOK(c)'
    BY <1>1, <1>6, <2>2, <2>3 DEF PasswordOK, Unspent, ResolvedPCs, PasswordPCs
  <2>5. \A t \in Tokens : /\ tokens'[t].state = "none" <=> tokens[t].state = "none"
                          /\ Unspent(t)' => Unspent(t) /\ tokens'[t].pw = tokens[t].pw
    BY <1>6 DEF Unspent
  <2> QED BY <1>6, <2>1, <2>2, <2>3, <2>4, <2>5, OneCallMoves
<1>b. ASSUME NEW s \in Sources, NEW right \in BOOLEAN, Login(c, s, right) PROVE PasswordInv'
  <2>1. /\ call'[c] = [Idle EXCEPT !.pc = "login", !.src = s, !.right = right, !.pw = user.pw,
                                   !.proved = user.pw]
        /\ \A d \in Calls \ {c} : call'[d] = call[d]
        /\ UNCHANGED <<user, tokens, sessions>>
    BY <1>1, <1>b DEF Login
  <2>2. call'[c].pc = "login" /\ call'[c].tok = 0 /\ call'[c].proved = call'[c].pw
    BY <2>1 DEF Idle
  <2> QED BY <2>1, <2>2, <1>a, OneCallMoves DEF PasswordOK, PasswordPCs, ResolvedPCs, FactorPCs
<1>7. CASE VerifyPassword(c)
  <2>1. CASE K.right
    <3>1. /\ call'[c] = [K EXCEPT !.rev = rev, !.pc = CASE ~Enrolled -> "session"
                                       [] mfa.push -> "push" [] OTHER -> "issue"]
          /\ \A d \in Calls \ {c} : call'[d] = call[d]
          /\ UNCHANGED <<user, tokens, sessions>>
      BY <1>1, <1>7, <2>1 DEF VerifyPassword
    <3>2. /\ call'[c].pc \in {"session", "push", "issue"}
          /\ call'[c].tok = K.tok /\ call'[c].proved = K.proved /\ call'[c].pw = K.pw
      BY <1>1, <3>1 DEF Handlers
    <3>3. K.tok = 0 /\ K.proved = K.pw
      BY <1>1, <1>7 DEF VerifyPassword, PasswordOK, PasswordPCs
    <3> QED BY <3>1, <3>2, <3>3, <1>a, OneCallMoves DEF PasswordOK, PasswordPCs, ResolvedPCs, FactorPCs
  <2>2. CASE ~K.right
    BY <1>2, <1>5, <1>7, <2>2 DEF VerifyPassword, PasswordPCs, ResolvedPCs, FactorPCs
  <2> QED BY <2>1, <2>2
<1>8. CASE LoginPush(c)
  <2>1. ASSUME NEW p \in Pushes, call' = [call EXCEPT ![c].pc = "issue", ![c].id = p]
        PROVE  PasswordInv'
    <3>1. /\ call'[c] = [K EXCEPT !.pc = "issue", !.id = p]
          /\ \A d \in Calls \ {c} : call'[d] = call[d]
      BY <1>1, <2>1
    <3>2. /\ call'[c].pc = "issue"
          /\ call'[c].tok = K.tok /\ call'[c].proved = K.proved /\ call'[c].pw = K.pw
      BY <1>1, <3>1 DEF Handlers
    <3>3. K.tok = 0 /\ K.proved = K.pw /\ UNCHANGED <<user, tokens, sessions>>
      BY <1>1, <1>8 DEF LoginPush, PasswordOK, PasswordPCs
    <3> QED BY <3>1, <3>2, <3>3, <1>a, OneCallMoves DEF PasswordOK, PasswordPCs, ResolvedPCs, FactorPCs
  <2>2. CASE Goto(c, "issue")
    BY <1>2, <1>5, <1>8, <2>2 DEF LoginPush, PasswordPCs, ResolvedPCs, FactorPCs
  <2> QED BY <1>8, <2>1, <2>2 DEF LoginPush
<1>9. CASE IssueMFAToken(c)
  <2>1. CASE tokens' = tokens
    BY <1>4, <1>9, <2>1 DEF IssueMFAToken
  <2>2. ASSUME NEW t \in Tokens, NewToken(t), tokens' = [tokens EXCEPT ![t] = TokenFor(c)],
               user.pw = K.pw
        PROVE  PasswordInv'
    <3>1. /\ call'[c] = Idle /\ \A d \in Calls \ {c} : call'[d] = call[d]
          /\ UNCHANGED <<user, sessions>>
      BY <1>1, <1>9, DoneType DEF IssueMFAToken
    <3>2. tokens[t].state = "none"
      <4>1. t >= t
        BY SignInAssumption DEF Tokens
      <4> QED BY <2>2, <4>1 DEF NewToken
    <3>3. tokens'[t].state = "live" /\ tokens'[t].pw = K.proved
      BY <1>1, <2>2 DEF TokenFor, NoTokenRow
    <3>4. \A u \in Tokens \ {t} : tokens'[u] = tokens[u]
      BY <1>1, <2>2
    <3>5. K.proved = user.pw
      BY <1>1, <1>9, <2>2 DEF PasswordOK, PasswordPCs, IssueMFAToken
    <3>6. HoldsToken'
      BY <1>1, <1>3, <3>1, <3>2, <3>3, <3>4 DEF HoldsToken, FactorPCs
    <3>7. ASSUME NEW d \in Calls PROVE PasswordOK(d)'
      <4>1. CASE d = c
        BY <1>3, <3>1, <4>1 DEF PasswordOK, PasswordPCs, ResolvedPCs
      <4>2. CASE d # c
        <5>1. call'[d] = call[d] /\ PasswordOK(d)
          BY <3>1, <4>2 DEF PasswordInv
        <5>2. call[d].pc \in ResolvedPCs => call[d].tok \in Tokens \ {t}
          BY <1>1, <3>2 DEF HoldsToken, ResolvedPCs, FactorPCs
        <5> QED BY <3>1, <3>4, <5>1, <5>2 DEF PasswordOK, Unspent
      <4> QED BY <4>1, <4>2
    <3>8. TokensProvePassword'
      BY <1>1, <3>1, <3>3, <3>4, <3>5 DEF TokensProvePassword, Unspent
    <3>9. SessionsProvePassword'
      BY <1>1, <3>1 DEF SessionsProvePassword
    <3> QED BY <3>6, <3>7, <3>8, <3>9 DEF PasswordInv
  <2> QED BY <1>9, <2>1, <2>2 DEF IssueMFAToken
<1>10. ASSUME NEW s \in Sources, NEW t \in Tokens, NEW proof \in Offered, Verify(c, s, t, proof)
       PROVE  PasswordInv'
  <2>1. /\ call'[c] = [Idle EXCEPT !.pc = "token", !.src = s, !.tok = t, !.proof = proof]
        /\ \A d \in Calls \ {c} : call'[d] = call[d]
        /\ UNCHANGED <<user, tokens, sessions>>
    BY <1>1, <1>10 DEF Verify
  <2>2. call'[c].pc = "token" /\ call'[c].tok = t
    BY <2>1 DEF Idle
  <2>3. tokens[t].state # "none"
    BY <1>10 DEF Verify, ValidToken
  <2> QED BY <2>1, <2>2, <2>3, <1>a, OneCallMoves DEF PasswordOK, PasswordPCs, ResolvedPCs
<1>11. CASE ResolveUser(c)
  <2>1. CASE user.status = "active"
    <3>1. /\ call'[c] = [K EXCEPT !.pc = "resolved", !.pw = user.pw]
          /\ \A d \in Calls \ {c} : call'[d] = call[d]
          /\ UNCHANGED <<user, tokens, sessions>>
      BY <1>1, <1>11, <2>1 DEF ResolveUser
    <3>2. call'[c].pc = "resolved" /\ call'[c].pw = user.pw /\ call'[c].tok = K.tok
      BY <1>1, <3>1 DEF Handlers
    <3>3. K.tok \in Tokens /\ tokens[K.tok].state # "none"
      BY <1>1, <1>11 DEF HoldsToken, FactorPCs, ResolveUser
    <3> QED BY <3>1, <3>2, <3>3, <1>a, OneCallMoves DEF PasswordOK, PasswordPCs, ResolvedPCs, FactorPCs
  <2>2. CASE user.status # "active"
    BY <1>4, <1>11, <2>2 DEF ResolveUser
  <2> QED BY <2>1, <2>2
<1>12. CASE ReserveMFAAttempt(c)
  <2>1. CASE tokens' = tokens /\ Done(c)
    BY <1>4, <1>12, <2>1 DEF ReserveMFAAttempt
  <2>2. ASSUME tokens' = [tokens EXCEPT ![K.tok].attempts = @ + 1], Goto(c, "prove")
        PROVE  PasswordInv'
    <3>1. \A t \in Tokens : tokens'[t].state = tokens[t].state /\ tokens'[t].pw = tokens[t].pw
      BY <1>1, <2>2 DEF TokenRows
    <3> QED BY <1>2, <1>6, <1>12, <2>2, <3>1 DEF ReserveMFAAttempt, PasswordPCs, ResolvedPCs, FactorPCs
  <2> QED BY <1>12, <2>1, <2>2 DEF ReserveMFAAttempt
<1>13. CASE VerifyUserTOTP(c)
  <2>1. \A t \in Tokens : tokens'[t].state = tokens[t].state /\ tokens'[t].pw = tokens[t].pw
    BY <1>1, <1>13 DEF VerifyUserTOTP, Guess, TokenRows
  <2> QED BY <1>2, <1>6, <1>13, <2>1 DEF VerifyUserTOTP, PasswordPCs, ResolvedPCs, FactorPCs
<1>26. CASE ConsumeTOTPCounter(c)
  BY <1>2, <1>5, <1>26 DEF ConsumeTOTPCounter, PasswordPCs, ResolvedPCs, FactorPCs
<1>14. CASE ConsumeRecoveryCode(c)
  <2>1. \A t \in Tokens : tokens'[t].state = tokens[t].state /\ tokens'[t].pw = tokens[t].pw
    BY <1>1, <1>14 DEF ConsumeRecoveryCode, Guess, TokenRows
  <2> QED BY <1>2, <1>6, <1>14, <2>1 DEF ConsumeRecoveryCode, PasswordPCs, ResolvedPCs, FactorPCs
<1>15. CASE FinishPushLogin(c)
  BY <1>2, <1>4, <1>5, <1>15 DEF FinishPushLogin, PasswordPCs, ResolvedPCs, FactorPCs
<1>16. CASE SpendMFAToken(c)
  <2>1. CASE Unspent(K.tok)
    <3>1. K.tok \in Tokens /\ tokens[K.tok] \in TokenRows
      BY <1>1, <1>16 DEF HoldsToken, FactorPCs, SpendMFAToken
    <3>2. /\ call'[c] = [K EXCEPT !.pc = "session", !.proved = tokens[K.tok].pw,
                                  !.rev = tokens[K.tok].rev]
          /\ \A d \in Calls \ {c} : call'[d] = call[d]
          /\ tokens' = [tokens EXCEPT ![K.tok] = Used(tokens[K.tok])]
          /\ UNCHANGED <<user, sessions>>
      BY <1>1, <1>16, <2>1 DEF SpendMFAToken, Unspent
    <3>3. /\ call'[c].pc = "session" /\ call'[c].pw = K.pw
          /\ call'[c].proved = tokens[K.tok].pw
      BY <1>1, <3>2 DEF Handlers
    <3>4. K.pw = user.pw /\ tokens[K.tok].pw = user.pw
      BY <1>1, <1>16, <2>1, <3>1 DEF PasswordOK, ResolvedPCs, SpendMFAToken, TokensProvePassword
    <3>5. \A t \in Tokens : /\ tokens'[t].state = "none" <=> tokens[t].state = "none"
                            /\ Unspent(t)' => Unspent(t) /\ tokens'[t].pw = tokens[t].pw
      <4>1. tokens'[K.tok].state = "used"
        BY <1>1, <3>1, <3>2, UsedType
      <4>2. \A t \in Tokens \ {K.tok} : tokens'[t] = tokens[t]
        BY <1>1, <3>2
      <4> QED BY <2>1, <4>1, <4>2 DEF Unspent
    <3>6. PasswordOK(c)' /\ call'[c].pc \notin FactorPCs
      BY <3>3, <3>4 DEF PasswordOK, PasswordPCs, ResolvedPCs, FactorPCs
    <3> QED BY <3>2, <3>5, <3>6, OneCallMoves
  <2>2. CASE ~Unspent(K.tok)
    BY <1>4, <1>16, <2>2 DEF SpendMFAToken, Unspent
  <2> QED BY <2>1, <2>2
<1>17. CASE CheckLockout(c)
  <2>1. CASE Locked(K.src)
    BY <1>4, <1>17, <2>1 DEF CheckLockout
  <2>2. CASE ~Locked(K.src) /\ K.pc = "login"
    <3>1. Goto(c, "password")
      BY <1>17, <2>2 DEF CheckLockout
    <3> QED BY <1>2, <1>5, <1>17, <2>2, <3>1 DEF CheckLockout, PasswordPCs, ResolvedPCs, FactorPCs
  <2>3. CASE ~Locked(K.src) /\ K.pc = "resolved"
    <3>1. Goto(c, "approval") \/ Goto(c, "reserve")
      BY <1>17, <2>3 DEF CheckLockout
    <3> QED BY <1>2, <1>5, <1>17, <2>3, <3>1 DEF CheckLockout, PasswordPCs, ResolvedPCs, FactorPCs
  <2> QED BY <1>17, <2>1, <2>2, <2>3 DEF CheckLockout
<1>18. CASE CreateSession(c)
  <2>1. CASE sessions' = sessions /\ Done(c)
    BY <1>4, <1>18, <2>1 DEF CreateSession
  <2>2. ASSUME user.pw = K.pw, sessions' = Append(sessions, SessionOf(c)), Goto(c, "clear")
        PROVE  PasswordInv'
    <3>1. call'[c] = [K EXCEPT !.pc = "clear"] /\ \A d \in Calls \ {c} : call'[d] = call[d]
      BY <1>1, <1>2, <2>2, GotoType
    <3>2. call'[c].pc = "clear"
      BY <1>1, <3>1 DEF Handlers
    <3>3. UNCHANGED <<user, tokens>>
      BY <1>18 DEF CreateSession
    <3>4. \A d \in Calls : PasswordOK(d)'
      BY <3>1, <3>2, <3>3 DEF PasswordInv, PasswordOK, PasswordPCs, ResolvedPCs, Unspent
    <3>5. HoldsToken'
      BY <1>1, <3>1, <3>2, <3>3 DEF HoldsToken, FactorPCs
    <3>6. SessionsProvePassword'
      <4>1. K.proved = user.pw
        BY <1>1, <1>18, <2>2 DEF PasswordOK, CreateSession
      <4>2. SessionOf(c) \in SessionRows /\ SessionOf(c).pw = user.pw
        BY <1>1, <4>1 DEF SessionOf, SessionRows, Handlers
      <4>3. /\ DOMAIN sessions' = DOMAIN sessions \cup {Len(sessions) + 1}
            /\ sessions'[Len(sessions) + 1] = SessionOf(c)
            /\ \A i \in DOMAIN sessions : sessions'[i] = sessions[i]
        BY <1>1, <2>2, <4>2, AppendType
      <4> QED BY <1>1, <3>3, <4>2, <4>3 DEF SessionsProvePassword
    <3>7. TokensProvePassword'
      BY <1>1, <3>3 DEF TokensProvePassword, Unspent
    <3> QED BY <3>4, <3>5, <3>6, <3>7 DEF PasswordInv
  <2> QED BY <1>18, <2>1, <2>2 DEF CreateSession, SessionOf
<1>19. CASE ClearFailedLogins(c)
  BY <1>4, <1>19 DEF ClearFailedLogins
<1>20. CASE RecordFailedLogin(c)
  BY <1>4, <1>20 DEF RecordFailedLogin
<1>21. CASE Abandon(c)
  BY <1>4, <1>21 DEF Abandon
<1>22. CASE SetPassword(c)
  <2>1. /\ call'[c] = [K EXCEPT !.pc = "clear"] /\ \A d \in Calls \ {c} : call'[d] = call[d]
    BY <1>1, <1>2, <1>22, GotoType DEF SetPassword
  <2>2. call'[c].pc = "clear"
    BY <1>1, <2>1 DEF Handlers
  <2>3. RevokeUserAccessTx
    BY <1>22 DEF SetPassword
  <2>4. SpendMFATokens /\ \A i \in DOMAIN sessions' : ~sessions'[i].live
    BY <1>1, <2>3, RevokedAccess
  <2>5. call'[c].pc \notin FactorPCs \cup PasswordPCs \cup {"session"}
    BY <2>2 DEF PasswordPCs, FactorPCs
  <2> QED BY <2>1, <2>4, <2>5, RevokedPassword
<1>23. ASSUME NEW i \in DOMAIN sessions, EnableTOTP(c, i) PROVE PasswordInv'
  <2>1. /\ call'[c] = [K EXCEPT !.pc = "enroll", !.id = i]
        /\ \A d \in Calls \ {c} : call'[d] = call[d]
        /\ UNCHANGED <<user, tokens, sessions>>
    BY <1>1, <1>23 DEF EnableTOTP
  <2>2. call'[c].pc = "enroll"
    BY <1>1, <2>1 DEF Handlers
  <2> QED BY <1>a, <2>1, <2>2, OneCallMoves DEF PasswordOK, PasswordPCs, ResolvedPCs, FactorPCs
<1>24. CASE ReplaceRecoveryCodes(c)
  BY <1>2, <1>5, <1>24 DEF ReplaceRecoveryCodes, PasswordPCs, ResolvedPCs, FactorPCs
<1>27. CASE SaveUserTOTP(c)
  BY <1>2, <1>5, <1>27 DEF SaveUserTOTP, PasswordPCs, ResolvedPCs, FactorPCs
<1>25. CASE RevokeOtherSessions(c)
  <2>1. call'[c] = Idle /\ \A d \in Calls \ {c} : call'[d] = call[d]
    BY <1>1, <1>25, DoneType DEF RevokeOtherSessions
  <2>2. UNCHANGED <<user, tokens>>
    BY <1>25 DEF RevokeOtherSessions
  <2>3. SessionsProvePassword'
    BY <1>1, <1>25, <2>2, EndedSessionsProve DEF RevokeOtherSessions
  <2>4. \A d \in Calls : PasswordOK(d)'
    BY <1>3, <2>1, <2>2 DEF PasswordInv, PasswordOK, PasswordPCs, ResolvedPCs, Unspent
  <2>5. HoldsToken'
    BY <1>1, <1>3, <2>1, <2>2 DEF HoldsToken, FactorPCs
  <2>6. TokensProvePassword'
    BY <1>1, <2>2 DEF TokensProvePassword, Unspent
  <2> QED BY <2>3, <2>4, <2>5, <2>6 DEF PasswordInv
<1> QED BY <1>7, <1>8, <1>9, <1>10, <1>11, <1>12, <1>13, <1>14, <1>15, <1>16, <1>17, <1>18, <1>19,
           <1>20, <1>21, <1>22, <1>23, <1>24, <1>25, <1>26, <1>27, <1>b DEF CallStep, PasswordStep, FactorStep

\* Administrators end what their change concerns; the clock only ages tokens.
LEMMA OtherPassword ==
  ASSUME PasswordInv, TypeOK', Administration \/ Device \/ Clock
  PROVE  PasswordInv'
<1>1. /\ tokens \in [Tokens -> TokenRows]
      /\ sessions \in Seq(SessionRows)
      /\ TypeOK /\ HoldsToken /\ TokensProvePassword /\ SessionsProvePassword
  BY DEF PasswordInv, TypeOK
<1>2. ASSUME RevokeUserAccessTx, UNCHANGED call PROVE PasswordInv'
  <2>1. SpendMFATokens /\ \A i \in DOMAIN sessions' : ~sessions'[i].live
    BY <1>1, <1>2, RevokedAccess
  <2> QED BY <1>2, <2>1, RevokedPassword
<1>3. ASSUME UNCHANGED <<tokens, sessions, call>>, user'.pw = user.pw PROVE PasswordInv'
  BY <1>3 DEF PasswordInv, HoldsToken, PasswordOK, Unspent, TokensProvePassword, SessionsProvePassword
<1>4. CASE RevokeUserAccess
  BY <1>2, <1>4 DEF RevokeUserAccess
<1>5. CASE ResetUserMFA
  BY <1>2, <1>5 DEF ResetUserMFA
<1>6. CASE DisableUser
  BY <1>2, <1>6 DEF DisableUser
<1>7. CASE EnableUser
  <2>1. user'.pw = user.pw
    BY <1>1, <1>7 DEF EnableUser, TypeOK
  <2> QED BY <1>3, <1>7, <2>1 DEF EnableUser
<1>8. CASE ResetPassword
  BY <1>2, <1>8 DEF ResetPassword
<1>9. ASSUME NEW i \in DOMAIN sessions, ChangePassword(i) PROVE PasswordInv'
  <2> DEFINE q == SessionsWithout(DOMAIN sessions \ {i})
  <2>1. /\ DOMAIN q = DOMAIN sessions
        /\ \A j \in DOMAIN sessions : q[j] = IF j # i THEN EndedSession(sessions[j]) ELSE sessions[j]
    BY <1>1, SessionsWithoutType
  <2>2. \A j \in DOMAIN sessions : sessions[j] \in SessionRows
    BY <1>1
  <2>3. \A j \in DOMAIN sessions : ~EndedSession(sessions[j]).live
    BY <2>2 DEF EndedSession, SessionRows
  <2>4. sessions' = [q EXCEPT ![i].pw = user'.pw] /\ SpendMFATokens /\ UNCHANGED call
    BY <1>9 DEF ChangePassword
  <2> HIDE DEF q
  <2>5. DOMAIN sessions' = DOMAIN sessions
    BY <2>1, <2>4
  <2>6. \A j \in DOMAIN sessions : j # i => ~sessions'[j].live
    BY <2>1, <2>3, <2>4
  <2>7. sessions'[i].pw = user'.pw
    BY <2>1, <2>2, <2>4 DEF SessionRows
  <2> QED BY <2>4, <2>5, <2>6, <2>7, RevokedPassword
<1>10. ASSUME NEW i \in DOMAIN sessions, EndSession(i) PROVE PasswordInv'
  <2>1. SessionsProvePassword'
    BY <1>1, <1>10, EndedSessionsProve DEF EndSession
  <2> QED BY <1>10, <2>1 DEF EndSession, PasswordInv, HoldsToken, PasswordOK, Unspent, TokensProvePassword
<1>11. CASE Device
  BY <1>3, <1>11 DEF Device, RespondPush, Answer
<1>12. ASSUME NEW t \in Tokens, TokenLapses(t) PROVE PasswordInv'
  <2>1. tokens[t] \in TokenRows /\ tokens[t].state # "none"
    BY <1>1, <1>12 DEF TokenLapses
  <2>2. \A u \in Tokens : /\ tokens'[u].state = "none" <=> tokens[u].state = "none"
                          /\ Unspent(u)' => Unspent(u) /\ tokens'[u].pw = tokens[u].pw
    <3>1. \A u \in Tokens \ {t} : tokens'[u] = tokens[u]
      BY <1>1, <1>12 DEF TokenLapses
    <3>2. CASE tokens[t].state = "live"
      <4>1. tokens' = [tokens EXCEPT ![t].state = "lapsed"]
        BY <1>12, <3>2 DEF TokenLapses
      <4>2. tokens'[t].state = "lapsed" /\ tokens'[t].pw = tokens[t].pw
        BY <1>1, <2>1, <4>1 DEF TokenRows
      <4> QED BY <3>1, <3>2, <4>2 DEF Unspent
    <3>3. CASE tokens[t].state = "lapsed"
      <4>1. tokens' = [tokens EXCEPT ![t] = Used(tokens[t])]
        BY <1>12, <3>3 DEF TokenLapses
      <4>2. tokens'[t].state = "used"
        BY <1>1, <2>1, <4>1, UsedType
      <4> QED BY <3>1, <3>3, <4>2 DEF Unspent
    <3> QED BY <1>12, <3>2, <3>3 DEF TokenLapses
  <2>3. UNCHANGED <<user, sessions, call>>
    BY <1>12 DEF TokenLapses
  <2>4. ASSUME NEW d \in Calls PROVE PasswordOK(d)'
    <3>1. call[d].pc \in ResolvedPCs => call[d].tok \in Tokens
      BY <1>1 DEF HoldsToken, ResolvedPCs, FactorPCs
    <3> QED BY <2>2, <2>3, <3>1 DEF PasswordInv, PasswordOK, Unspent
  <2>5. HoldsToken'
    BY <1>1, <2>2, <2>3 DEF HoldsToken
  <2>6. TokensProvePassword' /\ SessionsProvePassword'
    BY <1>1, <2>2, <2>3 DEF TokensProvePassword, SessionsProvePassword
  <2> QED BY <2>4, <2>5, <2>6 DEF PasswordInv
<1>13. ASSUME NEW p \in Pushes, PushLapses(p) \/ ExpirePush(p) PROVE PasswordInv'
  BY <1>3, <1>13 DEF PushLapses, ExpirePush
<1>14. ASSUME NEW s \in AllSources, WindowLapses(s) PROVE PasswordInv'
  BY <1>3, <1>14 DEF WindowLapses
<1> QED BY <1>4, <1>5, <1>6, <1>7, <1>8, <1>9, <1>10, <1>11, <1>12, <1>13, <1>14
        DEF Administration, Clock

LEMMA PasswordInductive == PasswordInv /\ [Next]_vars => PasswordInv'
<1> SUFFICES ASSUME PasswordInv, [Next]_vars PROVE PasswordInv'
  OBVIOUS
<1>1. Types
  BY DEF PasswordInv, Types
<1>2. CASE UNCHANGED vars
  BY <1>2 DEF vars, PasswordInv, TypeOK, HoldsToken, PasswordOK, Unspent, TokensProvePassword,
              SessionsProvePassword
<1>3. ASSUME NEW c \in Calls, CallStep(c) PROVE PasswordInv'
  BY <1>1, <1>3, CallTypes, CallPassword
<1>4. CASE Administration \/ Device \/ Clock
  BY <1>1, <1>4, OtherTypes, OtherPassword
<1> QED BY <1>2, <1>3, <1>4 DEF Next

\* Requests, tokens, counters and sessions keep their shape, whatever runs at once.
THEOREM SignInTypes == Spec => []TypeOK
<1>1. PasswordInv => TypeOK
  BY DEF PasswordInv
<1> QED BY <1>1, InitPassword, PasswordInductive, PTL DEF Spec

\* A live session rests on the password the account has now, for any number of
\* requests, tokens and password changes at once: CreateSession compares with the
\* row read by resolveMFAToken, which is sound because every change of the password
\* spends the tokens in its own transaction.
THEOREM CurrentPassword == Spec => []SessionsProvePassword
<1>1. PasswordInv => SessionsProvePassword
  BY DEF PasswordInv
<1> QED BY <1>1, InitPassword, PasswordInductive, PTL DEF Spec
-----------------------------------------------------------------------------
(* Codes tried and failures counted by requests that race. *)

\* The steps after the lockout check that may still end in a recorded failure.
PastPCs == {"password", "reserve", "prove", "counter", "fail"}

SameCounts(t) == tokens'[t].attempts = tokens[t].attempts /\ tokens'[t].guesses = tokens[t].guesses

\* How far one step takes a request: only ReserveMFAAttempt leads to a check of a
\* code, only CheckLockout to the steps that may record a failure.
Moves(c) ==
    /\ \A d \in Calls \ {c} : call'[d] = call[d]
    /\ call'[c].pc = "prove" => ReserveMFAAttempt(c)
    /\ call'[c].pc \in PastPCs =>
          /\ call'[c].tok = call[c].tok /\ call'[c].src = call[c].src
          /\ call[c].pc \in PastPCs \/ (CheckLockout(c) /\ ~Locked(call[c].src))

LEMMA CallMoves ==
  ASSUME PasswordInv, NEW c \in Calls, CallStep(c)
  PROVE  Moves(c)
<1> DEFINE K == call[c]
<1>1. /\ call \in [Calls -> Handlers] /\ call[c] \in Handlers
  BY DEF PasswordInv, TypeOK
<1>2. {"login", "password", "push", "issue", "token", "resolved", "reserve", "prove", "counter", "approval",
       "spend", "session", "clear", "fail", "enroll", "codes", "others"} \subseteq PCs
  BY DEF PCs
<1>3. ASSUME Done(c) PROVE Moves(c)
  BY <1>1, <1>3, DoneType DEF Moves, Idle, PastPCs
<1>4. ASSUME NEW pc \in PCs, Goto(c, pc)
      PROVE  /\ \A d \in Calls \ {c} : call'[d] = call[d]
             /\ call'[c].pc = pc /\ call'[c].tok = K.tok /\ call'[c].src = K.src
  BY <1>1, <1>4, GotoType DEF Handlers
<1>5. ASSUME NEW pc \in PCs, Goto(c, pc), pc \notin PastPCs PROVE Moves(c)
  BY <1>4, <1>5 DEF Moves, PastPCs
<1>6. ASSUME NEW pc, call' = [call EXCEPT ![c] = pc], pc.pc \notin PastPCs PROVE Moves(c)
  BY <1>1, <1>6 DEF Moves, PastPCs
<1>7. ASSUME Goto(c, "fail"), K.pc \in PastPCs PROVE Moves(c)
  BY <1>2, <1>4, <1>7 DEF Moves
<1>8. ASSUME NEW s \in Sources, NEW right \in BOOLEAN, Login(c, s, right) PROVE Moves(c)
  <2>1. [Idle EXCEPT !.pc = "login", !.src = s, !.right = right, !.pw = user.pw,
                     !.proved = user.pw].pc = "login"
    BY DEF Idle
  <2> QED BY <1>6, <1>8, <2>1 DEF Login, PastPCs
<1>9. CASE VerifyPassword(c)
  <2>1. CASE K.right
    <3> DEFINE L == [K EXCEPT !.rev = rev, !.pc = CASE ~Enrolled -> "session"
                                       [] mfa.push -> "push" [] OTHER -> "issue"]
    <3>1. call' = [call EXCEPT ![c] = L]
      BY <1>1, <1>9, <2>1 DEF VerifyPassword
    <3>2. L.pc \notin PastPCs
      BY <1>1 DEF Handlers, PastPCs
    <3> QED BY <1>6, <3>1, <3>2
  <2>2. CASE ~K.right
    BY <1>7, <1>9, <2>2 DEF VerifyPassword, PastPCs
  <2> QED BY <2>1, <2>2
<1>10. CASE LoginPush(c)
  <2>1. ASSUME NEW p \in Pushes, call' = [call EXCEPT ![c].pc = "issue", ![c].id = p]
        PROVE  Moves(c)
    <3>1. call' = [call EXCEPT ![c] = [K EXCEPT !.pc = "issue", !.id = p]]
      BY <1>1, <2>1
    <3>2. [K EXCEPT !.pc = "issue", !.id = p].pc = "issue"
      BY <1>1 DEF Handlers
    <3> QED BY <1>6, <3>1, <3>2 DEF PastPCs
  <2>2. CASE Goto(c, "issue")
    BY <1>2, <1>5, <2>2 DEF PastPCs
  <2> QED BY <1>10, <2>1, <2>2 DEF LoginPush
<1>11. CASE IssueMFAToken(c)
  BY <1>3, <1>11 DEF IssueMFAToken
<1>12. ASSUME NEW s \in Sources, NEW t \in Tokens, NEW proof \in Offered, Verify(c, s, t, proof)
       PROVE  Moves(c)
  <2>1. [Idle EXCEPT !.pc = "token", !.src = s, !.tok = t, !.proof = proof].pc = "token"
    BY DEF Idle
  <2> QED BY <1>6, <1>12, <2>1 DEF Verify, PastPCs
<1>13. CASE ResolveUser(c)
  <2>1. [K EXCEPT !.pc = "resolved", !.pw = user.pw].pc = "resolved"
    BY <1>1 DEF Handlers
  <2>2. ASSUME call' = [call EXCEPT ![c].pc = "resolved", ![c].pw = user.pw] PROVE Moves(c)
    <3>1. call' = [call EXCEPT ![c] = [K EXCEPT !.pc = "resolved", !.pw = user.pw]]
      BY <1>1, <2>2
    <3> QED BY <1>6, <2>1, <3>1 DEF PastPCs
  <2> QED BY <1>3, <1>13, <2>2 DEF ResolveUser
<1>14. CASE ReserveMFAAttempt(c)
  <2>1. CASE Goto(c, "prove")
    BY <1>2, <1>4, <1>14, <2>1 DEF ReserveMFAAttempt, Moves, PastPCs
  <2> QED BY <1>3, <1>14, <2>1 DEF ReserveMFAAttempt
<1>15. CASE VerifyUserTOTP(c)
  <2>1. CASE Goto(c, "counter")
    BY <1>2, <1>4, <1>15, <2>1 DEF VerifyUserTOTP, Moves, PastPCs
  <2> QED BY <1>7, <1>15, <2>1 DEF VerifyUserTOTP, PastPCs
<1>28. CASE ConsumeTOTPCounter(c)
  BY <1>2, <1>5, <1>7, <1>28 DEF ConsumeTOTPCounter, PastPCs
<1>16. CASE ConsumeRecoveryCode(c)
  BY <1>2, <1>5, <1>7, <1>16 DEF ConsumeRecoveryCode, PastPCs
<1>17. CASE FinishPushLogin(c)
  BY <1>2, <1>3, <1>5, <1>17 DEF FinishPushLogin, PastPCs
<1>18. CASE SpendMFAToken(c)
  <2> DEFINE L == [K EXCEPT !.pc = "session", !.proved = tokens[K.tok].pw, !.rev = tokens[K.tok].rev]
  <2>1. L.pc = "session"
    BY <1>1 DEF Handlers
  <2>2. Done(c) \/ call' = [call EXCEPT ![c] = L]
    BY <1>1, <1>18 DEF SpendMFAToken
  <2> QED BY <1>3, <1>6, <2>1, <2>2 DEF PastPCs
<1>19. CASE CheckLockout(c)
  <2>1. CASE Locked(K.src)
    BY <1>3, <1>19, <2>1 DEF CheckLockout
  <2>2. CASE ~Locked(K.src)
    <3>1. Goto(c, "password") \/ Goto(c, "approval") \/ Goto(c, "reserve")
      BY <1>19, <2>2 DEF CheckLockout
    <3> QED BY <1>2, <1>4, <1>19, <2>2, <3>1 DEF Moves, PastPCs
  <2> QED BY <2>1, <2>2
<1>20. CASE CreateSession(c)
  BY <1>2, <1>3, <1>5, <1>20 DEF CreateSession, PastPCs
<1>21. CASE ClearFailedLogins(c)
  BY <1>3, <1>21 DEF ClearFailedLogins
<1>22. CASE RecordFailedLogin(c)
  BY <1>3, <1>22 DEF RecordFailedLogin
<1>23. CASE Abandon(c)
  BY <1>3, <1>23 DEF Abandon
<1>24. CASE SetPassword(c)
  BY <1>2, <1>5, <1>24 DEF SetPassword, PastPCs
<1>25. ASSUME NEW i \in DOMAIN sessions, EnableTOTP(c, i) PROVE Moves(c)
  <2>1. call' = [call EXCEPT ![c] = [K EXCEPT !.pc = "enroll", !.id = i]]
    BY <1>1, <1>25 DEF EnableTOTP
  <2>2. [K EXCEPT !.pc = "enroll", !.id = i].pc = "enroll"
    BY <1>1 DEF Handlers
  <2> QED BY <1>6, <2>1, <2>2 DEF PastPCs
<1>26. CASE ReplaceRecoveryCodes(c)
  BY <1>2, <1>5, <1>26 DEF ReplaceRecoveryCodes, PastPCs
<1>29. CASE SaveUserTOTP(c)
  BY <1>2, <1>5, <1>29 DEF SaveUserTOTP, PastPCs
<1>27. CASE RevokeOtherSessions(c)
  BY <1>3, <1>27 DEF RevokeOtherSessions
<1> QED BY <1>8, <1>9, <1>10, <1>11, <1>12, <1>13, <1>14, <1>15, <1>16, <1>17, <1>18, <1>19, <1>20,
           <1>21, <1>22, <1>23, <1>24, <1>25, <1>26, <1>27, <1>28, <1>29 DEF CallStep, PasswordStep, FactorStep

LEMMA OthersLeaveCalls == Administration \/ Device \/ Clock => UNCHANGED call
BY DEF Administration, Device, Clock, RevokeUserAccess, ResetUserMFA, DisableUser, EnableUser,
       ResetPassword, ChangePassword, EndSession, RespondPush, Answer, TokenLapses, PushLapses,
       ExpirePush, WindowLapses

\* What happens to the counters of a token: a reservation takes an attempt that was
\* left, a check of a code uses a reservation, a new token starts from nothing.
LEMMA CountsMove ==
  ASSUME PasswordInv, Next
  PROVE  \/ \A t \in Tokens : SameCounts(t)
         \/ \E c \in Calls :
              \/ /\ ReserveMFAAttempt(c) /\ ValidToken(call[c].tok)
                 /\ tokens' = [tokens EXCEPT ![call[c].tok].attempts = @ + 1]
              \/ call[c].pc = "prove" /\ Guess(call[c].tok) /\ CallStep(c)
              \/ /\ IssueMFAToken(c)
                 /\ \E t \in Tokens : NewToken(t) /\ tokens' = [tokens EXCEPT ![t] = TokenFor(c)]
<1>1. tokens \in [Tokens -> TokenRows] /\ call \in [Calls -> Handlers] /\ HoldsToken /\ TypeOK
  BY DEF PasswordInv, TypeOK
<1>2. ASSUME UNCHANGED tokens PROVE \A t \in Tokens : SameCounts(t)
  BY <1>2 DEF SameCounts
<1>3. ASSUME SpendMFATokens PROVE \A t \in Tokens : SameCounts(t)
  BY <1>1, <1>3, SpendType DEF SameCounts
<1>4. ASSUME NEW t \in Tokens, tokens' = [tokens EXCEPT ![t] = Used(tokens[t])]
      PROVE  \A u \in Tokens : SameCounts(u)
  BY <1>1, <1>4, UsedType DEF SameCounts
<1>5. CASE Administration
  BY <1>2, <1>3, <1>5 DEF Administration, RevokeUserAccess, ResetUserMFA, DisableUser, EnableUser,
                          ResetPassword, ChangePassword, EndSession, RevokeUserAccessTx
<1>6. CASE Device
  BY <1>2, <1>6 DEF Device, RespondPush, Answer
<1>7. CASE Clock
  <2>1. ASSUME NEW t \in Tokens, TokenLapses(t) PROVE \A u \in Tokens : SameCounts(u)
    <3>1. ASSUME tokens' = [tokens EXCEPT ![t].state = "lapsed"]
          PROVE  \A u \in Tokens : SameCounts(u)
      BY <1>1, <3>1 DEF SameCounts, TokenRows
    <3> QED BY <1>4, <2>1, <3>1 DEF TokenLapses
  <2> QED BY <1>2, <1>7, <2>1 DEF Clock, PushLapses, ExpirePush, WindowLapses
<1>8. ASSUME NEW c \in Calls, SpendMFAToken(c) PROVE \A u \in Tokens : SameCounts(u)
  <2>1. call[c].tok \in Tokens
    BY <1>1, <1>8 DEF SpendMFAToken, HoldsToken, FactorPCs
  <2> QED BY <1>2, <1>4, <1>8, <2>1 DEF SpendMFAToken
<1>9. ASSUME NEW c \in Calls, PasswordStep(c)
      PROVE  \/ \A t \in Tokens : SameCounts(t)
             \/ /\ IssueMFAToken(c)
                /\ \E t \in Tokens : NewToken(t) /\ tokens' = [tokens EXCEPT ![t] = TokenFor(c)]
  BY <1>2, <1>9 DEF PasswordStep, Login, VerifyPassword, LoginPush, IssueMFAToken
<1>10. ASSUME NEW c \in Calls, FactorStep(c)
       PROVE  \/ \A t \in Tokens : SameCounts(t)
              \/ /\ ReserveMFAAttempt(c) /\ ValidToken(call[c].tok)
                 /\ tokens' = [tokens EXCEPT ![call[c].tok].attempts = @ + 1]
              \/ call[c].pc = "prove" /\ Guess(call[c].tok) /\ CallStep(c)
  <2>1. CASE ReserveMFAAttempt(c)
    BY <1>2, <2>1 DEF ReserveMFAAttempt
  <2>2. CASE VerifyUserTOTP(c) \/ ConsumeRecoveryCode(c)
    BY <1>10, <2>2 DEF VerifyUserTOTP, ConsumeRecoveryCode, CallStep
  <2>3. CASE SpendMFAToken(c)
    BY <1>8, <2>3
  <2> QED BY <1>2, <1>10, <2>1, <2>2, <2>3 DEF FactorStep, Verify, ResolveUser, ConsumeTOTPCounter,
             FinishPushLogin
<1>11. ASSUME NEW c \in Calls, CallStep(c), ~PasswordStep(c), ~FactorStep(c)
       PROVE  \A t \in Tokens : SameCounts(t)
  BY <1>2, <1>3, <1>11 DEF CallStep, CheckLockout, CreateSession, ClearFailedLogins,
        RecordFailedLogin, Abandon, SetPassword, EnableTOTP, SaveUserTOTP, ReplaceRecoveryCodes,
        RevokeOtherSessions, RevokeUserAccessTx
<1> QED BY <1>5, <1>6, <1>7, <1>9, <1>10, <1>11 DEF Next

\* Requests that have reserved an attempt of a token and not yet checked a code.
Guessing(t) == {c \in Calls : call[c].pc = "prove" /\ call[c].tok = t}

\* Every code checked, or about to be, has an attempt of its own.
AttemptsInv ==
    /\ PasswordInv
    /\ \A t \in Tokens : /\ tokens[t].attempts <= MaxMFAAttempts
                         /\ tokens[t].guesses + Cardinality(Guessing(t)) <= tokens[t].attempts

LEMMA GuessingFinite ==
  ASSUME NEW t
  PROVE  IsFiniteSet(Guessing(t)) /\ Cardinality(Guessing(t)) \in Nat
<1>1. Guessing(t) \subseteq Calls
  BY DEF Guessing
<1> QED BY <1>1, SignInAssumption, FS_Subset, FS_CardinalityType

LEMMA InitAttempts == Init => AttemptsInv
<1> SUFFICES ASSUME Init PROVE AttemptsInv
  OBVIOUS
<1>1. \A t \in Tokens : Guessing(t) = {}
  BY DEF Init, Guessing, Idle
<1>2. \A t \in Tokens : Cardinality(Guessing(t)) = 0
  BY <1>1, FS_EmptySet
<1>3. \A t \in Tokens : tokens[t].attempts = 0 /\ tokens[t].guesses = 0
  BY DEF Init, NoTokenRow
<1> QED BY <1>2, <1>3, InitPassword, SignInAssumption DEF AttemptsInv

LEMMA AttemptsInductive == AttemptsInv /\ [Next]_vars => AttemptsInv'
<1> SUFFICES ASSUME AttemptsInv, [Next]_vars PROVE AttemptsInv'
  OBVIOUS
<1>1. PasswordInv /\ PasswordInv'
  BY PasswordInductive DEF AttemptsInv
<1>2. /\ tokens \in [Tokens -> TokenRows] /\ HoldsToken
      /\ \A t \in Tokens : tokens[t].attempts \in Nat /\ tokens[t].guesses \in Nat
  BY <1>1 DEF PasswordInv, TypeOK, TokenRows
<1>3. \A t \in Tokens : IsFiniteSet(Guessing(t)) /\ Cardinality(Guessing(t)) \in Nat
  BY GuessingFinite
<1>4. ASSUME NEW t \in Tokens, SameCounts(t), Guessing(t)' \subseteq Guessing(t)
      PROVE  /\ tokens'[t].attempts <= MaxMFAAttempts
             /\ tokens'[t].guesses + Cardinality(Guessing(t)') <= tokens'[t].attempts
  <2>1. Cardinality(Guessing(t)') \in Nat /\ Cardinality(Guessing(t)') <= Cardinality(Guessing(t))
    BY <1>3, <1>4, FS_Subset, FS_CardinalityType
  <2> QED BY <1>2, <1>3, <1>4, <2>1, SignInAssumption DEF AttemptsInv, SameCounts
<1>5. ASSUME NEW c \in Calls, Moves(c), ~ReserveMFAAttempt(c), NEW t \in Tokens
      PROVE  Guessing(t)' \subseteq Guessing(t)
  BY <1>5 DEF Guessing, Moves
<1>6. CASE UNCHANGED vars
  <2>1. \A t \in Tokens : SameCounts(t) /\ Guessing(t)' \subseteq Guessing(t)
    BY <1>6 DEF vars, SameCounts, Guessing
  <2> QED BY <1>1, <1>4, <2>1 DEF AttemptsInv
<1>7. ASSUME NEW c \in Calls, ReserveMFAAttempt(c), CallStep(c) PROVE AttemptsInv'
  <2>1. /\ call[c].tok \in Tokens /\ call[c].pc = "reserve" /\ call \in [Calls -> Handlers]
        /\ call[c] \in Handlers /\ "prove" \in PCs
    BY <1>1, <1>2, <1>7 DEF ReserveMFAAttempt, HoldsToken, FactorPCs, PasswordInv, TypeOK, PCs
  <2>2. CASE ValidToken(call[c].tok)
    <3>1. tokens' = [tokens EXCEPT ![call[c].tok].attempts = @ + 1] /\ Goto(c, "prove")
      BY <1>7, <2>2 DEF ReserveMFAAttempt
    <3>a. call'[c] = [call[c] EXCEPT !.pc = "prove"] /\ \A d \in Calls \ {c} : call'[d] = call[d]
      BY <2>1, <3>1, GotoType
    <3>2. /\ call'[c].pc = "prove" /\ call'[c].tok = call[c].tok
          /\ \A d \in Calls \ {c} : call'[d] = call[d]
      BY <2>1, <3>a DEF Handlers
    <3>3. ASSUME NEW t \in Tokens
          PROVE  /\ tokens'[t].attempts <= MaxMFAAttempts
                 /\ tokens'[t].guesses + Cardinality(Guessing(t)') <= tokens'[t].attempts
      <4>1. CASE t = call[c].tok
        <5>1. Guessing(t)' = Guessing(t) \cup {c} /\ c \notin Guessing(t)
          BY <2>1, <3>2, <4>1 DEF Guessing
        <5>2. Cardinality(Guessing(t)') = Cardinality(Guessing(t)) + 1
          BY <1>3, <5>1, FS_AddElement
        <5>3. tokens'[t].attempts = tokens[t].attempts + 1 /\ tokens'[t].guesses = tokens[t].guesses
          BY <1>2, <3>1, <4>1 DEF TokenRows
        <5>4. tokens[t].attempts < MaxMFAAttempts
          BY <2>2, <4>1 DEF ValidToken
        <5> QED BY <1>2, <1>3, <5>2, <5>3, <5>4, SignInAssumption DEF AttemptsInv
      <4>2. CASE t # call[c].tok
        <5>1. Guessing(t)' \subseteq Guessing(t)
          BY <3>2, <4>2 DEF Guessing
        <5>2. SameCounts(t)
          BY <1>2, <3>1, <4>2 DEF SameCounts
        <5> QED BY <1>4, <5>1, <5>2
      <4> QED BY <4>1, <4>2
    <3> QED BY <1>1, <3>3 DEF AttemptsInv
  <2>3. CASE ~ValidToken(call[c].tok)
    <3>1. tokens' = tokens /\ Done(c)
      BY <1>7, <2>3 DEF ReserveMFAAttempt
    <3>2. call'[c].pc # "prove" /\ \A d \in Calls \ {c} : call'[d] = call[d]
      BY <2>1, <3>1, DoneType DEF Idle
    <3>3. \A t \in Tokens : SameCounts(t) /\ Guessing(t)' \subseteq Guessing(t)
      BY <3>1, <3>2 DEF SameCounts, Guessing
    <3> QED BY <1>1, <1>4, <3>3 DEF AttemptsInv
  <2> QED BY <2>2, <2>3
<1>8. ASSUME NEW c \in Calls, call[c].pc = "prove", Guess(call[c].tok), CallStep(c)
      PROVE  AttemptsInv'
  <2>1. call[c].tok \in Tokens /\ ~ReserveMFAAttempt(c) /\ Moves(c)
    BY <1>1, <1>2, <1>8, CallMoves DEF HoldsToken, FactorPCs, ReserveMFAAttempt
  <2>2. call'[c].pc # "prove"
    BY <2>1 DEF Moves
  <2>3. ASSUME NEW t \in Tokens
        PROVE  /\ tokens'[t].attempts <= MaxMFAAttempts
               /\ tokens'[t].guesses + Cardinality(Guessing(t)') <= tokens'[t].attempts
    <3>1. CASE t = call[c].tok
      <4>1. Guessing(t)' = Guessing(t) \ {c} /\ c \in Guessing(t)
        BY <1>8, <2>1, <2>2, <3>1 DEF Guessing, Moves
      <4>2. Cardinality(Guessing(t)') = Cardinality(Guessing(t)) - 1
        BY <1>3, <4>1, FS_RemoveElement
      <4>3. tokens'[t].attempts = tokens[t].attempts /\ tokens'[t].guesses = tokens[t].guesses + 1
        BY <1>2, <1>8, <3>1 DEF TokenRows, Guess
      <4> QED BY <1>2, <1>3, <4>2, <4>3, SignInAssumption DEF AttemptsInv
    <3>2. CASE t # call[c].tok
      <4>1. SameCounts(t)
        BY <1>2, <1>8, <3>2 DEF SameCounts, Guess
      <4> QED BY <1>4, <1>5, <2>1, <4>1
    <3> QED BY <3>1, <3>2
  <2> QED BY <1>1, <2>3 DEF AttemptsInv
<1>9. ASSUME NEW c \in Calls, IssueMFAToken(c), CallStep(c), NEW t \in Tokens, NewToken(t),
             tokens' = [tokens EXCEPT ![t] = TokenFor(c)]
      PROVE  AttemptsInv'
  <2>1. Moves(c) /\ ~ReserveMFAAttempt(c)
    BY <1>1, <1>9, CallMoves DEF IssueMFAToken, ReserveMFAAttempt
  <2>2. tokens[t].state = "none"
    <3>1. t >= t
      BY SignInAssumption DEF Tokens
    <3> QED BY <1>9, <3>1 DEF NewToken
  <2>3. Guessing(t) = {}
    BY <1>2, <2>2 DEF Guessing, HoldsToken, FactorPCs
  <2>4. Guessing(t)' = {}
    BY <1>5, <2>1, <2>3
  <2>5. Cardinality(Guessing(t)') = 0
    BY <2>4, FS_EmptySet
  <2>6. tokens'[t].attempts = 0 /\ tokens'[t].guesses = 0
    BY <1>2, <1>9 DEF TokenFor, NoTokenRow
  <2>7. \A u \in Tokens \ {t} : SameCounts(u) /\ Guessing(u)' \subseteq Guessing(u)
    BY <1>2, <1>5, <1>9, <2>1 DEF SameCounts
  <2> QED BY <1>1, <1>4, <2>5, <2>6, <2>7, SignInAssumption DEF AttemptsInv
<1>10. ASSUME \A t \in Tokens : SameCounts(t), Next PROVE AttemptsInv'
  <2>1. CASE UNCHANGED call
    <3>1. \A t \in Tokens : Guessing(t)' \subseteq Guessing(t)
      BY <2>1 DEF Guessing
    <3> QED BY <1>1, <1>4, <1>10, <3>1 DEF AttemptsInv
  <2>2. ASSUME NEW c \in Calls, CallStep(c) PROVE AttemptsInv'
    <3>1. CASE ReserveMFAAttempt(c)
      BY <1>7, <2>2, <3>1
    <3>2. CASE ~ReserveMFAAttempt(c)
      BY <1>1, <1>4, <1>5, <1>10, <2>2, <3>2, CallMoves DEF AttemptsInv
    <3> QED BY <3>1, <3>2
  <2>3. ASSUME Administration \/ Device \/ Clock PROVE UNCHANGED call
    BY <2>3, OthersLeaveCalls
  <2> QED BY <1>10, <2>1, <2>2, <2>3 DEF Next
<1>11. CASE Next
  <2>1. ASSUME NEW c \in Calls, ReserveMFAAttempt(c) \/ IssueMFAToken(c) PROVE CallStep(c)
    BY <2>1 DEF CallStep, FactorStep, PasswordStep
  <2> QED BY <1>1, <1>7, <1>8, <1>9, <1>10, <1>11, <2>1, CountsMove
<1> QED BY <1>6, <1>11

\* However many requests present one token at once, no more codes are checked
\* against the account than mfa.MaxMFAAttempts: ReserveMFAAttempt counts the
\* attempt before the code is looked at.
THEOREM AttemptsHold == Spec => []GuessesBounded
<1>1. AttemptsInv => GuessesBounded
  <2> SUFFICES ASSUME AttemptsInv, NEW t \in Tokens PROVE tokens[t].guesses <= MaxMFAAttempts
    BY DEF GuessesBounded
  <2>1. tokens[t].attempts \in Nat /\ tokens[t].guesses \in Nat
    BY DEF AttemptsInv, PasswordInv, TypeOK, TokenRows
  <2>2. Cardinality(Guessing(t)) \in Nat
    BY GuessingFinite
  <2> QED BY <2>1, <2>2, SignInAssumption DEF AttemptsInv
<1> QED BY <1>1, InitAttempts, AttemptsInductive, PTL DEF Spec

\* The row of login_failures a failure of the request would count in.
CountsUnder(c) == IF call[c].tok = 0 THEN call[c].src ELSE AnySource

\* Requests past the lockout check that may yet record a failure there.
Past(s) == {c \in Calls : call[c].pc \in PastPCs /\ CountsUnder(c) = s}

\* Once the limit is reached nobody new gets past the check, so what is recorded and
\* what may yet be recorded cannot grow.
LockoutInv ==
    /\ PasswordInv
    /\ \A s \in AllSources : failures[s] >= MaxFailedLogins =>
          failures[s] + Cardinality(Past(s)) <= MaxFailedLogins - 1 + Cardinality(Calls)

LEMMA PastFinite ==
  ASSUME NEW s
  PROVE  /\ IsFiniteSet(Past(s)) /\ Cardinality(Past(s)) \in Nat
         /\ Cardinality(Calls) \in Nat
<1>1. Past(s) \subseteq Calls
  BY DEF Past
<1> QED BY <1>1, SignInAssumption, FS_Subset, FS_CardinalityType

LEMMA InitLockout == Init => LockoutInv
<1> SUFFICES ASSUME Init PROVE LockoutInv
  OBVIOUS
<1>1. \A s \in AllSources : ~(failures[s] >= MaxFailedLogins)
  BY SignInAssumption DEF Init
<1> QED BY <1>1, InitPassword DEF LockoutInv

\* Failures are only ever cleared, except by RecordFailedLogin.
LEMMA FailuresMove ==
  ASSUME TypeOK, Next
  PROVE  \/ \A s \in AllSources : failures'[s] \in {0, failures[s]}
         \/ \E c \in Calls : RecordFailedLogin(c)
<1>1. failures \in [AllSources -> Nat]
  BY DEF TypeOK
<1>2. ASSUME UNCHANGED failures PROVE \A s \in AllSources : failures'[s] \in {0, failures[s]}
  BY <1>2
<1>3. CASE Administration
  BY <1>2, <1>3 DEF Administration, RevokeUserAccess, ResetUserMFA, DisableUser, EnableUser,
                    ResetPassword, ChangePassword, EndSession
<1>4. CASE Device
  BY <1>2, <1>4 DEF Device, RespondPush, Answer
<1>5. CASE Clock
  BY <1>1, <1>2, <1>5 DEF Clock, TokenLapses, PushLapses, ExpirePush, WindowLapses
<1>6. ASSUME NEW c \in Calls, CallStep(c)
      PROVE  (\A s \in AllSources : failures'[s] \in {0, failures[s]}) \/ RecordFailedLogin(c)
  <2>1. CASE ClearFailedLogins(c)
    BY <1>1, <2>1 DEF ClearFailedLogins
  <2>2. CASE PasswordStep(c)
    BY <1>2, <2>2 DEF PasswordStep, Login, VerifyPassword, LoginPush, IssueMFAToken
  <2>3. CASE FactorStep(c)
    BY <1>2, <2>3 DEF FactorStep, Verify, ResolveUser, ReserveMFAAttempt, VerifyUserTOTP,
                      ConsumeTOTPCounter, ConsumeRecoveryCode, FinishPushLogin, SpendMFAToken
  <2> QED BY <1>2, <1>6, <2>1, <2>2, <2>3 DEF CallStep, CheckLockout, CreateSession, Abandon,
             SetPassword, EnableTOTP, SaveUserTOTP, ReplaceRecoveryCodes, RevokeOtherSessions
<1> QED BY <1>3, <1>4, <1>5, <1>6 DEF Next

LEMMA LockoutInductive == LockoutInv /\ [Next]_vars => LockoutInv'
<1> SUFFICES ASSUME LockoutInv, [Next]_vars PROVE LockoutInv'
  OBVIOUS
<1>1. PasswordInv /\ PasswordInv'
  BY PasswordInductive DEF LockoutInv
<1>2. /\ TypeOK /\ failures \in [AllSources -> Nat] /\ HoldsToken
      /\ call \in [Calls -> Handlers]
      /\ \A s \in AllSources : failures[s] \in Nat
      /\ MaxFailedLogins \in Nat \ {0}
  BY <1>1, SignInAssumption DEF PasswordInv, TypeOK
<1>3. ASSUME NEW s PROVE IsFiniteSet(Past(s)) /\ Cardinality(Past(s)) \in Nat /\ Cardinality(Calls) \in Nat
  BY PastFinite
<1>4. ASSUME NEW s \in AllSources, failures'[s] \in {0, failures[s]},
             failures[s] >= MaxFailedLogins => Past(s)' \subseteq Past(s)
      PROVE  failures'[s] >= MaxFailedLogins =>
               failures'[s] + Cardinality(Past(s)') <= MaxFailedLogins - 1 + Cardinality(Calls)
  <2> SUFFICES ASSUME failures'[s] >= MaxFailedLogins
               PROVE  failures'[s] + Cardinality(Past(s)') <= MaxFailedLogins - 1 + Cardinality(Calls)
    OBVIOUS
  <2>1. failures'[s] = failures[s] /\ failures[s] >= MaxFailedLogins
    BY <1>2, <1>4
  <2>2. Cardinality(Past(s)') \in Nat /\ Cardinality(Past(s)') <= Cardinality(Past(s))
    BY <1>3, <1>4, <2>1, FS_Subset, FS_CardinalityType
  <2> QED BY <1>2, <1>3, <2>1, <2>2 DEF LockoutInv
<1>5. CASE UNCHANGED vars
  <2>1. \A s \in AllSources : failures'[s] \in {0, failures[s]} /\ Past(s)' \subseteq Past(s)
    BY <1>5 DEF vars, Past, CountsUnder
  <2> QED BY <1>1, <1>4, <2>1 DEF LockoutInv
<1>6. CASE Administration \/ Device \/ Clock
  <2>1. \A s \in AllSources : Past(s)' \subseteq Past(s)
    BY <1>6, OthersLeaveCalls DEF Past, CountsUnder
  <2>2. \A s \in AllSources : failures'[s] \in {0, failures[s]}
    <3>1. \A c \in Calls : ~RecordFailedLogin(c)
      BY <1>2, <1>6, OthersLeaveCalls DEF RecordFailedLogin, Done, Idle
    <3> QED BY <1>2, <1>6, <3>1, FailuresMove DEF Next
  <2> QED BY <1>1, <1>4, <2>1, <2>2 DEF LockoutInv
<1>7. ASSUME NEW c \in Calls, CallStep(c) PROVE LockoutInv'
  <2>1. Moves(c)
    BY <1>1, <1>7, CallMoves
  <2>2. ASSUME NEW s \in AllSources, failures[s] >= MaxFailedLogins
        PROVE  Past(s)' \subseteq Past(s)
    <3> SUFFICES ASSUME NEW d \in Past(s)' PROVE d \in Past(s)
      OBVIOUS
    <3>1. d \in Calls /\ call'[d].pc \in PastPCs /\ CountsUnder(d)' = s
      BY DEF Past
    <3>2. CASE d # c
      BY <2>1, <3>1, <3>2 DEF Moves, Past, CountsUnder
    <3>3. CASE d = c
      <4>1. CountsUnder(c) = s
        BY <2>1, <3>1, <3>3 DEF Moves, CountsUnder
      <4>2. CASE CheckLockout(c) /\ ~Locked(call[c].src)
        <5>1. ~(failures[call[c].src] >= MaxFailedLogins) /\ ~(failures[AnySource] >= MaxFailedLogins)
          BY <4>2 DEF Locked
        <5> QED BY <2>2, <4>1, <5>1 DEF CountsUnder
      <4> QED BY <2>1, <3>1, <3>3, <4>1, <4>2 DEF Moves, Past
    <3> QED BY <3>2, <3>3
  <2>3. CASE RecordFailedLogin(c)
    <3>a. CountsUnder(c) \in AllSources /\ call[c].pc = "fail"
      BY <1>2, <2>3 DEF RecordFailedLogin, CountsUnder, Handlers, AllSources
    <3>b. PICK k \in AllSources : k = CountsUnder(c)
      BY <3>a
    <3>1. failures' = [failures EXCEPT ![k] = failures[k] + 1]
      BY <2>3, <3>b DEF RecordFailedLogin, CountsUnder
    <3>2. call'[c] = Idle /\ Idle.pc \notin PastPCs
      BY <1>2, <2>3, DoneType DEF RecordFailedLogin, Idle, PastPCs
    <3>3. \A s \in AllSources : Past(s)' \subseteq Past(s) \ {c}
      BY <2>1, <3>2 DEF Moves, Past, CountsUnder
    <3>4. c \in Past(k)
      BY <3>a, <3>b DEF Past, PastPCs
    <3>5. ASSUME NEW s \in AllSources, s # k
          PROVE  failures'[s] >= MaxFailedLogins =>
                   failures'[s] + Cardinality(Past(s)') <= MaxFailedLogins - 1 + Cardinality(Calls)
      <4>1. failures'[s] = failures[s] /\ Past(s)' \subseteq Past(s)
        BY <1>2, <3>1, <3>3, <3>5
      <4> QED BY <1>4, <4>1
    <3>6. failures'[k] + Cardinality(Past(k)') <= MaxFailedLogins - 1 + Cardinality(Calls)
            \/ ~(failures'[k] >= MaxFailedLogins)
      <4>1. failures'[k] = failures[k] + 1 /\ failures[k] \in Nat
        BY <1>2, <3>1
      <4>2. CASE failures[k] >= MaxFailedLogins
        <5>1. IsFiniteSet(Past(k) \ {c}) /\ Cardinality(Past(k) \ {c}) = Cardinality(Past(k)) - 1
          BY <1>3, <3>4, FS_RemoveElement
        <5>2. Cardinality(Past(k)') \in Nat /\ Cardinality(Past(k)') <= Cardinality(Past(k)) - 1
          BY <3>3, <5>1, FS_Subset, FS_CardinalityType
        <5> QED BY <1>2, <1>3, <4>1, <4>2, <5>2 DEF LockoutInv
      <4>3. CASE ~(failures[k] >= MaxFailedLogins)
        <5>1. IsFiniteSet(Calls \ {c}) /\ Cardinality(Calls \ {c}) = Cardinality(Calls) - 1
          BY SignInAssumption, FS_RemoveElement
        <5>2. Past(k)' \subseteq Calls \ {c}
          BY <3>3 DEF Past
        <5>3. Cardinality(Past(k)') \in Nat /\ Cardinality(Past(k)') <= Cardinality(Calls) - 1
          BY <5>1, <5>2, FS_Subset, FS_CardinalityType
        <5> QED BY <1>2, <1>3, <4>1, <4>3, <5>3
      <4> QED BY <4>2, <4>3
    <3> QED BY <1>1, <3>5, <3>6 DEF LockoutInv
  <2>4. CASE ~RecordFailedLogin(c)
    <3>1. \A s \in AllSources : failures'[s] \in {0, failures[s]}
      <4>1. ASSUME NEW d \in Calls, RecordFailedLogin(d) PROVE d = c
        <5>1. call[d].pc = "fail" /\ call'[d].pc = "idle"
          BY <1>2, <4>1, DoneType DEF RecordFailedLogin, Idle
        <5> QED BY <2>1, <5>1 DEF Moves
      <4> QED BY <1>2, <1>7, <2>4, <4>1, FailuresMove DEF Next
    <3> QED BY <1>1, <1>4, <2>2, <3>1 DEF LockoutInv
  <2> QED BY <2>3, <2>4
<1> QED BY <1>5, <1>6, <1>7 DEF Next

\* Racing requests cannot count more failures in a window than MaxFailedLogins and
\* one for each other request in progress: whatever the addresses, the password and
\* the second-factor steps, all of them look at the lockout before they check.
THEOREM LockoutHolds == Spec => []LockoutBound
<1>1. LockoutInv => LockoutBound
  <2> SUFFICES ASSUME LockoutInv, NEW s \in AllSources
               PROVE  failures[s] < MaxFailedLogins + Cardinality(Calls)
    BY DEF LockoutBound
  <2>1. failures[s] \in Nat
    BY DEF LockoutInv, PasswordInv, TypeOK
  <2>2. Cardinality(Past(s)) \in Nat /\ Cardinality(Calls) \in Nat
    BY PastFinite
  <2> QED BY <2>1, <2>2, SignInAssumption DEF LockoutInv
<1> QED BY <1>1, InitLockout, LockoutInductive, PTL DEF Spec
-----------------------------------------------------------------------------
(* Login pushes. *)

\* Outside LoginPush no challenge becomes pending.
LEMMA PushesMove ==
  ASSUME TypeOK, Next
  PROVE  \/ \A p \in Pushes : PendingPush(p)' => PendingPush(p)
         \/ /\ \A q \in Pushes : ~PendingPush(q)
            /\ \E p \in Pushes : pushes' = [pushes EXCEPT ![p] = "pending"]
<1>1. pushes \in [Pushes -> PushStatuses]
  BY DEF TypeOK
<1>2. ASSUME UNCHANGED pushes PROVE \A p \in Pushes : PendingPush(p)' => PendingPush(p)
  BY <1>2 DEF PendingPush
<1>3. CASE Administration
  BY <1>2, <1>3 DEF Administration, RevokeUserAccess, ResetUserMFA, DisableUser, EnableUser,
                    ResetPassword, ChangePassword, EndSession
<1>4. CASE Device
  BY <1>1, <1>4 DEF Device, RespondPush, Answer, PendingPush
<1>5. CASE Clock
  BY <1>1, <1>2, <1>5 DEF Clock, TokenLapses, PushLapses, ExpirePush, WindowLapses, PendingPush
<1>6. ASSUME NEW c \in Calls, CallStep(c)
      PROVE  \/ \A p \in Pushes : PendingPush(p)' => PendingPush(p)
             \/ /\ \A q \in Pushes : ~PendingPush(q)
                /\ \E p \in Pushes : pushes' = [pushes EXCEPT ![p] = "pending"]
  <2>1. CASE PasswordStep(c)
    BY <1>2, <2>1 DEF PasswordStep, Login, VerifyPassword, LoginPush, IssueMFAToken
  <2>2. CASE FactorStep(c)
    BY <1>2, <2>2 DEF FactorStep, Verify, ResolveUser, ReserveMFAAttempt, VerifyUserTOTP,
                      ConsumeTOTPCounter, ConsumeRecoveryCode, FinishPushLogin, SpendMFAToken
  <2> QED BY <1>2, <1>6, <2>1, <2>2 DEF CallStep, CheckLockout, CreateSession, ClearFailedLogins,
             RecordFailedLogin, Abandon, SetPassword, EnableTOTP, SaveUserTOTP, ReplaceRecoveryCodes,
             RevokeOtherSessions
<1> QED BY <1>3, <1>4, <1>5, <1>6 DEF Next

\* However many logins wait for an approval at once, at most one challenge is live:
\* CreateLoginPushChallenge looks and inserts in one statement.
THEOREM OnePushAtATime == Spec => []OneLivePush
<1>1. Init => OneLivePush
  BY DEF Init, OneLivePush, PendingPush
<1>2. TypeOK /\ OneLivePush /\ [Next]_vars => OneLivePush'
  <2> SUFFICES ASSUME TypeOK, OneLivePush, [Next]_vars PROVE OneLivePush'
    OBVIOUS
  <2>1. CASE UNCHANGED vars
    BY <2>1 DEF vars, OneLivePush, PendingPush
  <2>2. CASE Next
    <3>1. CASE \A p \in Pushes : PendingPush(p)' => PendingPush(p)
      BY <3>1 DEF OneLivePush
    <3>2. ASSUME \A q \in Pushes : ~PendingPush(q),
                 NEW p \in Pushes, pushes' = [pushes EXCEPT ![p] = "pending"]
          PROVE  OneLivePush'
      BY <3>2 DEF TypeOK, OneLivePush, PendingPush
    <3> QED BY <2>2, <3>1, <3>2, PushesMove
  <2> QED BY <2>1, <2>2
<1> QED BY <1>1, <1>2, SignInTypes, PTL DEF Spec
-----------------------------------------------------------------------------
(* A proof of the second factor signs in once. *)

\* Requests that can still turn an accepted proof into a session.
Holders == {c \in Calls :
    /\ call[c].tok # 0
    /\ \/ call[c].pc = "session"
       \/ call[c].pc = "spend" /\ Unspent(call[c].tok)}

\* Proofs that were accepted and will not be again: the time step is spent, or the
\* secret is gone and no request that could still sign in has matched it; the
\* recovery code is no longer the unused one.
Barred == {p \in Proofs :
    /\ p[1] \in {"totp", "recovery", "push"}
    /\ p[1] \in {"totp", "recovery"} => p[2] \in 1..mfa.fresh
    /\ p[1] = "totp" =>
          \/ p[3] <= mfa.last
          \/ /\ p[2] # mfa.secret
             /\ \A c \in Calls : call[c].pc = "counter" /\ Unspent(call[c].tok) => call[c].proof[2] # p[2]
    /\ p[1] = "recovery" => p[2] # mfa.code}

\* Those a token may have been spent with: an approval is its own and came in time.
Accepted == [t \in Tokens |-> {p \in Barred : p[1] = "push" =>
    p[2] \in Pushes /\ tokens[t].push = p[2] /\ pushes[p[2]] \in {"approved", "closed"}}]

\* Secrets and codes are numbered in the order they were issued.
FactorsNumbered == mfa.secret \in 0..mfa.fresh /\ mfa.code \in 0..mfa.fresh

\* What a request offers is known, and a password request has nothing to offer.
CarriesProof(c) ==
    /\ call[c].pc \in FactorPCs =>
          /\ call[c].proof[1] \in {"totp", "recovery"} => call[c].proof[2] \in 1..mfa.fresh
          /\ call[c].proof[1] = "push" => call[c].proof[2] \in Pushes
          /\ call[c].pc = "counter" => call[c].proof[1] = "totp"
          /\ call[c].pc = "approval" => call[c].proof[1] = "push"
    /\ call[c].pc \in PasswordPCs => call[c].tok = 0
    /\ call[c].pc \in PasswordPCs => call[c].proof = NoProof
    /\ call[c].pc \in PasswordPCs \ {"issue"} => call[c].id = 0
    /\ call[c].pc = "session" /\ call[c].tok = 0 => call[c].proof = NoProof

\* A push is asked for by one login: it belongs to one token, or to the request
\* that is about to issue one.
Asks(c) == call[c].pc = "issue" /\ call[c].id # 0
PushesOwned ==
    /\ \A t \in Tokens : tokens[t].push # 0 =>
          tokens[t].push \in Pushes /\ pushes[tokens[t].push] # "none" /\ tokens[t].state # "none"
    /\ \A t, u \in Tokens : tokens[t].push # 0 /\ tokens[t].push = tokens[u].push => t = u
    /\ \A c \in Calls : Asks(c) => /\ call[c].id \in Pushes /\ pushes[call[c].id] # "none"
                                   /\ \A t \in Tokens : tokens[t].push # call[c].id
    /\ \A c, d \in Calls : Asks(c) /\ Asks(d) /\ call[c].id = call[d].id => c = d

HoldersAccepted ==
    \A c \in Holders :
       /\ call[c].tok \in Tokens /\ call[c].proof \in Accepted[call[c].tok]
       /\ call[c].pc = "session" => tokens[call[c].tok].state = "used"

SessionsAccepted ==
    \A i \in DOMAIN sessions :
       /\ sessions[i].tok # 0 =>
             /\ sessions[i].tok \in Tokens /\ sessions[i].proof \in Accepted[sessions[i].tok]
             /\ tokens[sessions[i].tok].state = "used"
       /\ sessions[i].tok = 0 => sessions[i].proof = NoProof

\* Two codes that were accepted are different codes; approvals differ because
\* their tokens do.
Apart(p, q) == p[1] = "push" \/ p # q

HoldersApart ==
    \A c, d \in Holders : c # d =>
       /\ Apart(call[c].proof, call[d].proof)
       /\ call[c].pc = "session" /\ call[d].pc = "session" => call[c].tok # call[d].tok

HoldersNew ==
    \A c \in Holders, i \in DOMAIN sessions :
       Apart(call[c].proof, sessions[i].proof) /\ call[c].tok # sessions[i].tok

ProofInv ==
    /\ PasswordInv
    /\ FactorsNumbered
    /\ \A c \in Calls : CarriesProof(c)
    /\ PushesOwned
    /\ HoldersAccepted
    /\ SessionsAccepted
    /\ HoldersApart
    /\ HoldersNew
    /\ OneSessionPerProof

\* A token that exists keeps its push, and once spent stays so.
LEMMA TokensKept ==
  ASSUME PasswordInv, Next, NEW t \in Tokens, tokens[t].state # "none"
  PROVE  /\ tokens'[t].push = tokens[t].push
         /\ tokens'[t].state # "none"
         /\ tokens'[t].state \in {"live", "lapsed"} => Unspent(t)
<1> DEFINE Kept == /\ tokens'[t].push = tokens[t].push
                   /\ tokens'[t].state # "none"
                   /\ tokens'[t].state \in {"live", "lapsed"} => Unspent(t)
<1>1. tokens \in [Tokens -> TokenRows] /\ tokens[t] \in TokenRows /\ HoldsToken /\ TypeOK
      /\ call \in [Calls -> Handlers]
  BY DEF PasswordInv, TypeOK
<1>2. ASSUME UNCHANGED tokens PROVE Kept
  BY <1>2 DEF Unspent
<1>3. ASSUME SpendMFATokens PROVE Kept
  BY <1>1, <1>3, SpendType
<1>4. ASSUME NEW u, tokens' = [tokens EXCEPT ![u] = Used(tokens[u])] PROVE Kept
  BY <1>1, <1>4, UsedType DEF Unspent
<1>5. ASSUME NEW u, tokens' = [tokens EXCEPT ![u].attempts = @ + 1] PROVE Kept
  BY <1>1, <1>5 DEF TokenRows, Unspent
<1>6. ASSUME NEW u, Guess(u) PROVE Kept
  BY <1>1, <1>6 DEF TokenRows, Unspent, Guess
<1>7. CASE Administration
  BY <1>2, <1>3, <1>7 DEF Administration, RevokeUserAccess, ResetUserMFA, DisableUser, EnableUser,
                          ResetPassword, ChangePassword, EndSession, RevokeUserAccessTx
<1>8. CASE Device
  BY <1>2, <1>8 DEF Device, RespondPush, Answer
<1>9. CASE Clock
  <2>1. ASSUME NEW u \in Tokens, TokenLapses(u) PROVE Kept
    <3>1. ASSUME tokens[u].state = "live", tokens' = [tokens EXCEPT ![u].state = "lapsed"] PROVE Kept
      BY <1>1, <3>1 DEF TokenRows, Unspent
    <3> QED BY <1>4, <2>1, <3>1 DEF TokenLapses
  <2> QED BY <1>2, <1>9, <2>1 DEF Clock, PushLapses, ExpirePush, WindowLapses
<1>10. ASSUME NEW c \in Calls, PasswordStep(c) PROVE Kept
  <2>1. ASSUME NEW u \in Tokens, NewToken(u), tokens' = [tokens EXCEPT ![u] = TokenFor(c)] PROVE Kept
    <3>1. u >= u
      BY SignInAssumption DEF Tokens
    <3>2. tokens[u].state = "none"
      BY <2>1, <3>1 DEF NewToken
    <3> QED BY <1>1, <2>1, <3>2 DEF Unspent
  <2> QED BY <1>2, <1>10, <2>1 DEF PasswordStep, Login, VerifyPassword, LoginPush, IssueMFAToken
<1>11. ASSUME NEW c \in Calls, FactorStep(c) PROVE Kept
  BY <1>2, <1>4, <1>5, <1>6, <1>11 DEF FactorStep, Verify, ResolveUser, ReserveMFAAttempt, VerifyUserTOTP,
        ConsumeTOTPCounter, ConsumeRecoveryCode, FinishPushLogin, SpendMFAToken
<1>12. ASSUME NEW c \in Calls, CallStep(c), ~PasswordStep(c), ~FactorStep(c) PROVE Kept
  BY <1>2, <1>3, <1>12 DEF CallStep, CheckLockout, CreateSession, ClearFailedLogins,
        RecordFailedLogin, Abandon, SetPassword, EnableTOTP, SaveUserTOTP, ReplaceRecoveryCodes,
        RevokeOtherSessions, RevokeUserAccessTx
<1> QED BY <1>7, <1>8, <1>9, <1>10, <1>11, <1>12 DEF Next

\* A push that exists goes on existing, and an approval given in time is never
\* taken for a late one.
LEMMA ApprovalsKept ==
  ASSUME TypeOK, Next, NEW p \in Pushes, pushes[p] # "none"
  PROVE  /\ pushes'[p] # "none"
         /\ pushes[p] \in {"approved", "closed"} => pushes'[p] \in {"approved", "closed"}
<1> DEFINE Kept == /\ pushes'[p] # "none"
                   /\ pushes[p] \in {"approved", "closed"} => pushes'[p] \in {"approved", "closed"}
<1>1. pushes \in [Pushes -> PushStatuses]
  BY DEF TypeOK
<1>2. ASSUME UNCHANGED pushes PROVE Kept
  BY <1>2
<1>3. CASE Administration
  BY <1>2, <1>3 DEF Administration, RevokeUserAccess, ResetUserMFA, DisableUser, EnableUser,
                    ResetPassword, ChangePassword, EndSession
<1>4. CASE Device
  <2>1. ASSUME NEW q \in Pushes, RespondPush(q) PROVE Kept
    BY <1>1, <2>1 DEF RespondPush
  <2>2. ASSUME NEW q \in Pushes, NEW approve \in BOOLEAN, Answer(q, approve) PROVE Kept
    BY <1>1, <2>2 DEF Answer
  <2> QED BY <1>4, <2>1, <2>2 DEF Device
<1>5. CASE Clock
  <2>1. ASSUME NEW q \in Pushes, PushLapses(q) \/ ExpirePush(q) PROVE Kept
    BY <1>1, <2>1 DEF PushLapses, ExpirePush
  <2> QED BY <1>2, <1>5, <2>1 DEF Clock, TokenLapses, WindowLapses
<1>6. ASSUME NEW c \in Calls, CallStep(c) PROVE Kept
  <2>1. ASSUME NEW q \in Pushes, NewPush(q), pushes' = [pushes EXCEPT ![q] = "pending"] PROVE Kept
    <3>1. q >= q
      BY SignInAssumption DEF Pushes
    <3>2. pushes[q] = "none"
      BY <2>1, <3>1 DEF NewPush
    <3> QED BY <1>1, <2>1, <3>2
  <2>2. CASE PasswordStep(c)
    BY <1>2, <2>1, <2>2 DEF PasswordStep, Login, VerifyPassword, LoginPush, IssueMFAToken
  <2>3. CASE FactorStep(c)
    BY <1>2, <2>3 DEF FactorStep, Verify, ResolveUser, ReserveMFAAttempt, VerifyUserTOTP,
                      ConsumeTOTPCounter, ConsumeRecoveryCode, FinishPushLogin, SpendMFAToken
  <2> QED BY <1>2, <1>6, <2>2, <2>3 DEF CallStep, CheckLockout, CreateSession, ClearFailedLogins,
             RecordFailedLogin, Abandon, SetPassword, EnableTOTP, SaveUserTOTP, ReplaceRecoveryCodes,
             RevokeOtherSessions
<1> QED BY <1>3, <1>4, <1>5, <1>6 DEF Next

\* A secret or a code is replaced by a new one, the last time step only grows; a
\* reset, which takes all of them away, spends the tokens with them.
FactorsGrow ==
    /\ mfa'.last >= mfa.last
    /\ mfa'.fresh \in Nat /\ mfa'.fresh >= mfa.fresh
    /\ mfa'.secret = mfa.secret \/ (mfa'.secret = mfa'.fresh /\ mfa'.fresh > mfa.fresh)
    /\ mfa'.code \in {mfa.code, 0} \/ (mfa'.code = mfa'.fresh /\ mfa'.fresh > mfa.fresh)

FactorsReset ==
    /\ mfa'.secret = 0 /\ mfa'.code = 0 /\ mfa'.fresh = mfa.fresh
    /\ SpendMFATokens

LEMMA FactorsMove ==
  ASSUME TypeOK, Next
  PROVE  FactorsGrow \/ FactorsReset
<1>1. /\ mfa \in [secret : Nat, last : Nat, push : BOOLEAN, code : Nat, fresh : Nat]
      /\ mfa.secret \in Nat /\ mfa.last \in Nat /\ mfa.code \in Nat /\ mfa.fresh \in Nat
      /\ call \in [Calls -> Handlers]
  BY DEF TypeOK
<1>2. ASSUME UNCHANGED mfa PROVE FactorsGrow
  BY <1>1, <1>2 DEF FactorsGrow
<1>3. CASE Administration
  <2>1. CASE ResetUserMFA
    BY <1>1, <2>1 DEF ResetUserMFA, RevokeUserAccessTx, FactorsReset
  <2> QED BY <1>2, <1>3, <2>1 DEF Administration, RevokeUserAccess, DisableUser, EnableUser,
                    ResetPassword, ChangePassword, EndSession
<1>4. CASE Device \/ Clock
  BY <1>2, <1>4 DEF Device, RespondPush, Answer, Clock, TokenLapses, PushLapses, ExpirePush, WindowLapses
<1>5. ASSUME NEW c \in Calls, CallStep(c) PROVE FactorsGrow
  <2>1. CASE ConsumeTOTPCounter(c)
    <3>1. call[c].proof[3] \in Nat
      BY <1>1 DEF Handlers, Proofs
    <3>2. ASSUME mfa.last < call[c].proof[3], mfa' = [mfa EXCEPT !.last = call[c].proof[3]]
          PROVE  FactorsGrow
      BY <1>1, <3>1, <3>2 DEF FactorsGrow
    <3> QED BY <1>2, <2>1, <3>2 DEF ConsumeTOTPCounter
  <2>2. CASE ConsumeRecoveryCode(c)
    <3>1. ASSUME mfa' = [mfa EXCEPT !.code = 0] PROVE FactorsGrow
      BY <1>1, <3>1 DEF FactorsGrow
    <3> QED BY <1>2, <2>2, <3>1 DEF ConsumeRecoveryCode
  <2>3. CASE SaveUserTOTP(c)
    BY <1>1, <2>3 DEF SaveUserTOTP, FactorsGrow
  <2>4. CASE ReplaceRecoveryCodes(c)
    BY <1>1, <2>4 DEF ReplaceRecoveryCodes, FactorsGrow
  <2>5. CASE PasswordStep(c)
    BY <1>2, <2>5 DEF PasswordStep, Login, VerifyPassword, LoginPush, IssueMFAToken
  <2>6. CASE FactorStep(c) /\ ~ConsumeTOTPCounter(c) /\ ~ConsumeRecoveryCode(c)
    BY <1>2, <2>6 DEF FactorStep, Verify, ResolveUser, ReserveMFAAttempt, VerifyUserTOTP,
                      FinishPushLogin, SpendMFAToken
  <2> QED BY <1>2, <1>5, <2>1, <2>2, <2>3, <2>4, <2>5, <2>6 DEF CallStep, CheckLockout, CreateSession,
             ClearFailedLogins, RecordFailedLogin, Abandon, SetPassword, EnableTOTP, RevokeOtherSessions
<1> QED BY <1>3, <1>4, <1>5 DEF Next

\* Sessions keep the token and the proof they rest on; only CreateSession adds one.
SessionsKept ==
    /\ DOMAIN sessions' = DOMAIN sessions
    /\ \A i \in DOMAIN sessions : /\ sessions'[i].tok = sessions[i].tok
                                  /\ sessions'[i].proof = sessions[i].proof

LEMMA SessionsMove ==
  ASSUME TypeOK, Next
  PROVE  \/ SessionsKept
         \/ \E c \in Calls : CreateSession(c) /\ sessions' = Append(sessions, SessionOf(c))
<1>1. sessions \in Seq(SessionRows) /\ \A i \in DOMAIN sessions : sessions[i] \in SessionRows
  BY DEF TypeOK
<1>2. ASSUME UNCHANGED sessions PROVE SessionsKept
  BY <1>2 DEF SessionsKept
<1>a. \A i \in DOMAIN sessions : /\ EndedSession(sessions[i]).tok = sessions[i].tok
                                 /\ EndedSession(sessions[i]).proof = sessions[i].proof
  BY <1>1 DEF EndedSession, SessionRows
<1>3. ASSUME NEW S
      PROVE  /\ DOMAIN SessionsWithout(S) = DOMAIN sessions
             /\ \A i \in DOMAIN sessions : /\ SessionsWithout(S)[i].tok = sessions[i].tok
                                           /\ SessionsWithout(S)[i].proof = sessions[i].proof
                                           /\ SessionsWithout(S)[i] \in SessionRows
  BY <1>1, <1>a, SessionsWithoutType
<1>4. ASSUME NEW S, sessions' = SessionsWithout(S) PROVE SessionsKept
  BY <1>3, <1>4 DEF SessionsKept
<1>5. ASSUME NEW i \in DOMAIN sessions, ChangePassword(i) PROVE SessionsKept
  <2>1. PICK q : q = SessionsWithout(DOMAIN sessions \ {i})
    OBVIOUS
  <2>2. /\ DOMAIN q = DOMAIN sessions
        /\ \A j \in DOMAIN sessions : q[j].tok = sessions[j].tok /\ q[j].proof = sessions[j].proof
        /\ q[i] \in SessionRows
    BY <1>3, <2>1
  <2>3. sessions' = [q EXCEPT ![i] = [q[i] EXCEPT !.pw = user'.pw]]
    BY <1>5, <2>1 DEF ChangePassword
  <2>4. [q[i] EXCEPT !.pw = user'.pw].tok = q[i].tok /\ [q[i] EXCEPT !.pw = user'.pw].proof = q[i].proof
    BY <2>2 DEF SessionRows
  <2> QED BY <2>2, <2>3, <2>4 DEF SessionsKept
<1>6. CASE Administration
  BY <1>2, <1>4, <1>5, <1>6 DEF Administration, RevokeUserAccess, ResetUserMFA, DisableUser, EnableUser,
                          ResetPassword, EndSession, RevokeUserAccessTx
<1>7. CASE Device \/ Clock
  BY <1>2, <1>7 DEF Device, RespondPush, Answer, Clock, TokenLapses, PushLapses, ExpirePush, WindowLapses
<1>8. ASSUME NEW c \in Calls, CallStep(c)
      PROVE  SessionsKept \/ (CreateSession(c) /\ sessions' = Append(sessions, SessionOf(c)))
  <2>1. CASE CreateSession(c)
    BY <1>2, <2>1 DEF CreateSession, SessionOf
  <2>2. CASE PasswordStep(c)
    BY <1>2, <2>2 DEF PasswordStep, Login, VerifyPassword, LoginPush, IssueMFAToken
  <2>3. CASE FactorStep(c)
    BY <1>2, <2>3 DEF FactorStep, Verify, ResolveUser, ReserveMFAAttempt, VerifyUserTOTP,
                      ConsumeTOTPCounter, ConsumeRecoveryCode, FinishPushLogin, SpendMFAToken
  <2> QED BY <1>2, <1>4, <1>8, <2>1, <2>2, <2>3 DEF CallStep, CheckLockout, ClearFailedLogins,
             RecordFailedLogin, Abandon, SetPassword, EnableTOTP, SaveUserTOTP, ReplaceRecoveryCodes,
             RevokeOtherSessions, RevokeUserAccessTx
<1> QED BY <1>6, <1>7, <1>8 DEF Next

\* How a request comes by what it holds: a code is matched before its time step is
\* spent, a proof is accepted before the token is, and nothing else leads there.
AcceptsTotp(c) ==
    /\ call[c].pc = "counter" /\ UNCHANGED <<tokens, pushes>>
    /\ mfa.last < call[c].proof[3] /\ mfa' = [mfa EXCEPT !.last = call[c].proof[3]]
AcceptsRecovery(c) ==
    /\ call[c].pc = "prove" /\ Guess(call[c].tok) /\ UNCHANGED pushes
    /\ call[c].proof = RecoveryCode(mfa.code) /\ mfa' = [mfa EXCEPT !.code = 0]
AcceptsApproval(c) ==
    /\ call[c].pc = "approval" /\ UNCHANGED <<tokens, pushes, mfa>>
    /\ call[c].proof[2] = tokens[call[c].tok].push /\ pushes[call[c].proof[2]] = "approved"

SameProof(c) == call'[c].tok = call[c].tok /\ call'[c].proof = call[c].proof

Arrives(c) ==
    /\ \A d \in Calls \ {c} : call'[d] = call[d]
    /\ call'[c].pc \in FactorPCs => \/ call[c].pc \in FactorPCs /\ SameProof(c)
                                    \/ call'[c].pc = "token" /\ call'[c].proof \in Offered
    /\ call'[c].pc = "counter" => /\ call[c].proof[1] = "totp" /\ call[c].proof[2] = mfa.secret
                                  /\ UNCHANGED mfa
    /\ call'[c].pc = "approval" => call[c].proof[1] = "push"
    /\ call'[c].pc = "spend" => AcceptsTotp(c) \/ AcceptsRecovery(c) \/ AcceptsApproval(c)
    /\ call'[c].pc = "session" =>
          /\ SameProof(c)
          /\ \/ call[c].pc = "password"
             \/ /\ call[c].pc = "spend" /\ Unspent(call[c].tok)
                /\ tokens' = [tokens EXCEPT ![call[c].tok] = Used(@)]
    /\ call'[c].pc \in PasswordPCs =>
          /\ call'[c].tok = 0 /\ call'[c].proof = NoProof
          /\ \/ call'[c].id = 0
             \/ /\ call'[c].pc = "issue"
                /\ \E p \in Pushes : /\ NewPush(p) /\ call'[c].id = p
                                     /\ pushes' = [pushes EXCEPT ![p] = "pending"] /\ UNCHANGED tokens

LEMMA CallArrives ==
  ASSUME PasswordInv, NEW c \in Calls, CarriesProof(c), CallStep(c)
  PROVE  Arrives(c)
<1> DEFINE K == call[c]
<1>1. /\ call \in [Calls -> Handlers] /\ call[c] \in Handlers
  BY DEF PasswordInv, TypeOK
<1>2. {"login", "password", "push", "issue", "token", "resolved", "reserve", "prove", "counter", "approval",
       "spend", "session", "clear", "fail", "enroll", "codes", "others"} \subseteq PCs
  BY DEF PCs
<1> DEFINE Plain == {"idle", "clear", "fail", "enroll", "codes", "others"}
<1> DEFINE Middle == {"resolved", "reserve", "prove"}
<1>a. /\ Plain \cap FactorPCs = {} /\ Plain \cap PasswordPCs = {} /\ "session" \notin Plain
      /\ Middle \subseteq FactorPCs /\ Middle \cap PasswordPCs = {}
      /\ FactorPCs \cap PasswordPCs = {} /\ "session" \notin FactorPCs \cup PasswordPCs
      /\ {"counter", "approval", "spend"} \subseteq FactorPCs
      /\ {"counter", "approval", "spend", "session"} \cap Middle = {}
  BY DEF FactorPCs, PasswordPCs
<1> HIDE DEF Plain, Middle
<1>3. ASSUME NEW r, call' = [call EXCEPT ![c] = r], r.pc \in Plain PROVE Arrives(c)
  <2>1. call'[c] = r /\ \A d \in Calls \ {c} : call'[d] = call[d]
    BY <1>1, <1>3
  <2> QED BY <1>3, <1>a, <2>1 DEF Arrives
<1>4. ASSUME Done(c) PROVE Arrives(c)
  BY <1>3, <1>4 DEF Done, Idle, Plain
<1>5. ASSUME NEW pc \in PCs, Goto(c, pc)
      PROVE  /\ \A d \in Calls \ {c} : call'[d] = call[d]
             /\ call'[c].pc = pc /\ SameProof(c) /\ call'[c].id = K.id
  BY <1>1, <1>5, GotoType DEF Handlers, SameProof
<1>6. ASSUME NEW pc \in PCs, Goto(c, pc), pc \in Plain PROVE Arrives(c)
  BY <1>5, <1>6, <1>a DEF Arrives
<1>7. ASSUME NEW r, call' = [call EXCEPT ![c] = r], K.pc \in FactorPCs, r.pc \in Middle,
             r.tok = K.tok, r.proof = K.proof
      PROVE  Arrives(c)
  <2>1. call'[c] = r /\ \A d \in Calls \ {c} : call'[d] = call[d]
    BY <1>1, <1>7
  <2> QED BY <1>7, <1>a, <2>1 DEF Arrives, SameProof
<1>8. ASSUME NEW pc \in PCs, Goto(c, pc), K.pc \in FactorPCs, pc \in Middle PROVE Arrives(c)
  BY <1>5, <1>8, <1>a DEF Arrives
<1>9. ASSUME NEW r, call' = [call EXCEPT ![c] = r], r.pc \in PasswordPCs, r.tok = 0, r.proof = NoProof, r.id = 0
      PROVE  Arrives(c)
  <2>1. call'[c] = r /\ \A d \in Calls \ {c} : call'[d] = call[d]
    BY <1>1, <1>9
  <2> QED BY <1>9, <1>a, <2>1 DEF Arrives
<1>10. ASSUME NEW s \in Sources, NEW right \in BOOLEAN, Login(c, s, right) PROVE Arrives(c)
  <2> DEFINE L == [Idle EXCEPT !.pc = "login", !.src = s, !.right = right, !.pw = user.pw, !.proved = user.pw]
  <2>1. L.pc \in PasswordPCs /\ L.tok = 0 /\ L.proof = NoProof /\ L.id = 0
    BY DEF Idle, PasswordPCs
  <2>2. call' = [call EXCEPT ![c] = L]
    BY <1>10 DEF Login
  <2> HIDE DEF L
  <2> QED BY <1>9, <2>1, <2>2
<1>11. CASE VerifyPassword(c)
  <2>0. K.pc = "password" /\ K.tok = 0 /\ K.proof = NoProof /\ K.id = 0
    BY <1>11 DEF VerifyPassword, CarriesProof, PasswordPCs
  <2>1. CASE K.right
    <3>b. (CASE ~Enrolled -> "session" [] mfa.push -> "push" [] OTHER -> "issue")
              \in {"session", "push", "issue"}
      OBVIOUS
    <3>0. PICK pc \in {"session", "push", "issue"} :
             pc = CASE ~Enrolled -> "session" [] mfa.push -> "push" [] OTHER -> "issue"
      BY <3>b
    <3> DEFINE L == [K EXCEPT !.rev = rev, !.pc = pc]
    <3>1. call' = [call EXCEPT ![c] = L]
      BY <1>1, <1>11, <2>1, <3>0 DEF VerifyPassword
    <3>2. L.pc = pc /\ L.tok = 0 /\ L.proof = NoProof /\ L.id = 0
      BY <1>1, <2>0 DEF Handlers
    <3> HIDE DEF L
    <3>3. CASE pc = "session"
      <4>1. call'[c] = L /\ \A d \in Calls \ {c} : call'[d] = call[d]
        BY <1>1, <3>1
      <4> QED BY <1>a, <2>0, <3>2, <3>3, <4>1 DEF Arrives, SameProof
    <3>4. CASE pc # "session"
      BY <1>9, <3>0, <3>1, <3>2, <3>4 DEF PasswordPCs
    <3> QED BY <3>3, <3>4
  <2>2. CASE ~K.right
    BY <1>2, <1>6, <1>11, <2>2 DEF VerifyPassword, Plain
  <2> QED BY <2>1, <2>2
<1>12. CASE LoginPush(c)
  <2>0. K.pc = "push" /\ K.tok = 0 /\ K.proof = NoProof /\ K.id = 0
    BY <1>12 DEF LoginPush, CarriesProof, PasswordPCs
  <2>1. ASSUME NEW p \in Pushes, NewPush(p), pushes' = [pushes EXCEPT ![p] = "pending"],
               call' = [call EXCEPT ![c].pc = "issue", ![c].id = p]
        PROVE  Arrives(c)
    <3>1. call'[c] = [K EXCEPT !.pc = "issue", !.id = p] /\ \A d \in Calls \ {c} : call'[d] = call[d]
      BY <1>1, <2>1
    <3>2. call'[c].pc = "issue" /\ call'[c].tok = 0 /\ call'[c].proof = NoProof /\ call'[c].id = p
      BY <1>1, <2>0, <3>1 DEF Handlers
    <3>3. UNCHANGED tokens
      BY <1>12 DEF LoginPush
    <3> QED BY <1>a, <2>1, <3>1, <3>2, <3>3 DEF Arrives, FactorPCs
  <2>2. CASE Goto(c, "issue")
    <3>1. /\ \A d \in Calls \ {c} : call'[d] = call[d]
          /\ call'[c].pc = "issue" /\ SameProof(c) /\ call'[c].id = 0
      BY <1>2, <1>5, <2>0, <2>2
    <3> QED BY <1>a, <2>0, <3>1 DEF Arrives, SameProof, FactorPCs
  <2> QED BY <1>12, <2>1, <2>2 DEF LoginPush
<1>13. CASE IssueMFAToken(c)
  BY <1>4, <1>13 DEF IssueMFAToken
<1>14. ASSUME NEW s \in Sources, NEW t \in Tokens, NEW proof \in Offered, Verify(c, s, t, proof)
       PROVE  Arrives(c)
  <2> DEFINE L == [Idle EXCEPT !.pc = "token", !.src = s, !.tok = t, !.proof = proof]
  <2>1. L.pc = "token" /\ L.proof \in Offered
    BY DEF Idle
  <2>2. call' = [call EXCEPT ![c] = L]
    BY <1>14 DEF Verify
  <2> HIDE DEF L
  <2>3. call'[c] = L /\ \A d \in Calls \ {c} : call'[d] = call[d]
    BY <1>1, <2>2
  <2> QED BY <1>a, <2>1, <2>3 DEF Arrives, FactorPCs
<1>15. CASE ResolveUser(c)
  <2>1. ASSUME call' = [call EXCEPT ![c].pc = "resolved", ![c].pw = user.pw] PROVE Arrives(c)
    <3> DEFINE L == [K EXCEPT !.pc = "resolved", !.pw = user.pw]
    <3>1. call' = [call EXCEPT ![c] = L]
      BY <1>1, <2>1
    <3>2. L.pc = "resolved" /\ L.tok = K.tok /\ L.proof = K.proof /\ K.pc \in FactorPCs
      BY <1>1, <1>15 DEF Handlers, ResolveUser, FactorPCs
    <3> HIDE DEF L
    <3> QED BY <1>7, <3>1, <3>2 DEF Middle
  <2> QED BY <1>4, <1>15, <2>1 DEF ResolveUser
<1>16. CASE ReserveMFAAttempt(c)
  BY <1>2, <1>4, <1>8, <1>16 DEF ReserveMFAAttempt, FactorPCs, Middle
<1>17. CASE VerifyUserTOTP(c)
  <2>1. ASSUME Goto(c, "counter"), K.proof[2] = mfa.secret PROVE Arrives(c)
    BY <1>2, <1>5, <1>17, <1>a, <2>1 DEF VerifyUserTOTP, Arrives, FactorPCs
  <2> QED BY <1>2, <1>6, <1>17, <2>1 DEF VerifyUserTOTP, Plain
<1>18. ASSUME Goto(c, "spend"), K.pc \in FactorPCs, AcceptsTotp(c) \/ AcceptsRecovery(c) \/ AcceptsApproval(c)
       PROVE  Arrives(c)
  BY <1>2, <1>5, <1>18, <1>a DEF Arrives
<1>19. CASE ConsumeTOTPCounter(c)
  BY <1>2, <1>6, <1>18, <1>19 DEF ConsumeTOTPCounter, AcceptsTotp, FactorPCs, Plain
<1>20. CASE ConsumeRecoveryCode(c)
  BY <1>2, <1>6, <1>18, <1>20 DEF ConsumeRecoveryCode, AcceptsRecovery, FactorPCs, Plain
<1>21. CASE FinishPushLogin(c)
  BY <1>2, <1>4, <1>18, <1>21 DEF FinishPushLogin, AcceptsApproval, FactorPCs, Plain
<1>22. CASE SpendMFAToken(c)
  <2>1. CASE Unspent(K.tok)
    <3> DEFINE L == [K EXCEPT !.pc = "session", !.proved = tokens[K.tok].pw, !.rev = tokens[K.tok].rev]
    <3>1. /\ call' = [call EXCEPT ![c] = L] /\ tokens' = [tokens EXCEPT ![K.tok] = Used(@)]
          /\ K.pc = "spend"
      BY <1>1, <1>22, <2>1 DEF SpendMFAToken, Unspent
    <3>2. L.pc = "session" /\ L.tok = K.tok /\ L.proof = K.proof
      BY <1>1 DEF Handlers
    <3> HIDE DEF L
    <3>3. call'[c] = L /\ \A d \in Calls \ {c} : call'[d] = call[d]
      BY <1>1, <3>1
    <3> QED BY <1>a, <2>1, <3>1, <3>2, <3>3 DEF Arrives, SameProof
  <2>2. CASE ~Unspent(K.tok)
    BY <1>4, <1>22, <2>2 DEF SpendMFAToken, Unspent
  <2> QED BY <2>1, <2>2
<1>23. CASE CheckLockout(c)
  <2>1. CASE Locked(K.src)
    BY <1>4, <1>23, <2>1 DEF CheckLockout
  <2>2. CASE ~Locked(K.src) /\ K.pc = "login"
    <3>1. Goto(c, "password") /\ K.tok = 0 /\ K.proof = NoProof /\ K.id = 0
      BY <1>23, <2>2 DEF CheckLockout, CarriesProof, PasswordPCs
    <3> QED BY <1>2, <1>5, <1>a, <3>1 DEF Arrives, SameProof, FactorPCs
  <2>3. CASE ~Locked(K.src) /\ K.pc = "resolved" /\ K.proof[1] = "push"
    <3>1. Goto(c, "approval")
      BY <1>23, <2>3 DEF CheckLockout
    <3> QED BY <1>2, <1>5, <1>a, <2>3, <3>1 DEF Arrives, FactorPCs
  <2>4. CASE ~Locked(K.src) /\ K.pc = "resolved" /\ K.proof[1] # "push"
    BY <1>2, <1>8, <1>23, <2>4 DEF CheckLockout, FactorPCs, Middle
  <2> QED BY <1>23, <2>1, <2>2, <2>3, <2>4 DEF CheckLockout
<1>24. CASE CreateSession(c)
  BY <1>2, <1>4, <1>6, <1>24 DEF CreateSession, Plain
<1>25. CASE ClearFailedLogins(c) \/ RecordFailedLogin(c) \/ Abandon(c) \/ RevokeOtherSessions(c)
  BY <1>4, <1>25 DEF ClearFailedLogins, RecordFailedLogin, Abandon, RevokeOtherSessions
<1>26. CASE SetPassword(c) \/ SaveUserTOTP(c) \/ ReplaceRecoveryCodes(c)
  BY <1>2, <1>6, <1>26 DEF SetPassword, SaveUserTOTP, ReplaceRecoveryCodes, Plain
<1>27. ASSUME NEW i \in DOMAIN sessions, EnableTOTP(c, i) PROVE Arrives(c)
  <2>1. call' = [call EXCEPT ![c] = [K EXCEPT !.pc = "enroll", !.id = i]]
    BY <1>1, <1>27 DEF EnableTOTP
  <2>2. [K EXCEPT !.pc = "enroll", !.id = i].pc = "enroll"
    BY <1>1 DEF Handlers
  <2> QED BY <1>3, <2>1, <2>2 DEF Plain
<1> QED BY <1>10, <1>11, <1>12, <1>13, <1>14, <1>15, <1>16, <1>17, <1>19, <1>20, <1>21, <1>22, <1>23,
           <1>24, <1>25, <1>26, <1>27 DEF CallStep, PasswordStep, FactorStep

LEMMA CallsMove ==
  ASSUME ProofInv, Next
  PROVE  UNCHANGED call \/ \E c \in Calls : CallStep(c) /\ Arrives(c)
BY CallArrives, OthersLeaveCalls DEF ProofInv, Next

\* What was accepted stays so, and is not accepted again.
LEMMA AcceptedStays ==
  ASSUME ProofInv, Next, NEW t \in Tokens, tokens[t].state # "none", NEW p \in Accepted[t]
  PROVE  p \in Accepted'[t]
<1>1. PasswordInv /\ TypeOK /\ HoldsToken /\ tokens \in [Tokens -> TokenRows]
      /\ mfa.last \in Nat /\ mfa.secret \in Nat /\ mfa.code \in Nat /\ mfa.fresh \in Nat
  BY DEF ProofInv, PasswordInv, TypeOK
<1>2. /\ p \in Barred /\ p \in Proofs /\ p[2] \in Nat /\ p[3] \in Nat
      /\ p[1] = "push" => p[2] \in Pushes /\ tokens[t].push = p[2] /\ pushes[p[2]] \in {"approved", "closed"}
  BY DEF Accepted, Barred, Proofs
<1>3. /\ p[1] \in {"totp", "recovery", "push"}
      /\ p[1] \in {"totp", "recovery"} => p[2] \in 1..mfa.fresh
      /\ p[1] = "recovery" => p[2] # mfa.code
  BY <1>2 DEF Barred
<1>4. p[1] = "push" => p[2] \in Pushes /\ tokens'[t].push = p[2] /\ pushes'[p[2]] \in {"approved", "closed"}
  BY <1>1, <1>2, TokensKept, ApprovalsKept
<1>5. CASE FactorsReset
  <2>1. \A u \in Tokens : tokens'[u].state \in {"none", "used"}
    BY <1>1, <1>5, SpendType DEF FactorsReset
  <2>2. HoldsToken'
    BY <1>1, PasswordInductive DEF PasswordInv
  <2>3. \A c \in Calls : call'[c].pc = "counter" => ~(tokens'[call'[c].tok].state \in {"live", "lapsed"})
    BY <2>1, <2>2 DEF HoldsToken, FactorPCs
  <2>4. p[1] \in {"totp", "recovery"} => p[2] \in 1..mfa'.fresh /\ p[2] # mfa'.secret /\ p[2] # mfa'.code
    BY <1>1, <1>3, <1>5 DEF FactorsReset
  <2>5. p \in Barred'
    BY <1>2, <1>3, <2>3, <2>4 DEF Barred, Unspent
  <2> QED BY <1>4, <2>5 DEF Accepted
<1>6. CASE FactorsGrow
  <2>1. p[1] \in {"totp", "recovery"} => p[2] \in 1..mfa'.fresh
    BY <1>1, <1>2, <1>3, <1>6 DEF FactorsGrow
  <2>2. p[1] = "recovery" => p[2] # mfa'.code
    BY <1>1, <1>2, <1>3, <1>6 DEF FactorsGrow
  <2>3. ASSUME p[1] = "totp", p[3] <= mfa.last PROVE p[3] <= mfa'.last
    <3>1. mfa'.last \in Nat
      BY <1>1, PasswordInductive DEF PasswordInv, TypeOK
    <3> QED BY <1>1, <1>2, <1>6, <2>3, <3>1 DEF FactorsGrow
  <2>4. ASSUME p[1] = "totp", p[2] # mfa.secret,
               \A c \in Calls : call[c].pc = "counter" /\ Unspent(call[c].tok) => call[c].proof[2] # p[2]
        PROVE  /\ p[2] # mfa'.secret
               /\ \A d \in Calls : call'[d].pc = "counter" /\ tokens'[call'[d].tok].state \in {"live", "lapsed"}
                                     => call'[d].proof[2] # p[2]
    <3>1. p[2] # mfa'.secret
      BY <1>1, <1>2, <1>3, <1>6, <2>4 DEF FactorsGrow
    <3>2. ASSUME NEW d \in Calls, call'[d].pc = "counter", tokens'[call'[d].tok].state \in {"live", "lapsed"}
          PROVE  call'[d].proof[2] # p[2]
      <4>1. CASE call'[d] = call[d]
        <5>1. call[d].tok \in Tokens /\ tokens[call[d].tok].state # "none"
          BY <1>1, <3>2, <4>1 DEF HoldsToken, FactorPCs
        <5>2. Unspent(call[d].tok)
          BY <1>1, <3>2, <4>1, <5>1, TokensKept
        <5> QED BY <2>4, <3>2, <4>1, <5>2
      <4>2. CASE Arrives(d)
        BY <2>4, <3>2, <4>2 DEF Arrives, SameProof, FactorPCs
      <4> QED BY <4>1, <4>2, CallsMove DEF Arrives
    <3> QED BY <3>1, <3>2
  <2>5. p[1] = "totp" => \/ p[3] <= mfa.last
                         \/ /\ p[2] # mfa.secret
                            /\ \A c \in Calls : call[c].pc = "counter" /\ Unspent(call[c].tok)
                                                  => call[c].proof[2] # p[2]
    BY <1>2 DEF Barred
  <2>6. p \in Barred'
    BY <1>2, <1>3, <2>1, <2>2, <2>3, <2>4, <2>5 DEF Barred, Unspent
  <2> QED BY <1>4, <2>6 DEF Accepted
<1> QED BY <1>1, <1>5, <1>6, FactorsMove

\* Secrets, codes and what the requests carry.
LEMMA CarriedInductive ==
  ASSUME ProofInv, Next
  PROVE  FactorsNumbered' /\ \A c \in Calls : CarriesProof(c)'
<1>1. /\ TypeOK /\ TypeOK' /\ mfa.fresh \in Nat /\ mfa'.fresh \in Nat /\ mfa.secret \in Nat /\ mfa.code \in Nat
      /\ call \in [Calls -> Handlers] /\ call' \in [Calls -> Handlers]
  BY PasswordInductive DEF ProofInv, PasswordInv, TypeOK
<1>2. FactorsNumbered'
  BY <1>1, FactorsMove DEF ProofInv, FactorsNumbered, FactorsGrow, FactorsReset
<1>3. mfa'.fresh >= mfa.fresh
  BY <1>1, FactorsMove DEF FactorsGrow, FactorsReset
<1>4. ASSUME NEW d \in Calls, call'[d] = call[d] PROVE CarriesProof(d)'
  BY <1>1, <1>3, <1>4 DEF ProofInv, CarriesProof
<1>5. ASSUME NEW d \in Calls, Arrives(d) PROVE CarriesProof(d)'
  <2>1. CarriesProof(d)
    BY DEF ProofInv
  <2>2. ASSUME call'[d].pc \in FactorPCs, SameProof(d), call[d].pc \in FactorPCs
        PROVE  /\ call'[d].proof[1] \in {"totp", "recovery"} => call'[d].proof[2] \in 1..mfa'.fresh
               /\ call'[d].proof[1] = "push" => call'[d].proof[2] \in Pushes
    BY <1>1, <1>3, <2>1, <2>2 DEF CarriesProof, SameProof
  <2>3. ASSUME call'[d].proof \in Offered
        PROVE  /\ call'[d].proof[1] \in {"totp", "recovery"} => call'[d].proof[2] \in 1..mfa'.fresh
               /\ call'[d].proof[1] = "push" => call'[d].proof[2] \in Pushes
    <3>1. mfa.secret \in 0..mfa.fresh /\ mfa.code \in 0..mfa.fresh
      BY DEF ProofInv, FactorsNumbered
    <3>2. PICK q : q = call'[d].proof
      OBVIOUS
    <3>3. \/ mfa.secret # 0 /\ \E k \in Steps : q = TotpCode(mfa.secret, k)
          \/ mfa.code # 0 /\ q = RecoveryCode(mfa.code)
          \/ \E p \in Pushes : q = PushApproval(p)
          \/ q = WrongProof
      BY <2>3, <3>2 DEF Offered
    <3> QED BY <1>1, <1>3, <3>1, <3>2, <3>3 DEF TotpCode, RecoveryCode, PushApproval, WrongProof
  <2>4. ASSUME call'[d].pc = "counter" PROVE call'[d].proof[1] = "totp"
    BY <2>4, <1>5 DEF Arrives, SameProof, FactorPCs
  <2>5. ASSUME call'[d].pc = "approval" PROVE call'[d].proof[1] = "push"
    BY <2>5, <1>5 DEF Arrives, SameProof, FactorPCs
  <2>6. ASSUME call'[d].pc \in FactorPCs
        PROVE  /\ call'[d].proof[1] \in {"totp", "recovery"} => call'[d].proof[2] \in 1..mfa'.fresh
               /\ call'[d].proof[1] = "push" => call'[d].proof[2] \in Pushes
    BY <1>5, <2>2, <2>3, <2>6 DEF Arrives
  <2>7. call'[d].pc \in PasswordPCs => call'[d].tok = 0 /\ call'[d].proof = NoProof
    BY <1>5 DEF Arrives
  <2>8. call'[d].pc \in PasswordPCs \ {"issue"} => call'[d].id = 0
    BY <1>5 DEF Arrives
  <2>9. ASSUME call'[d].pc = "session", call'[d].tok = 0 PROVE call'[d].proof = NoProof
    <3>1. CASE call[d].pc = "password"
      BY <1>5, <2>1, <2>9, <3>1 DEF Arrives, SameProof, CarriesProof, PasswordPCs
    <3>2. CASE call[d].pc = "spend"
      <4>1. call[d].tok \in Tokens
        BY <3>2 DEF ProofInv, PasswordInv, HoldsToken, FactorPCs
      <4>2. call[d].tok # 0
        BY <4>1, SignInAssumption DEF Tokens
      <4> QED BY <1>5, <2>9, <4>2 DEF Arrives, SameProof
    <3> QED BY <1>5, <2>9, <3>1, <3>2 DEF Arrives
  <2> QED BY <2>4, <2>5, <2>6, <2>7, <2>8, <2>9 DEF CarriesProof
<1>6. \A d \in Calls : CarriesProof(d)'
  <2>1. CASE UNCHANGED call
    BY <1>4, <2>1
  <2>2. ASSUME NEW c \in Calls, Arrives(c) PROVE \A d \in Calls : CarriesProof(d)'
    <3>1. \A d \in Calls \ {c} : call'[d] = call[d]
      BY <2>2 DEF Arrives
    <3> QED BY <1>4, <1>5, <2>2, <3>1
  <2> QED BY <2>1, <2>2, CallsMove
<1> QED BY <1>2, <1>6

\* A row that does not exist yet is only written by CreateMFAToken.
LEMMA TokensInserted ==
  ASSUME PasswordInv, Next, NEW t \in Tokens, tokens[t].state = "none"
  PROVE  \/ tokens'[t].push = tokens[t].push
         \/ \E c \in Calls : IssueMFAToken(c) /\ tokens' = [tokens EXCEPT ![t] = TokenFor(c)]
<1> DEFINE Same == tokens'[t].push = tokens[t].push
<1>1. tokens \in [Tokens -> TokenRows] /\ tokens[t] \in TokenRows
  BY DEF PasswordInv, TypeOK
<1>2. ASSUME UNCHANGED tokens PROVE Same
  BY <1>2
<1>3. ASSUME SpendMFATokens PROVE Same
  BY <1>1, <1>3, SpendType
<1>4. ASSUME NEW u, tokens' = [tokens EXCEPT ![u] = Used(tokens[u])] PROVE Same
  BY <1>1, <1>4, UsedType
<1>5. ASSUME NEW u, tokens' = [tokens EXCEPT ![u].attempts = @ + 1] PROVE Same
  BY <1>1, <1>5 DEF TokenRows
<1>6. ASSUME NEW u, Guess(u) PROVE Same
  BY <1>1, <1>6 DEF TokenRows, Guess
<1>7. CASE Administration
  BY <1>2, <1>3, <1>7 DEF Administration, RevokeUserAccess, ResetUserMFA, DisableUser, EnableUser,
                          ResetPassword, ChangePassword, EndSession, RevokeUserAccessTx
<1>8. CASE Device
  BY <1>2, <1>8 DEF Device, RespondPush, Answer
<1>9. CASE Clock
  <2>1. ASSUME NEW u \in Tokens, TokenLapses(u) PROVE Same
    <3>1. ASSUME tokens' = [tokens EXCEPT ![u].state = "lapsed"] PROVE Same
      BY <1>1, <3>1 DEF TokenRows
    <3> QED BY <1>4, <2>1, <3>1 DEF TokenLapses
  <2> QED BY <1>2, <1>9, <2>1 DEF Clock, PushLapses, ExpirePush, WindowLapses
<1>10. ASSUME NEW c \in Calls, PasswordStep(c)
       PROVE  Same \/ (IssueMFAToken(c) /\ tokens' = [tokens EXCEPT ![t] = TokenFor(c)])
  <2>1. ASSUME NEW u \in Tokens, u # t, tokens' = [tokens EXCEPT ![u] = TokenFor(c)] PROVE Same
    BY <1>1, <2>1
  <2>2. CASE IssueMFAToken(c)
    <3>1. UNCHANGED tokens \/ \E u \in Tokens : tokens' = [tokens EXCEPT ![u] = TokenFor(c)]
      BY <2>2 DEF IssueMFAToken
    <3> QED BY <1>2, <2>1, <2>2, <3>1
  <2>3. CASE ~IssueMFAToken(c)
    BY <1>2, <1>10, <2>3 DEF PasswordStep, Login, VerifyPassword, LoginPush
  <2> QED BY <2>2, <2>3
<1>11. ASSUME NEW c \in Calls, FactorStep(c) PROVE Same
  BY <1>2, <1>4, <1>5, <1>6, <1>11 DEF FactorStep, Verify, ResolveUser, ReserveMFAAttempt, VerifyUserTOTP,
        ConsumeTOTPCounter, ConsumeRecoveryCode, FinishPushLogin, SpendMFAToken
<1>12. ASSUME NEW c \in Calls, CallStep(c), ~PasswordStep(c), ~FactorStep(c) PROVE Same
  BY <1>2, <1>3, <1>12 DEF CallStep, CheckLockout, CreateSession, ClearFailedLogins,
        RecordFailedLogin, Abandon, SetPassword, EnableTOTP, SaveUserTOTP, ReplaceRecoveryCodes,
        RevokeOtherSessions, RevokeUserAccessTx
<1> QED BY <1>7, <1>8, <1>9, <1>10, <1>11, <1>12 DEF Next

\* A push stays the push of one login.
LEMMA PushesOwnedInductive ==
  ASSUME ProofInv, Next
  PROVE  PushesOwned'
<1>1. /\ PasswordInv /\ TypeOK /\ PushesOwned
      /\ tokens \in [Tokens -> TokenRows] /\ pushes \in [Pushes -> PushStatuses] /\ call \in [Calls -> Handlers]
  BY DEF ProofInv, PasswordInv, TypeOK
<1>2. ASSUME NEW p \in Pushes, pushes[p] # "none" PROVE pushes'[p] # "none"
  BY <1>1, <1>2, ApprovalsKept
<1>3. ASSUME NEW c \in Calls, IssueMFAToken(c), NEW t \in Tokens, tokens[t].state = "none",
             tokens' = [tokens EXCEPT ![t] = TokenFor(c)]
      PROVE  PushesOwned'
  <2>1. call'[c] = Idle /\ \A d \in Calls \ {c} : call'[d] = call[d]
    BY <1>1, <1>3, DoneType DEF IssueMFAToken
  <2>2. call[c].pc = "issue" /\ pushes' = pushes
    BY <1>3 DEF IssueMFAToken
  <2>3. /\ tokens'[t].push = call[c].id /\ tokens'[t].state = "live"
        /\ \A u \in Tokens \ {t} : tokens'[u] = tokens[u]
    BY <1>1, <1>3 DEF TokenFor, NoTokenRow
  <2>4. call[c].id # 0 => Asks(c)
    BY <2>2 DEF Asks
  <2>5. \A d \in Calls : Asks(d)' => d # c /\ call'[d] = call[d] /\ Asks(d)
    BY <2>1 DEF Asks, Idle
  <2>6. \A u \in Tokens : tokens'[u].push # 0 =>
          tokens'[u].push \in Pushes /\ pushes'[tokens'[u].push] # "none" /\ tokens'[u].state # "none"
    BY <1>1, <2>2, <2>3, <2>4 DEF PushesOwned
  <2>7. \A u, v \in Tokens : tokens'[u].push # 0 /\ tokens'[u].push = tokens'[v].push => u = v
    BY <1>1, <2>3, <2>4 DEF PushesOwned
  <2>8. \A d \in Calls : Asks(d)' => /\ call'[d].id \in Pushes /\ pushes'[call'[d].id] # "none"
                                     /\ \A u \in Tokens : tokens'[u].push # call'[d].id
    <3> SUFFICES ASSUME NEW d \in Calls, Asks(d)'
                 PROVE  /\ call'[d].id \in Pushes /\ pushes'[call'[d].id] # "none"
                        /\ \A u \in Tokens : tokens'[u].push # call'[d].id
      OBVIOUS
    <3>1. d # c /\ call'[d] = call[d] /\ Asks(d)
      BY <2>5
    <3>2. call[d].id # call[c].id
      BY <2>4, <3>1, <1>1 DEF PushesOwned, Asks
    <3> QED BY <1>1, <2>2, <2>3, <3>1, <3>2 DEF PushesOwned
  <2>9. \A d, e \in Calls : Asks(d)' /\ Asks(e)' /\ call'[d].id = call'[e].id => d = e
    BY <1>1, <2>5 DEF PushesOwned
  <2> QED BY <2>6, <2>7, <2>8, <2>9 DEF PushesOwned
<1>4. ASSUME \A t \in Tokens : tokens'[t].push = tokens[t].push PROVE PushesOwned'
  <2>1. \A t \in Tokens : tokens'[t].push # 0 =>
          tokens'[t].push \in Pushes /\ pushes'[tokens'[t].push] # "none" /\ tokens'[t].state # "none"
    <3> SUFFICES ASSUME NEW t \in Tokens, tokens'[t].push # 0
                 PROVE  tokens'[t].push \in Pushes /\ pushes'[tokens'[t].push] # "none" /\ tokens'[t].state # "none"
      OBVIOUS
    <3>1. tokens[t].push \in Pushes /\ pushes[tokens[t].push] # "none" /\ tokens[t].state # "none"
      BY <1>1, <1>4 DEF PushesOwned
    <3> QED BY <1>1, <1>2, <1>4, <3>1, TokensKept
  <2>2. \A t, u \in Tokens : tokens'[t].push # 0 /\ tokens'[t].push = tokens'[u].push => t = u
    BY <1>1, <1>4 DEF PushesOwned
  <2>3. ASSUME NEW d \in Calls, Asks(d), call'[d] = call[d]
        PROVE  /\ call'[d].id \in Pushes /\ pushes'[call'[d].id] # "none"
               /\ \A t \in Tokens : tokens'[t].push # call'[d].id
    BY <1>1, <1>2, <1>4, <2>3 DEF PushesOwned
  <2>4. ASSUME \A d \in Calls : Asks(d)' => Asks(d) /\ call'[d] = call[d] PROVE PushesOwned'
    <3>1. \A d, e \in Calls : Asks(d)' /\ Asks(e)' /\ call'[d].id = call'[e].id => d = e
      BY <1>1, <2>4 DEF PushesOwned
    <3> QED BY <2>1, <2>2, <2>3, <2>4, <3>1 DEF PushesOwned
  <2>5. ASSUME NEW c \in Calls, \A d \in Calls \ {c} : call'[d] = call[d], NEW p \in Pushes, NewPush(p),
               call'[c].id = p, pushes' = [pushes EXCEPT ![p] = "pending"]
        PROVE  PushesOwned'
    <3>1. p >= p
      BY SignInAssumption DEF Pushes
    <3>2. pushes[p] = "none" /\ pushes'[p] = "pending"
      BY <1>1, <2>5, <3>1 DEF NewPush
    <3>3. \A t \in Tokens : tokens'[t].push # p
      <4>1. p # 0
        BY SignInAssumption DEF Pushes
      <4> QED BY <1>1, <1>4, <3>2, <4>1 DEF PushesOwned
    <3>4. \A d \in Calls \ {c} : Asks(d)' => Asks(d) /\ call'[d] = call[d] /\ call[d].id # p
      BY <1>1, <2>5, <3>2 DEF PushesOwned, Asks
    <3>5. \A d \in Calls : Asks(d)' => /\ call'[d].id \in Pushes /\ pushes'[call'[d].id] # "none"
                                       /\ \A t \in Tokens : tokens'[t].push # call'[d].id
      BY <2>3, <2>5, <3>2, <3>3, <3>4
    <3>6. \A d, e \in Calls : Asks(d)' /\ Asks(e)' /\ call'[d].id = call'[e].id => d = e
      BY <1>1, <2>5, <3>4 DEF PushesOwned
    <3> QED BY <2>1, <2>2, <3>5, <3>6 DEF PushesOwned
  <2>6. CASE UNCHANGED call
    BY <2>4, <2>6 DEF Asks
  <2>7. ASSUME NEW c \in Calls, Arrives(c) PROVE PushesOwned'
    <3>1. \A d \in Calls \ {c} : call'[d] = call[d]
      BY <2>7 DEF Arrives
    <3>2. CASE Asks(c)'
      <4>1. call'[c].pc = "issue" /\ call'[c].id # 0
        BY <3>2 DEF Asks
      <4>2. \E p \in Pushes : NewPush(p) /\ call'[c].id = p /\ pushes' = [pushes EXCEPT ![p] = "pending"]
        BY <2>7, <4>1 DEF Arrives, PasswordPCs
      <4> QED BY <2>5, <3>1, <4>2
    <3>3. CASE ~Asks(c)'
      <4>1. \A d \in Calls : Asks(d)' => Asks(d) /\ call'[d] = call[d]
        BY <3>1, <3>3 DEF Asks
      <4> QED BY <2>4, <4>1
    <3> QED BY <3>2, <3>3
  <2> QED BY <2>6, <2>7, CallsMove
<1>5. ASSUME NEW t \in Tokens, tokens'[t].push # tokens[t].push PROVE PushesOwned'
  <2>1. tokens[t].state = "none"
    BY <1>1, <1>5, TokensKept
  <2> QED BY <1>1, <1>3, <1>5, <2>1, TokensInserted
<1> QED BY <1>4, <1>5

Accepts(c) == AcceptsTotp(c) \/ AcceptsRecovery(c) \/ AcceptsApproval(c)

\* Who can turn a proof into a session could do so before, or has it accepted now.
LEMMA HoldersMove ==
  ASSUME ProofInv, Next, NEW d \in Holders'
  PROVE  /\ d \in Calls /\ SameProof(d)
         /\ \/ d \in Holders
            \/ /\ call'[d].pc = "spend" /\ call[d].pc \in FactorPCs
               /\ call[d].tok \in Tokens /\ Unspent(call[d].tok)
               /\ Accepts(d)
               /\ \A e \in Calls \ {d} : call'[e] = call[e]
<1>1. PasswordInv /\ HoldsToken /\ CarriesProof(d)
  BY DEF ProofInv, PasswordInv, Holders
<1>2. /\ d \in Calls /\ call'[d].tok # 0
      /\ \/ call'[d].pc = "session"
         \/ call'[d].pc = "spend" /\ tokens'[call'[d].tok].state \in {"live", "lapsed"}
  BY DEF Holders, Unspent
<1>3. CASE call'[d] = call[d]
  <2>1. ASSUME call[d].pc = "spend", tokens'[call[d].tok].state \in {"live", "lapsed"}
        PROVE  Unspent(call[d].tok)
    <3>1. call[d].tok \in Tokens /\ tokens[call[d].tok].state # "none"
      BY <1>1, <1>2, <2>1 DEF HoldsToken, FactorPCs
    <3> QED BY <1>1, <2>1, <3>1, TokensKept
  <2> QED BY <1>2, <1>3, <2>1 DEF Holders, SameProof
<1>4. CASE Arrives(d)
  <2>1. CASE call'[d].pc = "session"
    <3>1. call[d].pc # "password"
      BY <1>1, <1>2, <1>4, <2>1 DEF Arrives, SameProof, CarriesProof, PasswordPCs
    <3> QED BY <1>2, <1>4, <2>1, <3>1 DEF Arrives, SameProof, Holders
  <2>2. CASE call'[d].pc = "spend"
    <3>1. call[d].pc \in FactorPCs /\ SameProof(d) /\ Accepts(d)
      BY <1>4, <2>2 DEF Arrives, Accepts, FactorPCs
    <3>2. call[d].tok \in Tokens /\ tokens[call[d].tok].state # "none"
      BY <1>1, <1>2, <3>1 DEF HoldsToken
    <3>3. Unspent(call[d].tok)
      BY <1>1, <1>2, <2>2, <3>1, <3>2, TokensKept DEF SameProof
    <3> QED BY <1>2, <1>4, <2>2, <3>1, <3>2, <3>3 DEF Arrives
  <2> QED BY <1>2, <2>1, <2>2
<1> QED BY <1>2, <1>3, <1>4, CallsMove DEF Arrives

\* A code is accepted once: whoever has it accepted now differs from all that were.
LEMMA NewProofApart ==
  ASSUME ProofInv, NEW c \in Calls, Accepts(c), call[c].pc \in FactorPCs, Unspent(call[c].tok),
         NEW t \in Tokens, NEW q \in Accepted[t]
  PROVE  Apart(call[c].proof, q)
<1>1. q \in Barred
  BY DEF Accepted
<1> SUFFICES ASSUME call[c].proof[1] # "push", call[c].proof = q PROVE FALSE
  BY DEF Apart
<1>2. CarriesProof(c) /\ mfa.last \in Nat /\ q[3] \in Nat
  BY <1>1 DEF ProofInv, PasswordInv, TypeOK, Barred, Proofs
<1>3. CASE AcceptsTotp(c)
  <2>1. q[1] = "totp" /\ call[c].pc = "counter" /\ mfa.last < q[3]
    BY <1>2, <1>3 DEF CarriesProof, AcceptsTotp
  <2>2. ~(q[3] <= mfa.last)
    BY <1>2, <2>1
  <2>3. \A d \in Calls : call[d].pc = "counter" /\ Unspent(call[d].tok) => call[d].proof[2] # q[2]
    BY <1>1, <2>1, <2>2 DEF Barred
  <2> QED BY <2>1, <2>3
<1>4. CASE AcceptsRecovery(c)
  <2>1. q[1] = "recovery" /\ q[2] = mfa.code
    BY <1>4 DEF AcceptsRecovery, RecoveryCode
  <2> QED BY <1>1, <2>1 DEF Barred
<1>5. CASE AcceptsApproval(c)
  BY <1>2, <1>5 DEF CarriesProof, AcceptsApproval
<1> QED BY <1>3, <1>4, <1>5 DEF Accepts

LEMMA UsedStays ==
  ASSUME ProofInv, Next, NEW t \in Tokens, tokens[t].state = "used"
  PROVE  tokens'[t].state = "used"
<1>1. PasswordInv /\ tokens' \in [Tokens -> TokenRows]
  BY PasswordInductive DEF ProofInv, PasswordInv, TypeOK
<1>2. tokens'[t].state \in {"none", "live", "lapsed", "used"}
  BY <1>1 DEF TokenRows
<1> QED BY <1>1, <1>2, TokensKept DEF Unspent

\* A holder's token exists.
LEMMA HolderToken ==
  ASSUME ProofInv, NEW c \in Holders
  PROVE  /\ c \in Calls /\ call[c].tok \in Tokens /\ tokens[call[c].tok].state # "none"
         /\ call[c].proof \in Accepted[call[c].tok]
         /\ call[c].pc = "spend" => tokens[call[c].tok].state # "used"
         /\ call[c].pc = "session" => tokens[call[c].tok].state = "used"
         /\ call[c].pc \in {"spend", "session"}
BY DEF ProofInv, HoldersAccepted, Holders, Unspent

LEMMA HoldersAcceptedInductive ==
  ASSUME ProofInv, Next
  PROVE  HoldersAccepted'
<1> SUFFICES ASSUME NEW d \in Holders'
             PROVE  /\ call'[d].tok \in Tokens /\ call'[d].proof \in Accepted'[call'[d].tok]
                    /\ call'[d].pc = "session" => tokens'[call'[d].tok].state = "used"
  BY DEF HoldersAccepted
<1>1. /\ PasswordInv /\ TypeOK /\ call \in [Calls -> Handlers] /\ tokens \in [Tokens -> TokenRows]
      /\ mfa \in [secret : Nat, last : Nat, push : BOOLEAN, code : Nat, fresh : Nat]
      /\ d \in Calls /\ SameProof(d) /\ CarriesProof(d)
  BY HoldersMove DEF ProofInv, PasswordInv, TypeOK
<1>2. CASE d \in Holders
  <2>1. call'[d].tok \in Tokens /\ call'[d].proof \in Accepted'[call'[d].tok]
    <3>1. call[d].proof \in Accepted'[call[d].tok]
      BY <1>2, HolderToken, AcceptedStays
    <3> QED BY <1>1, <1>2, <3>1, HolderToken DEF SameProof
  <2>2. ASSUME call'[d].pc = "session" PROVE tokens'[call'[d].tok].state = "used"
    <3>1. CASE call[d].pc = "session"
      BY <1>1, <1>2, <3>1, HolderToken, UsedStays DEF SameProof
    <3>2. CASE call[d].pc = "spend"
      <4>a. PICK c \in Calls : Arrives(c)
        BY <2>2, <3>2, CallsMove
      <4>b. c = d
        BY <1>1, <2>2, <3>2, <4>a DEF Arrives
      <4>1. Arrives(d)
        BY <4>a, <4>b
      <4>2. tokens' = [tokens EXCEPT ![call[d].tok] = Used(@)]
        BY <2>2, <3>2, <4>1 DEF Arrives
      <4>3. tokens[call[d].tok] \in TokenRows /\ call[d].tok \in Tokens
        BY <1>1, <1>2, HolderToken
      <4> QED BY <1>1, <4>2, <4>3, UsedType DEF SameProof
    <3> QED BY <1>2, <3>1, <3>2, HolderToken
  <2> QED BY <2>1, <2>2
<1>3. ASSUME call'[d].pc = "spend", call[d].pc \in FactorPCs, call[d].tok \in Tokens, Accepts(d)
      PROVE  call[d].proof \in Accepted'[call[d].tok]
  <2>1. PICK p \in Proofs : p = call[d].proof
    BY <1>1 DEF Handlers
  <2>2. p[2] \in Nat /\ p[3] \in Nat /\ mfa.last \in Nat /\ mfa.code \in Nat /\ mfa.fresh \in Nat
    BY <1>1, <2>1 DEF Proofs
  <2>3. CASE AcceptsTotp(d)
    <3>1. p[1] = "totp" /\ p[2] \in 1..mfa.fresh
      BY <1>1, <1>3, <2>1, <2>3 DEF CarriesProof, AcceptsTotp
    <3>2. mfa'.last = p[3] /\ mfa'.fresh = mfa.fresh
      BY <1>1, <2>1, <2>2, <2>3 DEF AcceptsTotp
    <3>3. p \in Barred'
      BY <2>2, <3>1, <3>2 DEF Barred
    <3> QED BY <1>3, <2>1, <3>1, <3>3 DEF Accepted
  <2>4. CASE AcceptsRecovery(d)
    <3>1. p = RecoveryCode(mfa.code) /\ mfa' = [mfa EXCEPT !.code = 0]
      BY <2>1, <2>4 DEF AcceptsRecovery
    <3>2. p[1] = "recovery"
      BY <3>1 DEF RecoveryCode
    <3>3. p[2] \in 1..mfa.fresh
      BY <1>1, <1>3, <2>1, <3>2 DEF CarriesProof
    <3>4. mfa'.code = 0 /\ mfa'.fresh = mfa.fresh
      BY <1>1, <3>1
    <3>5. p \in Barred'
      BY <2>2, <3>2, <3>3, <3>4 DEF Barred
    <3> QED BY <1>3, <2>1, <3>2, <3>5 DEF Accepted
  <2>5. CASE AcceptsApproval(d)
    <3>1. p[1] = "push" /\ p[2] \in Pushes
      BY <1>1, <1>3, <2>1, <2>5 DEF CarriesProof, AcceptsApproval
    <3>2. tokens'[call[d].tok].push = p[2] /\ pushes'[p[2]] = "approved"
      BY <2>1, <2>5 DEF AcceptsApproval
    <3>3. p \in Barred'
      BY <3>1 DEF Barred
    <3> QED BY <1>3, <2>1, <3>2, <3>1, <3>3 DEF Accepted
  <2> QED BY <1>3, <2>3, <2>4, <2>5 DEF Accepts
<1>4. CASE d \notin Holders
  BY <1>1, <1>3, <1>4, HoldersMove DEF SameProof
<1> QED BY <1>2, <1>4

LEMMA ApartSymmetric ==
  ASSUME NEW p, NEW q, Apart(p, q)
  PROVE  Apart(q, p)
BY DEF Apart

LEMMA HoldersApartInductive ==
  ASSUME ProofInv, Next
  PROVE  HoldersApart'
<1>1. ASSUME NEW c \in Holders', c \notin Holders, NEW d \in Holders', c # d
      PROVE  /\ d \in Holders
             /\ Apart(call'[c].proof, call'[d].proof)
             /\ call'[c].pc # "session"
  <2>1. /\ c \in Calls /\ call'[c].pc = "spend" /\ call[c].pc \in FactorPCs
        /\ Unspent(call[c].tok) /\ Accepts(c) /\ call'[c].proof = call[c].proof
        /\ \A e \in Calls \ {c} : call'[e] = call[e]
    BY <1>1, HoldersMove DEF SameProof
  <2>2. d \in Calls /\ call'[d] = call[d]
    BY <1>1, <2>1, HoldersMove
  <2>3. d \in Holders
    <3>1. CASE call[d].pc = "session"
      BY <2>2, <3>1 DEF Holders
    <3>2. CASE call[d].pc # "session"
      <4>1. call[d].pc = "spend" /\ call[d].tok # 0 /\ tokens'[call[d].tok].state \in {"live", "lapsed"}
        BY <2>2, <3>2 DEF Holders, Unspent
      <4>2. call[d].tok \in Tokens /\ tokens[call[d].tok].state # "none" /\ PasswordInv
        BY <2>2, <4>1 DEF ProofInv, PasswordInv, HoldsToken, FactorPCs
      <4>3. Unspent(call[d].tok)
        BY <4>1, <4>2, TokensKept
      <4> QED BY <2>2, <4>1, <4>3 DEF Holders
    <3> QED BY <3>1, <3>2
  <2>4. call[d].tok \in Tokens /\ call[d].proof \in Accepted[call[d].tok]
    BY <2>3, HolderToken
  <2>5. Apart(call[c].proof, call[d].proof)
    BY <2>1, <2>4, NewProofApart
  <2> QED BY <2>1, <2>2, <2>3, <2>5
<1>2. ASSUME NEW c \in Holders', NEW d \in Holders', c # d, c \in Holders, d \in Holders
      PROVE  /\ Apart(call'[c].proof, call'[d].proof)
             /\ call'[c].pc = "session" /\ call'[d].pc = "session" => call'[c].tok # call'[d].tok
  <2>1. SameProof(c) /\ SameProof(d) /\ c \in Calls /\ d \in Calls
    BY <1>2, HoldersMove
  <2>2. Apart(call[c].proof, call[d].proof)
    BY <1>2 DEF ProofInv, HoldersApart
  <2>3. ASSUME call'[c].pc = "session", call'[d].pc = "session" PROVE call[c].tok # call[d].tok
    <3>1. call'[c] = call[c] \/ call'[d] = call[d]
      BY <1>2, <2>1, CallsMove DEF Arrives
    <3>2. CASE call[c].pc = "session" /\ call[d].pc = "session"
      BY <1>2, <3>2 DEF ProofInv, HoldersApart
    <3>3. CASE call[c].pc = "spend" /\ call[d].pc = "session"
      BY <1>2, <3>3, HolderToken
    <3>4. CASE call[c].pc = "session" /\ call[d].pc = "spend"
      BY <1>2, <3>4, HolderToken
    <3> QED BY <1>2, <2>3, <3>1, <3>2, <3>3, <3>4, HolderToken
  <2> QED BY <2>1, <2>2, <2>3 DEF SameProof
<1>3. ASSUME NEW c \in Holders', NEW d \in Holders', c # d
      PROVE  /\ Apart(call'[c].proof, call'[d].proof)
             /\ call'[c].pc = "session" /\ call'[d].pc = "session" => call'[c].tok # call'[d].tok
  <2>1. CASE c \notin Holders
    BY <1>1, <1>3, <2>1
  <2>2. CASE d \notin Holders
    <3>1. Apart(call'[d].proof, call'[c].proof) /\ call'[d].pc # "session"
      BY <1>1, <1>3, <2>2
    <3> QED BY <3>1, ApartSymmetric
  <2> QED BY <1>2, <1>3, <2>1, <2>2
<1> QED BY <1>3 DEF HoldersApart

\* The session CreateSession adds: its request held the proof, or had none to hold.
LEMMA AddedSession ==
  ASSUME ProofInv, NEW c \in Calls, CreateSession(c), sessions' = Append(sessions, SessionOf(c))
  PROVE  /\ DOMAIN sessions' = DOMAIN sessions \cup {Len(sessions) + 1}
         /\ sessions'[Len(sessions) + 1].tok = call[c].tok
         /\ sessions'[Len(sessions) + 1].proof = call[c].proof
         /\ \A i \in DOMAIN sessions : sessions'[i] = sessions[i]
         /\ call[c].pc = "session" /\ c \notin Holders'
         /\ \A d \in Calls \ {c} : call'[d] = call[d]
         /\ call[c].tok # 0 => c \in Holders
         /\ call[c].tok = 0 => call[c].proof = NoProof
         /\ tokens' = tokens
<1>1. /\ sessions \in Seq(SessionRows) /\ call \in [Calls -> Handlers] /\ call[c] \in Handlers
      /\ "clear" \in PCs
  BY DEF ProofInv, PasswordInv, TypeOK, PCs
<1>2. SessionOf(c) \in SessionRows
  BY <1>1 DEF Handlers, SessionRows, SessionOf
<1>3. /\ DOMAIN sessions' = DOMAIN sessions \cup {Len(sessions) + 1}
      /\ sessions'[Len(sessions) + 1] = SessionOf(c)
      /\ \A i \in DOMAIN sessions : sessions'[i] = sessions[i]
  BY <1>1, <1>2, AppendType
<1>4. call[c].pc = "session" /\ tokens' = tokens /\ (Done(c) \/ Goto(c, "clear"))
  BY DEF CreateSession
<1>5. call'[c].pc \in {"idle", "clear"} /\ \A d \in Calls \ {c} : call'[d] = call[d]
  <2>1. CASE Done(c)
    BY <1>1, <2>1, DoneType DEF Idle
  <2>2. CASE Goto(c, "clear")
    <3>1. call'[c] = [call[c] EXCEPT !.pc = "clear"] /\ \A d \in Calls \ {c} : call'[d] = call[d]
      BY <1>1, <2>2, GotoType
    <3> QED BY <1>1, <3>1 DEF Handlers
  <2> QED BY <1>4, <2>1, <2>2
<1>6. c \notin Holders'
  BY <1>5 DEF Holders
<1>7. call[c].tok = 0 => call[c].proof = NoProof
  BY <1>4 DEF ProofInv, CarriesProof
<1>8. call[c].tok # 0 => c \in Holders
  BY <1>4 DEF Holders
<1>9. SessionOf(c).tok = call[c].tok /\ SessionOf(c).proof = call[c].proof
  BY DEF SessionOf
<1> QED BY <1>3, <1>4, <1>5, <1>6, <1>7, <1>8, <1>9

LEMMA SessionsAcceptedInductive ==
  ASSUME ProofInv, Next
  PROVE  SessionsAccepted'
<1>1. ASSUME NEW t \in Tokens, NEW p \in Accepted[t], tokens[t].state = "used"
      PROVE  p \in Accepted'[t] /\ tokens'[t].state = "used"
  BY <1>1, AcceptedStays, UsedStays
<1>2. ASSUME NEW i \in DOMAIN sessions
      PROVE  /\ sessions[i].tok # 0 =>
                  /\ sessions[i].tok \in Tokens /\ sessions[i].proof \in Accepted'[sessions[i].tok]
                  /\ tokens'[sessions[i].tok].state = "used"
             /\ sessions[i].tok = 0 => sessions[i].proof = NoProof
  BY <1>1 DEF ProofInv, SessionsAccepted
<1>3. CASE SessionsKept
  BY <1>2, <1>3 DEF SessionsKept, SessionsAccepted
<1>4. ASSUME NEW c \in Calls, CreateSession(c), sessions' = Append(sessions, SessionOf(c))
      PROVE  SessionsAccepted'
  <2>1. PICK n : n = Len(sessions) + 1
    OBVIOUS
  <2>2. /\ DOMAIN sessions' = DOMAIN sessions \cup {n}
        /\ sessions'[n].tok = call[c].tok /\ sessions'[n].proof = call[c].proof
        /\ \A i \in DOMAIN sessions : sessions'[i] = sessions[i]
        /\ call[c].tok # 0 => c \in Holders
        /\ call[c].tok = 0 => call[c].proof = NoProof
        /\ call[c].pc = "session"
    BY <1>4, <2>1, AddedSession
  <2>3. call[c].tok # 0 => /\ call[c].tok \in Tokens /\ call[c].proof \in Accepted'[call[c].tok]
                           /\ tokens'[call[c].tok].state = "used"
    BY <1>1, <2>2, HolderToken
  <2>4. ASSUME NEW i \in DOMAIN sessions'
        PROVE  /\ sessions'[i].tok # 0 =>
                    /\ sessions'[i].tok \in Tokens /\ sessions'[i].proof \in Accepted'[sessions'[i].tok]
                    /\ tokens'[sessions'[i].tok].state = "used"
               /\ sessions'[i].tok = 0 => sessions'[i].proof = NoProof
    BY <1>2, <2>2, <2>3, <2>4
  <2> QED BY <2>4 DEF SessionsAccepted
<1>5. TypeOK
  BY DEF ProofInv, PasswordInv
<1> QED BY <1>3, <1>4, <1>5, SessionsMove

\* An accepted proof is not the empty one of a sign-in without a second factor.
LEMMA NotEmpty ==
  ASSUME NEW t \in Tokens, NEW p \in Accepted[t]
  PROVE  Apart(p, NoProof) /\ p # NoProof
<1>1. p[1] \in {"totp", "recovery", "push"}
  BY DEF Accepted, Barred
<1> QED BY <1>1 DEF Apart, NoProof

LEMMA HoldersNewInductive ==
  ASSUME ProofInv, Next
  PROVE  HoldersNew'
<1>1. ASSUME NEW c \in Holders', NEW i \in DOMAIN sessions
      PROVE  Apart(call[c].proof, sessions[i].proof) /\ call[c].tok # sessions[i].tok
  <2>1. CASE c \in Holders
    BY <2>1 DEF ProofInv, HoldersNew
  <2>2. CASE c \notin Holders
    <3>1. /\ c \in Calls /\ call[c].pc \in FactorPCs /\ Accepts(c)
          /\ call[c].tok \in Tokens /\ Unspent(call[c].tok)
      BY <2>2, HoldersMove
    <3>2. CASE sessions[i].tok = 0
      <4>1. sessions[i].proof = NoProof /\ call[c].tok # 0
        BY <3>1, <3>2, SignInAssumption DEF ProofInv, SessionsAccepted, Tokens
      <4>2. call[c].proof[1] # "none"
        <5>1. CarriesProof(c)
          BY <3>1 DEF ProofInv
        <5> QED BY <3>1, <5>1 DEF Accepts, AcceptsTotp, AcceptsRecovery, AcceptsApproval, CarriesProof, RecoveryCode
      <4> QED BY <3>2, <4>1, <4>2 DEF Apart, NoProof
    <3>3. CASE sessions[i].tok # 0
      <4>1. /\ sessions[i].tok \in Tokens /\ sessions[i].proof \in Accepted[sessions[i].tok]
            /\ tokens[sessions[i].tok].state = "used"
        BY <3>3 DEF ProofInv, SessionsAccepted
      <4>2. Apart(call[c].proof, sessions[i].proof)
        BY <3>1, <4>1, NewProofApart
      <4> QED BY <3>1, <4>1, <4>2 DEF Unspent
    <3> QED BY <3>2, <3>3
  <2> QED BY <2>1, <2>2
<1>2. \A c \in Holders' : SameProof(c)
  BY HoldersMove
<1>3. CASE SessionsKept
  BY <1>1, <1>2, <1>3 DEF SessionsKept, HoldersNew, SameProof
<1>4. ASSUME NEW c \in Calls, CreateSession(c), sessions' = Append(sessions, SessionOf(c))
      PROVE  HoldersNew'
  <2>1. PICK n : n = Len(sessions) + 1
    OBVIOUS
  <2>2. /\ DOMAIN sessions' = DOMAIN sessions \cup {n}
        /\ sessions'[n].tok = call[c].tok /\ sessions'[n].proof = call[c].proof
        /\ \A i \in DOMAIN sessions : sessions'[i] = sessions[i]
        /\ call[c].tok # 0 => c \in Holders
        /\ call[c].tok = 0 => call[c].proof = NoProof
        /\ call[c].pc = "session" /\ c \notin Holders'
        /\ \A d \in Calls \ {c} : call'[d] = call[d]
        /\ tokens' = tokens
    BY <1>4, <2>1, AddedSession
  <2>3. ASSUME NEW d \in Holders'
        PROVE  Apart(call'[d].proof, call[c].proof) /\ call'[d].tok # call[c].tok
    <3>1. d \in Calls /\ d # c /\ call'[d] = call[d]
      BY <2>2, <2>3, HoldersMove
    <3>2. d \in Holders
      BY <2>2, <2>3, <3>1 DEF Holders, Unspent
    <3>3. CASE call[c].tok = 0
      <4>1. call[d].tok \in Tokens /\ call[d].proof \in Accepted[call[d].tok]
        BY <3>2, HolderToken
      <4>2. call[d].tok # 0
        BY <4>1, SignInAssumption DEF Tokens
      <4> QED BY <2>2, <3>1, <3>3, <4>1, <4>2, NotEmpty
    <3>4. CASE call[c].tok # 0
      <4>1. c \in Holders
        BY <2>2, <3>4
      <4>2. /\ Apart(call[d].proof, call[c].proof)
            /\ call[d].pc = "session" => call[d].tok # call[c].tok
        BY <2>2, <3>1, <3>2, <4>1 DEF ProofInv, HoldersApart
      <4>3. call[d].pc = "spend" => call[d].tok # call[c].tok
        BY <2>2, <3>2, <4>1, HolderToken
      <4> QED BY <3>1, <3>2, <4>2, <4>3, HolderToken
    <3> QED BY <3>3, <3>4
  <2>4. ASSUME NEW d \in Holders', NEW i \in DOMAIN sessions'
        PROVE  Apart(call'[d].proof, sessions'[i].proof) /\ call'[d].tok # sessions'[i].tok
    <3>1. CASE i = n
      BY <2>2, <2>3, <3>1
    <3>2. CASE i \in DOMAIN sessions
      BY <1>1, <1>2, <2>2, <3>2 DEF SameProof
    <3> QED BY <2>2, <3>1, <3>2
  <2> QED BY <2>4 DEF HoldersNew
<1>5. TypeOK
  BY DEF ProofInv, PasswordInv
<1> QED BY <1>3, <1>4, <1>5, SessionsMove

\* A session's token and proof are its own.
LEMMA OneSessionInductive ==
  ASSUME ProofInv, Next
  PROVE  OneSessionPerProof'
<1>1. CASE SessionsKept
  BY <1>1 DEF ProofInv, OneSessionPerProof, SessionsKept
<1>2. ASSUME NEW c \in Calls, CreateSession(c), sessions' = Append(sessions, SessionOf(c))
      PROVE  OneSessionPerProof'
  <2>1. PICK n : n = Len(sessions) + 1
    OBVIOUS
  <2>2. /\ DOMAIN sessions' = DOMAIN sessions \cup {n}
        /\ sessions'[n].tok = call[c].tok /\ sessions'[n].proof = call[c].proof
        /\ \A i \in DOMAIN sessions : sessions'[i] = sessions[i]
        /\ call[c].tok # 0 => c \in Holders
        /\ call[c].tok = 0 => call[c].proof = NoProof
    BY <1>2, <2>1, AddedSession
  <2>3. ASSUME NEW i \in DOMAIN sessions, sessions[i].tok # 0 \/ call[c].tok # 0
        PROVE  sessions[i].tok # call[c].tok /\ sessions[i].proof # call[c].proof
    <3>1. CASE call[c].tok = 0
      <4>1. sessions[i].tok \in Tokens /\ sessions[i].proof \in Accepted[sessions[i].tok]
        BY <2>3, <3>1 DEF ProofInv, SessionsAccepted
      <4> QED BY <2>2, <2>3, <3>1, <4>1, NotEmpty
    <3>2. CASE call[c].tok # 0
      <4>1. c \in Holders
        BY <2>2, <3>2
      <4>2. Apart(call[c].proof, sessions[i].proof) /\ call[c].tok # sessions[i].tok
        BY <4>1 DEF ProofInv, HoldersNew
      <4>3. ASSUME call[c].proof[1] = "push", sessions[i].proof = call[c].proof PROVE FALSE
        <5>1. call[c].tok \in Tokens /\ call[c].proof \in Accepted[call[c].tok]
          BY <4>1, HolderToken
        <5>2. tokens[call[c].tok].push = call[c].proof[2] /\ call[c].proof[2] \in Pushes
          BY <4>3, <5>1 DEF Accepted
        <5>3. sessions[i].tok # 0
          BY <4>3 DEF ProofInv, SessionsAccepted, NoProof
        <5>4. sessions[i].tok \in Tokens /\ sessions[i].proof \in Accepted[sessions[i].tok]
          BY <5>3 DEF ProofInv, SessionsAccepted
        <5>5. tokens[sessions[i].tok].push = call[c].proof[2]
          BY <4>3, <5>4 DEF Accepted
        <5>6. call[c].proof[2] # 0
          BY <5>2, SignInAssumption DEF Pushes
        <5>7. call[c].tok = sessions[i].tok
          BY <5>1, <5>2, <5>4, <5>5, <5>6 DEF ProofInv, PushesOwned
        <5> QED BY <4>2, <5>7
      <4> QED BY <4>2, <4>3 DEF Apart
    <3> QED BY <3>1, <3>2
  <2>4. ASSUME NEW i \in DOMAIN sessions', NEW j \in DOMAIN sessions', sessions'[i].tok # 0,
               sessions'[i].tok = sessions'[j].tok \/ sessions'[i].proof = sessions'[j].proof
        PROVE  i = j
    <3>1. CASE i \in DOMAIN sessions /\ j \in DOMAIN sessions
      BY <2>2, <2>4, <3>1 DEF ProofInv, OneSessionPerProof
    <3>2. CASE i \in DOMAIN sessions /\ j = n
      BY <2>2, <2>3, <2>4, <3>2
    <3>3. CASE i = n /\ j \in DOMAIN sessions
      BY <2>2, <2>3, <2>4, <3>3
    <3> QED BY <2>2, <3>1, <3>2, <3>3
  <2> QED BY <2>4 DEF OneSessionPerProof
<1>3. TypeOK
  BY DEF ProofInv, PasswordInv
<1> QED BY <1>1, <1>2, <1>3, SessionsMove

LEMMA InitProofs == Init => ProofInv
<1> SUFFICES ASSUME Init PROVE ProofInv
  OBVIOUS
<1>1. Holders = {} /\ DOMAIN sessions = {}
  BY DEF Init, Holders, Idle
<1>2. FactorsNumbered
  BY DEF Init, FactorsNumbered
<1>3. \A c \in Calls : CarriesProof(c)
  BY DEF Init, CarriesProof, Idle, FactorPCs, PasswordPCs
<1>4. PushesOwned
  BY DEF Init, PushesOwned, NoTokenRow, Asks, Idle
<1>5. HoldersAccepted /\ SessionsAccepted /\ HoldersApart /\ HoldersNew /\ OneSessionPerProof
  BY <1>1 DEF HoldersAccepted, SessionsAccepted, HoldersApart, HoldersNew, OneSessionPerProof
<1> QED BY <1>2, <1>3, <1>4, <1>5, InitPassword DEF ProofInv

LEMMA ProofsInductive == ProofInv /\ [Next]_vars => ProofInv'
<1> SUFFICES ASSUME ProofInv, [Next]_vars PROVE ProofInv'
  OBVIOUS
<1>1. PasswordInv'
  BY PasswordInductive DEF ProofInv
<1>2. CASE Next
  BY <1>1, <1>2, CarriedInductive, PushesOwnedInductive, HoldersAcceptedInductive, SessionsAcceptedInductive,
     HoldersApartInductive, HoldersNewInductive, OneSessionInductive DEF ProofInv
<1>3. CASE UNCHANGED vars
  <2>1. Holders' = Holders /\ Accepted' = Accepted
    BY <1>3 DEF vars, Holders, Accepted, Barred, Unspent
  <2> QED BY <1>1, <1>3, <2>1 DEF vars, ProofInv, FactorsNumbered, CarriesProof, PushesOwned, Asks,
          HoldersAccepted, SessionsAccepted, HoldersApart, HoldersNew, OneSessionPerProof, Apart
<1> QED BY <1>2, <1>3

\* A token, a TOTP time step, a recovery code and a push approval each make at most
\* one session, for any number of requests that present them at once and through any
\* number of resets and new factors: the step or the code is spent in the statement
\* that accepts it, the token after it, and a reset, which forgets the steps that were
\* spent, spends the tokens of all who could still offer them.
THEOREM ProofsSignInOnce == Spec => []OneSessionPerProof
<1>1. ProofInv => OneSessionPerProof
  BY DEF ProofInv
<1> QED BY <1>1, InitProofs, ProofsInductive, PTL DEF Spec

\* An approval signs in the login that asked for it and only in time, however its
\* answer, its expiry and the requests that wait for it interleave.
THEOREM ApprovalsInTime == Spec => []ApprovalInTimeForItsLogin
<1>1. ProofInv => ApprovalInTimeForItsLogin
  <2> SUFFICES ASSUME ProofInv, NEW i \in DOMAIN sessions, sessions[i].proof[1] = "push"
               PROVE  /\ sessions[i].proof[2] = tokens[sessions[i].tok].push
                      /\ pushes[sessions[i].proof[2]] # "late"
    BY DEF ApprovalInTimeForItsLogin
  <2>1. sessions[i].tok # 0
    BY DEF ProofInv, SessionsAccepted, NoProof
  <2>2. sessions[i].tok \in Tokens /\ sessions[i].proof \in Accepted[sessions[i].tok]
    BY <2>1 DEF ProofInv, SessionsAccepted
  <2> QED BY <2>2 DEF Accepted
<1> QED BY <1>1, InitProofs, ProofsInductive, PTL DEF Spec
=============================================================================
