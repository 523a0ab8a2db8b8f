------------------------------- MODULE StepUp -------------------------------
(***************************************************************************)
(* Re-authentication before account-security changes (store/stepup.go,     *)
(* api/stepup.go, api/stepup_handlers.go) and the changes it authorises:   *)
(* authenticators, passkeys, recovery codes and paired devices             *)
(* (api/device_handlers.go, api/webauthn_handlers.go, mfa/mfa.go), against *)
(* logout, revocation and an administrator's reset.                        *)
(*                                                                         *)
(* One account.  A handler that reads, verifies or spends before it writes *)
(* is open in between; each store transaction is one step.                 *)
(***************************************************************************)
EXTENDS Naturals, FiniteSets

CONSTANTS
    Sessions,     \* bound: sessions the account ever has
    Tickets,      \* bound: step-up tokens ever minted
    Devices,      \* bound: phones ever paired
    Requests,     \* requests that may be open at once
    NoSession, NoTicket,
    MaxAttempts,  \* wrong assertions a challenge survives
    MaxResets     \* bound: administrator resets

ASSUME StepUpAssumption ==
    /\ NoSession \notin Sessions /\ NoTicket \notin Tickets
    /\ MaxAttempts \in Nat \ {0} /\ MaxResets \in Nat

VARIABLES
    sess,      \* sessions
    chal,      \* step_up_challenges
    grant,     \* step_up_tokens
    req,       \* open requests
    factor,    \* mfa_methods, webauthn_credentials, recovery_codes, native_devices
    pairing,   \* device_pairing_tokens: the outstanding one
    ceremony,  \* webauthn_challenges: whether a registration ceremony is open
    spent,     \* history: how many operations each ticket authorised
    epoch,     \* history: resets so far
    since      \* history: the epoch of each session

vars == <<sess, chal, grant, req, factor, pairing, ceremony, spent, epoch, since>>
-----------------------------------------------------------------------------
\* The operations, by what they change.
Ops == {"totp", "codes", "passkey", "unpasskey", "pair", "device"}
Methods == {"none", "totp", "push", "webauthn", "recovery"}
RowStates == {"none", "live", "used"}

\* stepUpRequest: what a challenge and a grant are bound to.
Holders == [s : Sessions \cup {NoSession}, op : Ops]
NoHolder == [s |-> NoSession, op |-> "totp"]

ChalRows == [st : RowStates, for : Holders, method : Methods,
             phone : {"pending", "approved", "refused"}, attempts : 0..MaxAttempts]
GrantRows == [st : RowStates, for : Holders]
\* at: how far the handler is.  early: history, a reset came after the handler spent its ticket.
ReqRows == [at : {"idle", "ask", "proved", "finish", "change", "codes", "verified", "revoke"}, for : Holders, ticket : Tickets \cup {NoTicket},
            method : Methods, early : BOOLEAN]
NoReq == [at |-> "idle", for |-> NoHolder, ticket |-> NoTicket, method |-> "none", early |-> FALSE]

\* What is enrolled; an authenticator, a passkey and a phone that may approve carry, as a
\* history, the epoch of the session that authorised them, and 0 is none.
Epochs == 0..MaxResets + 1
Factors == [totp : Epochs, passkey : Epochs, paired : SUBSET Devices, approver : [Devices -> Epochs],
            push : BOOLEAN, codes : BOOLEAN]

TypeOK ==
    /\ sess \in [Sessions -> {"new", "live", "gone"}]
    /\ chal \in [Tickets -> ChalRows]
    /\ grant \in [Tickets -> GrantRows]
    /\ req \in [Requests -> ReqRows]
    /\ factor \in Factors
    /\ pairing \in Epochs
    /\ ceremony \in BOOLEAN
    /\ spent \in [Tickets -> Nat]
    /\ epoch \in 1..MaxResets + 1
    /\ since \in [Sessions -> Epochs]
    /\ \A t \in Tickets : grant[t].st = "live" => sess[grant[t].for.s] = "live" /\ chal[t].st # "live"

\* An account with an authenticator, or with its phones paired, and no session yet.
Init ==
    /\ sess = [s \in Sessions |-> "new"]
    /\ chal = [t \in Tickets |-> [st |-> "none", for |-> NoHolder, method |-> "none", phone |-> "pending", attempts |-> 0]]
    /\ grant = [t \in Tickets |-> [st |-> "none", for |-> NoHolder]]
    /\ req = [r \in Requests |-> NoReq]
    /\ factor \in {[totp |-> 1, passkey |-> 0, paired |-> {}, approver |-> [d \in Devices |-> 0],
                    push |-> FALSE, codes |-> TRUE],
                   [totp |-> 0, passkey |-> 0, paired |-> Devices, approver |-> [d \in Devices |-> 1],
                    push |-> Devices # {}, codes |-> FALSE]}
    /\ pairing = 0
    /\ ceremony = FALSE
    /\ spent = [t \in Tickets |-> 0]
    /\ epoch = 1
    /\ since = [s \in Sessions |-> 0]
-----------------------------------------------------------------------------
(* What the transactions share. *)

\* step_up rows of the sessions in S end: marked used, or gone with the session.
Burned(S) ==
    /\ chal' = [t \in Tickets |-> IF chal[t].st = "live" /\ chal[t].for.s \in S THEN [chal[t] EXCEPT !.st = "used"] ELSE chal[t]]
    /\ grant' = [t \in Tickets |-> IF grant[t].st = "live" /\ grant[t].for.s \in S THEN [grant[t] EXCEPT !.st = "used"] ELSE grant[t]]

\* revokeSessionsTx and revokeSessionGrantsTx
RevokeSessions(S) ==
    /\ sess' = [s \in Sessions |-> IF s \in S /\ sess[s] = "live" THEN "gone" ELSE sess[s]]
    /\ Burned(S)

\* A sign-in, by the password and whatever second factor there is (see SignIn).
Login(s) ==
    /\ sess[s] = "new"
    /\ sess' = [sess EXCEPT ![s] = "live"]
    /\ since' = [since EXCEPT ![s] = epoch]
    /\ UNCHANGED <<chal, grant, req, factor, pairing, ceremony, spent, epoch>>

\* A logout, or the session expires.
Logout(s) ==
    /\ sess[s] = "live"
    /\ RevokeSessions({s})
    /\ UNCHANGED <<req, factor, pairing, ceremony, spent, epoch, since>>

\* RevokeOthers, by the user from one session.
RevokeOthers(s) ==
    /\ sess[s] = "live"
    /\ RevokeSessions(Sessions \ {s})
    /\ UNCHANGED <<req, factor, pairing, ceremony, spent, epoch, since>>

\* enrolled_factors: the phones that may approve.
Approvers(f) == {d \in Devices : f.approver[d] # 0}

\* stepUpMethods: the factors on offer for an operation.
RecoveryOperation(op) == op \in {"totp", "passkey"}
StepUpMethods(op) ==
    LET enrolled == {m \in {"totp", "push", "webauthn"} :
                       \/ m = "totp" /\ factor.totp # 0
                       \/ m = "push" /\ factor.push
                       \/ m = "webauthn" /\ factor.passkey # 0}
    IN  enrolled \cup (IF enrolled # {} /\ RecoveryOperation(op) THEN {"recovery"} ELSE {})
-----------------------------------------------------------------------------
(* Proving. *)

\* RequestStepUp up to its write: the password is right and the method is one on offer.
RequestStepUp(r, s, op, t) ==
    /\ req[r] = NoReq /\ sess[s] = "live"
    /\ chal[t].st = "none" /\ grant[t].st = "none" /\ \A q \in Requests : req[q].ticket # t
    /\ \E m \in IF StepUpMethods(op) = {} THEN {"none"} ELSE StepUpMethods(op) :
          req' = [req EXCEPT ![r] = [NoReq EXCEPT !.at = "ask", !.for = [s |-> s, op |-> op],
                                                  !.ticket = t, !.method = m]]
    /\ UNCHANGED <<sess, chal, grant, factor, pairing, ceremony, spent, epoch, since>>

\* createStepUpTokenTx: the session must still be there.
CreateStepUpTokenTx(t, for) ==
    /\ sess[for.s] = "live"
    /\ grant' = [grant EXCEPT ![t] = [st |-> "live", for |-> for]]

\* ConsumeRecoveryCode, when that is the method; one code stands for the set.
ConsumeRecoveryCode(f, m) == [f EXCEPT !.codes = @ /\ m # "recovery"]

\* VerifyUserTOTP or VerifyAndConsumeRecoveryCode: a recovery code is spent before the
\* grant is made; the password alone proves an account without a factor.
ProveAtOnce(r) ==
    LET q == req[r]
    IN  /\ q.at = "ask" /\ q.method \in {"none", "totp", "recovery"}
        /\ q.method = "totp" => factor.totp # 0
        /\ q.method = "recovery" => factor.codes
        /\ factor' = ConsumeRecoveryCode(factor, q.method)
        /\ req' = [req EXCEPT ![r].at = "proved"]
        /\ UNCHANGED <<sess, chal, grant, pairing, ceremony, spent, epoch, since>>

\* CreateStepUpToken, or nothing when the session went meanwhile.
CreateStepUpToken(r) ==
    LET q == req[r]
    IN  /\ q.at = "proved"
        /\ \/ CreateStepUpTokenTx(q.ticket, q.for)
           \/ sess[q.for.s] # "live" /\ grant' = grant
        /\ req' = [req EXCEPT ![r] = NoReq]
        /\ UNCHANGED <<sess, chal, factor, pairing, ceremony, spent, epoch, since>>

\* CreateStepUpChallenge: the phone or the passkey is asked.
CreateStepUpChallenge(r) ==
    LET q == req[r]
    IN  /\ q.at = "ask" /\ q.method \in {"push", "webauthn"}
        /\ sess[q.for.s] = "live"
        /\ chal' = [chal EXCEPT ![q.ticket] = [st |-> "live", for |-> q.for, method |-> q.method,
                                               phone |-> "pending", attempts |-> 0]]
        /\ req' = [req EXCEPT ![r] = NoReq]
        /\ UNCHANGED <<sess, grant, factor, pairing, ceremony, spent, epoch, since>>

\* The request ends there: a wrong factor, a session that is gone, a ceremony that does not
\* verify, a refused change, a failure, a crash.
Abandon(r) ==
    /\ req[r].at # "idle"
    /\ req' = [req EXCEPT ![r] = NoReq]
    /\ UNCHANGED <<sess, chal, grant, factor, pairing, ceremony, spent, epoch, since>>

\* The phone answers the push challenge (see SignIn).
PhoneAnswers(t) ==
    /\ chal[t].method = "push" /\ chal[t].phone = "pending" /\ Approvers(factor) # {}
    /\ \E a \in {"approved", "refused"} : chal' = [chal EXCEPT ![t].phone = a]
    /\ UNCHANGED <<sess, grant, req, factor, pairing, ceremony, spent, epoch, since>>

\* GetStepUpChallenge
Usable(t) == chal[t].st = "live" /\ chal[t].attempts < MaxAttempts

\* FinishStepUp up to its write: the method is still enrolled, the phone approved or the
\* assertion verified.
FinishStepUp(r, t) ==
    /\ req[r] = NoReq
    /\ Usable(t) /\ sess[chal[t].for.s] = "live"
    /\ chal[t].method \in StepUpMethods(chal[t].for.op)
    /\ chal[t].method = "push" => chal[t].phone = "approved"
    /\ req' = [req EXCEPT ![r] = [NoReq EXCEPT !.at = "finish", !.for = chal[t].for, !.ticket = t]]
    /\ UNCHANGED <<sess, chal, grant, factor, pairing, ceremony, spent, epoch, since>>

\* FinishStepUp when the phone refused or the assertion is wrong.
FinishFails(t) ==
    /\ Usable(t) /\ sess[chal[t].for.s] = "live"
    /\ \/ chal[t].method = "push" /\ chal[t].phone = "refused" /\ chal' = [chal EXCEPT ![t].st = "used"]
       \/ chal[t].method = "webauthn" /\ chal' = [chal EXCEPT ![t].attempts = @ + 1]
    /\ UNCHANGED <<sess, grant, req, factor, pairing, ceremony, spent, epoch, since>>

\* The guard of CompleteStepUpChallenge.
Completes(t) == Usable(t)

\* CompleteStepUpChallenge: the challenge is spent and its grant made, or neither.
CompleteStepUpChallenge(r) ==
    LET q == req[r]
    IN  /\ q.at = "finish"
        /\ IF Completes(q.ticket) /\ sess[q.for.s] = "live"
           THEN CreateStepUpTokenTx(q.ticket, q.for) /\ chal' = [chal EXCEPT ![q.ticket].st = "used"]
           ELSE UNCHANGED <<chal, grant>>
        /\ req' = [req EXCEPT ![r] = NoReq]
        /\ UNCHANGED <<sess, factor, pairing, ceremony, spent, epoch, since>>

\* Only the ticket's own session cancels it.
MayCancel(t) ==
    \/ chal[t].st = "live" /\ sess[chal[t].for.s] = "live"
    \/ grant[t].st = "live"

\* CancelStepUp: both rows, whichever there is.
CancelStepUp(t) ==
    /\ MayCancel(t)
    /\ chal' = [chal EXCEPT ![t].st = IF @ = "live" THEN "used" ELSE @]
    /\ grant' = [grant EXCEPT ![t].st = IF @ = "live" THEN "used" ELSE @]
    /\ UNCHANGED <<sess, req, factor, pairing, ceremony, spent, epoch, since>>

\* The ticket's five minutes pass.
StepUpLapses(t) ==
    /\ \/ chal[t].st = "live" /\ chal' = [chal EXCEPT ![t].st = "used"] /\ grant' = grant
       \/ grant[t].st = "live" /\ grant' = [grant EXCEPT ![t].st = "used"] /\ chal' = chal
    /\ UNCHANGED <<sess, req, factor, pairing, ceremony, spent, epoch, since>>
-----------------------------------------------------------------------------
(* The changes. *)

HasValidStepUpToken(t, op) == grant[t].st = "live" /\ grant[t].for.op = op

\* BeginRegistration: the ticket is checked, not spent; a ceremony is opened.
BeginRegistration(t) ==
    /\ HasValidStepUpToken(t, "passkey")
    /\ ceremony' = TRUE
    /\ UNCHANGED <<sess, chal, grant, req, factor, pairing, spent, epoch, since>>

\* Mutant of Consumed: the grant is checked and stays live.
ConsumedNotMarked(t) == grant

\* The used_at that ConsumeStepUpToken sets.
Consumed(t) == [grant EXCEPT ![t].st = "used"]

\* ConsumeStepUpToken: the handler's own session and operation.
ConsumeStepUpToken(r, t, s, op) ==
    /\ req[r] = NoReq
    /\ grant[t].st = "live" /\ grant[t].for = [s |-> s, op |-> op]
    /\ sess[s] = "live"
    /\ grant' = Consumed(t)
    /\ req' = [req EXCEPT ![r] = [NoReq EXCEPT !.at = "change", !.for = grant[t].for]]
    /\ spent' = [spent EXCEPT ![t] = @ + 1]
    /\ UNCHANGED <<sess, chal, factor, pairing, ceremony, epoch, since>>

Changing(r, op) == req[r].at = "change" /\ req[r].for.op = op

\* History: the epoch of the session behind a change; one overtaken by a reset counts for
\* the epoch it lands in.
Proof(r) == IF req[r].early THEN epoch ELSE since[req[r].for.s]

SetMFAMethod(f, p) == [f EXCEPT !.totp = p]

\* EnableTOTP: the secret, its recovery codes and the end of the other
\* sessions are three transactions.
EnableTOTP(r) ==
    /\ Changing(r, "totp")
    /\ factor' = SetMFAMethod(factor, Proof(r))
    /\ req' = [req EXCEPT ![r].at = "codes"]
    /\ UNCHANGED <<sess, chal, grant, pairing, ceremony, spent, epoch, since>>

ReplaceRecoveryCodes(f) == [f EXCEPT !.codes = TRUE]

\* GenerateRecoveryCodes, for EnableTOTP or by itself.
GenerateRecoveryCodes(r) ==
    /\ req[r].at = "codes" \/ Changing(r, "codes")
    /\ factor' = ReplaceRecoveryCodes(factor)
    /\ req' = [req EXCEPT ![r] = IF @.at = "codes" THEN [@ EXCEPT !.at = "revoke"] ELSE NoReq]
    /\ UNCHANGED <<sess, chal, grant, pairing, ceremony, spent, epoch, since>>

\* RevokeOtherSessions, the last step of EnableTOTP.
RevokeOtherSessions(r) ==
    /\ req[r].at = "revoke"
    /\ RevokeSessions(Sessions \ {req[r].for.s})
    /\ req' = [req EXCEPT ![r] = NoReq]
    /\ UNCHANGED <<factor, pairing, ceremony, spent, epoch, since>>

ConsumeWebAuthnChallenge == ceremony /\ ceremony' = FALSE

\* FinishRegistration up to the write: the ceremony is redeemed once, whatever comes of it.
FinishRegistration(r) ==
    /\ Changing(r, "passkey") /\ ConsumeWebAuthnChallenge
    /\ req' = [req EXCEPT ![r].at = "verified"]
    /\ UNCHANGED <<sess, chal, grant, factor, pairing, spent, epoch, since>>

\* CreateWebAuthnCredential
CreateWebAuthnCredential(r) ==
    /\ req[r].at = "verified"
    /\ factor' = [factor EXCEPT !.passkey = Proof(r)]
    /\ req' = [req EXCEPT ![r] = NoReq]
    /\ UNCHANGED <<sess, chal, grant, pairing, ceremony, spent, epoch, since>>

DeleteWebAuthnCredential(f) == [f EXCEPT !.passkey = 0]

\* DeletePasskey, unless it is the last factor a policy allows (see Enrollment).
DeletePasskey(r) ==
    /\ Changing(r, "unpasskey") /\ factor.passkey # 0
    /\ factor' = DeleteWebAuthnCredential(factor)
    /\ req' = [req EXCEPT ![r] = NoReq]
    /\ UNCHANGED <<sess, chal, grant, pairing, ceremony, spent, epoch, since>>

\* CreateDevicePairingToken; one row stands for the account's outstanding ones.
CreateDevicePairingToken(p) == pairing' = p

GenerateDevicePairingToken(r) ==
    /\ Changing(r, "pair")
    /\ CreateDevicePairingToken(Proof(r))
    /\ req' = [req EXCEPT ![r] = NoReq]
    /\ UNCHANGED <<sess, chal, grant, factor, ceremony, spent, epoch, since>>

\* RegisterNativeDeviceWithPairingToken: the phone, new or paired before, may approve and
\* push is a method.
Registered(f, d, p) ==
    [f EXCEPT !.paired = @ \cup {d}, !.approver[d] = p, !.push = TRUE]

\* RegisterNativeDevice: the token is spent with the enrolment.
RegisterNativeDevice(d) ==
    /\ pairing # 0
    /\ pairing' = 0
    /\ factor' = Registered(factor, d, pairing)
    /\ UNCHANGED <<sess, chal, grant, req, ceremony, spent, epoch, since>>

\* MatchDevicePairingPIN at its budget, or ninety seconds pass.
PairingLapses ==
    /\ pairing # 0
    /\ pairing' = 0
    /\ UNCHANGED <<sess, chal, grant, req, factor, ceremony, spent, epoch, since>>

\* Mutant of SyncPushMethod: the method row is added and never taken away.
SyncPushMethodAdds(f) == [f EXCEPT !.push = @ \/ Approvers(f) # {}]

\* syncPushMethodTx: push is a method exactly while a phone that may approve remains.
SyncPushMethod(f) == [f EXCEPT !.push = Approvers(f) # {}]

\* changeEnrollmentDevice: unless it takes the last factor a policy allows (see Enrollment).
ChangeEnrollmentDevice(r, f) ==
    /\ factor' = SyncPushMethod(f)
    /\ req' = [req EXCEPT ![r] = NoReq]
    /\ UNCHANGED <<sess, chal, grant, pairing, ceremony, spent, epoch, since>>

DeleteUserDevice(r) ==
    /\ Changing(r, "device")
    /\ \E d \in factor.paired : ChangeEnrollmentDevice(r, [factor EXCEPT !.paired = @ \ {d}, !.approver[d] = 0])

SetDeviceMFAApprover(r) ==
    /\ Changing(r, "device")
    /\ \E d \in factor.paired, p \in {0, Proof(r)} : ChangeEnrollmentDevice(r, [factor EXCEPT !.approver[d] = p])

\* Mutant of PairingAfterReset: an outstanding pairing survives.
PairingSurvives == pairing

\* revokeUserAccessTx expires the pairing tokens.
PairingAfterReset == 0

\* ResetUserMFA: every factor goes, and with them sessions, grants and pairings.
ResetUserMFA ==
    /\ epoch <= MaxResets
    /\ factor' = [factor EXCEPT !.totp = 0, !.passkey = 0, !.codes = FALSE, !.push = FALSE,
                               !.approver = [d \in Devices |-> 0]]
    /\ RevokeSessions(Sessions)
    /\ pairing' = PairingAfterReset
    /\ epoch' = epoch + 1
    /\ req' = [r \in Requests |-> IF req[r].at \in {"change", "codes", "verified"} THEN [req[r] EXCEPT !.early = TRUE] ELSE req[r]]
    /\ UNCHANGED <<ceremony, spent, since>>

\* RevokeUserAccess, by an administrator.
RevokeUserAccess ==
    /\ RevokeSessions(Sessions)
    /\ pairing' = 0
    /\ UNCHANGED <<req, factor, ceremony, spent, epoch, since>>
-----------------------------------------------------------------------------
Next ==
    \/ \E s \in Sessions : Login(s) \/ Logout(s) \/ RevokeOthers(s)
    \/ \E r \in Requests, s \in Sessions, op \in Ops, t \in Tickets :
          RequestStepUp(r, s, op, t) \/ ConsumeStepUpToken(r, t, s, op)
    \/ \E r \in Requests : \/ ProveAtOnce(r) \/ CreateStepUpToken(r) \/ CreateStepUpChallenge(r) \/ Abandon(r)
                           \/ CompleteStepUpChallenge(r) \/ EnableTOTP(r) \/ GenerateRecoveryCodes(r)
                           \/ RevokeOtherSessions(r) \/ FinishRegistration(r)
                           \/ CreateWebAuthnCredential(r) \/ DeletePasskey(r)
                           \/ GenerateDevicePairingToken(r) \/ DeleteUserDevice(r) \/ SetDeviceMFAApprover(r)
    \/ \E r \in Requests, t \in Tickets : FinishStepUp(r, t)
    \/ \E t \in Tickets : PhoneAnswers(t) \/ FinishFails(t) \/ CancelStepUp(t) \/ StepUpLapses(t) \/ BeginRegistration(t)
    \/ \E d \in Devices : RegisterNativeDevice(d)
    \/ PairingLapses \/ ResetUserMFA \/ RevokeUserAccess

Spec == Init /\ [][Next]_vars
-----------------------------------------------------------------------------
(* Properties. *)

\* What a ticket is worth, by its rows in the two tables; what its grant was used for is known
\* by how many operations it authorised.
TicketState(t) ==
    CASE grant[t].st = "live" -> "granted"
      [] grant[t].st # "live" /\ chal[t].st = "live" -> "asked"
      [] grant[t].st = "none" /\ chal[t].st = "none" -> "unissued"
      [] OTHER -> IF spent[t] # 0 THEN "spent" ELSE "void"
TicketHolder(t) == IF grant[t].st # "none" THEN grant[t].for ELSE chal[t].for

Ticket == INSTANCE SingleUse WITH
    state <- [t \in Tickets |-> TicketState(t)], holder <- [t \in Tickets |-> TicketHolder(t)], uses <- spent

\* One re-authentication authorises one change, for the session and the operation it was
\* asked for: however requests overlap, a challenge completes at most once, a cancelled,
\* lapsed or revoked one never does, and a grant that was spent is neither spent again nor
\* replaced.
OneChangePerTicket == Ticket!Spec

\* Push is an offered factor exactly while some paired device may answer it: a reset, a
\* re-pairing or a device change never leaves an account asking a phone that cannot approve.
PushFollowsDevice == factor.push <=> Approvers(factor) # {}

\* After a reset nothing that was enrolled, or is about to be by an outstanding pairing, rests
\* on a session from before it, the requests it overtook after their ticket aside.
ResetStands ==
    /\ {factor.totp, factor.passkey, pairing} \subseteq {0, epoch}
    /\ \A d \in Approvers(factor) : factor.approver[d] = epoch
=============================================================================
