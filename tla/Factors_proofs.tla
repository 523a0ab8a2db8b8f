--------------------------- MODULE Factors_proofs ---------------------------
(***************************************************************************)
(* Proofs about an account's factors and what they allow: StepUp (step-up  *)
(* tickets, the factors they change, and that the two step-up tables       *)
(* implement SingleUse), for any sessions, tickets, phones and requests    *)
(* and any number of resets; and DeviceSignOn (a phone's assertion         *)
(* exchanged for a token), for any number of exchanges, assertions, keys,  *)
(* policy edits and instants.                                              *)
(***************************************************************************)
EXTENDS StepUp, DeviceSignOn, TLAPS


-----------------------------------------------------------------------------
(* StepUp: the inductive invariant. *)

\* No row was written for a ticket yet.
Fresh(t) == chal[t].st = "none" /\ grant[t].st = "none"

\* The two tables: live rows belong to live sessions, a challenge is open only before its grant,
\* both name one holder, and a ticket that authorised a change has its grant used.
Rows ==
    \A t \in Tickets :
       /\ grant[t].st = "live" => grant[t].for.s \in Sessions
       /\ chal[t].st = "live" => /\ chal[t].for.s \in Sessions /\ sess[chal[t].for.s] = "live"
                                 /\ grant[t].st = "none"
       /\ chal[t].st = "none" => chal[t].for = NoHolder
       /\ chal[t].st # "none" /\ grant[t].st # "none" => grant[t].for = chal[t].for
       /\ spent[t] # 0 => grant[t].st = "used"

\* A request that has not written holds a ticket of its own; one about to complete a challenge
\* holds that challenge's.
Held(r) ==
    /\ req[r].at # "idle" => req[r].for.s \in Sessions
    /\ req[r].at \in {"ask", "proved"} =>
          /\ req[r].ticket \in Tickets /\ Fresh(req[r].ticket)
          /\ \A q \in Requests \ {r} : req[q].ticket # req[r].ticket
    /\ req[r].at = "finish" =>
          /\ req[r].ticket \in Tickets
          /\ chal[req[r].ticket].st # "none" /\ chal[req[r].ticket].for = req[r].for
    /\ req[r].at \notin {"ask", "proved", "finish"} => req[r].ticket = NoTicket

ReqOk == \A r \in Requests : Held(r)

\* Live sessions, and changes that no reset overtook, are of this epoch.
Current ==
    /\ \A s \in Sessions : sess[s] = "live" => since[s] = epoch
    /\ \A r \in Requests : req[r].at \in {"change", "codes", "verified"} /\ ~req[r].early
                              => since[req[r].for.s] = epoch

IInv == TypeOK /\ Rows /\ ReqOk /\ Current /\ PushFollowsDevice /\ ResetStands

\* The invariant holds initially.
LEMMA StepUpInit == Init => IInv
<1> SUFFICES ASSUME Init PROVE IInv
  OBVIOUS
<1> USE StepUpAssumption DEF Init
<1>1. NoHolder \in Holders /\ NoReq \in ReqRows
  BY DEF NoHolder, Holders, Ops, NoReq, ReqRows, Methods
<1>2. /\ factor.totp \in {0, 1} /\ factor.passkey = 0 /\ factor.codes \in BOOLEAN /\ factor.push \in BOOLEAN
      /\ factor.approver \in [Devices -> {0, 1}] /\ factor.paired \in SUBSET Devices
      /\ factor \in Factors
  <2>1. CASE factor = [totp |-> 1, passkey |-> 0, paired |-> {}, approver |-> [d \in Devices |-> 0],
                       push |-> FALSE, codes |-> TRUE]
    BY <2>1 DEF Factors, Epochs
  <2>2. CASE factor = [totp |-> 0, passkey |-> 0, paired |-> Devices, approver |-> [d \in Devices |-> 1],
                       push |-> Devices # {}, codes |-> FALSE]
    <3>1. 0 \in Epochs /\ 1 \in Epochs
      BY DEF Epochs
    <3>2. [d \in Devices |-> 1] \in [Devices -> Epochs] /\ (Devices # {}) \in BOOLEAN
      BY <3>1
    <3> QED BY <2>2, <3>1, <3>2, Zenon DEF Factors
  <2> QED BY <2>1, <2>2
<1>3. /\ chal \in [Tickets -> ChalRows] /\ grant \in [Tickets -> GrantRows]
      /\ req \in [Requests -> ReqRows]
  BY <1>1 DEF ChalRows, GrantRows, RowStates, Methods
<1>4. TypeOK
  <2>1. 0 \in Epochs /\ 1 \in 1..MaxResets + 1
    BY DEF Epochs
  <2> QED BY <1>2, <1>3, <2>1 DEF TypeOK
<1>5. Rows
  BY DEF Rows
<1>6. ReqOk
  BY DEF ReqOk, Held, NoReq
<1>7. Current
  BY DEF Current, NoReq
<1>8. PushFollowsDevice
  <2>1. CASE factor = [totp |-> 1, passkey |-> 0, paired |-> {}, approver |-> [d \in Devices |-> 0],
                       push |-> FALSE, codes |-> TRUE]
    BY <2>1 DEF PushFollowsDevice, Approvers
  <2>2. CASE factor = [totp |-> 0, passkey |-> 0, paired |-> Devices, approver |-> [d \in Devices |-> 1],
                       push |-> Devices # {}, codes |-> FALSE]
    <3>1. Approvers(factor) = Devices
      BY <2>2 DEF Approvers
    <3>2. factor.push <=> Devices # {}
      BY <2>2, Zenon
    <3> QED BY <3>1, <3>2 DEF PushFollowsDevice
  <2> QED BY <2>1, <2>2
<1>9. ResetStands
  BY <1>2 DEF ResetStands, Approvers
<1> QED BY <1>4, <1>5, <1>6, <1>7, <1>8, <1>9 DEF IInv
-----------------------------------------------------------------------------
(* Sessions end. *)

\* The rows of the sessions in S end and no other; holders and unwritten rows stay.
LEMMA BurnedRows ==
    ASSUME TypeOK, NEW S, Burned(S)
    PROVE  /\ chal' \in [Tickets -> ChalRows] /\ grant' \in [Tickets -> GrantRows]
           /\ \A t \in Tickets :
                 /\ chal'[t].for = chal[t].for /\ grant'[t].for = grant[t].for
                 /\ chal'[t].method = chal[t].method
                 /\ chal'[t].st = IF chal[t].st = "live" /\ chal[t].for.s \in S THEN "used" ELSE chal[t].st
                 /\ grant'[t].st = IF grant[t].st = "live" /\ grant[t].for.s \in S THEN "used" ELSE grant[t].st
<1>1. chal \in [Tickets -> ChalRows] /\ grant \in [Tickets -> GrantRows]
  BY DEF TypeOK
<1>2. /\ chal' \in [Tickets -> ChalRows]
      /\ \A t \in Tickets :
            /\ chal'[t].for = chal[t].for /\ chal'[t].method = chal[t].method
            /\ chal'[t].st = IF chal[t].st = "live" /\ chal[t].for.s \in S THEN "used" ELSE chal[t].st
  <2> DEFINE c(t) == IF chal[t].st = "live" /\ chal[t].for.s \in S THEN [chal[t] EXCEPT !.st = "used"] ELSE chal[t]
  <2>1. chal' = [t \in Tickets |-> c(t)]
    BY DEF Burned
  <2>2. ASSUME NEW t \in Tickets
        PROVE  /\ c(t) \in ChalRows /\ c(t).for = chal[t].for /\ c(t).method = chal[t].method
               /\ c(t).st = IF chal[t].st = "live" /\ chal[t].for.s \in S THEN "used" ELSE chal[t].st
    BY <1>1 DEF ChalRows, RowStates
  <2> HIDE DEF c
  <2> QED BY <2>1, <2>2
<1>3. /\ grant' \in [Tickets -> GrantRows]
      /\ \A t \in Tickets :
            /\ grant'[t].for = grant[t].for
            /\ grant'[t].st = IF grant[t].st = "live" /\ grant[t].for.s \in S THEN "used" ELSE grant[t].st
  <2> DEFINE g(t) == IF grant[t].st = "live" /\ grant[t].for.s \in S THEN [grant[t] EXCEPT !.st = "used"] ELSE grant[t]
  <2>1. grant' = [t \in Tickets |-> g(t)]
    BY DEF Burned
  <2>2. ASSUME NEW t \in Tickets
        PROVE  /\ g(t) \in GrantRows /\ g(t).for = grant[t].for
               /\ g(t).st = IF grant[t].st = "live" /\ grant[t].for.s \in S THEN "used" ELSE grant[t].st
    BY <1>1 DEF GrantRows, RowStates
  <2> HIDE DEF g
  <2> QED BY <2>1, <2>2
<1> QED BY <1>2, <1>3

\* revokeSessionsTx keeps the tables in order.
LEMMA RevokeKeepsRows ==
    ASSUME TypeOK, Rows, NEW S, RevokeSessions(S), spent' = spent
    PROVE  /\ sess' \in [Sessions -> {"new", "live", "gone"}]
           /\ chal' \in [Tickets -> ChalRows] /\ grant' \in [Tickets -> GrantRows]
           /\ Rows'
           /\ \A t \in Tickets : grant'[t].st = "live" => sess'[grant'[t].for.s] = "live" /\ chal'[t].st # "live"
           /\ \A t \in Tickets : /\ chal'[t].for = chal[t].for
                                 /\ (chal'[t].st = "none") = (chal[t].st = "none")
                                 /\ (grant'[t].st = "none") = (grant[t].st = "none")
           /\ \A s \in Sessions : sess'[s] = "live" => sess[s] = "live" /\ s \notin S
<1>1. Burned(S) /\ sess' = [s \in Sessions |-> IF s \in S /\ sess[s] = "live" THEN "gone" ELSE sess[s]]
  BY DEF RevokeSessions
<1>2. /\ chal' \in [Tickets -> ChalRows] /\ grant' \in [Tickets -> GrantRows]
      /\ \A t \in Tickets :
            /\ chal'[t].for = chal[t].for /\ grant'[t].for = grant[t].for
            /\ chal'[t].st = IF chal[t].st = "live" /\ chal[t].for.s \in S THEN "used" ELSE chal[t].st
            /\ grant'[t].st = IF grant[t].st = "live" /\ grant[t].for.s \in S THEN "used" ELSE grant[t].st
  BY <1>1, BurnedRows
<1>3. sess' \in [Sessions -> {"new", "live", "gone"}]
  BY <1>1 DEF TypeOK
<1>4. \A s \in Sessions : /\ sess'[s] = "live" => sess[s] = "live" /\ s \notin S
                          /\ sess[s] = "live" /\ s \notin S => sess'[s] = "live"
  BY <1>1 DEF TypeOK
<1>5. Rows'
  BY <1>2, <1>4 DEF Rows, TypeOK
<1>6. \A t \in Tickets : grant'[t].st = "live" => sess'[grant'[t].for.s] = "live" /\ chal'[t].st # "live"
  BY <1>2, <1>4 DEF Rows, TypeOK
<1> QED BY <1>2, <1>3, <1>4, <1>5, <1>6

\* Requests that are not touched stay in order while no row is made or loses its holder.
LEMMA HeldStays ==
    ASSUME ReqOk, req' = req,
           \A t \in Tickets : /\ chal'[t].for = chal[t].for
                              /\ (chal'[t].st = "none") = (chal[t].st = "none")
                              /\ (grant'[t].st = "none") = (grant[t].st = "none")
    PROVE  ReqOk'
  BY DEF ReqOk, Held, Fresh

\* Logout, RevokeOthers and RevokeUserAccess.
LEMMA RevocationKeeps ==
    ASSUME IInv, NEW S, RevokeSessions(S), pairing' \in {pairing, 0},
           UNCHANGED <<req, factor, ceremony, spent, epoch, since>>
    PROVE  IInv'
<1> USE DEF IInv
<1>1. /\ sess' \in [Sessions -> {"new", "live", "gone"}]
      /\ chal' \in [Tickets -> ChalRows] /\ grant' \in [Tickets -> GrantRows]
      /\ Rows'
      /\ \A t \in Tickets : grant'[t].st = "live" => sess'[grant'[t].for.s] = "live" /\ chal'[t].st # "live"
      /\ \A t \in Tickets : /\ chal'[t].for = chal[t].for
                            /\ (chal'[t].st = "none") = (chal[t].st = "none")
                            /\ (grant'[t].st = "none") = (grant[t].st = "none")
      /\ \A s \in Sessions : sess'[s] = "live" => sess[s] = "live" /\ s \notin S
  BY RevokeKeepsRows
<1>2. pairing' \in Epochs
  BY StepUpAssumption DEF TypeOK, Epochs
<1>3. TypeOK'
  BY <1>1, <1>2 DEF TypeOK
<1>4. ReqOk'
  BY <1>1, HeldStays
<1>5. Current'
  BY <1>1 DEF Current
<1>6. PushFollowsDevice' /\ ResetStands'
  BY DEF PushFollowsDevice, ResetStands, Approvers
<1> QED BY <1>1, <1>3, <1>4, <1>5, <1>6

\* A sign-in.
LEMMA LoginKeeps ==
    ASSUME IInv, NEW s \in Sessions, Login(s)
    PROVE  IInv'
<1> USE DEF IInv, Login
<1>1. epoch \in Epochs
  BY StepUpAssumption DEF TypeOK, Epochs
<1>2. TypeOK'
  BY <1>1 DEF TypeOK
<1>3. Rows'
  BY DEF Rows, TypeOK
<1>4. ReqOk'
  BY DEF ReqOk, Held, Fresh
<1>5. Current'
  <2>1. \A x \in Sessions : sess'[x] = "live" => since'[x] = epoch'
    BY DEF TypeOK, Current
  <2>2. \A r \in Requests : req[r].at \in {"change", "codes", "verified"} /\ ~req[r].early
                              => since'[req[r].for.s] = epoch
    BY DEF TypeOK, Current, ReqOk, Held
  <2> QED BY <2>1, <2>2 DEF Current
<1>6. PushFollowsDevice' /\ ResetStands'
  BY DEF PushFollowsDevice, ResetStands, Approvers
<1> QED BY <1>2, <1>3, <1>4, <1>5, <1>6

\* An administrator's reset.
LEMMA ResetKeeps ==
    ASSUME IInv, ResetUserMFA
    PROVE  IInv'
<1> USE DEF IInv
<1>1. /\ sess' \in [Sessions -> {"new", "live", "gone"}]
      /\ chal' \in [Tickets -> ChalRows] /\ grant' \in [Tickets -> GrantRows]
      /\ Rows'
      /\ \A t \in Tickets : grant'[t].st = "live" => sess'[grant'[t].for.s] = "live" /\ chal'[t].st # "live"
      /\ \A t \in Tickets : /\ chal'[t].for = chal[t].for
                            /\ (chal'[t].st = "none") = (chal[t].st = "none")
                            /\ (grant'[t].st = "none") = (grant[t].st = "none")
      /\ \A s \in Sessions : sess'[s] = "live" => sess[s] = "live" /\ s \notin Sessions
  BY RevokeKeepsRows DEF ResetUserMFA
<1>2. /\ factor' = [factor EXCEPT !.totp = 0, !.passkey = 0, !.codes = FALSE, !.push = FALSE,
                                  !.approver = [d \in Devices |-> 0]]
      /\ pairing' = 0 /\ epoch' = epoch + 1 /\ epoch <= MaxResets
      /\ ceremony' = ceremony /\ spent' = spent /\ since' = since
  BY DEF ResetUserMFA, PairingAfterReset
<1>3. /\ req' \in [Requests -> ReqRows]
      /\ \A r \in Requests : /\ req'[r].at = req[r].at /\ req'[r].for = req[r].for
                             /\ req'[r].ticket = req[r].ticket
                             /\ req[r].at \in {"change", "codes", "verified"} => req'[r].early
  BY ZenonT(30) DEF ResetUserMFA, TypeOK, ReqRows
<1>4. /\ factor' \in Factors /\ factor'.totp = 0 /\ factor'.passkey = 0 /\ factor'.push = FALSE
      /\ \A d \in Devices : factor'.approver[d] = 0
  <2>1. 0 \in Epochs
    BY StepUpAssumption DEF Epochs
  <2> QED BY <1>2, <2>1 DEF TypeOK, Factors
<1>5. epoch' \in 1..MaxResets + 1 /\ pairing' \in Epochs
  BY <1>2, StepUpAssumption DEF TypeOK, Epochs
<1>6. TypeOK'
  BY <1>1, <1>2, <1>3, <1>4, <1>5 DEF TypeOK
<1>7. ReqOk'
  BY <1>1, <1>3 DEF ReqOk, Held, Fresh
<1>8. Current'
  BY <1>1, <1>3 DEF Current
<1>9. PushFollowsDevice'
  BY <1>4 DEF PushFollowsDevice, Approvers
<1>10. ResetStands'
  BY <1>2, <1>4 DEF ResetStands, Approvers
<1> QED BY <1>1, <1>6, <1>7, <1>8, <1>9, <1>10
-----------------------------------------------------------------------------
(* The changes. *)

\* How a request moves when it writes no row: it ends, its factor was right, or its change is
\* one transaction further.
Moved(old, new) ==
    \/ new = NoReq
    \/ old.at = "ask" /\ new = [old EXCEPT !.at = "proved"]
    \/ /\ old.at \in {"change", "codes", "verified"}
       /\ \E a \in {"codes", "verified", "revoke"} : new = [old EXCEPT !.at = a]

\* Such a move keeps the tables and the requests in order.
LEMMA MovedKeeps ==
    ASSUME IInv, NEW r \in Requests, NEW new, req' = [req EXCEPT ![r] = new], Moved(req[r], new),
           UNCHANGED <<sess, chal, grant, spent, epoch, since>>
    PROVE  /\ req' \in [Requests -> ReqRows]
           /\ Rows' /\ ReqOk' /\ Current'
<1> USE DEF IInv
<1>1. NoReq \in ReqRows
  BY StepUpAssumption DEF NoReq, ReqRows, NoHolder, Holders, Ops, Methods
<1>2. new \in ReqRows
  BY <1>1 DEF Moved, TypeOK, ReqRows
<1>3. req' \in [Requests -> ReqRows] /\ req'[r] = new /\ \A q \in Requests \ {r} : req'[q] = req[q]
  BY <1>2 DEF TypeOK
<1>4. /\ new.ticket \in {req[r].ticket, NoTicket}
      /\ new.at = "idle" => new.ticket = NoTicket
      /\ new.at # "idle" => /\ new.for = req[r].for /\ new.ticket = req[r].ticket /\ new.early = req[r].early
                            /\ req[r].at # "idle"
      /\ new.at \in {"ask", "proved"} => req[r].at \in {"ask", "proved"}
      /\ new.at # "finish"
      /\ new.at \notin {"idle", "ask", "proved"} => req[r].at \in {"change", "codes", "verified"}
  BY DEF Moved, NoReq, TypeOK, ReqRows
<1>5. Rows'
  BY DEF Rows
<1>6. ReqOk'
  <2> SUFFICES ASSUME NEW q \in Requests PROVE Held(q)'
    BY DEF ReqOk
  <2>1. Held(q) /\ Held(r)
    BY DEF ReqOk
  <2>2. CASE q = r
    BY <1>3, <1>4, <2>1, <2>2 DEF Held, Fresh
  <2>3. CASE q # r
    BY <1>3, <1>4, <2>1, <2>3, StepUpAssumption DEF Held, Fresh
  <2> QED BY <2>2, <2>3
<1>7. Current'
  BY <1>3, <1>4 DEF Current
<1> QED BY <1>3, <1>5, <1>6, <1>7

\* What the factors need.
FactorOk == factor \in Factors /\ pairing \in Epochs /\ PushFollowsDevice /\ ResetStands

\* A change of the factors by a request that moves.
LEMMA FactorKeeps ==
    ASSUME IInv, NEW r \in Requests, NEW new, req' = [req EXCEPT ![r] = new], Moved(req[r], new),
           UNCHANGED <<sess, chal, grant, spent, epoch, since>>, ceremony' \in BOOLEAN, FactorOk'
    PROVE  IInv'
<1>1. req' \in [Requests -> ReqRows] /\ Rows' /\ ReqOk' /\ Current'
  BY MovedKeeps
<1>2. TypeOK'
  BY <1>1 DEF IInv, TypeOK, FactorOk
<1> QED BY <1>1, <1>2 DEF IInv, FactorOk

\* A change is by a session of this epoch.
LEMMA ProofIsCurrent ==
    ASSUME IInv, NEW r \in Requests, req[r].at \in {"change", "codes", "verified"}
    PROVE  Proof(r) = epoch /\ epoch \in Epochs /\ epoch # 0
<1>1. epoch \in Epochs /\ epoch # 0
  BY StepUpAssumption DEF IInv, TypeOK, Epochs
<1>2. req[r].early \in BOOLEAN
  BY DEF IInv, TypeOK, ReqRows
<1> QED BY <1>1, <1>2 DEF IInv, Current, Proof

\* Factors that differ in nothing a phone or a reset is about.
LEMMA FactorSame ==
    ASSUME IInv, factor' \in Factors, factor'.push = factor.push, factor'.approver = factor.approver,
           factor'.totp \in {factor.totp, 0, epoch}, factor'.passkey \in {factor.passkey, 0, epoch},
           pairing' \in {pairing, 0, epoch}, epoch' = epoch
    PROVE  FactorOk'
<1>1. pairing' \in Epochs
  BY StepUpAssumption DEF IInv, TypeOK, Epochs
<1>2. Approvers(factor)' = Approvers(factor)
  BY DEF Approvers
<1>3. PushFollowsDevice'
  BY <1>2 DEF IInv, PushFollowsDevice
<1>4. ResetStands'
  BY <1>2 DEF IInv, ResetStands
<1> QED BY <1>1, <1>3, <1>4 DEF FactorOk

\* Requests that change authenticators, passkeys, codes or the pairing.
LEMMA ChangeKeeps ==
    ASSUME IInv, NEW r \in Requests,
           \/ ProveAtOnce(r) \/ Abandon(r) \/ EnableTOTP(r) \/ GenerateRecoveryCodes(r)
           \/ FinishRegistration(r) \/ CreateWebAuthnCredential(r) \/ DeletePasskey(r)
           \/ GenerateDevicePairingToken(r)
    PROVE  IInv'
<1> USE StepUpAssumption
<1>0. /\ factor \in Factors /\ epoch \in Epochs /\ 0 \in Epochs /\ ceremony \in BOOLEAN
      /\ req \in [Requests -> ReqRows]
  BY DEF IInv, TypeOK, Epochs
<1>1. CASE ProveAtOnce(r)
  <2>1. FactorOk'
    <3>1. /\ factor' = [factor EXCEPT !.codes = factor.codes /\ req[r].method # "recovery"]
          /\ (factor.codes /\ req[r].method # "recovery") \in BOOLEAN
      BY <1>0, <1>1 DEF ProveAtOnce, ConsumeRecoveryCode
    <3>2. factor' = [factor EXCEPT !.codes = TRUE] \/ factor' = [factor EXCEPT !.codes = FALSE]
      BY <3>1, Zenon
    <3>3. /\ factor' \in Factors /\ factor'.push = factor.push /\ factor'.approver = factor.approver
          /\ factor'.totp = factor.totp /\ factor'.passkey = factor.passkey
      BY <1>0, <3>2 DEF Factors
    <3> QED BY <1>1, <3>3, FactorSame DEF ProveAtOnce
  <2>2. req' = [req EXCEPT ![r] = [req[r] EXCEPT !.at = "proved"]]
    BY <1>0, <1>1 DEF ProveAtOnce
  <2>3. Moved(req[r], [req[r] EXCEPT !.at = "proved"])
    BY <1>1 DEF ProveAtOnce, Moved
  <2> QED BY <1>0, <1>1, <2>1, <2>2, <2>3, FactorKeeps DEF ProveAtOnce
<1>2. CASE Abandon(r)
  <2>1. FactorOk'
    BY <1>0, <1>2, FactorSame DEF Abandon
  <2> QED BY <1>0, <1>2, <2>1, FactorKeeps DEF Abandon, Moved
<1>3. CASE EnableTOTP(r)
  <2>1. Proof(r) = epoch
    BY <1>3, ProofIsCurrent DEF EnableTOTP, Changing
  <2>2. factor' = [factor EXCEPT !.totp = epoch]
    BY <1>3, <2>1 DEF EnableTOTP, SetMFAMethod
  <2>3. /\ factor' \in Factors /\ factor'.push = factor.push /\ factor'.approver = factor.approver
        /\ factor'.totp = epoch /\ factor'.passkey = factor.passkey
    BY <1>0, <2>2 DEF Factors
  <2>4. FactorOk'
    BY <1>3, <2>3, FactorSame DEF EnableTOTP
  <2>5. req' = [req EXCEPT ![r] = [req[r] EXCEPT !.at = "codes"]]
    BY <1>0, <1>3 DEF EnableTOTP
  <2>6. Moved(req[r], [req[r] EXCEPT !.at = "codes"])
    BY <1>3 DEF EnableTOTP, Changing, Moved
  <2> QED BY <1>0, <1>3, <2>4, <2>5, <2>6, FactorKeeps DEF EnableTOTP
<1>4. CASE GenerateRecoveryCodes(r)
  <2>1. factor' = [factor EXCEPT !.codes = TRUE]
    BY <1>4 DEF GenerateRecoveryCodes, ReplaceRecoveryCodes
  <2>2. /\ factor' \in Factors /\ factor'.push = factor.push /\ factor'.approver = factor.approver
        /\ factor'.totp = factor.totp /\ factor'.passkey = factor.passkey
    BY <1>0, <2>1 DEF Factors
  <2>3. FactorOk'
    BY <1>4, <2>2, FactorSame DEF GenerateRecoveryCodes
  <2> DEFINE new == IF req[r].at = "codes" THEN [req[r] EXCEPT !.at = "revoke"] ELSE NoReq
  <2>4. req' = [req EXCEPT ![r] = new]
    BY <1>0, <1>4 DEF GenerateRecoveryCodes
  <2>5. Moved(req[r], new)
    BY <1>4 DEF GenerateRecoveryCodes, Moved
  <2> HIDE DEF new
  <2> QED BY <1>0, <1>4, <2>3, <2>4, <2>5, FactorKeeps DEF GenerateRecoveryCodes
<1>5. CASE FinishRegistration(r)
  <2>1. FactorOk'
    BY <1>0, <1>5, FactorSame DEF FinishRegistration
  <2>2. req' = [req EXCEPT ![r] = [req[r] EXCEPT !.at = "verified"]]
    BY <1>0, <1>5 DEF FinishRegistration
  <2>3. Moved(req[r], [req[r] EXCEPT !.at = "verified"])
    BY <1>5 DEF FinishRegistration, Changing, Moved
  <2> QED BY <1>5, <2>1, <2>2, <2>3, FactorKeeps DEF FinishRegistration, ConsumeWebAuthnChallenge
<1>6. CASE CreateWebAuthnCredential(r)
  <2>1. Proof(r) = epoch
    BY <1>6, ProofIsCurrent DEF CreateWebAuthnCredential
  <2>2. factor' = [factor EXCEPT !.passkey = epoch]
    BY <1>6, <2>1 DEF CreateWebAuthnCredential
  <2>3. /\ factor' \in Factors /\ factor'.push = factor.push /\ factor'.approver = factor.approver
        /\ factor'.totp = factor.totp /\ factor'.passkey = epoch
    BY <1>0, <2>2 DEF Factors
  <2>4. FactorOk'
    BY <1>6, <2>3, FactorSame DEF CreateWebAuthnCredential
  <2> QED BY <1>0, <1>6, <2>4, FactorKeeps DEF CreateWebAuthnCredential, Moved
<1>7. CASE DeletePasskey(r)
  <2>1. factor' = [factor EXCEPT !.passkey = 0]
    BY <1>7 DEF DeletePasskey, DeleteWebAuthnCredential
  <2>2. /\ factor' \in Factors /\ factor'.push = factor.push /\ factor'.approver = factor.approver
        /\ factor'.totp = factor.totp /\ factor'.passkey = 0
    BY <1>0, <2>1 DEF Factors
  <2>3. FactorOk'
    BY <1>7, <2>2, FactorSame DEF DeletePasskey
  <2> QED BY <1>0, <1>7, <2>3, FactorKeeps DEF DeletePasskey, Moved
<1>8. CASE GenerateDevicePairingToken(r)
  <2>1. Proof(r) = epoch
    BY <1>8, ProofIsCurrent DEF GenerateDevicePairingToken, Changing
  <2>2. FactorOk'
    BY <1>0, <1>8, <2>1, FactorSame DEF GenerateDevicePairingToken, CreateDevicePairingToken
  <2> QED BY <1>0, <1>8, <2>2, FactorKeeps DEF GenerateDevicePairingToken, Moved
<1> QED BY <1>1, <1>2, <1>3, <1>4, <1>5, <1>6, <1>7, <1>8

\* syncPushMethodTx makes the method follow the phones.
LEMMA SyncPush ==
    ASSUME NEW f \in Factors
    PROVE  /\ SyncPushMethod(f) \in Factors
           /\ SyncPushMethod(f).approver = f.approver
           /\ SyncPushMethod(f).totp = f.totp /\ SyncPushMethod(f).passkey = f.passkey
           /\ SyncPushMethod(f).push <=> Approvers(SyncPushMethod(f)) # {}
<1>1. CASE Approvers(f) # {}
  <2>1. SyncPushMethod(f) = [f EXCEPT !.push = TRUE]
    BY <1>1, Zenon DEF SyncPushMethod
  <2>2. Approvers([f EXCEPT !.push = TRUE]) = Approvers(f)
    BY DEF Approvers, Factors
  <2> QED BY <1>1, <2>1, <2>2 DEF Factors
<1>2. CASE Approvers(f) = {}
  <2>1. SyncPushMethod(f) = [f EXCEPT !.push = FALSE]
    BY <1>2, Zenon DEF SyncPushMethod
  <2>2. Approvers([f EXCEPT !.push = FALSE]) = Approvers(f)
    BY DEF Approvers, Factors
  <2> QED BY <1>2, <2>1, <2>2 DEF Factors
<1> QED BY <1>1, <1>2

\* changeEnrollmentDevice, of phones whose right to approve is taken or given in this epoch.
LEMMA DeviceChangeKeeps ==
    ASSUME IInv, NEW r \in Requests, NEW f \in Factors, ChangeEnrollmentDevice(r, f),
           f.totp = factor.totp, f.passkey = factor.passkey,
           \A d \in Devices : f.approver[d] \in {factor.approver[d], 0, epoch}
    PROVE  IInv'
<1>1. /\ factor' \in Factors /\ factor'.approver = f.approver /\ factor'.totp = f.totp
      /\ factor'.passkey = f.passkey /\ (factor'.push <=> Approvers(factor') # {})
  BY SyncPush DEF ChangeEnrollmentDevice
<1>2. PushFollowsDevice'
  BY <1>1 DEF PushFollowsDevice
<1>3. ResetStands'
  BY <1>1 DEF IInv, ResetStands, ChangeEnrollmentDevice, Approvers
<1>4. FactorOk'
  BY <1>1, <1>2, <1>3 DEF FactorOk, ChangeEnrollmentDevice, IInv, TypeOK
<1> QED BY <1>4, FactorKeeps DEF ChangeEnrollmentDevice, Moved, IInv, TypeOK

\* DeleteUserDevice and SetDeviceMFAApprover.
LEMMA DeviceKeeps ==
    ASSUME IInv, NEW r \in Requests, DeleteUserDevice(r) \/ SetDeviceMFAApprover(r)
    PROVE  IInv'
<1> USE StepUpAssumption
<1>0. factor \in Factors /\ 0 \in Epochs
  BY DEF IInv, TypeOK, Epochs
<1>1. CASE DeleteUserDevice(r)
  <2>1. PICK d \in factor.paired :
          ChangeEnrollmentDevice(r, [factor EXCEPT !.paired = @ \ {d}, !.approver[d] = 0])
    BY <1>1 DEF DeleteUserDevice
  <2> DEFINE f == [factor EXCEPT !.paired = @ \ {d}, !.approver[d] = 0]
  <2>2. /\ f \in Factors /\ f.totp = factor.totp /\ f.passkey = factor.passkey
        /\ \A e \in Devices : f.approver[e] \in {factor.approver[e], 0, epoch}
    BY <1>0 DEF Factors
  <2> HIDE DEF f
  <2> QED BY <2>1, <2>2, DeviceChangeKeeps DEF f
<1>2. CASE SetDeviceMFAApprover(r)
  <2>0. Proof(r) = epoch /\ epoch \in Epochs
    BY <1>2, ProofIsCurrent DEF SetDeviceMFAApprover, Changing
  <2>1. PICK d \in factor.paired, p \in {0, epoch} :
          ChangeEnrollmentDevice(r, [factor EXCEPT !.approver[d] = p])
    BY <1>2, <2>0 DEF SetDeviceMFAApprover
  <2> DEFINE f == [factor EXCEPT !.approver[d] = p]
  <2>2. /\ f \in Factors /\ f.totp = factor.totp /\ f.passkey = factor.passkey
        /\ \A e \in Devices : f.approver[e] \in {factor.approver[e], 0, epoch}
    BY <1>0, <2>0 DEF Factors
  <2> HIDE DEF f
  <2> QED BY <2>1, <2>2, DeviceChangeKeeps DEF f
<1> QED BY <1>1, <1>2

\* A phone pairs, or its pairing token lapses.
LEMMA PairingKeeps ==
    ASSUME IInv, PairingLapses \/ \E d \in Devices : RegisterNativeDevice(d)
    PROVE  IInv'
<1>0. /\ factor \in Factors /\ 0 \in Epochs /\ pairing \in Epochs /\ pairing \in {0, epoch}
      /\ UNCHANGED <<sess, chal, grant, req, ceremony, spent, epoch, since>> /\ pairing' = 0
  BY StepUpAssumption DEF IInv, TypeOK, Epochs, ResetStands, PairingLapses, RegisterNativeDevice
<1>1. FactorOk'
  <2>1. CASE PairingLapses
    BY <1>0, <2>1, FactorSame DEF PairingLapses
  <2>2. CASE \E d \in Devices : RegisterNativeDevice(d)
    <3>1. PICK d \in Devices : RegisterNativeDevice(d)
      BY <2>2
    <3>2. factor' = [factor EXCEPT !.paired = @ \cup {d}, !.approver[d] = pairing, !.push = TRUE] /\ pairing # 0
      BY <3>1 DEF RegisterNativeDevice, Registered
    <3>3. /\ factor' \in Factors /\ factor'.push = TRUE /\ factor'.totp = factor.totp
          /\ factor'.passkey = factor.passkey
          /\ factor'.approver[d] = pairing
          /\ \A e \in Devices \ {d} : factor'.approver[e] = factor.approver[e]
      BY <1>0, <3>2 DEF Factors
    <3>4. PushFollowsDevice'
      BY <3>2, <3>3 DEF PushFollowsDevice, Approvers
    <3>5. ResetStands'
      BY <1>0, <3>3 DEF IInv, ResetStands, Approvers
    <3> QED BY <1>0, <3>3, <3>4, <3>5 DEF FactorOk
  <2> QED BY <2>1, <2>2 DEF IInv
<1>2. TypeOK'
  BY <1>0, <1>1 DEF IInv, TypeOK, FactorOk
<1>3. Rows' /\ ReqOk' /\ Current'
  BY <1>0 DEF IInv, Rows, ReqOk, Held, Fresh, Current
<1> QED BY <1>1, <1>2, <1>3 DEF IInv, FactorOk
-----------------------------------------------------------------------------
(* The tickets. *)

\* No two requests hold one ticket that neither has written yet, and a new one is nobody's.
LEMMA RequestKeeps ==
    ASSUME IInv, NEW r \in Requests, NEW s \in Sessions, NEW op \in Ops, NEW t \in Tickets,
           RequestStepUp(r, s, op, t)
    PROVE  IInv'
<1> USE StepUpAssumption DEF IInv
<1>1. PICK m \in Methods :
        req' = [req EXCEPT ![r] = [NoReq EXCEPT !.at = "ask", !.for = [s |-> s, op |-> op],
                                                !.ticket = t, !.method = m]]
  BY DEF RequestStepUp, StepUpMethods, Methods
<1> DEFINE new == [NoReq EXCEPT !.at = "ask", !.for = [s |-> s, op |-> op], !.ticket = t, !.method = m]
<1>2. /\ new \in ReqRows /\ new.at = "ask" /\ new.for.s = s /\ new.ticket = t
  BY DEF NoReq, NoHolder, ReqRows, Holders, Methods
<1>3. /\ req' \in [Requests -> ReqRows] /\ req'[r] = new /\ \A q \in Requests \ {r} : req'[q] = req[q]
      /\ Fresh(t) /\ \A q \in Requests : req[q].ticket # t
      /\ UNCHANGED <<sess, chal, grant, factor, pairing, ceremony, spent, epoch, since>>
  BY <1>1, <1>2 DEF TypeOK, RequestStepUp, Fresh
<1> HIDE DEF new
<1>4. TypeOK' /\ Rows' /\ PushFollowsDevice' /\ ResetStands'
  BY <1>3 DEF TypeOK, Rows, PushFollowsDevice, ResetStands, Approvers
<1>5. ReqOk'
  <2> SUFFICES ASSUME NEW q \in Requests PROVE Held(q)'
    BY DEF ReqOk
  <2>1. CASE q = r
    BY <1>2, <1>3, <2>1 DEF Held, Fresh
  <2>2. CASE q # r
    BY <1>2, <1>3, <2>2 DEF ReqOk, Held, Fresh
  <2> QED BY <2>1, <2>2
<1>6. Current'
  BY <1>2, <1>3 DEF Current
<1> QED BY <1>4, <1>5, <1>6

\* FinishStepUp.
LEMMA FinishKeeps ==
    ASSUME IInv, NEW r \in Requests, NEW t \in Tickets, FinishStepUp(r, t)
    PROVE  IInv'
<1> USE StepUpAssumption DEF IInv
<1> DEFINE new == [NoReq EXCEPT !.at = "finish", !.for = chal[t].for, !.ticket = t]
<1>1. chal[t].for \in Holders /\ chal[t].st = "live" /\ chal[t].for.s \in Sessions
  BY DEF FinishStepUp, Usable, TypeOK, ChalRows, Rows
<1>2. /\ new \in ReqRows /\ new.at = "finish" /\ new.for = chal[t].for /\ new.ticket = t
  BY <1>1 DEF NoReq, NoHolder, ReqRows, Methods
<1>3. /\ req' \in [Requests -> ReqRows] /\ req'[r] = new /\ \A q \in Requests \ {r} : req'[q] = req[q]
      /\ UNCHANGED <<sess, chal, grant, factor, pairing, ceremony, spent, epoch, since>>
  BY <1>2 DEF TypeOK, FinishStepUp
<1> HIDE DEF new
<1>4. TypeOK' /\ Rows' /\ PushFollowsDevice' /\ ResetStands'
  BY <1>3 DEF TypeOK, Rows, PushFollowsDevice, ResetStands, Approvers
<1>5. ReqOk'
  <2> SUFFICES ASSUME NEW q \in Requests PROVE Held(q)'
    BY DEF ReqOk
  <2>1. CASE q = r
    BY <1>1, <1>2, <1>3, <2>1 DEF Held
  <2>2. CASE q # r
    BY <1>1, <1>2, <1>3, <2>2 DEF ReqOk, Held, Fresh
  <2> QED BY <2>1, <2>2
<1>6. Current'
  BY <1>2, <1>3 DEF Current
<1> QED BY <1>4, <1>5, <1>6

\* A request that ends having written the rows of its own ticket.
LEMMA WrittenKeeps ==
    ASSUME IInv, NEW r \in Requests, req[r].at \in {"ask", "proved", "finish"},
           req' = [req EXCEPT ![r] = NoReq],
           UNCHANGED <<sess, factor, pairing, ceremony, spent, epoch, since>>,
           NEW t \in Tickets, t = req[r].ticket,
           NEW c \in ChalRows, NEW g \in GrantRows,
           chal' = [chal EXCEPT ![t] = c], grant' = [grant EXCEPT ![t] = g],
           g.st = "live" => g.for.s \in Sessions /\ sess[g.for.s] = "live" /\ c.st # "live",
           c.st = "live" => c.for.s \in Sessions /\ sess[c.for.s] = "live" /\ g.st = "none",
           c.st = "none" => chal[t].st = "none" /\ c.for = NoHolder,
           chal[t].st # "none" => c.for = chal[t].for,
           c.st # "none" /\ g.st # "none" => g.for = c.for,
           spent[t] = 0
    PROVE  IInv'
<1> USE StepUpAssumption DEF IInv
<1>1. NoReq \in ReqRows /\ NoReq.at = "idle" /\ NoReq.ticket = NoTicket
  BY DEF NoReq, ReqRows, NoHolder, Holders, Ops, Methods
<1>2. /\ req' \in [Requests -> ReqRows] /\ req'[r] = NoReq /\ \A q \in Requests \ {r} : req'[q] = req[q]
  BY <1>1 DEF TypeOK
<1>3. /\ chal' \in [Tickets -> ChalRows] /\ chal'[t] = c /\ \A u \in Tickets \ {t} : chal'[u] = chal[u]
      /\ grant' \in [Tickets -> GrantRows] /\ grant'[t] = g /\ \A u \in Tickets \ {t} : grant'[u] = grant[u]
  BY DEF TypeOK
<1>4. TypeOK'
  BY <1>2, <1>3 DEF TypeOK
<1>5. Rows'
  BY <1>3 DEF Rows
<1>6. ReqOk'
  <2> SUFFICES ASSUME NEW q \in Requests PROVE Held(q)'
    BY DEF ReqOk
  <2>1. CASE q = r
    BY <1>1, <1>2, <2>1 DEF Held
  <2>2. CASE q # r
    <3>1. Held(q) /\ Held(r) /\ req'[q] = req[q]
      BY <1>2, <2>2 DEF ReqOk
    <3>2. req[q].at \in {"ask", "proved"} => req[q].ticket # t
      BY <2>2, <3>1 DEF Held
    <3> QED BY <1>1, <1>2, <1>3, <2>2, <3>1, <3>2 DEF Held, Fresh
  <2> QED BY <2>1, <2>2
<1>7. Current'
  BY <1>1, <1>2 DEF Current
<1>8. PushFollowsDevice' /\ ResetStands'
  BY DEF PushFollowsDevice, ResetStands, Approvers
<1> QED BY <1>4, <1>5, <1>6, <1>7, <1>8

\* CreateStepUpToken, CreateStepUpChallenge and CompleteStepUpChallenge.
LEMMA WriteKeeps ==
    ASSUME IInv, NEW r \in Requests,
           CreateStepUpToken(r) \/ CreateStepUpChallenge(r) \/ CompleteStepUpChallenge(r)
    PROVE  IInv'
<1> USE StepUpAssumption DEF IInv
<1> DEFINE q == req[r]
           t == q.ticket
<1>1. /\ q \in ReqRows /\ q.at \in {"ask", "proved", "finish"} /\ Held(r) /\ t \in Tickets /\ q.for.s \in Sessions
      /\ q.for \in Holders
      /\ chal \in [Tickets -> ChalRows] /\ grant \in [Tickets -> GrantRows]
      /\ chal[t] \in ChalRows /\ grant[t] \in GrantRows
  BY DEF TypeOK, ReqRows, ReqOk, Held, CreateStepUpToken, CreateStepUpChallenge, CompleteStepUpChallenge
<1>2. /\ grant[t].st = "live" => grant[t].for.s \in Sessions /\ sess[grant[t].for.s] = "live" /\ chal[t].st # "live"
      /\ chal[t].st = "live" => chal[t].for.s \in Sessions /\ sess[chal[t].for.s] = "live" /\ grant[t].st = "none"
      /\ chal[t].st = "none" => chal[t].for = NoHolder
      /\ chal[t].st # "none" /\ grant[t].st # "none" => grant[t].for = chal[t].for
      /\ spent[t] # 0 => grant[t].st = "used"
  BY <1>1 DEF TypeOK, Rows
<1>3. ASSUME req' = [req EXCEPT ![r] = NoReq], UNCHANGED <<sess, chal, grant, factor, pairing, ceremony, spent, epoch, since>>
      PROVE  IInv'
  <2>1. FactorOk'
    BY <1>3, FactorSame DEF TypeOK
  <2> QED BY <1>3, <2>1, FactorKeeps DEF Moved, TypeOK
<1>4. CASE CreateStepUpToken(r)
  <2>1. CASE CreateStepUpTokenTx(t, q.for)
    <3> DEFINE g == [st |-> "live", for |-> q.for]
    <3>1. g \in GrantRows /\ g.st = "live" /\ g.for = q.for
      BY <1>1 DEF GrantRows, RowStates
    <3>2. /\ grant' = [grant EXCEPT ![t] = g] /\ chal' = [chal EXCEPT ![t] = chal[t]]
          /\ sess[q.for.s] = "live" /\ chal[t].st = "none" /\ grant[t].st = "none"
          /\ req' = [req EXCEPT ![r] = NoReq]
          /\ UNCHANGED <<sess, factor, pairing, ceremony, spent, epoch, since>>
      BY <1>1, <1>4, <2>1 DEF CreateStepUpTokenTx, CreateStepUpToken, Held, Fresh
    <3> HIDE DEF g
    <3> QED BY <1>1, <1>2, <3>1, <3>2, WrittenKeeps
  <2>2. CASE grant' = grant
    BY <1>3, <1>4, <2>2 DEF CreateStepUpToken
  <2> QED BY <1>4, <2>1, <2>2 DEF CreateStepUpToken
<1>5. CASE CreateStepUpChallenge(r)
  <2> DEFINE c == [st |-> "live", for |-> q.for, method |-> q.method, phone |-> "pending", attempts |-> 0]
  <2>1. c \in ChalRows /\ c.st = "live" /\ c.for = q.for
    BY <1>1 DEF ChalRows, RowStates, ReqRows
  <2>2. /\ chal' = [chal EXCEPT ![t] = c] /\ grant' = [grant EXCEPT ![t] = grant[t]]
        /\ sess[q.for.s] = "live" /\ chal[t].st = "none" /\ grant[t].st = "none"
        /\ req' = [req EXCEPT ![r] = NoReq]
        /\ UNCHANGED <<sess, factor, pairing, ceremony, spent, epoch, since>>
    BY <1>1, <1>5 DEF CreateStepUpChallenge, Held, Fresh
  <2> HIDE DEF c
  <2> QED BY <1>1, <1>2, <2>1, <2>2, WrittenKeeps
<1>6. CASE CompleteStepUpChallenge(r)
  <2>1. CASE Completes(t) /\ sess[q.for.s] = "live"
    <3> DEFINE g == [st |-> "live", for |-> q.for]
               c == [chal[t] EXCEPT !.st = "used"]
    <3>1. /\ g \in GrantRows /\ g.st = "live" /\ g.for = q.for
          /\ c \in ChalRows /\ c.st = "used" /\ c.for = chal[t].for
      BY <1>1 DEF GrantRows, RowStates, ChalRows
    <3>2. /\ grant' = [grant EXCEPT ![t] = g] /\ chal' = [chal EXCEPT ![t] = c]
          /\ chal[t].st = "live" /\ chal[t].for = q.for
          /\ req' = [req EXCEPT ![r] = NoReq]
          /\ UNCHANGED <<sess, factor, pairing, ceremony, spent, epoch, since>>
      BY <1>1, <1>6, <2>1 DEF CreateStepUpTokenTx, CompleteStepUpChallenge, Held, Completes, Usable
    <3> HIDE DEF g, c
    <3> QED BY <1>1, <1>2, <2>1, <3>1, <3>2, WrittenKeeps
  <2>2. CASE ~(Completes(t) /\ sess[q.for.s] = "live")
    BY <1>3, <1>6, <2>2 DEF CompleteStepUpChallenge
  <2> QED BY <2>1, <2>2
<1> QED BY <1>4, <1>5, <1>6

\* Rows that are written once may still end, and keep their holders.
LEMMA EndedKeeps ==
    ASSUME IInv, NEW t \in Tickets, NEW c \in ChalRows, NEW g \in GrantRows,
           chal' = [chal EXCEPT ![t] = c], grant' = [grant EXCEPT ![t] = g],
           c.for = chal[t].for, g.for = grant[t].for,
           c.st = chal[t].st \/ (chal[t].st = "live" /\ c.st = "used"),
           g.st = grant[t].st \/ (grant[t].st = "live" /\ g.st = "used"),
           UNCHANGED <<sess, req, factor, pairing, ceremony, spent, epoch, since>>
    PROVE  IInv'
<1> USE DEF IInv
<1>1. /\ chal' \in [Tickets -> ChalRows] /\ chal'[t] = c /\ \A u \in Tickets \ {t} : chal'[u] = chal[u]
      /\ grant' \in [Tickets -> GrantRows] /\ grant'[t] = g /\ \A u \in Tickets \ {t} : grant'[u] = grant[u]
  BY DEF TypeOK
<1>2. TypeOK'
  BY <1>1 DEF TypeOK
<1>3. Rows'
  BY <1>1 DEF Rows
<1>4. ReqOk'
  BY <1>1, HeldStays
<1>5. Current' /\ PushFollowsDevice' /\ ResetStands'
  BY DEF Current, PushFollowsDevice, ResetStands, Approvers
<1> QED BY <1>2, <1>3, <1>4, <1>5

\* PhoneAnswers, FinishFails, CancelStepUp, StepUpLapses and BeginRegistration.
LEMMA TicketKeeps ==
    ASSUME IInv, NEW t \in Tickets,
           PhoneAnswers(t) \/ FinishFails(t) \/ CancelStepUp(t) \/ StepUpLapses(t) \/ BeginRegistration(t)
    PROVE  IInv'
<1> USE StepUpAssumption
<1>0. /\ chal \in [Tickets -> ChalRows] /\ grant \in [Tickets -> GrantRows]
      /\ chal[t] \in ChalRows /\ grant[t] \in GrantRows
  BY DEF IInv, TypeOK
<1> DEFINE cu == [chal[t] EXCEPT !.st = "used"]
           gu == [grant[t] EXCEPT !.st = "used"]
<1>1. /\ cu \in ChalRows /\ cu.for = chal[t].for /\ cu.st = "used"
      /\ gu \in GrantRows /\ gu.for = grant[t].for /\ gu.st = "used"
  BY <1>0 DEF ChalRows, GrantRows, RowStates
<1>2. grant = [grant EXCEPT ![t] = grant[t]] /\ chal = [chal EXCEPT ![t] = chal[t]]
  BY <1>0
<1>3. CASE PhoneAnswers(t)
  <2>1. PICK a \in {"approved", "refused"} : chal' = [chal EXCEPT ![t].phone = a]
    BY <1>3 DEF PhoneAnswers
  <2> DEFINE c == [chal[t] EXCEPT !.phone = a]
  <2>2. c \in ChalRows /\ c.for = chal[t].for /\ c.st = chal[t].st /\ chal' = [chal EXCEPT ![t] = c]
    BY <1>0, <2>1 DEF ChalRows
  <2> HIDE DEF c
  <2> QED BY <1>0, <1>2, <1>3, <2>2, EndedKeeps DEF PhoneAnswers
<1>4. CASE FinishFails(t)
  <2>1. CASE chal' = [chal EXCEPT ![t].st = "used"]
    <3>1. chal' = [chal EXCEPT ![t] = cu] /\ chal[t].st = "live"
      BY <1>0, <1>4, <2>1 DEF FinishFails, Usable
    <3> HIDE DEF cu, gu
    <3> QED BY <1>0, <1>1, <1>2, <1>4, <3>1, EndedKeeps DEF FinishFails
  <2>2. CASE chal' = [chal EXCEPT ![t].attempts = @ + 1]
    <3> DEFINE c == [chal[t] EXCEPT !.attempts = @ + 1]
    <3>1. c \in ChalRows /\ c.for = chal[t].for /\ c.st = chal[t].st /\ chal' = [chal EXCEPT ![t] = c]
      BY <1>0, <1>4, <2>2 DEF ChalRows, FinishFails, Usable
    <3> HIDE DEF c
    <3> QED BY <1>0, <1>2, <1>4, <3>1, EndedKeeps DEF FinishFails
  <2> QED BY <1>4, <2>1, <2>2 DEF FinishFails
<1>5. CASE CancelStepUp(t)
  <2> DEFINE c == [chal[t] EXCEPT !.st = IF @ = "live" THEN "used" ELSE @]
             g == [grant[t] EXCEPT !.st = IF @ = "live" THEN "used" ELSE @]
  <2>1. /\ c \in ChalRows /\ c.for = chal[t].for
        /\ c.st = chal[t].st \/ (chal[t].st = "live" /\ c.st = "used")
        /\ g \in GrantRows /\ g.for = grant[t].for
        /\ g.st = grant[t].st \/ (grant[t].st = "live" /\ g.st = "used")
    BY <1>0 DEF ChalRows, GrantRows, RowStates
  <2>2. chal' = [chal EXCEPT ![t] = c] /\ grant' = [grant EXCEPT ![t] = g]
    BY <1>0, <1>5 DEF CancelStepUp
  <2> HIDE DEF c, g
  <2>3. UNCHANGED <<sess, req, factor, pairing, ceremony, spent, epoch, since>>
    BY <1>5 DEF CancelStepUp
  <2> QED BY <2>1, <2>2, <2>3, EndedKeeps
<1>6. CASE StepUpLapses(t)
  <2>0. UNCHANGED <<sess, req, factor, pairing, ceremony, spent, epoch, since>>
    BY <1>6 DEF StepUpLapses
  <2>1. CASE chal[t].st = "live" /\ chal' = [chal EXCEPT ![t].st = "used"] /\ grant' = grant
    <3>1. chal' = [chal EXCEPT ![t] = cu] /\ grant' = [grant EXCEPT ![t] = grant[t]] /\ chal[t].st = "live"
      BY <1>0, <2>1
    <3> HIDE DEF cu, gu
    <3> QED BY <1>0, <1>1, <2>0, <3>1, EndedKeeps
  <2>2. CASE grant[t].st = "live" /\ grant' = [grant EXCEPT ![t].st = "used"] /\ chal' = chal
    <3>1. grant' = [grant EXCEPT ![t] = gu] /\ chal' = [chal EXCEPT ![t] = chal[t]] /\ grant[t].st = "live"
      BY <1>0, <2>2
    <3> HIDE DEF cu, gu
    <3> QED BY <1>0, <1>1, <2>0, <3>1, EndedKeeps
  <2> QED BY <1>6, <2>1, <2>2 DEF StepUpLapses
<1>7. CASE BeginRegistration(t)
  BY <1>7 DEF BeginRegistration, IInv, TypeOK, Rows, ReqOk, Held, Fresh, Current, PushFollowsDevice, ResetStands, Approvers
<1> QED BY <1>3, <1>4, <1>5, <1>6, <1>7

\* ConsumeStepUpToken.
LEMMA ConsumeKeeps ==
    ASSUME IInv, NEW r \in Requests, NEW t \in Tickets, NEW s \in Sessions, NEW op \in Ops,
           ConsumeStepUpToken(r, t, s, op)
    PROVE  IInv'
<1> USE StepUpAssumption DEF IInv
<1> DEFINE new == [NoReq EXCEPT !.at = "change", !.for = grant[t].for]
           g == [grant[t] EXCEPT !.st = "used"]
<1>0. /\ grant[t] \in GrantRows /\ chal[t] \in ChalRows /\ grant[t].for \in Holders
      /\ grant[t].st = "live" /\ grant[t].for = [s |-> s, op |-> op] /\ sess[s] = "live"
  BY DEF TypeOK, GrantRows, ConsumeStepUpToken
<1>1. /\ new \in ReqRows /\ new.at = "change" /\ new.for = grant[t].for /\ new.for.s = s
      /\ new.ticket = NoTicket /\ g \in GrantRows /\ g.for = grant[t].for /\ g.st = "used"
  <2>1. g \in GrantRows /\ g.for = grant[t].for /\ g.st = "used"
    BY <1>0 DEF GrantRows, RowStates
  <2>2. grant[t].for.s = s
    BY <1>0
  <2> HIDE DEF g
  <2>3. /\ new \in ReqRows /\ new.at = "change" /\ new.for = grant[t].for /\ new.ticket = NoTicket
    BY <1>0 DEF NoReq, NoHolder, ReqRows, Methods
  <2> QED BY <2>1, <2>2, <2>3
<1>2. /\ req' \in [Requests -> ReqRows] /\ req'[r] = new /\ \A q \in Requests \ {r} : req'[q] = req[q]
      /\ grant' \in [Tickets -> GrantRows] /\ grant'[t] = g /\ \A u \in Tickets \ {t} : grant'[u] = grant[u]
      /\ spent' = [spent EXCEPT ![t] = @ + 1] /\ req[r].ticket = NoTicket
      /\ UNCHANGED <<sess, chal, factor, pairing, ceremony, epoch, since>>
  BY <1>1 DEF TypeOK, ConsumeStepUpToken, Consumed, NoReq
<1> HIDE DEF new, g
<1>3. TypeOK'
  BY <1>1, <1>2 DEF TypeOK
<1>4. Rows'
  BY <1>0, <1>1, <1>2 DEF Rows
<1>5. ReqOk'
  <2> SUFFICES ASSUME NEW q \in Requests PROVE Held(q)'
    BY DEF ReqOk
  <2>1. CASE q = r
    BY <1>1, <1>2, <2>1 DEF Held
  <2>2. CASE q # r
    <3>1. Held(q) /\ req'[q] = req[q]
      BY <1>2, <2>2 DEF ReqOk
    <3>2. \A u \in Tickets : Fresh(u) => Fresh(u)'
      BY <1>0, <1>2 DEF Fresh
    <3>3. \A p \in Requests \ {q} : req'[p].ticket \in {req[p].ticket, NoTicket}
      BY <1>1, <1>2
    <3> QED BY <1>2, <3>1, <3>2, <3>3 DEF Held
  <2> QED BY <2>1, <2>2
<1>6. Current'
  BY <1>0, <1>1, <1>2 DEF Current
<1>7. PushFollowsDevice' /\ ResetStands'
  BY <1>2 DEF PushFollowsDevice, ResetStands, Approvers
<1> QED BY <1>3, <1>4, <1>5, <1>6, <1>7

\* RevokeOtherSessions ends its request.
LEMMA RevokeOtherKeeps ==
    ASSUME IInv, NEW r \in Requests, RevokeOtherSessions(r)
    PROVE  IInv'
<1> USE StepUpAssumption DEF IInv
<1> DEFINE S == Sessions \ {req[r].for.s}
<1>0. RevokeSessions(S) /\ UNCHANGED <<factor, pairing, ceremony, spent, epoch, since>>
  BY DEF RevokeOtherSessions
<1> HIDE DEF S
<1>1. /\ sess' \in [Sessions -> {"new", "live", "gone"}]
      /\ chal' \in [Tickets -> ChalRows] /\ grant' \in [Tickets -> GrantRows]
      /\ Rows'
      /\ \A t \in Tickets : grant'[t].st = "live" => sess'[grant'[t].for.s] = "live" /\ chal'[t].st # "live"
      /\ \A t \in Tickets : /\ chal'[t].for = chal[t].for
                            /\ (chal'[t].st = "none") = (chal[t].st = "none")
                            /\ (grant'[t].st = "none") = (grant[t].st = "none")
      /\ \A s \in Sessions : sess'[s] = "live" => sess[s] = "live" /\ s \notin S
  BY <1>0, RevokeKeepsRows
<1>2. NoReq \in ReqRows /\ NoReq.at = "idle" /\ NoReq.ticket = NoTicket
  BY DEF NoReq, ReqRows, NoHolder, Holders, Ops, Methods
<1>3. req' \in [Requests -> ReqRows] /\ req'[r] = NoReq /\ \A q \in Requests \ {r} : req'[q] = req[q]
  BY <1>2 DEF TypeOK, RevokeOtherSessions
<1>4. TypeOK'
  BY <1>0, <1>1, <1>3 DEF TypeOK
<1>5. ReqOk'
  <2> SUFFICES ASSUME NEW q \in Requests PROVE Held(q)'
    BY DEF ReqOk
  <2>1. CASE q = r
    BY <1>2, <1>3, <2>1 DEF Held
  <2>2. CASE q # r
    BY <1>1, <1>2, <1>3, <2>2 DEF ReqOk, Held, Fresh
  <2> QED BY <2>1, <2>2
<1>6. Current'
  BY <1>0, <1>1, <1>2, <1>3 DEF Current
<1>7. PushFollowsDevice' /\ ResetStands'
  BY <1>0 DEF PushFollowsDevice, ResetStands, Approvers
<1> QED BY <1>1, <1>4, <1>5, <1>6, <1>7
-----------------------------------------------------------------------------
(* The theorems about states. *)

\* Every step keeps the invariant.
LEMMA StepUpStep == IInv /\ [Next]_vars => IInv'
<1> SUFFICES ASSUME IInv, [Next]_vars PROVE IInv'
  OBVIOUS
<1>1. CASE \E s \in Sessions : Login(s)
  BY <1>1, LoginKeeps
<1>2. CASE (\E s \in Sessions : Logout(s) \/ RevokeOthers(s)) \/ RevokeUserAccess
  BY <1>2, RevocationKeeps DEF Logout, RevokeOthers, RevokeUserAccess
<1>3. CASE \E r \in Requests, s \in Sessions, op \in Ops, t \in Tickets :
             RequestStepUp(r, s, op, t) \/ ConsumeStepUpToken(r, t, s, op)
  BY <1>3, RequestKeeps, ConsumeKeeps
<1>4. CASE \E r \in Requests :
             \/ CreateStepUpToken(r) \/ CreateStepUpChallenge(r) \/ CompleteStepUpChallenge(r)
             \/ RevokeOtherSessions(r) \/ DeleteUserDevice(r) \/ SetDeviceMFAApprover(r)
  BY <1>4, WriteKeeps, RevokeOtherKeeps, DeviceKeeps
<1>5. CASE \E r \in Requests :
             \/ ProveAtOnce(r) \/ Abandon(r) \/ EnableTOTP(r) \/ GenerateRecoveryCodes(r)
             \/ FinishRegistration(r) \/ CreateWebAuthnCredential(r) \/ DeletePasskey(r)
             \/ GenerateDevicePairingToken(r)
  BY <1>5, ChangeKeeps
<1>6. CASE \E r \in Requests, t \in Tickets : FinishStepUp(r, t)
  BY <1>6, FinishKeeps
<1>7. CASE \E t \in Tickets :
             PhoneAnswers(t) \/ FinishFails(t) \/ CancelStepUp(t) \/ StepUpLapses(t) \/ BeginRegistration(t)
  BY <1>7, TicketKeeps
<1>8. CASE PairingLapses \/ \E d \in Devices : RegisterNativeDevice(d)
  BY <1>8, PairingKeeps
<1>9. CASE ResetUserMFA
  BY <1>9, ResetKeeps
<1>10. CASE UNCHANGED vars
  BY <1>10 DEF vars, IInv, TypeOK, Rows, ReqOk, Held, Fresh, Current, PushFollowsDevice, ResetStands, Approvers
<1> QED BY <1>1, <1>2, <1>3, <1>4, <1>5, <1>6, <1>7, <1>8, <1>9, <1>10 DEF Next

\* The invariant holds in every reachable state.
LEMMA StepUpInvariance == Spec => []IInv
  BY StepUpInit, StepUpStep, PTL DEF Spec

\* Sessions, rows, requests and factors stay well typed, and a live grant belongs to a live
\* session and has no open challenge.
THEOREM StepUpTypes == Spec => []TypeOK
  BY StepUpInvariance, PTL DEF IInv

\* Whatever devices pair, are deleted, lose or gain the right to approve, push is offered
\* exactly while one may answer.
THEOREM PushIsAnswerable == Spec => []PushFollowsDevice
  BY StepUpInvariance, PTL DEF IInv

\* However many resets there are and whatever overlaps them, nothing enrolled rests on a session
\* from before the last, the requests it overtook after their ticket aside.
THEOREM ResetIsComplete == Spec => []ResetStands
  BY StepUpInvariance, PTL DEF IInv
-----------------------------------------------------------------------------
(* The two tables implement SingleUse. *)

\* What a ticket is worth, case by case.
LEMMA TicketValue ==
    ASSUME Rows, NEW t \in Tickets
    PROVE  /\ spent[t] # 0 => TicketState(t) = "spent"
           /\ grant[t].st = "live" => TicketState(t) = "granted"
           /\ chal[t].st = "live" => TicketState(t) = "asked"
           /\ Fresh(t) => TicketState(t) = "unissued"
           /\ spent[t] = 0 /\ grant[t].st # "live" /\ chal[t].st # "live" /\ ~Fresh(t) => TicketState(t) = "void"
<1>1. /\ spent[t] # 0 => grant[t].st = "used"
      /\ chal[t].st = "live" => grant[t].st = "none"
  BY DEF Rows
<1> QED BY <1>1 DEF TicketState, Fresh

\* And after a step.
LEMMA TicketValueNext ==
    ASSUME Rows', NEW t \in Tickets
    PROVE  /\ spent'[t] # 0 => TicketState(t)' = "spent"
           /\ grant'[t].st = "live" => TicketState(t)' = "granted"
           /\ chal'[t].st = "live" => TicketState(t)' = "asked"
           /\ Fresh(t)' => TicketState(t)' = "unissued"
           /\ spent'[t] = 0 /\ grant'[t].st # "live" /\ chal'[t].st # "live" /\ ~(Fresh(t)') => TicketState(t)' = "void"
<1>1. /\ spent'[t] # 0 => grant'[t].st = "used"
      /\ chal'[t].st = "live" => grant'[t].st = "none"
  BY DEF Rows
<1> QED BY <1>1 DEF TicketState, Fresh

\* A ticket whose rows keep their state and holder is worth what it was.
SameTicket(t) ==
    /\ chal'[t].st = chal[t].st /\ chal'[t].for = chal[t].for
    /\ grant'[t].st = grant[t].st /\ grant'[t].for = grant[t].for
    /\ spent'[t] = spent[t]

\* Such a ticket does not move.
LEMMA SameValue ==
    ASSUME NEW t \in Tickets, SameTicket(t)
    PROVE  TicketState(t)' = TicketState(t) /\ TicketHolder(t)' = TicketHolder(t)
  BY DEF SameTicket, TicketState, TicketHolder

\* The counts are what they are of each ticket.
LEMMA SameSpent ==
    ASSUME IInv, IInv', \A t \in Tickets : spent'[t] = spent[t]
    PROVE  spent' = spent
<1>1. spent \in [Tickets -> Nat] /\ spent' \in [Tickets -> Nat]
  BY DEF IInv, TypeOK
<1> QED BY <1>1

\* A step that moves no ticket stutters.
LEMMA Stutters ==
    ASSUME IInv, IInv', \A t \in Tickets : SameTicket(t)
    PROVE  UNCHANGED Ticket!vars
<1>1. \A t \in Tickets : TicketState(t)' = TicketState(t) /\ TicketHolder(t)' = TicketHolder(t)
  BY SameValue
<1>2. spent' = spent
  BY SameSpent DEF SameTicket
<1> QED BY <1>1, <1>2 DEF Ticket!vars

\* A step that moves one ticket.
LEMMA OneMoves ==
    ASSUME NEW t \in Tickets, NEW w, NEW h, TicketState(t)' = w, TicketHolder(t)' = h,
           \A u \in Tickets \ {t} : SameTicket(u)
    PROVE  /\ [u \in Tickets |-> TicketState(u)]' = [[u \in Tickets |-> TicketState(u)] EXCEPT ![t] = w]
           /\ [u \in Tickets |-> TicketHolder(u)]' = [[u \in Tickets |-> TicketHolder(u)] EXCEPT ![t] = h]
<1>1. \A u \in Tickets \ {t} : TicketState(u)' = TicketState(u) /\ TicketHolder(u)' = TicketHolder(u)
  BY SameValue
<1> QED BY <1>1

\* Of a ticket nobody was issued yet, an ask or a grant for its holder.
LEMMA Issues ==
    ASSUME IInv, IInv', NEW t \in Tickets, Fresh(t), \A u \in Tickets \ {t} : SameTicket(u),
           NEW h \in Holders, spent' = spent,
           \/ grant'[t].st = "live" /\ grant'[t].for = h
           \/ chal'[t].st = "live" /\ chal'[t].for = h
    PROVE  Ticket!Next
<1>1. TicketState(t) = "unissued"
  BY TicketValue DEF IInv
<1>2. TicketState(t)' \in {"asked", "granted"}
  BY TicketValueNext DEF IInv
<1>3. TicketHolder(t)' = h
  BY DEF TicketHolder, IInv, Rows
<1>4. /\ [u \in Tickets |-> TicketState(u)]' = [[u \in Tickets |-> TicketState(u)] EXCEPT ![t] = TicketState(t)']
      /\ [u \in Tickets |-> TicketHolder(u)]' = [[u \in Tickets |-> TicketHolder(u)] EXCEPT ![t] = h]
  BY <1>3, OneMoves
<1>5. Ticket!Issue(t)
  BY <1>1, <1>2, <1>4 DEF Ticket!Issue
<1> QED BY <1>5 DEF Ticket!Next

\* An asked ticket is granted, a granted one is spent.
LEMMA Advances ==
    ASSUME IInv, IInv', NEW t \in Tickets, \A u \in Tickets \ {t} : SameTicket(u),
           TicketHolder(t)' = TicketHolder(t),
           \/ chal[t].st = "live" /\ grant'[t].st = "live" /\ spent' = spent
           \/ grant[t].st = "live" /\ grant'[t].st = "used" /\ spent' = [spent EXCEPT ![t] = @ + 1]
    PROVE  Ticket!Next
<1>1. /\ [u \in Tickets |-> TicketState(u)]' = [[u \in Tickets |-> TicketState(u)] EXCEPT ![t] = TicketState(t)']
      /\ [u \in Tickets |-> TicketHolder(u)]' = [[u \in Tickets |-> TicketHolder(u)] EXCEPT ![t] = TicketHolder(t)]
  BY OneMoves
<1>2. [u \in Tickets |-> TicketHolder(u)]' = [u \in Tickets |-> TicketHolder(u)]
  BY <1>1
<1>5. spent' = [spent EXCEPT ![t] = @ + 1] => spent'[t] # 0
  BY DEF IInv, TypeOK
<1>3. \/ TicketState(t) = "asked" /\ TicketState(t)' = "granted" /\ spent' = spent
      \/ /\ TicketState(t) = "granted" /\ TicketState(t)' = "spent"
         /\ spent' = [spent EXCEPT ![t] = @ + 1]
  BY <1>5, TicketValue, TicketValueNext DEF IInv
<1>4. Ticket!Grant(t) \/ Ticket!Spend(t)
  BY <1>1, <1>2, <1>3 DEF Ticket!Grant, Ticket!Spend
<1> QED BY <1>4 DEF Ticket!Next

\* Rows that end, whoever ends them, void their tickets; if none was live nothing moved.
LEMMA Voids ==
    ASSUME IInv, IInv', spent' = spent, NEW D \in SUBSET Tickets,
           \A t \in D : /\ grant[t].st = "live" \/ chal[t].st = "live"
                        /\ grant'[t].st # "live" /\ chal'[t].st # "live" /\ ~(Fresh(t)')
                        /\ TicketHolder(t)' = TicketHolder(t),
           \A t \in Tickets \ D : SameTicket(t)
    PROVE  [Ticket!Next]_Ticket!vars
<1>1. CASE D = {}
  BY <1>1, Stutters
<1>2. CASE D # {}
  <2>1. \A t \in Tickets \ D : TicketState(t)' = TicketState(t) /\ TicketHolder(t)' = TicketHolder(t)
    BY SameValue
  <2>2. \A t \in D : spent[t] = 0
    BY DEF IInv, Rows
  <2>3. \A t \in D : TicketState(t) \in {"asked", "granted"} /\ TicketState(t)' = "void"
    BY <2>2, TicketValue, TicketValueNext DEF IInv
  <2>4. [t \in Tickets |-> TicketHolder(t)]' = [t \in Tickets |-> TicketHolder(t)]
    BY <2>1
  <2>5. [t \in Tickets |-> TicketState(t)]' = [t \in Tickets |-> IF t \in D THEN "void" ELSE TicketState(t)]
    BY <2>1, <2>3
  <2>6. Ticket!Void(D)
    BY <1>2, <2>3, <2>4, <2>5 DEF Ticket!Void
  <2> QED BY <2>6 DEF Ticket!Next
<1> QED BY <1>1, <1>2

\* The rows of the sessions that end.
LEMMA RevocationVoids ==
    ASSUME IInv, IInv', NEW S, RevokeSessions(S), spent' = spent
    PROVE  [Ticket!Next]_Ticket!vars
<1> DEFINE D == {t \in Tickets : \/ chal[t].st = "live" /\ chal[t].for.s \in S
                                 \/ grant[t].st = "live" /\ grant[t].for.s \in S}
<1>1. \A t \in Tickets :
         /\ chal'[t].for = chal[t].for /\ grant'[t].for = grant[t].for
         /\ chal'[t].st = IF chal[t].st = "live" /\ chal[t].for.s \in S THEN "used" ELSE chal[t].st
         /\ grant'[t].st = IF grant[t].st = "live" /\ grant[t].for.s \in S THEN "used" ELSE grant[t].st
  BY BurnedRows DEF IInv, RevokeSessions
<1>2. \A t \in Tickets \ D : SameTicket(t)
  BY <1>1 DEF SameTicket
<1>3. \A t \in Tickets : /\ chal[t].st = "live" => grant[t].st = "none"
                         /\ grant[t].st = "live" => chal[t].st # "live"
  BY DEF IInv, Rows, TypeOK
<1>4. \A t \in D : /\ grant[t].st = "live" \/ chal[t].st = "live"
                   /\ grant'[t].st # "live" /\ chal'[t].st # "live" /\ ~(Fresh(t)')
                   /\ TicketHolder(t)' = TicketHolder(t)
  BY <1>1, <1>3 DEF Fresh, TicketHolder
<1>5. D \in SUBSET Tickets
  OBVIOUS
<1> HIDE DEF D
<1> QED BY <1>2, <1>4, <1>5, Voids

\* CreateStepUpToken, CreateStepUpChallenge and CompleteStepUpChallenge.
LEMMA WriteImplements ==
    ASSUME IInv, IInv', NEW r \in Requests,
           CreateStepUpToken(r) \/ CreateStepUpChallenge(r) \/ CompleteStepUpChallenge(r)
    PROVE  [Ticket!Next]_Ticket!vars
<1> DEFINE q == req[r]
<1>0. /\ q \in ReqRows /\ Held(r) /\ q.ticket \in Tickets /\ q.for \in Holders
  BY DEF IInv, TypeOK, ReqRows, ReqOk, Held, CreateStepUpToken, CreateStepUpChallenge, CompleteStepUpChallenge
<1> PICK t \in Tickets : t = q.ticket
  BY <1>0
<1>1. /\ q \in ReqRows /\ Held(r) /\ t \in Tickets /\ q.for \in Holders /\ q.ticket = t
      /\ chal \in [Tickets -> ChalRows] /\ grant \in [Tickets -> GrantRows]
  BY <1>0 DEF IInv, TypeOK
<1>2. ASSUME UNCHANGED <<chal, grant, spent>>
      PROVE  [Ticket!Next]_Ticket!vars
  BY <1>2, Stutters DEF SameTicket
<1>3. CASE CreateStepUpToken(r)
  <2>1. CASE CreateStepUpTokenTx(t, q.for)
    <3>1. /\ grant'[t].st = "live" /\ grant'[t].for = q.for /\ Fresh(t) /\ spent' = spent
      BY <1>1, <1>3, <2>1 DEF CreateStepUpTokenTx, CreateStepUpToken, Held
    <3>2. \A u \in Tickets \ {t} : SameTicket(u)
      BY <1>1, <1>3, <2>1 DEF CreateStepUpTokenTx, CreateStepUpToken, SameTicket
    <3> QED BY <1>1, <3>1, <3>2, Issues
  <2>2. CASE grant' = grant
    BY <1>2, <1>3, <2>2 DEF CreateStepUpToken
  <2> QED BY <1>3, <2>1, <2>2 DEF CreateStepUpToken
<1>4. CASE CreateStepUpChallenge(r)
  <2>1. /\ chal'[t].st = "live" /\ chal'[t].for = q.for /\ Fresh(t) /\ spent' = spent
    BY <1>1, <1>4 DEF CreateStepUpChallenge, Held
  <2>2. \A u \in Tickets \ {t} : SameTicket(u)
    BY <1>1, <1>4 DEF CreateStepUpChallenge, SameTicket
  <2> QED BY <1>1, <2>1, <2>2, Issues
<1>5. CASE CompleteStepUpChallenge(r)
  <2>1. CASE Completes(t) /\ sess[q.for.s] = "live"
    <3>1. /\ chal[t].st = "live" /\ grant'[t].st = "live" /\ grant'[t].for = q.for /\ chal[t].for = q.for
          /\ spent' = spent
      BY <1>1, <1>5, <2>1 DEF CreateStepUpTokenTx, CompleteStepUpChallenge, Held, Completes, Usable
    <3>2. grant[t].st = "none"
      BY <1>1, <3>1 DEF IInv, Rows
    <3>3. TicketHolder(t)' = TicketHolder(t)
      BY <3>1, <3>2 DEF TicketHolder
    <3>4. \A u \in Tickets \ {t} : SameTicket(u)
      <4>1. /\ grant' = [grant EXCEPT ![t] = [st |-> "live", for |-> q.for]]
            /\ chal' = [chal EXCEPT ![t].st = "used"] /\ spent' = spent
        BY <1>5, <2>1 DEF CreateStepUpTokenTx, CompleteStepUpChallenge
      <4> QED BY <1>1, <4>1 DEF SameTicket
    <3>5. Ticket!Next
      BY <1>1, <3>1, <3>3, <3>4, Advances
    <3> QED BY <3>5
  <2>2. CASE ~(Completes(t) /\ sess[q.for.s] = "live")
    BY <1>2, <1>5, <2>2 DEF CompleteStepUpChallenge
  <2> QED BY <2>1, <2>2
<1> QED BY <1>3, <1>4, <1>5

\* ConsumeStepUpToken.
LEMMA ConsumeImplements ==
    ASSUME IInv, IInv', NEW r \in Requests, NEW t \in Tickets, NEW s \in Sessions, NEW op \in Ops,
           ConsumeStepUpToken(r, t, s, op)
    PROVE  Ticket!Next
<1>1. /\ chal \in [Tickets -> ChalRows] /\ grant \in [Tickets -> GrantRows] /\ grant[t] \in GrantRows
  BY DEF IInv, TypeOK
<1>2. /\ grant[t].st = "live" /\ grant'[t].st = "used" /\ grant'[t].for = grant[t].for
      /\ chal' = chal /\ spent' = [spent EXCEPT ![t] = @ + 1] /\ spent \in [Tickets -> Nat]
  BY <1>1 DEF ConsumeStepUpToken, Consumed, GrantRows, IInv, TypeOK
<1>3. TicketHolder(t)' = TicketHolder(t)
  BY <1>2 DEF TicketHolder
<1>4. \A u \in Tickets \ {t} : SameTicket(u)
  BY <1>1, <1>2 DEF ConsumeStepUpToken, Consumed, SameTicket
<1> QED BY <1>2, <1>3, <1>4, Advances

\* PhoneAnswers, FinishFails, CancelStepUp, StepUpLapses and BeginRegistration.
LEMMA TicketImplements ==
    ASSUME IInv, IInv', NEW t \in Tickets,
           PhoneAnswers(t) \/ FinishFails(t) \/ CancelStepUp(t) \/ StepUpLapses(t) \/ BeginRegistration(t)
    PROVE  [Ticket!Next]_Ticket!vars
<1>1. /\ chal \in [Tickets -> ChalRows] /\ grant \in [Tickets -> GrantRows]
      /\ chal[t] \in ChalRows /\ grant[t] \in GrantRows /\ spent' = spent
      /\ chal[t].st = "live" => grant[t].st = "none"
      /\ grant[t].st = "live" => chal[t].st # "live"
  BY DEF IInv, TypeOK, Rows, PhoneAnswers, FinishFails, CancelStepUp, StepUpLapses, BeginRegistration
<1>2. \A u \in Tickets \ {t} : SameTicket(u)
  BY <1>1 DEF SameTicket, PhoneAnswers, FinishFails, CancelStepUp, StepUpLapses, BeginRegistration
<1>3. chal'[t].for = chal[t].for /\ grant'[t].for = grant[t].for
  BY <1>1 DEF ChalRows, GrantRows, PhoneAnswers, FinishFails, CancelStepUp, StepUpLapses, BeginRegistration
<1>4. \/ chal'[t].st = chal[t].st /\ grant'[t].st = grant[t].st
      \/ chal[t].st = "live" /\ chal'[t].st = "used" /\ grant'[t].st = grant[t].st
      \/ grant[t].st = "live" /\ grant'[t].st = "used" /\ chal'[t].st = chal[t].st
  BY <1>1 DEF ChalRows, GrantRows, PhoneAnswers, FinishFails, CancelStepUp, MayCancel, Usable, StepUpLapses, BeginRegistration
<1>5. CASE chal'[t].st = chal[t].st /\ grant'[t].st = grant[t].st
  <2>1. SameTicket(t)
    BY <1>1, <1>3, <1>5 DEF SameTicket
  <2> QED BY <1>2, <2>1, Stutters
<1>6. CASE ~(chal'[t].st = chal[t].st /\ grant'[t].st = grant[t].st)
  <2>1. /\ grant[t].st = "live" \/ chal[t].st = "live"
        /\ grant'[t].st # "live" /\ chal'[t].st # "live" /\ ~(Fresh(t)')
    BY <1>1, <1>4, <1>6 DEF Fresh
  <2>2. TicketHolder(t)' = TicketHolder(t)
    BY <1>1, <1>3, <1>4, <1>6 DEF TicketHolder
  <2>3. \A u \in {t} : /\ grant[u].st = "live" \/ chal[u].st = "live"
                       /\ grant'[u].st # "live" /\ chal'[u].st # "live" /\ ~(Fresh(u)')
                       /\ TicketHolder(u)' = TicketHolder(u)
    BY <2>1, <2>2
  <2>4. {t} \in SUBSET Tickets
    OBVIOUS
  <2> QED BY <1>1, <1>2, <2>3, <2>4, Voids
<1> QED BY <1>5, <1>6

\* Initially no ticket was issued.
LEMMA TicketInit == Init => Ticket!Init
<1> SUFFICES ASSUME Init PROVE Ticket!Init
  OBVIOUS
<1>1. \A t \in Tickets : spent[t] = 0 /\ grant[t].st = "none" /\ chal[t].st = "none" /\ chal[t].for = NoHolder
  BY DEF Init
<1>2. \A t \in Tickets : TicketState(t) = "unissued" /\ TicketHolder(t) = NoHolder
  BY <1>1 DEF TicketState, TicketHolder
<1>3. spent = [t \in Tickets |-> 0]
  BY DEF Init
<1> QED BY <1>2, <1>3 DEF Ticket!Init

\* Every step is a step of a ticket or leaves the tickets alone.
LEMMA TicketStep == IInv /\ IInv' /\ [Next]_vars => [Ticket!Next]_Ticket!vars
<1> SUFFICES ASSUME IInv, IInv', [Next]_vars PROVE [Ticket!Next]_Ticket!vars
  OBVIOUS
<1>0. ASSUME UNCHANGED <<chal, grant, spent>>
      PROVE  [Ticket!Next]_Ticket!vars
  BY <1>0, Stutters DEF SameTicket
<1>1. CASE (\E s \in Sessions : Logout(s) \/ RevokeOthers(s)) \/ RevokeUserAccess \/ ResetUserMFA
  BY <1>1, RevocationVoids DEF Logout, RevokeOthers, RevokeUserAccess, ResetUserMFA
<1>2. CASE \E r \in Requests : RevokeOtherSessions(r)
  BY <1>2, RevocationVoids DEF RevokeOtherSessions
<1>3. CASE \E r \in Requests, s \in Sessions, op \in Ops, t \in Tickets : ConsumeStepUpToken(r, t, s, op)
  BY <1>3, ConsumeImplements
<1>4. CASE \E r \in Requests : CreateStepUpToken(r) \/ CreateStepUpChallenge(r) \/ CompleteStepUpChallenge(r)
  BY <1>4, WriteImplements
<1>5. CASE \E t \in Tickets :
             PhoneAnswers(t) \/ FinishFails(t) \/ CancelStepUp(t) \/ StepUpLapses(t) \/ BeginRegistration(t)
  BY <1>5, TicketImplements
<1>6. CASE (\E s \in Sessions : Login(s)) \/ (\E r \in Requests, t \in Tickets : FinishStepUp(r, t))
           \/ (\E r \in Requests, s \in Sessions, op \in Ops, t \in Tickets : RequestStepUp(r, s, op, t))
  BY <1>0, <1>6 DEF Login, FinishStepUp, RequestStepUp
<1>7. CASE \E r \in Requests :
             \/ ProveAtOnce(r) \/ Abandon(r) \/ EnableTOTP(r) \/ GenerateRecoveryCodes(r)
             \/ FinishRegistration(r) \/ CreateWebAuthnCredential(r) \/ DeletePasskey(r)
             \/ GenerateDevicePairingToken(r)
  BY <1>0, <1>7 DEF ProveAtOnce, Abandon, EnableTOTP, GenerateRecoveryCodes, FinishRegistration,
                    CreateWebAuthnCredential, DeletePasskey, GenerateDevicePairingToken
<1>8. CASE (\E r \in Requests : DeleteUserDevice(r) \/ SetDeviceMFAApprover(r))
           \/ PairingLapses \/ \E d \in Devices : RegisterNativeDevice(d)
  BY <1>0, <1>8 DEF DeleteUserDevice, SetDeviceMFAApprover, ChangeEnrollmentDevice, PairingLapses, RegisterNativeDevice
<1>9. CASE UNCHANGED vars
  BY <1>0, <1>9 DEF vars
<1> QED BY <1>1, <1>2, <1>3, <1>4, <1>5, <1>6, <1>7, <1>8, <1>9 DEF Next

\* The challenge and the grant, written by requests that overlap, implement a ticket that
\* authorises one change at most and is worth nothing once spent or withdrawn: a second spend,
\* or a grant that is live again, would be no step of SingleUse.
THEOREM StepUpImplementsSingleUse == Spec => OneChangePerTicket
  BY StepUpInvariance, TicketInit, TicketStep, PTL DEF Spec, OneChangePerTicket, Ticket!Spec
-----------------------------------------------------------------------------
(* DeviceSignOn: the inductive invariant. *)

\* Where an exchange has used its assertion.
Used(x) == ex[x].at \in {"fresh", "decided", "session", "recorded", "done"} \/ token[x] # "none"

\* An exchange past its parse holds a signed assertion and the key that verified it.
ReadKey ==
    \A x \in Exchanges :
       ex[x].at # "new" => /\ ex[x].a \in Assertions
                           /\ asn[ex[x].a].key # 0
                           /\ ex[x].dev.key = asn[ex[x].a].key

\* Nothing is recorded before the record, nor for an exchange that has not begun.
NotBeforeRecord ==
    \A x \in Exchanges :
       ex[x].at \in {"new", "parsed", "fresh", "decided", "session"} => token[x] = "none"

\* An exchange that decided under the revision the client still has decided rightly.
DecidedUnder ==
    \A x \in Exchanges :
       /\ ex[x].rev <= policy.rev
       /\ ex[x].at \in {"decided", "session"} /\ ex[x].rev = policy.rev
             => Satisfies(policy.mode, ex[x].dev.level)

\* An assertion used in time is remembered until its row outlives every clock that takes it.
Remembered ==
    \A x \in Exchanges :
       Used(x) /\ ~ex[x].late => ex[x].a \in jtis \/ now > JtiExpiresAt(ex[x].a)

\* Of two uses of one assertion one is late.
UsedOnce ==
    \A x, y \in Exchanges :
       x # y /\ ex[x].a = ex[y].a /\ Used(x) /\ Used(y) => ex[x].late \/ ex[y].late

SignOnInv == SignOnTypeOK /\ ReadKey /\ NotBeforeRecord /\ DecidedUnder /\ TokenUnderPolicy

\* What the life of an assertion needs.
UseInv == Remembered /\ UsedOnce

Environment ==
    \/ Tick
    \/ Pair \/ DeleteNativeDevice \/ SweepAttestations \/ SetNativeDeviceAttestation \/ ResetUserMFAOfPhone
    \/ \E b \in BOOLEAN : SetNativeDeviceCanSignOn(b) \/ SetNativeDeviceMFAApprover(b) \/ SetActive(b)
    \/ \E m \in Modes : SetAppAuthenticationPolicy(m)

Exchange(x) ==
    \/ \E a \in Assertions : ParseDeviceAssertion(x, a)
    \/ ConsumeDeviceSignOnJTI(x) \/ Decide(x) \/ CreateSession(x)
    \/ RecordIssuedToken(x) \/ Respond(x) \/ Crash(x)
-----------------------------------------------------------------------------
(* Types. *)

\* The initial state is well typed.
LEMMA TypeInit == SignOnInit => SignOnTypeOK
  BY DeviceSignOnAssumption DEF SignOnInit, SignOnTypeOK, DevRows, NoDev, Levels, Modes, ExRows, NewEx

\* What the phone, the clock and administrators do keeps the types.
LEMMA TypeEnvironment ==
    ASSUME SignOnTypeOK, Environment
    PROVE  SignOnTypeOK'
<1> USE DeviceSignOnAssumption
<1>1. CASE Tick
  BY <1>1 DEF SignOnTypeOK, Tick
<1>2. CASE Pair
  <2>1. dev' \in DevRows /\ keys' \in 0..MaxKeys
    BY <1>2 DEF SignOnTypeOK, Pair, DevRows, Levels
  <2> QED BY <1>2, <2>1 DEF SignOnTypeOK, Pair
<1>3. CASE DeleteNativeDevice
  BY <1>3 DEF SignOnTypeOK, DeleteNativeDevice, DevRows, NoDev, Levels
<1>4. CASE SweepAttestations
  BY <1>4 DEF SignOnTypeOK, SweepAttestations, DevRows
<1>5. CASE SetNativeDeviceAttestation
  <2>1. dev' \in DevRows
    BY <1>5 DEF SignOnTypeOK, SetNativeDeviceAttestation, DevRows, Levels
  <2> QED BY <1>5, <2>1 DEF SignOnTypeOK, SetNativeDeviceAttestation
<1>6. CASE ResetUserMFAOfPhone
  <2>1. dev' \in DevRows
    BY <1>6 DEF SignOnTypeOK, ResetUserMFAOfPhone, DevRows
  <2> QED BY <1>6, <2>1 DEF SignOnTypeOK, ResetUserMFAOfPhone, RevokeSignOns
<1>7. ASSUME NEW b \in BOOLEAN, SetNativeDeviceCanSignOn(b) PROVE SignOnTypeOK'
  <2>1. dev' \in DevRows
    BY <1>7 DEF SignOnTypeOK, SetNativeDeviceCanSignOn, DevRows
  <2> QED BY <1>7, <2>1 DEF SignOnTypeOK, SetNativeDeviceCanSignOn
<1>8. ASSUME NEW b \in BOOLEAN, SetNativeDeviceMFAApprover(b) PROVE SignOnTypeOK'
  <2>1. dev' \in DevRows
    BY <1>8 DEF SignOnTypeOK, SetNativeDeviceMFAApprover, DevRows
  <2> QED BY <1>8, <2>1 DEF SignOnTypeOK, SetNativeDeviceMFAApprover
<1>9. ASSUME NEW b \in BOOLEAN, SetActive(b) PROVE SignOnTypeOK'
  BY <1>9 DEF SignOnTypeOK, SetActive, RevokeSignOns
<1>10. ASSUME NEW m \in Modes, SetAppAuthenticationPolicy(m) PROVE SignOnTypeOK'
  BY <1>10 DEF SignOnTypeOK, SetAppAuthenticationPolicy
<1> QED BY <1>1, <1>2, <1>3, <1>4, <1>5, <1>6, <1>7, <1>8, <1>9, <1>10 DEF Environment

\* A step of an exchange keeps the types.
LEMMA TypeExchange ==
    ASSUME SignOnTypeOK, ReadKey, NEW x \in Exchanges, Exchange(x)
    PROVE  SignOnTypeOK'
<1> USE DeviceSignOnAssumption
<1>p. ex \in [Exchanges -> ExRows] /\ dev \in DevRows /\ policy.rev \in 0..MaxEdits
  BY DEF SignOnTypeOK
<1>s. ASSUME NEW at \in {"decided", "session", "recorded", "done", "refused", "crashed"},
             ex' = [ex EXCEPT ![x].at = at]
      PROVE  ex' \in [Exchanges -> ExRows]
  BY <1>p, <1>s DEF ExRows
<1>1. ASSUME NEW a \in Assertions, ParseDeviceAssertion(x, a) PROVE SignOnTypeOK'
  <2> DEFINE e1 == [ex EXCEPT ![x].at = "parsed"]
             e2 == [e1 EXCEPT ![x].a = a]
  <2>1. e1 \in [Exchanges -> ExRows]
    BY <1>p DEF ExRows
  <2>2. ex' \in [Exchanges -> ExRows]
    <3>1. ex' = [e2 EXCEPT ![x].dev = dev]
      BY <1>1 DEF ParseDeviceAssertion
    <3>2. e2 \in [Exchanges -> ExRows]
      <4> HIDE DEF e1
      <4> QED BY <2>1 DEF ExRows
    <3> HIDE DEF e2
    <3> QED BY <3>1, <3>2, <1>p DEF ExRows
  <2> QED BY <1>1, <2>2 DEF SignOnTypeOK, ParseDeviceAssertion
<1>2. CASE ConsumeDeviceSignOnJTI(x)
  <2>1. CASE ex[x].a \in Swept
    <3>1. ex' \in [Exchanges -> ExRows]
      BY <1>2, <2>1, <1>s DEF ConsumeDeviceSignOnJTI
    <3> QED BY <1>2, <2>1, <3>1 DEF SignOnTypeOK, ConsumeDeviceSignOnJTI, Swept
  <2>2. CASE ex[x].a \notin Swept
    <3> DEFINE l == now > ExpiresAt(ex[x].a) + Skew
    <3>1. ex' = [ex EXCEPT ![x].at = "fresh", ![x].late = l] /\ l \in BOOLEAN
      BY <1>2, <2>2 DEF ConsumeDeviceSignOnJTI
    <3>3. ex' \in [Exchanges -> ExRows]
      <4>1. CASE ex' = [ex EXCEPT ![x].at = "fresh", ![x].late = TRUE]
        BY <4>1, <1>p, ZenonT(30) DEF ExRows
      <4>2. CASE ex' = [ex EXCEPT ![x].at = "fresh", ![x].late = FALSE]
        BY <4>2, <1>p, ZenonT(30) DEF ExRows
      <4> HIDE DEF l
      <4>3. (l = TRUE) \/ (l = FALSE)
        BY <3>1, Zenon
      <4>4. CASE l = TRUE
        <5>1. ex' = [ex EXCEPT ![x].at = "fresh", ![x].late = TRUE]
          BY <3>1, <4>4, Zenon
        <5> QED BY <4>1, <5>1
      <4>5. CASE l = FALSE
        <5>1. ex' = [ex EXCEPT ![x].at = "fresh", ![x].late = FALSE]
          BY <3>1, <4>5, Zenon
        <5> QED BY <4>2, <5>1
      <4> QED BY <4>3, <4>4, <4>5
    <3>4. ex[x].a \in Assertions
      BY <1>2 DEF ConsumeDeviceSignOnJTI, ReadKey
    <3> QED BY <1>2, <2>2, <3>3, <3>4 DEF SignOnTypeOK, ConsumeDeviceSignOnJTI, Swept
  <2> QED BY <2>1, <2>2
<1>3. CASE Decide(x)
  <2> DEFINE at == IF active /\ Satisfies(policy.mode, ex[x].dev.level) THEN "decided" ELSE "refused"
  <2>1. at \in {"decided", "refused"}
    OBVIOUS
  <2>2. ex' = [ex EXCEPT ![x].at = at, ![x].rev = policy.rev]
    BY <1>3 DEF Decide
  <2>3. ex' \in [Exchanges -> ExRows]
    <3> HIDE DEF at
    <3> QED BY <2>1, <2>2, <1>p, ZenonT(30) DEF ExRows
  <2> QED BY <1>3, <2>3 DEF SignOnTypeOK, Decide
<1>4. CASE CreateSession(x)
  <2>1. ex' \in [Exchanges -> ExRows]
    <3>1. CASE active
      BY <1>4, <3>1, <1>s DEF CreateSession
    <3>2. CASE ~active
      BY <1>4, <3>2, <1>s DEF CreateSession
    <3> QED BY <3>1, <3>2
  <2> QED BY <1>4, <2>1 DEF SignOnTypeOK, CreateSession
<1>5. CASE RecordIssuedToken(x)
  <2>1. ex' \in [Exchanges -> ExRows]
    BY <1>5, <1>s DEF RecordIssuedToken
  <2> QED BY <1>5, <2>1 DEF SignOnTypeOK, RecordIssuedToken
<1>6. CASE Respond(x)
  <2>1. ex' \in [Exchanges -> ExRows]
    BY <1>6, <1>s DEF Respond
  <2> QED BY <1>6, <2>1 DEF SignOnTypeOK, Respond
<1>7. CASE Crash(x)
  <2>1. ex' \in [Exchanges -> ExRows]
    BY <1>7, <1>s DEF Crash
  <2> QED BY <1>7, <2>1 DEF SignOnTypeOK, Crash
<1> QED BY <1>1, <1>2, <1>3, <1>4, <1>5, <1>6, <1>7 DEF Exchange

\* So does the phone when it signs.
LEMMA TypeSign ==
    ASSUME SignOnTypeOK, NEW a \in Assertions, Sign(a)
    PROVE  SignOnTypeOK'
<1>1. PICK k \in 1..keys : asn' = [asn EXCEPT ![a] = [key |-> k, iat |-> now]]
  BY DEF Sign
<1>2. k \in 0..MaxKeys
  BY <1>1, DeviceSignOnAssumption DEF SignOnTypeOK
<1> QED BY <1>1, <1>2 DEF SignOnTypeOK, Sign
-----------------------------------------------------------------------------
(* The policy and the phone. *)

\* Initially no exchange has begun.
LEMMA PolicyInit == SignOnInit => SignOnInv
<1> SUFFICES ASSUME SignOnInit PROVE SignOnInv
  OBVIOUS
<1>1. SignOnTypeOK
  BY TypeInit
<1>2. \A x \in Exchanges : ex[x].at = "new" /\ ex[x].rev = 0 /\ token[x] = "none"
  BY DEF SignOnInit, NewEx
<1>3. policy.rev = 0
  BY DEF SignOnInit
<1> QED BY <1>1, <1>2, <1>3 DEF SignOnInv, ReadKey, NotBeforeRecord, DecidedUnder, TokenUnderPolicy

\* Nothing outside the exchanges leaves a token or a decision under a policy it does not meet.
LEMMA PolicyEnvironment ==
    ASSUME SignOnInv, Environment
    PROVE  SignOnInv'
<1> USE DeviceSignOnAssumption
<1>0. SignOnTypeOK'
  BY TypeEnvironment DEF SignOnInv
<1>1. asn' = asn /\ ex' = ex /\ (policy' = policy \/ \A x \in Exchanges : ex[x].rev < policy'.rev)
  BY DEF Environment, Tick, Pair, DeleteNativeDevice, SweepAttestations, SetNativeDeviceAttestation,
         ResetUserMFAOfPhone, SetNativeDeviceCanSignOn, SetNativeDeviceMFAApprover, SetActive,
         SetAppAuthenticationPolicy, SignOnInv, SignOnTypeOK, DecidedUnder, ExRows
<1>2. \A x \in Exchanges : token[x] = "none" => token'[x] = "none"
  BY DEF Environment, Tick, Pair, DeleteNativeDevice, SweepAttestations, SetNativeDeviceAttestation,
         ResetUserMFAOfPhone, SetNativeDeviceCanSignOn, SetNativeDeviceMFAApprover, SetActive,
         SetAppAuthenticationPolicy, RevokeSignOns, SignOnInv, SignOnTypeOK
<1>3. \A x \in Exchanges : token'[x] = "live" => token[x] = "live" /\ policy' = policy /\ active' = active
  BY DEF Environment, Tick, Pair, DeleteNativeDevice, SweepAttestations, SetNativeDeviceAttestation,
         ResetUserMFAOfPhone, SetNativeDeviceCanSignOn, SetNativeDeviceMFAApprover, SetActive,
         SetAppAuthenticationPolicy, RevokeSignOns, SignOnInv, SignOnTypeOK, TokenUnderPolicy
<1>4. ReadKey'
  BY <1>1 DEF ReadKey, SignOnInv
<1>5. NotBeforeRecord'
  BY <1>1, <1>2 DEF NotBeforeRecord, SignOnInv
<1>6. DecidedUnder'
  <2>1. CASE policy' = policy
    BY <1>1, <2>1 DEF DecidedUnder, SignOnInv
  <2>2. CASE \A x \in Exchanges : ex[x].rev < policy'.rev
    <3>1. \A x \in Exchanges : ex[x].rev \in Nat
      BY DEF SignOnInv, SignOnTypeOK, ExRows
    <3>2. policy'.rev \in Nat
      BY <1>0 DEF SignOnTypeOK
    <3> QED BY <1>1, <2>2, <3>1, <3>2 DEF DecidedUnder
  <2> QED BY <1>1, <2>1, <2>2
<1>7. TokenUnderPolicy'
  BY <1>1, <1>3 DEF TokenUnderPolicy, SignOnInv
<1> QED BY <1>0, <1>4, <1>5, <1>6, <1>7 DEF SignOnInv

\* Signing touches no exchange, and no assertion that an exchange holds.
LEMMA PolicySign ==
    ASSUME SignOnInv, NEW a \in Assertions, Sign(a)
    PROVE  SignOnInv'
<1>0. SignOnTypeOK'
  BY TypeSign DEF SignOnInv
<1>1. ReadKey'
  <2> SUFFICES ASSUME NEW x \in Exchanges, ex'[x].at # "new"
               PROVE  /\ ex'[x].a \in Assertions
                      /\ asn'[ex'[x].a].key # 0
                      /\ ex'[x].dev.key = asn'[ex'[x].a].key
    BY DEF ReadKey
  <2>1. ex' = ex
    BY DEF Sign
  <2>2. ex[x].a \in Assertions /\ asn[ex[x].a].key # 0 /\ ex[x].dev.key = asn[ex[x].a].key
    BY <2>1 DEF SignOnInv, ReadKey
  <2>3. asn'[ex[x].a] = asn[ex[x].a]
    BY <2>2 DEF Sign, SignOnInv, SignOnTypeOK
  <2> QED BY <2>1, <2>2, <2>3
<1> QED BY <1>0, <1>1 DEF SignOnInv, Sign, NotBeforeRecord, DecidedUnder, TokenUnderPolicy

\* What a step of an exchange x does to the others.
LEMMA OneExchange ==
    ASSUME SignOnTypeOK, NEW x \in Exchanges, Exchange(x)
    PROVE  /\ \A y \in Exchanges \ {x} : ex'[y] = ex[y] /\ token'[y] = token[y]
           /\ UNCHANGED <<now, active, dev, keys, sweep, policy, asn>>
  BY DEF SignOnTypeOK, Exchange, ParseDeviceAssertion, ConsumeDeviceSignOnJTI, Decide, CreateSession,
         RecordIssuedToken, Respond, Crash

\* A step of an exchange decides, and records, only under the policy and for the phone there is.
LEMMA PolicyExchange ==
    ASSUME SignOnInv, NEW x \in Exchanges, Exchange(x)
    PROVE  SignOnInv'
<1> USE DeviceSignOnAssumption
<1>0. SignOnTypeOK /\ SignOnTypeOK'
  BY TypeExchange DEF SignOnInv
<1>1. /\ \A y \in Exchanges \ {x} : ex'[y] = ex[y] /\ token'[y] = token[y]
      /\ UNCHANGED <<now, active, dev, keys, sweep, policy, asn>>
  BY <1>0, OneExchange
<1>2. policy.rev \in Nat /\ ex[x].rev \in Nat /\ ex \in [Exchanges -> ExRows] /\ token \in [Exchanges -> {"none", "live", "dead"}]
  BY <1>0 DEF SignOnTypeOK, ExRows
<1>a. ASSUME NEW a \in Assertions, ParseDeviceAssertion(x, a)
      PROVE  /\ ex'[x].at = "parsed" /\ ex'[x].a = a /\ ex'[x].dev = dev /\ ex'[x].rev = ex[x].rev
             /\ token' = token /\ ex[x].at = "new" /\ asn[a].key # 0 /\ dev.key = asn[a].key
  BY <1>a, <1>2 DEF ParseDeviceAssertion, Verifies, ExRows
<1>b. ASSUME ConsumeDeviceSignOnJTI(x)
      PROVE  /\ ex'[x].at \in {"fresh", "refused"} /\ ex'[x].a = ex[x].a /\ ex'[x].dev = ex[x].dev
             /\ ex'[x].rev = ex[x].rev /\ token' = token /\ ex[x].at = "parsed"
  BY <1>b, <1>2 DEF ConsumeDeviceSignOnJTI, ExRows
<1>c. ASSUME Decide(x)
      PROVE  /\ ex'[x].at \in {"decided", "refused"} /\ ex'[x].a = ex[x].a /\ ex'[x].dev = ex[x].dev
             /\ ex'[x].at = "decided" => Satisfies(policy.mode, ex[x].dev.level)
             /\ ex'[x].rev = policy.rev /\ token' = token /\ ex[x].at = "fresh"
  <2>1. CASE active /\ Satisfies(policy.mode, ex[x].dev.level)
    BY <1>c, <1>2, <2>1 DEF Decide, ExRows
  <2>2. CASE ~(active /\ Satisfies(policy.mode, ex[x].dev.level))
    BY <1>c, <1>2, <2>2 DEF Decide, ExRows
  <2> QED BY <2>1, <2>2
<1>d. ASSUME CreateSession(x)
      PROVE  /\ ex'[x].at \in {"session", "refused"} /\ ex'[x].a = ex[x].a /\ ex'[x].dev = ex[x].dev
             /\ ex'[x].rev = ex[x].rev /\ token' = token /\ ex[x].at = "decided"
  <2>1. CASE active
    BY <1>d, <1>2, <2>1 DEF CreateSession, ExRows
  <2>2. CASE ~active
    BY <1>d, <1>2, <2>2 DEF CreateSession, ExRows
  <2> QED BY <2>1, <2>2
<1>e. ASSUME RecordIssuedToken(x)
      PROVE  /\ ex'[x].at \in {"recorded", "refused"} /\ ex'[x].a = ex[x].a /\ ex'[x].dev = ex[x].dev
             /\ ex'[x].rev = ex[x].rev /\ ex[x].at = "session"
             /\ token'[x] = "live" => token[x] = "live" \/ (active /\ policy.rev = ex[x].rev)
  BY <1>e, <1>2 DEF RecordIssuedToken, PolicyBound, ExRows
<1>f. ASSUME Respond(x)
      PROVE  /\ ex'[x].at \in {"done", "refused"} /\ ex'[x].a = ex[x].a /\ ex'[x].dev = ex[x].dev
             /\ ex'[x].rev = ex[x].rev /\ ex[x].at = "recorded"
             /\ token'[x] = "live" => token[x] = "live"
  BY <1>f, <1>2 DEF Respond, ExRows
<1>g. ASSUME Crash(x)
      PROVE  /\ ex'[x].at = "crashed" /\ ex'[x].a = ex[x].a /\ ex'[x].dev = ex[x].dev
             /\ ex'[x].rev = ex[x].rev /\ ex[x].at # "new" /\ token' = token
  BY <1>g, <1>2 DEF Crash, ExRows
<1>3. ReadKey'
  <2>1. ex'[x].at # "new" =>
          ex'[x].a \in Assertions /\ asn[ex'[x].a].key # 0 /\ ex'[x].dev.key = asn[ex'[x].a].key
    BY <1>a, <1>b, <1>c, <1>d, <1>e, <1>f, <1>g DEF Exchange, SignOnInv, ReadKey
  <2> QED BY <1>1, <2>1 DEF SignOnInv, ReadKey
<1>4. NotBeforeRecord'
  <2>1. ex'[x].at \in {"new", "parsed", "fresh", "decided", "session"} => token'[x] = "none"
    BY <1>a, <1>b, <1>c, <1>d, <1>e, <1>f, <1>g DEF Exchange, SignOnInv, NotBeforeRecord
  <2> QED BY <1>1, <2>1 DEF SignOnInv, NotBeforeRecord
<1>5. DecidedUnder'
  <2>1. /\ ex'[x].rev <= policy.rev
        /\ ex'[x].at \in {"decided", "session"} /\ ex'[x].rev = policy.rev
             => Satisfies(policy.mode, ex'[x].dev.level)
    BY <1>a, <1>b, <1>c, <1>d, <1>e, <1>f, <1>g, <1>2 DEF Exchange, SignOnInv, DecidedUnder
  <2> QED BY <1>1, <2>1 DEF SignOnInv, DecidedUnder
<1>6. TokenUnderPolicy'
  <2>1. token'[x] = "live" => active /\ Satisfies(policy.mode, ex'[x].dev.level)
    BY <1>a, <1>b, <1>c, <1>d, <1>e, <1>f, <1>g DEF Exchange, SignOnInv, DecidedUnder, TokenUnderPolicy, NotBeforeRecord
  <2> QED BY <1>1, <2>1 DEF SignOnInv, TokenUnderPolicy
<1> QED BY <1>0, <1>3, <1>4, <1>5, <1>6 DEF SignOnInv

\* Every step is one of the three kinds.
LEMMA Steps == SignOnNext => Environment \/ (\E a \in Assertions : Sign(a)) \/ (\E x \in Exchanges : Exchange(x))
  BY DEF SignOnNext, Environment, Exchange

\* The invariant holds in every reachable state.
LEMMA Invariance == SignOnSpec => []SignOnInv
<1>1. SignOnInv /\ [SignOnNext]_signOnVars => SignOnInv'
  <2> SUFFICES ASSUME SignOnInv, [SignOnNext]_signOnVars PROVE SignOnInv'
    OBVIOUS
  <2>1. CASE UNCHANGED signOnVars
    BY <2>1 DEF signOnVars, SignOnInv, SignOnTypeOK, ReadKey, NotBeforeRecord, DecidedUnder, TokenUnderPolicy
  <2>2. CASE SignOnNext
    BY <2>2, Steps, PolicyEnvironment, PolicySign, PolicyExchange
  <2> QED BY <2>1, <2>2
<1> QED BY PolicyInit, <1>1, PTL DEF SignOnSpec

\* Every reachable state of device sign-on is well typed.
THEOREM SignOnTypes == SignOnSpec => []SignOnTypeOK
  BY Invariance, PTL DEF SignOnInv

\* However exchanges overlap with edits of the policy and disabling of the account, a live token
\* satisfies the policy its client has now, on an active account.
THEOREM TokensMeetPolicy == SignOnSpec => []TokenUnderPolicy
  BY Invariance, PTL DEF SignOnInv

-----------------------------------------------------------------------------
(* The moment of the record. *)

\* A step that records a token sees the phone, the key that verified the assertion and the grade
\* the token will claim.
LEMMA RecordStep ==
    ASSUME SignOnInv, SignOnNext, NEW x \in Exchanges, token[x] = "none", token'[x] = "live"
    PROVE  MaySignOn(dev) /\ dev.key = asn[ex[x].a].key /\ dev.level = ex[x].dev.level
<1>1. ~Environment
  BY DEF Environment, Tick, Pair, DeleteNativeDevice, SweepAttestations, SetNativeDeviceAttestation,
         ResetUserMFAOfPhone, SetNativeDeviceCanSignOn, SetNativeDeviceMFAApprover, SetActive,
         SetAppAuthenticationPolicy, RevokeSignOns, SignOnInv, SignOnTypeOK
<1>2. ASSUME NEW a \in Assertions, Sign(a) PROVE FALSE
  BY <1>2 DEF Sign
<1>3. PICK y \in Exchanges : Exchange(y)
  BY <1>1, <1>2, Steps
<1>4. y = x
  BY <1>3, OneExchange DEF SignOnInv
<1>5. RecordIssuedToken(x)
  BY <1>3, <1>4 DEF Exchange, ParseDeviceAssertion, ConsumeDeviceSignOnJTI, Decide, CreateSession, Respond,
     Crash, SignOnInv, SignOnTypeOK
<1>6. DeviceBound(x) /\ ex[x].at = "session"
  BY <1>5 DEF RecordIssuedToken, SignOnInv, SignOnTypeOK
<1> QED BY <1>6 DEF DeviceBound, SignOnInv, ReadKey

\* No toggle, pairing, regrading or deletion during an exchange goes unseen by the record of its
\* token, whatever else is interleaved.
THEOREM RecordSeesDevice == SignOnSpec => RecordedForTheDevice
<1>1. SignOnInv /\ [SignOnNext]_signOnVars =>
        [\A x \in Exchanges :
          token[x] = "none" /\ token'[x] = "live" =>
             /\ MaySignOn(dev) /\ dev.key = asn[ex[x].a].key
             /\ dev.level = ex[x].dev.level]_signOnVars
  BY RecordStep DEF signOnVars
<1> QED BY <1>1, Invariance, PTL DEF SignOnSpec, RecordedForTheDevice
-----------------------------------------------------------------------------
(* One assertion, one sign-on. *)

\* Initially nothing is used.
LEMMA UseInit == SignOnInit => UseInv
  BY DEF SignOnInit, NewEx, UseInv, Remembered, UsedOnce, Used

\* A step that uses up nothing, forgets nothing that is in time and lets time pass keeps it.
LEMMA UseStable ==
    ASSUME SignOnInv, UseInv, SignOnInv',
           asn' = asn \/ (\E a \in Assertions : Sign(a)),
           now' \in Nat, now' >= now,
           \A x \in Exchanges : Used(x)' => Used(x) /\ ex'[x].a = ex[x].a /\ ex'[x].late = ex[x].late,
           \A a \in jtis : a \in jtis' \/ now > JtiExpiresAt(a)
    PROVE  UseInv'
<1> USE DeviceSignOnAssumption
<1>1. ASSUME NEW x \in Exchanges, Used(x)
      PROVE  /\ ex[x].a \in Assertions
             /\ asn'[ex[x].a] = asn[ex[x].a]
             /\ JtiExpiresAt(ex[x].a) \in Nat
             /\ JtiExpiresAt(ex[x].a)' = JtiExpiresAt(ex[x].a) \/ ex'[x].a # ex[x].a
  <2>1. ex[x].at # "new"
    BY <1>1 DEF Used, SignOnInv, NotBeforeRecord
  <2>2. ex[x].a \in Assertions /\ asn[ex[x].a].key # 0
    BY <2>1 DEF SignOnInv, ReadKey
  <2>3. asn'[ex[x].a] = asn[ex[x].a]
    BY <2>2 DEF Sign, SignOnInv, SignOnTypeOK
  <2>4. asn[ex[x].a].iat \in Nat
    BY <2>2 DEF SignOnInv, SignOnTypeOK
  <2> QED BY <2>2, <2>3, <2>4 DEF JtiExpiresAt, ExpiresAt
<1>2. now \in Nat
  BY DEF SignOnInv, SignOnTypeOK
<1>3. Remembered'
  <2> SUFFICES ASSUME NEW x \in Exchanges, Used(x)', ~ex'[x].late
               PROVE  ex'[x].a \in jtis' \/ now' > JtiExpiresAt(ex[x].a)'
    BY DEF Remembered
  <2>1. Used(x) /\ ex'[x].a = ex[x].a /\ ~ex[x].late
    OBVIOUS
  <2>2. ex[x].a \in jtis \/ now > JtiExpiresAt(ex[x].a)
    BY <2>1 DEF UseInv, Remembered
  <2> QED BY <1>1, <1>2, <2>1, <2>2
<1>4. UsedOnce'
  BY DEF UseInv, UsedOnce
<1> QED BY <1>3, <1>4 DEF UseInv

\* Outside the exchanges nothing is used, and rows go only in the sweep.
LEMMA UseEnvironment ==
    ASSUME SignOnInv, UseInv, SignOnInv', Environment
    PROVE  UseInv'
<1>1. ex' = ex /\ asn' = asn /\ jtis' = jtis
  BY DEF Environment, Tick, Pair, DeleteNativeDevice, SweepAttestations, SetNativeDeviceAttestation,
         ResetUserMFAOfPhone, SetNativeDeviceCanSignOn, SetNativeDeviceMFAApprover, SetActive,
         SetAppAuthenticationPolicy
<1>2. now' \in Nat /\ now' >= now
  <2>1. now' = now \/ now' = now + 1
    BY DEF Environment, Tick, Pair, DeleteNativeDevice, SweepAttestations, SetNativeDeviceAttestation,
         ResetUserMFAOfPhone, SetNativeDeviceCanSignOn, SetNativeDeviceMFAApprover, SetActive,
         SetAppAuthenticationPolicy
  <2> QED BY <2>1, DeviceSignOnAssumption DEF SignOnInv, SignOnTypeOK
<1>3. \A x \in Exchanges : token[x] = "none" => token'[x] = "none"
  BY DEF Environment, Tick, Pair, DeleteNativeDevice, SweepAttestations, SetNativeDeviceAttestation,
         ResetUserMFAOfPhone, SetNativeDeviceCanSignOn, SetNativeDeviceMFAApprover, SetActive,
         SetAppAuthenticationPolicy, RevokeSignOns, SignOnInv, SignOnTypeOK
<1> QED BY <1>1, <1>2, <1>3, UseStable DEF Used

\* A signature uses nothing.
LEMMA UseSign ==
    ASSUME SignOnInv, UseInv, SignOnInv', NEW a \in Assertions, Sign(a)
    PROVE  UseInv'
<1>1. ex' = ex /\ jtis' = jtis /\ token' = token /\ now' = now
  BY DEF Sign
<1>2. now \in Nat
  BY DeviceSignOnAssumption DEF SignOnInv, SignOnTypeOK
<1> QED BY <1>1, <1>2, UseStable DEF Used

\* Only the consuming step of an exchange uses an assertion, and it is late whenever the
\* row of an earlier use has been swept.
LEMMA UseExchange ==
    ASSUME SignOnInv, UseInv, SignOnInv', NEW x \in Exchanges, Exchange(x)
    PROVE  UseInv'
<1> USE DeviceSignOnAssumption
<1>0. SignOnTypeOK /\ ex \in [Exchanges -> ExRows] /\ now \in Nat
  BY DEF SignOnInv, SignOnTypeOK
<1>1. /\ \A y \in Exchanges \ {x} : ex'[y] = ex[y] /\ token'[y] = token[y]
      /\ UNCHANGED <<now, active, dev, keys, sweep, policy, asn>>
  BY <1>0, OneExchange
<1>2. CASE ~ConsumeDeviceSignOnJTI(x)
  <2>1. jtis' = jtis
    BY <1>2 DEF Exchange, ParseDeviceAssertion, Decide, CreateSession, RecordIssuedToken, Respond, Crash
  <2>2. Used(x)' => Used(x) /\ ex'[x].a = ex[x].a /\ ex'[x].late = ex[x].late
    <3>1. ASSUME NEW a \in Assertions, ParseDeviceAssertion(x, a) PROVE ~Used(x)'
      <4>1. ex'[x].at = "parsed" /\ token' = token /\ ex[x].at = "new"
        BY <3>1, <1>0 DEF ParseDeviceAssertion, ExRows
      <4>2. token[x] = "none"
        BY <4>1 DEF SignOnInv, NotBeforeRecord
      <4> QED BY <4>1, <4>2 DEF Used
    <3>2. CASE Decide(x)
      <4>1. ex[x].at = "fresh"
        BY <3>2 DEF Decide
      <4>2. ex'[x].a = ex[x].a /\ ex'[x].late = ex[x].late
        BY <3>2, <1>0 DEF Decide, ExRows
      <4> QED BY <4>1, <4>2 DEF Used
    <3>3. CASE CreateSession(x)
      <4>1. ex[x].at = "decided"
        BY <3>3 DEF CreateSession
      <4>2. ex'[x].a = ex[x].a /\ ex'[x].late = ex[x].late
        BY <3>3, <1>0 DEF CreateSession, ExRows
      <4> QED BY <4>1, <4>2 DEF Used
    <3>4. CASE RecordIssuedToken(x)
      <4>1. ex[x].at = "session"
        BY <3>4 DEF RecordIssuedToken
      <4>2. ex'[x].a = ex[x].a /\ ex'[x].late = ex[x].late
        BY <3>4, <1>0 DEF RecordIssuedToken, ExRows
      <4> QED BY <4>1, <4>2 DEF Used
    <3>5. CASE Respond(x)
      <4>1. ex[x].at = "recorded"
        BY <3>5 DEF Respond
      <4>2. ex'[x].a = ex[x].a /\ ex'[x].late = ex[x].late
        BY <3>5, <1>0 DEF Respond, ExRows
      <4> QED BY <4>1, <4>2 DEF Used
    <3>6. CASE Crash(x)
      <4>1. ex'[x].a = ex[x].a /\ ex'[x].late = ex[x].late /\ ex'[x].at = "crashed" /\ token' = token
        BY <3>6, <1>0 DEF Crash, ExRows
      <4> QED BY <4>1 DEF Used
    <3> QED BY <1>2, <3>1, <3>2, <3>3, <3>4, <3>5, <3>6 DEF Exchange
  <2>3. \A y \in Exchanges : Used(y)' => Used(y) /\ ex'[y].a = ex[y].a /\ ex'[y].late = ex[y].late
    BY <1>1, <2>2 DEF Used
  <2> QED BY <1>0, <1>1, <2>1, <2>3, UseStable
<1>3. CASE ConsumeDeviceSignOnJTI(x) /\ ex[x].a \in Swept
  <2>1. ex'[x].at = "refused" /\ token' = token /\ ex[x].at = "parsed" /\ jtis' = Swept
    BY <1>0, <1>3 DEF ConsumeDeviceSignOnJTI, ExRows
  <2>2. token[x] = "none"
    BY <2>1 DEF SignOnInv, NotBeforeRecord
  <2>3. \A a \in jtis : a \in Assertions /\ asn[a].iat \in Nat
    BY <1>0 DEF SignOnTypeOK
  <2>4. \A a \in jtis : a \in jtis' \/ now > JtiExpiresAt(a)
    BY <1>0, <2>1, <2>3 DEF Swept, JtiExpiresAt, ExpiresAt
  <2>5. \A y \in Exchanges : Used(y)' => Used(y) /\ ex'[y].a = ex[y].a /\ ex'[y].late = ex[y].late
    BY <1>1, <2>1, <2>2 DEF Used
  <2> QED BY <1>0, <1>1, <2>4, <2>5, UseStable
<1>4. CASE ConsumeDeviceSignOnJTI(x) /\ ex[x].a \notin Swept
  <2> DEFINE late == now > JtiExpiresAt(ex[x].a)
  <2>1. /\ ex'[x].at = "fresh" /\ ex'[x].a = ex[x].a /\ ex'[x].late = late
        /\ ex[x].at = "parsed" /\ jtis' = Swept \cup {ex[x].a} /\ token' = token
    BY <1>0, <1>4 DEF ConsumeDeviceSignOnJTI, ExRows, JtiExpiresAt
  <2>2. /\ \A a \in jtis : a \in Assertions
        /\ \A a \in Assertions : JtiExpiresAt(a) \in Nat /\ JtiExpiresAt(a)' = JtiExpiresAt(a)
    BY <1>0, <1>1 DEF SignOnTypeOK, JtiExpiresAt, ExpiresAt
  <2>3. \A y \in Exchanges : ex[y].at # "new" => ex[y].a \in Assertions
    BY DEF SignOnInv, ReadKey
  <2>4. \A y \in Exchanges \ {x} : Used(y)' => Used(y) /\ ex[y].at # "new"
    BY <1>1 DEF Used, SignOnInv, NotBeforeRecord
  <2>5. Remembered'
    <3> SUFFICES ASSUME NEW y \in Exchanges, Used(y)', ~ex'[y].late
                 PROVE  ex'[y].a \in jtis' \/ now' > JtiExpiresAt(ex[y].a)'
      BY DEF Remembered
    <3>1. CASE y = x
      BY <2>1, <3>1
    <3>2. CASE y # x
      <4>1. ex'[y] = ex[y] /\ Used(y) /\ ex[y].a \in Assertions
        BY <1>1, <2>3, <2>4, <3>2
      <4>2. ex[y].a \in jtis \/ now > JtiExpiresAt(ex[y].a)
        BY <4>1 DEF UseInv, Remembered
      <4>3. ex[y].a \in jtis' \/ now > JtiExpiresAt(ex[y].a)
        BY <1>0, <2>1, <2>2, <4>1, <4>2 DEF Swept
      <4>4. JtiExpiresAt(ex[y].a)' = JtiExpiresAt(ex[y].a)
        BY <1>1, <4>1 DEF JtiExpiresAt, ExpiresAt
      <4> QED BY <1>1, <4>1, <4>3, <4>4
    <3> QED BY <3>1, <3>2
  <2>6. ASSUME NEW y \in Exchanges \ {x}, Used(y)', ex'[y].a = ex'[x].a
        PROVE  ex'[y].late \/ ex'[x].late
    <3>1. ex'[y] = ex[y] /\ Used(y) /\ ex[y].a \in Assertions /\ ex[y].a = ex[x].a
      BY <1>1, <2>1, <2>3, <2>4, <2>6
    <3>2. ex[y].late \/ ex[y].a \in jtis \/ now > JtiExpiresAt(ex[y].a)
      BY <3>1 DEF UseInv, Remembered
    <3>3. ex[y].late \/ late
      BY <1>0, <1>4, <2>2, <3>1, <3>2 DEF Swept
    <3> QED BY <2>1, <3>1, <3>3
  <2>7. UsedOnce'
    <3> SUFFICES ASSUME NEW y \in Exchanges, NEW z \in Exchanges, y # z, ex'[y].a = ex'[z].a, Used(y)', Used(z)'
                 PROVE  ex'[y].late \/ ex'[z].late
      BY DEF UsedOnce
    <3>1. CASE y = x
      BY <2>6, <3>1
    <3>2. CASE z = x
      BY <2>6, <3>2
    <3>3. CASE y # x /\ z # x
      BY <1>1, <2>4, <3>3 DEF UseInv, UsedOnce
    <3> QED BY <3>1, <3>2, <3>3
  <2> QED BY <2>5, <2>7 DEF UseInv
<1> QED BY <1>2, <1>3, <1>4

\* Of two sign-ons with one assertion, one was verified in time and recorded as used only after
\* the assertion's end: the sweep of remembered assertions forgets none that is still accepted.
THEOREM OneUsePerAssertion == SignOnSpec => []OneSignOnPerAssertion
<1>1. SignOnInv /\ SignOnInv' /\ UseInv /\ [SignOnNext]_signOnVars => UseInv'
  <2> SUFFICES ASSUME SignOnInv, SignOnInv', UseInv, [SignOnNext]_signOnVars PROVE UseInv'
    OBVIOUS
  <2>1. CASE UNCHANGED signOnVars
    BY <2>1 DEF signOnVars, UseInv, Remembered, UsedOnce, Used, JtiExpiresAt, ExpiresAt
  <2>2. CASE SignOnNext
    BY <2>2, Steps, UseEnvironment, UseSign, UseExchange
  <2> QED BY <2>1, <2>2
<1>2. UseInv => OneSignOnPerAssertion
  BY DEF UseInv, UsedOnce, Used, OneSignOnPerAssertion
<1> QED BY <1>1, <1>2, UseInit, Invariance, PTL DEF SignOnSpec
=============================================================================
