---------------------------- MODULE DeviceSignOn ----------------------------
(***************************************************************************)
(* Signing on with a paired phone (oauth/device_assertion.go,              *)
(* api/oauth_handlers.go): the phone signs an assertion, an exchange turns *)
(* it into a session and an access token for one client, and meanwhile the *)
(* phone is paired again, regraded, switched off or deleted, the account   *)
(* reset or disabled and the client's policy edited.                       *)
(*                                                                         *)
(* One account, one phone at a time, one client.  Exchanges run            *)
(* concurrently; each store call of ExchangeDeviceAssertion is one step.   *)
(***************************************************************************)
EXTENDS Naturals, FiniteSets

CONSTANTS
    Exchanges,   \* bound: exchanges ever attempted
    Assertions,  \* bound: assertions ever signed
    NoAssertion,
    Window,      \* the life of an assertion
    Skew,        \* deviceAssertionSkew
    MaxTime,     \* bound: instants
    MaxKeys,     \* bound: pairings
    MaxEdits     \* bound: policy edits

ASSUME DeviceSignOnAssumption ==
    /\ NoAssertion \notin Assertions
    /\ Window \in Nat \ {0} /\ Skew \in Nat /\ MaxTime \in Nat
    /\ MaxKeys \in Nat \ {0} /\ MaxEdits \in Nat

VARIABLES
    now,
    active,  \* users.status
    dev,     \* native_devices: the account's phone
    keys,    \* keys enrolled so far; a phone paired again has a new one
    sweep,   \* the key of the phone an attestation sweep is about to regrade, or 0
    policy,  \* app_registry: auth_mode, auth_factor and auth_revision
    asn,     \* the assertions the phone signed
    jtis,    \* device_signon_jtis
    ex,      \* the exchanges
    session,    \* sessions, by the exchange that created them
    token    \* issued_tokens, by the exchange that recorded them

signOnVars == <<now, active, dev, keys, sweep, policy, asn, jtis, ex, session, token>>
-----------------------------------------------------------------------------
\* attested_level: a Keystore key is hardware-bound and user-verified, anything else is a
\* single factor.
Levels == {"none", "tee"}
\* What a policy asks of a sign-in: reuse with a password; fresh, max_age or a second
\* factor, which only an attested phone is; a passkey, which no phone is.
Modes == {"any", "attested", "passkey"}

DevRows == [key : 0..MaxKeys, on : BOOLEAN, approver : BOOLEAN, level : Levels]
NoDev == [key |-> 0, on |-> FALSE, approver |-> FALSE, level |-> "none"]

\* at: how far the exchange is.  dev, rev: what it read.  late: history, the assertion had
\* ended when it was recorded as used.
ExRows == [at : {"new", "parsed", "fresh", "decided", "session", "recorded", "done", "refused", "crashed"},
           a : Assertions \cup {NoAssertion}, dev : DevRows, rev : 0..MaxEdits, late : BOOLEAN]
NewEx == [at |-> "new", a |-> NoAssertion, dev |-> NoDev, rev |-> 0, late |-> FALSE]

SignOnTypeOK ==
    /\ now \in 0..MaxTime
    /\ active \in BOOLEAN
    /\ dev \in DevRows
    /\ keys \in 0..MaxKeys
    /\ sweep \in 0..MaxKeys
    /\ policy \in [mode : Modes, rev : 0..MaxEdits]
    /\ asn \in [Assertions -> [key : 0..MaxKeys, iat : 0..MaxTime]]
    /\ jtis \subseteq Assertions
    /\ ex \in [Exchanges -> ExRows]
    /\ session \in [Exchanges -> {"none", "live", "gone"}]
    /\ token \in [Exchanges -> {"none", "live", "dead"}]

SignOnInit ==
    /\ now = 0
    /\ active = TRUE
    /\ dev = NoDev
    /\ keys = 0
    /\ sweep = 0
    /\ policy = [mode |-> "any", rev |-> 0]
    /\ asn = [a \in Assertions |-> [key |-> 0, iat |-> 0]]
    /\ jtis = {}
    /\ ex = [x \in Exchanges |-> NewEx]
    /\ session = [x \in Exchanges |-> "none"]
    /\ token = [x \in Exchanges |-> "none"]
-----------------------------------------------------------------------------
(* The phone and the clock. *)

Tick ==
    /\ now < MaxTime
    /\ now' = now + 1
    /\ UNCHANGED <<active, dev, keys, sweep, policy, asn, jtis, ex, session, token>>

\* KyAuth signs an assertion, with its key or with one a pairing replaced.
Sign(a) ==
    /\ asn[a].key = 0
    /\ \E k \in 1..keys : asn' = [asn EXCEPT ![a] = [key |-> k, iat |-> now]]
    /\ UNCHANGED <<now, active, dev, keys, sweep, policy, jtis, ex, session, token>>

ExpiresAt(a) == asn[a].iat + Window

\* Mutant of JtiExpiresAt: the row ends with the assertion, the skew forgotten.
JtiExpiresAtNoSkew(a) == ExpiresAt(a)

\* The row outlives every clock that still accepts the assertion.
JtiExpiresAt(a) == ExpiresAt(a) + Skew
-----------------------------------------------------------------------------
(* ExchangeDeviceAssertion. *)

\* parseDeviceAssertion: signed by the enrolled key and not over, for a little.
Verifies(a) == asn[a].key # 0 /\ asn[a].key = dev.key /\ now < ExpiresAt(a) + Skew

MaySignOn(d) == d.on /\ d.approver

ParseDeviceAssertion(x, a) ==
    /\ ex[x].at = "new"
    /\ Verifies(a) /\ MaySignOn(dev)
    /\ ex' = [ex EXCEPT ![x].at = "parsed", ![x].a = a, ![x].dev = dev]
    /\ UNCHANGED <<now, active, dev, keys, sweep, policy, asn, jtis, session, token>>

\* The rows that are past their end are swept on every call.
Swept == {a \in jtis : JtiExpiresAt(a) >= now}

\* ConsumeDeviceSignOnJTI, whenever the exchange gets to it.
ConsumeDeviceSignOnJTI(x) ==
    /\ ex[x].at = "parsed"
    /\ IF ex[x].a \in Swept
       THEN jtis' = Swept /\ ex' = [ex EXCEPT ![x].at = "refused"]
       ELSE /\ jtis' = Swept \cup {ex[x].a}
            /\ ex' = [ex EXCEPT ![x].at = "fresh", ![x].late = now > ExpiresAt(ex[x].a) + Skew]
    /\ UNCHANGED <<now, active, dev, keys, sweep, policy, asn, session, token>>

\* EvidenceReason and modeOK: what the phone's grade proves.
Satisfies(mode, level) == mode = "any" \/ (mode = "attested" /\ level = "tee")

\* The account and the client's policy are read, and decided on.
Decide(x) ==
    /\ ex[x].at = "fresh"
    /\ ex' = [ex EXCEPT ![x].at = IF active /\ Satisfies(policy.mode, ex[x].dev.level) THEN "decided" ELSE "refused",
                        ![x].rev = policy.rev]
    /\ UNCHANGED <<now, active, dev, keys, sweep, policy, asn, jtis, session, token>>

\* CreateSession, unless the account was disabled meanwhile.
CreateSession(x) ==
    /\ ex[x].at = "decided"
    /\ ex' = [ex EXCEPT ![x].at = IF active THEN "session" ELSE "refused"]
    /\ session' = [session EXCEPT ![x] = IF active THEN "live" ELSE @]
    /\ UNCHANGED <<now, active, dev, keys, sweep, policy, asn, jtis, token>>

\* Mutant of PolicyBound: the revision is not compared.
PolicyUnbound(x) == TRUE

\* The policy that was decided on is still the client's.
PolicyBound(x) == policy.rev = ex[x].rev

\* Mutant of DeviceBound: the toggle and the key, not the grade.
DeviceBoundUngraded(x) == MaySignOn(dev) /\ dev.key = ex[x].dev.key

\* The phone still has the key, the grade and the permission that were read.
DeviceBound(x) == MaySignOn(dev) /\ dev.key = ex[x].dev.key /\ dev.level = ex[x].dev.level

\* RecordIssuedToken: everything the exchange rests on, once more, or the session is deleted.
RecordIssuedToken(x) ==
    /\ ex[x].at = "session"
    /\ IF active /\ session[x] = "live" /\ PolicyBound(x) /\ DeviceBound(x)
       THEN /\ token' = [token EXCEPT ![x] = "live"]
            /\ ex' = [ex EXCEPT ![x].at = "recorded"]
            /\ session' = session
       ELSE /\ ex' = [ex EXCEPT ![x].at = "refused"]
            /\ session' = [session EXCEPT ![x] = "gone"]
            /\ token' = token
    /\ UNCHANGED <<now, active, dev, keys, sweep, policy, asn, jtis>>

\* The token is signed and returned; or that fails and the session goes, and with it the
\* token nobody got.
Respond(x) ==
    /\ ex[x].at = "recorded"
    /\ \/ ex' = [ex EXCEPT ![x].at = "done"] /\ UNCHANGED <<session, token>>
       \/ /\ ex' = [ex EXCEPT ![x].at = "refused"]
          /\ session' = [session EXCEPT ![x] = "gone"]
          /\ token' = [token EXCEPT ![x] = "dead"]
    /\ UNCHANGED <<now, active, dev, keys, sweep, policy, asn, jtis>>

\* The server stops; what was committed stays.
Crash(x) ==
    /\ ex[x].at \in {"parsed", "fresh", "decided", "session", "recorded"}
    /\ ex' = [ex EXCEPT ![x].at = "crashed"]
    /\ UNCHANGED <<now, active, dev, keys, sweep, policy, asn, jtis, session, token>>
-----------------------------------------------------------------------------
(* What changes meanwhile. *)

\* revokeUserAccessTx
RevokeSignOns ==
    /\ session' = [x \in Exchanges |-> IF session[x] = "live" THEN "gone" ELSE session[x]]
    /\ token' = [x \in Exchanges |-> IF token[x] = "live" THEN "dead" ELSE token[x]]

\* A pairing, of a new phone or in place: key, grade and permissions are the request's own.
Pair ==
    /\ keys < MaxKeys
    /\ keys' = keys + 1
    /\ \E on \in BOOLEAN, level \in Levels : dev' = [key |-> keys + 1, on |-> on, approver |-> TRUE, level |-> level]
    /\ UNCHANGED <<now, active, sweep, policy, asn, jtis, ex, session, token>>

DeleteNativeDevice ==
    /\ dev.key # 0
    /\ dev' = NoDev
    /\ UNCHANGED <<now, active, keys, sweep, policy, asn, jtis, ex, session, token>>

\* SetDeviceSignOn: enabling needs a phone that may approve.
SetNativeDeviceCanSignOn(on) ==
    /\ dev.key # 0 /\ (on => dev.approver)
    /\ dev' = [dev EXCEPT !.on = on]
    /\ UNCHANGED <<now, active, keys, sweep, policy, asn, jtis, ex, session, token>>

SetNativeDeviceMFAApprover(approver) ==
    /\ dev.key # 0
    /\ dev' = [dev EXCEPT !.approver = approver]
    /\ UNCHANGED <<now, active, keys, sweep, policy, asn, jtis, ex, session, token>>

\* SweepAttestations reads the graded phones ...
SweepAttestations ==
    /\ sweep = 0 /\ dev.key # 0 /\ dev.level # "none"
    /\ sweep' = dev.key
    /\ UNCHANGED <<now, active, dev, keys, policy, asn, jtis, ex, session, token>>

\* ... and takes the grade of one, or finds it in order; a phone paired since keeps its own.
SetNativeDeviceAttestation ==
    /\ sweep # 0
    /\ sweep' = 0
    /\ \/ dev' = [dev EXCEPT !.level = IF dev.key = sweep THEN "none" ELSE @]
       \/ dev' = dev
    /\ UNCHANGED <<now, active, keys, policy, asn, jtis, ex, session, token>>

ResetUserMFAOfPhone ==
    /\ dev' = [dev EXCEPT !.on = FALSE, !.approver = FALSE]
    /\ RevokeSignOns
    /\ UNCHANGED <<now, active, keys, sweep, policy, asn, jtis, ex>>

SetActive(b) ==
    /\ active # b
    /\ active' = b
    /\ IF b THEN UNCHANGED <<session, token>> ELSE RevokeSignOns
    /\ UNCHANGED <<now, dev, keys, sweep, policy, asn, jtis, ex>>

\* SetAppAuthenticationPolicy: an edit, however small, takes the client's tokens.
SetAppAuthenticationPolicy(mode) ==
    /\ policy.rev < MaxEdits /\ mode # policy.mode
    /\ policy' = [mode |-> mode, rev |-> policy.rev + 1]
    /\ token' = [x \in Exchanges |-> IF token[x] = "live" THEN "dead" ELSE token[x]]
    /\ UNCHANGED <<now, active, dev, keys, sweep, asn, jtis, ex, session>>
-----------------------------------------------------------------------------
SignOnNext ==
    \/ Tick
    \/ \E a \in Assertions : Sign(a)
    \/ \E x \in Exchanges, a \in Assertions : ParseDeviceAssertion(x, a)
    \/ \E x \in Exchanges : \/ ConsumeDeviceSignOnJTI(x) \/ Decide(x) \/ CreateSession(x)
                            \/ RecordIssuedToken(x) \/ Respond(x) \/ Crash(x)
    \/ Pair \/ DeleteNativeDevice \/ SweepAttestations \/ SetNativeDeviceAttestation \/ ResetUserMFAOfPhone
    \/ \E b \in BOOLEAN : SetNativeDeviceCanSignOn(b) \/ SetNativeDeviceMFAApprover(b) \/ SetActive(b)
    \/ \E m \in Modes : SetAppAuthenticationPolicy(m)

SignOnSpec == SignOnInit /\ [][SignOnNext]_signOnVars
-----------------------------------------------------------------------------
(* Properties. *)

\* A token that is live was proven by enough for the policy its client has now, on an active
\* account: an edit or a disable between the decision and the record, or after it, leaves none.
TokenUnderPolicy ==
    \A x \in Exchanges : token[x] = "live" => active /\ Satisfies(policy.mode, ex[x].dev.level)

\* At the moment it is recorded, the phone that signed may sign on, with the key that
\* verified the assertion and the grade the token will claim: a toggle, a pairing, a
\* regrading or a deletion that came during the exchange is seen.
RecordedForTheDevice ==
    [][\A x \in Exchanges :
          token[x] = "none" /\ token'[x] = "live" =>
             /\ MaySignOn(dev) /\ dev.key = asn[ex[x].a].key
             /\ dev.level = ex[x].dev.level]_signOnVars

\* One assertion, one sign-on: two exchanges that took the same one include one that had
\* verified it in time and recorded its use only after the end, when the other's row was gone.
OneSignOnPerAssertion ==
    \A x, y \in Exchanges :
       x # y /\ ex[x].a = ex[y].a /\ token[x] # "none" /\ token[y] # "none" => ex[x].late \/ ex[y].late
=============================================================================
