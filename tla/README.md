# KyIdentity: TLA+ specifications

KyIdentity is a self-hosted identity provider written in Go over SQLite. It signs
people in, grants their accounts access to applications, issues OpenID Connect codes
and tokens for those applications, and keeps the applications' own copies of the
accounts up to date. This directory specifies the parts of it whose correctness depends
on the order in which independent things happen, checks them with TLC, and proves the
most important invariants with TLAPS.

SQLite runs one write transaction at a time, and the store opens every write with an
immediate lock. So throughout: **an action is one transaction of the store, or one step a
worker or request takes between two transactions.** Wall-clock comparisons become flags
that the passing of time flips at any moment.

## Inventory

| Component | State | Operations | What is hard | Module |
|---|---|---|---|---|
| Provisioning outbox (`store/sync_delivery.go`, `store/provisioning.go`, `store/offboarding.go`, `sync/sync.go`, `sync/delivery.go`) | `account_sync_events`, `sync_resource_state`, `sync_delivery_attempts`, remote mappings | queue, supersede, claim, fence, send, finish, reconcile, resync, resume, hold | several dispatchers, lost answers, crashes, writes that land late, attempts that run out | `SyncOutbox` |
| OAuth grants (`oauth/oauth.go`, `store/refresh_tokens.go`, `store/sessions.go`, `store/store.go`) | `authorization_codes`, `issued_tokens`, `refresh_families`, `refresh_tokens`, `sessions` | authorize, exchange, rotate, replay, revoke by session, user, app, client, policy, role | an exchange is several transactions; revocations fall between them | `OAuthGrants` |
| Sign-in, throttling, MFA (`api/auth_handlers.go`, `mfa/mfa.go`, `store/store.go`) | failed logins, MFA tokens, challenges, TOTP counters | password, factor, push, reset | budgets under concurrency, late answers | `SignIn` |
| Back-channel logout (`store/logout_deliveries.go`, `store/client_sessions.go`, `oauth/backchannel.go`) | sids, deliveries | mint, enqueue, claim, finish, retry | leases, operator retries, sids minted after a revocation | `BackchannelLogout` |
| Account lifecycle, onboarding links, upstream ownership (`store/store.go`, `store/expiry.go`, `store/disable_user.go`, `store/onboarding.go`, `store/scim_inbound.go`, `store/delegations.go`) | account rows, end dates, links, connectors and their tokens | create, edit, disable, delete, expire, invite, reset, disconnect | rules over several accounts (the last administrator), two masters of one account, links older than the account they open | `Accounts` |
| App access, requests, registry (`store/app_access.go`, `store/access_requests.go`, `store/app_registry.go`, `store/expiry.go`) | assignments, memberships and their end instants, requests, links between records | grant, revoke, ask, decide, cancel, link, unlink, expire | access is a view that moves with the clock; decisions on stale forms | `AppAccess` |
| Step-up and enrolment of factors (`store/stepup.go`, `api/stepup*.go`, `api/device_handlers.go`, `api/webauthn_handlers.go`, `mfa/mfa.go`) | challenges, single-use grants, factors, pairings | ask, finish, cancel, consume, enrol, remove, pair, reset | one ticket and two requests; a reset between check and write | `StepUp`, `SingleUse` |
| Device sign-on (`oauth/device_assertion.go`, `store/store.go`, `attestation`) | phones and their grade, remembered assertions, tokens | sign, exchange, regrade, toggle, re-pair | replay at the edge of a window, a phone that changes during the exchange | `DeviceSignOn` |
| Enrolment policy, directory groups (`store/enrollment_policy.go`, `store/group_enrollment.go`, `store/groups.go`, `store/scim_inbound_groups.go`) | policies, deadlines, groups and members | edit policies, add and drop members, replace and patch from upstream, expire | combinations of policies nobody can satisfy, locking out every administrator, conditional writes | `Enrollment` |
| Outbound SCIM, drift reconciliation, restore (`sync/scim.go`, `sync/reconcile.go`, `store/reconcile.go`, `store/restore.go`) | remote links, jobs, observations, holds | look up, adopt, create, patch, list, compare, repair, restore | a create whose answer is lost; listings older than what they are compared with; a directory older than its receivers | `Reconcile` |
| Authorization endpoint (`oauth/oauth.go`, `store/authorization_interactions.go`, `store/app_authentication.go`) | interactions, sessions, app policy, codes | authorize, suspend, sign in, resume, cancel | tabs that share a session, a policy edited between the decision and the code | `Authorization` |
| Alerts (`store/alerts.go`) | queue, alerts, deliveries | classify, raise, recover, deliver | deduplication, retries | |
| Backup archives, installer (`internal/backup`, `store/installer_setup.go`) | archives, setup records | drill, set up | | |
| Push relay (`push-relay-shared`), web application (`web`) | | | separate programs | |

Interactions: every access change and account change runs, in its own transaction, the
revocation of OAuth grants (`revokeLostAppAccessTx`, `revokeUserAccessTx`), the enqueueing
of back-channel logouts, and the queueing of provisioning events
(`reconcileProvisioningTx`, `offboardUserTx`). Background loops (dispatch, reconcile,
expiry, logout delivery, alerts, hourly purge) work off the tables those transactions
leave behind; the tables are the only shared state. The modules cut along those tables: each
takes the transactions of the others that touch its own tables as actions of its own.

What makes each component correct: the outbox converges and never lets an old write
overtake a new one; a grant that was revoked is never usable again and a credential is
spent once; the directory always keeps an administrator, and who was shut out stays out;
attempt budgets hold under concurrency; every client that saw a login is told when it ends; a
request is decided once, by somebody entitled to, while it is open; a re-authentication
authorises one change; a token rests on evidence its app's policy accepts now; nobody is
required to enrol the impossible; a person has one account at a target, and it is inactive
once a removal was acknowledged.

## Modules

| Module | Models |
|---|---|
| `SyncOutbox`, `MCSyncOutbox`, `SyncOutbox_proofs` | the provisioning outbox of one account at one connector |
| `OAuthGrants`, `MCOAuthGrants`, `GrantsAndAccess_proofs` | what one account holds at one OAuth client |
| `SignIn`, `MCSignIn`, `SignIn_proofs` | signing in to one account |
| `BackchannelLogout`, `OpenID_proofs` | telling applications that a login of one account has ended |
| `Accounts`, `MCAccounts`, `Accounts_proofs` | several accounts and everyone who writes them |
| `AppAccess`, `MCAppAccess`, `GrantsAndAccess_proofs` | who may use an application, and until when |
| `SingleUse` | what a re-authentication promises (abstract) |
| `StepUp`, `MCStepUp`, `Factors_proofs` | how two tables and overlapping requests keep that promise, and the factors it protects |
| `DeviceSignOn`, `MCDeviceSignOn`, `Factors_proofs` | exchanging a phone's assertion for a token |
| `Enrollment`, `MCEnrollment`, `Enrollment_proofs` | required enrolment, and the groups that carry it |
| `Reconcile`, `MCReconcile`, `Reconcile_proofs` | one SCIM connector and its target, drift jobs and restores |
| `Authorization`, `MCAuthorization`, `OpenID_proofs` | the authorization endpoint of one client |

A module is the specification, its `MC` module gives TLC symmetry and values, and its `_proofs`
module the theorems; `GrantsAndAccess_proofs`, `OpenID_proofs` and `Factors_proofs` hold those of two components each, which
is why `AppAccess`, `Authorization` and `DeviceSignOn` name their `AccessSpec`, `AuthSpec` and `SignOnSpec`
apart. Operators whose comment begins "Mutant of" are deliberately wrong
variants of the definition they precede. No specification uses them; each shows that a
property would notice the bug it describes.

### SyncOutbox

State: the account (`user`, with "ended" for an end date that has passed and has not been
processed), whether policy admits it (`assigned`), the connector (`sys`), the stored
remote mapping (`mapped`, and `started` for a blank mapping row, the marker of a create whose
outcome is not known), the desired-state row (`st`), the undelivered events
(`outbox`, in `rowid` order), the fence (`fence`), each dispatcher (`wk`), the requests
that may still be applied (`wire`) and the receiver's copy (`remote`). Every table involved
is keyed by connector and resource, and no statement relates two users, so one key is the
whole machine.

| Actions | Code |
|---|---|
| `SetAssigned`, `AssignmentLapses`, `EndDatePasses`, `ExpireAccount`, `UpdateUser`, `DeleteUser`, `ResetUserMFA` | the directory transactions that queue work, with `QueueDesired`, `Reconcile`, `Revive`, `Offboard` for `queueDesiredStateTx`, `reconcileProvisioningTx` and `offboardUserTx` |
| `ReconcileProvisioning`, `ResyncSystem`, `ReleaseHold`, `DeletePairedSystem` | connector operations |
| `ClaimDueSyncEvents`, `BeginSyncDelivery`, `Send`, `SaveSCIMLink`, `RejectSCIMCreate`, `Acknowledge`, `Reject`, `Uncertain`, `Unspent`, `Crash` | one dispatcher in `dispatchSystem` |
| `Land`, `Refuse` | the receiver (external): a request is applied or refused, now or much later |
| `LeaseExpires`, `BackoffEnds`, `FenceExpires`, `ResumeSyncDelivery` | time, and the operator |

The receiver is external. A suite receiver (`Versioned`) refuses a `meta.version` older than
the one it applied; a generic SCIM target applies whatever arrives, and there `deliverSCIM` looks the
account up first. A create leaves its marker before the request goes out; the answer's ID replaces it, a refusal
takes it back, and while neither has come and the lookup finds nothing (`CreateUnresolved`) every
event of the account fails with `errCreateUncertain`, a removal too, until an operator who resumes the attempt
allows a new create (`ResumeSyncDelivery`, whose second argument is that choice).

### OAuthGrants

State: the account, its grant at the app with the end instant it carries (`acc`, `bound`), the
client, the policy and role revisions (`pol`), whether enrolment policy admits the
account's sessions, the sessions, each code, the live access tokens, each code's refresh
family and its refresh tokens, the calls in progress (`req`), and two history variables:
`void`, codes whose grant was ended by a revocation of the user's side, and `cvoid`, codes
already redeemed when their client was disabled or re-keyed.

A call of the token endpoint is `Present`, `ConsumeAuthorizationCode`, `Resolve`,
`RecordIssuedToken`, `CreateRefreshFamily`, or `PresentRefresh`, `RotateRefreshToken`; it can be
abandoned between any two. Revocations are the actions of `Administration`, each one
transaction; expiry and purge are the actions of `Clock`. An expired row passes no guard, so
expiry removes it from the state, with two exceptions the code makes: an expired session
is still a row until it is purged, and a revocation by session reaches through rows only.

### SignIn

State: the account (`user`: status, and a number for the password it has), the enrolled
factors (`mfa`: TOTP secret and the last time step spent, push, the unused recovery code),
`failures` per client address, the second-factor `tokens`, the login `pushes`, every session
ever made (`sessions`, of which `live` marks the rows that remain), and the requests in progress
(`call`). A request runs one handler and each of its actions is one statement of the store, so
two requests interleave everywhere the code lets them; `Abandon` ends one between any two (an
error, a saturated hasher, a restart).

| Actions | Code |
|---|---|
| `Login`, `CheckLockout`, `VerifyPassword`, `LoginPush`, `IssueMFAToken` | `AuthHandler.Login`: the row read, `loginRefusal`, the password and the enrolled factors, `loginPush`, `CreateMFAToken` |
| `Verify`, `ResolveUser`, `CheckLockout`, `ReserveMFAAttempt`, then `VerifyUserTOTP` and `ConsumeTOTPCounter`, or `ConsumeRecoveryCode`, or `FinishPushLogin`, then `SpendMFAToken` | `VerifyTOTP`, `VerifyRecoveryCode`, `FinishPushLogin` |
| `CreateSession`, `ClearFailedLogins`, `RecordFailedLogin` | `createSessionAndRespond`, `mfaFailure` |
| `RespondPush`, `Answer`, `ExpirePush` | the phone's answer, checked in one statement and written in another, and polls |
| `RevokeUserAccess`, `ResetUserMFA`, `DisableUser`, `EnableUser`, `SetPassword`, `ResetPassword`, `ChangePassword`, `EndSession` | administrators and the owner |
| `EnableTOTP`, `SaveUserTOTP`, `ReplaceRecoveryCodes`, `RevokeOtherSessions` | replacing the authenticator, four statements |
| `TokenLapses`, `PushLapses`, `WindowLapses` | time and the purge |

History: a token and a session carry the password that was proved for them and the number of
revocations at that time (`rev`); `guesses` counts codes actually checked against a token. A
challenge whose answer has been checked and not yet written is "checked" and becomes "overdue"
if its life ends first, because the write compares only the status. The hourly push allowance is
a free choice. Sign-ins are those of the dashboard: they carry no authorization interaction.

### BackchannelLogout

State: the clients (registered, enabled, with a back-channel URI), the account's effective
access at each, its `sess` rows, the sids minted for a session at a client (`sid`), the token
responses that have registered an access token and have yet to name a sid (`call`), the
deliveries (`dlv`) and the workers (`wk`). A delivery is named by its sid and the change that
queued it, since a transaction queues at most one per sid; that also gives the order of
`created_at`.

| Actions | Code |
|---|---|
| `RecordIssuedToken`, `EnsureClientSession` | `tokenResponse`: the registration that admits the response, then the sid |
| `RevokeSessions`, `RevokeUserClientAccess`, `SetAccess` | `revokeSessionsTx`, `RevokeUserClientAccess`, `revokeLostAppAccessTx`, with `Enqueue` for `enqueueLogoutTx` |
| `UpdateOAuthClient`, `DeleteOAuthClient`, `RetryLogoutDeliveryNow`, `ApplyRestoredState` | administrators; a restore is taken on the state it finds |
| `ClaimLogoutDelivery`, `PostLogout`, `FinishLogoutDelivery` | `DeliverPendingLogout` |
| `AccessLapses`, `SessionExpires`, `CleanupExpiredSessions`, `LeaseExpires`, `BackoffEnds`, `DeleteLogoutDeliveriesOlderThan` | time and the purge |
| `Crash` | the process stops between two transactions and starts again |

History: `ended` is the last change that ended a sid's login at a client with a receiver; a
delivery's `acked`, `posts` and `retries` are what the receiver accepted, the tokens posted and the
times a budget was given. The receiver is external: it may accept a token and the answer be
lost. A login that merely expires is announced to nobody, as in the code.

### Accounts

State: the account rows (`user`: role, status, pending, address, end date, delegations, the
connector that owns it, what that upstream last said and the local override), the connectors
(`conn`), the links that can be redeemed (`link`), requests for a link that are past their gate
(`ask`), upstream requests that are past their Bearer token (`call`). History: `moved`, live links
whose account changed since, and `barred`, accounts shut out and not let in again.

| Actions | Code |
|---|---|
| `UpdateUser`, `CreateUser`, `DeleteUser`, `RunDisableUser`, `SetDelegations`, `ChangePassword` | administrators and the CLI, with `UpdateUserTx`, `ApplySourceState`, `ExpireAccountTokens` for `updateUser` and what it calls |
| `EndPasses`, `EndAccount` | the clock, and the expiry follow-up |
| `AdminIssueLink`, `Forgot`, `IssueAccountToken`, `LinkLapses`, `Redeem` | `store/onboarding.go`, `api/permissions.go` |
| `AdminCreate`, `AdminUpdate`, `AdminTokens`, `AdminDelete` | connectors |
| `Authenticate`, `Create`, `Replace`, `Patch`, `Delete`, `Refused` | one upstream request, in two steps |

### AppAccess

State: the registry (`app`: which connections belong to which record, policy, requestable), direct and
group assignments and memberships with their expiries, end dates, administrators and app owners,
pending requests, each user's live token with its expiry, and the clock. `Access` and
`AccessEndsAt` are the views `effective_app_access` and its end. `ExpiryFollowUp` is the expiry job, which works off
what has lapsed. A token request reads the end of access (`ReadAccessEnd`, into `issuing`) and records the token
in a later transaction that asks only whether there is access (`RecordToken`), or not at all
(`TokenNotIssued`). History: `debt`, that access has ended since the last follow-up; `overtaken`, requests whose
user's end an edit brought closer between the two; `shortened`, users who hold a token of such a request, or
whose end came closer after it was recorded. An edit made against an earlier revision of its record is
refused and has no step.

### StepUp and SingleUse

State: sessions, `step_up_challenges`, `step_up_tokens`, the requests between two of their
transactions, the factors, the outstanding pairing, the open registration ceremony. `RequestStepUp`,
`ProveAtOnce`, `CreateStepUpToken`, `CreateStepUpChallenge`, `FinishStepUp`, `FinishFails`,
`CompleteStepUpChallenge`, `CancelStepUp` and `ConsumeStepUpToken` are the proof; `EnableTOTP`,
`GenerateRecoveryCodes`, `RevokeOtherSessions`, `BeginRegistration`, `FinishRegistration`,
`CreateWebAuthnCredential`, `DeletePasskey`, `GenerateDevicePairingToken`, `RegisterNativeDevice`,
`DeleteUserDevice` and `SetDeviceMFAApprover` the changes. `Logout`, `RevokeOthers`,
`RevokeUserAccess` and `ResetUserMFA` may fall anywhere. History: `spent`, how many operations each ticket
authorised, the `epoch` (resets so far) and
the epoch of each session, authenticator, passkey, phone and pairing; `early` marks the requests a
reset overtook after they had spent their ticket.

`SingleUse` says what all of that is for, with one variable per ticket: unissued, asked, granted, spent
or void, a holder that never changes, and the number of changes it authorised. `StepUp` implements it under the
mapping `TicketState` and `TicketHolder`, which read a ticket's worth off the two tables, with `spent` as the
count: a second spending of a ticket changes the count with no step of `SingleUse` to allow it, and a grant that is
live again after it was spent would lead from spent to granted.

### DeviceSignOn

State: the account's phone (`dev`: key, right to sign on and to approve, attested grade), the
assertions it signed, the remembered ones (`jtis`), the client's policy and revision, the
exchanges, their sessions and tokens, and a clock. One exchange is `ParseDeviceAssertion`,
`ConsumeDeviceSignOnJTI` (which also sweeps), `Decide`, `CreateSession`, `RecordIssuedToken`,
`Respond`; it can stall or crash between any two, while the phone is paired again, regraded,
toggled or deleted, the account reset or disabled, and the policy edited. `late` marks an exchange
that verified its assertion in time and recorded its use after the end of its life.

### Enrollment

State: roles, delegations, enrolled factors, groups with their owner and version, memberships with
who added them, the policies of the organization, of administrators and of groups, the deadlines they
gave, and one session and one grant per account. Administrators (`AdminSetEnrollmentPolicy`,
`SaveGroup`, `SetGroupMembership`, `DeleteGroup`, `SetRole`, `SetDelegations`), an upstream that reads and then
writes (`GetUpstreamGroup`, then `ReplaceGroup`, `PatchGroup` or `SCIMDeleteGroup`, conditional on
the version it read or not), the expiry job, and the owners of accounts. The triggers of the schema
(deadlines for new members, privileges and accounts) are part of the action whose
statement fires them.

### Reconcile

State: who is wanted at the connector (`wanted`), the mapping (`link`), desired state (`st`) and queue (`q`)
of each account, the delivery in progress (`fl`), POSTs that may still land (`wire`), the target's accounts by
ID (`remote`, external: it hands out IDs and may reuse one, and others create, edit and erase
accounts there, also while a listing is being read), the open job and its runners, and the backup capsule (`snap`, a `Directory`) with
`provisioning_hold`. A delivery is look up, adopt or mark, create, map, write; a job lists pages,
compares, repairs and finishes under a lease; `Restore` puts back an earlier directory and holds
sending until a repair has compared a listing made after it. The queue is that of `SyncOutbox`
seen from the target: one fenced event and one behind it.

`ReconcileDrift` walks over the listing and then over the accounts with access, in one transaction. What it
does to one account depends on that account's part of the listing and on mappings it leaves alone, so the
module says it per account: which listed accounts could be mapped (`Linkable`), the one that is (`Mapped`),
the mapping that is left (`Relinked`), who is sent again (`Stale`), who is removed (`Orphaned`) and who is only
counted (`MappingConflicts`). `disputed` remembers the last of these until the next restore: it is not a
variable of the code, which counts the conflict in its report and leaves the account as it is from then on,
even if the account that disputed the mapping has gone.

A listing is a walk by position: it is complete if the total was the same on every page and as many accounts
were read. That is not to have read every account: if one it has read is erased and another added between two
pages, the total stays, the pages move up, and an account it has not read is passed over. The model lets it
happen, and remembers the runners whose listing has lost an account it had read (`churned`) and the accounts about
which a repair by such a listing was wrong (`misled`, by `Mistaken`). The two properties about one's own
account exempt the latter; the others are judged as if nothing had been erased.

### Authorization

State: the app's policy, the interactions (request, browser, the account and session signed in there
when it was suspended, and the last sign-in begun by then), sessions, the cookie of each browser,
sign-ins whose password was accepted, the authorization requests being handled, and codes. A
request is `Authorize` or `AuthorizeInteraction`, `ReadEvidence`, and
`CreateAuthorizationCode`; `Login` and `FinishLogin` are a sign-in of some tab, for an interaction
or none. `Parse`, `EvidenceMeets` and `Satisfied` are what a request asks for and whether a session's
evidence is enough for it and for the app.

## Runs

| Run | Checks | Bounds |
|---|---|---|
| `outbox_suite` | `UncertainWriteHoldsFence`, `AcknowledgedOffboarding`, `ResetBeforeReactivation`, `DrainedMeansDelivered` | two dispatchers, two tokens, three directory changes, one crash or lost answer, a budget of one attempt, a receiver with versions |
| `outbox_live` | `RemovalCompletes`, `QueueDrains`, under fairness | one dispatcher, three tokens, two changes, one fault, two attempts, a receiver without versions |
| `grants_refresh` | `SingleRedemption`, `FamilyEndsWhole`, `AuthorityHasRoots`, `RevokedStaysRevoked` | one session, one code, two concurrent calls, two refresh tokens per family, two administrative changes |
| `signin_races` | `SessionsProvePassword`, `OneSessionPerProof`, `GuessesBounded`, `LockoutBound`, `ApprovalInTimeForItsLogin` | two requests at a time and four in all, one address, both budgets 1, two tokens, one push, two sessions, two changes; no factor, TOTP with a recovery code, or push |
| `logout_channel` | `CompletionIsEvidence`; `LogoutIsAttempted`, under fairness | one client, one session, one sid, two changes, two workers, two attempts, one crash or restore |
| `accounts_writers` | `PermanentAdministrator`, `LinkFitsAccount`, `BarredStaysOut` | two accounts, one connector, two addresses, two live links, one open request of each kind, three changes |
| `app_access` | `TokenEndsWithAccess`, `DecisionNeverShortens`, `RelinkKeepsAccess` | two apps, two users, one request, three instants, three edits and access requests, one token request per user at a time |
| `step_up` | `PushFollowsDevice`, `ResetStands`, `OneChangePerTicket` (the refinement) | two sessions, two tickets, two phones, two requests, one reset |
| `device_sign_on` | `TokenUnderPolicy`, `OneSignOnPerAssertion`, `RecordedForTheDevice` | two exchanges of one assertion, a life of one instant, a skew of two, five instants, two keys, one policy edit |
| `enrollment` | `PolicySatisfiable`, `GrantsKeepTheirPolicies`, `EmergencyAdministrator`, `GraceOnce`, `UpstreamEditKeepsOthers` | two accounts, one of them owned upstream, one group, two factors, a grace of one instant, three edits, one sign-in or enrolment |
| `reconcile` | `NoDuplicateAccount`, `NoneLeftActive`, `OthersUntouched` | one account and strangers, three IDs, one runner, one job of one attempt, two directory changes, two changes at the target, one fault or restore |
| `authorization` | `CodeMeetsPolicy`, `OwnSignInPerRequest`, `CodeForWhoAsked` | one browser with two interactions, two users, a policy of each mode, three sign-ins, one policy edit, two instants |

Each module's type invariant (`TypeOK`, `AccessTypes`, `AuthTypes`, `SignOnTypeOK`) holds under the same
configurations and is proved; it is not listed in the runs, which are about the code.

Why the bounds suffice. Three directory changes hold every pattern the outbox code
distinguishes for one account (grant, remove, grant again; grant, reset, remove); two
dispatchers and one fault give every race of a lapsed lease with a late answer, since a third
claim repeats the second. Two calls race for one code or one refresh token, and two
administrative changes are a revocation and the change that would undo it. Two requests race
for one token, one code, one attempt or the last failure before the lock, and a budget of one
puts every race at its limit. Two changes queue two deliveries for one sid, which
two workers contend for. Two administrators are what the last-administrator rule needs to go wrong, and
three changes shut an account out, hand it to an upstream and let it in. Two requests and two
sessions race for one ticket, with a second ticket for the request that must not be confused with it. An assertion
of one instant with a skew of two has every order of its end, the end of its acceptance and the sweep
of its row. Three IDs are an account, its duplicate and the stranger that got its ID, or the
account a walk passes over, the one erased before it and the one added after it; one job is one listing of any age, and
several at once are left to the theorems. Three edits give a grant, its
shortening between the read for a token and the record, and one more. The theorems carry the central invariants beyond these bounds.

Fairness (`SyncOutbox!Fairness`). The worker loop ticks for ever, so claims, reconciliation and
a dispatcher's own steps are weakly fair; leases, backoffs and fence deadlines pass. A
dispatcher that claims again and again sometimes sends and finishes inside its deadline, and
among requests that keep being written some are applied: strong fairness, the assumption
that the connector is not down for ever. Crashes and lost answers are bounded
(`MaxFaults`). `QueueDrains` is about connectors whose operator resumes expired attempts again and again, and allows a new
create where one was lost, which `docs/PROVISIONING.md` asks of operators: those are its hypotheses, and no
administrative action is fair. `RemovalCompletes` supposes no operator: a removal is acknowledged as long as no other
write's expired fence holds the account and no create of it is unresolved.

Fairness (`BackchannelLogout!Fairness`). The delivery loops poll for ever and an HTTP call ends
within its timeout, so each worker is weakly fair; leases and backoffs pass. Crashes and
changes are bounded.

`CHECK_DEADLOCK FALSE` appears where the system may stop: a deleted connector has nothing left
to do, nobody need sign in again, and a model whose bounds are spent has no step left.

## Proofs

The proof modules follow the same plan: an inductive invariant, that it holds initially, one lemma per action
or group of actions that a step preserves it, and the theorems by PTL. The assumptions are the named `ASSUME`s
of the modules: the place holders are not real tokens, sessions, codes, addresses, clients, workers, dates or
groups, no group is the organization or the administrators, the bounds are naturals, the budgets are not zero,
there is a browser, a target has an ID to hand out, and the requests signing in at once, the logout workers and
the app records are finitely many. All sets are otherwise arbitrary.

`SyncOutbox_proofs`: `TypeCorrect`, `FenceOutlivesWrite`, `ResetsComeFirst`, `OffboardingIsFinal` and
`DrainedReceiverAgrees`, in three layers. The first is `IInv`, for `FenceOutlivesWrite`: a write that is not a
removal is fenced under its own token for as long as it may be applied. This is not inductive. The dispatcher
that finishes gives up a fence by token, so a token must name one dispatcher and one write (`TokensOwned`),
and a dispatcher has nothing on the wire unless it is waiting for the answer (`WriteOfWorker`); a claim
releases fences of removals by event, so an event, the claim on it and the writes made for it must agree on
being a removal (`KindsAgree`), although events are rewritten while fenced, and IDs must be fresh
(`IdsBounded`); and a dispatcher about to write holds the fence (`BegunFenced`). `DBOk` and `Follows` abstract
what a directory transaction does to the queue, so the directory actions share one lemma.

The second layer is `OrderInv`: rows are in order of revision and what an event says fits the desired state
(`Ordered`), a valid claim is a copy of its event and a write a copy of its claim (`ClaimsFit`, `WritesFit`),
there is one fence, on work that is not failed (`FenceHolds`), and nobody has claimed or sent anything behind
an undelivered reset (`ResetsBehind`), which is `ResetsComeFirst`. From here on the proof never looks at an
action again: `StepKinds` shows that every step of the directory, the dispatchers, the receiver, the clock and
the operator is one of nine kinds (a transaction that records another desired state together with work that
carries it, or keeps both; the connector's end; an edit that changes no content; a claim; the fence; giving
up; a send; an answer; an arrival), and each invariant is kept kind by kind.

The third layer says why queued, claimed, sent and acknowledged work cannot contradict the desired state. For
a removal (`RemovalInv`): an account that is to be inactive has work that says so until its offboarding is
acknowledged, and from the claim of that work on nothing that could activate is out or can be claimed
(`Quiet`), because work is claimed only while no fence is held, and only the oldest unfinished row; so the
acknowledgement is true, at either kind of receiver. For a grant (`GrantInv`) the same is false, since the
fence of an interrupted removal is released when its recovery time passes, and its request may still be out;
but each of them carries an older version (`Settled`), and a receiver that compares versions refuses it. That
is the hypothesis of `DrainedReceiverAgrees` (`Versioned`) and the reason it has one.

`GrantsAndAccess_proofs`, of `OAuthGrants`: `GrantTypes`, `RedeemedOnce`, `LinearFamily`, `WholeFamilyEnds`,
`RootsOutliveAuthority`, `RevocationIsFinal`. `IInv` adds to the invariants themselves that a code that exists
has a session, that a code not yet spent has no call past the compare-and-swap and no token, that a call still
redeeming has no family yet, and that refresh tokens are numbered up to the family's counter.
`RevocationIsFinal` rests on deleting spent codes: `recordIssuedTokenTx` asks for the code again, so a call in
flight finds nothing.

Of `AppAccess`: `RegistryStaysWhole`, `TokensFollowAccess`, `DecisionsOnlyExtend`, `RelinkingIsNeutral`.
`TokenEndsWithAccess` speaks of tokens whose holder has lost access, so `AccessInv` adds until when the others
are good (`BoundedTokens`: a live token ends ahead and, unless an edit shortened its holder's access, no later
than the access does; the same of a token request between the read and the record, unless an edit overtook it), that a record which is not there has no grants that a new one in its place would
inherit (`BareRecords`), and that a request is somebody's (`NamedRequests`). Every step keeps each user's
access through the client and its end (`Keeps`), or revokes and remembers what it takes away, or is the clock.
Linking and unlinking are of the first kind: the record that takes a connection over stands where the other
stood (`Stands`), whichever policy, group and ends it was copied from. That is `RelinkingIsNeutral`, and why
neither needs to revoke anything.

`SignIn_proofs`: `SignInTypes`, `CurrentPassword`, `AttemptsHold`, `LockoutHolds`, `OnePushAtATime`,
`ProofsSignInOnce`, `ApprovalsInTime`. Four invariants, the others over the first. `PasswordInv`: a live token
was issued for the password the account has (`TokensProvePassword`), because every change of the password
spends the tokens in its transaction; so a request that reads the account again while its token is unspent
reads the very password the token is for, and when it has spent the token the hash the insert will compare is
the one proved (`PasswordOK`). That is why re-reading the account in the second step is harmless.
`AttemptsInv`: codes checked plus requests about to check one never exceed the attempts reserved, so the
budget holds though reading a token and reserving an attempt are separate. `LockoutInv`: once the limit is
reached, failures plus requests that are past the lockout check stay below the limit plus the number of
requests; nobody passes the check then, so each failure recorded uses up one of them. `ProofInv`: a request
that is past its second factor carries a proof that was accepted (`CarriesProof`, `HoldersAccepted`), no two
such requests carry the same one (`HoldersApart`) and none carries one that a session already rests on
(`HoldersNew`). A TOTP step is spent in the statement that accepts it and a token after it; a reset forgets
the steps, but spends every token with which one could still be offered, and numbers the new secret
(`FactorsNumbered`). A push belongs to the token that asked for it (`PushesOwned`).

`OpenID_proofs`, of `BackchannelLogout`: `LogoutTypes`, `LogoutsStayDelivered`, `OneLeasePerClient`,
`CompletionOnEvidence`, `PostsWithinBudget`. `Inv` says that rows refer to rows that exist and that only a
queued delivery is claimed (`ClaimsQueued`), which is why a worker whose claim still stands cannot overwrite a
delivered one. `HeldOnce` is about leases, not workers: a client has one held lease, because the claim looks
for one in the statement that takes it. `EvidenceHeld` strengthens `CompletionIsEvidence`: a delivery that no
worker is about to report delivered (`Reporting`) is owed, and one that is about to be reported has been
accepted already; so recording a success never removes the last evidence. `WithinBudget` counts the workers
that have claimed and not posted: posts made and still to come are paid for by attempts, which the claim
counts before anything is sent.

Of `Authorization`: `EndpointTypes`, `CodesMeetThePolicy`, `EachRequestItsSignIn`, `CodesGoWhereAsked`.
`CodeMeetsPolicy` is inductive by itself: the insert compares the policy of its own transaction, and an edit
voids every code. The other two are about the step that issues a code and need what has been true since the
request was suspended. Sign-ins are numbered as they begin, and none is the sign-in of two live sessions
(`Numbered`, `SessionsFinished`); an interaction is older than every sign-in that may still answer it
(`Begun`); one that was completed and can be used is of a live session of its account, the one it was begun in
if there was one, whose sign-in is later and has answered nothing, and no other usable one is of that session
(`Completed`); and the evidence a request read is the session's for as long as its interaction can be used
(`HandsFit`), because the sign-in that renews a session ends what the session answered before. Steps that only
end things share one lemma (`EndsOrder`).

`Accounts_proofs`: `AccountTypes`, `AdministratorRemains`, `LinksFitAccounts`, `ShutOutStaysOut`. The
administrator rule is inductive by itself, although each writer checks it in its own way: an edit and a
deletion ask for another permanent administrator, an end date counts as losing one, the CLI holds on to a
guard, an upstream's write goes through the same transaction as an edit, and disconnecting an upstream asks
for one it does not own. The proof also shows that the follow-up never meets an account it must keep for being
the last administrator. `LinkOk` adds that links and requests name real accounts. `BarredStaysOut` needs to
know why an account cannot come back: one that an upstream owns has the local override, and a local one that
is pending has no activation link (`Out`).

`Factors_proofs`, of `DeviceSignOn`: `SignOnTypes`, `TokensMeetPolicy`, `RecordSeesDevice`, `OneUsePerAssertion`.
`DecidedUnder` says that an exchange which decided under the revision the client still has decided rightly,
which is what comparing the revision in the recording transaction buys. `OneUsePerAssertion` rests on
`Remembered`: an assertion used in time has its row until no clock takes it any more, because the row lives
for the skew beyond the assertion; and on `UsedOnce`, which then holds for every pair of exchanges.

Of `StepUp`: `StepUpTypes`, `PushIsAnswerable`, `ResetIsComplete`, `StepUpImplementsSingleUse`. `Rows`
relates the two tables (a challenge is open only before its grant, both name one holder, live rows belong to
live sessions), `ReqOk` says that a request which has written nothing holds a ticket of its own and one about
to complete a challenge holds that challenge's, and `Current` that live sessions, and changes no reset
overtook, are of this epoch. The refinement is then that every step moves at most one ticket along the
abstract life (`Issues`, `Advances`), voids the tickets whose rows end (`Voids`), or stutters. A ticket is
counted as spent only with its grant used, so no spending meets one that was spent before.

`Enrollment_proofs`: `TypeCorrect`, `NobodyIsAskedTheImpossible`, `GrantsAreOfTheirPolicies`,
`ChangesLeaveAWayIn`, `NoSecondGrace`, `UpstreamWritesOneMember`. That every account can comply is not
inductive: the trigger on new accounts compares nothing. It needs an administrator (`Administered`), who is
bound by the organization's and the administrators' policies and can comply with both, and a new account that
is in no group, so deleted accounts and groups must leave nothing behind (`NothingLeft`, `GroupsEmpty`).
`DatesGiven` is the part of `GraceOnce` about one state. `ReadsFit` is what a version buys: at the version a
client read, every member the upstream put there is one the client saw. Steps are again of a few kinds: nobody
is bound differently (`Rests`), accounts join or leave one group (`Moves`), a policy edit, a group's end, a
change to one account (`Changes`); `FewerPolicies` is the one fact about masks.

`Reconcile_proofs`: `ReconcileTypes`, `NoDuplicate`, `RemovalsReachTheTarget`, `OthersAreUntouched`, from one
invariant (`Inv`), for any accounts, IDs, runners, faults and jobs. None of the three properties is inductive.
No second account comes about because a POST on its way has its marker and no account to meet (`Posts`), a
delivery that is about to create has found none and read no marker (`Flight`), and a marker is lost only to the
account it made, to a refusal or to an operator who found nothing there; for a repair that is `Kept`, which
needs that what the listing shows of a person is still there and still the same person's (`Seen`). Where nothing
that a listing read was erased, that holds of everybody; otherwise of those it is not mistaken about (`Trusted`),
and the others become `misled`, about whom nothing is claimed. Nobody else's account is
written because the ID of a delivery about to write is its own account's or nobody's (`Flight`), and a new
account gets no such ID. A removal that was acknowledged has been made because the delivery carries it on:
the ID it verified, or found, is the only account the person has, so after the write none is active. That the
stored ID is the only account (`Known`) is what a restore takes away, since the capsule's mapping may be older than
the account. `Stopped` is why a comparison gives it back: while the connector is held nothing of this server is on
its way, so a complete listing that has lost none of the accounts it read, and so has read as many as there are and
each of them once, holds every account of every person when it is compared, even if others have edited some since. So a repair leaves an account alone
only if it is inactive or disputed; and a preview, an incomplete listing or a listing begun before the restore
is no evidence (`Compared`), because it maps no more than it saw and a restore ends every listing.
The bounds on claims, changes and faults are arbitrary, and so is the number of runners that compare listings of
different ages at once.

Only model-checked: everything temporal (`RemovalCompletes`, `QueueDrains`, `LogoutIsAttempted`). Liveness under
fairness, `ENABLED` and induction over data are outside what this prover does. Every other property of the runs
is also a theorem.

## Known limits

Statements of the code, its comments or its documentation that it does not keep in every order of
events. Each is a definition of its module, and the configuration named gives TLC's counterexample. They are not
among the runs, which are about what does hold.

| Configuration | Property | What happens |
|---|---|---|
| `SyncOutboxObsoleteVersion` | `ResetObsoletesNothing` | work that failed keeps its delivery version (`sync_delivery.go:338`), so a reset delivered in between makes it older than what the receiver has applied, against `docs/PROVISIONING.md:114` |
| `SyncOutboxLapsedReset` | `ScopeDelivered` | a reset claimed while a grant has lapsed is sent as inactive (`sync_delivery.go:361`); if the grant returns before the reconcile pass, nothing re-sends the account and it stays inactive, against `docs/PROVISIONING.md:88` |
| `SyncOutboxCreateGuard` | `RemovalNeedsNoOperator` | a plain resume, and a resume of all attempts, keep the marker of a lost create (`sync_delivery.go:157`); a removal queued then fails with `errCreateUncertain` (`sync/scim.go:231`) for as long as the lookup finds nothing, and once the attempt is resumed no fence is left through which a new create could be allowed, against `sync_delivery.go:228` "a removal never waits on an operator for itself" |
| `OAuthClientRevocation` | `ClientRevocationIsFinal` | an exchange that spent its code before its client's secret was rotated registers its token and family after the rotation (`store.go:2417`) |
| `OAuthEndedEdit` | `DisabledHasNoSession` | an account edited after its end date and before the sweep is written as disabled without being offboarded, and the sweep never returns to it (`store.go:989`) |
| `SignInRevocation` | `ProofsEndWithRevocation` | a sign-in that has spent its second-factor token, or needs none, when an administrator revokes all access still gets its session: the insert compares status and password, and a plain revocation changes neither (`store.go:1119`) |
| `BackchannelLogoutSettles` | `LogoutSettles` | the claim that would mark an exhausted, interrupted logout failed is rolled back when nothing else is due, so it stays queued and raises no alert until another delivery is claimed (`logout_deliveries.go:88`) |
| `ReconcileChurn` | `NoneLeftActiveByChurn` | between two pages one account that was read is erased and another is added: the total is unchanged, an unread account is passed over, and the listing counts as complete (`sync/reconcile.go:72`), so a repair after a restore lifts the hold over an account that is active and counts as removed |
| `AccountsRemovedConnector` | `OwnersExist` | a create that authenticated before its connector was removed still commits, and the account is owned by a connector that is gone (`scim_inbound.go:287`) |

Others, by module, which the properties exempt or the models leave out:

- `SyncOutbox`: at a receiver without versions `DrainedMeansDelivered` does not hold, because an uncertain
  deactivation is retried rather than fenced and the lost one may land last; `FenceOutlivesWrite` is proved for both.
- `OAuthGrants`, `BackchannelLogout`: UserInfo does not consult the access views, so a token outlives a grant
  that was shortened after it was issued, until the sweep runs (`TokenEndsWithAccess` says exactly that).
  A sid minted between the registration of a token and a revocation is announced only at the next access edit
  or the end of its session. An administrator's retry clears the claim of a worker that may still be posting. An edit
  of a client reads the row and writes it back whole; two administrators who overlap lose one edit.
- `AppAccess`: a token whose end of access was shortened between the read and the record, or after it, is left until
  the next follow-up (`shortened`); the two queries of `AccessEndsAt` are taken as one read; the role guard on unlinking and the deletion of connections are left out.
- `StepUp`: a request that spent its ticket before a reset commits its change after it (`early`).
- `DeviceSignOn`: an exchange that stalls past the end of its assertion re-inserts a use that was swept (`late`).
  Switching sign-on off or deleting a phone does not end the sessions and tokens it gave.
- `Enrollment`: local membership changes do not touch the version, so an upstream replacement with `If-Match` can
  drop a member an administrator has just added; a promotion to administrator does not end grants; the
  trigger on new accounts does not look for a factor that all policies permit, and need not while an
  administrator exists.
- `Reconcile`: a repair whose listing is older than an erasure maps an uncertain create to the erased ID, so that a
  second one can be sent (`misled`, like the accounts of `ReconcileChurn`); a mapping
  that names somebody else's account is counted as a conflict and the hold is lifted all the same (`disputed`), with the account
  left as it is until a later repair finds the dispute gone; an account granted
  after the backup that the restored directory has never heard of stays active at the target; IDs are not reused between the
  verification and the write that follows it.
- `Authorization`: one browser and one request in hand at a time in the instance; what could go wrong between two
  is excluded by the theorems only, which hold for any number of both; so is a code that goes to another browser.
  Codes are a set, so a second code equal to the first would go unseen; a sign-in that is restricted to enrolment
  (`auth_handlers.go:219`) is left out, since no code comes of it. Recovery codes as evidence and the repair of legacy evidence are left out.

## Plan

1. Proofs: refinements of abstract specifications for the outbox and the code exchange.
2. `Authorization` with two browsers, and `Reconcile` with two runners, once smaller instances allow it.
3. `Reconcile`'s two-slot queue as an abstraction that `SyncOutbox` implements.
4. `Alerts`, installer setup, the delivery of groups, and the push relay's coordinator.

## Not modelled

Cryptography, attestation evidence and WebAuthn verification (no state a model checker could say
anything about), mail, HTTP plumbing, configuration parsing, archive formats, the audit log
(a row per transaction), the web application, and the push relay, a separate program. Alerts and the installer
are state machines of their own that nothing else reads; they are in the plan. Claims in tokens,
payload bodies, names and error texts are data the properties do not tell apart.
