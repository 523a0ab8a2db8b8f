------------------------------ MODULE Reconcile ------------------------------
(***************************************************************************)
(* One generic SCIM connector and the target behind it: how an account is   *)
(* found, created, mapped and written at the target (deliverSCIM), how a    *)
(* leased job lists the target page by page and compares it with the       *)
(* directory (RunReconcileJob, ReconcileDrift), and what a restored         *)
(* directory may send before such a comparison (provisioning_hold).         *)
(*                                                                         *)
(* The queue is SyncOutbox's seen from the target: per account at most one *)
(* event is fenced (being delivered, or left without an outcome) and at     *)
(* most one waits behind it. An event is its `active` flag; profile fields  *)
(* are the account state "stale". Group delivery and connectors that cannot *)
(* be listed are left out.                                                  *)
(***************************************************************************)
EXTENDS Integers, Sequences, FiniteSets

CONSTANTS
    Users,       \* local accounts
    Other,       \* the externalId of an account this connector has nothing to do with
    IdCount,     \* the target hands out the IDs 1..IdCount and may reuse them
    Runners,     \* reconciliation workers: instances of a rolling deploy
    MaxAttempts, \* reconcileAttempts
    MaxClaims,   \* bound on claims of reconciliation jobs
    MaxChanges,  \* bound on directory changes
    MaxTarget,   \* bound on what others do at the target
    MaxFaults    \* bound on crashes, lost answers and failed pages

ASSUME ReconcileAssumption ==
    /\ Other \notin Users
    /\ {IdCount, MaxAttempts, MaxClaims, MaxChanges, MaxTarget, MaxFaults} \subseteq Nat
    /\ IdCount # 0

VARIABLES
    wanted,  \* accounts with effective access to an app of the connector
    link,    \* scim_user_links
    st,      \* sync_resource_state: the state each account is meant to have
    q,       \* the outbox: per account the events still to be delivered
    hold,    \* provisioning_hold; "waived" is a hold lifted on the operator's word
    snap,    \* the directory in the backup capsule
    fl,      \* the delivery of each account
    wire,    \* accounts whose POST may still be applied at the target
    remote,  \* the target's accounts
    job,     \* the one open reconciliation job
    rn,      \* each runner
    disputed,\* accounts a repair since the last restore counted as a mapping conflict
    churned, \* runners with a listing that has read an account erased since
    misled,  \* accounts a repair judged by such a listing, which did not show what was there
    used     \* what has been spent of the model's bounds

vars == <<wanted, link, st, q, hold, snap, fl, wire, remote, job, rn, disputed, churned, misled, used>>

Ids == 1..IdCount
Unlinked == -1   \* no scim_user_links row
Started == 0     \* a row with an empty remote ID: a create with no known outcome

Gone == [ext |-> Other, state |-> "gone"]
Accounts == [ext : Users \cup {Other}, state : {"active", "stale", "inactive", "gone"}]

Held(S) == {i \in Ids : S[i].state # "gone"}
Of(u, S) == {i \in Held(S) : S[i].ext = u}

Resting == [pc |-> "idle", rid |-> 0, started |-> FALSE]
Waiting == [pc |-> "idle", tok |-> 0, kind |-> "preview", total |-> -1, n |-> 0,
            seen |-> [i \in Ids |-> Gone], complete |-> FALSE]
NoJob == [status |-> "none", kind |-> "preview", tok |-> 0, att |-> 0]

Links == [Users -> Ids \cup {Unlinked, Started}]
States == [Users -> {"none", "on", "off"}]
Queues == [Users -> Seq(BOOLEAN)]

TypeOK ==
    /\ wanted \subseteq Users /\ link \in Links /\ st \in States /\ q \in Queues
    /\ hold \in {"none", "held", "waived"}
    /\ snap \in [wanted : SUBSET Users, link : Links, st : States, q : Queues]
    /\ fl \in [Users -> [pc : {"idle", "begun", "find", "adopt", "start", "post", "posted",
                               "created", "refused", "conflict", "verify", "write", "ok",
                               "failed", "fenced"},
                         rid : Ids \cup {0}, started : BOOLEAN]]
    /\ wire \subseteq Users
    /\ remote \in [Ids -> Accounts]
    /\ job \in [status : {"none", "queued", "running"}, kind : {"preview", "repair"},
                tok : 0..MaxClaims, att : 0..MaxAttempts]
    /\ rn \in [Runners -> [pc : {"idle", "listing", "listed", "compared"}, tok : 0..MaxClaims,
                           kind : {"preview", "repair"}, total : Ids \cup {-1, 0},
                           n : Ids \cup {0}, seen : [Ids -> Accounts], complete : BOOLEAN]]
    /\ disputed \subseteq Users /\ churned \subseteq Runners /\ misled \subseteq Users
    /\ used \in [claims : 0..MaxClaims, changes : 0..MaxChanges, target : 0..MaxTarget,
                 faults : 0..MaxFaults]

Directory == [wanted |-> wanted, link |-> link, st |-> st, q |-> q]

\* One person had access once: the account was deactivated and its mapping kept. The
\* accounts older than it are other people's.
Offboarded(u, k) ==
    /\ link = [v \in Users |-> IF v = u THEN k ELSE Unlinked]
    /\ st = [v \in Users |-> IF v = u THEN "off" ELSE "none"]
    /\ remote = [i \in Ids |-> IF i = k THEN [ext |-> u, state |-> "inactive"]
                               ELSE IF i < k THEN [ext |-> Other, state |-> "active"] ELSE Gone]

\* A new connector, at a target where somebody else's account may already be.
Unused ==
    /\ link = [u \in Users |-> Unlinked]
    /\ st = [u \in Users |-> "none"]
    /\ \E present \in BOOLEAN :
          remote = [i \in Ids |-> IF i = 1 /\ present THEN [ext |-> Other, state |-> "active"] ELSE Gone]

\* The last backup is of the first state.
Init ==
    /\ wanted = {} /\ hold = "none" /\ q = [u \in Users |-> <<>>]
    /\ Unused \/ \E u \in Users, k \in Ids \cap {1, 2} : Offboarded(u, k)
    /\ snap = Directory
    /\ fl = [u \in Users |-> Resting] /\ wire = {}
    /\ job = NoJob /\ rn = [r \in Runners |-> Waiting]
    /\ disputed = {} /\ churned = {} /\ misled = {}
    /\ used = [claims |-> 0, changes |-> 0, target |-> 0, faults |-> 0]

Change == used.changes < MaxChanges /\ used' = [used EXCEPT !.changes = @ + 1]
Fault == used.faults < MaxFaults /\ used' = [used EXCEPT !.faults = @ + 1]
Elsewhere == used.target < MaxTarget /\ used' = [used EXCEPT !.target = @ + 1]

-----------------------------------------------------------------------------
(* The directory.                                                           *)

Fenced(u) == fl[u].pc # "idle"

\* An event of u supersedes everything of the account that is not fenced.
Behind(u, active) == (IF Fenced(u) THEN <<Head(q[u])>> ELSE <<>>) \o <<active>>

\* queueDesiredStateTx for the accounts of on and off.
Queue(on, off) ==
    /\ st' = [u \in Users |-> IF u \in on THEN "on" ELSE IF u \in off THEN "off" ELSE st[u]]
    /\ q' = [u \in Users |-> IF u \in on \cup off THEN Behind(u, u \in on) ELSE q[u]]

\* A grant or withdrawal of access with its reconcileProvisioningTx.
SetAccess(u) ==
    /\ Change
    /\ wanted' = (wanted \ {u}) \cup ({u} \ wanted)
    /\ IF (st[u] = "on") # (u \in wanted') THEN Queue({u} \ wanted, {u} \cap wanted)
       ELSE UNCHANGED <<st, q>>
    /\ UNCHANGED <<link, hold, snap, fl, wire, remote, job, rn, disputed, churned, misled>>

\* The clock or a cascade takes the access; nothing is queued yet.
AccessLapses(u) ==
    /\ Change /\ u \in wanted
    /\ wanted' = wanted \ {u}
    /\ UNCHANGED <<link, st, q, hold, snap, fl, wire, remote, job, rn, disputed, churned, misled>>

\* ReconcileProvisioning: the worker's slow pass queues what lapsed.
ReconcileProvisioning(u) ==
    /\ (st[u] = "on") # (u \in wanted)
    /\ Queue({u} \cap wanted, {u} \ wanted)
    /\ UNCHANGED <<wanted, link, hold, snap, fl, wire, remote, job, rn, disputed, churned, misled, used>>

\* RetryProvisioning: an administrator sends one account's current state again.
RetryProvisioning(u) ==
    /\ Change /\ (u \in wanted \/ st[u] # "none")
    /\ Queue({u} \cap wanted, {u} \ wanted)
    /\ UNCHANGED <<wanted, link, hold, snap, fl, wire, remote, job, rn, disputed, churned, misled>>

\* A backup is sealed.
Snapshot ==
    /\ snap # Directory
    /\ Change
    /\ snap' = Directory
    /\ UNCHANGED <<wanted, link, st, q, hold, fl, wire, remote, job, rn, disputed, churned, misled>>

\* What ApplyRestoredState leaves of the capsule's queue: removals keep their revision and
\* go out after the hold, everything else is closed for reconciliation to derive again.
Surviving(events) ==
    [k \in 1..Cardinality({n \in DOMAIN events : ~events[n]}) |-> FALSE]

\* A capsule is restored and the server started: the fences are cleared, every connector is
\* held. The old process is dead and each POST it left behind has landed or never will;
\* an open job of the capsule starts over once its lease has run out.
Restore ==
    /\ Fault /\ wire = {}
    /\ wanted' = snap.wanted /\ link' = snap.link /\ st' = snap.st
    /\ q' = [u \in Users |-> Surviving(snap.q[u])]
    /\ hold' = "held"
    /\ fl' = [u \in Users |-> Resting]
    /\ rn' = [r \in Runners |-> Waiting]
    /\ disputed' = {} /\ churned' = {}
    /\ UNCHANGED <<snap, wire, remote, job, misled>>

\* ResumeProvisioning: the operator lifts the hold without a comparison.
ResumeProvisioning ==
    /\ hold = "held" /\ hold' = "waived"
    /\ UNCHANGED <<wanted, link, st, q, snap, fl, wire, remote, job, rn, disputed, churned, misled, used>>

-----------------------------------------------------------------------------
(* Delivery of one account: deliverSCIM inside its fence.                   *)

To(u, pc) == fl' = [fl EXCEPT ![u].pc = pc]
Rest(u) == fl' = [fl EXCEPT ![u] = Resting]
Active(u) == Head(q[u])

\* ClaimDueSyncEvents and BeginSyncDelivery: nothing is claimed for a held connector.
BeginSyncDelivery(u) ==
    /\ ~Fenced(u) /\ q[u] # <<>> /\ hold # "held"
    /\ To(u, "begun")
    /\ UNCHANGED <<wanted, link, st, q, hold, snap, wire, remote, job, rn, disputed, churned, misled, used>>

\* SCIMUserLink: a stored remote ID is verified, anything else is looked up.
SCIMLink(u) ==
    /\ fl[u].pc = "begun"
    /\ fl' = [fl EXCEPT ![u] = IF link[u] \in Ids
                               THEN [pc |-> "verify", rid |-> link[u], started |-> FALSE]
                               ELSE [pc |-> "find", rid |-> 0, started |-> link[u] = Started]]
    /\ UNCHANGED <<wanted, link, st, q, hold, snap, wire, remote, job, rn, disputed, churned, misled, used>>

\* Mutant of Found: the target is only asked when a create of ours is unaccounted for.
FoundIfStarted(u) == IF fl[u].started \/ ~Active(u) THEN Of(u, remote) ELSE {}

\* findSCIMUser: the accounts whose externalId is the local ID.
Found(u) == Of(u, remote)

\* Exactly one account is adopted, more are ambiguous. None: an unaccounted create blocks,
\* a removal has nothing to do, anything else creates.
AfterLookup(u) ==
    CASE Cardinality(Found(u)) = 1 -> "adopt"
      [] Cardinality(Found(u)) > 1 -> "failed"
      [] OTHER -> IF fl[u].started THEN "failed" ELSE IF Active(u) THEN "start" ELSE "ok"

FindSCIMUser(u) ==
    /\ fl[u].pc = "find"
    /\ fl' = [fl EXCEPT ![u].pc = AfterLookup(u),
                        ![u].rid = IF Cardinality(Found(u)) = 1 THEN CHOOSE i \in Found(u) : TRUE ELSE 0]
    /\ UNCHANGED <<wanted, link, st, q, hold, snap, wire, remote, job, rn, disputed, churned, misled, used>>

\* SaveSCIMLink writes over a marker or the same ID only, and an ID maps one account.
Savable(u, i) ==
    /\ link[u] \in {Unlinked, Started, i}
    /\ \A v \in Users \ {u} : link[v] # i

\* The mapping of an account found, or created by this delivery's own POST, is stored; the
\* found one is then written.
SaveSCIMLink(u) ==
    /\ fl[u].pc \in {"adopt", "created"}
    /\ IF Savable(u, fl[u].rid)
       THEN /\ link' = [link EXCEPT ![u] = fl[u].rid]
            /\ To(u, IF fl[u].pc = "adopt" THEN "write" ELSE "ok")
       ELSE To(u, "failed") /\ link' = link
    /\ UNCHANGED <<wanted, st, q, hold, snap, wire, remote, job, rn, disputed, churned, misled, used>>

\* StartSCIMCreate inserts the marker; a row that is already there loses.
StartWins(u) == link[u] = Unlinked

StartSCIMCreate(u) ==
    /\ fl[u].pc = "start"
    /\ IF StartWins(u) THEN link' = [link EXCEPT ![u] = Started] /\ To(u, "post")
       ELSE link' = link /\ To(u, "failed")
    /\ UNCHANGED <<wanted, st, q, hold, snap, wire, remote, job, rn, disputed, churned, misled, used>>

\* createSCIMUser: the POST leaves.
Post(u) ==
    /\ fl[u].pc = "post"
    /\ To(u, "posted") /\ wire' = wire \cup {u}
    /\ UNCHANGED <<wanted, link, st, q, hold, snap, remote, job, rn, disputed, churned, misled, used>>

\* An ID is not handed out again between a delivery's look at it and its write.
Free(i) == remote[i].state = "gone" /\ \A u \in Users : fl[u].pc \in {"adopt", "write"} => fl[u].rid # i

\* The target applies a POST. The delivery reads the answer, reads one it cannot use
\* (the marker stays), or has given up waiting.
PostApplied(u, i) ==
    /\ u \in wire /\ Free(i)
    /\ wire' = wire \ {u}
    /\ remote' = [remote EXCEPT ![i] = [ext |-> u, state |-> "active"]]
    /\ IF fl[u].pc = "posted"
       THEN \E pc \in {"created", "failed"} :
               fl' = [fl EXCEPT ![u].pc = pc, ![u].rid = IF pc = "created" THEN i ELSE 0]
       ELSE fl' = fl
    /\ UNCHANGED <<wanted, link, st, q, hold, snap, job, rn, disputed, churned, misled, used>>

\* The target refuses a POST, as a conflict or otherwise, or it is lost on the way.
PostRefused(u) ==
    /\ u \in wire
    /\ wire' = wire \ {u}
    /\ IF fl[u].pc = "posted" THEN \E pc \in {"refused", "conflict"} : To(u, pc) ELSE fl' = fl
    /\ UNCHANGED <<wanted, link, st, q, hold, snap, remote, job, rn, disputed, churned, misled, used>>

\* createRefused: RejectSCIMCreate clears the marker. A conflict may be an account of ours:
\* it is looked up again and adopted, never created.
RejectSCIMCreate(u) ==
    /\ fl[u].pc \in {"refused", "conflict"}
    /\ link' = [link EXCEPT ![u] = IF @ = Started THEN Unlinked ELSE @]
    /\ IF fl[u].pc = "conflict" /\ Cardinality(Found(u)) = 1
       THEN fl' = [fl EXCEPT ![u].pc = "adopt", ![u].rid = CHOOSE i \in Found(u) : TRUE]
       ELSE To(u, "failed")
    /\ UNCHANGED <<wanted, st, q, hold, snap, wire, remote, job, rn, disputed, churned, misled, used>>

\* Mutant of Verified: the remote ID is still there, whoever it belongs to.
VerifiedById(u) == remote[fl[u].rid].state # "gone"

\* GetUser: the stored ID still carries this account's externalId.
Verified(u) == fl[u].rid \in Of(u, remote)

VerifyMapping(u) ==
    /\ fl[u].pc = "verify"
    /\ To(u, IF Verified(u) THEN "write"
             ELSE IF ~Active(u) /\ remote[fl[u].rid].state = "gone" THEN "ok" ELSE "failed")
    /\ UNCHANGED <<wanted, link, st, q, hold, snap, wire, remote, job, rn, disputed, churned, misled, used>>

\* The PUT of the profile or the PATCH of `active`; a 404 settles a removal.
Write(u) ==
    /\ fl[u].pc = "write"
    /\ LET i == fl[u].rid
       IN  IF remote[i].state = "gone"
           THEN remote' = remote /\ To(u, IF Active(u) THEN "failed" ELSE "ok")
           ELSE /\ remote' = [remote EXCEPT ![i].state = IF Active(u) THEN "active" ELSE "inactive"]
                /\ To(u, "ok")
    /\ UNCHANGED <<wanted, link, st, q, hold, snap, wire, job, rn, disputed, churned, misled, used>>

\* The answer to a write is lost, whether or not it was applied: a removal backs off, any
\* other write keeps its fence (MarkSyncDeliveryUncertain).
WriteUnanswered(u) ==
    /\ Fault /\ fl[u].pc = "write"
    /\ \/ remote' = remote
       \/ /\ remote[fl[u].rid].state # "gone"
          /\ remote' = [remote EXCEPT ![fl[u].rid].state = IF Active(u) THEN "active" ELSE "inactive"]
    /\ To(u, IF Active(u) THEN "fenced" ELSE "failed")
    /\ UNCHANGED <<wanted, link, st, q, hold, snap, wire, job, rn, disputed, churned, misled>>

\* A POST times out, or the process dies somewhere in the delivery: the fence is left.
Abandoned(u) ==
    /\ Fault /\ fl[u].pc \notin {"idle", "fenced"}
    /\ To(u, "fenced")
    /\ UNCHANGED <<wanted, link, st, q, hold, snap, wire, remote, job, rn, disputed, churned, misled>>

\* FinishSyncDelivery: an acknowledged event leaves the queue; one that failed is tried
\* again, or discarded once exhausted with a newer state behind it.
FinishSyncDelivery(u) ==
    /\ fl[u].pc \in {"ok", "failed"}
    /\ Rest(u)
    /\ \/ fl[u].pc = "ok" /\ q' = [q EXCEPT ![u] = Tail(@)]
       \/ fl[u].pc = "failed" /\ q' = q
       \/ /\ fl[u].pc = "failed" /\ Active(u) /\ Len(q[u]) = 2
          /\ q' = [q EXCEPT ![u] = Tail(@)]
    /\ UNCHANGED <<wanted, link, st, hold, snap, wire, remote, job, rn, disputed, churned, misled, used>>

\* releaseFencesForRemovalsTx: a removal's own fence lapses.
ReleaseRemovalFence(u) ==
    /\ fl[u].pc = "fenced" /\ ~Active(u)
    /\ Rest(u)
    /\ UNCHANGED <<wanted, link, st, q, hold, snap, wire, remote, job, rn, disputed, churned, misled, used>>

\* ReadBackSyncResource: the target holds no account of the user.
Absent(u) == Of(u, remote) = {}

\* ResumeSyncDelivery. The marker of a create may be cleared only by an operator who has
\* established that the target is quiet, and only when a read-back finds no account there;
\* a fence alone may be lifted too early.
ResumeSyncDelivery(u, allowCreateRetry) ==
    /\ fl[u].pc = "fenced"
    /\ allowCreateRetry => u \notin wire /\ Absent(u)
    /\ Rest(u)
    /\ link' = IF allowCreateRetry /\ link[u] = Started
               THEN [link EXCEPT ![u] = Unlinked] ELSE link
    /\ UNCHANGED <<wanted, st, q, hold, snap, wire, remote, job, rn, disputed, churned, misled, used>>

Deliver(u) ==
    \/ BeginSyncDelivery(u) \/ SCIMLink(u) \/ FindSCIMUser(u) \/ SaveSCIMLink(u)
    \/ StartSCIMCreate(u) \/ Post(u) \/ (\E i \in Ids : PostApplied(u, i)) \/ PostRefused(u)
    \/ RejectSCIMCreate(u) \/ VerifyMapping(u) \/ Write(u) \/ WriteUnanswered(u)
    \/ Abandoned(u) \/ FinishSyncDelivery(u) \/ ReleaseRemovalFence(u)
    \/ \E b \in BOOLEAN : ResumeSyncDelivery(u, b)

-----------------------------------------------------------------------------
(* What others do at the target.                                            *)

\* An account is erased there. A listing that has read it does not notice while the total
\* stays what it was: the pages move up, and one it has not read may be passed over.
TargetErases(i) ==
    /\ Elsewhere /\ i \in Held(remote)
    /\ remote' = [remote EXCEPT ![i] = Gone]
    /\ churned' = churned \cup {r \in Runners : rn[r].seen[i] # Gone}
    /\ UNCHANGED <<wanted, link, st, q, hold, snap, fl, wire, job, rn, disputed, misled>>

\* An unrelated account appears, under a new ID or one used before.
TargetGains(i) ==
    /\ Elsewhere /\ Free(i)
    /\ remote' = [remote EXCEPT ![i] = [ext |-> Other, state |-> "active"]]
    /\ UNCHANGED <<wanted, link, st, q, hold, snap, fl, wire, job, rn, disputed, churned, misled>>

\* A managed account is edited or deactivated there.
TargetEdits(i, state) ==
    /\ Elsewhere /\ i \in Held(remote) /\ remote[i].ext \in Users
    /\ remote[i].state = "active"
    /\ remote' = [remote EXCEPT ![i].state = state]
    /\ UNCHANGED <<wanted, link, st, q, hold, snap, fl, wire, job, rn, disputed, churned, misled>>

Target ==
    \E i \in Ids : \/ TargetErases(i) \/ TargetGains(i)
                   \/ \E state \in {"stale", "inactive"} : TargetEdits(i, state)

-----------------------------------------------------------------------------
(* Reconciliation jobs.                                                     *)

\* CreateReconcileJob, by an administrator or the schedule: one open job per connector.
CreateReconcileJob(kind) ==
    /\ job.status = "none" /\ used.claims < MaxClaims
    /\ job' = [NoJob EXCEPT !.status = "queued", !.kind = kind]
    /\ UNCHANGED <<wanted, link, st, q, hold, snap, fl, wire, remote, rn, disputed, churned, misled, used>>

\* ClaimReconcileJob: the queued job, or a running one whose lease ran out (its runner
\* stopped or stalled), under a fresh token.
ClaimReconcileJob(r) ==
    /\ rn[r].pc = "idle" /\ job.status \in {"queued", "running"} /\ job.att < MaxAttempts
    /\ used.claims < MaxClaims
    /\ used' = [used EXCEPT !.claims = @ + 1]
    /\ job' = [job EXCEPT !.status = "running", !.tok = used.claims + 1, !.att = @ + 1]
    /\ rn' = [rn EXCEPT ![r] = [Waiting EXCEPT !.pc = "listing", !.tok = used.claims + 1,
                                              !.kind = job.kind]]
    /\ UNCHANGED <<wanted, link, st, q, hold, snap, fl, wire, remote, disputed, churned, misled>>

\* A job interrupted too often is failed.
FailInterruptedJob ==
    /\ job.status = "running" /\ job.att >= MaxAttempts
    /\ job' = NoJob
    /\ UNCHANGED <<wanted, link, st, q, hold, snap, fl, wire, remote, rn, disputed, churned, misled, used>>

\* The target's collection in the order of its IDs, one account to a page.
Total == Cardinality(Held(remote))
OnPage(n) == {i \in Held(remote) : Cardinality({j \in Held(remote) : j < i}) = n}

\* A listing ends with the accounts it has read.
ListEnds(r, complete, seen) ==
    rn' = [rn EXCEPT ![r] = [pc |-> "listed", tok |-> @.tok, kind |-> @.kind, total |-> -1, n |-> 0,
                             seen |-> seen, complete |-> complete]]

\* It goes on to the next page.
ListContinues(r, seen) ==
    rn' = [rn EXCEPT ![r] = [@ EXCEPT !.total = Total, !.n = rn[r].n + 1, !.seen = seen]]

\* What has been read with one more account.
Read(r, i) == [rn[r].seen EXCEPT ![i] = remote[i]]

\* listSCIMCollection reads the next page. A total that differs from the first page's, or an
\* ID read twice, ends the listing as incomplete.
ListPage(r) ==
    /\ rn[r].pc = "listing"
    /\ \/ rn[r].total \notin {-1, Total} /\ ListEnds(r, FALSE, rn[r].seen)
       \/ rn[r].total \in {-1, Total} /\ Total = 0 /\ ListEnds(r, TRUE, rn[r].seen)
       \/ /\ rn[r].total \in {-1, Total}
          /\ \E i \in OnPage(rn[r].n) :
                IF rn[r].seen[i] # Gone THEN ListEnds(r, FALSE, rn[r].seen)
                ELSE IF rn[r].n + 1 = Total THEN ListEnds(r, TRUE, Read(r, i))
                ELSE ListContinues(r, Read(r, i))
    /\ UNCHANGED <<wanted, link, st, q, hold, snap, fl, wire, remote, job, disputed, churned, misled, used>>

\* A page fails or the listing's budget runs out: what was read is compared, incomplete.
ListFails(r) ==
    /\ Fault /\ rn[r].pc = "listing"
    /\ ListEnds(r, FALSE, rn[r].seen)
    /\ UNCHANGED <<wanted, link, st, q, hold, snap, fl, wire, remote, job, disputed, churned, misled>>

\* A resource is compared only through a relationship the connector already has.
Managed(u) == u \in wanted \/ st[u] # "none" \/ link[u] # Unlinked

\* A mapping to an ID that a complete listing does not hold. A marker is never dead.
Dead(L, i) == i \in Ids /\ L.complete /\ i \notin Held(L.seen)

\* link: a live mapping to another ID, and an ID mapped to another account, are disputes.
Linkable(L, u) ==
    {i \in Of(u, L.seen) : /\ Managed(u)
                           /\ link[u] \in {Unlinked, Started, i} \/ Dead(L, link[u])
                           /\ \A v \in Users \ {u} : link[v] # i}

\* Of several accounts the first is mapped: it is then a live mapping to the others.
Mapped(L, u) == {i \in Linkable(L, u) : \A j \in Linkable(L, u) : i <= j}

\* An account with access that a complete listing does not show.
Missing(L, u) == u \in wanted /\ L.complete /\ Of(u, L.seen) = {}

\* The mapping a repair leaves: of a missing account a dead one is dropped.
Relinked(L, u) ==
    IF Mapped(L, u) # {} THEN CHOOSE i \in Mapped(L, u) : TRUE
    ELSE IF Missing(L, u) /\ Dead(L, link[u]) THEN Unlinked ELSE link[u]

\* The accounts a repair sends again, those it removes, and those it only counts.
Stale(L) == {u \in wanted : Missing(L, u) \/ \E i \in Mapped(L, u) : L.seen[i].state # "active"}
Orphaned(L) ==
    {u \in Users \ wanted : L.complete /\ \E i \in Mapped(L, u) : L.seen[i].state # "inactive"}
MappingConflicts(L) == {u \in Users : Managed(u) /\ Of(u, L.seen) \ Mapped(L, u) # {}}

\* The accounts a listing shows that are no longer there, or says are not there and are.
Mistaken(L) ==
    {u \in Users : \/ Of(u, L.seen) \ Of(u, remote) # {}
                   \/ L.complete /\ Of(u, remote) \ Of(u, L.seen) # {}}

\* ReconcileDrift: one transaction against the directory as it is now, whoever holds the
\* job. A preview only records what was observed.
ReconcileDrift(r) ==
    /\ rn[r].pc = "listed"
    /\ IF rn[r].kind = "repair"
       THEN /\ link' = [u \in Users |-> Relinked(rn[r], u)]
            /\ Queue(Stale(rn[r]), Orphaned(rn[r]))
            /\ disputed' = disputed \cup MappingConflicts(rn[r])
            /\ misled' = misled \cup IF r \in churned THEN Mistaken(rn[r]) ELSE {}
       ELSE UNCHANGED <<link, st, q, disputed, misled>>
    /\ churned' = churned \ {r}
    /\ rn' = [rn EXCEPT ![r].pc = "compared", ![r].seen = Waiting.seen]
    /\ UNCHANGED <<wanted, hold, snap, fl, wire, remote, job, used>>

\* Mutant of Evidence: a repair that finished without an error is enough.
EvidenceOfAnyRepair(r) == rn[r].kind = "repair"

\* What lifts a hold: a repair that listed the target completely and wrote through.
Evidence(r) == rn[r].kind = "repair" /\ rn[r].complete

\* FinishReconcileJob: only under the claim that is still the job's.
FinishReconcileJob(r) ==
    /\ rn[r].pc = "compared"
    /\ rn' = [rn EXCEPT ![r] = Waiting]
    /\ IF job.status = "running" /\ job.tok = rn[r].tok
       THEN /\ job' = NoJob
            /\ hold' = IF Evidence(r) /\ hold = "held" THEN "none" ELSE hold
       ELSE UNCHANGED <<job, hold>>
    /\ UNCHANGED <<wanted, link, st, q, snap, fl, wire, remote, disputed, churned, misled, used>>

\* A runner's process dies; its lease will run out.
RunnerDies(r) ==
    /\ Fault /\ rn[r].pc # "idle"
    /\ rn' = [rn EXCEPT ![r] = Waiting] /\ churned' = churned \ {r}
    /\ UNCHANGED <<wanted, link, st, q, hold, snap, fl, wire, remote, job, disputed, misled>>

Run(r) ==
    \/ ClaimReconcileJob(r) \/ ListPage(r) \/ ListFails(r) \/ ReconcileDrift(r)
    \/ FinishReconcileJob(r) \/ RunnerDies(r)

Next ==
    \/ \E u \in Users : \/ SetAccess(u) \/ AccessLapses(u) \/ ReconcileProvisioning(u)
                        \/ RetryProvisioning(u) \/ Deliver(u)
    \/ Snapshot \/ Restore \/ ResumeProvisioning
    \/ Target
    \/ \E kind \in {"preview", "repair"} : CreateReconcileJob(kind)
    \/ FailInterruptedJob
    \/ \E r \in Runners : Run(r)

Spec == Init /\ [][Next]_vars

-----------------------------------------------------------------------------
(* Properties.                                                              *)

\* A person never has two accounts at the target: not through a POST whose answer was lost,
\* a fence lifted too early, a mapping dropped on a listing older than the account, a
\* restored directory that never heard of the create, or an ID the target reused
\* (StartSCIMCreate, findSCIMUser, dropDead). The exception is an account whose repair went
\* by a listing that lost an account it had read: its marker may be lost to an erased ID.
NoDuplicateAccount == \A u \in Users \ misled : Cardinality(Of(u, remote)) <= 1

\* An account of somebody else is never written, even when the target gave it an ID a stored
\* mapping still names (the verification in deliverSCIM, the disputes of ReconcileDrift).
OthersUntouched ==
    [][\A i \in Held(remote) :
          remote[i].ext = Other => remote'[i].state \in {remote[i].state, "gone"}]_vars

\* Once a removal is acknowledged and nothing is queued, the person's account at the target
\* is not active.
Removed(u) ==
    (st[u] = "off" /\ q[u] = <<>> /\ hold = "none" /\ u \notin disputed)
        => \A i \in Of(u, remote) : remote[i].state = "inactive"

\* What is acknowledged as removed is removed: a restored directory sends nothing, and counts
\* nothing as removed, before a repair has compared a complete listing made after the restore
\* (ApplyRestoredState, FinishReconcileJob), and a create of unknown outcome never passes for
\* absent. The exception is an account whose repair went by a listing that lost an account it
\* had read, and was mistaken about this one.
NoneLeftActive == \A u \in Users \ misled : Removed(u)

\* Not so without the exception: a total that stays what it was is not a collection that
\* stayed what it was (listSCIMCollection), and the hold is lifted over an account that the
\* walk passed over.
NoneLeftActiveByChurn == \A u \in Users : Removed(u)
=============================================================================
