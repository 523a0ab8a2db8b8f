----------------------------- MODULE SyncOutbox -----------------------------
(***************************************************************************)
(* Outbound account provisioning of one account at one connector: the      *)
(* durable outbox (account_sync_events), the desired state row              *)
(* (sync_resource_state), the delivery fence (sync_delivery_attempts), the *)
(* dispatchers of every running instance and the receiver at the far end.  *)
(*                                                                         *)
(* Every table here is keyed by (connector, resource) and no statement of  *)
(* the code relates two keys of users, so one key is the whole machine.    *)
(* SQLite runs one write transaction at a time: an action is a transaction *)
(* of the store, or one step of a dispatcher between two of them. Wall     *)
(* clock comparisons become flags (leased, due, expired) that the passing  *)
(* of time flips at any moment.                                            *)
(***************************************************************************)
EXTENDS Integers, FiniteSets

CONSTANTS
    Workers,     \* dispatchers: overlapping ticks or instances of a rolling deploy
    Tokens,      \* claim tokens (UUIDs)
    NoToken,     \* the empty claim_token
    Versioned,   \* TRUE: suite receiver honouring meta.version; FALSE: generic SCIM
    Budget,      \* SyncAttemptBudget
    MaxChanges,  \* bound on changes made to the directory
    MaxFaults    \* bound on lost answers and crashes of a sending dispatcher

ASSUME ConstantsAssumption ==
    /\ NoToken \notin Tokens
    /\ Versioned \in BOOLEAN
    /\ Budget \in Nat \ {0}
    /\ MaxChanges \in Nat /\ MaxFaults \in Nat

VARIABLES
    user,    \* the account: "active", "ended" (end date passed, not yet processed),
             \* "disabled" or "deleted"
    assigned,\* policy, assignment and application state admit the account
    sys,     \* the connector: "held" after a restore, "on", or "gone"
    mapped,  \* a remote ID mapping is stored (scim_user_links.remote_id<>'')
    started, \* the create marker: the link row is there, and blank
    st,      \* the sync_resource_state row
    outbox,  \* the undelivered account_sync_events rows
    last,    \* the highest rowid handed out
    fence,   \* the sync_delivery_attempts row, as a set of at most one
    wk,      \* each dispatcher: where it stands and the event it claimed
    wire,    \* remote writes that may still be applied
    remote,  \* the receiver's copy of the account
    changes, \* directory changes so far
    faults   \* lost answers and crashes so far

dir == <<user, assigned, sys, mapped, started>>
vars == <<user, assigned, sys, mapped, started, st, outbox, last, fence, wk, wire, remote,
          changes, faults>>

Types == {"created", "updated", "deleted", "mfa_reset"}

Event == [id : Nat, row : Nat, type : Types, active : BOOLEAN, rev : Nat, dv : Nat,
          status : {"pending", "failed"}, att : 0..Budget, due : BOOLEAN,
          tok : Tokens \cup {NoToken}, leased : BOOLEAN]
Fence == [tok : Tokens, ev : Nat, expired : BOOLEAN]
Write == [tok : Tokens, ev : Nat, row : Nat, type : Types, active : BOOLEAN, ver : Nat]

\* A place holder for the event of a dispatcher that has none.
NoEvent == [id |-> 0, row |-> 0, type |-> "updated", active |-> FALSE, rev |-> 0, dv |-> 0,
            status |-> "pending", att |-> 0, due |-> FALSE, tok |-> NoToken, leased |-> FALSE]
Idle == [pc |-> "idle", ev |-> NoEvent]

TypeOK ==
    /\ user \in {"active", "ended", "disabled", "deleted"}
    /\ assigned \in BOOLEAN /\ mapped \in BOOLEAN /\ started \in BOOLEAN
    /\ sys \in {"held", "on", "gone"}
    /\ st \in [row : BOOLEAN, active : BOOLEAN, prov : BOOLEAN, rev : Nat, dv : Nat, off : BOOLEAN]
    /\ outbox \subseteq Event
    /\ last \in Nat
    /\ fence \subseteq Fence
    /\ wk \in [Workers -> [pc : {"idle", "claimed", "begun", "sent", "ok", "refused"}, ev : Event]]
    /\ wire \subseteq Write
    /\ remote \in [known : BOOLEAN, active : BOOLEAN, ver : Nat, type : Types]
    /\ changes \in Nat /\ faults \in Nat

NoRow == [row |-> FALSE, active |-> FALSE, prov |-> FALSE, rev |-> 0, dv |-> 0, off |-> FALSE]

Init ==
    /\ user = "active"
    /\ assigned = FALSE
    /\ sys \in {"held", "on"}
    \* A mapping with no state row predates tracking; only generic SCIM stores mappings.
    /\ mapped \in (IF Versioned THEN {FALSE} ELSE BOOLEAN)
    /\ started = FALSE
    /\ st = NoRow
    /\ outbox = {} /\ last = 0
    /\ fence = {}
    /\ wk = [w \in Workers |-> Idle]
    /\ wire = {}
    /\ remote = [known |-> mapped, active |-> mapped, ver |-> 0, type |-> "created"]
    /\ changes = 0 /\ faults = 0

-----------------------------------------------------------------------------
(* Events and the transactions every directory change is made of.          *)

\* effective_app_access for the account; an account past its end date has none.
Allowed(u, a) == u = "active" /\ a
Access == Allowed(user, assigned)

\* AccountSyncEvent.Removal and removalSQL: the event takes access away.
Removal(e) == e.type = "deleted" \/ (e.type = "updated" /\ ~e.active)

Fenced(e) == \E f \in fence : f.ev = e.id

\* insertResourceEventTx: a new pending event at the end of the queue.
NewEvent(row, type, active, rev) ==
    [id |-> row, row |-> row, type |-> type, active |-> active, rev |-> rev, dv |-> 0,
     status |-> "pending", att |-> 0, due |-> TRUE, tok |-> NoToken, leased |-> FALSE]

\* What one transaction reads and writes: the state row, the queue, the last rowid.
DB == [st |-> st, ev |-> outbox, last |-> last]

\* queueDesiredStateTx for a user. Unfenced work of the same account is superseded; a
\* removal also pulls out the unfenced MFA resets and puts them behind itself, inactive,
\* unclaimed, and with their version to be assigned again.
QueueDesired(d, active, deleted, force) ==
    LET unsent == {e \in d.ev : ~Fenced(e)}
        resets == {e \in unsent : ~active /\ e.type = "mfa_reset"}
        kept   == d.ev \ (resets \cup {e \in unsent : e.type \in {"created", "updated"}})
        rev    == d.st.rev + 1
        type   == IF deleted THEN "deleted"
                  ELSE IF active /\ (~d.st.prov \/ force) THEN "created" ELSE "updated"
        moved  == {[e EXCEPT !.row = d.last + 1 + Cardinality({r \in resets : r.row <= e.row}),
                             !.active = FALSE, !.rev = rev, !.dv = 0,
                             !.tok = NoToken, !.leased = FALSE] : e \in resets}
    IN  [st   |-> [d.st EXCEPT !.row = TRUE, !.active = active, !.rev = rev, !.off = FALSE],
         ev   |-> kept \cup {NewEvent(d.last + 1, type, active, rev)} \cup moved,
         last |-> d.last + 1 + Cardinality(resets)]

\* Mutant of Revive: all exhausted work is discarded, current or not.
ReviveNothing(d) ==
    LET spent(e) == e.status = "failed" /\ ~Fenced(e) /\ e.type \in {"created", "updated"}
    IN  [d EXCEPT !.ev = {e \in d.ev : ~spent(e)}]

\* Mutant of Revive: exhausted work stays exhausted.
ReviveLeavesFailed(d) ==
    [d EXCEPT !.ev = {e \in d.ev : e.status = "failed" /\ ~Fenced(e) => e.rev = d.st.rev}]

\* The tail of reconcileProvisioningTx: exhausted work a newer state has overtaken is
\* discarded, exhausted work that is still current goes back to the queue after a pause.
Revive(d) ==
    LET idle(e)      == e.status = "failed" /\ ~Fenced(e)
        stateless(e) == e.type \in {"deleted", "mfa_reset"}
        overtaken(e) == idle(e) /\ ~stateless(e) /\ e.rev # d.st.rev
    IN  [d EXCEPT !.ev = {IF idle(e) THEN [e EXCEPT !.status = "pending", !.att = 0, !.due = FALSE]
                          ELSE e : e \in {x \in d.ev : ~overtaken(x)}}]

\* reconcileProvisioningTx for this account, given its effective access.
Reconcile(d, allowed) ==
    Revive(IF allowed /\ ~d.st.active THEN QueueDesired(d, TRUE, FALSE, FALSE)
           ELSE IF ~allowed /\ d.st.active THEN QueueDesired(d, FALSE, FALSE, FALSE)
           ELSE d)

\* offboardUserTx: an inactive desired state wherever the account is or was held.
Offboard(d, deleted) ==
    IF d.st.row \/ mapped
    THEN QueueDesired([d EXCEPT !.st.prov = @ \/ mapped], FALSE, deleted, FALSE)
    ELSE d

Commit(d) == st' = d.st /\ outbox' = d.ev /\ last' = d.last

\* The model's bound on directory changes.
Change == sys # "gone" /\ changes < MaxChanges /\ changes' = changes + 1

-----------------------------------------------------------------------------
(* The directory: what administrators, users and the clock do.             *)

\* A provisioning-aware access mutation (assignment, policy, group membership): the
\* change and its reconciliation are one transaction.
SetAssigned(a) ==
    /\ Change /\ user # "deleted" /\ assigned # a
    /\ assigned' = a
    /\ Commit(Reconcile(DB, Allowed(user, a)))
    /\ UNCHANGED <<user, sys, mapped, started, fence, wk, wire, remote, faults>>

\* The clock or a foreign-key cascade takes the assignment; nothing is queued yet.
AssignmentLapses ==
    /\ Change /\ assigned
    /\ assigned' = FALSE
    /\ UNCHANGED <<user, sys, mapped, started, st, outbox, last, fence, wk, wire, remote, faults>>

\* The account's end date passes: it reads as disabled before anything acts on it.
EndDatePasses ==
    /\ Change /\ user = "active"
    /\ user' = "ended"
    /\ UNCHANGED <<assigned, sys, mapped, started, st, outbox, last, fence, wk, wire, remote, faults>>

\* RunDueExpiries for an ended account (not the last active administrator, whom it
\* keeps); its shared follow-up is the reconcile pass.
ExpireAccount ==
    /\ user = "ended" /\ sys # "gone"
    /\ user' = "disabled"
    /\ Commit(Offboard(DB, FALSE))
    /\ UNCHANGED <<assigned, sys, mapped, started, fence, wk, wire, remote, changes, faults>>

\* updateUser with the resulting status: offboardUserTx when an active account becomes
\* disabled, then queueUserUpdateTx, then the reconciliation. An ended account is read,
\* and written back, as disabled.
UpdateUser(status) ==
    /\ Change /\ user # "deleted"
    /\ user' = status
    /\ LET off == IF user = "active" /\ status = "disabled" THEN Offboard(DB, FALSE) ELSE DB
           upd == IF off.st.active /\ Allowed(status, assigned)
                  THEN QueueDesired(off, TRUE, FALSE, FALSE) ELSE off
       IN  Commit(Reconcile(upd, Allowed(status, assigned)))
    /\ UNCHANGED <<assigned, sys, mapped, started, fence, wk, wire, remote, faults>>

\* DeleteUserWithSyncEvents: holders get a deletion through their desired state, a
\* connector with no record of the account gets a bare one at revision 0.
DeleteUser ==
    /\ Change /\ user # "deleted"
    /\ user' = "deleted"
    /\ LET off == Offboard(DB, TRUE)
           d   == IF off.st.row THEN off
                  ELSE [st |-> [NoRow EXCEPT !.row = TRUE],
                        ev |-> off.ev \cup {NewEvent(last + 1, "deleted", FALSE, 0)},
                        last |-> last + 1]
       IN  Commit(Reconcile(d, FALSE))
    /\ UNCHANGED <<assigned, sys, mapped, started, fence, wk, wire, remote, faults>>

\* ResetUserMFA: queueUserNotificationTx, an event that carries no desired state, to a
\* connector that holds the account. Its profile says active iff the account is.
ResetUserMFA ==
    /\ Change /\ user # "deleted" /\ st.active
    /\ outbox' = outbox \cup {NewEvent(last + 1, "mfa_reset", user = "active", st.rev)}
    /\ last' = last + 1
    /\ UNCHANGED <<dir, st, fence, wk, wire, remote, faults>>

\* ReconcileProvisioning: the worker's slow pass.
ReconcileProvisioning ==
    /\ sys # "gone"
    /\ Commit(Reconcile(DB, Access))
    /\ UNCHANGED <<dir, fence, wk, wire, remote, changes, faults>>

\* ResyncSystem: after a reconciliation, re-send the state of an account the connector
\* holds (as a create) and replay the removal of one it held.
ResyncSystem ==
    /\ Change
    /\ LET r == Reconcile(DB, Access)
           known == [r EXCEPT !.st.row = @ \/ mapped, !.st.prov = @ \/ (mapped /\ ~r.st.active)]
       IN  Commit(IF r.st.active THEN IF user # "deleted" THEN QueueDesired(r, TRUE, FALSE, TRUE) ELSE r
                  ELSE IF known.st.row THEN QueueDesired(known, FALSE, FALSE, FALSE) ELSE r)
    /\ UNCHANGED <<dir, fence, wk, wire, remote, faults>>

\* ResumeProvisioning, or a repair reconciliation, lifts the hold a restore set.
ReleaseHold ==
    /\ sys = "held" /\ sys' = "on"
    /\ UNCHANGED <<user, assigned, mapped, started, st, outbox, last, fence, wk, wire, remote, changes, faults>>

\* DeletePairedSystem: the connector, its queue and, by trigger and cascade, its fence,
\* state rows and mappings.
DeletePairedSystem ==
    /\ sys # "gone" /\ sys' = "gone"
    /\ st' = NoRow /\ outbox' = {} /\ fence' = {} /\ mapped' = FALSE /\ started' = FALSE
    /\ UNCHANGED <<user, assigned, last, wk, wire, remote, changes, faults>>

Directory ==
    \/ \E a \in BOOLEAN : SetAssigned(a)
    \/ AssignmentLapses \/ EndDatePasses \/ ExpireAccount
    \/ \E status \in {"active", "disabled"} : UpdateUser(status)
    \/ DeleteUser \/ ResetUserMFA
    \/ ReconcileProvisioning \/ ResyncSystem \/ ReleaseHold \/ DeletePairedSystem

-----------------------------------------------------------------------------
(* Dispatchers.                                                             *)

\* Mutant of ReleasedByExpiry: an interrupted removal waits for the operator too.
NothingReleased == {}

\* releaseFencesForRemovalsTx: the events whose own fence is past its recovery time.
ReleasedByExpiry ==
    {e \in outbox : Removal(e) /\ \E f \in fence : f.ev = e.id /\ f.expired}

\* Mutant of Claimable: only work that is due holds back what was queued after it.
ClaimablePastBackoff(e, events, fences) ==
    /\ e.status = "pending" /\ e.due /\ ~e.leased
    /\ fences = {} /\ sys = "on"
    /\ ~ \E o \in events : o.row < e.row /\ o.status = "pending" /\ o.due

Claimable(e, events, fences) ==
    /\ e.status = "pending" /\ e.due /\ ~e.leased
    /\ fences = {} /\ sys = "on"
    /\ ~ \E o \in events : /\ o.row < e.row
                           /\ o.status = "pending" \/ o.type = "mfa_reset"

MaxOf(a, b) == IF a >= b THEN a ELSE b

\* prepareSyncDeliveryTx: the version is assigned once, above everything assigned
\* before; a reset's snapshot never says active for an account that is not.
Prepare(e) ==
    IF e.dv # 0 THEN e
    ELSE [e EXCEPT !.dv = MaxOf(MaxOf(st.dv + 1, st.rev + 1), e.rev),
                   !.active = @ /\ (e.type = "mfa_reset" => st.active /\ Access)]

FreshToken(t) ==
    /\ \A e \in outbox : e.tok # t
    /\ \A f \in fence : f.tok # t
    /\ \A w \in Workers : wk[w].ev.tok # t
    /\ \A x \in wire : x.tok # t

\* ClaimDueSyncEvents: expired fences of removals are released, then the due event at
\* the head of the queue is prepared and leased under a fresh token.
ClaimDueSyncEvents(w, t) ==
    /\ wk[w].pc = "idle" /\ sys # "gone"
    /\ FreshToken(t)
    /\ LET freed  == {[e EXCEPT !.status = "pending", !.due = TRUE, !.leased = FALSE, !.tok = NoToken]
                      : e \in ReleasedByExpiry}
           events == (outbox \ ReleasedByExpiry) \cup freed
           fences == {f \in fence : ~ \E e \in ReleasedByExpiry : e.id = f.ev}
           heads  == {e \in events : Claimable(e, events, fences)}
       IN  /\ fence' = fences
           /\ \/ heads = {} /\ outbox' = events /\ UNCHANGED <<st, wk>>
              \/ \E e \in heads :
                    LET c == [Prepare(e) EXCEPT !.tok = t, !.leased = TRUE]
                    IN  /\ outbox' = (events \ {e}) \cup {c}
                        /\ st' = [st EXCEPT !.row = TRUE, !.dv = MaxOf(@, c.dv)]
                        /\ wk' = [wk EXCEPT ![w] = [pc |-> "claimed", ev |-> c]]
    /\ UNCHANGED <<dir, last, wire, remote, changes, faults>>

\* BeginSyncDelivery: a valid unsent claim becomes the fence; a stale one is skipped.
BeginSyncDelivery(w) ==
    /\ wk[w].pc = "claimed"
    /\ LET valid == /\ fence = {}
                    /\ \E e \in outbox : /\ e.id = wk[w].ev.id /\ e.tok = wk[w].ev.tok
                                         /\ e.leased /\ e.status = "pending"
       IN  IF valid
           THEN /\ fence' = {[tok |-> wk[w].ev.tok, ev |-> wk[w].ev.id, expired |-> FALSE]}
                /\ wk' = [wk EXCEPT ![w].pc = "begun"]
           ELSE /\ UNCHANGED fence
                /\ wk' = [wk EXCEPT ![w] = Idle]
    /\ UNCHANGED <<dir, st, outbox, last, wire, remote, changes, faults>>

\* A create was begun, its outcome was never learned, and the receiver's lookup by
\* externalId does not find the account.
CreateUnresolved == started /\ ~remote.known

\* deliverSCIM returns an error before it writes: errCreateUncertain, for every event of
\* the account, or a link row that a connector that is gone no longer takes.
CannotSend(e) ==
    /\ ~Versioned /\ e.type # "mfa_reset"
    /\ CreateUnresolved \/ (sys = "gone" /\ (remote.known \/ ~Removal(e)))

\* Generic SCIM has no MFA reset to send, and no removal of an account it does not find.
NothingToSend(e) == ~Versioned /\ (e.type = "mfa_reset" \/ (Removal(e) /\ ~remote.known))

\* deliver: the request is written. Generic SCIM first looks the account up and stores the
\* mapping it finds, over a marker too; before a create (StartSCIMCreate) it stores the marker.
Send(w) ==
    /\ wk[w].pc = "begun" /\ ~CannotSend(wk[w].ev)
    /\ LET e == wk[w].ev
           linked == ~Versioned /\ e.type # "mfa_reset"
       IN  /\ mapped' = (mapped \/ (linked /\ remote.known))
           /\ started' = IF linked /\ remote.known THEN FALSE
                         ELSE started \/ (linked /\ ~Removal(e))
           /\ IF NothingToSend(e)
              THEN wk' = [wk EXCEPT ![w].pc = "ok"] /\ UNCHANGED wire
              ELSE /\ wire' = wire \cup {[tok |-> e.tok, ev |-> e.id, row |-> e.row,
                                          type |-> e.type, active |-> e.active, ver |-> e.dv]}
                   /\ wk' = [wk EXCEPT ![w].pc = "sent"]
    /\ UNCHANGED <<user, assigned, sys, st, outbox, last, fence, remote, changes, faults>>

\* Mutant of Provisioned: an acknowledgement of any revision records the offboarding.
ProvisionedAnyRevision(e) ==
    [st EXCEPT !.prov = @ \/ (st.row /\ e.type = "created"),
               !.off  = @ \/ (e.type \in {"deleted", "updated"} /\ st.row /\ ~st.active)]

\* provisionedTx on the state row (the re-queued groups are other resources).
Provisioned(e) ==
    [st EXCEPT !.prov = @ \/ (st.row /\ e.type = "created"),
               !.off  = @ \/ (/\ e.type \in {"deleted", "updated"}
                              /\ st.row /\ ~st.active /\ st.rev = e.rev)]

\* FinishSyncDelivery: only the exact attempt is released, together with its outcome.
Finish(w, status, att, due) ==
    LET e    == wk[w].ev
        mine == {r \in outbox : r.id = e.id /\ r.tok = e.tok}
        done == {[r EXCEPT !.status = status, !.att = att, !.due = due,
                           !.leased = FALSE, !.tok = NoToken] : r \in mine}
    IN  /\ IF \E f \in fence : f.tok = e.tok
           THEN /\ fence' = {f \in fence : f.tok # e.tok}
                /\ outbox' = (outbox \ mine) \cup (IF status = "delivered" THEN {} ELSE done)
                /\ st' = IF status = "delivered" THEN Provisioned(e) ELSE st
           ELSE UNCHANGED <<fence, outbox, st>>
        /\ wk' = [wk EXCEPT ![w] = Idle]
        /\ UNCHANGED <<dir, last, wire, remote, changes>>

\* The write of this dispatcher is a create: its answer decides what becomes of the marker.
Creating(e) == started /\ ~Removal(e) /\ e.type # "mfa_reset"

\* deliverSCIM stores the remote ID a create returned before it reports success.
SaveSCIMLink(w) ==
    /\ wk[w].pc = "ok" /\ Creating(wk[w].ev)
    /\ mapped' = TRUE /\ started' = FALSE
    /\ UNCHANGED <<user, assigned, sys, st, outbox, last, fence, wk, wire, remote, changes, faults>>

\* createRefused: only a create that cannot have been applied takes its marker back.
RejectSCIMCreate(w) ==
    /\ wk[w].pc = "refused" /\ Creating(wk[w].ev)
    /\ started' = FALSE
    /\ UNCHANGED <<user, assigned, sys, mapped, st, outbox, last, fence, wk, wire, remote, changes, faults>>

\* The receiver accepted.
Acknowledge(w) ==
    /\ wk[w].pc = "ok" /\ ~Creating(wk[w].ev)
    /\ Finish(w, "delivered", 0, TRUE)
    /\ UNCHANGED faults

\* A refused or never written request spends an attempt; a create or update that has
\* spent its budget is failed, a removal or reset backs off for ever.
RetryOrFail(w) ==
    LET e   == wk[w].ev
        att == IF e.att < Budget THEN e.att + 1 ELSE Budget
    IN  Finish(w, IF att >= Budget /\ ~Removal(e) /\ e.type # "mfa_reset" THEN "failed" ELSE "pending",
               att, FALSE)

\* So does a create that succeeded with an answer whose ID cannot be used: its marker stays.
Reject(w) ==
    /\ \/ wk[w].pc = "begun"
       \/ wk[w].pc = "refused" /\ ~Creating(wk[w].ev)
       \/ wk[w].pc = "ok" /\ Creating(wk[w].ev)
    /\ RetryOrFail(w)
    /\ UNCHANGED faults

\* Mutant of Uncertain: a lost answer is retried whatever the write was.
UncertainRetried(w) ==
    /\ wk[w].pc \in {"sent", "ok", "refused"} /\ faults < MaxFaults
    /\ faults' = faults + 1
    /\ RetryOrFail(w)

\* The answer never came (timeout, broken connection, 5xx, 202). A removal is retried;
\* any other write stays fenced (MarkSyncDeliveryUncertain writes only an error text).
Uncertain(w) ==
    /\ wk[w].pc \in {"sent", "ok", "refused"} /\ faults < MaxFaults
    /\ faults' = faults + 1
    /\ IF Removal(wk[w].ev) THEN RetryOrFail(w)
       ELSE /\ wk' = [wk EXCEPT ![w] = Idle]
            /\ UNCHANGED <<dir, st, outbox, last, fence, wire, remote, changes>>

\* A shutdown before the write, or of a removal whose answer is still out, and a failed
\* read of the connector spend no attempt.
Unspent(w) ==
    /\ \/ wk[w].pc = "begun" \/ (wk[w].pc = "refused" /\ ~Creating(wk[w].ev))
       \/ wk[w].pc = "sent" /\ Removal(wk[w].ev)
    /\ faults < MaxFaults /\ faults' = faults + 1
    /\ Finish(w, "pending", wk[w].ev.att, TRUE)

\* The process dies, or its outcome cannot be stored: only what is durable remains.
Crash(w) ==
    /\ wk[w].pc # "idle" /\ faults < MaxFaults
    /\ faults' = faults + 1
    /\ wk' = [wk EXCEPT ![w] = Idle]
    /\ UNCHANGED <<dir, st, outbox, last, fence, wire, remote, changes>>

Dispatch(w) ==
    \/ \E t \in Tokens : ClaimDueSyncEvents(w, t)
    \/ BeginSyncDelivery(w) \/ Send(w) \/ SaveSCIMLink(w) \/ RejectSCIMCreate(w)
    \/ Acknowledge(w) \/ Reject(w) \/ Uncertain(w) \/ Unspent(w) \/ Crash(w)

-----------------------------------------------------------------------------
(* The receiver, the clock and the operator.                                *)

Answer(x, pc) ==
    wk' = [w \in Workers |-> IF wk[w].pc = "sent" /\ wk[w].ev.tok = x.tok
                             THEN [wk[w] EXCEPT !.pc = pc] ELSE wk[w]]

\* A receiver honouring versions refuses an older one; any other applies what arrives.
Accepts(x) == Versioned => x.ver >= remote.ver

\* The write reaches the receiver, now or long after its sender gave up on it.
Land(x) ==
    /\ x \in wire
    /\ wire' = wire \ {x}
    /\ IF Accepts(x)
       THEN /\ remote' = [known |-> remote.known \/ x.active, active |-> x.active, ver |-> x.ver, type |-> x.type]
            /\ Answer(x, "ok")
       ELSE UNCHANGED remote /\ Answer(x, "refused")
    /\ UNCHANGED <<dir, st, outbox, last, fence, changes, faults>>

\* The write is turned away (4xx, 503) or lost on the way.
Refuse(x) ==
    /\ x \in wire
    /\ wire' = wire \ {x}
    /\ Answer(x, "refused")
    /\ UNCHANGED <<dir, st, outbox, last, fence, remote, changes, faults>>

\* Time: a lease runs out, a backoff ends, a fence passes recover_after.
LeaseExpires(e) ==
    /\ e \in outbox /\ e.leased
    /\ outbox' = (outbox \ {e}) \cup {[e EXCEPT !.leased = FALSE]}
    /\ UNCHANGED <<dir, st, last, fence, wk, wire, remote, changes, faults>>

BackoffEnds(e) ==
    /\ e \in outbox /\ ~e.due
    /\ outbox' = (outbox \ {e}) \cup {[e EXCEPT !.due = TRUE]}
    /\ UNCHANGED <<dir, st, last, fence, wk, wire, remote, changes, faults>>

FenceExpires(f) ==
    /\ f \in fence /\ ~f.expired
    /\ fence' = (fence \ {f}) \cup {[f EXCEPT !.expired = TRUE]}
    /\ UNCHANGED <<dir, st, outbox, last, wk, wire, remote, changes, faults>>

\* ResumeSyncDelivery (and ResumeSyncDeliveries) past recover_after. The operator has
\* stopped every dispatcher and established that the old request cannot commit any more.
\* The marker stays unless a new create is allowed, which takes a read-back that finds no
\* account; a suite receiver has no read-back, and a resume of all attempts no choice.
ResumeSyncDelivery(f, allowCreateRetry) ==
    /\ f \in fence /\ f.expired
    /\ allowCreateRetry => ~Versioned /\ ~remote.known
    /\ \A w \in Workers : wk[w].pc = "idle"
    /\ \A x \in wire : x.tok # f.tok
    /\ started' = (started /\ ~allowCreateRetry)
    /\ fence' = fence \ {f}
    /\ outbox' = {IF e.id = f.ev
                  THEN [e EXCEPT !.status = "pending", !.att = 0, !.due = TRUE, !.leased = FALSE, !.tok = NoToken,
                                 !.dv = IF e.type = "mfa_reset" THEN 0 ELSE @]
                  ELSE e : e \in outbox}
    /\ UNCHANGED <<user, assigned, sys, mapped, st, last, wk, wire, remote, changes, faults>>

Receiver == \E x \in wire : Land(x) \/ Refuse(x)
Clock == \/ \E e \in outbox : LeaseExpires(e) \/ BackoffEnds(e)
         \/ \E f \in fence : FenceExpires(f)
Operator == \E f \in fence, allow \in BOOLEAN : ResumeSyncDelivery(f, allow)

Next == Directory \/ (\E w \in Workers : Dispatch(w)) \/ Receiver \/ Clock \/ Operator

Spec == Init /\ [][Next]_vars

\* What the worker loop, the clock and a receiver that is not down for ever provide: the
\* dispatch ticker, deadlines that pass, the reconcile ticker; a dispatcher that keeps
\* claiming sometimes begins and finishes inside its 60 second deadlines, and among the
\* requests that keep being written some are applied. Lost answers are bounded.
Fairness ==
    /\ WF_vars(\E w \in Workers, t \in Tokens : ClaimDueSyncEvents(w, t))
    /\ \A w \in Workers :
        /\ WF_vars(BeginSyncDelivery(w)) /\ WF_vars(SaveSCIMLink(w)) /\ WF_vars(Acknowledge(w))
        /\ WF_vars(RejectSCIMCreate(w))
        /\ WF_vars((wk[w].pc = "refused" \/ CannotSend(wk[w].ev)) /\ Reject(w))
        /\ SF_vars(BeginSyncDelivery(w) /\ fence' # fence)
        /\ SF_vars(Send(w))
        /\ SF_vars(Acknowledge(w) /\ fence' # fence)
    /\ SF_vars(\E x \in wire : Land(x))
    /\ WF_vars(\E e \in outbox : LeaseExpires(e))
    /\ WF_vars(\E e \in outbox : BackoffEnds(e))
    /\ WF_vars(\E f \in fence : FenceExpires(f))
    /\ WF_vars(ReconcileProvisioning)

LiveSpec == Spec /\ Fairness

-----------------------------------------------------------------------------
(* Properties                                                               *)

\* While a write that is not a removal may still be applied, the fence of that very
\* write is held: no timeout, crash, lease expiry or second dispatcher gives it up.
UncertainWriteHoldsFence ==
    sys # "gone" =>
        \A x \in wire : Removal(x) \/ \E f \in fence : f.tok = x.tok

\* An acknowledged offboarding (offboarded_at set) means what the completion view says:
\* the account is inactive at the receiver, and no write that would activate it is out.
AcknowledgedOffboarding ==
    sys # "gone" /\ st.off => ~remote.active /\ \A x \in wire : ~x.active

\* A re-grant never reactivates the account with its old factors: no activating profile
\* write is out while an MFA reset queued before it is undelivered.
ResetBeforeReactivation ==
    \A x \in wire, e \in outbox :
        e.type = "mfa_reset" /\ e.row < x.row => x.type = "mfa_reset" \/ ~x.active

Drained == sys # "gone" /\ st.row /\ outbox = {} /\ fence = {}

\* Once the queue is drained the receiver agrees with the desired state, whatever is
\* still out: a deactivation in flight cannot land after the reactivation that followed
\* it. (A reset sent inactive while access had lapsed is ScopeDelivered's matter.)
DrainedMeansDelivered ==
    Drained /\ (st.active => remote.type # "mfa_reset") => remote.active = st.active

\* The connector provisions exactly the users who hold effective access: with nothing
\* left to send and nothing for the reconcile pass to do, an account in scope is active.
\* The code does not keep to it: TLC refutes it under SyncOutboxLapsedReset.cfg.
ScopeDelivered == Drained /\ st.active /\ Access => remote.active

\* A reset consumes a version without obsoleting profile work: work that still describes
\* the desired state is never older than a version the receiver has applied.
\* The code does not keep to it: TLC refutes it under SyncOutboxObsoleteVersion.cfg.
ResetObsoletesNothing ==
    \A e \in outbox : e.rev = st.rev /\ e.dv # 0 => e.dv >= remote.ver

\* Some fence past its recovery time protects a write that is not a removal.
HeldByAnother ==
    \E f \in fence : f.expired /\ ~ \E e \in outbox : e.id = f.ev /\ Removal(e)

\* An account that stays out of scope at a working connector is acknowledged as removed,
\* through lost answers, crashes and refusals, unless another write's uncertain outcome
\* holds the account or a create of it is unresolved.
RemovalCompletes ==
    <>[](sys = "on" /\ st.row /\ ~st.active /\ ~HeldByAnother /\ ~CreateUnresolved) => <>[]st.off

\* A removal never waits on an operator for itself (releaseFencesForRemovalsTx): the same
\* without the condition on creates. The code does not keep to it: under
\* SyncOutboxCreateGuard.cfg a resume keeps the marker of a create that was lost, the
\* removal that follows fails with errCreateUncertain, and no fence is left to resume.
RemovalNeedsNoOperator ==
    <>[](sys = "on" /\ st.row /\ ~st.active /\ ~HeldByAnother) => <>[]st.off

\* Desired state does not lapse because a connector was down: if operators keep recovering
\* the uncertain writes, and let a create whose account is not there be made again, the
\* queue of a working connector always drains.
QueueDrains ==
    <>[](sys = "on") /\ []<>(~HeldByAnother) /\ []<>(~CreateUnresolved)
        => []<>(outbox = {} /\ fence = {})
=============================================================================
