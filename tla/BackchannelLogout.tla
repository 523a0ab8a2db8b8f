------------------------- MODULE BackchannelLogout -------------------------
(***************************************************************************)
(* Back-channel logout for the sessions of one account: the sid an app is  *)
(* given with its ID token (store/client_sessions.go), the delivery queued *)
(* for it when the login ends (store/logout_deliveries.go and the          *)
(* revocations that call enqueueLogoutTx), and the workers that post it    *)
(* (oauth/backchannel.go).                                                 *)
(*                                                                         *)
(* A worker claims a delivery under a lease in one transaction, posts the  *)
(* logout token, and records the outcome in another; the process may stop  *)
(* in between.  A delivery is named by its sid and by the change that      *)
(* queued it: one transaction queues at most one per sid.                  *)
(***************************************************************************)
EXTENDS Naturals, FiniteSets

CONSTANTS
    Clients,
    Sessions,
    Calls,       \* token responses being built
    Workers,     \* logoutWorkers
    NoClient, NoSession, NoWorker,
    Budget,      \* logoutDeliveryAttempts
    MaxSids,     \* bound: sids ever minted
    MaxChanges,  \* bound: revocations and administrative changes
    MaxCrashes   \* bound: times the process stops

ASSUME LogoutAssumption ==
    /\ NoClient \notin Clients /\ NoSession \notin Sessions /\ NoWorker \notin Workers
    /\ IsFiniteSet(Workers)
    /\ Budget \in Nat \ {0}
    /\ MaxSids \in Nat /\ MaxChanges \in Nat /\ MaxCrashes \in Nat

VARIABLES
    client,   \* oauth_clients: there, enabled, with a back-channel URI
    access,   \* effective_app_access of the account, per client
    sess,     \* each session row: "live", "expired", or "gone"
    sid,      \* oidc_client_sessions: "mapped" rows, and "gone" ones
    call,     \* responses that have registered their access token and have yet to name a sid
    dlv,      \* logout_deliveries
    wk,       \* the workers
    changes,  \* changes made so far
    crashes,
    ended     \* history: the last change that ended a sid's login at a client with a receiver

directory == <<client, access, sess>>
vars == <<client, access, sess, sid, call, dlv, wk, changes, crashes, ended>>
-----------------------------------------------------------------------------
Sids == 1..MaxSids
Deliveries == Sids \X (1..MaxChanges)

SidRows == [st : {"none", "mapped", "gone"}, client : Clients \cup {NoClient},
            sess : Sessions \cup {NoSession}]
NoSid == [st |-> "none", client |-> NoClient, sess |-> NoSession]

IdleCall == [client |-> NoClient, sess |-> NoSession]

\* due: next_attempt_at has come.  claim: the worker whose claim_token the row has.
\* acked, posts and retries are history: the changes made when the receiver last
\* accepted a token, tokens posted, and times the attempt budget was restored.
DeliveryRows ==
    [status : {"none", "queued", "delivered", "failed", "pruned", "dropped"},
     attempts : Nat, lease : {"none", "held", "lapsed"}, due : BOOLEAN,
     claim : Workers \cup {NoWorker}, acked : Nat, posts : Nat, retries : Nat]
NoDelivery == [status |-> "none", attempts |-> 0, lease |-> "none", due |-> FALSE,
               claim |-> NoWorker, acked |-> 0, posts |-> 0, retries |-> 0]
NewDelivery == [NoDelivery EXCEPT !.status = "queued", !.due = TRUE]

IdleWorker == [pc |-> "idle", d |-> <<0, 0>>, attempts |-> 0, uri |-> FALSE, ok |-> FALSE]

TypeOK ==
    /\ client \in [Clients -> [there : BOOLEAN, enabled : BOOLEAN, uri : BOOLEAN]]
    /\ access \in [Clients -> BOOLEAN]
    /\ sess \in [Sessions -> {"live", "expired", "gone"}]
    /\ sid \in [Sids -> SidRows]
    /\ call \in [Calls -> [client : Clients \cup {NoClient}, sess : Sessions \cup {NoSession}]]
    /\ dlv \in [Deliveries -> DeliveryRows]
    /\ wk \in [Workers -> [pc : {"idle", "claimed", "answered"}, d : Deliveries \cup {<<0, 0>>},
                           attempts : Nat, uri : BOOLEAN, ok : BOOLEAN]]
    /\ changes \in 0..MaxChanges
    /\ crashes \in 0..MaxCrashes
    /\ ended \in [Sids -> 0..MaxChanges]

Init ==
    /\ client = [c \in Clients |-> [there |-> TRUE, enabled |-> TRUE, uri |-> TRUE]]
    /\ access = [c \in Clients |-> TRUE]
    /\ sess = [s \in Sessions |-> "live"]
    /\ sid = [n \in Sids |-> NoSid]
    /\ call = [k \in Calls |-> IdleCall]
    /\ dlv = [i \in Deliveries |-> NoDelivery]
    /\ wk = [w \in Workers |-> IdleWorker]
    /\ changes = 0
    /\ crashes = 0
    /\ ended = [n \in Sids |-> 0]
-----------------------------------------------------------------------------
(* Sids. *)

\* RecordIssuedToken, or a rotation: the access token is on the registry, under a live
\* session, effective access and an enabled client.
RecordIssuedToken(k, c, s) ==
    /\ call[k] = IdleCall
    /\ sess[s] = "live"
    /\ access[c]
    /\ client[c].enabled
    /\ call' = [call EXCEPT ![k] = [client |-> c, sess |-> s]]
    /\ UNCHANGED <<directory, sid, dlv, wk, changes, crashes, ended>>

Mapped(n) == sid[n].st = "mapped"
MappedTo(c, s) == {n \in Sids : Mapped(n) /\ sid[n].client = c /\ sid[n].sess = s}

\* EnsureClientSession: the session row must still exist; neither access nor the client is
\* looked at again.  The first use mints the sid.
EnsureClientSession(k) ==
    /\ call[k] # IdleCall
    /\ LET c == call[k].client
           s == call[k].sess
       IN  IF sess[s] = "gone" \/ MappedTo(c, s) # {} THEN UNCHANGED sid
           ELSE \E n \in Sids :
                   /\ \A m \in Sids : sid[m].st = "none" <=> m >= n
                   /\ sid' = [sid EXCEPT ![n] = [st |-> "mapped", client |-> c, sess |-> s]]
    /\ call' = [call EXCEPT ![k] = IdleCall]
    /\ UNCHANGED <<directory, dlv, wk, changes, crashes, ended>>
-----------------------------------------------------------------------------
(* The ends of a login. *)

Change == changes < MaxChanges /\ changes' = changes + 1

HasReceiver(c) == client[c].there /\ client[c].enabled /\ client[c].uri

\* enqueueLogoutTx over the sids in N.
Enqueue(N) ==
    dlv' = [i \in Deliveries |->
              IF i[2] = changes + 1 /\ i[1] \in N /\ HasReceiver(sid[i[1]].client)
              THEN NewDelivery ELSE dlv[i]]

\* History: the logins behind N end here.
End(N) ==
    ended' = [n \in Sids |-> IF n \in N /\ HasReceiver(sid[n].client) THEN changes + 1 ELSE ended[n]]

Unmap(N) == sid' = [n \in Sids |-> IF n \in N THEN [sid[n] EXCEPT !.st = "gone"] ELSE sid[n]]

SidsOf(S) == {n \in Sids : Mapped(n) /\ sid[n].sess \in S}

\* revokeSessionsTx: the logouts are queued before the rows go, and the sids with them.
\* Logout, revocation of one, other or all sessions, new session limits, a changed password.
RevokeSessions(S) ==
    /\ Change
    /\ S # {} /\ \A s \in S : sess[s] # "gone"
    /\ Enqueue(SidsOf(S))
    /\ End(SidsOf(S))
    /\ Unmap(SidsOf(S))
    /\ sess' = [s \in Sessions |-> IF s \in S THEN "gone" ELSE sess[s]]
    /\ UNCHANGED <<client, access, call, wk, crashes>>

\* RevokeUserClientAccess: the app is told, the login and its sid stay.
RevokeUserClientAccess(c) ==
    /\ Change
    /\ LET N == {n \in Sids : Mapped(n) /\ sid[n].client = c}
       IN  Enqueue(N) /\ End(N)
    /\ UNCHANGED <<directory, sid, call, wk, crashes>>

\* revokeLostAppAccessTx with the access as it is after the transaction.
RevokeLost(acc) ==
    LET N == {n \in Sids : Mapped(n) /\ ~acc[sid[n].client]}
    IN  Enqueue(N) /\ End(N) /\ Unmap(N)

\* An edit of assignments, groups or policy, which ends with revokeLostAppAccessTx.
SetAccess(c, on) ==
    /\ Change
    /\ access' = [access EXCEPT ![c] = on]
    /\ RevokeLost(access')
    /\ UNCHANGED <<client, sess, call, wk, crashes>>

\* A grant's end instant passes; the expiry pass comes later (SetAccess on any client).
AccessLapses(c) ==
    /\ Change
    /\ access[c]
    /\ access' = [access EXCEPT ![c] = FALSE]
    /\ UNCHANGED <<client, sess, sid, call, dlv, wk, crashes, ended>>

\* UpdateOAuthClient: the switch and the URI.
UpdateOAuthClient(c, enabled, uri) ==
    /\ Change
    /\ client[c].there
    /\ client' = [client EXCEPT ![c].enabled = enabled, ![c].uri = uri]
    /\ UNCHANGED <<access, sess, sid, call, dlv, wk, crashes, ended>>

DroppedRow(i) == [dlv[i] EXCEPT !.status = "dropped", !.claim = NoWorker, !.lease = "none"]

\* DeleteOAuthClient: its deliveries cascade.
DeleteOAuthClient(c) ==
    /\ Change
    /\ client[c].there
    /\ client' = [client EXCEPT ![c] = [there |-> FALSE, enabled |-> FALSE, uri |-> FALSE]]
    /\ dlv' = [i \in Deliveries |->
                 IF sid[i[1]].client = c /\ dlv[i].status # "none" THEN DroppedRow(i) ELSE dlv[i]]
    /\ UNCHANGED <<access, sess, sid, call, wk, crashes, ended>>

\* A session reaches its limits; the purge drops the row and its sids, and tells nobody.
SessionExpires(s) ==
    /\ sess[s] = "live"
    /\ sess' = [sess EXCEPT ![s] = "expired"]
    /\ UNCHANGED <<client, access, sid, call, dlv, wk, changes, crashes, ended>>

CleanupExpiredSessions ==
    /\ \E s \in Sessions : sess[s] = "expired"
    /\ LET S == {s \in Sessions : sess[s] = "expired"}
       IN  /\ Unmap(SidsOf(S))
           /\ sess' = [s \in Sessions |-> IF s \in S THEN "gone" ELSE sess[s]]
    /\ UNCHANGED <<client, access, call, dlv, wk, changes, crashes, ended>>
-----------------------------------------------------------------------------
(* Delivery. *)

Outstanding(i) == dlv[i].status \in {"queued", "failed"}

\* Mutant of Busy: a lease counts after it has lapsed.
BusyLapsed(c) == \E i \in Deliveries : /\ sid[i[1]].client = c
                                       /\ dlv[i].status = "queued" /\ dlv[i].lease # "none"

\* The client has a delivery under a lease that has not lapsed.
Busy(c) == \E i \in Deliveries : /\ sid[i[1]].client = c
                                 /\ dlv[i].status = "queued" /\ dlv[i].lease = "held"

\* A delivery ClaimLogoutDelivery may pick.
Due(i) ==
    /\ dlv[i].status = "queued" /\ dlv[i].due /\ dlv[i].lease # "held"
    /\ dlv[i].attempts < Budget
    /\ ~Busy(sid[i[1]].client)

\* Its last attempt was interrupted.
Interrupted(i) == dlv[i].status = "queued" /\ dlv[i].lease = "lapsed" /\ dlv[i].attempts >= Budget

Claimed(i, w) == [dlv[i] EXCEPT !.claim = w, !.lease = "held", !.attempts = @ + 1]

FailedRow(i) == [dlv[i] EXCEPT !.status = "failed", !.claim = NoWorker, !.lease = "none"]

\* ClaimLogoutDelivery: deliveries whose last attempt was interrupted are marked failed and
\* the oldest due one is leased.  When there is none, the transaction is rolled back, and
\* the first statement with it.
ClaimLogoutDelivery(w) ==
    /\ wk[w].pc = "idle"
    /\ \E i \in Deliveries :
          /\ Due(i)
          /\ \A j \in Deliveries : Due(j) => i[2] <= j[2]
          /\ dlv' = [j \in Deliveries |->
                       IF j = i THEN Claimed(i, w)
                       ELSE IF Interrupted(j) THEN FailedRow(j) ELSE dlv[j]]
          /\ wk' = [wk EXCEPT ![w] = [pc |-> "claimed", d |-> i, attempts |-> dlv[i].attempts + 1,
                                      uri |-> client[sid[i[1]].client].uri, ok |-> FALSE]]
    /\ UNCHANGED <<directory, sid, call, changes, crashes, ended>>

\* postLogout, and the receiver, which is external: it may accept the token and its answer
\* may still be lost.  Without a URI nothing is posted and the attempt fails.
PostLogout(w, accepted, ok) ==
    /\ wk[w].pc = "claimed"
    /\ accepted => wk[w].uri
    /\ ok => accepted
    /\ wk' = [wk EXCEPT ![w].pc = "answered", ![w].ok = ok]
    /\ dlv' = IF wk[w].uri
              THEN [dlv EXCEPT ![wk[w].d].posts = @ + 1,
                               ![wk[w].d].acked = IF accepted THEN changes ELSE @]
              ELSE dlv
    /\ UNCHANGED <<directory, sid, call, changes, crashes, ended>>

Recorded(i, ok, attempts) ==
    [dlv[i] EXCEPT !.status = IF ok THEN "delivered" ELSE IF attempts >= Budget THEN "failed" ELSE "queued",
                   !.due = ok, !.claim = NoWorker, !.lease = "none"]

\* FinishLogoutDelivery, under the worker's own claim token.
FinishLogoutDelivery(w) ==
    /\ wk[w].pc = "answered"
    /\ dlv' = [dlv EXCEPT ![wk[w].d] = IF dlv[wk[w].d].claim = w
                                       THEN Recorded(wk[w].d, wk[w].ok, wk[w].attempts) ELSE @]
    /\ wk' = [wk EXCEPT ![w] = IdleWorker]
    /\ UNCHANGED <<directory, sid, call, changes, crashes, ended>>

\* RetryLogoutDeliveryNow, by an administrator: a new budget, and no claim.
Renewed(i) == [dlv[i] EXCEPT !.status = "queued", !.attempts = 0, !.due = TRUE,
                             !.claim = NoWorker, !.lease = "none", !.retries = @ + 1]

RetryLogoutDeliveryNow(i) ==
    /\ Change
    /\ Outstanding(i)
    /\ dlv' = [dlv EXCEPT ![i] = Renewed(i)]
    /\ UNCHANGED <<directory, sid, call, wk, crashes, ended>>

\* Mutant of DeleteLogoutDeliveriesOlderThan: whatever is not queued is old enough.
DeleteSettled(i) ==
    /\ dlv[i].status \in {"delivered", "failed"}
    /\ dlv' = [dlv EXCEPT ![i].status = "pruned"]
    /\ UNCHANGED <<directory, sid, call, wk, changes, crashes, ended>>

DeleteLogoutDeliveriesOlderThan(i) ==
    /\ dlv[i].status = "delivered"
    /\ dlv' = [dlv EXCEPT ![i].status = "pruned"]
    /\ UNCHANGED <<directory, sid, call, wk, changes, crashes, ended>>

LeaseExpires(i) ==
    /\ dlv[i].lease = "held"
    /\ dlv' = [dlv EXCEPT ![i].lease = "lapsed"]
    /\ UNCHANGED <<directory, sid, call, wk, changes, crashes, ended>>

BackoffEnds(i) ==
    /\ dlv[i].status = "queued" /\ ~dlv[i].due
    /\ dlv' = [dlv EXCEPT ![i].due = TRUE]
    /\ UNCHANGED <<directory, sid, call, wk, changes, crashes, ended>>

\* The process stops and starts again.
Crash ==
    /\ crashes < MaxCrashes
    /\ crashes' = crashes + 1
    /\ wk' = [w \in Workers |-> IdleWorker]
    /\ call' = [k \in Calls |-> IdleCall]
    /\ UNCHANGED <<directory, sid, dlv, changes, ended>>

\* ApplyRestoredState, on a snapshot taken now and before the server starts on it: every
\* session ends, with a logout unless one is owed already, and what is queued goes out again.
ApplyRestoredState ==
    /\ Change
    /\ crashes < MaxCrashes
    /\ crashes' = crashes + 1
    /\ wk' = [w \in Workers |-> IdleWorker]
    /\ call' = [k \in Calls |-> IdleCall]
    /\ LET N == {n \in Sids : Mapped(n)}
           owed == {n \in N : \E i \in Deliveries : i[1] = n /\ Outstanding(i)}
       IN  /\ dlv' = [i \in Deliveries |->
                        IF i[2] = changes + 1 /\ i[1] \in N \ owed /\ HasReceiver(sid[i[1]].client)
                        THEN NewDelivery
                        ELSE IF dlv[i].status = "queued" THEN Renewed(i) ELSE dlv[i]]
           /\ End(N)
           /\ Unmap(N)
    /\ sess' = [s \in Sessions |-> "gone"]
    /\ UNCHANGED <<client, access>>
-----------------------------------------------------------------------------
Respond ==
    \E k \in Calls :
       \/ \E c \in Clients, s \in Sessions : RecordIssuedToken(k, c, s)
       \/ EnsureClientSession(k)

Administration ==
    \/ \E S \in SUBSET Sessions : RevokeSessions(S)
    \/ \E c \in Clients :
          \/ RevokeUserClientAccess(c)
          \/ \E on \in BOOLEAN : SetAccess(c, on)
          \/ AccessLapses(c)
          \/ \E enabled, uri \in BOOLEAN : UpdateOAuthClient(c, enabled, uri)
          \/ DeleteOAuthClient(c)
    \/ \E i \in Deliveries : RetryLogoutDeliveryNow(i)
    \/ ApplyRestoredState

Worker(w) ==
    \/ ClaimLogoutDelivery(w)
    \/ \E accepted, ok \in BOOLEAN : PostLogout(w, accepted, ok)
    \/ FinishLogoutDelivery(w)

Clock ==
    \/ \E s \in Sessions : SessionExpires(s)
    \/ CleanupExpiredSessions
    \/ \E i \in Deliveries :
          LeaseExpires(i) \/ BackoffEnds(i) \/ DeleteLogoutDeliveriesOlderThan(i)

Next == Respond \/ Administration \/ (\E w \in Workers : Worker(w)) \/ Clock \/ Crash

Spec == Init /\ [][Next]_vars

\* The loops poll for ever, an HTTP call times out, and time passes.
Fairness ==
    /\ \A w \in Workers : WF_vars(Worker(w))
    /\ \A i \in Deliveries : WF_vars(LeaseExpires(i)) /\ WF_vars(BackoffEnds(i))

FairSpec == Spec /\ Fairness
-----------------------------------------------------------------------------
(* Properties. *)

\* A login that was ended is reported complete only on evidence: as long as its client is
\* registered, there is a delivery still owed (queued, or failed and kept), or the receiver
\* accepted a logout token after the login ended, whatever workers stopped, leases lapsed,
\* administrators retried or a restore did in between.
CompletionIsEvidence ==
    \A n \in Sids : ended[n] # 0 /\ client[sid[n].client].there =>
       \E i \in Deliveries : i[1] = n /\ (Outstanding(i) \/ dlv[i].acked >= ended[n])

\* A client has one delivery under way at a time: two workers whose claims both stand are
\* never posting to the same client.
OneClaimPerClient ==
    \A v, w \in Workers :
       LET Stands(u) == /\ wk[u].pc # "idle"
                        /\ dlv[wk[u].d].claim = u /\ dlv[wk[u].d].lease = "held"
       IN  /\ v # w /\ Stands(v) /\ Stands(w)
           => sid[wk[v].d[1]].client # sid[wk[w].d[1]].client

\* A receiver gets no more tokens for one delivery than the budget allows for each time it
\* was given, however often leases lapse and the process stops.
PostsBounded ==
    \A i \in Deliveries : dlv[i].posts <= Budget * (dlv[i].retries + 1)

\* A delivered logout stays so: a late outcome of another worker never reopens it.
DeliveredIsFinal ==
    [][\A i \in Deliveries :
          dlv[i].status = "delivered" => dlv'[i].status \in {"delivered", "pruned", "dropped"}]_vars

\* A queued logout leaves the queue, unless its last attempt was interrupted.
LogoutIsAttempted ==
    \A i \in Deliveries : dlv[i].status = "queued" ~> dlv[i].status # "queued" \/ Interrupted(i)

\* "a delivery out of attempts is marked failed rather than retried" (ClaimLogoutDelivery):
\* every queued logout ends up delivered or failed, or its client is deleted.
\* The code does not keep to it: TLC refutes it under BackchannelLogoutSettles.cfg.
LogoutSettles ==
    \A i \in Deliveries : dlv[i].status = "queued" ~> dlv[i].status # "queued"
=============================================================================
