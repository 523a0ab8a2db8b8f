--------------------------- MODULE OpenID_proofs ---------------------------
(***************************************************************************)
(* The two ends of an OpenID Connect sign-in at an app. First what          *)
(* BackchannelLogout guarantees for any clients, sessions, workers and      *)
(* attempt budget, and any number of sids, changes and crashes; then what   *)
(* Authorization does for any browsers, accounts, policies and requests     *)
(* handled at once. The two share no state and no theorem uses both.        *)
(*                                                                          *)
(* BackchannelLogout: what completion rests on is also what a worker is     *)
(* about to report (EvidenceHeld). Authorization: sign-ins are numbered,    *)
(* an interaction is older than those that may answer it, and the sign-in   *)
(* of a session answers at most one interaction that can still be used      *)
(* (Begun, Completed, HandsFit).                                            *)
(***************************************************************************)
EXTENDS BackchannelLogout, Authorization, FiniteSetTheorems, WellFoundedInduction, TLAPS

-----------------------------------------------------------------------------
(* BackchannelLogout.                                                       *)

\* A sid that was minted names a client and a session.
SidsNamed ==
    \A n \in Sids : sid[n].st # "none" => sid[n].client \in Clients /\ sid[n].sess \in Sessions

\* A delivery is for a sid that was minted, and was queued by a change that happened.
DeliveriesNamed ==
    \A i \in Deliveries : dlv[i].status # "none" => sid[i[1]].st # "none" /\ i[2] <= changes

\* A response in progress has a client and a session.
CallsNamed ==
    \A k \in Calls : call[k] # IdleCall => call[k].client \in Clients /\ call[k].sess \in Sessions

\* A busy worker has a delivery.
WorkersNamed ==
    \A w \in Workers : wk[w].pc # "idle" => wk[w].d \in Deliveries /\ dlv[wk[w].d].status # "none"

\* Only a delivery in the queue is claimed.
ClaimsQueued ==
    \A i \in Deliveries : dlv[i].claim # NoWorker => dlv[i].status = "queued"

\* A login that ended had a sid, and ended in a change that happened.
EndsNamed ==
    \A n \in Sids : ended[n] # 0 => sid[n].st # "none" /\ ended[n] <= changes

Inv ==
    /\ TypeOK
    /\ SidsNamed /\ DeliveriesNamed /\ CallsNamed /\ WorkersNamed
    /\ ClaimsQueued /\ EndsNamed

WorkerRows == [pc : {"idle", "claimed", "answered"}, d : Deliveries \cup {<<0, 0>>},
               attempts : Nat, uri : BOOLEAN, ok : BOOLEAN]
-----------------------------------------------------------------------------
(* Facts about the rows. *)

LEMMA DeliveryParts ==
  ASSUME NEW i \in Deliveries
  PROVE  i[1] \in Sids /\ i[2] \in 1..MaxChanges
BY DEF Deliveries

LEMMA RowTypes ==
  /\ NoSid \in SidRows /\ NoDelivery \in DeliveryRows /\ NewDelivery \in DeliveryRows
  /\ IdleWorker \in WorkerRows
  /\ NewDelivery.status = "queued" /\ NewDelivery.claim = NoWorker /\ NewDelivery.lease = "none"
  /\ NewDelivery.attempts = 0 /\ NewDelivery.posts = 0 /\ NewDelivery.retries = 0
  /\ NewDelivery.acked = 0
  /\ IdleWorker.pc = "idle"
BY DEF NoSid, SidRows, NoDelivery, NewDelivery, DeliveryRows, IdleWorker, WorkerRows

\* What each statement makes of a row.
LEMMA ClaimedRow ==
  ASSUME NEW i \in Deliveries, dlv[i] \in DeliveryRows, NEW w \in Workers
  PROVE  /\ Claimed(i, w) \in DeliveryRows
         /\ Claimed(i, w).status = dlv[i].status /\ Claimed(i, w).claim = w
         /\ Claimed(i, w).acked = dlv[i].acked
<1>1. dlv[i].attempts + 1 \in Nat
  BY DEF DeliveryRows
<1> QED BY <1>1, Zenon DEF Claimed, DeliveryRows

LEMMA RecordedRow ==
  ASSUME NEW i \in Deliveries, dlv[i] \in DeliveryRows, NEW ok \in BOOLEAN, NEW a \in Nat
  PROVE  /\ Recorded(i, ok, a) \in DeliveryRows
         /\ Recorded(i, ok, a).status \in IF ok THEN {"delivered"} ELSE {"failed", "queued"}
         /\ Recorded(i, ok, a).claim = NoWorker /\ Recorded(i, ok, a).lease = "none"
         /\ Recorded(i, ok, a).acked = dlv[i].acked
<1>1. Recorded(i, ok, a) \in DeliveryRows
  BY DEF Recorded, DeliveryRows
<1>2. /\ Recorded(i, ok, a).status \in IF ok THEN {"delivered"} ELSE {"failed", "queued"}
      /\ Recorded(i, ok, a).claim = NoWorker /\ Recorded(i, ok, a).lease = "none"
      /\ Recorded(i, ok, a).acked = dlv[i].acked
  BY DEF Recorded, DeliveryRows
<1> QED BY <1>1, <1>2

LEMMA RowResets ==
  ASSUME NEW i \in Deliveries, dlv[i] \in DeliveryRows
  PROVE  /\ FailedRow(i) \in DeliveryRows /\ Renewed(i) \in DeliveryRows
         /\ DroppedRow(i) \in DeliveryRows
         /\ FailedRow(i).status = "failed" /\ Renewed(i).status = "queued"
         /\ DroppedRow(i).status = "dropped"
         /\ \A r \in {FailedRow(i), Renewed(i), DroppedRow(i)} :
               r.claim = NoWorker /\ r.lease = "none" /\ r.acked = dlv[i].acked
<1>0. dlv[i].retries + 1 \in Nat /\ 0 \in Nat
  BY DEF DeliveryRows
<1>1. /\ FailedRow(i) \in DeliveryRows /\ FailedRow(i).status = "failed"
      /\ FailedRow(i).claim = NoWorker /\ FailedRow(i).lease = "none"
      /\ FailedRow(i).acked = dlv[i].acked
  BY <1>0, Zenon DEF FailedRow, DeliveryRows
<1>2. /\ Renewed(i) \in DeliveryRows /\ Renewed(i).status = "queued"
      /\ Renewed(i).claim = NoWorker /\ Renewed(i).lease = "none" /\ Renewed(i).acked = dlv[i].acked
  BY <1>0, Zenon DEF Renewed, DeliveryRows
<1>3. /\ DroppedRow(i) \in DeliveryRows /\ DroppedRow(i).status = "dropped"
      /\ DroppedRow(i).claim = NoWorker /\ DroppedRow(i).lease = "none"
      /\ DroppedRow(i).acked = dlv[i].acked
  BY <1>0, Zenon DEF DroppedRow, DeliveryRows
<1> QED BY <1>1, <1>2, <1>3

\* A post touches the history of one row.
LEMMA PostedRow ==
  ASSUME TypeOK, WorkersNamed, NEW w \in Workers, NEW accepted \in BOOLEAN, NEW ok \in BOOLEAN,
         PostLogout(w, accepted, ok)
  PROVE  /\ dlv' \in [Deliveries -> DeliveryRows]
         /\ \A i \in Deliveries :
               /\ dlv'[i].status = dlv[i].status /\ dlv'[i].claim = dlv[i].claim
               /\ dlv'[i].lease = dlv[i].lease
               /\ dlv'[i].acked = IF i = wk[w].d /\ accepted THEN changes ELSE dlv[i].acked
<1>1. wk[w].d \in Deliveries /\ dlv \in [Deliveries -> DeliveryRows] /\ changes \in Nat
      /\ (accepted => wk[w].uri)
  BY LogoutAssumption DEF PostLogout, WorkersNamed, TypeOK
<1>2. CASE ~wk[w].uri
  BY <1>1, <1>2 DEF PostLogout
<1>3. CASE wk[w].uri
  <2> DEFINE d == wk[w].d
             a == IF accepted THEN changes ELSE dlv[d].acked
             r == [[dlv[d] EXCEPT !.posts = @ + 1] EXCEPT !.acked = a]
  <2>1. dlv[d].posts + 1 \in Nat /\ a \in Nat /\ dlv[d] \in DeliveryRows
    BY <1>1 DEF DeliveryRows
  <2>2. dlv' = [dlv EXCEPT ![d] = r]
    BY <1>1, <1>3, <2>1 DEF PostLogout, DeliveryRows
  <2> HIDE DEF a
  <2>3. r \in DeliveryRows
    BY <2>1, Zenon DEF DeliveryRows
  <2>4. /\ r.status = dlv[d].status /\ r.claim = dlv[d].claim /\ r.lease = dlv[d].lease
        /\ r.acked = a
    BY <2>1, Zenon DEF DeliveryRows
  <2> HIDE DEF r
  <2> QED BY <1>1, <2>2, <2>3, <2>4 DEF a
<1> QED BY <1>2, <1>3

\* So does the clock, and the purge takes a delivered row.
LEMMA TimedRow ==
  ASSUME TypeOK, NEW i \in Deliveries,
         LeaseExpires(i) \/ BackoffEnds(i) \/ DeleteLogoutDeliveriesOlderThan(i)
  PROVE  /\ dlv' \in [Deliveries -> DeliveryRows]
         /\ \A j \in Deliveries :
               /\ dlv'[j].claim = dlv[j].claim /\ dlv'[j].acked = dlv[j].acked
               /\ dlv'[j].lease = "held" => dlv[j].lease = "held"
               /\ \/ dlv'[j].status = dlv[j].status
                  \/ dlv[j].status = "delivered" /\ dlv'[j].status = "pruned"
<1>1. dlv \in [Deliveries -> DeliveryRows]
  BY DEF TypeOK
<1>2. CASE LeaseExpires(i)
  BY <1>1, <1>2 DEF LeaseExpires, DeliveryRows
<1>3. CASE BackoffEnds(i)
  <2>1. /\ [dlv[i] EXCEPT !.due = TRUE] \in DeliveryRows
        /\ [dlv[i] EXCEPT !.due = TRUE].status = dlv[i].status
        /\ [dlv[i] EXCEPT !.due = TRUE].claim = dlv[i].claim
        /\ [dlv[i] EXCEPT !.due = TRUE].acked = dlv[i].acked
        /\ [dlv[i] EXCEPT !.due = TRUE].lease = dlv[i].lease
    BY <1>1, Zenon DEF DeliveryRows
  <2>2. dlv' = [dlv EXCEPT ![i] = [dlv[i] EXCEPT !.due = TRUE]]
    BY <1>3 DEF BackoffEnds
  <2> QED BY <1>1, <2>1, <2>2
<1>4. CASE DeleteLogoutDeliveriesOlderThan(i)
  BY <1>1, <1>4 DEF DeleteLogoutDeliveriesOlderThan, DeliveryRows
<1> QED BY <1>2, <1>3, <1>4

\* Unmapping sids leaves their clients and sessions on record.
LEMMA UnmapRows ==
  ASSUME sid \in [Sids -> SidRows], NEW N, \A n \in N : sid[n].st # "none", Unmap(N)
  PROVE  /\ sid' \in [Sids -> SidRows]
         /\ \A n \in Sids : /\ sid'[n].client = sid[n].client /\ sid'[n].sess = sid[n].sess
                            /\ sid'[n].st = "none" <=> sid[n].st = "none"
<1>1. ASSUME NEW n \in Sids
      PROVE  /\ sid'[n] \in SidRows
             /\ sid'[n].client = sid[n].client /\ sid'[n].sess = sid[n].sess
             /\ sid'[n].st = "none" <=> sid[n].st = "none"
  BY DEF Unmap, SidRows
<1>2. sid' = [n \in Sids |-> sid'[n]]
  BY DEF Unmap
<1> QED BY <1>1, <1>2
-----------------------------------------------------------------------------
(* Types. *)

\* A change that queues deliveries for the sids in N and drops some of them keeps Inv.
LEMMA EndsKeepInv ==
  ASSUME Inv, Change, NEW N \in SUBSET {n \in Sids : Mapped(n)},
         Enqueue(N), End(N), Unmap(N) \/ UNCHANGED sid,
         UNCHANGED <<call, wk, crashes>>,
         client' \in [Clients -> [there : BOOLEAN, enabled : BOOLEAN, uri : BOOLEAN]],
         access' \in [Clients -> BOOLEAN],
         sess' \in [Sessions -> {"live", "expired", "gone"}]
  PROVE  Inv'
<1> USE DEF Inv
<1>1. changes' = changes + 1 /\ changes' \in 0..MaxChanges /\ changes \in Nat
  BY LogoutAssumption DEF Change, TypeOK
<1>2. \A n \in N : n \in Sids /\ sid[n].st = "mapped"
  BY DEF Mapped
<1>3. /\ sid' \in [Sids -> SidRows]
      /\ \A n \in Sids : /\ sid'[n].client = sid[n].client /\ sid'[n].sess = sid[n].sess
                         /\ sid'[n].st = "none" <=> sid[n].st = "none"
  <2>1. CASE UNCHANGED sid
    BY <2>1 DEF TypeOK
  <2>2. CASE Unmap(N)
    BY <1>2, <2>2, UnmapRows DEF TypeOK
  <2> QED BY <2>1, <2>2
<1>4. /\ dlv' \in [Deliveries -> DeliveryRows]
      /\ \A i \in Deliveries : \/ dlv'[i] = dlv[i]
                               \/ dlv'[i] = NewDelivery /\ i[2] = changes + 1 /\ i[1] \in N
  BY RowTypes DEF Enqueue, TypeOK
<1>5. /\ ended' \in [Sids -> 0..MaxChanges]
      /\ \A n \in Sids : ended'[n] = ended[n] \/ (ended'[n] = changes + 1 /\ n \in N)
  BY <1>1 DEF End, TypeOK
<1>6. TypeOK'
  BY <1>1, <1>3, <1>4, <1>5 DEF TypeOK
<1>7. SidsNamed' /\ CallsNamed'
  BY <1>3 DEF SidsNamed, CallsNamed
<1>8. DeliveriesNamed'
  BY <1>1, <1>2, <1>3, <1>4, DeliveryParts DEF DeliveriesNamed
<1>9. WorkersNamed'
  BY <1>4, RowTypes DEF WorkersNamed
<1>10. ClaimsQueued'
  BY <1>4, RowTypes DEF ClaimsQueued
<1>11. EndsNamed'
  <2>1. \A n \in Sids : ended[n] \in Nat
    BY DEF TypeOK
  <2> QED BY <1>1, <1>2, <1>3, <1>5, <2>1 DEF EndsNamed
<1> QED BY <1>6, <1>7, <1>8, <1>9, <1>10, <1>11

\* A step that rewrites deliveries in place, and possibly one worker, keeps Inv.
LEMMA RowsKeepInv ==
  ASSUME Inv, dlv' \in [Deliveries -> DeliveryRows], wk' \in [Workers -> WorkerRows],
         \A i \in Deliveries : /\ dlv'[i].status = "none" <=> dlv[i].status = "none"
                               /\ dlv'[i].claim # NoWorker => dlv'[i].status = "queued",
         \A w \in Workers : wk'[w].pc # "idle" =>
                               wk'[w].d \in Deliveries /\ dlv[wk'[w].d].status # "none",
         changes' \in changes..MaxChanges,
         client' \in [Clients -> [there : BOOLEAN, enabled : BOOLEAN, uri : BOOLEAN]],
         UNCHANGED <<access, sess, sid, call, crashes, ended>>
  PROVE  Inv'
<1> USE DEF Inv
<1>1. changes \in Nat /\ changes' \in 0..MaxChanges /\ changes <= changes'
  BY LogoutAssumption DEF TypeOK
<1>2. TypeOK'
  BY <1>1 DEF TypeOK, WorkerRows
<1>3. DeliveriesNamed'
  BY <1>1, DeliveryParts DEF DeliveriesNamed
<1>4. EndsNamed'
  <2>1. \A n \in Sids : ended[n] \in Nat
    BY DEF TypeOK
  <2> QED BY <1>1, <2>1 DEF EndsNamed
<1> QED BY <1>2, <1>3, <1>4 DEF SidsNamed, CallsNamed, WorkersNamed, ClaimsQueued

LEMMA InitInv == Init => Inv
BY LogoutAssumption, RowTypes DEF Init, Inv, TypeOK, SidsNamed, DeliveriesNamed, CallsNamed,
     WorkersNamed, ClaimsQueued, EndsNamed, IdleCall, NoSid, NoDelivery, WorkerRows

LEMMA RespondInv == ASSUME Inv, Respond PROVE Inv'
<1> USE DEF Inv
<1>1. ASSUME NEW k \in Calls, NEW c \in Clients, NEW s \in Sessions, RecordIssuedToken(k, c, s)
      PROVE  Inv'
  <2>1. TypeOK' /\ CallsNamed'
    BY <1>1 DEF RecordIssuedToken, directory, TypeOK, CallsNamed, IdleCall
  <2> QED BY <1>1, <2>1 DEF RecordIssuedToken, directory, SidsNamed, DeliveriesNamed, WorkersNamed,
             ClaimsQueued, EndsNamed
<1>2. ASSUME NEW k \in Calls, EnsureClientSession(k) PROVE Inv'
  <2>1. call' \in [Calls -> [client : Clients \cup {NoClient}, sess : Sessions \cup {NoSession}]]
        /\ CallsNamed'
    BY <1>2 DEF EnsureClientSession, TypeOK, CallsNamed, IdleCall
  <2>2. call[k].client \in Clients /\ call[k].sess \in Sessions
    BY <1>2 DEF EnsureClientSession, CallsNamed
  <2>3. /\ sid' \in [Sids -> SidRows]
        /\ \A n \in Sids : sid'[n] = sid[n] \/ (/\ sid'[n].st = "mapped" /\ sid'[n].client \in Clients
                                                /\ sid'[n].sess \in Sessions)
    BY <1>2, <2>2 DEF EnsureClientSession, TypeOK, SidRows
  <2>4. TypeOK'
    BY <1>2, <2>1, <2>3 DEF EnsureClientSession, directory, TypeOK
  <2>5. SidsNamed'
    BY <2>3 DEF SidsNamed
  <2>6. \A n \in Sids : sid[n].st # "none" => sid'[n].st # "none"
    BY <2>3
  <2>7. DeliveriesNamed' /\ EndsNamed'
    BY <1>2, <2>6, DeliveryParts DEF EnsureClientSession, DeliveriesNamed, EndsNamed
  <2> QED BY <1>2, <2>1, <2>4, <2>5, <2>7 DEF EnsureClientSession, WorkersNamed, ClaimsQueued
<1> QED BY <1>1, <1>2 DEF Respond

LEMMA ChangeBound == ASSUME TypeOK, Change PROVE changes' \in changes..MaxChanges
BY LogoutAssumption DEF TypeOK, Change

\* A restore ends every login and queues again what was queued.
LEMMA RestoreInv == ASSUME Inv, ApplyRestoredState PROVE Inv'
<1> USE DEF Inv
<1> DEFINE N == {n \in Sids : Mapped(n)}
<1>1. changes' = changes + 1 /\ changes' \in 0..MaxChanges /\ changes \in Nat
      /\ crashes' \in 0..MaxCrashes
  BY LogoutAssumption DEF ApplyRestoredState, Change, TypeOK
<1>2. /\ sid' \in [Sids -> SidRows]
      /\ \A n \in Sids : /\ sid'[n].client = sid[n].client /\ sid'[n].sess = sid[n].sess
                         /\ sid'[n].st = "none" <=> sid[n].st = "none"
  <2>1. sid \in [Sids -> SidRows] /\ Unmap(N) /\ \A n \in N : sid[n].st = "mapped"
    BY DEF ApplyRestoredState, TypeOK, Mapped
  <2> QED BY <2>1, UnmapRows
<1>3. /\ dlv' \in [Deliveries -> DeliveryRows]
      /\ \A i \in Deliveries :
           \/ dlv'[i] = NewDelivery /\ i[2] = changes + 1 /\ i[1] \in N
           \/ dlv[i].status = "queued" /\ dlv'[i] = Renewed(i)
           \/ dlv'[i] = dlv[i]
  <2>1. \A i \in Deliveries : Renewed(i) \in DeliveryRows
    BY RowResets DEF TypeOK
  <2> QED BY <2>1, RowTypes DEF ApplyRestoredState, TypeOK
<1>4. \A i \in Deliveries : Renewed(i).status = "queued" /\ Renewed(i).claim = NoWorker
  BY RowResets DEF TypeOK
<1>5. /\ ended' \in [Sids -> 0..MaxChanges]
      /\ \A n \in Sids : ended'[n] = ended[n] \/ (ended'[n] = changes + 1 /\ n \in N)
  BY <1>1 DEF ApplyRestoredState, End, TypeOK
<1>6. /\ wk' \in [Workers -> WorkerRows] /\ \A w \in Workers : wk'[w].pc = "idle"
      /\ call' = [k \in Calls |-> IdleCall]
  BY RowTypes DEF ApplyRestoredState
<1>7. TypeOK'
  BY <1>1, <1>2, <1>3, <1>5, <1>6 DEF ApplyRestoredState, TypeOK, WorkerRows, IdleCall
<1>8. SidsNamed' /\ CallsNamed' /\ WorkersNamed'
  BY <1>2, <1>6 DEF SidsNamed, CallsNamed, WorkersNamed
<1>9. DeliveriesNamed'
  BY <1>1, <1>2, <1>3, <1>4, DeliveryParts DEF DeliveriesNamed, Mapped
<1>10. ClaimsQueued'
  BY <1>3, <1>4, RowTypes DEF ClaimsQueued
<1>11. EndsNamed'
  <2>1. \A n \in Sids : ended[n] \in Nat
    BY DEF TypeOK
  <2> QED BY <1>1, <1>2, <1>5, <2>1 DEF EndsNamed, Mapped
<1> QED BY <1>7, <1>8, <1>9, <1>10, <1>11

LEMMA AdministrationInv == ASSUME Inv, Administration PROVE Inv'
<1> USE DEF Inv
<1>1. ASSUME NEW S \in SUBSET Sessions, RevokeSessions(S) PROVE Inv'
  <2>1. SidsOf(S) \in SUBSET {n \in Sids : Mapped(n)}
    BY DEF SidsOf
  <2>2. sess' \in [Sessions -> {"live", "expired", "gone"}]
    BY <1>1 DEF RevokeSessions, TypeOK
  <2> QED BY <1>1, <2>1, <2>2, EndsKeepInv DEF RevokeSessions, TypeOK
<1>2. ASSUME NEW c \in Clients, RevokeUserClientAccess(c) PROVE Inv'
  <2> DEFINE N == {n \in Sids : Mapped(n) /\ sid[n].client = c}
  <2>1. N \in SUBSET {n \in Sids : Mapped(n)}
    OBVIOUS
  <2>2. Enqueue(N) /\ End(N) /\ Change /\ UNCHANGED <<client, access, sess, sid, call, wk, crashes>>
    BY <1>2 DEF RevokeUserClientAccess, directory
  <2> HIDE DEF N
  <2> QED BY <2>1, <2>2, EndsKeepInv DEF TypeOK
<1>3. ASSUME NEW c \in Clients, NEW on \in BOOLEAN, SetAccess(c, on) PROVE Inv'
  <2> DEFINE N == {n \in Sids : Mapped(n) /\ ~access'[sid[n].client]}
  <2>1. N \in SUBSET {n \in Sids : Mapped(n)}
    OBVIOUS
  <2>2. Enqueue(N) /\ End(N) /\ Unmap(N) /\ Change /\ UNCHANGED <<client, sess, call, wk, crashes>>
    BY <1>3 DEF SetAccess, RevokeLost
  <2>3. access' \in [Clients -> BOOLEAN]
    BY <1>3 DEF SetAccess, TypeOK
  <2> HIDE DEF N
  <2> QED BY <2>1, <2>2, <2>3, EndsKeepInv DEF TypeOK
<1>4. ASSUME NEW c \in Clients, AccessLapses(c) PROVE Inv'
  <2>1. TypeOK' /\ changes \in Nat /\ changes <= changes'
    BY <1>4, ChangeBound, LogoutAssumption DEF AccessLapses, TypeOK, Change
  <2>2. DeliveriesNamed'
    BY <1>4, <2>1, DeliveryParts DEF AccessLapses, DeliveriesNamed, Change
  <2>3. EndsNamed'
    <3>1. \A n \in Sids : ended[n] \in Nat
      BY DEF TypeOK
    <3> QED BY <1>4, <2>1, <3>1 DEF AccessLapses, EndsNamed, Change
  <2> QED BY <1>4, <2>1, <2>2, <2>3 DEF AccessLapses, SidsNamed, CallsNamed, WorkersNamed, ClaimsQueued
<1>5. ASSUME NEW c \in Clients, NEW enabled \in BOOLEAN, NEW uri \in BOOLEAN,
             UpdateOAuthClient(c, enabled, uri)
      PROVE  Inv'
  <2>1. client' \in [Clients -> [there : BOOLEAN, enabled : BOOLEAN, uri : BOOLEAN]]
    <3>1. client[c] \in [there : BOOLEAN, enabled : BOOLEAN, uri : BOOLEAN]
      BY DEF TypeOK
    <3>2. [[client[c] EXCEPT !.enabled = enabled] EXCEPT !.uri = uri]
            \in [there : BOOLEAN, enabled : BOOLEAN, uri : BOOLEAN]
      BY <3>1, Zenon
    <3>3. client' = [client EXCEPT ![c] = [[client[c] EXCEPT !.enabled = enabled] EXCEPT !.uri = uri]]
      BY <1>5, <3>1 DEF UpdateOAuthClient, TypeOK
    <3> HIDE DEF Inv
    <3> QED BY <3>2, <3>3 DEF Inv, TypeOK
  <2>2. changes' \in changes..MaxChanges
    BY <1>5, ChangeBound DEF UpdateOAuthClient
  <2>3. /\ dlv' \in [Deliveries -> DeliveryRows] /\ wk' \in [Workers -> WorkerRows]
        /\ UNCHANGED <<dlv, wk, access, sess, sid, call, crashes, ended>>
    BY <1>5 DEF UpdateOAuthClient, TypeOK, WorkerRows
  <2> QED BY <2>1, <2>2, <2>3, RowsKeepInv DEF ClaimsQueued, WorkersNamed
<1>6. ASSUME NEW c \in Clients, DeleteOAuthClient(c) PROVE Inv'
  <2>1. client' \in [Clients -> [there : BOOLEAN, enabled : BOOLEAN, uri : BOOLEAN]]
    BY <1>6 DEF DeleteOAuthClient, TypeOK
  <2>2. changes' \in changes..MaxChanges
    BY <1>6, ChangeBound DEF DeleteOAuthClient
  <2>3. /\ wk' \in [Workers -> WorkerRows]
        /\ UNCHANGED <<wk, access, sess, sid, call, crashes, ended>>
    BY <1>6 DEF DeleteOAuthClient, TypeOK, WorkerRows
  <2>4. /\ dlv' \in [Deliveries -> DeliveryRows]
        /\ \A i \in Deliveries :
              \/ dlv'[i] = dlv[i]
              \/ dlv[i].status # "none" /\ dlv'[i].status = "dropped" /\ dlv'[i].claim = NoWorker
    BY <1>6, RowResets DEF DeleteOAuthClient, TypeOK
  <2> QED BY <2>1, <2>2, <2>3, <2>4, RowsKeepInv DEF ClaimsQueued, WorkersNamed
<1>7. ASSUME NEW i \in Deliveries, RetryLogoutDeliveryNow(i) PROVE Inv'
  <2>1. changes' \in changes..MaxChanges
    BY <1>7, ChangeBound DEF RetryLogoutDeliveryNow
  <2>2. /\ wk' \in [Workers -> WorkerRows]
        /\ UNCHANGED <<client, wk, access, sess, sid, call, crashes, ended>>
    BY <1>7 DEF RetryLogoutDeliveryNow, directory, TypeOK, WorkerRows
  <2>3. dlv[i].status # "none" /\ dlv' = [dlv EXCEPT ![i] = Renewed(i)] /\ dlv[i] \in DeliveryRows
    BY <1>7 DEF RetryLogoutDeliveryNow, Outstanding, TypeOK
  <2>4. Renewed(i) \in DeliveryRows /\ Renewed(i).status = "queued" /\ Renewed(i).claim = NoWorker
    BY <2>3, RowResets
  <2>5. dlv' \in [Deliveries -> DeliveryRows]
    BY <2>3, <2>4 DEF TypeOK
  <2>6. \A j \in Deliveries : dlv'[j] = IF j = i THEN Renewed(i) ELSE dlv[j]
    BY <2>3 DEF TypeOK
  <2> QED BY <2>1, <2>2, <2>3, <2>4, <2>5, <2>6, RowsKeepInv DEF ClaimsQueued, WorkersNamed, TypeOK
<1> QED BY <1>1, <1>2, <1>3, <1>4, <1>5, <1>6, <1>7, RestoreInv DEF Administration

LEMMA WorkerInv == ASSUME Inv, NEW w \in Workers, Worker(w) PROVE Inv'
<1> USE DEF Inv
<1>0. /\ dlv \in [Deliveries -> DeliveryRows] /\ wk \in [Workers -> WorkerRows] /\ changes \in Nat
      /\ changes \in changes..MaxChanges
      /\ client \in [Clients -> [there : BOOLEAN, enabled : BOOLEAN, uri : BOOLEAN]]
  BY LogoutAssumption DEF TypeOK, WorkerRows
<1>1. CASE ClaimLogoutDelivery(w)
  <2>1. PICK i \in Deliveries :
           /\ Due(i)
           /\ dlv' = [j \in Deliveries |->
                        IF j = i THEN Claimed(i, w)
                        ELSE IF Interrupted(j) THEN FailedRow(j) ELSE dlv[j]]
           /\ wk' = [wk EXCEPT ![w] = [pc |-> "claimed", d |-> i, attempts |-> dlv[i].attempts + 1,
                                       uri |-> client[sid[i[1]].client].uri, ok |-> FALSE]]
    BY <1>1 DEF ClaimLogoutDelivery
  <2>2. dlv[i].status = "queued" /\ sid[i[1]].client \in Clients
    BY <2>1, DeliveryParts DEF Due, DeliveriesNamed, SidsNamed
  <2>3. [pc |-> "claimed", d |-> i, attempts |-> dlv[i].attempts + 1,
         uri |-> client[sid[i[1]].client].uri, ok |-> FALSE] \in WorkerRows
    <3>1. dlv[i].attempts + 1 \in Nat /\ client[sid[i[1]].client].uri \in BOOLEAN
      BY <1>0, <2>2 DEF DeliveryRows
    <3> QED BY <3>1, Zenon DEF WorkerRows
  <2>4. wk' \in [Workers -> WorkerRows]
    BY <1>0, <2>1, <2>3
  <2>5. dlv' \in [Deliveries -> DeliveryRows]
    BY <1>0, <2>1, ClaimedRow, RowResets
  <2>6. \A j \in Deliveries : /\ dlv'[j].status = "none" <=> dlv[j].status = "none"
                              /\ dlv'[j].claim # NoWorker => dlv'[j].status = "queued"
    BY <1>0, <2>1, <2>2, ClaimedRow, RowResets DEF Interrupted, ClaimsQueued
  <2>7. \A v \in Workers : wk'[v].pc # "idle" =>
                              wk'[v].d \in Deliveries /\ dlv[wk'[v].d].status # "none"
    BY <1>0, <2>1, <2>2 DEF WorkersNamed
  <2> QED BY <1>0, <1>1, <2>4, <2>5, <2>6, <2>7, RowsKeepInv DEF ClaimLogoutDelivery, directory
<1>2. ASSUME NEW accepted \in BOOLEAN, NEW ok \in BOOLEAN, PostLogout(w, accepted, ok) PROVE Inv'
  <2>1. wk[w].d \in Deliveries /\ wk[w] \in WorkerRows
    BY <1>0, <1>2 DEF PostLogout, WorkersNamed
  <2>2. /\ wk' = [wk EXCEPT ![w] = [[wk[w] EXCEPT !.pc = "answered"] EXCEPT !.ok = ok]]
        /\ [[wk[w] EXCEPT !.pc = "answered"] EXCEPT !.ok = ok] \in WorkerRows
        /\ [[wk[w] EXCEPT !.pc = "answered"] EXCEPT !.ok = ok].d = wk[w].d
    <3>1. wk' = [wk EXCEPT ![w] = [[wk[w] EXCEPT !.pc = "answered"] EXCEPT !.ok = ok]]
      BY <1>0, <1>2 DEF PostLogout, WorkerRows
    <3>2. /\ [[wk[w] EXCEPT !.pc = "answered"] EXCEPT !.ok = ok] \in WorkerRows
          /\ [[wk[w] EXCEPT !.pc = "answered"] EXCEPT !.ok = ok].d = wk[w].d
      BY <2>1, Zenon DEF WorkerRows
    <3> QED BY <3>1, <3>2
  <2>3. wk' \in [Workers -> WorkerRows]
    BY <1>0, <2>2
  <2>4. \A v \in Workers : wk'[v].pc # "idle" =>
                              wk'[v].d \in Deliveries /\ dlv[wk'[v].d].status # "none"
    BY <1>0, <1>2, <2>2 DEF PostLogout, WorkersNamed
  <2>5. /\ dlv' \in [Deliveries -> DeliveryRows]
        /\ \A i \in Deliveries : dlv'[i].status = dlv[i].status /\ dlv'[i].claim = dlv[i].claim
    BY <1>2, PostedRow
  <2>6. \A j \in Deliveries : /\ dlv'[j].status = "none" <=> dlv[j].status = "none"
                              /\ dlv'[j].claim # NoWorker => dlv'[j].status = "queued"
    BY <2>5 DEF ClaimsQueued
  <2>7. UNCHANGED <<client, access, sess, sid, call, changes, crashes, ended>>
    BY <1>2 DEF PostLogout, directory
  <2> HIDE DEF Inv
  <2> QED BY <1>0, <2>3, <2>4, <2>5, <2>6, <2>7, RowsKeepInv
<1>3. CASE FinishLogoutDelivery(w)
  <2>1. wk[w].d \in Deliveries /\ dlv[wk[w].d].status # "none" /\ wk[w] \in WorkerRows
    BY <1>0, <1>3 DEF FinishLogoutDelivery, WorkersNamed
  <2>2. wk[w].ok \in BOOLEAN /\ wk[w].attempts \in Nat
    BY <2>1 DEF WorkerRows
  <2>3. /\ dlv' \in [Deliveries -> DeliveryRows]
        /\ \A i \in Deliveries :
              \/ dlv'[i] = dlv[i]
              \/ /\ dlv[i].claim = w /\ dlv[i].status # "none"
                 /\ dlv'[i] = Recorded(i, wk[w].ok, wk[w].attempts)
    BY <1>0, <1>3, <2>1, <2>2, RecordedRow DEF FinishLogoutDelivery
  <2>4. \A j \in Deliveries : /\ dlv'[j].status = "none" <=> dlv[j].status = "none"
                              /\ dlv'[j].claim # NoWorker => dlv'[j].status = "queued"
    <3>1. \A j \in Deliveries :
             /\ Recorded(j, wk[w].ok, wk[w].attempts).status \in {"delivered", "failed", "queued"}
             /\ Recorded(j, wk[w].ok, wk[w].attempts).claim = NoWorker
      BY <1>0, <2>2, RecordedRow
    <3> QED BY <2>3, <3>1 DEF ClaimsQueued
  <2>5. /\ wk' \in [Workers -> WorkerRows]
        /\ \A v \in Workers : wk'[v].pc # "idle" =>
                                wk'[v].d \in Deliveries /\ dlv[wk'[v].d].status # "none"
    BY <1>0, <1>3, RowTypes DEF FinishLogoutDelivery, WorkersNamed
  <2> QED BY <1>0, <1>3, <2>3, <2>4, <2>5, RowsKeepInv DEF FinishLogoutDelivery, directory
<1> QED BY <1>1, <1>2, <1>3 DEF Worker

LEMMA ClockInv == ASSUME Inv, Clock PROVE Inv'
<1> USE DEF Inv
<1>0. /\ dlv \in [Deliveries -> DeliveryRows] /\ wk \in [Workers -> WorkerRows] /\ changes \in Nat
      /\ changes \in changes..MaxChanges
      /\ client \in [Clients -> [there : BOOLEAN, enabled : BOOLEAN, uri : BOOLEAN]]
  BY LogoutAssumption DEF TypeOK, WorkerRows
<1>1. ASSUME NEW s \in Sessions, SessionExpires(s) PROVE Inv'
  BY <1>1 DEF SessionExpires, TypeOK, SidsNamed, DeliveriesNamed, CallsNamed, WorkersNamed,
              ClaimsQueued, EndsNamed
<1>2. CASE CleanupExpiredSessions
  <2>1. /\ sid' \in [Sids -> SidRows]
        /\ \A n \in Sids : /\ sid'[n].client = sid[n].client /\ sid'[n].sess = sid[n].sess
                           /\ sid'[n].st = "none" <=> sid[n].st = "none"
    BY <1>2, UnmapRows DEF CleanupExpiredSessions, SidsOf, Mapped, TypeOK
  <2>2. TypeOK'
    BY <1>2, <2>1 DEF CleanupExpiredSessions, TypeOK
  <2>3. SidsNamed' /\ DeliveriesNamed' /\ EndsNamed'
    BY <1>2, <2>1, DeliveryParts DEF CleanupExpiredSessions, SidsNamed, DeliveriesNamed, EndsNamed
  <2> QED BY <1>2, <2>2, <2>3 DEF CleanupExpiredSessions, CallsNamed, WorkersNamed, ClaimsQueued
<1>3. ASSUME NEW i \in Deliveries, LeaseExpires(i) \/ BackoffEnds(i) \/ DeleteLogoutDeliveriesOlderThan(i)
      PROVE  Inv'
  <2>1. /\ dlv' \in [Deliveries -> DeliveryRows]
        /\ \A j \in Deliveries : /\ dlv'[j].claim = dlv[j].claim
                                 /\ \/ dlv'[j].status = dlv[j].status
                                    \/ dlv[j].status = "delivered" /\ dlv'[j].status = "pruned"
    BY <1>3, TimedRow
  <2>2. /\ UNCHANGED <<client, access, sess, sid, call, wk, changes, crashes, ended>>
    BY <1>3 DEF LeaseExpires, BackoffEnds, DeleteLogoutDeliveriesOlderThan, directory
  <2>3. \A j \in Deliveries : /\ dlv'[j].status = "none" <=> dlv[j].status = "none"
                              /\ dlv'[j].claim # NoWorker => dlv'[j].status = "queued"
    BY <2>1 DEF ClaimsQueued
  <2> QED BY <1>0, <2>1, <2>2, <2>3, RowsKeepInv DEF WorkersNamed
<1> QED BY <1>1, <1>2, <1>3 DEF Clock

LEMMA CrashInv == ASSUME Inv, Crash PROVE Inv'
<1> USE DEF Inv
<1>1. wk' \in [Workers -> WorkerRows] /\ \A w \in Workers : wk'[w].pc = "idle"
  BY RowTypes DEF Crash
<1>2. crashes' \in 0..MaxCrashes /\ call' = [k \in Calls |-> IdleCall]
  BY LogoutAssumption DEF Crash, TypeOK
<1>3. TypeOK'
  BY <1>1, <1>2 DEF Crash, directory, TypeOK, WorkerRows, IdleCall
<1> QED BY <1>1, <1>2, <1>3 DEF Crash, SidsNamed, DeliveriesNamed, CallsNamed, WorkersNamed,
           ClaimsQueued, EndsNamed

LEMMA NextInv == Inv /\ [Next]_vars => Inv'
<1> SUFFICES ASSUME Inv, [Next]_vars PROVE Inv'
  OBVIOUS
<1>1. CASE UNCHANGED vars
  BY <1>1 DEF vars, Inv, TypeOK, SidsNamed, DeliveriesNamed, CallsNamed, WorkersNamed, ClaimsQueued,
              EndsNamed
<1> QED BY <1>1, RespondInv, AdministrationInv, WorkerInv, ClockInv, CrashInv DEF Next

LEMMA SpecInv == Spec => []Inv
BY InitInv, NextInv, PTL DEF Spec

\* Every variable keeps its type: no sid, delivery or worker's claim names a client or a row
\* that does not exist, and the attempts of a delivery are a number, for any instance.
THEOREM LogoutTypes == Spec => []TypeOK
<1>1. Inv => TypeOK
  BY DEF Inv
<1> QED BY <1>1, SpecInv, PTL
-----------------------------------------------------------------------------
(* One claim, and evidence. *)

Held(i) == dlv[i].status = "queued" /\ dlv[i].lease = "held"

\* A client has one delivery under a lease that has not lapsed.
HeldOnce ==
    \A i, j \in Deliveries : Held(i) /\ Held(j) /\ sid[i[1]].client = sid[j[1]].client => i = j

\* A worker is about to record that i was delivered, and its claim stands.
Reporting(i) ==
    \E w \in Workers : wk[w].pc = "answered" /\ wk[w].ok /\ wk[w].d = i /\ dlv[i].claim = w

\* The evidence, strengthened: a success is recorded only for a token already accepted.
Witnessed(n, i) ==
    /\ i[1] = n /\ dlv[i].status # "none"
    /\ dlv[i].acked >= ended[n] \/ (Outstanding(i) /\ ~Reporting(i))

EvidenceHeld ==
    \A n \in Sids : ended[n] # 0 /\ client[sid[n].client].there =>
       \E i \in Deliveries : Witnessed(n, i)

Guarantee == Inv /\ HeldOnce /\ EvidenceHeld

\* What a step may make of a row: its evidence stays, unless its client is deleted.
EvidenceKept(i) ==
    dlv[i].status # "none" /\ client'[sid[i[1]].client].there =>
       /\ dlv'[i].status # "none"
       /\ dlv'[i].acked \in {dlv[i].acked, changes}
       /\ Outstanding(i) /\ ~Reporting(i) =>
             dlv'[i].acked = changes \/ (Outstanding(i)' /\ ~Reporting(i)')

DeliveredKept(i) ==
    dlv[i].status = "delivered" => dlv'[i].status \in {"delivered", "pruned", "dropped"}

RowKept(i) == (Held(i)' => Held(i)) /\ DeliveredKept(i) /\ EvidenceKept(i)

\* A minted sid keeps its client, and no client comes back.
Frame ==
    /\ \A n \in Sids : sid[n].st # "none" => sid'[n].client = sid[n].client
    /\ \A c \in Clients : client'[c].there => client[c].there

LEMMA HeldKept ==
  ASSUME Inv, HeldOnce, Frame, \A i \in Deliveries : Held(i)' => Held(i)
  PROVE  HeldOnce'
<1>1. \A i \in Deliveries : Held(i)' => sid'[i[1]].client = sid[i[1]].client
  BY DeliveryParts DEF Frame, Inv, DeliveriesNamed, Held
<1> QED BY <1>1 DEF HeldOnce

LEMMA WitnessKept ==
  ASSUME Inv, Inv', EvidenceHeld, Frame, \A i \in Deliveries : EvidenceKept(i),
         \A n \in Sids : ended'[n] = ended[n] \/ \E i \in Deliveries : Witnessed(n, i)'
  PROVE  EvidenceHeld'
<1> SUFFICES ASSUME NEW n \in Sids, ended'[n] # 0, client'[sid'[n].client].there,
                    ended'[n] = ended[n]
             PROVE  \E i \in Deliveries : Witnessed(n, i)'
  BY DEF EvidenceHeld
<1>1. sid[n].st # "none" /\ sid'[n].client = sid[n].client /\ sid[n].client \in Clients
      /\ ended[n] <= changes /\ ended[n] \in Nat /\ changes \in Nat
  BY LogoutAssumption DEF Inv, EndsNamed, SidsNamed, Frame, TypeOK
<1>2. client[sid[n].client].there
  BY <1>1 DEF Frame
<1>3. PICK i \in Deliveries : Witnessed(n, i)
  BY <1>1, <1>2 DEF EvidenceHeld
<1>4. i[1] = n /\ dlv[i].status # "none" /\ EvidenceKept(i)
  BY <1>3 DEF Witnessed
<1>5. /\ dlv'[i].status # "none" /\ dlv'[i].acked \in {dlv[i].acked, changes}
      /\ Outstanding(i) /\ ~Reporting(i) =>
            dlv'[i].acked = changes \/ (Outstanding(i)' /\ ~Reporting(i)')
  BY <1>1, <1>4 DEF EvidenceKept
<1>6. CASE dlv[i].acked >= ended[n]
  BY <1>1, <1>4, <1>5, <1>6 DEF Witnessed
<1>7. CASE Outstanding(i) /\ ~Reporting(i)
  BY <1>1, <1>4, <1>5, <1>7 DEF Witnessed
<1> QED BY <1>3, <1>6, <1>7 DEF Witnessed

\* A step that leaves deliveries and workers alone.
LEMMA IdleKept ==
  ASSUME UNCHANGED <<dlv, wk>>, NEW i \in Deliveries
  PROVE  RowKept(i)
BY DEF RowKept, Held, DeliveredKept, EvidenceKept, Outstanding, Reporting

\* A change that ends the logins behind N.
LEMMA EndsRows ==
  ASSUME Inv, Inv', EvidenceHeld, Change, NEW N \in SUBSET {n \in Sids : Mapped(n)},
         Enqueue(N), End(N), UNCHANGED <<wk, client>>
  PROVE  /\ \A i \in Deliveries : RowKept(i)
         /\ \A n \in Sids : ended'[n] = ended[n] \/ \E i \in Deliveries : Witnessed(n, i)'
<1>1. \A i \in Deliveries :
        \/ dlv'[i] = dlv[i]
        \/ dlv'[i] = NewDelivery /\ dlv[i].status = "none"
  <2>1. changes \in Nat /\ \A i \in Deliveries : i[2] = changes + 1 => dlv[i].status = "none"
    BY LogoutAssumption, DeliveryParts DEF Inv, TypeOK, DeliveriesNamed
  <2> QED BY <2>1 DEF Enqueue
<1>2. ASSUME NEW i \in Deliveries PROVE RowKept(i)
  <2>1. CASE dlv'[i] = dlv[i]
    BY <2>1 DEF RowKept, Held, DeliveredKept, EvidenceKept, Outstanding, Reporting
  <2>2. CASE dlv'[i] = NewDelivery /\ dlv[i].status = "none"
    BY <2>2, RowTypes DEF RowKept, Held, DeliveredKept, EvidenceKept
  <2> QED BY <1>1, <2>1, <2>2
<1>3. ASSUME NEW n \in Sids, ended'[n] # ended[n] PROVE \E i \in Deliveries : Witnessed(n, i)'
  <2>1. n \in N /\ HasReceiver(sid[n].client) /\ changes + 1 \in 1..MaxChanges
    BY <1>3, LogoutAssumption DEF End, Change, Inv, TypeOK
  <2>2. PICK i \in Deliveries : i = <<n, changes + 1>>
    BY <2>1 DEF Deliveries
  <2>3. dlv'[i] = NewDelivery /\ i[1] = n
    BY <2>1, <2>2 DEF Enqueue
  <2>4. ~Reporting(i)' /\ Outstanding(i)' /\ dlv'[i].status # "none"
    BY <2>3, RowTypes, LogoutAssumption DEF Reporting, Outstanding
  <2> QED BY <2>3, <2>4 DEF Witnessed
<1> QED BY <1>2, <1>3

\* Every change other than a restore.
LEMMA AdministrationRows ==
  ASSUME Inv, Inv', EvidenceHeld, Administration, ~ApplyRestoredState
  PROVE  /\ Frame /\ \A i \in Deliveries : RowKept(i)
         /\ \A n \in Sids : ended'[n] = ended[n] \/ \E i \in Deliveries : Witnessed(n, i)'
<1> DEFINE Goal ==
      /\ Frame /\ \A i \in Deliveries : RowKept(i)
      /\ \A n \in Sids : ended'[n] = ended[n] \/ \E i \in Deliveries : Witnessed(n, i)'
<1>0. \A i \in Deliveries : dlv[i] \in DeliveryRows
  BY DEF Inv, TypeOK
<1>1. ASSUME NEW S \in SUBSET Sessions, RevokeSessions(S) PROVE Goal
  <2>1. SidsOf(S) \in SUBSET {n \in Sids : Mapped(n)}
    BY DEF SidsOf
  <2>2. Frame
    BY <1>1 DEF RevokeSessions, Unmap, Frame, Inv, TypeOK, SidRows
  <2> QED BY <1>1, <2>1, <2>2, EndsRows DEF RevokeSessions
<1>2. ASSUME NEW c \in Clients, RevokeUserClientAccess(c) PROVE Goal
  <2> DEFINE N == {n \in Sids : Mapped(n) /\ sid[n].client = c}
  <2>1. N \in SUBSET {n \in Sids : Mapped(n)}
    OBVIOUS
  <2>2. Enqueue(N) /\ End(N) /\ Change /\ UNCHANGED <<client, sid, wk>>
    BY <1>2 DEF RevokeUserClientAccess, directory
  <2> HIDE DEF N
  <2>3. Frame
    BY <2>2 DEF Frame
  <2> QED BY <2>1, <2>2, <2>3, EndsRows
<1>3. ASSUME NEW c \in Clients, NEW on \in BOOLEAN, SetAccess(c, on) PROVE Goal
  <2> DEFINE N == {n \in Sids : Mapped(n) /\ ~access'[sid[n].client]}
  <2>1. N \in SUBSET {n \in Sids : Mapped(n)}
    OBVIOUS
  <2>2. Enqueue(N) /\ End(N) /\ Unmap(N) /\ Change /\ UNCHANGED <<client, wk>>
    BY <1>3 DEF SetAccess, RevokeLost
  <2> HIDE DEF N
  <2>3. Frame
    BY <2>2 DEF Frame, Unmap, Inv, TypeOK, SidRows
  <2> QED BY <2>1, <2>2, <2>3, EndsRows
<1>4. ASSUME NEW c \in Clients, AccessLapses(c) PROVE Goal
  BY <1>4, IdleKept DEF AccessLapses, Frame
<1>5. ASSUME NEW c \in Clients, NEW enabled \in BOOLEAN, NEW uri \in BOOLEAN,
             UpdateOAuthClient(c, enabled, uri)
      PROVE  Goal
  <2>1. \A b \in Clients : client'[b].there => client[b].there
    BY <1>5 DEF UpdateOAuthClient, Inv, TypeOK
  <2> QED BY <1>5, <2>1, IdleKept DEF UpdateOAuthClient, Frame
<1>6. ASSUME NEW c \in Clients, DeleteOAuthClient(c) PROVE Goal
  <2>1. \A b \in Clients : client'[b].there => client[b].there /\ b # c
    BY <1>6 DEF DeleteOAuthClient, Inv, TypeOK
  <2>2. Frame
    BY <1>6, <2>1 DEF DeleteOAuthClient, Frame
  <2>3. ASSUME NEW i \in Deliveries PROVE RowKept(i)
    <3>1. dlv'[i] = dlv[i] \/ (dlv'[i] = DroppedRow(i) /\ sid[i[1]].client = c)
      BY <1>6 DEF DeleteOAuthClient
    <3>2. CASE dlv'[i] = dlv[i]
      BY <1>6, <3>2 DEF DeleteOAuthClient, RowKept, Held, DeliveredKept, EvidenceKept, Outstanding, Reporting
    <3>3. CASE dlv'[i] = DroppedRow(i) /\ sid[i[1]].client = c
      <4>1. dlv'[i].status = "dropped"
        BY <1>0, <3>3, RowResets
      <4>2. ~client'[c].there
        BY <2>1
      <4> QED BY <3>3, <4>1, <4>2 DEF RowKept, Held, DeliveredKept, EvidenceKept
    <3> QED BY <3>1, <3>2, <3>3
  <2> QED BY <1>6, <2>2, <2>3 DEF DeleteOAuthClient
<1>7. ASSUME NEW d \in Deliveries, RetryLogoutDeliveryNow(d) PROVE Goal
  <2>1. Frame /\ UNCHANGED <<wk, client, ended>>
    BY <1>7 DEF RetryLogoutDeliveryNow, directory, Frame
  <2>2. ASSUME NEW i \in Deliveries PROVE RowKept(i)
    <3>1. CASE i = d
      <4>1. dlv'[i] = Renewed(i) /\ Outstanding(i)
        BY <1>7, <3>1 DEF RetryLogoutDeliveryNow, Inv, TypeOK
      <4>2. dlv'[i].status = "queued" /\ dlv'[i].claim = NoWorker /\ dlv'[i].lease = "none"
            /\ dlv'[i].acked = dlv[i].acked
        BY <1>0, <4>1, RowResets
      <4>3. Outstanding(i)' /\ ~Reporting(i)'
        BY <4>2, LogoutAssumption DEF Outstanding, Reporting
      <4> QED BY <4>1, <4>2, <4>3 DEF RowKept, Held, DeliveredKept, EvidenceKept, Outstanding
    <3>2. CASE i # d
      <4>1. dlv'[i] = dlv[i]
        BY <1>7, <3>2 DEF RetryLogoutDeliveryNow, Inv, TypeOK
      <4> QED BY <2>1, <4>1 DEF RowKept, Held, DeliveredKept, EvidenceKept, Outstanding, Reporting
    <3> QED BY <3>1, <3>2
  <2> QED BY <2>1, <2>2
<1> QED BY <1>1, <1>2, <1>3, <1>4, <1>5, <1>6, <1>7 DEF Administration

LEMMA RestoreRows ==
  ASSUME Inv, Inv', EvidenceHeld, ApplyRestoredState
  PROVE  /\ Frame /\ \A i \in Deliveries : RowKept(i)
         /\ \A n \in Sids : ended'[n] = ended[n] \/ \E i \in Deliveries : Witnessed(n, i)'
<1> DEFINE N == {n \in Sids : Mapped(n)}
           owed == {n \in N : \E i \in Deliveries : i[1] = n /\ Outstanding(i)}
<1>0. \A i \in Deliveries : dlv[i] \in DeliveryRows
  BY DEF Inv, TypeOK
<1>1. Frame
  BY DEF ApplyRestoredState, Unmap, Frame, Inv, TypeOK, SidRows
<1>2. \A w \in Workers : wk'[w].pc = "idle"
  BY RowTypes DEF ApplyRestoredState
<1>3. \A i \in Deliveries : dlv'[i] =
         IF i[2] = changes + 1 /\ i[1] \in N \ owed /\ HasReceiver(sid[i[1]].client)
         THEN NewDelivery
         ELSE IF dlv[i].status = "queued" THEN Renewed(i) ELSE dlv[i]
  BY DEF ApplyRestoredState
<1>4. changes \in Nat /\ \A i \in Deliveries : i[2] = changes + 1 => dlv[i].status = "none"
  BY LogoutAssumption, DeliveryParts DEF Inv, TypeOK, DeliveriesNamed
<1>5. ASSUME NEW i \in Deliveries PROVE ~Reporting(i)'
  BY <1>2 DEF Reporting
<1>6. ASSUME NEW i \in Deliveries PROVE RowKept(i) /\ (Outstanding(i) => Outstanding(i)')
  <2>1. \/ dlv'[i] = NewDelivery /\ dlv[i].status = "none"
        \/ dlv[i].status = "queued" /\ dlv'[i] = Renewed(i)
        \/ dlv'[i] = dlv[i]
    BY <1>3, <1>4
  <2>2. CASE dlv'[i] = NewDelivery /\ dlv[i].status = "none"
    BY <2>2, RowTypes DEF RowKept, Held, DeliveredKept, EvidenceKept, Outstanding
  <2>3. CASE dlv[i].status = "queued" /\ dlv'[i] = Renewed(i)
    <3>1. dlv'[i].status = "queued" /\ dlv'[i].lease = "none" /\ dlv'[i].acked = dlv[i].acked
      BY <1>0, <2>3, RowResets
    <3> QED BY <1>5, <2>3, <3>1 DEF RowKept, Held, DeliveredKept, EvidenceKept, Outstanding
  <2>4. CASE dlv'[i] = dlv[i]
    BY <1>5, <2>4 DEF RowKept, Held, DeliveredKept, EvidenceKept, Outstanding
  <2> QED BY <2>1, <2>2, <2>3, <2>4
<1>7. ASSUME NEW n \in Sids, ended'[n] # ended[n] PROVE \E i \in Deliveries : Witnessed(n, i)'
  <2>1. n \in N /\ HasReceiver(sid[n].client) /\ changes + 1 \in 1..MaxChanges
    BY <1>7, LogoutAssumption DEF ApplyRestoredState, End, Change, Inv, TypeOK
  <2>2. CASE n \in owed
    <3>1. PICK i \in Deliveries : i[1] = n /\ Outstanding(i)
      BY <2>2
    <3>2. Outstanding(i)' /\ ~Reporting(i)' /\ dlv'[i].status # "none"
      BY <1>5, <1>6, <3>1 DEF Outstanding
    <3> QED BY <3>1, <3>2 DEF Witnessed
  <2>3. CASE n \notin owed
    <3>1. PICK i \in Deliveries : i = <<n, changes + 1>>
      BY <2>1 DEF Deliveries
    <3>2. dlv'[i] = NewDelivery /\ i[1] = n
      BY <1>3, <2>1, <2>3, <3>1
    <3>3. Outstanding(i)' /\ ~Reporting(i)' /\ dlv'[i].status # "none"
      BY <1>5, <3>2, RowTypes DEF Outstanding
    <3> QED BY <3>2, <3>3 DEF Witnessed
  <2> QED BY <2>2, <2>3
<1> QED BY <1>1, <1>6, <1>7

\* A worker: its claim needs a client with none, and it records a success only after the
\* receiver has accepted a token under the claim it still has.
LEMMA WorkerSteps ==
  ASSUME Inv, Inv', HeldOnce, NEW w \in Workers, Worker(w)
  PROVE  /\ HeldOnce' /\ \A i \in Deliveries : DeliveredKept(i) /\ EvidenceKept(i)
         /\ UNCHANGED <<client, sid, ended>>
<1> DEFINE Goal == /\ HeldOnce' /\ \A i \in Deliveries : DeliveredKept(i) /\ EvidenceKept(i)
                   /\ UNCHANGED <<client, sid, ended>>
<1>0. /\ \A i \in Deliveries : dlv[i] \in DeliveryRows
      /\ wk \in [Workers -> WorkerRows] /\ dlv \in [Deliveries -> DeliveryRows]
  BY DEF Inv, TypeOK, WorkerRows
<1>1. CASE ClaimLogoutDelivery(w)
  <2>0. UNCHANGED <<client, sid, ended>> /\ wk[w].pc = "idle"
    BY <1>1 DEF ClaimLogoutDelivery, directory
  <2>1. PICK d \in Deliveries :
           /\ Due(d)
           /\ dlv' = [j \in Deliveries |->
                        IF j = d THEN Claimed(d, w)
                        ELSE IF Interrupted(j) THEN FailedRow(j) ELSE dlv[j]]
           /\ wk' = [wk EXCEPT ![w] = [pc |-> "claimed", d |-> d, attempts |-> dlv[d].attempts + 1,
                                       uri |-> client[sid[d[1]].client].uri, ok |-> FALSE]]
    BY <1>1 DEF ClaimLogoutDelivery
  <2>2. wk'[w].pc = "claimed" /\ \A v \in Workers : v # w => wk'[v] = wk[v]
    BY <1>0, <2>1
  <2>3. ASSUME NEW i \in Deliveries PROVE DeliveredKept(i) /\ EvidenceKept(i) /\ (Held(i)' => Held(i) \/ i = d)
    <3>1. CASE i = d
      <4>1. dlv'[i].status = "queued" /\ dlv[i].status = "queued" /\ dlv'[i].claim = w
            /\ dlv'[i].acked = dlv[i].acked
        BY <1>0, <2>1, <3>1, ClaimedRow DEF Due
      <4>2. ~Reporting(i)'
        BY <2>2, <4>1 DEF Reporting
      <4> QED BY <3>1, <4>1, <4>2 DEF DeliveredKept, EvidenceKept, Outstanding
    <3>2. CASE i # d /\ Interrupted(i)
      <4>1. dlv'[i].status = "failed" /\ dlv[i].status = "queued" /\ dlv'[i].claim = NoWorker
            /\ dlv'[i].acked = dlv[i].acked
        BY <1>0, <2>1, <3>2, RowResets DEF Interrupted
      <4>2. ~Reporting(i)'
        BY <4>1, LogoutAssumption DEF Reporting
      <4> QED BY <4>1, <4>2 DEF DeliveredKept, EvidenceKept, Outstanding, Held
    <3>3. CASE i # d /\ ~Interrupted(i)
      <4>1. dlv'[i] = dlv[i]
        BY <2>1, <3>3
      <4>2. Reporting(i)' => Reporting(i)
        BY <2>2, <4>1 DEF Reporting
      <4> QED BY <4>1, <4>2 DEF DeliveredKept, EvidenceKept, Outstanding, Held
    <3> QED BY <3>1, <3>2, <3>3
  <2>4. HeldOnce'
    <3>1. \A j \in Deliveries : Held(j) => sid[j[1]].client # sid[d[1]].client
      BY <2>1 DEF Due, Busy, Held
    <3> QED BY <2>0, <2>3, <3>1 DEF HeldOnce
  <2> QED BY <2>0, <2>3, <2>4
<1>2. ASSUME NEW accepted \in BOOLEAN, NEW ok \in BOOLEAN, PostLogout(w, accepted, ok) PROVE Goal
  <2>0. UNCHANGED <<client, sid, ended>> /\ (ok => accepted)
    BY <1>2 DEF PostLogout, directory
  <2>1. \A i \in Deliveries :
           /\ dlv'[i].status = dlv[i].status /\ dlv'[i].claim = dlv[i].claim
           /\ dlv'[i].lease = dlv[i].lease
           /\ dlv'[i].acked = IF i = wk[w].d /\ accepted THEN changes ELSE dlv[i].acked
    BY <1>2, PostedRow DEF Inv
  <2>2. wk'[w].ok = ok /\ wk'[w].d = wk[w].d /\ \A v \in Workers : v # w => wk'[v] = wk[v]
    BY <1>0, <1>2 DEF PostLogout, WorkerRows
  <2>3. ASSUME NEW i \in Deliveries PROVE DeliveredKept(i) /\ EvidenceKept(i)
    <3>1. Reporting(i)' => Reporting(i) \/ (ok /\ i = wk[w].d)
      BY <2>1, <2>2 DEF Reporting
    <3> QED BY <2>0, <2>1, <3>1 DEF DeliveredKept, EvidenceKept, Outstanding
  <2>4. HeldOnce'
    BY <2>0, <2>1 DEF HeldOnce, Held
  <2> QED BY <2>0, <2>3, <2>4
<1>3. CASE FinishLogoutDelivery(w)
  <2>0. UNCHANGED <<client, sid, ended>> /\ wk[w].pc = "answered" /\ wk' = [wk EXCEPT ![w] = IdleWorker]
    BY <1>3 DEF FinishLogoutDelivery, directory
  <2>1. wk[w].d \in Deliveries /\ wk[w].ok \in BOOLEAN /\ wk[w].attempts \in Nat
    BY <1>0, <2>0 DEF Inv, WorkersNamed, WorkerRows
  <2>2. \A i \in Deliveries :
           \/ dlv'[i] = dlv[i]
           \/ /\ i = wk[w].d /\ dlv[i].claim = w
              /\ dlv'[i] = Recorded(i, wk[w].ok, wk[w].attempts)
    BY <1>0, <1>3, <2>1 DEF FinishLogoutDelivery
  <2>3. \A v \in Workers : wk'[v].pc # "idle" => wk'[v] = wk[v]
    BY <1>0, <2>0, RowTypes
  <2>4. ASSUME NEW i \in Deliveries PROVE DeliveredKept(i) /\ EvidenceKept(i) /\ (Held(i)' => Held(i))
    <3>1. CASE dlv'[i] = dlv[i]
      <4>1. Reporting(i)' => Reporting(i)
        BY <2>3, <3>1 DEF Reporting
      <4> QED BY <3>1, <4>1 DEF DeliveredKept, EvidenceKept, Outstanding, Held
    <3>2. CASE /\ i = wk[w].d /\ dlv[i].claim = w
               /\ dlv'[i] = Recorded(i, wk[w].ok, wk[w].attempts)
      <4>1. dlv[i].status = "queued"
        BY <3>2, LogoutAssumption DEF Inv, ClaimsQueued
      <4>2. /\ dlv'[i].status \in IF wk[w].ok THEN {"delivered"} ELSE {"failed", "queued"}
            /\ dlv'[i].claim = NoWorker /\ dlv'[i].lease = "none" /\ dlv'[i].acked = dlv[i].acked
        BY <1>0, <2>1, <3>2, RecordedRow
      <4>3. ~Reporting(i)'
        BY <4>2, LogoutAssumption DEF Reporting
      <4>4. wk[w].ok => Reporting(i)
        BY <2>0, <3>2 DEF Reporting
      <4> QED BY <4>1, <4>2, <4>3, <4>4 DEF DeliveredKept, EvidenceKept, Outstanding, Held
    <3> QED BY <2>2, <3>1, <3>2
  <2>5. HeldOnce'
    BY <2>0, <2>4 DEF HeldOnce
  <2> QED BY <2>0, <2>4, <2>5
<1> QED BY <1>1, <1>2, <1>3 DEF Worker

\* Token responses, the clock and a crash.
LEMMA OtherRows ==
  ASSUME Inv, Respond \/ Clock \/ Crash
  PROVE  /\ Frame /\ \A i \in Deliveries : RowKept(i)
         /\ UNCHANGED ended
<1> DEFINE Goal == Frame /\ (\A i \in Deliveries : RowKept(i)) /\ UNCHANGED ended
<1>1. ASSUME NEW k \in Calls, NEW c \in Clients, NEW s \in Sessions, RecordIssuedToken(k, c, s)
      PROVE  Goal
  BY <1>1, IdleKept DEF RecordIssuedToken, directory, Frame
<1>2. ASSUME NEW k \in Calls, EnsureClientSession(k) PROVE Goal
  <2>1. \A n \in Sids : sid[n].st # "none" => sid'[n].client = sid[n].client
    BY <1>2, LogoutAssumption DEF EnsureClientSession, Sids, Inv, TypeOK
  <2> QED BY <1>2, <2>1, IdleKept DEF EnsureClientSession, directory, Frame
<1>3. ASSUME NEW s \in Sessions, SessionExpires(s) PROVE Goal
  BY <1>3, IdleKept DEF SessionExpires, Frame
<1>4. CASE CleanupExpiredSessions
  <2>1. \A n \in Sids : sid'[n].client = sid[n].client
    BY <1>4 DEF CleanupExpiredSessions, Unmap, Inv, TypeOK, SidRows
  <2> QED BY <1>4, <2>1, IdleKept DEF CleanupExpiredSessions, Frame
<1>5. ASSUME NEW d \in Deliveries,
             LeaseExpires(d) \/ BackoffEnds(d) \/ DeleteLogoutDeliveriesOlderThan(d)
      PROVE  Goal
  <2>1. UNCHANGED <<client, sid, wk, ended>>
    BY <1>5 DEF LeaseExpires, BackoffEnds, DeleteLogoutDeliveriesOlderThan, directory
  <2>2. \A j \in Deliveries :
           /\ dlv'[j].claim = dlv[j].claim /\ dlv'[j].acked = dlv[j].acked
           /\ dlv'[j].lease = "held" => dlv[j].lease = "held"
           /\ \/ dlv'[j].status = dlv[j].status
              \/ dlv[j].status = "delivered" /\ dlv'[j].status = "pruned"
    BY <1>5, TimedRow DEF Inv
  <2>3. ASSUME NEW i \in Deliveries PROVE RowKept(i)
    <3>1. Reporting(i)' => Reporting(i)
      BY <2>1, <2>2 DEF Reporting
    <3> QED BY <2>2, <3>1 DEF RowKept, Held, DeliveredKept, EvidenceKept, Outstanding
  <2> QED BY <2>1, <2>3 DEF Frame
<1>6. CASE Crash
  <2>1. UNCHANGED <<client, sid, dlv, ended>> /\ \A w \in Workers : wk'[w].pc = "idle"
    BY <1>6, RowTypes DEF Crash, directory
  <2>2. ASSUME NEW i \in Deliveries PROVE RowKept(i)
    <3>1. ~Reporting(i)'
      BY <2>1 DEF Reporting
    <3> QED BY <2>1, <3>1 DEF RowKept, Held, DeliveredKept, EvidenceKept, Outstanding
  <2> QED BY <2>1, <2>2 DEF Frame
<1> QED BY <1>1, <1>2, <1>3, <1>4, <1>5, <1>6 DEF Respond, Clock

LEMMA NextGuarantee ==
  ASSUME Guarantee, [Next]_vars
  PROVE  Guarantee' /\ \A i \in Deliveries : DeliveredKept(i)
<1>1. Inv'
  BY NextInv DEF Guarantee
<1>2. CASE UNCHANGED vars
  <2>1. Frame /\ (\A i \in Deliveries : RowKept(i)) /\ UNCHANGED ended
    BY <1>2, IdleKept DEF vars, Frame
  <2> QED BY <1>1, <2>1, HeldKept, WitnessKept DEF Guarantee, RowKept
<1>3. CASE Respond \/ Clock \/ Crash
  BY <1>1, <1>3, OtherRows, HeldKept, WitnessKept DEF Guarantee, RowKept
<1>4. CASE Administration
  BY <1>1, <1>4, AdministrationRows, RestoreRows, HeldKept, WitnessKept DEF Guarantee, RowKept
<1>5. ASSUME NEW w \in Workers, Worker(w) PROVE Guarantee' /\ \A i \in Deliveries : DeliveredKept(i)
  <2>1. HeldOnce' /\ (\A i \in Deliveries : DeliveredKept(i) /\ EvidenceKept(i))
        /\ UNCHANGED <<client, sid, ended>>
    BY <1>1, <1>5, WorkerSteps DEF Guarantee
  <2>2. Frame
    BY <2>1 DEF Frame
  <2> QED BY <1>1, <2>1, <2>2, WitnessKept DEF Guarantee
<1> QED BY <1>2, <1>3, <1>4, <1>5 DEF Next

LEMMA SpecGuarantee == Spec => []Guarantee
<1>1. Init => Guarantee
  BY InitInv DEF Init, Guarantee, HeldOnce, Held, EvidenceHeld, NoDelivery
<1>2. Guarantee /\ [Next]_vars => Guarantee'
  BY NextGuarantee
<1> QED BY <1>1, <1>2, PTL DEF Spec

\* A delivered logout stays delivered until it is purged or its client is deleted: the claim
\* token keeps a late worker of FinishLogoutDelivery, an interrupted one or an administrator's
\* retry from reopening it, with any number of workers.
THEOREM LogoutsStayDelivered == Spec => DeliveredIsFinal
<1>1. Guarantee /\ [Next]_vars =>
         [\A i \in Deliveries :
             dlv[i].status = "delivered" => dlv'[i].status \in {"delivered", "pruned", "dropped"}]_vars
  BY NextGuarantee DEF DeliveredKept
<1> QED BY <1>1, SpecGuarantee, PTL DEF Spec, DeliveredIsFinal

\* Two workers whose claims stand never post to one client: ClaimLogoutDelivery looks for a
\* held lease in the statement that takes one.
THEOREM OneLeasePerClient == Spec => []OneClaimPerClient
<1>1. Guarantee => OneClaimPerClient
  <2> SUFFICES ASSUME Guarantee, NEW v \in Workers, NEW w \in Workers, v # w,
                      wk[v].pc # "idle", dlv[wk[v].d].claim = v, dlv[wk[v].d].lease = "held",
                      wk[w].pc # "idle", dlv[wk[w].d].claim = w, dlv[wk[w].d].lease = "held",
                      sid[wk[v].d[1]].client = sid[wk[w].d[1]].client
               PROVE  FALSE
    BY DEF OneClaimPerClient
  <2>1. wk[v].d \in Deliveries /\ wk[w].d \in Deliveries
    BY DEF Guarantee, Inv, WorkersNamed
  <2>2. Held(wk[v].d) /\ Held(wk[w].d)
    BY <2>1, LogoutAssumption DEF Guarantee, Inv, ClaimsQueued, Held
  <2>3. wk[v].d = wk[w].d
    BY <2>1, <2>2 DEF Guarantee, HeldOnce
  <2> QED BY <2>3
<1> QED BY <1>1, SpecGuarantee, PTL

\* A login that ended is never reported complete without evidence, whatever stopped, lapsed
\* or was retried: the delivery is still owed, or the receiver accepted a token for it.
THEOREM CompletionOnEvidence == Spec => []CompletionIsEvidence
<1>1. Guarantee => CompletionIsEvidence
  BY DEF Guarantee, EvidenceHeld, Witnessed, CompletionIsEvidence
<1> QED BY <1>1, SpecGuarantee, PTL
-----------------------------------------------------------------------------
(* Attempts. *)

\* The workers that have claimed i and have yet to post.
Posting(i) == {w \in Workers : wk[w].pc = "claimed" /\ wk[w].d = i}

\* An attempt is counted when it is claimed, so a post that is still to come is paid for.
WithinBudget(i) ==
    /\ dlv[i].attempts <= Budget
    /\ dlv[i].posts + Cardinality(Posting(i)) <= Budget * dlv[i].retries + dlv[i].attempts

SameCounts(r, q) == r.posts = q.posts /\ r.attempts = q.attempts /\ r.retries = q.retries

\* The five ways a step treats the counts of a row.
CountsStep(i) ==
    \/ SameCounts(dlv'[i], dlv[i]) /\ Posting(i)' \subseteq Posting(i)
    \/ dlv[i].status = "none" /\ dlv'[i] = NewDelivery /\ Posting(i)' \subseteq Posting(i)
    \/ /\ dlv'[i].posts = dlv[i].posts /\ dlv'[i].attempts = 0
       /\ dlv'[i].retries = dlv[i].retries + 1 /\ Posting(i)' \subseteq Posting(i)
    \/ \E w \in Workers :
          /\ dlv'[i].posts = dlv[i].posts /\ dlv'[i].retries = dlv[i].retries
          /\ dlv'[i].attempts = dlv[i].attempts + 1 /\ dlv[i].attempts < Budget
          /\ Posting(i)' \subseteq Posting(i) \cup {w}
    \/ \E w \in Posting(i) :
          /\ dlv'[i].posts \in {dlv[i].posts, dlv[i].posts + 1}
          /\ dlv'[i].attempts = dlv[i].attempts /\ dlv'[i].retries = dlv[i].retries
          /\ Posting(i)' \subseteq Posting(i) \ {w}

LEMMA CountsKept ==
  ASSUME Inv, Inv', NEW i \in Deliveries, WithinBudget(i), CountsStep(i)
  PROVE  WithinBudget(i)'
<1> DEFINE P == Posting(i)
           Q == Posting(i)'
<1>1. /\ dlv[i].posts \in Nat /\ dlv[i].attempts \in Nat /\ dlv[i].retries \in Nat
      /\ dlv'[i].posts \in Nat /\ dlv'[i].attempts \in Nat /\ dlv'[i].retries \in Nat
      /\ Budget \in Nat
  BY LogoutAssumption DEF Inv, TypeOK, DeliveryRows
<1>2. IsFiniteSet(P) /\ IsFiniteSet(Q) /\ Cardinality(P) \in Nat /\ Cardinality(Q) \in Nat
  <2>1. P \in SUBSET Workers /\ Q \in SUBSET Workers
    BY DEF Posting
  <2>2. IsFiniteSet(P) /\ IsFiniteSet(Q)
    BY <2>1, FS_Subset, LogoutAssumption
  <2> QED BY <2>2, FS_CardinalityType
<1>3. /\ dlv[i].attempts <= Budget
      /\ dlv[i].posts + Cardinality(P) <= Budget * dlv[i].retries + dlv[i].attempts
  BY DEF WithinBudget
<1>4. Q \subseteq P => Cardinality(Q) <= Cardinality(P)
  BY <1>2, FS_Subset
<1>5. SUFFICES /\ dlv'[i].attempts <= Budget
               /\ dlv'[i].posts + Cardinality(Q) <= Budget * dlv'[i].retries + dlv'[i].attempts
  BY DEF WithinBudget
<1>6. CASE SameCounts(dlv'[i], dlv[i]) /\ Q \subseteq P
  BY <1>1, <1>2, <1>3, <1>4, <1>6 DEF SameCounts
<1>7. CASE dlv[i].status = "none" /\ dlv'[i] = NewDelivery /\ Q \subseteq P
  <2>1. P = {}
    BY <1>7 DEF Posting, Inv, WorkersNamed
  <2>2. Cardinality(Q) = 0
    BY <1>7, <2>1, FS_EmptySet
  <2>3. dlv'[i].posts = 0 /\ dlv'[i].attempts = 0 /\ dlv'[i].retries = 0
    BY <1>7, RowTypes
  <2> QED BY <1>1, <2>2, <2>3
<1>8. CASE /\ dlv'[i].posts = dlv[i].posts /\ dlv'[i].attempts = 0
           /\ dlv'[i].retries = dlv[i].retries + 1 /\ Q \subseteq P
  <2>1. Budget * (dlv[i].retries + 1) = Budget * dlv[i].retries + Budget
    BY <1>1
  <2>2. Budget * dlv[i].retries \in Nat
    BY <1>1
  <2> HIDE DEF P, Q
  <2> QED BY <1>1, <1>2, <1>3, <1>4, <1>8, <2>1, <2>2
<1>9. CASE \E w \in Workers :
             /\ dlv'[i].posts = dlv[i].posts /\ dlv'[i].retries = dlv[i].retries
             /\ dlv'[i].attempts = dlv[i].attempts + 1 /\ dlv[i].attempts < Budget
             /\ Q \subseteq P \cup {w}
  <2>1. PICK w \in Workers : Q \subseteq P \cup {w}
    BY <1>9
  <2> HIDE DEF P, Q
  <2>2. IsFiniteSet(P \cup {w}) /\ Cardinality(P \cup {w}) <= Cardinality(P) + 1
        /\ Cardinality(P \cup {w}) \in Nat
    <3>1. /\ IsFiniteSet(P \cup {w})
          /\ Cardinality(P \cup {w}) = IF w \in P THEN Cardinality(P) ELSE Cardinality(P) + 1
      BY <1>2, FS_AddElement
    <3> QED BY <1>2, <3>1
  <2>3. Cardinality(Q) <= Cardinality(P \cup {w})
    BY <2>1, <2>2, FS_Subset
  <2>4. Cardinality(Q) <= Cardinality(P) + 1
    BY <1>2, <2>2, <2>3
  <2> QED BY <1>1, <1>2, <1>3, <1>9, <2>4
<1>10. CASE \E w \in P :
             /\ dlv'[i].posts \in {dlv[i].posts, dlv[i].posts + 1}
             /\ dlv'[i].attempts = dlv[i].attempts /\ dlv'[i].retries = dlv[i].retries
             /\ Q \subseteq P \ {w}
  <2>1. PICK w \in P : Q \subseteq P \ {w}
    BY <1>10
  <2> HIDE DEF P, Q
  <2>2. IsFiniteSet(P \ {w}) /\ Cardinality(P \ {w}) = Cardinality(P) - 1
    BY <1>2, <2>1, FS_RemoveElement
  <2>3. Cardinality(Q) <= Cardinality(P \ {w})
    BY <2>1, <2>2, FS_Subset
  <2>4. Cardinality(Q) <= Cardinality(P) - 1
    BY <1>2, <2>2, <2>3
  <2> QED BY <1>1, <1>2, <1>3, <1>10, <2>4
<1> QED BY <1>6, <1>7, <1>8, <1>9, <1>10 DEF CountsStep

LEMMA RenewedCounts ==
  ASSUME NEW i \in Deliveries, dlv[i] \in DeliveryRows
  PROVE  /\ Renewed(i).posts = dlv[i].posts /\ Renewed(i).attempts = 0
         /\ Renewed(i).retries = dlv[i].retries + 1
BY Zenon DEF Renewed, DeliveryRows

LEMMA NextCounts ==
  ASSUME Inv, [Next]_vars, NEW i \in Deliveries
  PROVE  CountsStep(i)
<1>0. /\ dlv[i] \in DeliveryRows /\ wk \in [Workers -> WorkerRows]
      /\ dlv \in [Deliveries -> DeliveryRows]
  BY DEF Inv, TypeOK, WorkerRows
<1>1. ASSUME UNCHANGED <<dlv, wk>> PROVE CountsStep(i)
  BY <1>1 DEF CountsStep, SameCounts, Posting
<1>2. ASSUME NEW N, Enqueue(N), UNCHANGED wk PROVE CountsStep(i)
  <2>1. changes \in Nat /\ (i[2] = changes + 1 => dlv[i].status = "none")
    BY LogoutAssumption, DeliveryParts DEF Inv, TypeOK, DeliveriesNamed
  <2>2. dlv'[i] = dlv[i] \/ (dlv[i].status = "none" /\ dlv'[i] = NewDelivery)
    BY <1>2, <2>1 DEF Enqueue
  <2> QED BY <1>2, <2>2 DEF CountsStep, SameCounts, Posting
<1>3. ASSUME SameCounts(dlv'[i], dlv[i]),
             \A w \in Workers : wk'[w].pc = "claimed" => wk[w].pc = "claimed" /\ wk[w].d = wk'[w].d
      PROVE  CountsStep(i)
  BY <1>3 DEF CountsStep, Posting
<1>4. CASE Respond \/ UNCHANGED vars
  BY <1>1, <1>4 DEF Respond, RecordIssuedToken, EnsureClientSession, vars
<1>5. CASE Administration
  <2>1. ASSUME NEW S \in SUBSET Sessions, RevokeSessions(S) PROVE CountsStep(i)
    BY <1>2, <2>1 DEF RevokeSessions
  <2>2. ASSUME NEW c \in Clients, RevokeUserClientAccess(c) PROVE CountsStep(i)
    BY <1>2, <2>2 DEF RevokeUserClientAccess
  <2>3. ASSUME NEW c \in Clients, NEW on \in BOOLEAN, SetAccess(c, on) PROVE CountsStep(i)
    BY <1>2, <2>3 DEF SetAccess, RevokeLost
  <2>4. ASSUME NEW c \in Clients, AccessLapses(c) PROVE CountsStep(i)
    BY <1>1, <2>4 DEF AccessLapses
  <2>5. ASSUME NEW c \in Clients, NEW enabled \in BOOLEAN, NEW uri \in BOOLEAN,
               UpdateOAuthClient(c, enabled, uri)
        PROVE  CountsStep(i)
    BY <1>1, <2>5 DEF UpdateOAuthClient
  <2>6. ASSUME NEW c \in Clients, DeleteOAuthClient(c) PROVE CountsStep(i)
    <3>1. SameCounts(DroppedRow(i), dlv[i])
      BY <1>0, Zenon DEF SameCounts, DroppedRow, DeliveryRows
    <3>2. dlv'[i] = dlv[i] \/ dlv'[i] = DroppedRow(i)
      BY <2>6 DEF DeleteOAuthClient
    <3> QED BY <1>3, <2>6, <3>1, <3>2 DEF DeleteOAuthClient, SameCounts
  <2>7. ASSUME NEW d \in Deliveries, RetryLogoutDeliveryNow(d) PROVE CountsStep(i)
    <3>1. dlv'[i] = dlv[i] \/ dlv'[i] = Renewed(i)
      BY <1>0, <2>7 DEF RetryLogoutDeliveryNow
    <3>2. UNCHANGED wk
      BY <2>7 DEF RetryLogoutDeliveryNow
    <3> QED BY <1>0, <3>1, <3>2, RenewedCounts DEF CountsStep, SameCounts, Posting
  <2>8. CASE ApplyRestoredState
    <3>1. \/ dlv'[i] = NewDelivery /\ i[2] = changes + 1
          \/ dlv'[i] = Renewed(i)
          \/ dlv'[i] = dlv[i]
      BY <2>8 DEF ApplyRestoredState
    <3>2. changes \in Nat /\ (i[2] = changes + 1 => dlv[i].status = "none")
      BY LogoutAssumption, DeliveryParts DEF Inv, TypeOK, DeliveriesNamed
    <3>3. Posting(i)' = {}
      BY <2>8, RowTypes DEF ApplyRestoredState, Posting
    <3> QED BY <1>0, <3>1, <3>2, <3>3, RenewedCounts DEF CountsStep, SameCounts
  <2> QED BY <1>5, <2>1, <2>2, <2>3, <2>4, <2>5, <2>6, <2>7, <2>8 DEF Administration
<1>6. ASSUME NEW w \in Workers, ClaimLogoutDelivery(w) PROVE CountsStep(i)
  <2>1. PICK d \in Deliveries :
           /\ Due(d)
           /\ dlv' = [j \in Deliveries |->
                        IF j = d THEN Claimed(d, w)
                        ELSE IF Interrupted(j) THEN FailedRow(j) ELSE dlv[j]]
           /\ wk' = [wk EXCEPT ![w] = [pc |-> "claimed", d |-> d, attempts |-> dlv[d].attempts + 1,
                                       uri |-> client[sid[d[1]].client].uri, ok |-> FALSE]]
    BY <1>6 DEF ClaimLogoutDelivery
  <2>2. Posting(i)' \subseteq Posting(i) \cup (IF i = d THEN {w} ELSE {})
    BY <1>0, <2>1 DEF Posting
  <2>3. CASE i = d
    <3>1. /\ Claimed(i, w).posts = dlv[i].posts /\ Claimed(i, w).retries = dlv[i].retries
          /\ Claimed(i, w).attempts = dlv[i].attempts + 1
      BY <1>0, Zenon DEF Claimed, DeliveryRows
    <3> QED BY <2>1, <2>2, <2>3, <3>1 DEF CountsStep, Due
  <2>4. CASE i # d
    <3>1. SameCounts(FailedRow(i), dlv[i])
      BY <1>0, Zenon DEF SameCounts, FailedRow, DeliveryRows
    <3>2. dlv'[i] = dlv[i] \/ dlv'[i] = FailedRow(i)
      BY <2>1, <2>4
    <3> QED BY <2>2, <2>4, <3>1, <3>2 DEF CountsStep, SameCounts
  <2> QED BY <2>3, <2>4
<1>7. ASSUME NEW w \in Workers, NEW accepted \in BOOLEAN, NEW ok \in BOOLEAN, PostLogout(w, accepted, ok)
      PROVE  CountsStep(i)
  <2>1. wk[w].pc = "claimed" /\ wk[w].d \in Deliveries
    BY <1>7 DEF PostLogout, Inv, WorkersNamed
  <2>2. wk'[w].pc = "answered" /\ \A v \in Workers : v # w => wk'[v] = wk[v]
    BY <1>0, <1>7 DEF PostLogout, WorkerRows
  <2>3. CASE i = wk[w].d
    <3>1. /\ dlv'[i].posts \in {dlv[i].posts, dlv[i].posts + 1}
          /\ dlv'[i].attempts = dlv[i].attempts /\ dlv'[i].retries = dlv[i].retries
      BY <1>0, <1>7, <2>1, <2>3 DEF PostLogout, DeliveryRows
    <3>2. w \in Posting(i) /\ Posting(i)' \subseteq Posting(i) \ {w}
      BY <2>1, <2>2, <2>3 DEF Posting
    <3> QED BY <3>1, <3>2 DEF CountsStep
  <2>4. CASE i # wk[w].d
    <3>1. dlv'[i] = dlv[i]
      BY <1>0, <1>7, <2>1, <2>4 DEF PostLogout
    <3>2. Posting(i)' \subseteq Posting(i)
      BY <2>2 DEF Posting
    <3> QED BY <3>1, <3>2 DEF CountsStep, SameCounts
  <2> QED BY <2>3, <2>4
<1>8. ASSUME NEW w \in Workers, FinishLogoutDelivery(w) PROVE CountsStep(i)
  <2>1. SameCounts(Recorded(i, wk[w].ok, wk[w].attempts), dlv[i])
    BY <1>0, Zenon DEF SameCounts, Recorded, DeliveryRows
  <2>2. dlv'[i] = dlv[i] \/ dlv'[i] = Recorded(i, wk[w].ok, wk[w].attempts)
    <3>1. wk[w].d \in Deliveries
      BY <1>8 DEF FinishLogoutDelivery, Inv, WorkersNamed
    <3> QED BY <1>0, <1>8, <3>1 DEF FinishLogoutDelivery
  <2>3. \A v \in Workers : wk'[v].pc = "claimed" => wk'[v] = wk[v]
    BY <1>0, <1>8, RowTypes DEF FinishLogoutDelivery
  <2> QED BY <1>3, <2>1, <2>2, <2>3 DEF SameCounts
<1>9. CASE Clock
  <2>1. ASSUME NEW d \in Deliveries,
               LeaseExpires(d) \/ BackoffEnds(d) \/ DeleteLogoutDeliveriesOlderThan(d)
        PROVE  CountsStep(i)
    <3>1. UNCHANGED wk
      BY <2>1 DEF LeaseExpires, BackoffEnds, DeleteLogoutDeliveriesOlderThan
    <3>2. SameCounts(dlv'[i], dlv[i])
      BY <1>0, <2>1 DEF LeaseExpires, BackoffEnds, DeleteLogoutDeliveriesOlderThan, SameCounts, DeliveryRows
    <3> QED BY <1>3, <3>1, <3>2
  <2> QED BY <1>1, <1>9, <2>1 DEF Clock, SessionExpires, CleanupExpiredSessions
<1>10. CASE Crash
  BY <1>3, <1>10, RowTypes DEF Crash, SameCounts
<1> QED BY <1>4, <1>5, <1>6, <1>7, <1>8, <1>9, <1>10 DEF Next, Worker

\* A receiver gets at most a budget's worth of tokens for each time the budget was given:
\* the attempt is counted in the claim, so a worker that stops or overruns its lease has
\* already paid for what it posts.
THEOREM PostsWithinBudget == Spec => []PostsBounded
<1> DEFINE IInv == Inv /\ \A i \in Deliveries : WithinBudget(i)
<1>1. Init => IInv
  <2> SUFFICES ASSUME Init, NEW i \in Deliveries PROVE WithinBudget(i)
    BY InitInv
  <2>1. Posting(i) = {}
    BY RowTypes DEF Init, Posting
  <2>2. dlv[i].attempts = 0 /\ dlv[i].posts = 0 /\ dlv[i].retries = 0
    BY DEF Init, NoDelivery
  <2>3. Cardinality(Posting(i)) = 0
    BY <2>1, FS_EmptySet
  <2> QED BY <2>2, <2>3, LogoutAssumption DEF WithinBudget
<1>2. IInv /\ [Next]_vars => IInv'
  BY NextInv, NextCounts, CountsKept
<1>3. IInv => PostsBounded
  <2> SUFFICES ASSUME Inv, NEW i \in Deliveries, WithinBudget(i)
               PROVE  dlv[i].posts <= Budget * (dlv[i].retries + 1)
    BY DEF PostsBounded
  <2>1. /\ dlv[i].posts \in Nat /\ dlv[i].attempts \in Nat /\ dlv[i].retries \in Nat /\ Budget \in Nat
    BY LogoutAssumption DEF Inv, TypeOK, DeliveryRows
  <2>2. Cardinality(Posting(i)) \in Nat
    <3>1. Posting(i) \in SUBSET Workers
      BY DEF Posting
    <3>2. IsFiniteSet(Posting(i))
      BY <3>1, FS_Subset, LogoutAssumption
    <3> QED BY <3>2, FS_CardinalityType
  <2>3. Budget * (dlv[i].retries + 1) = Budget * dlv[i].retries + Budget
        /\ Budget * dlv[i].retries \in Nat
    BY <2>1
  <2> QED BY <2>1, <2>2, <2>3 DEF WithinBudget
<1> QED BY <1>1, <1>2, <1>3, PTL DEF Spec

-----------------------------------------------------------------------------
(* Authorization.                                                           *)

\* Sign-ins are numbered as they begin, and one that is proved is somebody's.
Numbered ==
    /\ \A l, k \in Logins : login[l].st = "none" /\ l <= k => login[k].st = "none"
    /\ \A l \in Logins : login[l].st = "proved" =>
          login[l].user \in Users /\ (login[l].i # 0 => inter[login[l].i].st # "none")

\* A live session is somebody's, of a sign-in that is done and of no other session.
SessionsFinished ==
    /\ \A s \in Logins : sessions[s].live =>
          /\ sessions[s].user \in Users /\ sessions[s].ev.login \in Logins
          /\ login[s].st = "done" /\ login[sessions[s].ev.login].st = "done"
    /\ \A s, t \in Logins : sessions[s].live /\ sessions[t].live /\ s # t =>
          sessions[s].ev.login # sessions[t].ev.login
    /\ \A l \in answered : login[l].st = "done"

\* An interaction comes before the sign-ins that may answer it, and is of the account that
\* was signed in there.
Begun ==
    \A i \in Live :
        /\ \A l \in Logins : login[l].st = "none" \/ (login[l].st = "proved" /\ login[l].i = i) =>
              inter[i].after < l
        /\ inter[i].orig # 0 =>
              /\ login[inter[i].orig].st = "done"
              /\ sessions[inter[i].orig].live => sessions[inter[i].orig].user = inter[i].user

\* A completed one is of a live session of its account, the one it began in if there was one;
\* while it can be used, the session's sign-in is a later one that has answered nothing.
Answered(i) ==
    LET s == inter[i].sess
    IN  /\ sessions[s].live /\ sessions[s].user = inter[i].user
        /\ inter[i].orig # 0 => inter[i].orig = s
        /\ inter[i].exp > now =>
              sessions[s].ev.login > inter[i].after /\ sessions[s].ev.login \notin answered

Completed ==
    /\ \A i \in Live : inter[i].sess # 0 => Answered(i)
    /\ \A i, j \in Live : i # j /\ inter[i].sess # 0 /\ inter[i].sess = inter[j].sess =>
          ~(inter[i].exp > now /\ inter[j].exp > now)

\* What a request in hand has read: the interaction was completed in its session, and while it
\* can be used the evidence is the session's.
InHand(H) ==
    /\ H.s \in Logins /\ login[H.s].st = "done"
    /\ H.i # 0 => /\ inter[H.i].st # "none"
                  /\ inter[H.i].st = "live" => inter[H.i].sess = H.s /\ inter[H.i].by = H.by
    /\ H.pc = "commit" =>
          /\ H.ask.fresh => H.i # 0
          /\ H.ev.login \in Logins /\ login[H.ev.login].st = "done"
          /\ H.i # 0 /\ inter[H.i].st = "live" /\ inter[H.i].exp > now => H.ev = sessions[H.s].ev

HandsFit == \A h \in Handlers : hnd[h].pc # "idle" => InHand(hnd[h])

Order == Numbered /\ SessionsFinished /\ Begun /\ Completed /\ HandsFit
AuthInv == AuthTypes /\ Order /\ CodeMeetsPolicy

-----------------------------------------------------------------------------
(* Types.                                                                   *)

Interaction == [st : {"none", "live", "gone"}, by : Browsers, user : Users \cup {NoUser},
                orig : Logins \cup {0}, sess : Logins \cup {0}, made : Times, exp : 0..MaxTime + TTL,
                ask : Asks \cup {NoAsk}, after : 0..MaxLogins]
SessionRow == [live : BOOLEAN, user : Users \cup {NoUser}, ev : Evidence]
LoginRow == [st : {"none", "proved", "done"}, by : Browsers, user : Users \cup {NoUser},
             i : Interactions \cup {0}, primary : Times]
HandRow == [pc : {"idle", "mint", "commit"}, by : Browsers, ask : Asks \cup {NoAsk},
            i : Interactions \cup {0}, s : Logins \cup {0}, ev : Evidence]
Code == [sess : Logins, ev : Evidence, fresh : BOOLEAN, at : Times]

\* AuthTypes, with its sets named.
LEMMA TypesByName ==
    AuthTypes <=> /\ policy \in Policies
                  /\ inter \in [Interactions -> Interaction]
                  /\ sessions \in [Logins -> SessionRow]
                  /\ cookie \in [Browsers -> Logins \cup {0}]
                  /\ login \in [Logins -> LoginRow]
                  /\ hnd \in [Handlers -> HandRow]
                  /\ codes \subseteq Code /\ answered \subseteq Logins
                  /\ now \in Times /\ edits \in 0..MaxEdits
  BY DEF AuthTypes, Interaction, SessionRow, LoginRow, HandRow, Code

\* The same of the next state.
LEMMA TypesByNameNext ==
    AuthTypes' <=> /\ policy' \in Policies
                   /\ inter' \in [Interactions -> Interaction]
                   /\ sessions' \in [Logins -> SessionRow]
                   /\ cookie' \in [Browsers -> Logins \cup {0}]
                   /\ login' \in [Logins -> LoginRow]
                   /\ hnd' \in [Handlers -> HandRow]
                   /\ codes' \subseteq Code /\ answered' \subseteq Logins
                   /\ now' \in Times /\ edits' \in 0..MaxEdits
  BY DEF AuthTypes, Interaction, SessionRow, LoginRow, HandRow, Code

\* The bounds are naturals.
LEMMA Bounds ==
    /\ MaxTabs \in Nat /\ MaxTotal \in Nat /\ TTL \in Nat /\ MaxTime \in Nat /\ MaxInteractions \in Nat
    /\ MaxLogins \in Nat /\ MaxCodes \in Nat /\ MaxEdits \in Nat /\ 1 <= MaxLogins
    /\ \A l \in Logins : l \in Nat /\ l # 0
    /\ \A i \in Interactions : i \in Nat /\ i # 0
    /\ \A t \in Times : t \in Nat
  BY AuthorizationAssumption DEF Logins, Interactions, Times

\* The rows that stand for nothing.
LEMMA EmptyRows ==
    /\ NoEvidence \in Evidence
    /\ NoInteraction \in Interaction /\ NoInteraction.st = "none"
    /\ Deleted \in Interaction /\ Deleted.st = "gone"
    /\ NoSess \in SessionRow /\ NoSess.live = FALSE
    /\ NoLogin \in LoginRow /\ NoLogin.st = "none"
    /\ [NoLogin EXCEPT !.st = "done"] \in LoginRow /\ [NoLogin EXCEPT !.st = "done"].st = "done"
    /\ Idle \in HandRow /\ Idle.pc = "idle"
<1>1. (CHOOSE b \in Browsers : TRUE) \in Browsers
  BY AuthorizationAssumption
<1>2. 0 \in Times /\ 0 \in 0..MaxTime + TTL /\ 0 \in 0..MaxLogins
  BY Bounds DEF Times
<1>3. NoEvidence \in Evidence
  BY <1>2 DEF NoEvidence, Evidence, Methods
<1>4. /\ NoInteraction \in Interaction /\ NoInteraction.st = "none"
      /\ Deleted \in Interaction /\ Deleted.st = "gone"
  BY <1>1, <1>2 DEF NoInteraction, Deleted, Interaction
<1>5. NoSess \in SessionRow /\ NoSess.live = FALSE
  BY <1>3 DEF NoSess, SessionRow
<1>6. /\ NoLogin \in LoginRow /\ NoLogin.st = "none"
      /\ [NoLogin EXCEPT !.st = "done"] \in LoginRow /\ [NoLogin EXCEPT !.st = "done"].st = "done"
  BY <1>1, <1>2 DEF NoLogin, LoginRow
<1>7. Idle \in HandRow /\ Idle.pc = "idle"
  BY <1>1, <1>3 DEF Idle, HandRow
<1> QED
  BY <1>3, <1>4, <1>5, <1>6, <1>7

\* The session of a browser is a live one.
LEMMA SessionOfLive ==
    ASSUME NEW b \in Browsers, SessionOf(b) # 0
    PROVE  SessionOf(b) \in Logins /\ sessions[SessionOf(b)].live
<1>1. \E s \in Logins : sessions[s].live /\ sessions[s].ev.login = cookie[b]
  BY DEF SessionOf
<1>2. SessionOf(b) = CHOOSE s \in Logins : sessions[s].live /\ sessions[s].ev.login = cookie[b]
  BY <1>1 DEF SessionOf
<1> QED
  BY <1>1, <1>2

-----------------------------------------------------------------------------
(* Steps that only end things.                                              *)

\* Interactions end, sessions end, a sign-in under way ends, requests in hand are dropped, time
\* passes; the session of what is left stays as it is, and a sign-in that answers a request now
\* is of no interaction that is left.
Ends ==
    /\ inter' \in [Interactions -> Interaction]
    /\ \A i \in Interactions : inter'[i] = inter[i] \/ (inter'[i].st = "gone" /\ inter[i].st = "live")
    /\ \A s \in Logins : sessions'[s] = sessions[s] \/ ~sessions'[s].live
    /\ \A l \in Logins : login'[l] = login[l] \/ (login[l].st = "proved" /\ login'[l].st = "done")
    /\ \A h \in Handlers : hnd'[h] = hnd[h] \/ hnd'[h].pc = "idle"
    /\ \A i \in Interactions : inter'[i].st = "live" /\ inter'[i].sess # 0 =>
          sessions'[inter'[i].sess] = sessions[inter'[i].sess]
    /\ answered' \subseteq answered \cup {l \in Logins : login'[l].st = "done"}
    /\ \A i \in Interactions : inter'[i].st = "live" /\ inter'[i].sess # 0 /\ inter'[i].exp > now' =>
          sessions'[inter'[i].sess].ev.login \notin answered' \ answered
    /\ now' \in Times /\ now <= now'

\* Such a step keeps the order.
LEMMA EndsOrder ==
    ASSUME AuthTypes, Order, Ends
    PROVE  Order'
<1>1. /\ \A i \in Live' : i \in Live /\ inter'[i] = inter[i]
      /\ \A i \in Interactions : inter[i].st # "none" => inter'[i].st # "none"
  BY DEF Ends, Live
<1>2. \A s \in Logins : sessions'[s].live => sessions'[s] = sessions[s]
  BY DEF Ends
<1>3. \A l \in Logins : /\ login[l].st = "done" => login'[l].st = "done"
                        /\ login'[l].st = "proved" => login'[l] = login[l]
                        /\ login'[l].st = "none" <=> login[l].st = "none"
  BY DEF Ends
<1>4. now \in Nat /\ now' \in Nat /\ now <= now'
  BY Bounds DEF Ends, AuthTypes
<1>5. \A i \in Interactions : inter[i].exp \in Nat
  BY Bounds DEF AuthTypes
<1>6. Numbered'
  BY <1>1, <1>3 DEF Order, Numbered, AuthTypes
<1>7. SessionsFinished'
  BY <1>2, <1>3 DEF Order, SessionsFinished, Ends, AuthTypes
<1>8. Begun'
  <2> SUFFICES ASSUME NEW i \in Live'
               PROVE  /\ \A l \in Logins : login'[l].st = "none" \/ (login'[l].st = "proved" /\ login'[l].i = i) =>
                            inter'[i].after < l
                      /\ inter'[i].orig # 0 =>
                            /\ login'[inter'[i].orig].st = "done"
                            /\ sessions'[inter'[i].orig].live => sessions'[inter'[i].orig].user = inter'[i].user
    BY DEF Begun
  <2>1. i \in Live /\ inter'[i] = inter[i] /\ inter[i].orig \in Logins \cup {0}
    BY <1>1 DEF AuthTypes, Live
  <2>2. \A l \in Logins : login[l].st = "none" \/ (login[l].st = "proved" /\ login[l].i = i) => inter[i].after < l
    BY <2>1 DEF Order, Begun
  <2>3. inter[i].orig # 0 =>
          /\ login[inter[i].orig].st = "done"
          /\ sessions[inter[i].orig].live => sessions[inter[i].orig].user = inter[i].user
    BY <2>1 DEF Order, Begun
  <2> QED
    BY <1>2, <1>3, <2>1, <2>2, <2>3
<1>9. \A i \in Live' : inter'[i].exp > now' => inter[i].exp > now
  BY <1>1, <1>4, <1>5 DEF Live
<1>10. ASSUME NEW i \in Live', inter'[i].sess # 0 PROVE Answered(i)'
  <2>1. i \in Live /\ inter'[i] = inter[i] /\ Answered(i)
    BY <1>1, <1>10 DEF Order, Completed
  <2>2. sessions'[inter'[i].sess] = sessions[inter[i].sess]
    BY <1>10, <2>1 DEF Ends, Live
  <2>3. inter'[i].exp > now' => sessions'[inter'[i].sess].ev.login \notin answered' \ answered
    BY <1>10 DEF Ends, Live
  <2> QED
    BY <1>9, <2>1, <2>2, <2>3 DEF Answered
<1>11. Completed'
  BY <1>1, <1>9, <1>10 DEF Order, Completed
<1>12. ASSUME NEW h \in Handlers, hnd'[h].pc # "idle" PROVE InHand(hnd[h])'
  <2>1. hnd'[h] = hnd[h] /\ InHand(hnd[h])
    BY <1>12 DEF Ends, Order, HandsFit
  <2>2. hnd[h].i \in Interactions \cup {0} /\ hnd[h].s \in Logins
    BY <2>1 DEF AuthTypes, InHand
  <2>3. hnd[h].i # 0 =>
          /\ inter'[hnd[h].i].st # "none"
          /\ inter'[hnd[h].i].st = "live" => hnd[h].i \in Live' /\ inter'[hnd[h].i] = inter[hnd[h].i]
    BY <1>1, <2>1, <2>2 DEF InHand, Live
  <2>4. hnd[h].i # 0 /\ inter'[hnd[h].i].st = "live" =>
          inter[hnd[h].i].sess = hnd[h].s /\ sessions'[hnd[h].s] = sessions[hnd[h].s]
    <3>1. SUFFICES ASSUME hnd[h].i # 0, inter'[hnd[h].i].st = "live"
                   PROVE  inter[hnd[h].i].sess = hnd[h].s /\ sessions'[hnd[h].s] = sessions[hnd[h].s]
      OBVIOUS
    <3>2. inter'[hnd[h].i].sess = hnd[h].s /\ inter[hnd[h].i].sess = hnd[h].s /\ hnd[h].s # 0
      BY <2>1, <2>2, <2>3, <3>1, Bounds DEF InHand
    <3> QED
      BY <2>2, <3>1, <3>2 DEF Ends
  <2> QED
    BY <1>3, <1>9, <2>1, <2>2, <2>3, <2>4 DEF InHand
<1>13. HandsFit'
  BY <1>12 DEF HandsFit
<1> QED
  BY <1>6, <1>7, <1>8, <1>11, <1>13 DEF Order

\* The types, one element at a time.
LEMMA Elements ==
    ASSUME AuthTypes
    PROVE  /\ \A i \in Interactions : inter[i] \in Interaction
           /\ \A s \in Logins : sessions[s] \in SessionRow
           /\ \A l \in Logins : login[l] \in LoginRow
           /\ \A h \in Handlers : hnd[h] \in HandRow
           /\ now \in Times /\ now \in Nat /\ \A i \in Interactions : inter[i].exp \in Nat
  BY TypesByName, Bounds DEF Interaction

\* Deleting interactions deletes live ones.
LEMMA WithoutEnds ==
    ASSUME AuthTypes, NEW I
    PROVE  /\ Without(I) \in [Interactions -> Interaction]
           /\ \A i \in Interactions : /\ i \in I \cap Live => Without(I)[i].st = "gone" /\ inter[i].st = "live"
                                      /\ i \notin I \cap Live => Without(I)[i] = inter[i]
  BY EmptyRows, Elements DEF Without, Live

\* A request in hand is dropped.
LEMMA RestEnds ==
    ASSUME AuthTypes, NEW h \in Handlers, Rest(h)
    PROVE  /\ hnd' \in [Handlers -> HandRow]
           /\ \A k \in Handlers : hnd'[k] = hnd[k] \/ hnd'[k].pc = "idle"
  BY TypesByName, EmptyRows DEF Rest

\* Nothing of the sessions and sign-ins changes.
LEMMA SameSessions ==
    ASSUME AuthTypes, Order, UNCHANGED <<sessions, login, answered, now>>,
           inter' \in [Interactions -> Interaction],
           \A i \in Interactions : inter'[i] = inter[i] \/ (inter'[i].st = "gone" /\ inter[i].st = "live"),
           \A h \in Handlers : hnd'[h] = hnd[h] \/ hnd'[h].pc = "idle"
    PROVE  Order'
<1>1. now' \in Times /\ now <= now'
  BY Elements
<1>2. Ends
  BY <1>1 DEF Ends
<1> QED
  BY <1>2, EndsOrder

\* A code that is exchanged or lapses leaves the rest (CodeEnds).
LEMMA CodeEndsOk ==
    ASSUME AuthTypes, Order, NEW c \in codes, CodeEnds(c)
    PROVE  AuthTypes' /\ Order'
<1>1. codes' \subseteq codes /\ UNCHANGED <<policy, inter, sessions, cookie, login, hnd, answered, now, edits>>
  BY DEF CodeEnds
<1>2. AuthTypes'
  BY <1>1, TypesByName, TypesByNameNext
<1> QED
  BY <1>1, <1>2, TypesByName, SameSessions

\* A cancelled interaction is deleted (CancelInteraction).
LEMMA CancelOk ==
    ASSUME AuthTypes, Order, NEW b \in Browsers, NEW i \in Interactions, CancelInteraction(b, i)
    PROVE  AuthTypes' /\ Order'
<1>1. inter' = Without({i}) /\ UNCHANGED <<policy, sessions, cookie, login, hnd, codes, answered, now, edits>>
  BY DEF CancelInteraction
<1>2. /\ inter' \in [Interactions -> Interaction]
      /\ \A j \in Interactions : inter'[j] = inter[j] \/ (inter'[j].st = "gone" /\ inter[j].st = "live")
  BY <1>1, WithoutEnds
<1>3. AuthTypes'
  BY <1>1, <1>2, TypesByName, TypesByNameNext
<1> QED
  BY <1>1, <1>2, <1>3, SameSessions

\* A new policy deletes every interaction (SetAppAuthenticationPolicy).
LEMMA PolicyOk ==
    ASSUME AuthTypes, Order, NEW p \in Policies, SetAppAuthenticationPolicy(p)
    PROVE  AuthTypes' /\ Order'
<1>1. /\ inter' = Without(Live) /\ codes' = {} /\ policy' = p /\ edits < MaxEdits /\ edits' = edits + 1
      /\ UNCHANGED <<sessions, cookie, login, hnd, answered, now>>
  BY DEF SetAppAuthenticationPolicy, Edit
<1>2. /\ inter' \in [Interactions -> Interaction]
      /\ \A j \in Interactions : inter'[j] = inter[j] \/ (inter'[j].st = "gone" /\ inter[j].st = "live")
  BY <1>1, WithoutEnds
<1>3. edits' \in 0..MaxEdits
  BY <1>1, TypesByName, Bounds
<1>4. AuthTypes'
  BY <1>1, <1>2, <1>3, TypesByName, TypesByNameNext
<1> QED
  BY <1>1, <1>2, <1>4, SameSessions

\* Time only takes interactions out of use (Tick).
LEMMA AuthTickOk == ASSUME AuthTypes, Order, Tick PROVE AuthTypes' /\ Order'
<1>1. /\ now' = now + 1 /\ now < MaxTime
      /\ UNCHANGED <<policy, inter, sessions, cookie, login, hnd, codes, answered, edits>>
  BY DEF Tick
<1>2. now' \in Times /\ now <= now'
  BY <1>1, Bounds, Elements DEF Times
<1>3. Ends
  BY <1>1, <1>2, TypesByName DEF Ends
<1>4. AuthTypes'
  BY <1>1, <1>2, TypesByName, TypesByNameNext
<1> QED
  BY <1>3, <1>4, EndsOrder

\* Ended sessions take what they answered with them.
LEMMA SessionsEnd ==
    ASSUME AuthTypes, NEW S, EndSessions(S)
    PROVE  /\ sessions' \in [Logins -> SessionRow] /\ codes' \subseteq codes
           /\ \A s \in Logins : /\ s \in S => ~sessions'[s].live
                                /\ s \notin S => sessions'[s] = sessions[s]
  BY EmptyRows, Elements DEF EndSessions

\* A session that ends takes what it answered with it (RevokeSession).
LEMMA SignOutOk ==
    ASSUME AuthTypes, Order, NEW b \in Browsers, SignOut(b)
    PROVE  AuthTypes' /\ Order'
<1> DEFINE s == SessionOf(b)
           I == {i \in Live : inter[i].sess = s}
<1>1. /\ s # 0 /\ EndSessions({s}) /\ inter' = Without(I)
      /\ cookie' = [cookie EXCEPT ![b] = 0]
      /\ UNCHANGED <<policy, login, hnd, answered, now, edits>>
  BY DEF SignOut
<1> HIDE DEF s
<1>2. /\ inter' \in [Interactions -> Interaction]
      /\ \A i \in Interactions : /\ i \in I \cap Live => inter'[i].st = "gone" /\ inter[i].st = "live"
                                 /\ i \notin I \cap Live => inter'[i] = inter[i]
  BY <1>1, WithoutEnds
<1>3. /\ sessions' \in [Logins -> SessionRow] /\ codes' \subseteq codes
      /\ \A t \in Logins : (t = s => ~sessions'[t].live) /\ (t # s => sessions'[t] = sessions[t])
  BY <1>1, SessionsEnd
<1>4. ASSUME NEW i \in Interactions, inter'[i].st = "live", inter'[i].sess # 0
      PROVE  sessions'[inter'[i].sess] = sessions[inter'[i].sess]
  <2>1. inter'[i] = inter[i] /\ i \in Live /\ inter[i].sess # s
    BY <1>2, <1>4 DEF Live
  <2>2. inter[i].sess \in Logins
    BY <1>4, <2>1, Elements DEF Interaction
  <2> QED
    BY <1>3, <2>1, <2>2
<1>5. now' \in Times /\ now <= now'
  BY <1>1, Elements
<1>6. Ends
  <2>1. /\ \A i \in Interactions : inter'[i] = inter[i] \/ (inter'[i].st = "gone" /\ inter[i].st = "live")
        /\ \A t \in Logins : sessions'[t] = sessions[t] \/ ~sessions'[t].live
    BY <1>2, <1>3
  <2> QED
    BY <1>1, <1>2, <1>4, <1>5, <2>1 DEF Ends
<1>7. cookie' \in [Browsers -> Logins \cup {0}]
  BY <1>1, TypesByName
<1>8. AuthTypes'
  BY <1>1, <1>2, <1>3, <1>7, TypesByName, TypesByNameNext
<1> QED
  BY <1>6, <1>8, EndsOrder

\* The sessions, and the sign-ins still waiting for a factor, of an account.
LEMMA RevokeOk ==
    ASSUME AuthTypes, Order, NEW u \in Users, RevokeUserAccess(u)
    PROVE  AuthTypes' /\ Order'
<1> DEFINE S == {s \in Logins : sessions[s].live /\ sessions[s].user = u}
           I == {i \in Live : inter[i].user = u}
<1>1. /\ edits < MaxEdits /\ edits' = edits + 1 /\ EndSessions(S) /\ inter' = Without(I)
      /\ UNCHANGED <<policy, cookie, hnd, answered, now>>
  BY DEF RevokeUserAccess, Edit
<1>2. PICK spent \in SUBSET {l \in Logins : login[l].st = "proved" /\ login[l].user = u} :
         login' = [l \in Logins |-> IF l \in spent THEN [NoLogin EXCEPT !.st = "done"] ELSE login[l]]
  BY DEF RevokeUserAccess
<1>3. /\ login' \in [Logins -> LoginRow]
      /\ \A l \in Logins : login'[l] = login[l] \/ (login[l].st = "proved" /\ login'[l].st = "done")
  BY <1>2, EmptyRows, Elements
<1>4. /\ inter' \in [Interactions -> Interaction]
      /\ \A i \in Interactions : /\ i \in I \cap Live => inter'[i].st = "gone" /\ inter[i].st = "live"
                                 /\ i \notin I \cap Live => inter'[i] = inter[i]
  BY <1>1, WithoutEnds
<1>5. /\ sessions' \in [Logins -> SessionRow] /\ codes' \subseteq codes
      /\ \A t \in Logins : (t \in S => ~sessions'[t].live) /\ (t \notin S => sessions'[t] = sessions[t])
  BY <1>1, SessionsEnd
<1>6. ASSUME NEW i \in Interactions, inter'[i].st = "live", inter'[i].sess # 0
      PROVE  sessions'[inter'[i].sess] = sessions[inter'[i].sess]
  <2>1. inter'[i] = inter[i] /\ i \in Live /\ inter[i].user # u
    BY <1>4, <1>6 DEF Live
  <2>2. inter[i].sess \in Logins
    BY <1>6, <2>1, Elements DEF Interaction
  <2>3. sessions[inter[i].sess].user = inter[i].user
    BY <1>6, <2>1 DEF Order, Completed, Answered
  <2> QED
    BY <1>5, <2>1, <2>2, <2>3
<1>7. now' \in Times /\ now <= now' /\ edits' \in 0..MaxEdits
  BY <1>1, Elements, TypesByName, Bounds
<1>8. Ends
  <2>1. /\ \A i \in Interactions : inter'[i] = inter[i] \/ (inter'[i].st = "gone" /\ inter[i].st = "live")
        /\ \A t \in Logins : sessions'[t] = sessions[t] \/ ~sessions'[t].live
    BY <1>4, <1>5
  <2> QED
    BY <1>1, <1>3, <1>4, <1>6, <1>7, <2>1 DEF Ends
<1>9. AuthTypes'
  BY <1>1, <1>3, <1>4, <1>5, <1>7, TypesByName, TypesByNameNext
<1> QED
  BY <1>8, <1>9, EndsOrder

-----------------------------------------------------------------------------
(* Requests in hand.                                                        *)

\* A request moves on and nothing else does.
LEMMA HandMoves ==
    ASSUME AuthTypes, Order, NEW h \in Handlers, NEW H \in HandRow, InHand(H),
           hnd' = [hnd EXCEPT ![h] = H],
           UNCHANGED <<policy, inter, sessions, cookie, login, codes, answered, now, edits>>
    PROVE  AuthTypes' /\ Order'
<1>1. hnd' \in [Handlers -> HandRow]
  BY TypesByName
<1>2. AuthTypes'
  BY <1>1, TypesByName, TypesByNameNext
<1>3. Numbered' /\ SessionsFinished' /\ Begun' /\ Completed'
  BY DEF Order, Numbered, SessionsFinished, Begun, Completed, Answered, Live
<1>4. ASSUME NEW k \in Handlers, hnd'[k].pc # "idle" PROVE InHand(hnd[k])'
  <2>1. hnd'[k] = H \/ (hnd'[k] = hnd[k] /\ hnd[k].pc # "idle")
    BY <1>4, TypesByName
  <2>2. InHand(hnd'[k])
    BY <2>1 DEF Order, HandsFit
  <2> QED
    BY <2>2 DEF InHand
<1> QED
  BY <1>2, <1>3, <1>4 DEF Order, HandsFit

\* A request comes back in the session that completed its interaction (Authorize).
LEMMA ReturnOk ==
    ASSUME AuthTypes, Order, NEW h \in Handlers, NEW b \in Browsers, NEW i \in Interactions,
           AuthorizeInteraction(h, b, i)
    PROVE  AuthTypes' /\ Order'
<1> DEFINE s == SessionOf(b)
           H == [Idle EXCEPT !.pc = "mint", !.by = b, !.ask = inter[i].ask, !.i = i, !.s = s]
<1>1. /\ i \in Live /\ inter[i].by = b /\ s # 0 /\ inter[i].sess = s
      /\ hnd' = [hnd EXCEPT ![h] = H]
      /\ UNCHANGED <<policy, inter, sessions, cookie, login, codes, answered, now, edits>>
  BY DEF AuthorizeInteraction, Usable
<1>2. s \in Logins /\ sessions[s].live
  BY <1>1, SessionOfLive
<1>3. login[s].st = "done" /\ inter[i].st = "live"
  BY <1>1, <1>2 DEF Order, SessionsFinished, Live
<1> HIDE DEF s
<1>4. /\ H \in HandRow
      /\ H.pc = "mint" /\ H.by = b /\ H.i = i /\ H.s = s
  <2>1. inter[i].ask \in Asks \cup {NoAsk}
    BY Elements DEF Interaction
  <2> QED
    BY <1>2, <2>1, EmptyRows DEF HandRow
<1> HIDE DEF H
<1>5. InHand(H)
  BY <1>1, <1>2, <1>3, <1>4 DEF InHand
<1> QED
  BY <1>1, <1>4, <1>5, HandMoves

\* The evidence read is the session's of that moment (CreateAuthorizationCodeForInteraction).
LEMMA ReadOk ==
    ASSUME AuthTypes, Order, NEW h \in Handlers, ReadEvidence(h)
    PROVE  AuthTypes' /\ Order'
<1> DEFINE H == hnd[h]
<1>1. /\ H.pc = "mint"
      /\ UNCHANGED <<policy, inter, sessions, cookie, login, codes, answered, now, edits>>
  BY DEF ReadEvidence
<1>2. H \in HandRow /\ InHand(H)
  BY <1>1, Elements DEF Order, HandsFit
<1>3. CASE sessions[H.s].live /\ Satisfied(H.ask, policy, sessions[H.s].ev, H.i # 0)
  <2> DEFINE K == [H EXCEPT !.pc = "commit", !.ev = sessions[H.s].ev]
  <2>1. hnd' = [hnd EXCEPT ![h] = K]
    BY <1>3, TypesByName DEF ReadEvidence
  <2>2. sessions[H.s].ev \in Evidence /\ sessions[H.s].ev.login \in Logins
        /\ login[sessions[H.s].ev.login].st = "done"
    BY <1>2, <1>3, Elements DEF Order, SessionsFinished, InHand, SessionRow
  <2>3. H.ask.fresh => H.i # 0
    BY <1>3 DEF Satisfied
  <2>4. /\ K \in HandRow /\ K.pc = "commit" /\ K.ev = sessions[H.s].ev
        /\ K.s = H.s /\ K.i = H.i /\ K.by = H.by /\ K.ask = H.ask
    BY <1>2, <2>2 DEF HandRow
  <2> HIDE DEF K
  <2>5. InHand(K)
    BY <1>2, <2>2, <2>3, <2>4 DEF InHand
  <2> QED
    BY <1>1, <2>1, <2>4, <2>5, HandMoves
<1>4. CASE ~(sessions[H.s].live /\ Satisfied(H.ask, policy, sessions[H.s].ev, H.i # 0))
  <2>1. Rest(h)
    BY <1>4 DEF ReadEvidence
  <2>2. /\ hnd' \in [Handlers -> HandRow]
        /\ \A k \in Handlers : hnd'[k] = hnd[k] \/ hnd'[k].pc = "idle"
    BY <2>1, RestEnds
  <2>3. AuthTypes'
    BY <1>1, <2>2, TypesByName, TypesByNameNext
  <2> QED
    BY <1>1, <2>2, <2>3, TypesByName, SameSessions
<1> QED
  BY <1>3, <1>4

-----------------------------------------------------------------------------
(* Interactions and sign-ins begin.                                         *)

\* Sign-ins begun so far come before those still to begin.
LEMMA StartedBefore ==
    ASSUME AuthTypes, Order
    PROVE  LET n == Cardinality({l \in Logins : login[l].st # "none"})
           IN  n \in 0..MaxLogins /\ \A k \in Logins : login[k].st = "none" => n < k
<1> DEFINE D == {l \in Logins : login[l].st # "none"}
<1>1. IsFiniteSet(Logins) /\ Cardinality(Logins) = MaxLogins
  BY Bounds, FS_Interval DEF Logins
<1>2. IsFiniteSet(D) /\ Cardinality(D) <= MaxLogins /\ Cardinality(D) \in Nat
  <2>1. D \in SUBSET Logins
    OBVIOUS
  <2>2. IsFiniteSet(D) /\ Cardinality(D) <= Cardinality(Logins)
    BY <1>1, <2>1, FS_Subset
  <2> QED
    BY <1>1, <2>2, FS_CardinalityType
<1>3. ASSUME NEW k \in Logins, login[k].st = "none" PROVE Cardinality(D) < k
  <2>1. k \in Nat /\ k # 0
    BY Bounds
  <2>2. D \subseteq 1..(k - 1)
    <3> SUFFICES ASSUME NEW l \in D PROVE l \in 1..(k - 1)
      OBVIOUS
    <3>1. l \in Nat /\ l # 0 /\ ~(k <= l)
      BY <1>3, Bounds DEF Order, Numbered
    <3> QED
      BY <2>1, <3>1
  <2>3. IsFiniteSet(1..(k - 1)) /\ Cardinality(1..(k - 1)) = k - 1
    BY <2>1, FS_Interval
  <2>4. Cardinality(D) <= k - 1
    BY <2>2, <2>3, FS_Subset
  <2> QED
    BY <1>2, <2>1, <2>4
<1> QED
  BY <1>2, <1>3, Bounds

\* The least of some numbers.
LEMMA LeastOf ==
    ASSUME NEW N \in SUBSET Nat, N # {}
    PROVE  LET n == CHOOSE j \in N : \A k \in N : j <= k
           IN  n \in N /\ \A k \in N : n <= k
<1> DEFINE R == {p \in Nat \X Nat : p[1] < p[2]}
<1>1. IsWellFoundedOn(R, Nat)
  BY NatLessThanWellFounded, Zenon DEF OpToRel
<1>2. \A x, y \in Nat : <<y, x>> \in R <=> y < x
  OBVIOUS
<1> HIDE DEF R
<1>3. PICK x \in N : \A y \in N : ~(<<y, x>> \in R)
  BY <1>1, WFMin
<1>4. ASSUME NEW y \in N PROVE x <= y
  <2>1. x \in Nat /\ y \in Nat /\ ~(<<y, x>> \in R)
    BY <1>3, <1>4
  <2>2. ~(y < x)
    BY <1>2, <2>1
  <2> QED
    BY <2>1, <2>2
<1> QED
  BY <1>4

\* A new interaction is unanswered, and everything that was there is as it was or gone.
LEMMA BeginOk ==
    ASSUME AuthTypes, Order, NEW b \in Browsers, NEW s \in Logins \cup {0}, s # 0 => sessions[s].live,
           NEW ask \in Asks, BeginInteraction(b, s, ask),
           UNCHANGED <<policy, sessions, cookie, login, hnd, codes, answered, now, edits>>
    PROVE  AuthTypes' /\ Order'
<1> DEFINE u == IF s = 0 THEN NoUser ELSE sessions[s].user
           new == {i \in Interactions : inter[i].st = "none"}
           i == CHOOSE j \in new : \A k \in new : j <= k
           n == Cardinality({l \in Logins : login[l].st # "none"})
           W == Without(Live \ Reclaimed)
           R == [NoInteraction EXCEPT !.st = "live", !.by = b, !.user = u, !.orig = s,
                     !.made = now, !.exp = now + TTL, !.ask = ask, !.after = n]
<1>1. CASE ~RoomFor(b, u)
  <2>1. inter' = inter
    BY <1>1 DEF BeginInteraction
  <2>2. AuthTypes'
    BY <2>1, TypesByName, TypesByNameNext
  <2> QED
    BY <2>1, <2>2, TypesByName, SameSessions
<1>2. CASE RoomFor(b, u)
  <2>1. new # {} /\ inter' = [W EXCEPT ![i] = R]
    BY <1>2 DEF BeginInteraction
  <2>2. i \in Interactions /\ inter[i].st = "none"
    <3>1. new \in SUBSET Nat
      BY Bounds
    <3>2. i \in new
      BY <2>1, <3>1, LeastOf
    <3> QED
      BY <3>2
  <2>3. n \in 0..MaxLogins /\ \A k \in Logins : login[k].st = "none" => n < k
    BY StartedBefore
  <2>4. u \in Users \cup {NoUser}
    BY Elements DEF SessionRow
  <2>5. now + TTL \in 0..MaxTime + TTL
    BY Elements, Bounds DEF Times
  <2>6. /\ W \in [Interactions -> Interaction]
        /\ \A j \in Interactions : W[j] = inter[j] \/ (W[j].st = "gone" /\ inter[j].st = "live")
    BY WithoutEnds
  <2> HIDE DEF i, u, n, W
  <2>7. /\ R \in Interaction /\ R.st = "live" /\ R.orig = s /\ R.sess = 0 /\ R.user = u /\ R.after = n
    <3>1. NoInteraction.sess = 0
      BY DEF NoInteraction
    <3> QED
      BY <2>3, <2>4, <2>5, <3>1, EmptyRows, Elements DEF Interaction
  <2> HIDE DEF R
  <2>8. /\ inter' \in [Interactions -> Interaction] /\ inter'[i] = R
        /\ \A j \in Interactions \ {i} : inter'[j] = inter[j] \/ (inter'[j].st = "gone" /\ inter[j].st = "live")
    BY <2>1, <2>2, <2>6, <2>7
  <2>9. AuthTypes'
    BY <2>8, TypesByName, TypesByNameNext
  <2>10. \A j \in Live' \ {i} : j \in Live /\ inter'[j] = inter[j]
    BY <2>8 DEF Live
  <2>11. \A j \in Interactions : inter[j].st # "none" => inter'[j].st # "none" /\ j # i
    BY <2>2, <2>8
  <2>12. Numbered'
    BY <2>11 DEF Order, Numbered, AuthTypes
  <2>13. SessionsFinished'
    BY DEF Order, SessionsFinished
  <2>14. Begun'
    <3>1. ASSUME NEW l \in Logins, login[l].st = "none" \/ (login[l].st = "proved" /\ login[l].i = i)
          PROVE  n < l
      <4>1. ~(login[l].st = "proved" /\ login[l].i = i)
        BY <2>2, Bounds DEF Order, Numbered
      <4> QED
        BY <2>3, <3>1, <4>1
    <3>2. s # 0 => login[s].st = "done" /\ sessions[s].user = u
      BY DEF Order, SessionsFinished, u
    <3>3. ASSUME NEW j \in Live', j = i
          PROVE  /\ \A l \in Logins : login[l].st = "none" \/ (login[l].st = "proved" /\ login[l].i = j) =>
                       inter'[j].after < l
                 /\ inter'[j].orig # 0 =>
                       /\ login[inter'[j].orig].st = "done"
                       /\ sessions[inter'[j].orig].live => sessions[inter'[j].orig].user = inter'[j].user
      BY <2>7, <2>8, <3>1, <3>2, <3>3
    <3>4. ASSUME NEW j \in Live', j # i
          PROVE  /\ \A l \in Logins : login[l].st = "none" \/ (login[l].st = "proved" /\ login[l].i = j) =>
                       inter'[j].after < l
                 /\ inter'[j].orig # 0 =>
                       /\ login[inter'[j].orig].st = "done"
                       /\ sessions[inter'[j].orig].live => sessions[inter'[j].orig].user = inter'[j].user
      <4>1. j \in Live /\ inter'[j] = inter[j]
        BY <2>10, <3>4
      <4> QED
        BY <4>1 DEF Order, Begun
    <3> QED
      BY <3>3, <3>4 DEF Begun
  <2>15. Completed'
    <3>1. \A j \in Live' : inter'[j].sess # 0 => j \in Live /\ inter'[j] = inter[j]
      BY <2>7, <2>8, <2>10
    <3>2. ASSUME NEW j \in Live', inter'[j].sess # 0 PROVE Answered(j)'
      <4>1. inter'[j] = inter[j] /\ Answered(j)
        BY <3>1, <3>2 DEF Order, Completed
      <4> QED
        BY <4>1 DEF Answered
    <3>3. ASSUME NEW j \in Live', NEW k \in Live', j # k, inter'[j].sess # 0, inter'[j].sess = inter'[k].sess
          PROVE  ~(inter'[j].exp > now' /\ inter'[k].exp > now')
      <4>1. inter'[j] = inter[j] /\ inter'[k] = inter[k] /\ j \in Live /\ k \in Live
        BY <3>1, <3>3
      <4> QED
        BY <3>3, <4>1 DEF Order, Completed
    <3> QED
      BY <3>2, <3>3 DEF Completed
  <2>16. ASSUME NEW h \in Handlers, hnd'[h].pc # "idle" PROVE InHand(hnd[h])'
    <3>1. hnd' = hnd /\ InHand(hnd[h])
      BY <2>16 DEF Order, HandsFit
    <3>2. hnd[h].i \in Interactions \cup {0}
      BY Elements DEF HandRow
    <3>3. hnd[h].i # 0 => /\ inter'[hnd[h].i].st # "none"
                          /\ inter'[hnd[h].i].st = "live" => inter'[hnd[h].i] = inter[hnd[h].i]
      BY <2>8, <2>11, <3>1, <3>2 DEF InHand
    <3> QED
      BY <3>1, <3>3 DEF InHand
  <2>17. HandsFit'
    BY <2>16 DEF HandsFit
  <2> QED
    BY <2>9, <2>12, <2>13, <2>14, <2>15, <2>17 DEF Order
<1> QED
  BY <1>1, <1>2

\* A request is answered in the session there, or begins an interaction (Authorize).
LEMMA AuthorizeOk ==
    ASSUME AuthTypes, Order, NEW h \in Handlers, NEW b \in Browsers, NEW ask \in Asks, Authorize(h, b, ask)
    PROVE  AuthTypes' /\ Order'
<1> DEFINE s == SessionOf(b)
<1>1. s \in Logins \cup {0} /\ (s # 0 => s \in Logins /\ sessions[s].live)
  BY SessionOfLive
<1>2. CASE s # 0 /\ Satisfied(ask, policy, sessions[s].ev, FALSE)
  <2> DEFINE H == [Idle EXCEPT !.pc = "mint", !.by = b, !.ask = ask, !.s = s]
  <2>1. /\ hnd' = [hnd EXCEPT ![h] = H]
        /\ UNCHANGED <<policy, inter, sessions, cookie, login, codes, answered, now, edits>>
    BY <1>2 DEF Authorize
  <2>2. s \in Logins /\ login[s].st = "done"
    BY <1>1, <1>2 DEF Order, SessionsFinished
  <2> HIDE DEF s
  <2>3. H \in HandRow /\ H.pc = "mint" /\ H.i = 0 /\ H.s = s
    <3>1. Idle.i = 0
      BY DEF Idle
    <3> QED
      BY <2>2, <3>1, EmptyRows DEF HandRow
  <2> HIDE DEF H
  <2>4. InHand(H)
    BY <2>2, <2>3 DEF InHand
  <2> QED
    BY <2>1, <2>3, <2>4, HandMoves
<1>3. CASE ~(s # 0 /\ Satisfied(ask, policy, sessions[s].ev, FALSE))
  <2>1. /\ BeginInteraction(b, s, ask)
        /\ UNCHANGED <<policy, sessions, cookie, login, hnd, codes, answered, now, edits>>
    BY <1>3 DEF Authorize
  <2> QED
    BY <1>1, <2>1, BeginOk
<1> QED
  BY <1>2, <1>3

\* A sign-in takes the next number.
LEMMA LoginOk ==
    ASSUME AuthTypes, Order, NEW b \in Browsers, NEW u \in Users, NEW i \in Interactions \cup {0},
           Login(b, u, i)
    PROVE  AuthTypes' /\ Order'
<1> DEFINE new == {l \in Logins : login[l].st = "none"}
           l == CHOOSE k \in new : \A j \in new : k <= j
           R == [st |-> "proved", by |-> b, user |-> u, i |-> i, primary |-> now]
<1>1. /\ new # {} /\ login' = [login EXCEPT ![l] = R] /\ (i # 0 => i \in Live)
      /\ UNCHANGED <<policy, inter, sessions, cookie, hnd, codes, answered, now, edits>>
  BY DEF Login, Usable
<1>2. l \in new /\ \A k \in new : l <= k
  <2>1. new \in SUBSET Nat
    BY Bounds
  <2> QED
    BY <1>1, <2>1, LeastOf
<1> HIDE DEF l
<1>3. R \in LoginRow /\ R.st = "proved" /\ R.user = u /\ R.i = i
  BY Elements DEF LoginRow
<1> HIDE DEF R
<1>4. /\ l \in Logins /\ login[l].st = "none"
      /\ login' \in [Logins -> LoginRow] /\ login'[l] = R
      /\ \A k \in Logins \ {l} : login'[k] = login[k]
  BY <1>1, <1>2, <1>3, TypesByName
<1>5. AuthTypes'
  BY <1>1, <1>4, TypesByName, TypesByNameNext
<1>6. /\ \A k \in Logins : login[k].st = "done" => login'[k].st = "done"
      /\ \A k \in Logins : login'[k].st = "none" => login[k].st = "none" /\ k # l
  BY <1>3, <1>4
<1>7. Numbered'
  <2>1. ASSUME NEW k \in Logins, NEW m \in Logins, login'[k].st = "none", k <= m PROVE login'[m].st = "none"
    <3>1. login[m].st = "none" /\ l <= k /\ k # l
      BY <1>2, <1>6, <2>1 DEF Order, Numbered
    <3>2. m # l
      BY <2>1, <3>1, <1>4, Bounds
    <3> QED
      BY <1>4, <3>1, <3>2
  <2>2. \A k \in Logins : login'[k].st = "proved" =>
            login'[k].user \in Users /\ (login'[k].i # 0 => inter[login'[k].i].st # "none")
    BY <1>1, <1>3, <1>4 DEF Order, Numbered, Live
  <2> QED
    BY <1>1, <2>1, <2>2 DEF Numbered
<1>8. SessionsFinished'
  BY <1>1, <1>6 DEF Order, SessionsFinished, AuthTypes
<1>9. Begun'
  <2> SUFFICES ASSUME NEW j \in Live
               PROVE  /\ \A k \in Logins : login'[k].st = "none" \/ (login'[k].st = "proved" /\ login'[k].i = j) =>
                            inter[j].after < k
                      /\ inter[j].orig # 0 =>
                            /\ login'[inter[j].orig].st = "done"
                            /\ sessions[inter[j].orig].live => sessions[inter[j].orig].user = inter[j].user
    BY <1>1 DEF Begun, Live
  <2>1. \A k \in Logins : login[k].st = "none" \/ (login[k].st = "proved" /\ login[k].i = j) => inter[j].after < k
    BY DEF Order, Begun
  <2>2. inter[j].orig \in Logins \cup {0}
    BY Elements DEF Interaction, Live
  <2>3. inter[j].orig # 0 =>
            /\ login[inter[j].orig].st = "done"
            /\ sessions[inter[j].orig].live => sessions[inter[j].orig].user = inter[j].user
    BY DEF Order, Begun
  <2> QED
    BY <1>4, <1>6, <2>1, <2>2, <2>3
<1>10. Completed'
  BY <1>1 DEF Order, Completed, Answered, Live
<1>11. HandsFit'
  <2> SUFFICES ASSUME NEW h \in Handlers, hnd[h].pc # "idle" PROVE InHand(hnd[h])'
    BY <1>1 DEF HandsFit
  <2>1. InHand(hnd[h])
    BY DEF Order, HandsFit
  <2> QED
    BY <1>1, <1>6, <2>1 DEF InHand
<1> QED
  BY <1>5, <1>7, <1>8, <1>9, <1>10, <1>11 DEF Order

\* The code is inserted and its interaction deleted; a request for a new sign-in marks that one.
LEMMA CreateOk ==
    ASSUME AuthTypes, Order, NEW h \in Handlers, CreateAuthorizationCode(h)
    PROVE  AuthTypes' /\ Order'
<1> DEFINE H == hnd[h]
<1>1. /\ H.pc = "commit" /\ Rest(h)
      /\ UNCHANGED <<policy, sessions, cookie, login, now, edits>>
  BY DEF CreateAuthorizationCode
<1>2. H \in HandRow /\ InHand(H)
  BY <1>1, Elements DEF Order, HandsFit
<1>3. /\ hnd' \in [Handlers -> HandRow]
      /\ \A k \in Handlers : hnd'[k] = hnd[k] \/ hnd'[k].pc = "idle"
  BY <1>1, RestEnds
<1>4. CASE ~(PolicyStillMet(H) /\ (H.i # 0 => Answers(H.i, H.s)) /\ sessions[H.s].live)
  <2>1. UNCHANGED <<inter, codes, answered>>
    BY <1>4 DEF CreateAuthorizationCode
  <2>2. AuthTypes'
    BY <1>1, <1>3, <2>1, TypesByName, TypesByNameNext
  <2> QED
    BY <1>1, <1>3, <2>1, <2>2, TypesByName, SameSessions
<1>5. CASE PolicyStillMet(H) /\ (H.i # 0 => Answers(H.i, H.s)) /\ sessions[H.s].live
  <2> DEFINE c == [sess |-> H.s, ev |-> H.ev, fresh |-> H.i # 0, at |-> now]
  <2>1. /\ inter' = Without({H.i}) /\ codes' = codes \cup {c}
        /\ answered' = IF H.ask.fresh THEN answered \cup {H.ev.login} ELSE answered
    BY <1>5 DEF CreateAuthorizationCode
  <2>2. H.s \in Logins /\ H.ev \in Evidence /\ H.ev.login \in Logins /\ login[H.ev.login].st = "done"
    BY <1>1, <1>2 DEF InHand, HandRow
  <2>3. c \in Code
    BY <2>2, Elements DEF Code
  <2> HIDE DEF c
  <2>4. /\ inter' \in [Interactions -> Interaction]
        /\ \A i \in Interactions : /\ i \in {H.i} \cap Live => inter'[i].st = "gone" /\ inter[i].st = "live"
                                   /\ i \notin {H.i} \cap Live => inter'[i] = inter[i]
    BY <2>1, WithoutEnds
  <2>5. AuthTypes'
    BY <1>1, <1>3, <2>1, <2>2, <2>3, <2>4, TypesByName, TypesByNameNext
  <2>6. ASSUME NEW j \in Interactions, inter'[j].st = "live", inter'[j].sess # 0, inter'[j].exp > now'
        PROVE  sessions'[inter'[j].sess].ev.login \notin answered' \ answered
    <3>1. CASE ~H.ask.fresh
      BY <2>1, <3>1
    <3>2. CASE H.ask.fresh
      <4>1. H.i # 0 /\ H.i \in Live /\ inter[H.i].sess = H.s /\ inter[H.i].exp > now
        BY <1>1, <1>2, <1>5, <3>2 DEF InHand, Answers
      <4>2. H.ev = sessions[H.s].ev
        BY <1>1, <1>2, <4>1 DEF InHand, Live
      <4>3. j # H.i /\ j \in Live /\ inter'[j] = inter[j]
        BY <2>4, <2>6, <4>1 DEF Live
      <4>4. inter[j].sess # 0 /\ inter[j].exp > now
        BY <1>1, <2>6, <4>3
      <4>5. inter[j].sess # H.s
        BY <2>2, <4>1, <4>3, <4>4 DEF Order, Completed
      <4>6. inter[j].sess \in Logins /\ sessions[inter[j].sess].live
        <5>1. Answered(j)
          BY <4>3, <4>4 DEF Order, Completed
        <5> QED
          BY <4>4, <5>1, <2>6, Elements DEF Answered, Interaction
      <4>7. sessions[inter[j].sess].ev.login # sessions[H.s].ev.login
        BY <1>5, <2>2, <4>5, <4>6 DEF Order, SessionsFinished
      <4> QED
        BY <1>1, <2>1, <4>2, <4>3, <4>7
    <3> QED
      BY <3>1, <3>2
  <2>7. answered' \subseteq answered \cup {l \in Logins : login'[l].st = "done"}
    BY <1>1, <2>1, <2>2
  <2>8. now' \in Times /\ now <= now'
    BY <1>1, Elements
  <2>9. Ends
    BY <1>1, <1>3, <2>4, <2>6, <2>7, <2>8 DEF Ends
  <2> QED
    BY <2>5, <2>9, EndsOrder
<1> QED
  BY <1>4, <1>5

\* The sign-in makes or renews a session, completes its interaction if it can, and what the
\* session answered before lapses.
LEMMA FinishOk ==
    ASSUME AuthTypes, Order, NEW l \in Logins, NEW b \in Browsers, NEW f \in Methods, FinishLogin(l, b, f)
    PROVE  AuthTypes' /\ Order'
<1> DEFINE L == login[l]
           completes == L.i # 0 /\ Completes(l, b)
           renews == completes /\ Renews(L.i, b, L.user)
           s == IF renews THEN inter[L.i].orig ELSE l
           D == [NoLogin EXCEPT !.st = "done"]
           ev == [login |-> l, primary |-> L.primary, factor |-> f, fat |-> IF f = "none" THEN 0 ELSE now]
           R == [live |-> TRUE, user |-> L.user, ev |-> ev]
<1>1. /\ L.st = "proved"
      /\ login' = [login EXCEPT ![l] = D] /\ sessions' = [sessions EXCEPT ![s] = R]
      /\ inter' = [i \in Interactions |->
            IF completes /\ i = L.i THEN [inter[i] EXCEPT !.sess = s, !.user = L.user]
            ELSE IF renews /\ i \in EarlierAnswers(s, L.i) THEN [inter[i] EXCEPT !.exp = now]
            ELSE inter[i]]
      /\ cookie' = [cookie EXCEPT ![b] = l]
      /\ UNCHANGED <<policy, hnd, codes, answered, now, edits>>
  BY Zenon DEF FinishLogin
<1>same. UNCHANGED <<hnd, answered, now>>
  BY <1>1, Zenon
<1>2. L \in LoginRow /\ L.user \in Users
  BY <1>1, Elements DEF Order, Numbered
<1>3. \A t \in Logins : sessions[t].live => t # l /\ sessions[t].ev.login # l
  BY <1>1 DEF Order, SessionsFinished
<1>4. l \notin answered
  BY <1>1 DEF Order, SessionsFinished
<1>5. completes => /\ L.i \in Live /\ inter[L.i].sess = 0
                   /\ inter[L.i].after < l
                   /\ inter[L.i].orig # 0 => renews
  <2> SUFFICES ASSUME completes
               PROVE  /\ L.i \in Live /\ inter[L.i].sess = 0
                      /\ inter[L.i].after < l
                      /\ inter[L.i].orig # 0 => renews
    OBVIOUS
  <2>1. /\ L.i \in Live /\ inter[L.i].by = b /\ inter[L.i].sess = 0
        /\ inter[L.i].orig # 0 => sessions[inter[L.i].orig].live
        /\ inter[L.i].user \in {NoUser, L.user}
    BY DEF Completes, Usable
  <2>2. inter[L.i].after < l
    BY <1>1, <2>1 DEF Order, Begun
  <2>3. ASSUME inter[L.i].orig # 0 PROVE Renews(L.i, b, L.user)
    <3>1. inter[L.i].orig \in Logins
      BY <2>1, <2>3, Elements DEF Interaction, Live
    <3>2. sessions[inter[L.i].orig].user \in Users /\ sessions[inter[L.i].orig].user = inter[L.i].user
      BY <2>1, <2>3, <3>1 DEF Order, SessionsFinished, Begun
    <3>3. sessions[inter[L.i].orig].user = L.user
      BY <2>1, <3>2, AuthorizationAssumption
    <3> QED
      BY <2>1, <2>3, <3>3 DEF Renews
  <2> QED
    BY <2>1, <2>2, <2>3
<1>6. /\ s \in Logins
      /\ ~renews => s = l
      /\ renews => completes /\ s = inter[L.i].orig /\ sessions[s].live /\ sessions[s].user = L.user
  <2>1. renews => inter[L.i].orig \in Logins
    BY Elements DEF Renews, Interaction, Live
  <2> QED
    BY <2>1 DEF Renews
<1>7. R \in SessionRow /\ R.live /\ R.user = L.user /\ R.ev.login = l
  <2>1. ev \in Evidence /\ ev.login = l
    <3>1. 0 \in Times /\ L.primary \in Times /\ now \in Times
      BY <1>2, Elements, Bounds DEF LoginRow, Times
    <3> QED
      BY <3>1 DEF Evidence
  <2> HIDE DEF ev
  <2> QED
    BY <1>2, <2>1 DEF SessionRow
<1>8. D \in LoginRow /\ D.st = "done"
  BY EmptyRows
<1> HIDE DEF completes, renews, s, D, R
<1>9. /\ sessions' \in [Logins -> SessionRow] /\ sessions'[s] = R
      /\ \A t \in Logins : t # s => sessions'[t] = sessions[t]
  BY <1>1, <1>6, <1>7, TypesByName
<1>10. /\ login' \in [Logins -> LoginRow] /\ login'[l].st = "done"
       /\ \A k \in Logins : k # l => login'[k] = login[k]
  BY <1>1, <1>8, TypesByName
<1>11. /\ \A k \in Logins : login[k].st = "done" => login'[k].st = "done"
       /\ \A k \in Logins : login'[k].st = "none" <=> login[k].st = "none"
       /\ \A k \in Logins : login'[k].st = "proved" => login'[k] = login[k]
  BY <1>1, <1>10
<1>12. inter' \in [Interactions -> Interaction]
  <2> SUFFICES ASSUME NEW i \in Interactions PROVE inter'[i] \in Interaction
    BY <1>1
  <2>1. now \in 0..MaxTime + TTL
    BY Elements, Bounds DEF Times
  <2> QED
    BY <1>1, <1>2, <1>6, <2>1, Elements DEF Interaction
<1>13. \A i \in Interactions :
          /\ inter'[i].st = inter[i].st /\ inter'[i].by = inter[i].by /\ inter'[i].orig = inter[i].orig
          /\ inter'[i].after = inter[i].after
  BY <1>1, Elements DEF Interaction
<1>14. completes => inter'[L.i].sess = s /\ inter'[L.i].user = L.user
  BY <1>1, <1>5, Elements DEF Interaction, Live
<1>15. ASSUME NEW i \in Live, ~(completes /\ i = L.i)
       PROVE  /\ inter'[i].sess = inter[i].sess /\ inter'[i].user = inter[i].user
              /\ inter'[i].exp > now => inter'[i].exp = inter[i].exp
              /\ renews /\ inter[i].sess = s => ~(inter'[i].exp > now)
  <2>1. i \in Interactions /\ inter[i] \in Interaction
    BY Elements DEF Live
  <2>2. i \in EarlierAnswers(s, L.i) <=> i # L.i /\ inter[i].sess = s
    BY DEF EarlierAnswers
  <2>3. now \in Nat
    BY Elements
  <2>4. renews => i # L.i
    BY <1>6, <1>15
  <2>5. CASE renews /\ inter[i].sess = s
    <3>1. inter'[i] = [inter[i] EXCEPT !.exp = now]
      BY <1>1, <1>15, <2>1, <2>2, <2>4, <2>5
    <3> QED
      BY <2>1, <2>3, <3>1 DEF Interaction
  <2>6. CASE ~(renews /\ inter[i].sess = s)
    <3>1. inter'[i] = inter[i]
      BY <1>1, <1>15, <2>1, <2>2, <2>6
    <3> QED
      BY <2>6, <3>1
  <2> QED
    BY <2>5, <2>6
<1>16. Live' = Live
  BY <1>13 DEF Live
<1>17. AuthTypes'
  BY <1>1, <1>9, <1>10, <1>12, TypesByName, TypesByNameNext
<1>18. \A t \in Logins : sessions[t].live /\ t = s => renews
  BY <1>3, <1>6
<1>19. Numbered'
  <2>1. \A k \in Logins : login[k].i \in Interactions \cup {0}
    BY Elements DEF LoginRow
  <2> QED
    BY <1>11, <1>13, <2>1 DEF Order, Numbered
<1>20. SessionsFinished'
  <2>1. \A t \in Logins : sessions'[t].live =>
           \/ t = s
           \/ sessions[t].live /\ sessions'[t] = sessions[t]
    BY <1>9
  <2>2. login'[s].st = "done"
    BY <1>6, <1>10, <1>11 DEF Order, SessionsFinished
  <2>3. ASSUME NEW t \in Logins, sessions'[t].live
        PROVE  /\ sessions'[t].user \in Users /\ sessions'[t].ev.login \in Logins
               /\ login'[t].st = "done" /\ login'[sessions'[t].ev.login].st = "done"
    <3>1. CASE t = s
      BY <1>2, <1>7, <1>9, <1>10, <2>2, <3>1
    <3>2. CASE t # s
      BY <1>11, <2>1, <2>3, <3>2 DEF Order, SessionsFinished
    <3> QED
      BY <3>1, <3>2
  <2>4. ASSUME NEW t \in Logins, NEW v \in Logins, sessions'[t].live, sessions'[v].live, t # v
        PROVE  sessions'[t].ev.login # sessions'[v].ev.login
    <3>1. CASE t = s
      BY <1>3, <1>7, <1>9, <2>1, <2>4, <3>1
    <3>2. CASE v = s
      BY <1>3, <1>7, <1>9, <2>1, <2>4, <3>2
    <3>3. CASE t # s /\ v # s
      BY <2>1, <2>4, <3>3 DEF Order, SessionsFinished
    <3> QED
      BY <3>1, <3>2, <3>3
  <2>5. \A k \in answered' : login'[k].st = "done"
    BY <1>1, <1>11, TypesByName DEF Order, SessionsFinished
  <2> QED
    BY <2>3, <2>4, <2>5 DEF SessionsFinished
<1>21. Begun'
  <2> SUFFICES ASSUME NEW i \in Live
               PROVE  /\ \A k \in Logins : login'[k].st = "none" \/ (login'[k].st = "proved" /\ login'[k].i = i) =>
                            inter'[i].after < k
                      /\ inter'[i].orig # 0 =>
                            /\ login'[inter'[i].orig].st = "done"
                            /\ sessions'[inter'[i].orig].live => sessions'[inter'[i].orig].user = inter'[i].user
    BY <1>16 DEF Begun
  <2>1. /\ i \in Interactions /\ inter[i].orig \in Logins \cup {0}
        /\ inter'[i].orig = inter[i].orig /\ inter'[i].after = inter[i].after
    BY <1>13, Elements DEF Live, Interaction
  <2>2. /\ \A k \in Logins : login[k].st = "none" \/ (login[k].st = "proved" /\ login[k].i = i) => inter[i].after < k
        /\ inter[i].orig # 0 =>
              /\ login[inter[i].orig].st = "done"
              /\ sessions[inter[i].orig].live => sessions[inter[i].orig].user = inter[i].user
    BY DEF Order, Begun
  <2>3. \A k \in Logins : login'[k].st = "none" \/ (login'[k].st = "proved" /\ login'[k].i = i) => inter'[i].after < k
    BY <1>11, <2>1, <2>2
  <2>4. ASSUME inter[i].orig # 0, sessions'[inter[i].orig].live
        PROVE  sessions'[inter[i].orig].user = inter'[i].user
    <3>1. CASE completes /\ i = L.i
      BY <1>5, <1>6, <1>7, <1>9, <1>14, <2>4, <3>1
    <3>2. CASE ~(completes /\ i = L.i) /\ inter[i].orig # s
      BY <1>9, <1>15, <2>1, <2>2, <2>4, <3>2
    <3>3. CASE ~(completes /\ i = L.i) /\ inter[i].orig = s
      <4>1. renews
        BY <1>1, <1>6, <2>2, <2>4, <3>3
      <4> QED
        BY <1>6, <1>7, <1>9, <1>15, <2>2, <2>4, <3>3, <4>1
    <3> QED
      BY <3>1, <3>2, <3>3
  <2> QED
    BY <1>11, <2>1, <2>2, <2>3, <2>4
<1>22. ASSUME NEW i \in Live, inter[i].sess # 0, ~(completes /\ i = L.i)
       PROVE  /\ inter[i].sess \in Logins /\ Answered(i) /\ sessions[inter[i].sess].live
              /\ inter[i].sess = s => renews
  <2>1. inter[i].sess \in Logins
    BY <1>22, Elements DEF Live, Interaction
  <2>2. Answered(i)
    BY <1>22 DEF Order, Completed
  <2> QED
    BY <1>18, <2>1, <2>2 DEF Answered
<1>23. ASSUME NEW i \in Live, inter'[i].sess # 0 PROVE Answered(i)'
  <2>1. i \in Interactions /\ inter'[i].orig = inter[i].orig /\ inter'[i].after = inter[i].after
    BY <1>13 DEF Live
  <2>2. CASE completes /\ i = L.i
    <3>1. inter'[i].sess = s /\ sessions'[s].live /\ sessions'[s].user = inter'[i].user
      BY <1>7, <1>9, <1>14, <2>2
    <3>2. inter'[i].orig # 0 => inter'[i].orig = s
      BY <1>5, <1>6, <2>1, <2>2
    <3>3. sessions'[s].ev.login > inter'[i].after /\ sessions'[s].ev.login \notin answered'
      <4>1. l \in Nat /\ inter[i].after \in Nat
        BY <2>1, Elements, Bounds DEF Interaction
      <4> QED
        BY <1>same, <1>4, <1>5, <1>7, <1>9, <2>1, <2>2, <4>1
    <3> QED
      BY <3>1, <3>2, <3>3 DEF Answered
  <2>3. CASE ~(completes /\ i = L.i)
    <3>1. inter'[i].sess = inter[i].sess /\ inter'[i].user = inter[i].user
      BY <1>15, <2>3
    <3>2. inter[i].sess \in Logins /\ Answered(i) /\ (inter[i].sess = s => renews)
      BY <1>22, <1>23, <2>3, <3>1
    <3>3. CASE inter[i].sess = s
      <4>1. ~(inter'[i].exp > now)
        BY <1>15, <2>3, <3>2, <3>3
      <4>2. sessions'[s].live /\ sessions'[s].user = inter[i].user
        BY <1>6, <1>7, <1>9, <3>2, <3>3 DEF Answered
      <4> QED
        BY <1>same, <2>1, <3>1, <3>2, <3>3, <4>1, <4>2 DEF Answered
    <3>4. CASE inter[i].sess # s
      <4>1. sessions'[inter[i].sess] = sessions[inter[i].sess]
        BY <1>9, <3>2, <3>4
      <4>2. inter'[i].exp > now => inter'[i].exp = inter[i].exp
        BY <1>15, <2>3
      <4> QED
        BY <1>same, <2>1, <3>1, <3>2, <4>1, <4>2 DEF Answered
    <3> QED
      BY <3>3, <3>4
  <2> QED
    BY <2>2, <2>3
<1>24. ASSUME NEW i \in Live, NEW j \in Live, i # j, completes, i = L.i, inter'[j].sess = s
       PROVE  ~(inter'[j].exp > now)
  <2>1. ~(completes /\ j = L.i) /\ inter[j].sess = s
    BY <1>15, <1>24
  <2>2. s # 0
    BY <1>6, Bounds
  <2> QED
    BY <1>15, <1>22, <2>1, <2>2
<1>25. ASSUME NEW i \in Live, NEW j \in Live, i # j, inter'[i].sess # 0, inter'[i].sess = inter'[j].sess
       PROVE  ~(inter'[i].exp > now' /\ inter'[j].exp > now')
  <2>1. CASE completes /\ i = L.i
    BY <1>same, <1>14, <1>24, <1>25, <2>1
  <2>2. CASE completes /\ j = L.i
    BY <1>same, <1>14, <1>24, <1>25, <2>2
  <2>3. CASE ~(completes /\ i = L.i) /\ ~(completes /\ j = L.i)
    <3>1. /\ inter'[i].sess = inter[i].sess /\ inter'[j].sess = inter[j].sess
          /\ inter'[i].exp > now => inter'[i].exp = inter[i].exp
          /\ inter'[j].exp > now => inter'[j].exp = inter[j].exp
      BY <1>15, <2>3
    <3>2. ~(inter[i].exp > now /\ inter[j].exp > now)
      BY <1>25, <3>1 DEF Order, Completed
    <3> QED
      BY <1>same, <3>1, <3>2
  <2> QED
    BY <2>1, <2>2, <2>3
<1>26. Completed'
  BY <1>16, <1>23, <1>25 DEF Completed
<1>27. ASSUME NEW h \in Handlers, hnd[h].pc # "idle" PROVE InHand(hnd[h])'
  <2> DEFINE H == hnd[h]
  <2>1. InHand(H) /\ H.i \in Interactions \cup {0} /\ H.s \in Logins /\ H.s # 0
    BY <1>27, Elements, Bounds DEF Order, HandsFit, InHand, HandRow
  <2> HIDE DEF H
  <2>2. H.i # 0 => inter'[H.i].st = inter[H.i].st /\ inter'[H.i].by = inter[H.i].by
    BY <1>13, <2>1
  <2>3. ASSUME H.i # 0, inter[H.i].st = "live"
        PROVE  /\ inter'[H.i].sess = H.s
               /\ inter'[H.i].exp > now => inter[H.i].exp > now /\ sessions'[H.s] = sessions[H.s]
    <3>1. H.i \in Live /\ inter[H.i].sess = H.s
      BY <2>1, <2>3 DEF InHand, Live
    <3>2. ~(completes /\ H.i = L.i)
      BY <1>5, <2>1, <3>1
    <3>3. H.s = s => renews
      BY <1>22, <2>1, <3>1, <3>2
    <3> QED
      BY <1>9, <1>15, <2>1, <3>1, <3>2, <3>3
  <2>4. InHand(H)'
    BY <1>same, <1>11, <2>1, <2>2, <2>3 DEF InHand, H
  <2> QED
    BY <2>4 DEF H
<1>28. HandsFit'
  BY <1>same, <1>27 DEF HandsFit
<1> QED
  BY <1>17, <1>19, <1>20, <1>21, <1>26, <1>28 DEF Order

-----------------------------------------------------------------------------
(* The invariant.                                                           *)

\* One session, and nothing begun.
LEMMA AuthInitOk == ASSUME AuthInit PROVE AuthInv
<1>1. PICK b \in Browsers, u \in Users, f \in Methods :
         /\ cookie = [c \in Browsers |-> IF c = b THEN 1 ELSE 0]
         /\ sessions = [s \in Logins |-> IF s = 1 THEN [live |-> TRUE, user |-> u,
                ev |-> [login |-> 1, primary |-> 0, factor |-> f, fat |-> 0]] ELSE NoSess]
  BY DEF AuthInit
<1>2. /\ policy \in Policies /\ inter = [i \in Interactions |-> NoInteraction]
      /\ login = [l \in Logins |-> IF l = 1 THEN [NoLogin EXCEPT !.st = "done"] ELSE NoLogin]
      /\ hnd = [h \in Handlers |-> Idle] /\ codes = {} /\ answered = {} /\ now = 0 /\ edits = 0
  BY DEF AuthInit
<1> DEFINE ev == [login |-> 1, primary |-> 0, factor |-> f, fat |-> 0]
           R == [live |-> TRUE, user |-> u, ev |-> ev]
<1>3. 1 \in Logins /\ 0 \in Times /\ 0 \in 0..MaxEdits
  BY Bounds DEF Logins, Times
<1>4. R \in SessionRow /\ R.live /\ R.user = u /\ R.ev.login = 1
  <2>1. ev \in Evidence /\ ev.login = 1
    BY <1>3 DEF Evidence
  <2> HIDE DEF ev
  <2> QED
    BY <2>1 DEF SessionRow
<1>5. sessions = [s \in Logins |-> IF s = 1 THEN R ELSE NoSess]
  BY <1>1
<1> HIDE DEF R
<1>6. AuthTypes
  <2>1. sessions \in [Logins -> SessionRow] /\ cookie \in [Browsers -> Logins \cup {0}]
    BY <1>1, <1>3, <1>4, <1>5, EmptyRows
  <2>2. /\ inter \in [Interactions -> Interaction] /\ login \in [Logins -> LoginRow]
        /\ hnd \in [Handlers -> HandRow]
    BY <1>2, EmptyRows
  <2> QED
    BY <1>2, <1>3, <2>1, <2>2, TypesByName
<1>7. Live = {}
  BY <1>2, EmptyRows DEF Live
<1>8. \A l \in Logins : /\ login[l].st = "none" => l # 1
                        /\ login[l].st # "none" => l = 1 /\ login[l].st = "done"
  BY <1>2, EmptyRows
<1>9. Numbered
  BY <1>2, <1>8, EmptyRows, Bounds DEF Numbered, Logins
<1>10. SessionsFinished
  <2>1. \A s \in Logins : sessions[s].live => s = 1 /\ sessions[s] = R
    BY <1>5, EmptyRows
  <2>2. login[1].st = "done"
    BY <1>2, <1>3, EmptyRows
  <2> QED
    BY <1>2, <1>3, <1>4, <2>1, <2>2 DEF SessionsFinished
<1>11. Begun /\ Completed
  BY <1>7 DEF Begun, Completed
<1>12. HandsFit
  BY <1>2, EmptyRows DEF HandsFit
<1>13. CodeMeetsPolicy
  BY <1>2 DEF CodeMeetsPolicy
<1> QED
  BY <1>6, <1>9, <1>10, <1>11, <1>12, <1>13 DEF AuthInv, Order

\* Every step keeps the types and the order.
LEMMA OrderStep == ASSUME AuthTypes, Order, AuthNext PROVE AuthTypes' /\ Order'
  BY AuthorizeOk, ReturnOk, ReadOk, CreateOk, CancelOk, LoginOk, FinishOk, SignOutOk, RevokeOk,
     PolicyOk, CodeEndsOk, AuthTickOk DEF AuthNext, Logout, EndSession

\* Codes are inserted by one step, under the policy of that moment, and a new policy voids them.
LEMMA PolicyStep == ASSUME CodeMeetsPolicy, AuthNext PROVE CodeMeetsPolicy'
<1>1. ASSUME policy' = policy, codes' \subseteq codes PROVE CodeMeetsPolicy'
  BY <1>1 DEF CodeMeetsPolicy
<1>2. ASSUME NEW h \in Handlers, CreateAuthorizationCode(h) PROVE CodeMeetsPolicy'
  <2> DEFINE H == hnd[h]
             c == [sess |-> H.s, ev |-> H.ev, fresh |-> H.i # 0, at |-> now]
  <2>1. policy' = policy
    BY <1>2 DEF CreateAuthorizationCode
  <2>2. \/ codes' = codes
        \/ codes' = codes \cup {c} /\ PolicyStillMet(H)
    BY <1>2 DEF CreateAuthorizationCode
  <2>3. c.ev = H.ev /\ c.at = now /\ (c.fresh <=> H.i # 0)
    OBVIOUS
  <2> HIDE DEF c
  <2>4. PolicyStillMet(H) => EvidenceMeets(policy, c.ev, c.at) /\ (policy.mode = "fresh" => c.fresh)
    BY <2>3 DEF PolicyStillMet
  <2> QED
    BY <2>1, <2>2, <2>4 DEF CodeMeetsPolicy
<1>3. ASSUME NEW p \in Policies, SetAppAuthenticationPolicy(p) PROVE CodeMeetsPolicy'
  BY <1>3 DEF SetAppAuthenticationPolicy, CodeMeetsPolicy
<1>4. ASSUME NEW h \in Handlers, NEW b \in Browsers, NEW ask \in Asks, Authorize(h, b, ask) PROVE CodeMeetsPolicy'
  BY <1>1, <1>4 DEF Authorize
<1>5. ASSUME NEW h \in Handlers, NEW b \in Browsers, NEW i \in Interactions, AuthorizeInteraction(h, b, i)
      PROVE  CodeMeetsPolicy'
  BY <1>1, <1>5 DEF AuthorizeInteraction
<1>6. ASSUME NEW h \in Handlers, ReadEvidence(h) PROVE CodeMeetsPolicy'
  BY <1>1, <1>6 DEF ReadEvidence
<1>7. ASSUME NEW b \in Browsers, NEW i \in Interactions, CancelInteraction(b, i) PROVE CodeMeetsPolicy'
  BY <1>1, <1>7 DEF CancelInteraction
<1>8. ASSUME NEW b \in Browsers, NEW u \in Users, NEW i \in Interactions \cup {0}, Login(b, u, i)
      PROVE  CodeMeetsPolicy'
  BY <1>1, <1>8 DEF Login
<1>9. ASSUME NEW b \in Browsers, NEW l \in Logins, NEW f \in Methods, FinishLogin(l, b, f) PROVE CodeMeetsPolicy'
  BY <1>1, <1>9, Zenon DEF FinishLogin
<1>10. ASSUME NEW b \in Browsers, SignOut(b) PROVE CodeMeetsPolicy'
  BY <1>1, <1>10 DEF SignOut, EndSessions
<1>11. ASSUME NEW u \in Users, RevokeUserAccess(u) PROVE CodeMeetsPolicy'
  BY <1>1, <1>11 DEF RevokeUserAccess, EndSessions
<1>12. ASSUME NEW c \in codes, CodeEnds(c) PROVE CodeMeetsPolicy'
  BY <1>1, <1>12 DEF CodeEnds
<1>13. ASSUME Tick PROVE CodeMeetsPolicy'
  BY <1>1, <1>13 DEF Tick
<1> QED
  BY <1>2, <1>3, <1>4, <1>5, <1>6, <1>7, <1>8, <1>9, <1>10, <1>11, <1>12, <1>13 DEF AuthNext, Logout, EndSession

\* AuthInv is inductive.
LEMMA AuthInductive == AuthSpec => []AuthInv
<1>1. AuthInit => AuthInv
  BY AuthInitOk
<1>2. AuthInv /\ [AuthNext]_authVars => AuthInv'
  <2> SUFFICES ASSUME AuthInv, [AuthNext]_authVars PROVE AuthInv'
    OBVIOUS
  <2>1. CASE AuthNext
    BY <2>1, OrderStep, PolicyStep DEF AuthInv
  <2>2. CASE UNCHANGED authVars
    <3>1. UNCHANGED <<policy, inter, sessions, cookie, login, hnd, codes, answered, now, edits>>
      BY <2>2 DEF authVars
    <3>2. AuthTypes'
      BY <3>1, TypesByName, TypesByNameNext DEF AuthInv
    <3>3. Order'
      BY <3>1, TypesByName, SameSessions DEF AuthInv
    <3>4. CodeMeetsPolicy'
      BY <3>1 DEF AuthInv, CodeMeetsPolicy
    <3> QED
      BY <3>2, <3>3, <3>4 DEF AuthInv
  <2> QED
    BY <2>1, <2>2
<1> QED
  BY <1>1, <1>2, PTL DEF AuthSpec

\* The tables of the authorization endpoint keep their types (authorization_interactions,
\* sessions, the requests in hand).
THEOREM EndpointTypes == AuthSpec => []AuthTypes
<1>1. AuthInv => AuthTypes
  BY DEF AuthInv
<1> QED
  BY <1>1, AuthInductive, PTL

\* For any number of browsers, tabs, sign-ins and policy changes, every code that can be
\* exchanged met, when it was issued, the policy the app has now (checkCodeAppAuthenticationTx,
\* SetAppAuthenticationPolicy).
THEOREM CodesMeetThePolicy == AuthSpec => []CodeMeetsPolicy
<1>1. AuthInv => CodeMeetsPolicy
  BY DEF AuthInv
<1> QED
  BY <1>1, AuthInductive, PTL

\* Only a request's own insert issues it a code.
LEMMA IssuedBy ==
    ASSUME AuthTypes, AuthNext, NEW h \in Handlers, Issues(h)
    PROVE  CreateAuthorizationCode(h) /\ (hnd[h].i # 0 => Answers(hnd[h].i, hnd[h].s))
<1>1. hnd[h].pc = "commit" /\ codes' # codes /\ hnd'[h] = Idle /\ hnd'[h] # hnd[h]
  BY EmptyRows DEF Issues
<1>2. \E k \in Handlers : CreateAuthorizationCode(k)
  <2> SUFFICES ASSUME \A k \in Handlers : ~CreateAuthorizationCode(k) PROVE codes' = codes \/ hnd' = hnd
    BY <1>1
  <2>1. \A k \in Handlers, b \in Browsers : /\ \A ask \in Asks : Authorize(k, b, ask) => codes' = codes
                                            /\ \A i \in Interactions : AuthorizeInteraction(k, b, i) => codes' = codes
    BY DEF Authorize, AuthorizeInteraction
  <2>2. \A k \in Handlers : ReadEvidence(k) => codes' = codes
    BY DEF ReadEvidence
  <2>3. \A b \in Browsers : /\ \A i \in Interactions : CancelInteraction(b, i) => hnd' = hnd
                            /\ \A u \in Users, i \in Interactions \cup {0} : Login(b, u, i) => hnd' = hnd
                            /\ SignOut(b) => hnd' = hnd
    BY DEF CancelInteraction, Login, SignOut
  <2>4. \A b \in Browsers, l \in Logins, f \in Methods : FinishLogin(l, b, f) => hnd' = hnd
    BY Zenon DEF FinishLogin
  <2>5. /\ \A u \in Users : RevokeUserAccess(u) => hnd' = hnd
        /\ \A p \in Policies : SetAppAuthenticationPolicy(p) => hnd' = hnd
        /\ \A c \in codes : CodeEnds(c) => hnd' = hnd
        /\ Tick => hnd' = hnd
    BY DEF RevokeUserAccess, SetAppAuthenticationPolicy, CodeEnds, Tick
  <2> QED
    BY <2>1, <2>2, <2>3, <2>4, <2>5 DEF AuthNext, Logout, EndSession
<1>3. PICK k \in Handlers : CreateAuthorizationCode(k)
  BY <1>2
<1>4. k = h
  BY <1>1, <1>3, TypesByName DEF CreateAuthorizationCode, Rest
<1> QED
  BY <1>1, <1>3, <1>4 DEF CreateAuthorizationCode

\* What the request and its interaction are when the code is issued.
LEMMA AtIssue ==
    ASSUME AuthInv, AuthNext, NEW h \in Handlers, Issues(h), hnd[h].i # 0
    PROVE  /\ inter[hnd[h].i].by = hnd[h].by
           /\ inter[hnd[h].i].user = sessions[hnd[h].s].user
           /\ inter[hnd[h].i].orig # 0 => inter[hnd[h].i].orig = hnd[h].s
           /\ hnd[h].ev.login > inter[hnd[h].i].after /\ hnd[h].ev.login \notin answered
<1> DEFINE H == hnd[h]
<1>1. H.pc = "commit" /\ H.i \in Live /\ inter[H.i].sess = H.s /\ inter[H.i].exp > now
  BY IssuedBy DEF AuthInv, Issues, Answers
<1>2. InHand(H)
  BY <1>1 DEF AuthInv, Order, HandsFit
<1>3. H.s # 0 /\ inter[H.i].by = H.by /\ H.ev = sessions[H.s].ev
  BY <1>1, <1>2, Bounds DEF InHand, Live
<1>4. Answered(H.i)
  BY <1>1, <1>3 DEF AuthInv, Order, Completed
<1> QED
  BY <1>1, <1>3, <1>4 DEF Answered

\* However many tabs and sign-ins overlap, a request that demands a new sign-in is answered by
\* one begun after it, which answers no other (CreateSessionForInteraction, prompt=login).
THEOREM EachRequestItsSignIn == AuthSpec => OwnSignInPerRequest
<1>1. AuthInv /\ [AuthNext]_authVars =>
        [\A h \in Handlers : (Issues(h) /\ hnd[h].ask.fresh) =>
            /\ hnd[h].i # 0 /\ hnd[h].ev.login > inter[hnd[h].i].after
            /\ hnd[h].ev.login \notin answered]_authVars
  <2> SUFFICES ASSUME AuthInv, AuthNext, NEW h \in Handlers, Issues(h), hnd[h].ask.fresh
               PROVE  /\ hnd[h].i # 0 /\ hnd[h].ev.login > inter[hnd[h].i].after
                      /\ hnd[h].ev.login \notin answered
    OBVIOUS
  <2>1. hnd[h].i # 0
    BY DEF AuthInv, Order, HandsFit, InHand, Issues
  <2> QED
    BY <2>1, AtIssue
<1> QED
  BY <1>1, AuthInductive, PTL DEF AuthSpec, OwnSignInPerRequest

\* The code of an interaction goes to its browser and its account, into the session it was
\* begun in, for any number of browsers and accounts (AuthorizeInteraction, SignOut).
THEOREM CodesGoWhereAsked == AuthSpec => CodeForWhoAsked
<1>1. AuthInv /\ [AuthNext]_authVars =>
        [\A h \in Handlers : (Issues(h) /\ hnd[h].i # 0) =>
            LET row == inter[hnd[h].i]
            IN  /\ row.by = hnd[h].by
                /\ row.user = sessions[hnd[h].s].user
                /\ row.orig # 0 => row.orig = hnd[h].s]_authVars
  <2> SUFFICES ASSUME AuthInv, AuthNext, NEW h \in Handlers, Issues(h), hnd[h].i # 0
               PROVE  /\ inter[hnd[h].i].by = hnd[h].by
                      /\ inter[hnd[h].i].user = sessions[hnd[h].s].user
                      /\ inter[hnd[h].i].orig # 0 => inter[hnd[h].i].orig = hnd[h].s
    OBVIOUS
  <2> QED
    BY AtIssue
<1> QED
  BY <1>1, AuthInductive, PTL DEF AuthSpec, CodeForWhoAsked
=============================================================================
