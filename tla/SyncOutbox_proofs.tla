-------------------------- MODULE SyncOutbox_proofs --------------------------
(***************************************************************************)
(* Proofs about SyncOutbox, for every set of dispatchers and tokens, both  *)
(* kinds of receiver and every bound, in three layers.                     *)
(*                                                                         *)
(* IInv: a write that is not a removal holds its fence for as long as it   *)
(* may be applied.  A fence is given up by the worker that owns it, by a   *)
(* claim that frees an expired removal, or by the operator.  For the       *)
(* first, a token must name one worker and one write and the worker have   *)
(* nothing on the wire unless it waits for the answer; for the second, an  *)
(* event, the fence on it and the writes sent for it must agree on being   *)
(* a removal, which rests on event IDs being fresh when handed out.        *)
(*                                                                         *)
(* OrderInv: rows are in order of revision, a valid claim is a copy of its *)
(* event, and nobody has claimed past an undelivered reset.  Each step is  *)
(* one of a few kinds (Steps), and the invariants are kept kind by kind.   *)
(*                                                                         *)
(* RemovalInv and GrantInv: from the claim of the work that carries the    *)
(* current desired state, nothing that contradicts it can still take       *)
(* effect: for a removal because nothing that activates is out or can be   *)
(* claimed, for a grant because every removal that is out carries an older *)
(* version.                                                                *)
(***************************************************************************)
EXTENDS SyncOutbox, TLAPS, FiniteSetTheorems

Busy(w) == wk[w].pc # "idle"

SameKind(a, b) == Removal(a) <=> Removal(b)

\* No ID in use is above the last one handed out.
IdsBounded ==
    /\ \A e \in outbox : e.id <= last
    /\ \A f \in fence : f.ev <= last
    /\ \A x \in wire : x.ev <= last
    /\ \A w \in Workers : wk[w].ev.id <= last

\* An event, the claims on it and the writes made for it agree on being a removal.
KindsAgree ==
    /\ \A e1, e2 \in outbox : e1.id = e2.id => SameKind(e1, e2)
    /\ \A e \in outbox, x \in wire : e.id = x.ev => SameKind(e, x)
    /\ \A e \in outbox, w \in Workers : Busy(w) /\ e.id = wk[w].ev.id => SameKind(e, wk[w].ev)

\* A claim token names one worker and one write.
TokensOwned ==
    /\ \A w \in Workers : Busy(w) => wk[w].ev.tok \in Tokens
    /\ \A w1, w2 \in Workers :
          Busy(w1) /\ Busy(w2) /\ wk[w1].ev.tok = wk[w2].ev.tok => w1 = w2
    /\ \A x, y \in wire : x.tok = y.tok => x = y

\* A worker has a write on the wire only while it waits for the answer.
WriteOfWorker ==
    \A x \in wire, w \in Workers :
        Busy(w) /\ x.tok = wk[w].ev.tok =>
            wk[w].pc = "sent" /\ x.ev = wk[w].ev.id /\ SameKind(x, wk[w].ev)

\* A fence stands on the event its token was spent on.
FenceOfEvent ==
    \A f \in fence :
        /\ \A x \in wire : f.tok = x.tok => f.ev = x.ev
        /\ \A w \in Workers : Busy(w) /\ f.tok = wk[w].ev.tok => f.ev = wk[w].ev.id

\* A worker about to write anything but a removal holds the fence.
BegunFenced ==
    sys # "gone" =>
        \A w \in Workers : wk[w].pc = "begun" /\ ~Removal(wk[w].ev) =>
            \E f \in fence : f.tok = wk[w].ev.tok

Types_OK == TypeOK /\ IsFiniteSet(outbox)

IInv ==
    /\ Types_OK
    /\ IdsBounded /\ KindsAgree /\ TokensOwned /\ WriteOfWorker /\ FenceOfEvent
    /\ BegunFenced /\ UncertainWriteHoldsFence

-----------------------------------------------------------------------------
(* What a transaction makes of the state row, the queue and the last ID.   *)

State == [row : BOOLEAN, active : BOOLEAN, prov : BOOLEAN, rev : Nat, dv : Nat, off : BOOLEAN]

Store == [st : State, ev : SUBSET Event, last : Nat]

DBOk(d) ==
    /\ d \in Store
    /\ IsFiniteSet(d.ev)
    /\ \A e \in d.ev : e.id <= d.last
    /\ \A e1, e2 \in d.ev : e1.id = e2.id => SameKind(e1, e2)

\* r follows d: its events are new, or events of d that have stayed what they were.
Follows(d, r) ==
    /\ d.last <= r.last
    /\ \A e \in r.ev : e.id > d.last \/ \E o \in d.ev : o.id = e.id /\ SameKind(o, e)

\* The image of a finite set is finite (for the queue a transaction rewrites).
LEMMA ImageFinite ==
    ASSUME NEW S, IsFiniteSet(S), NEW f
    PROVE  IsFiniteSet({f[x] : x \in S})
<1> DEFINE T == {f[x] : x \in S}
           g == [x \in S |-> f[x]]
<1>1. g \in Surjection(S, T)
  BY DEF Surjection
<1> QED
  BY <1>1, FS_Surjection

\* What follows what follows, follows: transactions made of several steps.
LEMMA FollowsTransitive ==
    ASSUME NEW d, NEW r, NEW q, DBOk(d), DBOk(r), DBOk(q), Follows(d, r), Follows(r, q)
    PROVE  Follows(d, q)
<1>1. d.last \in Nat /\ r.last \in Nat /\ q.last \in Nat
  BY DEF DBOk, Store
<1>2. ASSUME NEW e \in q.ev
      PROVE  e.id > d.last \/ \E o \in d.ev : o.id = e.id /\ SameKind(o, e)
  <2>0. e.id \in Nat /\ \A o \in r.ev : o.id \in Nat
    BY DEF DBOk, Store, Event
  <2>1. CASE e.id > r.last
    BY <1>1, <2>0, <2>1 DEF Follows
  <2>2. CASE \E o \in r.ev : o.id = e.id /\ SameKind(o, e)
    <3>1. PICK o \in r.ev : o.id = e.id /\ SameKind(o, e)
      BY <2>2
    <3>2. CASE o.id > d.last
      BY <3>1, <3>2
    <3>3. CASE \E p \in d.ev : p.id = o.id /\ SameKind(p, o)
      BY <3>1, <3>3 DEF SameKind
    <3> QED
      BY <3>2, <3>3 DEF Follows
  <2> QED
    BY <2>1, <2>2 DEF Follows
<1> QED
  BY <1>1, <1>2 DEF Follows

\* A transaction follows its own starting point.
LEMMA FollowsReflexive ==
    ASSUME NEW d, DBOk(d)
    PROVE  Follows(d, d)
BY DEF DBOk, Follows, SameKind, Store

\* A new event is a well-typed event.
LEMMA NewEventType ==
    ASSUME NEW row \in Nat, NEW type \in Types, NEW active \in BOOLEAN, NEW rev \in Nat
    PROVE  NewEvent(row, type, active, rev) \in Event
BY ConstantsAssumption DEF NewEvent, Event, Types

\* queueDesiredStateTx supersedes, inserts and moves events; it turns none from a removal
\* into something else, and the only ID it hands out is the one after the last.
LEMMA QueueDesiredOk ==
    ASSUME NEW d, DBOk(d), NEW active \in BOOLEAN, NEW deleted \in BOOLEAN, NEW force \in BOOLEAN
    PROVE  LET r == QueueDesired(d, active, deleted, force)
           IN  DBOk(r) /\ Follows(d, r)
<1> DEFINE unsent == {e \in d.ev : ~Fenced(e)}
           resets == {e \in unsent : ~active /\ e.type = "mfa_reset"}
           kept   == d.ev \ (resets \cup {e \in unsent : e.type \in {"created", "updated"}})
           rev    == d.st.rev + 1
           type   == IF deleted THEN "deleted"
                     ELSE IF active /\ (~d.st.prov \/ force) THEN "created" ELSE "updated"
           place(e) == d.last + 1 + Cardinality({x \in resets : x.row <= e.row})
           move(e) == [e EXCEPT !.row = place(e), !.active = FALSE, !.rev = rev, !.dv = 0,
                                !.tok = NoToken, !.leased = FALSE]
           moved  == {move(e) : e \in resets}
           new    == NewEvent(d.last + 1, type, active, rev)
           n      == d.last + 1 + Cardinality(resets)
           r      == QueueDesired(d, active, deleted, force)
<1>1. /\ d.st \in State /\ d.ev \subseteq Event /\ d.last \in Nat /\ IsFiniteSet(d.ev)
      /\ \A e \in d.ev : e.id <= d.last
      /\ \A e1, e2 \in d.ev : e1.id = e2.id => SameKind(e1, e2)
  BY DEF DBOk, Store
<1>2. /\ r.st = [d.st EXCEPT !.row = TRUE, !.active = active, !.rev = rev, !.off = FALSE]
      /\ r.ev = kept \cup {new} \cup moved
      /\ r.last = n
      /\ r = [st |-> r.st, ev |-> r.ev, last |-> r.last]
  BY DEF QueueDesired
<1>3. rev \in Nat /\ type \in Types
  BY <1>1 DEF State, Types
<1>4. new \in Event /\ new.id = d.last + 1
  <2>1. d.last + 1 \in Nat
    BY <1>1
  <2> QED
    BY <1>3, <2>1, NewEventType DEF NewEvent
<1>5. IsFiniteSet(resets) /\ IsFiniteSet(kept)
  BY <1>1, FS_Subset
<1>6. Cardinality(resets) \in Nat /\ n \in Nat /\ d.last + 1 <= n
  BY <1>1, <1>5, FS_CardinalityType
<1>7. ASSUME NEW e \in resets
      PROVE  /\ move(e) \in Event /\ move(e).id = e.id /\ move(e).type = "mfa_reset"
             /\ e \in d.ev /\ e.type = "mfa_reset"
  <2>1. place(e) \in Nat
    <3>1. IsFiniteSet({x \in resets : x.row <= e.row})
      BY <1>5, FS_Subset
    <3> QED
      BY <1>1, <3>1, FS_CardinalityType
  <2>2. e \in Event
    BY <1>1
  <2> HIDE DEF place, rev
  <2> QED
    BY <1>3, <2>1, <2>2, ConstantsAssumption DEF Event
<1>8. IsFiniteSet(moved)
  <2> DEFINE f == [e \in resets |-> move(e)]
  <2>1. moved = {f[e] : e \in resets}
    OBVIOUS
  <2> HIDE DEF f
  <2>2. IsFiniteSet({f[e] : e \in resets})
    BY <1>5, ImageFinite
  <2> QED
    BY <2>1, <2>2
<1> HIDE DEF unsent, resets, rev, type, place, move, new, n, r
<1>9. r.st \in State
  BY <1>1, <1>2, <1>3 DEF State
<1>10. r.ev \subseteq Event /\ IsFiniteSet(r.ev)
  <2>1. r.ev \subseteq Event
    BY <1>1, <1>2, <1>4, <1>7
  <2>2. IsFiniteSet(kept \cup {new})
    BY <1>5, FS_AddElement
  <2> HIDE DEF kept, moved
  <2>3. IsFiniteSet((kept \cup {new}) \cup moved)
    BY <1>8, <2>2, FS_Union
  <2> QED
    BY <1>2, <2>1, <2>3
<1>11. r \in Store
  BY <1>2, <1>6, <1>9, <1>10 DEF Store
<1>12. ASSUME NEW e \in r.ev
       PROVE  e = new \/ \E o \in d.ev : o.id = e.id /\ SameKind(o, e)
  <2>1. CASE e \in kept
    BY <2>1 DEF SameKind
  <2>2. CASE e \in moved
    <3>1. PICK o \in resets : e = move(o)
      BY <2>2
    <3> QED
      BY <1>7, <3>1 DEF SameKind, Removal
  <2> QED
    BY <1>2, <2>1, <2>2
<1>13. \A e \in r.ev : e.id <= r.last
  <2> SUFFICES ASSUME NEW e \in r.ev PROVE e.id <= r.last
    OBVIOUS
  <2>1. e.id \in Nat /\ \A o \in d.ev : o.id \in Nat
    BY <1>1, <1>10 DEF Event
  <2> QED
    BY <1>1, <1>2, <1>4, <1>6, <1>12, <2>1
<1>14. \A e1, e2 \in r.ev : e1.id = e2.id => SameKind(e1, e2)
  <2> SUFFICES ASSUME NEW e1 \in r.ev, NEW e2 \in r.ev, e1.id = e2.id
               PROVE  SameKind(e1, e2)
    OBVIOUS
  <2>1. \A o \in d.ev : o.id \in Nat /\ o.id # new.id
    BY <1>1, <1>4 DEF Event
  <2>2. CASE e1 = new /\ e2 = new
    BY <2>2 DEF SameKind
  <2>3. CASE e1 # new /\ e2 # new
    <3>1. PICK o1 \in d.ev : o1.id = e1.id /\ SameKind(o1, e1)
      BY <1>12, <2>3
    <3>2. PICK o2 \in d.ev : o2.id = e2.id /\ SameKind(o2, e2)
      BY <1>12, <2>3
    <3>3. SameKind(o1, o2)
      BY <1>1, <3>1, <3>2
    <3> QED
      BY <3>1, <3>2, <3>3 DEF SameKind
  <2> QED
    BY <1>12, <2>1, <2>2, <2>3
<1>15. Follows(d, r)
  BY <1>1, <1>2, <1>4, <1>6, <1>12 DEF Follows
<1>16. DBOk(r)
  BY <1>10, <1>11, <1>13, <1>14 DEF DBOk
<1> QED
  BY <1>15, <1>16 DEF r

\* The tail of reconcileProvisioningTx drops and re-queues events, and changes no kind.
LEMMA ReviveOk ==
    ASSUME NEW d, DBOk(d)
    PROVE  DBOk(Revive(d)) /\ Follows(d, Revive(d))
<1> DEFINE idle(e)      == e.status = "failed" /\ ~Fenced(e)
           overtaken(e) == idle(e) /\ e.type \notin {"deleted", "mfa_reset"} /\ e.rev # d.st.rev
           again(e)     == IF idle(e) THEN [e EXCEPT !.status = "pending", !.att = 0, !.due = FALSE] ELSE e
           S            == {x \in d.ev : ~overtaken(x)}
           r            == Revive(d)
<1>1. /\ d.st \in State /\ d.ev \subseteq Event /\ d.last \in Nat /\ IsFiniteSet(d.ev)
      /\ \A e \in d.ev : e.id <= d.last
      /\ \A e1, e2 \in d.ev : e1.id = e2.id => SameKind(e1, e2)
  BY DEF DBOk, Store
<1>2. r.ev \subseteq Event => r \in Store
  BY DEF Revive, DBOk, Store
<1>3. r.st = d.st /\ r.last = d.last /\ r.ev = {again(e) : e \in S}
  BY DEF Revive, DBOk, Store
<1>4. ASSUME NEW e \in S
      PROVE  again(e) \in Event /\ again(e).id = e.id /\ SameKind(e, again(e)) /\ e \in d.ev
  <2>1. e \in d.ev /\ e \in Event /\ 0 \in 0..Budget
    BY <1>1, ConstantsAssumption
  <2> HIDE DEF idle
  <2>2. again(e) \in Event
    BY <2>1 DEF Event
  <2>3. again(e).id = e.id /\ again(e).type = e.type /\ again(e).active = e.active
    BY <2>1 DEF Event
  <2> QED
    BY <2>1, <2>2, <2>3 DEF SameKind, Removal
<1>5. IsFiniteSet(r.ev)
  <2> DEFINE f == [e \in S |-> again(e)]
  <2>1. r.ev = {f[e] : e \in S}
    BY <1>3
  <2>2. IsFiniteSet(S)
    BY <1>1, FS_Subset
  <2> HIDE DEF f, S
  <2>3. IsFiniteSet({f[e] : e \in S})
    BY <2>2, ImageFinite
  <2> QED
    BY <2>1, <2>3
<1> HIDE DEF again, S, r
<1>6. \A e \in r.ev : e \in Event /\ \E o \in d.ev : o.id = e.id /\ SameKind(o, e)
  BY <1>3, <1>4
<1>7. r \in Store
  BY <1>1, <1>2, <1>6 DEF r
<1>8. \A e \in r.ev : e.id <= r.last
  BY <1>1, <1>3, <1>6
<1>9. \A e1, e2 \in r.ev : e1.id = e2.id => SameKind(e1, e2)
  <2> SUFFICES ASSUME NEW e1 \in r.ev, NEW e2 \in r.ev, e1.id = e2.id
               PROVE  SameKind(e1, e2)
    OBVIOUS
  <2>1. PICK o1 \in d.ev : o1.id = e1.id /\ SameKind(o1, e1)
    BY <1>6
  <2>2. PICK o2 \in d.ev : o2.id = e2.id /\ SameKind(o2, e2)
    BY <1>6
  <2>3. SameKind(o1, o2)
    BY <1>1, <2>1, <2>2
  <2> QED
    BY <2>1, <2>2, <2>3 DEF SameKind
<1> QED
  BY <1>1, <1>3, <1>5, <1>6, <1>7, <1>8, <1>9 DEF DBOk, Follows, r

\* reconcileProvisioningTx: at most one queued state, then the tail.
LEMMA ReconcileOk ==
    ASSUME NEW d, DBOk(d), NEW allowed \in BOOLEAN
    PROVE  DBOk(Reconcile(d, allowed)) /\ Follows(d, Reconcile(d, allowed))
<1> DEFINE q == IF allowed /\ ~d.st.active THEN QueueDesired(d, TRUE, FALSE, FALSE)
                ELSE IF ~allowed /\ d.st.active THEN QueueDesired(d, FALSE, FALSE, FALSE)
                ELSE d
<1>1. DBOk(q) /\ Follows(d, q)
  BY QueueDesiredOk, FollowsReflexive
<1>2. Reconcile(d, allowed) = Revive(q)
  BY DEF Reconcile
<1> HIDE DEF q
<1>3. DBOk(Revive(q)) /\ Follows(q, Revive(q))
  BY <1>1, ReviveOk
<1> QED
  BY <1>1, <1>2, <1>3, FollowsTransitive

\* offboardUserTx: nothing, or one inactive state.
LEMMA OffboardOk ==
    ASSUME NEW d, DBOk(d), NEW deleted \in BOOLEAN, mapped \in BOOLEAN
    PROVE  DBOk(Offboard(d, deleted)) /\ Follows(d, Offboard(d, deleted))
<1> DEFINE p == [d EXCEPT !.st.prov = @ \/ mapped]
<1>1. p \in Store /\ p.ev = d.ev /\ p.last = d.last
  BY DEF DBOk, Store, State
<1>2. DBOk(p) /\ Follows(d, p)
  BY <1>1, FollowsReflexive DEF DBOk, Follows
<1>3. Offboard(d, deleted) = IF d.st.row \/ mapped THEN QueueDesired(p, FALSE, deleted, FALSE) ELSE d
  BY DEF Offboard
<1> HIDE DEF p
<1>4. DBOk(QueueDesired(p, FALSE, deleted, FALSE)) /\ Follows(p, QueueDesired(p, FALSE, deleted, FALSE))
  BY <1>2, QueueDesiredOk
<1> QED
  BY <1>2, <1>3, <1>4, FollowsTransitive, FollowsReflexive

-----------------------------------------------------------------------------
(* The invariant holds initially and every action keeps it.                *)

\* The initial state satisfies the invariant.
LEMMA InitOk == Init => IInv
<1> SUFFICES ASSUME Init PROVE IInv
  OBVIOUS
<1>1. NoEvent \in Event /\ NoRow \in State
  BY ConstantsAssumption DEF NoEvent, Event, Types, NoRow, State
<1>2. Idle.pc = "idle" /\ Idle.ev = NoEvent /\ NoEvent.id = 0
  BY DEF Idle, NoEvent
<1>3. TypeOK
  <2>1. remote \in [known : BOOLEAN, active : BOOLEAN, ver : Nat, type : Types]
    BY DEF Init, Types
  <2>2. wk \in [Workers -> [pc : {"idle", "claimed", "begun", "sent", "ok", "refused"}, ev : Event]]
    BY <1>1 DEF Init, Idle
  <2> QED
    BY <1>1, <2>1, <2>2 DEF Init, TypeOK, State
<1>4. IsFiniteSet(outbox)
  BY FS_EmptySet DEF Init
<1>5. \A w \in Workers : wk[w].pc = "idle" /\ wk[w].ev.id = 0
  BY <1>2 DEF Init
<1>6. outbox = {} /\ fence = {} /\ wire = {} /\ last = 0
  BY DEF Init
<1> QED
  BY <1>3, <1>4, <1>5, <1>6 DEF IInv, Types_OK, IdsBounded, KindsAgree, TokensOwned, WriteOfWorker,
     FenceOfEvent, BegunFenced, UncertainWriteHoldsFence, Busy

\* Every transaction starts from a well-formed store.
LEMMA StoreOk ==
    ASSUME IInv
    PROVE  DBOk(DB) /\ DB.st = st /\ DB.ev = outbox /\ DB.last = last
BY DEF IInv, Types_OK, TypeOK, IdsBounded, KindsAgree, DBOk, DB, Store, State

\* A transaction that only queues keeps the invariant: fences, workers and writes are
\* untouched, and what they refer to has stayed what it was.
LEMMA QueueingOk ==
    ASSUME IInv, NEW d, DBOk(d), Follows(DB, d), Commit(d),
           user' \in {"active", "ended", "disabled", "deleted"},
           assigned' \in BOOLEAN, mapped' \in BOOLEAN, started' \in BOOLEAN, sys' = sys,
           changes' \in Nat,
           UNCHANGED <<fence, wk, wire, remote, faults>>
    PROVE  IInv'
<1>1. DBOk(DB) /\ DB.st = st /\ DB.ev = outbox /\ DB.last = last
  BY StoreOk
<1>2. st' = d.st /\ outbox' = d.ev /\ last' = d.last
  BY DEF Commit
<1>3. d.st \in State /\ d.ev \subseteq Event /\ d.last \in Nat /\ IsFiniteSet(d.ev)
  BY DEF DBOk, Store
<1>4. Types_OK'
  BY <1>2, <1>3 DEF IInv, Types_OK, TypeOK, State
<1>5. last \in Nat /\ last' \in Nat /\ last <= last'
  BY <1>1, <1>2, <1>3 DEF Follows, IInv, Types_OK, TypeOK
<1>6. /\ \A f \in fence : f.ev \in Nat
      /\ \A x \in wire : x.ev \in Nat
      /\ \A w \in Workers : wk[w].ev.id \in Nat
      /\ \A e \in outbox' : e.id \in Nat
  BY <1>4 DEF IInv, Types_OK, TypeOK, Fence, Write, Event
<1>7. IdsBounded'
  BY <1>2, <1>5, <1>6 DEF IInv, IdsBounded, DBOk
<1>8. ASSUME NEW e \in outbox', NEW id \in Nat, e.id = id, id <= last
      PROVE  \E o \in outbox : o.id = id /\ SameKind(o, e)
  BY <1>1, <1>2, <1>5, <1>6, <1>8 DEF Follows
<1>9. KindsAgree'
  <2>1. \A e1, e2 \in outbox' : e1.id = e2.id => SameKind(e1, e2)
    BY <1>2 DEF DBOk
  <2>2. ASSUME NEW e \in outbox', NEW x \in wire, e.id = x.ev PROVE SameKind(e, x)
    <3>1. PICK o \in outbox : o.id = x.ev /\ SameKind(o, e)
      BY <1>6, <1>8, <2>2 DEF IInv, IdsBounded
    <3> QED
      BY <3>1 DEF IInv, KindsAgree, SameKind
  <2>3. ASSUME NEW e \in outbox', NEW w \in Workers, Busy(w), e.id = wk[w].ev.id
        PROVE  SameKind(e, wk[w].ev)
    <3>1. PICK o \in outbox : o.id = wk[w].ev.id /\ SameKind(o, e)
      BY <1>6, <1>8, <2>3 DEF IInv, IdsBounded
    <3> QED
      BY <2>3, <3>1 DEF IInv, KindsAgree, SameKind
  <2> QED
    BY <2>1, <2>2, <2>3 DEF KindsAgree, Busy, SameKind, Removal
<1>10. /\ TokensOwned' /\ WriteOfWorker' /\ FenceOfEvent' /\ BegunFenced'
       /\ UncertainWriteHoldsFence'
  BY DEF IInv, TokensOwned, WriteOfWorker, FenceOfEvent, BegunFenced, UncertainWriteHoldsFence,
     Busy, SameKind, Removal
<1> QED
  BY <1>4, <1>7, <1>9, <1>10 DEF IInv

\* Every directory transaction keeps the invariant.
LEMMA DirectoryOk ==
    ASSUME IInv, Directory
    PROVE  IInv'
<1>1. DBOk(DB) /\ DB.st = st /\ DB.ev = outbox /\ DB.last = last
  BY StoreOk
<1>2. /\ user \in {"active", "ended", "disabled", "deleted"} /\ assigned \in BOOLEAN
      /\ mapped \in BOOLEAN /\ started \in BOOLEAN /\ sys \in {"held", "on", "gone"} /\ changes \in Nat
      /\ st \in State /\ outbox \subseteq Event /\ last \in Nat
  BY DEF IInv, Types_OK, TypeOK, State
<1>3. \A u, a : a \in BOOLEAN => Allowed(u, a) \in BOOLEAN
  BY DEF Allowed
<1>4. ASSUME NEW a \in BOOLEAN, SetAssigned(a) PROVE IInv'
  <2> DEFINE d == Reconcile(DB, Allowed(user, a))
  <2>1. DBOk(d) /\ Follows(DB, d)
    BY <1>1, <1>3, ReconcileOk
  <2> HIDE DEF d
  <2>2. Commit(d) /\ changes' \in Nat
    BY <1>2, <1>4 DEF SetAssigned, Change, d
  <2> QED
    BY <1>2, <1>4, <2>1, <2>2, QueueingOk DEF SetAssigned
<1>5. CASE AssignmentLapses
  <2>1. Commit(DB) /\ Follows(DB, DB)
    BY <1>1, <1>5, FollowsReflexive DEF AssignmentLapses, Commit
  <2>2. changes' \in Nat
    BY <1>2, <1>5 DEF AssignmentLapses, Change
  <2> QED
    BY <1>1, <1>2, <1>5, <2>1, <2>2, QueueingOk DEF AssignmentLapses
<1>6. CASE EndDatePasses
  <2>1. Commit(DB) /\ Follows(DB, DB)
    BY <1>1, <1>6, FollowsReflexive DEF EndDatePasses, Commit
  <2>2. changes' \in Nat
    BY <1>2, <1>6 DEF EndDatePasses, Change
  <2> QED
    BY <1>1, <1>2, <1>6, <2>1, <2>2, QueueingOk DEF EndDatePasses
<1>7. CASE ExpireAccount
  <2>1. DBOk(Offboard(DB, FALSE)) /\ Follows(DB, Offboard(DB, FALSE))
    BY <1>1, <1>2, OffboardOk
  <2>2. Commit(Offboard(DB, FALSE))
    BY <1>7 DEF ExpireAccount
  <2> QED
    BY <1>2, <1>7, <2>1, <2>2, QueueingOk DEF ExpireAccount
<1>8. ASSUME NEW status \in {"active", "disabled"}, UpdateUser(status) PROVE IInv'
  <2> DEFINE off == IF user = "active" /\ status = "disabled" THEN Offboard(DB, FALSE) ELSE DB
             upd == IF off.st.active /\ Allowed(status, assigned)
                    THEN QueueDesired(off, TRUE, FALSE, FALSE) ELSE off
             d   == Reconcile(upd, Allowed(status, assigned))
  <2>1. DBOk(off) /\ Follows(DB, off)
    BY <1>1, <1>2, OffboardOk, FollowsReflexive
  <2> HIDE DEF off
  <2>2. DBOk(upd) /\ Follows(off, upd)
    BY <2>1, QueueDesiredOk, FollowsReflexive
  <2> HIDE DEF upd
  <2>3. DBOk(d) /\ Follows(upd, d)
    BY <1>2, <1>3, <2>2, ReconcileOk
  <2> HIDE DEF d
  <2>4. Follows(DB, upd)
    BY <1>1, <2>1, <2>2, FollowsTransitive
  <2>5. Follows(DB, d)
    BY <1>1, <2>2, <2>3, <2>4, FollowsTransitive
  <2>6. Commit(d)
    BY <1>8 DEF UpdateUser, d, upd, off
  <2>7. changes' \in Nat
    BY <1>2, <1>8 DEF UpdateUser, Change
  <2> QED
    BY <1>2, <1>8, <2>3, <2>5, <2>6, <2>7, QueueingOk DEF UpdateUser
<1>9. CASE DeleteUser
  <2> DEFINE off  == Offboard(DB, TRUE)
             bare == [st |-> [NoRow EXCEPT !.row = TRUE],
                      ev |-> off.ev \cup {NewEvent(last + 1, "deleted", FALSE, 0)},
                      last |-> last + 1]
             mid  == IF off.st.row THEN off ELSE bare
             d    == Reconcile(mid, FALSE)
  <2>1. DBOk(off) /\ Follows(DB, off)
    BY <1>1, <1>2, OffboardOk
  <2>2. ~off.st.row => off = DB
    BY <1>1 DEF Offboard, QueueDesired, DBOk, Store, State
  <2> HIDE DEF off
  <2>3. ASSUME off = DB PROVE DBOk(bare) /\ Follows(DB, bare)
    <3> DEFINE new == NewEvent(last + 1, "deleted", FALSE, 0)
    <3>1. last + 1 \in Nat
      BY <1>2
    <3>2. new \in Event /\ new.id = last + 1
      BY <3>1, NewEventType DEF Types, NewEvent
    <3> HIDE DEF new
    <3>3. bare.st \in State
      BY DEF State, NoRow
    <3>4. bare.ev = outbox \cup {new} /\ bare.last = last + 1
      BY <1>1, <2>3 DEF new
    <3>5. IsFiniteSet(bare.ev)
      BY <1>1, <3>4, FS_AddElement DEF DBOk
    <3>6. bare \in Store
      BY <1>2, <3>1, <3>2, <3>3, <3>4 DEF Store
    <3> HIDE DEF bare
    <3>7. \A e \in outbox : e.id \in Nat /\ e.id <= last
      BY <1>1, <1>2 DEF DBOk, Event
    <3>8. \A e \in bare.ev : e.id <= bare.last
      BY <1>2, <3>2, <3>4, <3>7
    <3>9. \A e1, e2 \in bare.ev : e1.id = e2.id => SameKind(e1, e2)
      BY <1>1, <1>2, <3>2, <3>4, <3>7 DEF DBOk, SameKind
    <3>10. \A e \in bare.ev : e.id > DB.last \/ \E o \in DB.ev : o.id = e.id /\ SameKind(o, e)
      BY <1>1, <1>2, <3>2, <3>4, <3>7 DEF SameKind
    <3> QED
      BY <1>1, <1>2, <3>4, <3>5, <3>6, <3>8, <3>9, <3>10 DEF DBOk, Follows
  <2>4. DBOk(mid) /\ Follows(DB, mid)
    BY <2>1, <2>2, <2>3
  <2> HIDE DEF mid
  <2>5. DBOk(d) /\ Follows(mid, d)
    BY <2>4, ReconcileOk
  <2> HIDE DEF d
  <2>6. Follows(DB, d)
    BY <1>1, <2>4, <2>5, FollowsTransitive
  <2>7. Commit(d)
    BY <1>9 DEF DeleteUser, d, mid, off
  <2>8. changes' \in Nat
    BY <1>2, <1>9 DEF DeleteUser, Change
  <2> QED
    BY <1>2, <1>9, <2>5, <2>6, <2>7, <2>8, QueueingOk DEF DeleteUser
<1>10. CASE ResetUserMFA
  <2> DEFINE new == NewEvent(last + 1, "mfa_reset", user = "active", st.rev)
             d   == [st |-> st, ev |-> outbox \cup {new}, last |-> last + 1]
  <2>1. last + 1 \in Nat /\ st.rev \in Nat /\ (user = "active") \in BOOLEAN
    BY <1>2 DEF State
  <2>2. new \in Event /\ new.id = last + 1
    BY <2>1, NewEventType DEF Types, NewEvent
  <2> HIDE DEF new
  <2>3. IsFiniteSet(d.ev)
    BY <1>1, FS_AddElement DEF DBOk
  <2>4. d \in Store
    BY <1>2, <2>1, <2>2 DEF Store
  <2>5. \A e \in outbox : e.id \in Nat /\ e.id <= last
    BY <1>1, <1>2 DEF DBOk, Event
  <2>6. \A e \in d.ev : e.id <= d.last
    BY <1>2, <2>2, <2>5
  <2>7. \A e1, e2 \in d.ev : e1.id = e2.id => SameKind(e1, e2)
    BY <1>1, <1>2, <2>2, <2>5 DEF DBOk, SameKind
  <2>8. \A e \in d.ev : e.id > DB.last \/ \E o \in DB.ev : o.id = e.id /\ SameKind(o, e)
    BY <1>1, <1>2, <2>2, <2>5 DEF SameKind
  <2>9. DBOk(d) /\ Follows(DB, d)
    BY <1>1, <1>2, <2>3, <2>4, <2>6, <2>7, <2>8 DEF DBOk, Follows
  <2>10. Commit(d)
    BY <1>10 DEF ResetUserMFA, Commit, new
  <2>11. changes' \in Nat
    BY <1>2, <1>10 DEF ResetUserMFA, Change
  <2> HIDE DEF d
  <2> QED
    BY <1>2, <1>10, <2>9, <2>10, <2>11, QueueingOk DEF ResetUserMFA, dir
<1>11. CASE ReconcileProvisioning
  <2>1. Access \in BOOLEAN
    BY <1>2, <1>3 DEF Access
  <2>2. DBOk(Reconcile(DB, Access)) /\ Follows(DB, Reconcile(DB, Access))
    BY <1>1, <2>1, ReconcileOk
  <2>3. Commit(Reconcile(DB, Access))
    BY <1>11 DEF ReconcileProvisioning
  <2> QED
    BY <1>2, <1>11, <2>2, <2>3, QueueingOk DEF ReconcileProvisioning, dir
<1>12. CASE ResyncSystem
  <2> DEFINE r == Reconcile(DB, Access)
             known == [r EXCEPT !.st.row = @ \/ mapped, !.st.prov = @ \/ (mapped /\ ~r.st.active)]
             d == IF r.st.active THEN IF user # "deleted" THEN QueueDesired(r, TRUE, FALSE, TRUE) ELSE r
                  ELSE IF known.st.row THEN QueueDesired(known, FALSE, FALSE, FALSE) ELSE r
  <2>1. Access \in BOOLEAN
    BY <1>2, <1>3 DEF Access
  <2>2. DBOk(r) /\ Follows(DB, r)
    BY <1>1, <2>1, ReconcileOk
  <2> HIDE DEF r
  <2>3. known \in Store /\ known.ev = r.ev /\ known.last = r.last
    BY <1>2, <2>2 DEF DBOk, Store, State
  <2> HIDE DEF known
  <2>4. DBOk(known) /\ Follows(r, known)
    BY <2>2, <2>3, FollowsReflexive DEF DBOk, Follows
  <2>5. /\ DBOk(QueueDesired(r, TRUE, FALSE, TRUE)) /\ Follows(r, QueueDesired(r, TRUE, FALSE, TRUE))
        /\ DBOk(QueueDesired(known, FALSE, FALSE, FALSE))
        /\ Follows(known, QueueDesired(known, FALSE, FALSE, FALSE))
    BY <2>2, <2>4, QueueDesiredOk
  <2>6. Follows(r, QueueDesired(known, FALSE, FALSE, FALSE))
    BY <2>2, <2>4, <2>5, FollowsTransitive
  <2>7. DBOk(d) /\ Follows(r, d)
    BY <2>2, <2>5, <2>6, FollowsReflexive
  <2> HIDE DEF d
  <2>8. Follows(DB, d)
    BY <1>1, <2>2, <2>7, FollowsTransitive
  <2>9. Commit(d)
    BY <1>12 DEF ResyncSystem, d, known, r
  <2>10. changes' \in Nat
    BY <1>2, <1>12 DEF ResyncSystem, Change
  <2> QED
    BY <1>2, <1>12, <2>7, <2>8, <2>9, <2>10, QueueingOk DEF ResyncSystem, dir
<1>13. CASE ReleaseHold
  <2>1. Types_OK'
    BY <1>13 DEF ReleaseHold, IInv, Types_OK, TypeOK
  <2> QED
    BY <1>13, <2>1 DEF ReleaseHold, IInv, IdsBounded, KindsAgree, TokensOwned, WriteOfWorker,
       FenceOfEvent, BegunFenced, UncertainWriteHoldsFence, Busy, SameKind, Removal
<1>14. CASE DeletePairedSystem
  <2>1. NoRow \in State /\ IsFiniteSet({})
    BY FS_EmptySet DEF NoRow, State
  <2>2. Types_OK'
    BY <1>14, <2>1 DEF DeletePairedSystem, IInv, Types_OK, TypeOK, State
  <2> QED
    BY <1>14, <2>2 DEF DeletePairedSystem, IInv, IdsBounded, KindsAgree, TokensOwned, WriteOfWorker,
       FenceOfEvent, BegunFenced, UncertainWriteHoldsFence, Busy, SameKind, Removal
<1> QED
  BY <1>4, <1>5, <1>6, <1>7, <1>8, <1>9, <1>10, <1>11, <1>12, <1>13, <1>14 DEF Directory

-----------------------------------------------------------------------------
(* Dispatchers, the receiver, the clock and the operator.                   *)

\* Editing queued events in place, with no new claim and no new write, leaves IDs bounded
\* and kinds agreeing.
LEMMA EditOk ==
    ASSUME IInv, last' = last,
           \A e \in outbox' : \E o \in outbox : o.id = e.id /\ SameKind(o, e),
           wire' \subseteq wire,
           \A f \in fence' : f.ev <= last,
           \A w \in Workers : \/ wk'[w].pc = "idle" /\ wk'[w].ev.id <= last
                              \/ Busy(w) /\ wk'[w].ev = wk[w].ev
    PROVE  IdsBounded' /\ KindsAgree'
<1>1. IdsBounded'
  BY DEF IInv, IdsBounded
<1>2. \A e1, e2 \in outbox' : e1.id = e2.id => SameKind(e1, e2)
  BY DEF IInv, KindsAgree, SameKind
<1>3. \A e \in outbox', x \in wire' : e.id = x.ev => SameKind(e, x)
  BY DEF IInv, KindsAgree, SameKind
<1>4. \A e \in outbox', w \in Workers :
        wk'[w].pc # "idle" /\ e.id = wk'[w].ev.id => SameKind(e, wk'[w].ev)
  BY DEF IInv, KindsAgree, SameKind
<1> QED
  BY <1>1, <1>2, <1>3, <1>4 DEF KindsAgree, SameKind, Removal, Busy

\* Tokens, writes and fences still fit when workers only move on or stop, writes only
\* arrive, and fences only go or expire.
LEMMA LessOk ==
    ASSUME IInv, wire' \subseteq wire,
           \A f \in fence' : \E g \in fence : f.tok = g.tok /\ f.ev = g.ev,
           \A w \in Workers : \/ wk'[w].pc = "idle"
                              \/ Busy(w) /\ wk'[w].ev = wk[w].ev /\ wk'[w].pc = wk[w].pc
    PROVE  TokensOwned' /\ WriteOfWorker' /\ FenceOfEvent'
<1>1. TokensOwned'
  BY DEF IInv, TokensOwned, Busy
<1>2. WriteOfWorker'
  BY DEF IInv, WriteOfWorker, Busy, SameKind, Removal
<1>3. FenceOfEvent'
  BY DEF IInv, FenceOfEvent, Busy
<1> QED
  BY <1>1, <1>2, <1>3

\* A worker that stops, with no outcome, keeps the invariant.
LEMMA StopOk ==
    ASSUME IInv, NEW w \in Workers, wk' = [wk EXCEPT ![w] = Idle], faults' \in Nat,
           UNCHANGED <<dir, st, outbox, last, fence, wire, remote, changes>>
    PROVE  IInv'
<1>1. NoEvent \in Event /\ Idle.pc = "idle" /\ Idle.ev = NoEvent /\ NoEvent.id = 0
  BY ConstantsAssumption DEF Idle, NoEvent, Event, Types
<1>2. Types_OK'
  BY <1>1 DEF IInv, Types_OK, TypeOK, Idle, dir
<1>3. \A v \in Workers : wk'[v] = IF v = w THEN Idle ELSE wk[v]
  BY DEF IInv, Types_OK, TypeOK
<1>4. last \in Nat
  BY DEF IInv, Types_OK, TypeOK
<1>5. \A v \in Workers : \/ wk'[v].pc = "idle" /\ wk'[v].ev.id <= last
                         \/ Busy(v) /\ wk'[v].ev = wk[v].ev /\ wk'[v].pc = wk[v].pc
  BY <1>1, <1>3, <1>4 DEF Busy, IInv, IdsBounded
<1>6. IdsBounded' /\ KindsAgree'
  <2>1. \A e \in outbox' : \E o \in outbox : o.id = e.id /\ SameKind(o, e)
    BY DEF SameKind
  <2>2. \A f \in fence' : f.ev <= last
    BY DEF IInv, IdsBounded
  <2> QED
    BY <1>5, <2>1, <2>2, EditOk
<1>7. TokensOwned' /\ WriteOfWorker' /\ FenceOfEvent'
  BY <1>5, LessOk
<1>8. BegunFenced' /\ UncertainWriteHoldsFence'
  BY <1>1, <1>3 DEF IInv, BegunFenced, UncertainWriteHoldsFence, Removal, dir
<1> QED
  BY <1>2, <1>6, <1>7, <1>8 DEF IInv

\* FinishSyncDelivery by a worker whose write, if it is still out, is a removal.
LEMMA FinishOk ==
    ASSUME IInv, NEW w \in Workers, NEW status \in {"pending", "failed", "delivered"},
           NEW att \in 0..Budget, NEW due \in BOOLEAN, Finish(w, status, att, due), faults' \in Nat,
           Busy(w), \A x \in wire : x.tok = wk[w].ev.tok => Removal(x)
    PROVE  IInv'
<1> DEFINE e    == wk[w].ev
           mine == {r \in outbox : r.id = e.id /\ r.tok = e.tok}
           fin(r) == [r EXCEPT !.status = status, !.att = att, !.due = due,
                               !.leased = FALSE, !.tok = NoToken]
           done == {fin(r) : r \in mine}
<1>1. NoEvent \in Event /\ Idle.pc = "idle" /\ Idle.ev = NoEvent /\ NoEvent.id = 0
  BY ConstantsAssumption DEF Idle, NoEvent, Event, Types
<1>2. wk' = [wk EXCEPT ![w] = Idle] /\ UNCHANGED <<dir, last, wire, remote, changes>>
  BY DEF Finish
<1>3. CASE ~ \E f \in fence : f.tok = e.tok
  <2>1. UNCHANGED <<fence, outbox, st>>
    BY <1>3 DEF Finish
  <2> QED
    BY <1>2, <2>1, StopOk DEF dir
<1>4. CASE \E f \in fence : f.tok = e.tok
  <2>1. /\ fence' = {f \in fence : f.tok # e.tok}
        /\ outbox' = (outbox \ mine) \cup (IF status = "delivered" THEN {} ELSE done)
        /\ st' = IF status = "delivered" THEN Provisioned(e) ELSE st
    BY <1>4 DEF Finish
  <2>2. /\ st \in State /\ outbox \subseteq Event /\ IsFiniteSet(outbox) /\ last \in Nat
        /\ e \in Event
    BY DEF IInv, Types_OK, TypeOK, State
  <2>3. st' \in State
    BY <2>1, <2>2 DEF Provisioned, State, Event, Types
  <2>4. ASSUME NEW r \in mine, status # "delivered"
        PROVE  fin(r) \in Event /\ fin(r).id = r.id /\ SameKind(r, fin(r)) /\ r \in outbox
    <3>1. r \in Event /\ status \in {"pending", "failed"}
      BY <2>2, <2>4
    <3>2. fin(r) \in Event /\ fin(r).id = r.id /\ fin(r).type = r.type /\ fin(r).active = r.active
      BY <3>1 DEF Event
    <3> QED
      BY <3>2 DEF SameKind, Removal
  <2>5. IsFiniteSet(outbox')
    <3> DEFINE g == [r \in mine |-> fin(r)]
    <3>1. IsFiniteSet(mine) /\ IsFiniteSet(outbox \ mine)
      BY <2>2, FS_Subset
    <3>2. done = {g[r] : r \in mine}
      OBVIOUS
    <3> HIDE DEF g, mine
    <3>3. IsFiniteSet({g[r] : r \in mine})
      BY <3>1, ImageFinite
    <3> HIDE DEF done
    <3>4. IsFiniteSet((outbox \ mine) \cup done)
      BY <3>1, <3>2, <3>3, FS_Union
    <3>5. CASE status = "delivered"
      <4>1. outbox' = outbox \ mine
        BY <2>1, <3>5
      <4> QED
        BY <3>1, <4>1
    <3>6. CASE status # "delivered"
      <4>1. outbox' = (outbox \ mine) \cup done
        BY <2>1, <3>6
      <4> QED
        BY <3>4, <4>1
    <3> QED
      BY <3>5, <3>6
  <2> HIDE DEF fin
  <2>6. \A q \in outbox' : q \in Event /\ \E o \in outbox : o.id = q.id /\ SameKind(o, q)
    <3> SUFFICES ASSUME NEW q \in outbox'
                 PROVE  q \in Event /\ \E o \in outbox : o.id = q.id /\ SameKind(o, q)
      OBVIOUS
    <3>1. CASE q \in outbox
      BY <2>2, <3>1 DEF SameKind
    <3>2. CASE status # "delivered" /\ q \in done
      BY <2>4, <3>2
    <3> QED
      BY <2>1, <3>1, <3>2
  <2>7. Types_OK'
    BY <1>1, <1>2, <2>1, <2>3, <2>5, <2>6 DEF IInv, Types_OK, TypeOK, State, Idle, dir
  <2>8. \A v \in Workers : wk'[v] = IF v = w THEN Idle ELSE wk[v]
    BY <1>2 DEF IInv, Types_OK, TypeOK
  <2>9. \A v \in Workers : \/ wk'[v].pc = "idle" /\ wk'[v].ev.id <= last
                           \/ Busy(v) /\ wk'[v].ev = wk[v].ev /\ wk'[v].pc = wk[v].pc
    BY <1>1, <2>2, <2>8 DEF Busy, IInv, IdsBounded
  <2>10. IdsBounded' /\ KindsAgree'
    <3>1. \A f \in fence' : f.ev <= last
      BY <2>1 DEF IInv, IdsBounded
    <3> QED
      BY <1>2, <2>6, <2>9, <3>1, EditOk
  <2>11. TokensOwned' /\ WriteOfWorker' /\ FenceOfEvent'
    <3>1. \A f \in fence' : \E g \in fence : f.tok = g.tok /\ f.ev = g.ev
      BY <2>1
    <3> QED
      BY <1>2, <2>9, <3>1, LessOk
  <2>12. BegunFenced'
    <3> SUFFICES ASSUME sys' # "gone", NEW v \in Workers, wk'[v].pc = "begun", ~Removal(wk'[v].ev)
                 PROVE  \E f \in fence' : f.tok = wk'[v].ev.tok
      BY DEF BegunFenced, Removal
    <3>1. v # w /\ wk'[v] = wk[v]
      BY <1>1, <2>8
    <3>2. PICK f \in fence : f.tok = wk[v].ev.tok
      BY <1>2, <3>1 DEF IInv, BegunFenced, dir
    <3>3. wk[v].ev.tok # e.tok
      BY <3>1 DEF IInv, TokensOwned, Busy
    <3> QED
      BY <2>1, <3>1, <3>2, <3>3
  <2>13. UncertainWriteHoldsFence'
    <3> SUFFICES ASSUME sys' # "gone", NEW x \in wire, ~Removal(x)
                 PROVE  \E f \in fence' : f.tok = x.tok
      BY <1>2 DEF UncertainWriteHoldsFence, Removal
    <3>1. PICK f \in fence : f.tok = x.tok
      BY <1>2 DEF IInv, UncertainWriteHoldsFence, dir
    <3>2. x.tok # e.tok
      OBVIOUS
    <3> QED
      BY <2>1, <3>1, <3>2
  <2> QED
    BY <2>7, <2>10, <2>11, <2>12, <2>13 DEF IInv
<1> QED
  BY <1>3, <1>4

\* ClaimDueSyncEvents frees only fences of removals, and leases the head event under a
\* token nothing else carries.
LEMMA ClaimOk ==
    ASSUME IInv, NEW w \in Workers, NEW t \in Tokens, ClaimDueSyncEvents(w, t)
    PROVE  IInv'
<1> DEFINE free(e) == [e EXCEPT !.status = "pending", !.due = TRUE, !.leased = FALSE, !.tok = NoToken]
           freed  == {free(e) : e \in ReleasedByExpiry}
           events == (outbox \ ReleasedByExpiry) \cup freed
           fences == {f \in fence : ~ \E e \in ReleasedByExpiry : e.id = f.ev}
           heads  == {e \in events : Claimable(e, events, fences)}
           claim(e) == [Prepare(e) EXCEPT !.tok = t, !.leased = TRUE]
<1>1. /\ wk[w].pc = "idle" /\ sys # "gone" /\ FreshToken(t) /\ fence' = fences
      /\ UNCHANGED <<dir, last, wire, remote, changes, faults>>
      /\ \/ outbox' = events /\ UNCHANGED <<st, wk>>
         \/ \E e \in heads :
              /\ outbox' = (events \ {e}) \cup {claim(e)}
              /\ st' = [st EXCEPT !.row = TRUE, !.dv = MaxOf(@, claim(e).dv)]
              /\ wk' = [wk EXCEPT ![w] = [pc |-> "claimed", ev |-> claim(e)]]
  BY DEF ClaimDueSyncEvents
<1>2. /\ st \in State /\ outbox \subseteq Event /\ IsFiniteSet(outbox) /\ last \in Nat
      /\ assigned \in BOOLEAN
  BY DEF IInv, Types_OK, TypeOK, State
<1>3. ASSUME NEW e \in ReleasedByExpiry
      PROVE  /\ free(e) \in Event /\ free(e).id = e.id /\ SameKind(e, free(e))
             /\ e \in outbox /\ Removal(e)
  <2>1. e \in outbox /\ e \in Event /\ Removal(e)
    BY <1>2 DEF ReleasedByExpiry
  <2>2. free(e) \in Event /\ free(e).id = e.id /\ free(e).type = e.type /\ free(e).active = e.active
    BY <2>1 DEF Event
  <2> QED
    BY <2>1, <2>2 DEF SameKind, Removal
<1>4. IsFiniteSet(events)
  <2> DEFINE g == [e \in ReleasedByExpiry |-> free(e)]
  <2>1. IsFiniteSet(ReleasedByExpiry) /\ IsFiniteSet(outbox \ ReleasedByExpiry)
    BY <1>2, FS_Subset DEF ReleasedByExpiry
  <2>2. freed = {g[e] : e \in ReleasedByExpiry}
    OBVIOUS
  <2> HIDE DEF g
  <2>3. IsFiniteSet({g[e] : e \in ReleasedByExpiry})
    BY <2>1, ImageFinite
  <2> HIDE DEF freed
  <2> QED
    BY <2>1, <2>2, <2>3, FS_Union
<1> HIDE DEF free
<1>5. \A q \in events : q \in Event /\ \E o \in outbox : o.id = q.id /\ SameKind(o, q)
  <2> SUFFICES ASSUME NEW q \in events
               PROVE  q \in Event /\ \E o \in outbox : o.id = q.id /\ SameKind(o, q)
    OBVIOUS
  <2>1. CASE q \in outbox
    BY <1>2, <2>1 DEF SameKind
  <2>2. CASE q \in freed
    BY <1>3, <2>2
  <2> QED
    BY <2>1, <2>2
<1>6. ASSUME NEW e \in heads
      PROVE  /\ claim(e) \in Event /\ claim(e).id = e.id /\ SameKind(e, claim(e))
             /\ claim(e).tok = t /\ claim(e).dv \in Nat /\ e \in events
  <2>1. e \in Event /\ e \in events
    BY <1>5
  <2>2. \A a, b \in Nat : MaxOf(a, b) \in Nat
    BY DEF MaxOf
  <2>3. MaxOf(MaxOf(st.dv + 1, st.rev + 1), e.rev) \in Nat
    <3>1. st.dv + 1 \in Nat /\ st.rev + 1 \in Nat /\ e.rev \in Nat
      BY <1>2, <2>1 DEF State, Event
    <3> QED
      BY <2>2, <3>1
  <2>4. /\ Prepare(e) \in Event /\ Prepare(e).id = e.id /\ Prepare(e).type = e.type
        /\ e.type = "mfa_reset" \/ Prepare(e).active = e.active
    <3>1. CASE e.dv # 0
      BY <2>1, <3>1 DEF Prepare
    <3>2. CASE e.dv = 0
      <4> DEFINE n == MaxOf(MaxOf(st.dv + 1, st.rev + 1), e.rev)
                 a == e.active /\ (e.type = "mfa_reset" => st.active /\ Access)
      <4>1. Prepare(e) = [e EXCEPT !.dv = n, !.active = a]
        BY <2>1, <3>2 DEF Prepare
      <4>2. a \in BOOLEAN /\ (e.type # "mfa_reset" => a = e.active)
        BY <1>2, <2>1 DEF Event, State, Access, Allowed
      <4>3. n \in Nat
        BY <2>3
      <4> HIDE DEF n, a
      <4> QED
        BY <2>1, <4>1, <4>2, <4>3 DEF Event
    <3> QED
      BY <3>1, <3>2
  <2>5. claim(e) \in Event /\ claim(e).id = e.id /\ claim(e).type = e.type /\ claim(e).tok = t
        /\ claim(e).active = Prepare(e).active
    BY <2>4 DEF Event
  <2>6. claim(e).dv \in Nat
    BY <2>5 DEF Event
  <2> HIDE DEF claim
  <2> QED
    BY <2>1, <2>4, <2>5, <2>6 DEF SameKind, Removal
<1> HIDE DEF events, heads, claim
<1>7. \A f \in fence' : f \in fence
  BY <1>1
<1>8. \A f \in fence : f \in fence' \/ \E e \in outbox : e.id = f.ev /\ Removal(e)
  BY <1>1, <1>3
<1>9. UncertainWriteHoldsFence'
  <2> SUFFICES ASSUME NEW x \in wire, ~Removal(x) PROVE \E f \in fence' : f.tok = x.tok
    BY <1>1 DEF UncertainWriteHoldsFence, Removal
  <2>1. PICK f \in fence : f.tok = x.tok
    BY <1>1 DEF IInv, UncertainWriteHoldsFence
  <2>2. f.ev = x.ev
    BY <2>1 DEF IInv, FenceOfEvent
  <2> QED
    BY <1>8, <2>1, <2>2 DEF IInv, KindsAgree, SameKind
<1>10. ASSUME NEW v \in Workers, wk[v].pc = "begun", ~Removal(wk[v].ev)
       PROVE  \E f \in fence' : f.tok = wk[v].ev.tok
  <2>1. PICK f \in fence : f.tok = wk[v].ev.tok
    BY <1>1, <1>10 DEF IInv, BegunFenced
  <2>2. f.ev = wk[v].ev.id
    BY <1>10, <2>1 DEF IInv, FenceOfEvent, Busy
  <2> QED
    BY <1>8, <1>10, <2>1, <2>2 DEF IInv, KindsAgree, SameKind, Busy
<1>11. CASE outbox' = events /\ UNCHANGED <<st, wk>>
  <2>1. Types_OK'
    BY <1>1, <1>4, <1>5, <1>7, <1>11 DEF IInv, Types_OK, TypeOK, dir
  <2>2. \A v \in Workers : \/ wk'[v].pc = "idle" /\ wk'[v].ev.id <= last
                           \/ Busy(v) /\ wk'[v].ev = wk[v].ev /\ wk'[v].pc = wk[v].pc
    BY <1>11 DEF Busy, IInv, IdsBounded
  <2>3. \A f \in fence' : f.ev <= last
    BY <1>7 DEF IInv, IdsBounded
  <2>4. IdsBounded' /\ KindsAgree'
    BY <1>1, <1>5, <1>11, <2>2, <2>3, EditOk
  <2>5. TokensOwned' /\ WriteOfWorker' /\ FenceOfEvent'
    BY <1>1, <1>7, <2>2, LessOk
  <2>6. BegunFenced'
    BY <1>10, <1>11 DEF BegunFenced, Removal
  <2> QED
    BY <1>9, <2>1, <2>4, <2>5, <2>6 DEF IInv
<1>12. ASSUME NEW e \in heads, outbox' = (events \ {e}) \cup {claim(e)},
              st' = [st EXCEPT !.row = TRUE, !.dv = MaxOf(@, claim(e).dv)],
              wk' = [wk EXCEPT ![w] = [pc |-> "claimed", ev |-> claim(e)]]
       PROVE  IInv'
  <2> DEFINE c == claim(e)
  <2>1. c \in Event /\ c.id = e.id /\ SameKind(e, c) /\ c.tok = t /\ c.dv \in Nat /\ e \in events
    BY <1>6
  <2> HIDE DEF c
  <2>2. \A v \in Workers : wk'[v] = IF v = w THEN [pc |-> "claimed", ev |-> c] ELSE wk[v]
    BY <1>12 DEF IInv, Types_OK, TypeOK, c
  <2>3. Types_OK'
    <3>1. st' \in State
      BY <1>2, <1>12, <2>1 DEF State, MaxOf, c
    <3>2. outbox' \subseteq Event
      BY <1>5, <1>12, <2>1 DEF c
    <3>3. IsFiniteSet(events \ {e})
      BY <1>4, FS_RemoveElement
    <3>4. IsFiniteSet(outbox')
      BY <1>12, <3>3, FS_AddElement
    <3>5. wk' \in [Workers -> [pc : {"idle", "claimed", "begun", "sent", "ok", "refused"}, ev : Event]]
      BY <1>12, <2>1 DEF IInv, Types_OK, TypeOK, c
    <3> QED
      BY <1>1, <1>7, <3>1, <3>2, <3>4, <3>5 DEF IInv, Types_OK, TypeOK, State, dir
  <2>4. \A q \in outbox' : \E o \in outbox : o.id = q.id /\ SameKind(o, q)
    <3> SUFFICES ASSUME NEW q \in outbox' PROVE \E o \in outbox : o.id = q.id /\ SameKind(o, q)
      OBVIOUS
    <3>1. CASE q = c
      <4>1. PICK o \in outbox : o.id = e.id /\ SameKind(o, e)
        BY <1>5, <2>1
      <4> QED
        BY <2>1, <3>1, <4>1 DEF SameKind
    <3>2. CASE q \in events
      BY <1>5, <3>2
    <3> QED
      BY <1>12, <3>1, <3>2 DEF c
  <2>5. \A f \in fence' : f.ev <= last
    BY <1>7 DEF IInv, IdsBounded
  <2>6. PICK o \in outbox : o.id = c.id /\ SameKind(o, c)
    <3>1. c \in outbox'
      BY <1>12 DEF c
    <3> QED
      BY <2>4, <3>1
  <2>7. IdsBounded'
    <3>1. last' = last /\ wire' = wire
      BY <1>1
    <3>2. \A q \in outbox' : q.id <= last
      BY <2>4 DEF IInv, IdsBounded
    <3>3. \A v \in Workers : wk'[v].ev.id <= last
      BY <2>2, <2>6 DEF IInv, IdsBounded
    <3> QED
      BY <2>5, <3>1, <3>2, <3>3 DEF IInv, IdsBounded
  <2>8. KindsAgree'
    <3>1. \A e1, e2 \in outbox' : e1.id = e2.id => SameKind(e1, e2)
      BY <2>4 DEF IInv, KindsAgree, SameKind
    <3>2. \A e1 \in outbox', x \in wire : e1.id = x.ev => SameKind(e1, x)
      BY <2>4 DEF IInv, KindsAgree, SameKind
    <3>3. ASSUME NEW e1 \in outbox', NEW v \in Workers, wk'[v].pc # "idle", e1.id = wk'[v].ev.id
          PROVE  SameKind(e1, wk'[v].ev)
      <4>1. CASE v = w
        BY <2>2, <2>4, <2>6, <3>3, <4>1 DEF IInv, KindsAgree, SameKind
      <4>2. CASE v # w
        BY <2>2, <2>4, <3>3, <4>2 DEF IInv, KindsAgree, SameKind, Busy
      <4> QED
        BY <4>1, <4>2
    <3> QED
      BY <1>1, <3>1, <3>2, <3>3 DEF KindsAgree, SameKind, Removal, Busy
  <2>9. /\ \A v \in Workers : wk[v].ev.tok # t
        /\ \A x \in wire : x.tok # t
        /\ \A f \in fence : f.tok # t
    BY <1>1 DEF FreshToken
  <2>10. TokensOwned'
    <3>1. \A v \in Workers : wk'[v].pc # "idle" => wk'[v].ev.tok \in Tokens
      BY <2>1, <2>2 DEF IInv, TokensOwned, Busy
    <3>2. \A v1, v2 \in Workers : wk'[v1].pc # "idle" /\ wk'[v2].pc # "idle"
                /\ wk'[v1].ev.tok = wk'[v2].ev.tok => v1 = v2
      BY <2>1, <2>2, <2>9 DEF IInv, TokensOwned, Busy
    <3>3. wire' = wire
      BY <1>1
    <3> QED
      BY <3>1, <3>2, <3>3 DEF IInv, TokensOwned, Busy
  <2>11. WriteOfWorker'
    <3> SUFFICES ASSUME NEW x \in wire, NEW v \in Workers, wk'[v].pc # "idle", x.tok = wk'[v].ev.tok
                 PROVE  wk'[v].pc = "sent" /\ x.ev = wk'[v].ev.id /\ SameKind(x, wk'[v].ev)
      BY <1>1 DEF WriteOfWorker, Busy, SameKind, Removal
    <3>1. v # w
      BY <2>1, <2>2, <2>9
    <3> QED
      BY <2>2, <3>1 DEF IInv, WriteOfWorker, Busy
  <2>12. FenceOfEvent'
    <3> SUFFICES ASSUME NEW f \in fence'
                 PROVE  /\ \A x \in wire : f.tok = x.tok => f.ev = x.ev
                        /\ \A v \in Workers : wk'[v].pc # "idle" /\ f.tok = wk'[v].ev.tok
                              => f.ev = wk'[v].ev.id
      BY <1>1 DEF FenceOfEvent, Busy
    <3>1. f \in fence /\ f.tok # t
      BY <1>7, <2>9
    <3> QED
      BY <2>1, <2>2, <3>1 DEF IInv, FenceOfEvent, Busy
  <2>13. BegunFenced'
    <3> SUFFICES ASSUME NEW v \in Workers, wk'[v].pc = "begun", ~Removal(wk'[v].ev)
                 PROVE  \E f \in fence' : f.tok = wk'[v].ev.tok
      BY DEF BegunFenced, Removal
    <3> QED
      BY <1>10, <2>2
  <2> QED
    BY <1>9, <2>3, <2>7, <2>8, <2>10, <2>11, <2>12, <2>13 DEF IInv
<1> QED
  BY <1>1, <1>11, <1>12

\* BeginSyncDelivery takes the free fence under the worker's own token, or stops.
LEMMA BeginOk ==
    ASSUME IInv, NEW w \in Workers, BeginSyncDelivery(w)
    PROVE  IInv'
<1> DEFINE e == wk[w].ev
           f0 == [tok |-> e.tok, ev |-> e.id, expired |-> FALSE]
<1>1. /\ wk[w].pc = "claimed"
      /\ UNCHANGED <<dir, st, outbox, last, wire, remote, changes, faults>>
      /\ \/ fence = {} /\ fence' = {f0} /\ wk' = [wk EXCEPT ![w].pc = "begun"]
         \/ UNCHANGED fence /\ wk' = [wk EXCEPT ![w] = Idle]
  BY DEF BeginSyncDelivery
<1>2. CASE UNCHANGED fence /\ wk' = [wk EXCEPT ![w] = Idle]
  <2>1. faults' \in Nat
    BY <1>1 DEF IInv, Types_OK, TypeOK
  <2> QED
    BY <1>1, <1>2, <2>1, StopOk DEF dir
<1>3. CASE fence = {} /\ fence' = {f0} /\ wk' = [wk EXCEPT ![w].pc = "begun"]
  <2>1. e \in Event /\ e.tok \in Tokens /\ e.id \in Nat /\ e.id <= last /\ Busy(w)
    BY <1>1 DEF IInv, Types_OK, TypeOK, TokensOwned, IdsBounded, Busy, Event
  <2>2. \A v \in Workers : /\ wk'[v].ev = wk[v].ev
                           /\ v # w => wk'[v].pc = wk[v].pc
                           /\ v = w => wk'[v].pc = "begun"
    BY <1>3 DEF IInv, Types_OK, TypeOK
  <2>3. f0 \in Fence /\ f0.tok = e.tok /\ f0.ev = e.id
    BY <2>1 DEF Fence
  <2> HIDE DEF e, f0
  <2>4. Types_OK'
    BY <1>1, <1>3, <2>3 DEF IInv, Types_OK, TypeOK, dir
  <2>5. \A v \in Workers : wk'[v].pc # "idle" => Busy(v)
    BY <1>1, <2>2 DEF Busy
  <2>6. IdsBounded' /\ KindsAgree'
    <3>1. \A q \in outbox' : \E o \in outbox : o.id = q.id /\ SameKind(o, q)
      BY <1>1 DEF SameKind
    <3>2. \A f \in fence' : f.ev <= last
      BY <1>3, <2>1, <2>3
    <3>3. \A v \in Workers : \/ wk'[v].pc = "idle" /\ wk'[v].ev.id <= last
                             \/ Busy(v) /\ wk'[v].ev = wk[v].ev
      BY <2>2, <2>5 DEF IInv, IdsBounded
    <3> QED
      BY <1>1, <3>1, <3>2, <3>3, EditOk
  <2>7. TokensOwned'
    BY <1>1, <2>2, <2>5 DEF IInv, TokensOwned, Busy
  <2>8. \A x \in wire : x.tok # e.tok
    BY <1>1 DEF IInv, WriteOfWorker, Busy, e
  <2>9. WriteOfWorker'
    <3> SUFFICES ASSUME NEW x \in wire, NEW v \in Workers, wk'[v].pc # "idle", x.tok = wk'[v].ev.tok
                 PROVE  wk'[v].pc = "sent" /\ x.ev = wk'[v].ev.id /\ SameKind(x, wk'[v].ev)
      BY <1>1 DEF WriteOfWorker, Busy, SameKind, Removal
    <3>1. v # w
      BY <2>2, <2>8 DEF e
    <3> QED
      BY <2>2, <2>5, <3>1 DEF IInv, WriteOfWorker, Busy
  <2>10. FenceOfEvent'
    <3>1. \A x \in wire : f0.tok # x.tok
      BY <2>3, <2>8
    <3>2. ASSUME NEW v \in Workers, wk'[v].pc # "idle", f0.tok = wk'[v].ev.tok
          PROVE  f0.ev = wk'[v].ev.id
      <4>1. v = w
        BY <2>1, <2>2, <2>3, <2>5, <3>2 DEF IInv, TokensOwned, e
      <4> QED
        BY <2>2, <2>3, <4>1 DEF e
    <3> QED
      BY <1>1, <1>3, <3>1, <3>2 DEF FenceOfEvent, Busy
  <2>11. BegunFenced'
    <3> SUFFICES ASSUME sys' # "gone", NEW v \in Workers, wk'[v].pc = "begun", ~Removal(wk'[v].ev)
                 PROVE  \E f \in fence' : f.tok = wk'[v].ev.tok
      BY DEF BegunFenced, Removal
    <3>1. CASE v = w
      BY <1>3, <2>2, <2>3, <3>1 DEF e
    <3>2. CASE v # w
      BY <1>1, <1>3, <2>2, <3>2 DEF IInv, BegunFenced, dir
    <3> QED
      BY <3>1, <3>2
  <2>12. UncertainWriteHoldsFence'
    BY <1>1, <1>3 DEF IInv, UncertainWriteHoldsFence, Removal, dir
  <2> QED
    BY <2>4, <2>6, <2>7, <2>9, <2>10, <2>11, <2>12 DEF IInv
<1> QED
  BY <1>1, <1>2, <1>3

\* deliver: the write leaves under the token of a worker that holds the fence, unless it
\* is a removal.
LEMMA SendOk ==
    ASSUME IInv, NEW w \in Workers, Send(w)
    PROVE  IInv'
<1> DEFINE e == wk[w].ev
           x0 == [tok |-> e.tok, ev |-> e.id, row |-> e.row, type |-> e.type,
                  active |-> e.active, ver |-> e.dv]
<1>1. wk[w].pc = "begun" /\ UNCHANGED <<user, assigned, sys, st, outbox, last, fence, remote, changes, faults>>
  BY DEF Send
<1>2. \/ wire' = wire /\ wk' = [wk EXCEPT ![w].pc = "ok"]
      \/ wire' = wire \cup {x0} /\ wk' = [wk EXCEPT ![w].pc = "sent"]
  BY DEF Send
<1>3. mapped' \in BOOLEAN /\ started' \in BOOLEAN
  BY DEF Send, IInv, Types_OK, TypeOK
<1>4. Busy(w) /\ e \in Event /\ e.tok \in Tokens
  BY <1>1 DEF IInv, Types_OK, TypeOK, TokensOwned, Busy
<1>5. \A x \in wire : x.tok # e.tok
  BY <1>1 DEF IInv, WriteOfWorker, Busy
<1>6. PICK pc \in {"ok", "sent"} :
        /\ wk' = [wk EXCEPT ![w].pc = pc]
        /\ wire' = wire \/ (pc = "sent" /\ wire' = wire \cup {x0})
  BY <1>2
<1>7. \A v \in Workers : /\ wk'[v].ev = wk[v].ev
                         /\ v # w => wk'[v].pc = wk[v].pc
                         /\ v = w => wk'[v].pc = pc
  BY <1>6 DEF IInv, Types_OK, TypeOK
<1>8. /\ x0 \in Write /\ x0.tok = e.tok /\ x0.ev = e.id /\ SameKind(x0, e)
  BY <1>4 DEF Write, Event, SameKind, Removal
<1> HIDE DEF e, x0
<1>9. Types_OK'
  BY <1>1, <1>3, <1>6, <1>8 DEF IInv, Types_OK, TypeOK
<1>10. \A v \in Workers : wk'[v].pc # "idle" => Busy(v)
  BY <1>4, <1>7 DEF Busy
<1>11. \A x \in wire' : x \in wire \/ (x = x0 /\ pc = "sent")
  BY <1>6
<1>12. e.id <= last
  BY DEF IInv, IdsBounded, e
<1>13. IdsBounded'
  BY <1>1, <1>7, <1>8, <1>11, <1>12 DEF IInv, IdsBounded
<1>14. KindsAgree'
  <2>1. ASSUME NEW q \in outbox, NEW x \in wire', q.id = x.ev PROVE SameKind(q, x)
    <3>1. CASE x \in wire
      BY <2>1, <3>1 DEF IInv, KindsAgree
    <3>2. CASE x = x0
      BY <1>4, <1>8, <2>1, <3>2 DEF IInv, KindsAgree, SameKind, e
    <3> QED
      BY <1>11, <3>1, <3>2
  <2>2. ASSUME NEW q \in outbox, NEW v \in Workers, wk'[v].pc # "idle", q.id = wk'[v].ev.id
        PROVE  SameKind(q, wk'[v].ev)
    BY <1>7, <1>10, <2>2 DEF IInv, KindsAgree
  <2>3. \A e1, e2 \in outbox : e1.id = e2.id => SameKind(e1, e2)
    BY DEF IInv, KindsAgree
  <2> QED
    BY <1>1, <2>1, <2>2, <2>3 DEF KindsAgree, SameKind, Removal, Busy
<1>15. TokensOwned'
  <2>1. \A x, y \in wire' : x.tok = y.tok => x = y
    BY <1>5, <1>8, <1>11 DEF IInv, TokensOwned
  <2> QED
    BY <1>7, <1>10, <2>1 DEF IInv, TokensOwned, Busy
<1>16. WriteOfWorker'
  <2> SUFFICES ASSUME NEW x \in wire', NEW v \in Workers, wk'[v].pc # "idle", x.tok = wk'[v].ev.tok
               PROVE  wk'[v].pc = "sent" /\ x.ev = wk'[v].ev.id /\ SameKind(x, wk'[v].ev)
    BY DEF WriteOfWorker, Busy, SameKind, Removal
  <2>1. CASE x \in wire
    <3>1. v # w
      BY <1>5, <1>7, <2>1 DEF e
    <3> QED
      BY <1>7, <1>10, <2>1, <3>1 DEF IInv, WriteOfWorker, Busy
  <2>2. CASE x = x0 /\ pc = "sent"
    <3>1. v = w
      BY <1>4, <1>7, <1>8, <1>10, <2>2 DEF IInv, TokensOwned, e
    <3> QED
      BY <1>7, <1>8, <2>2, <3>1 DEF e
  <2> QED
    BY <1>11, <2>1, <2>2
<1>17. FenceOfEvent'
  <2> SUFFICES ASSUME NEW f \in fence
               PROVE  /\ \A x \in wire' : f.tok = x.tok => f.ev = x.ev
                      /\ \A v \in Workers : wk'[v].pc # "idle" /\ f.tok = wk'[v].ev.tok
                            => f.ev = wk'[v].ev.id
    BY <1>1 DEF FenceOfEvent, Busy
  <2>1. f.tok = x0.tok => f.ev = x0.ev
    BY <1>4, <1>8 DEF IInv, FenceOfEvent, e
  <2> QED
    BY <1>7, <1>10, <1>11, <2>1 DEF IInv, FenceOfEvent
<1>18. BegunFenced'
  BY <1>1, <1>7 DEF IInv, BegunFenced, Removal
<1>19. UncertainWriteHoldsFence'
  <2> SUFFICES ASSUME sys' # "gone", NEW x \in wire', ~Removal(x)
               PROVE  \E f \in fence : f.tok = x.tok
    BY <1>1 DEF UncertainWriteHoldsFence, Removal
  <2>1. CASE x \in wire
    BY <1>1, <2>1 DEF IInv, UncertainWriteHoldsFence
  <2>2. CASE x = x0
    BY <1>1, <1>8, <2>2 DEF IInv, BegunFenced, SameKind, e
  <2> QED
    BY <1>11, <2>1, <2>2
<1> QED
  BY <1>9, <1>13, <1>14, <1>15, <1>16, <1>17, <1>18, <1>19 DEF IInv

\* A refused, unsent or removing attempt, retried or failed.
LEMMA RetryOk ==
    ASSUME IInv, NEW w \in Workers, RetryOrFail(w), faults' \in Nat, Busy(w),
           \A x \in wire : x.tok = wk[w].ev.tok => Removal(x)
    PROVE  IInv'
<1> DEFINE e   == wk[w].ev
           att == IF e.att < Budget THEN e.att + 1 ELSE Budget
           status == IF att >= Budget /\ ~Removal(e) /\ e.type # "mfa_reset" THEN "failed" ELSE "pending"
<1>1. e.att \in 0..Budget /\ Budget \in Nat
  BY ConstantsAssumption DEF IInv, Types_OK, TypeOK, Event
<1>2. att \in 0..Budget
  BY <1>1
<1>3. status \in {"pending", "failed", "delivered"}
  OBVIOUS
<1>4. Finish(w, status, att, FALSE)
  BY DEF RetryOrFail
<1> HIDE DEF att, status
<1> QED
  BY <1>2, <1>3, <1>4, FinishOk

\* Every step of a dispatcher keeps the invariant.
LEMMA DispatchOk ==
    ASSUME IInv, NEW w \in Workers, Dispatch(w)
    PROVE  IInv'
<1>1. faults \in Nat /\ faults + 1 \in Nat
  BY DEF IInv, Types_OK, TypeOK
<1>2. ASSUME wk[w].pc \in {"begun", "ok", "refused"} \/ (wk[w].pc = "sent" /\ Removal(wk[w].ev))
      PROVE  Busy(w) /\ \A x \in wire : x.tok = wk[w].ev.tok => Removal(x)
  BY <1>2 DEF IInv, WriteOfWorker, Busy, SameKind
<1>3. ASSUME NEW t \in Tokens, ClaimDueSyncEvents(w, t) PROVE IInv'
  BY <1>3, ClaimOk
<1>4. CASE BeginSyncDelivery(w)
  BY <1>4, BeginOk
<1>5. CASE Send(w)
  BY <1>5, SendOk
<1>6. CASE SaveSCIMLink(w) \/ RejectSCIMCreate(w)
  <2>1. Types_OK'
    BY <1>6 DEF SaveSCIMLink, RejectSCIMCreate, IInv, Types_OK, TypeOK
  <2> QED
    BY <1>6, <2>1 DEF SaveSCIMLink, RejectSCIMCreate, IInv, IdsBounded, KindsAgree, TokensOwned, WriteOfWorker,
       FenceOfEvent, BegunFenced, UncertainWriteHoldsFence, Busy, SameKind, Removal
<1>7. CASE Acknowledge(w)
  <2>1. 0 \in 0..Budget
    BY ConstantsAssumption
  <2>2. Finish(w, "delivered", 0, TRUE) /\ faults' \in Nat /\ wk[w].pc = "ok"
    BY <1>1, <1>7 DEF Acknowledge
  <2> QED
    BY <1>2, <2>1, <2>2, FinishOk
<1>8. CASE Reject(w)
  <2>1. RetryOrFail(w) /\ faults' \in Nat /\ wk[w].pc \in {"begun", "ok", "refused"}
    BY <1>1, <1>8 DEF Reject
  <2> QED
    BY <1>2, <2>1, RetryOk
<1>9. CASE Uncertain(w)
  <2>1. faults' \in Nat /\ wk[w].pc \in {"sent", "ok", "refused"}
    BY <1>1, <1>9 DEF Uncertain
  <2>2. CASE Removal(wk[w].ev)
    <3>1. RetryOrFail(w)
      BY <1>9, <2>2 DEF Uncertain
    <3> QED
      BY <1>2, <2>1, <2>2, <3>1, RetryOk
  <2>3. CASE ~Removal(wk[w].ev)
    <3>1. /\ wk' = [wk EXCEPT ![w] = Idle]
          /\ UNCHANGED <<dir, st, outbox, last, fence, wire, remote, changes>>
      BY <1>9, <2>3 DEF Uncertain
    <3> QED
      BY <2>1, <3>1, StopOk
  <2> QED
    BY <2>2, <2>3
<1>10. CASE Unspent(w)
  <2>1. wk[w].ev.att \in 0..Budget
    BY DEF IInv, Types_OK, TypeOK, Event
  <2>2. /\ Finish(w, "pending", wk[w].ev.att, TRUE) /\ faults' \in Nat
        /\ wk[w].pc \in {"begun", "refused"} \/ (wk[w].pc = "sent" /\ Removal(wk[w].ev))
    BY <1>1, <1>10 DEF Unspent
  <2> QED
    BY <1>2, <2>1, <2>2, FinishOk
<1>11. CASE Crash(w)
  <2>1. /\ wk' = [wk EXCEPT ![w] = Idle] /\ faults' \in Nat
        /\ UNCHANGED <<dir, st, outbox, last, fence, wire, remote, changes>>
    BY <1>1, <1>11 DEF Crash
  <2> QED
    BY <2>1, StopOk
<1> QED
  BY <1>3, <1>4, <1>5, <1>6, <1>7, <1>8, <1>9, <1>10, <1>11 DEF Dispatch

\* A write that arrives leaves the wire, and with it moves the one worker waiting for it.
LEMMA ArrivalOk ==
    ASSUME IInv, NEW x \in wire, NEW pc \in {"ok", "refused"}, Answer(x, pc), wire' = wire \ {x},
           remote' \in [known : BOOLEAN, active : BOOLEAN, ver : Nat, type : Types],
           UNCHANGED <<dir, st, outbox, last, fence, changes, faults>>
    PROVE  IInv'
<1>1. \A v \in Workers : /\ wk'[v].ev = wk[v].ev
                         /\ (wk'[v].pc = pc /\ wk[v].pc = "sent") \/ wk'[v].pc = wk[v].pc
                         /\ wk[v].pc = "sent" /\ wk[v].ev.tok # x.tok => wk'[v].pc = "sent"
  BY DEF Answer, IInv, Types_OK, TypeOK
<1>2. Types_OK'
  BY DEF Answer, IInv, Types_OK, TypeOK, dir
<1>3. \A v \in Workers : wk'[v].pc # "idle" => Busy(v)
  BY <1>1 DEF Busy
<1>4. IdsBounded' /\ KindsAgree'
  <2>1. \A q \in outbox' : \E o \in outbox : o.id = q.id /\ SameKind(o, q)
    BY DEF SameKind
  <2>2. \A f \in fence' : f.ev <= last
    BY DEF IInv, IdsBounded
  <2>3. \A v \in Workers : \/ wk'[v].pc = "idle" /\ wk'[v].ev.id <= last
                           \/ Busy(v) /\ wk'[v].ev = wk[v].ev
    BY <1>1, <1>3 DEF IInv, IdsBounded
  <2> QED
    BY <2>1, <2>2, <2>3, EditOk
<1>5. TokensOwned'
  BY <1>1, <1>3 DEF IInv, TokensOwned, Busy
<1>6. WriteOfWorker'
  <2> SUFFICES ASSUME NEW y \in wire', NEW v \in Workers, wk'[v].pc # "idle", y.tok = wk'[v].ev.tok
               PROVE  wk'[v].pc = "sent" /\ y.ev = wk'[v].ev.id /\ SameKind(y, wk'[v].ev)
    BY DEF WriteOfWorker, Busy, SameKind, Removal
  <2>1. y \in wire /\ y.tok # x.tok
    BY DEF IInv, TokensOwned
  <2> QED
    BY <1>1, <1>3, <2>1 DEF IInv, WriteOfWorker, Busy
<1>7. FenceOfEvent'
  BY <1>1, <1>3 DEF IInv, FenceOfEvent, Busy
<1>8. BegunFenced' /\ UncertainWriteHoldsFence'
  BY <1>1 DEF IInv, BegunFenced, UncertainWriteHoldsFence, Removal, dir
<1> QED
  BY <1>2, <1>4, <1>5, <1>6, <1>7, <1>8 DEF IInv

\* The receiver keeps the invariant, whether it applies a write or refuses it.
LEMMA ReceiverOk ==
    ASSUME IInv, NEW x \in wire, Land(x) \/ Refuse(x)
    PROVE  IInv'
<1>1. x \in Write /\ remote \in [known : BOOLEAN, active : BOOLEAN, ver : Nat, type : Types]
  BY DEF IInv, Types_OK, TypeOK
<1>2. CASE Land(x)
  <2>1. /\ wire' = wire \ {x}
        /\ UNCHANGED <<dir, st, outbox, last, fence, changes, faults>>
        /\ Answer(x, "ok") \/ Answer(x, "refused")
    BY <1>2 DEF Land
  <2>2. remote' \in [known : BOOLEAN, active : BOOLEAN, ver : Nat, type : Types]
    BY <1>1, <1>2 DEF Land, Write
  <2> QED
    BY <2>1, <2>2, ArrivalOk
<1>3. CASE Refuse(x)
  BY <1>1, <1>3, ArrivalOk DEF Refuse
<1> QED
  BY <1>2, <1>3

\* Time passing keeps the invariant: no lease, backoff or recovery time ends a fence.
LEMMA ClockOk ==
    ASSUME IInv, Clock
    PROVE  IInv'
<1>1. ASSUME NEW e \in outbox, LeaseExpires(e) \/ BackoffEnds(e) PROVE IInv'
  <2>1. PICK n \in {[e EXCEPT !.leased = FALSE], [e EXCEPT !.due = TRUE]} :
          /\ outbox' = (outbox \ {e}) \cup {n}
          /\ UNCHANGED <<dir, st, last, fence, wk, wire, remote, changes, faults>>
    BY <1>1 DEF LeaseExpires, BackoffEnds
  <2>2. e \in Event /\ IsFiniteSet(outbox)
    BY DEF IInv, Types_OK, TypeOK
  <2>3. n \in Event /\ n.id = e.id /\ SameKind(e, n)
    BY <2>2 DEF Event, SameKind, Removal
  <2>4. IsFiniteSet(outbox')
    <3>1. IsFiniteSet(outbox \ {e})
      BY <2>2, FS_RemoveElement
    <3> QED
      BY <2>1, <3>1, FS_AddElement
  <2>5. Types_OK'
    BY <2>1, <2>3, <2>4 DEF IInv, Types_OK, TypeOK, dir
  <2>6. \A q \in outbox' : \E o \in outbox : o.id = q.id /\ SameKind(o, q)
    BY <2>1, <2>3 DEF SameKind
  <2>7. IdsBounded' /\ KindsAgree'
    <3>1. \A f \in fence' : f.ev <= last
      BY <2>1 DEF IInv, IdsBounded
    <3>2. \A v \in Workers : \/ wk'[v].pc = "idle" /\ wk'[v].ev.id <= last
                             \/ Busy(v) /\ wk'[v].ev = wk[v].ev
      BY <2>1 DEF IInv, IdsBounded, Busy
    <3> QED
      BY <2>1, <2>6, <3>1, <3>2, EditOk
  <2> QED
    BY <2>1, <2>5, <2>7 DEF IInv, TokensOwned, WriteOfWorker, FenceOfEvent, BegunFenced,
       UncertainWriteHoldsFence, Busy, SameKind, Removal, dir
<1>2. ASSUME NEW f \in fence, FenceExpires(f) PROVE IInv'
  <2> DEFINE g == [f EXCEPT !.expired = TRUE]
  <2>1. /\ fence' = (fence \ {f}) \cup {g}
        /\ UNCHANGED <<dir, st, outbox, last, wk, wire, remote, changes, faults>>
    BY <1>2 DEF FenceExpires
  <2>2. f \in Fence
    BY DEF IInv, Types_OK, TypeOK
  <2>3. g \in Fence /\ g.tok = f.tok /\ g.ev = f.ev
    BY <2>2 DEF Fence
  <2> HIDE DEF g
  <2>4. Types_OK'
    BY <2>1, <2>3 DEF IInv, Types_OK, TypeOK, dir
  <2>5. /\ \A h \in fence' : \E k \in fence : h.tok = k.tok /\ h.ev = k.ev
        /\ \A k \in fence : \E h \in fence' : h.tok = k.tok
    BY <2>1, <2>3
  <2>6. IdsBounded' /\ KindsAgree' /\ TokensOwned' /\ WriteOfWorker'
    BY <2>1, <2>5 DEF IInv, IdsBounded, KindsAgree, TokensOwned, WriteOfWorker, Busy, SameKind, Removal
  <2>7. FenceOfEvent'
    BY <2>1, <2>5 DEF IInv, FenceOfEvent, Busy
  <2>8. BegunFenced' /\ UncertainWriteHoldsFence'
    BY <2>1, <2>5 DEF IInv, BegunFenced, UncertainWriteHoldsFence, Removal, dir
  <2> QED
    BY <2>4, <2>6, <2>7, <2>8 DEF IInv
<1> QED
  BY <1>1, <1>2 DEF Clock

\* ResumeSyncDelivery keeps the invariant because the operator's evidence is that nothing
\* carrying the attempt's token can be applied any more, and nothing is dispatching.
LEMMA OperatorOk ==
    ASSUME IInv, NEW f \in fence, NEW allow \in BOOLEAN, ResumeSyncDelivery(f, allow)
    PROVE  IInv'
<1> DEFINE again(e) == [e EXCEPT !.status = "pending", !.att = 0, !.due = TRUE, !.leased = FALSE,
                                 !.tok = NoToken, !.dv = IF e.type = "mfa_reset" THEN 0 ELSE @]
           new(e) == IF e.id = f.ev THEN again(e) ELSE e
<1>1. /\ \A w \in Workers : wk[w].pc = "idle"
      /\ \A x \in wire : x.tok # f.tok
      /\ fence' = fence \ {f}
      /\ outbox' = {new(e) : e \in outbox}
      /\ UNCHANGED <<user, assigned, sys, mapped, st, last, wk, wire, remote, changes, faults>>
      /\ started' = (started /\ ~allow)
  BY DEF ResumeSyncDelivery
<1>2. IsFiniteSet(outbox')
  <2> DEFINE g == [e \in outbox |-> new(e)]
  <2>1. outbox' = {g[e] : e \in outbox}
    BY <1>1
  <2>2. IsFiniteSet(outbox)
    BY DEF IInv, Types_OK
  <2> HIDE DEF g
  <2>3. IsFiniteSet({g[e] : e \in outbox})
    BY <2>2, ImageFinite
  <2> QED
    BY <2>1, <2>3
<1>3. ASSUME NEW e \in outbox
      PROVE  new(e) \in Event /\ new(e).id = e.id /\ SameKind(e, new(e))
  <2>1. e \in Event /\ 0 \in 0..Budget
    BY ConstantsAssumption DEF IInv, Types_OK, TypeOK
  <2>2. /\ again(e) \in Event /\ again(e).id = e.id /\ again(e).type = e.type
        /\ again(e).active = e.active
    BY <2>1 DEF Event
  <2> HIDE DEF again
  <2> QED
    BY <2>1, <2>2 DEF SameKind, Removal
<1> HIDE DEF new
<1>4. \A q \in outbox' : q \in Event /\ \E o \in outbox : o.id = q.id /\ SameKind(o, q)
  BY <1>1, <1>3
<1>5. Types_OK'
  BY <1>1, <1>2, <1>4 DEF IInv, Types_OK, TypeOK, dir
<1>6. IdsBounded' /\ KindsAgree'
  <2>1. \A h \in fence' : h.ev <= last
    BY <1>1 DEF IInv, IdsBounded
  <2>2. \A v \in Workers : \/ wk'[v].pc = "idle" /\ wk'[v].ev.id <= last
                           \/ Busy(v) /\ wk'[v].ev = wk[v].ev
    BY <1>1 DEF IInv, IdsBounded, Busy
  <2> QED
    BY <1>1, <1>4, <2>1, <2>2, EditOk
<1>7. TokensOwned' /\ WriteOfWorker' /\ FenceOfEvent' /\ BegunFenced'
  BY <1>1 DEF IInv, TokensOwned, WriteOfWorker, FenceOfEvent, BegunFenced, Busy, SameKind, Removal, dir
<1>8. UncertainWriteHoldsFence'
  BY <1>1 DEF IInv, UncertainWriteHoldsFence, Removal, dir
<1> QED
  BY <1>5, <1>6, <1>7, <1>8 DEF IInv

\* The invariant is inductive.
LEMMA NextOk == IInv /\ [Next]_vars => IInv'
<1> SUFFICES ASSUME IInv, [Next]_vars PROVE IInv'
  OBVIOUS
<1>1. CASE Directory
  BY <1>1, DirectoryOk
<1>2. ASSUME NEW w \in Workers, Dispatch(w) PROVE IInv'
  BY <1>2, DispatchOk
<1>3. CASE Receiver
  BY <1>3, ReceiverOk DEF Receiver
<1>4. CASE Clock
  BY <1>4, ClockOk
<1>5. CASE Operator
  BY <1>5, OperatorOk DEF Operator
<1>6. CASE UNCHANGED vars
  BY <1>6 DEF vars, IInv, Types_OK, TypeOK, IdsBounded, KindsAgree, TokensOwned, WriteOfWorker,
     FenceOfEvent, BegunFenced, UncertainWriteHoldsFence, Busy, SameKind, Removal
<1> QED
  BY <1>1, <1>2, <1>3, <1>4, <1>5, <1>6 DEF Next

\* Every table, claim and write of the delivery code stays well typed: IDs, rows,
\* revisions, versions and attempt counts are natural numbers within the budget.
THEOREM TypeCorrect == Spec => []TypeOK
<1>1. IInv => TypeOK
  BY DEF IInv, Types_OK
<1> QED
  BY <1>1, InitOk, NextOk, PTL DEF Spec

\* The fence outlives the write (dispatchSystem, FinishSyncDelivery, ClaimDueSyncEvents,
\* ResumeSyncDelivery): whatever the number of dispatchers and faults, a write that is
\* not a removal is fenced under its own token for as long as it may be applied.
THEOREM FenceOutlivesWrite == Spec => []UncertainWriteHoldsFence
<1>1. IInv => UncertainWriteHoldsFence
  BY DEF IInv
<1> QED
  BY <1>1, InitOk, NextOk, PTL DEF Spec

-----------------------------------------------------------------------------
(* The order of the queue: what an event says fits the desired state, rows *)
(* are in order of revision, and a valid claim is a copy of its event.     *)

\* The event types that carry a desired state.
Profile == {"created", "updated", "deleted"}

\* The event carries the latest desired state.
Current(e, s) == e.type \in Profile /\ e.rev = s.rev

\* What an event says fits the desired state it was queued for.
Sound(e, s) ==
    /\ e.type = "created" => e.active
    /\ e.type = "deleted" => ~e.active
    /\ e.rev <= s.rev /\ e.dv <= s.dv
    /\ e.rev = s.rev /\ e.active => s.active
    /\ Current(e, s) /\ s.active => e.active

\* The state row: an untracked account is the initial row, an acknowledged offboarding
\* is of an account that is to be inactive.
RowOk(s) ==
    /\ ~s.row => ~s.active /\ ~s.off /\ s.rev = 0 /\ s.dv = 0
    /\ s.off => ~s.active

\* The queue of a store: rows and IDs handed out once, rows in order of revision, removals
\* and resets never failed, nothing queued without a state row.
Ordered(d) ==
    /\ RowOk(d.st)
    /\ ~d.st.row => d.ev = {}
    /\ \A e \in d.ev : /\ e.row <= d.last
                       /\ Sound(e, d.st)
                       /\ Removal(e) \/ e.type = "mfa_reset" => e.status = "pending"
    /\ \A e1, e2 \in d.ev : /\ e1.id = e2.id => e1 = e2
                            /\ e1.row <= e2.row => e1.rev <= e2.rev

\* e is the event o, with the same content.
Kept(o, e) ==
    /\ e.id = o.id /\ e.row = o.row /\ e.type = o.type /\ e.rev = o.rev
    /\ e.active = o.active /\ e.dv = o.dv

\* An event put at the end of the queue after rowid n: a new one, or a reset moved there.
Appended(e, n) ==
    /\ e.row > n /\ e.dv = 0 /\ e.tok = NoToken
    /\ e.id > n \/ e.type = "mfa_reset"

Fresh(d, r) == ~d.st.row \/ r.st.rev > d.st.rev

\* A transaction that records another desired state queues an event that carries it.
Renewed(d, r) ==
    /\ Fresh(d, r)
    /\ r.st.row /\ ~r.st.off
    /\ \E e \in r.ev : Current(e, r.st)

\* Any other keeps the desired state and the work that carries it, brings no removal to
\* an active account, and nothing that could activate to an inactive one.
Steady(d, r) ==
    /\ r.st.rev = d.st.rev /\ r.st.active = d.st.active /\ r.st.off = d.st.off
    /\ r.st.row = d.st.row
    /\ \A o \in d.ev : Current(o, d.st) => \E e \in r.ev : Kept(o, e)
    /\ \A e \in r.ev : Removal(e) => \E o \in d.ev : Removal(o)
    /\ ~d.st.active => \A e \in r.ev : e.active /\ e.status = "pending" =>
                          \E o \in d.ev : o.active /\ o.status = "pending"

Turn(d, r) ==
    /\ d.last <= r.last
    /\ r.st.dv = d.st.dv /\ d.st.rev <= r.st.rev
    /\ \A e \in r.ev :
          \/ Appended(e, d.last)
          \/ \E o \in d.ev : /\ Kept(o, e) /\ e.tok = o.tok
                             /\ e.status = "failed" => o.status = "failed"
    /\ Renewed(d, r) \/ Steady(d, r)

\* What a claim copies and a dispatcher sends.
SameContent(a, b) ==
    a.row = b.row /\ a.type = b.type /\ a.active = b.active /\ a.rev = b.rev /\ a.dv = b.dv

\* A claim is as sound as the event it was made on, and a valid one is a copy of it.
ClaimsFit ==
    /\ \A w \in Workers : Busy(w) => wk[w].ev.row <= last /\ wk[w].ev.dv # 0
    /\ sys # "gone" => \A w \in Workers : Busy(w) => Sound(wk[w].ev, st) /\ st.row
    /\ \A e \in outbox, w \in Workers :
          Busy(w) /\ e.id = wk[w].ev.id /\ e.tok = wk[w].ev.tok => SameContent(e, wk[w].ev)

\* A write says what the claim it was sent for says.
WritesFit ==
    /\ \A x \in wire : x.row <= last
    /\ sys # "gone" =>
          \A x \in wire : /\ x.type = "created" => x.active
                          /\ x.type = "deleted" => ~x.active
                          /\ x.ver <= st.dv
    /\ \A x \in wire, w \in Workers : Busy(w) /\ x.tok = wk[w].ev.tok =>
          x.active = wk[w].ev.active /\ x.ver = wk[w].ev.dv /\ x.type = wk[w].ev.type

\* Nobody has claimed or sent an event queued behind a reset that is undelivered.
ResetsBehind ==
    \A e \in outbox : e.type = "mfa_reset" =>
        /\ \A w \in Workers : Busy(w) => wk[w].ev.row <= e.row
        /\ \A x \in wire : x.row <= e.row

\* There is one fence, and the event under it is not failed.
FenceHolds ==
    /\ \A f, g \in fence : f = g
    /\ \A f \in fence, e \in outbox : e.id = f.ev => e.status = "pending"

\* What the receiver holds was sent.
RemoteFits ==
    /\ remote.active => remote.known
    /\ sys # "gone" => remote.ver <= st.dv

\* Deleting the connector takes its queue and its fence with it.
GoneEmpty == sys = "gone" => outbox = {} /\ fence = {}

OrderInv ==
    /\ IInv
    /\ Ordered(DB)
    /\ GoneEmpty
    /\ ClaimsFit /\ WritesFit /\ ResetsBehind /\ FenceHolds /\ RemoteFits

-----------------------------------------------------------------------------
(* What a transaction does to the order of the queue.                       *)

\* An event keeps fitting a desired state that has moved on, or has not changed.
LEMMA SoundLater ==
    ASSUME NEW e, NEW s \in State, NEW r \in State, Sound(e, s), e.rev \in Nat, e.dv \in Nat,
           s.dv <= r.dv,
           s.rev < r.rev \/ (s.rev = r.rev /\ s.active = r.active)
    PROVE  Sound(e, r)
<1>1. s.rev \in Nat /\ r.rev \in Nat /\ s.dv \in Nat /\ r.dv \in Nat
  BY DEF State
<1>2. CASE s.rev < r.rev
  BY <1>1, <1>2 DEF Sound, Current
<1>3. CASE s.rev = r.rev /\ s.active = r.active
  BY <1>1, <1>3 DEF Sound, Current
<1> QED
  BY <1>2, <1>3

\* queueDesiredStateTx keeps the order and queues an event for the state it records.
LEMMA QueueDesiredTurns ==
    ASSUME NEW d, DBOk(d), Ordered(d), NEW active \in BOOLEAN, NEW deleted \in BOOLEAN,
           NEW force \in BOOLEAN, deleted => ~active
    PROVE  LET r == QueueDesired(d, active, deleted, force)
           IN  Ordered(r) /\ Turn(d, r)
<1> DEFINE unsent == {e \in d.ev : ~Fenced(e)}
           resets == {e \in unsent : ~active /\ e.type = "mfa_reset"}
           kept   == d.ev \ (resets \cup {e \in unsent : e.type \in {"created", "updated"}})
           rev    == d.st.rev + 1
           type   == IF deleted THEN "deleted"
                     ELSE IF active /\ (~d.st.prov \/ force) THEN "created" ELSE "updated"
           place(e) == d.last + 1 + Cardinality({x \in resets : x.row <= e.row})
           move(e) == [e EXCEPT !.row = place(e), !.active = FALSE, !.rev = rev, !.dv = 0,
                                !.tok = NoToken, !.leased = FALSE]
           moved  == {move(e) : e \in resets}
           new    == NewEvent(d.last + 1, type, active, rev)
           n      == d.last + 1 + Cardinality(resets)
           r      == QueueDesired(d, active, deleted, force)
<1>1. /\ d.st \in State /\ d.ev \subseteq Event /\ d.last \in Nat /\ IsFiniteSet(d.ev)
      /\ \A e \in d.ev : e.id <= d.last
  BY DEF DBOk, Store
<1>2. /\ r.st = [d.st EXCEPT !.row = TRUE, !.active = active, !.rev = rev, !.off = FALSE]
      /\ r.ev = kept \cup {new} \cup moved
      /\ r.last = n
  BY DEF QueueDesired
<1>3. /\ r.st \in State /\ r.st.row = TRUE /\ r.st.active = active /\ r.st.rev = rev
      /\ r.st.off = FALSE /\ r.st.dv = d.st.dv
      /\ rev \in Nat /\ d.st.rev \in Nat /\ rev = d.st.rev + 1 /\ d.st.dv \in Nat
  <2>1. rev \in Nat /\ d.st.rev \in Nat /\ rev = d.st.rev + 1 /\ d.st.dv \in Nat
    BY <1>1 DEF State
  <2> HIDE DEF rev, r
  <2> QED
    BY <1>1, <1>2, <2>1 DEF State
<1>4. /\ new.id = d.last + 1 /\ new.row = d.last + 1 /\ new.type = type /\ new.active = active
      /\ new.rev = rev /\ new.dv = 0 /\ new.status = "pending" /\ new.tok = NoToken
  BY DEF NewEvent
<1>5. /\ type \in Profile
      /\ type = "created" => active
      /\ type = "deleted" => ~active
  BY DEF Profile
<1>6. IsFiniteSet(resets) /\ Cardinality(resets) \in Nat
  <2>1. IsFiniteSet(resets)
    BY <1>1, FS_Subset
  <2> QED
    BY <2>1, FS_CardinalityType
<1>7. ASSUME NEW e \in resets
      PROVE  /\ e \in d.ev /\ e.type = "mfa_reset" /\ d.last < place(e) /\ place(e) <= n
             /\ move(e).id = e.id /\ move(e).type = e.type /\ move(e).status = e.status
             /\ move(e).row = place(e) /\ move(e).active = FALSE /\ move(e).rev = rev
             /\ move(e).dv = 0 /\ move(e).tok = NoToken
  <2> DEFINE before == {x \in resets : x.row <= e.row}
  <2>1. /\ IsFiniteSet(before) /\ Cardinality(before) \in Nat
        /\ Cardinality(before) <= Cardinality(resets)
    <3>1. before \subseteq resets
      OBVIOUS
    <3>2. IsFiniteSet(before) /\ Cardinality(before) <= Cardinality(resets)
      BY <1>6, <3>1, FS_Subset
    <3> QED
      BY <3>2, FS_CardinalityType
  <2>2. d.last < place(e) /\ place(e) <= n
    <3> HIDE DEF before, resets
    <3>1. place(e) = d.last + 1 + Cardinality(before)
      BY DEF before
    <3> QED
      BY <1>1, <1>6, <2>1, <3>1
  <2>3. e \in Event /\ e \in d.ev /\ e.type = "mfa_reset"
    BY <1>1
  <2> HIDE DEF place, rev, resets
  <2> QED
    BY <2>2, <2>3 DEF Event
<1>8. \A e \in kept : e \in d.ev /\ e \notin resets
  OBVIOUS
<1>9. d.last + 1 <= n /\ n \in Nat
  BY <1>1, <1>6
<1> HIDE DEF unsent, resets, kept, rev, type, place, move, moved, new, n, r
<1>10. \A e \in d.ev : /\ e.id \in Nat /\ e.row \in Nat /\ e.rev \in Nat /\ e.dv \in Nat
                       /\ e.row <= d.last /\ e.id <= d.last /\ e.rev < rev
                       /\ Sound(e, r.st)
  <2> SUFFICES ASSUME NEW e \in d.ev
               PROVE  /\ e.id \in Nat /\ e.row \in Nat /\ e.rev \in Nat /\ e.dv \in Nat
                      /\ e.row <= d.last /\ e.id <= d.last /\ e.rev < rev
                      /\ Sound(e, r.st)
    OBVIOUS
  <2>1. e.id \in Nat /\ e.row \in Nat /\ e.rev \in Nat /\ e.dv \in Nat
    BY <1>1 DEF Event
  <2>2. Sound(e, d.st) /\ e.row <= d.last
    BY DEF Ordered
  <2>3. e.rev < rev
    BY <1>3, <2>1, <2>2 DEF Sound
  <2>4. Sound(e, r.st)
    BY <1>1, <1>3, <2>1, <2>2, SoundLater
  <2> QED
    BY <1>1, <2>1, <2>2, <2>3, <2>4
<1>11. \A e \in moved : \E o \in resets :
          /\ o \in d.ev /\ e.id = o.id /\ e.type = "mfa_reset" /\ e.status = o.status
          /\ d.last < e.row /\ e.row <= n /\ e.active = FALSE /\ e.rev = rev /\ e.dv = 0
          /\ e.tok = NoToken /\ e = move(o) /\ o.type = "mfa_reset" /\ e.row \in Nat
  <2> SUFFICES ASSUME NEW e \in moved
               PROVE  \E o \in resets :
                        /\ o \in d.ev /\ e.id = o.id /\ e.type = "mfa_reset" /\ e.status = o.status
                        /\ d.last < e.row /\ e.row <= n /\ e.active = FALSE /\ e.rev = rev /\ e.dv = 0
                        /\ e.tok = NoToken /\ e = move(o) /\ o.type = "mfa_reset" /\ e.row \in Nat
    OBVIOUS
  <2>1. PICK o \in resets : e = move(o)
    BY DEF moved
  <2>2. place(o) \in Nat
    <3>1. IsFiniteSet({x \in resets : x.row <= o.row})
      BY <1>6, FS_Subset
    <3> QED
      BY <1>1, <3>1, FS_CardinalityType DEF place
  <2> QED
    BY <1>7, <2>1, <2>2
<1>12. \A e \in r.ev : e \in kept \/ e = new \/ e \in moved
  BY <1>2
<1>13. \A e \in r.ev : /\ e.row <= r.last
                       /\ Sound(e, r.st)
                       /\ Removal(e) \/ e.type = "mfa_reset" => e.status = "pending"
  <2> SUFFICES ASSUME NEW e \in r.ev
               PROVE  /\ e.row <= r.last
                      /\ Sound(e, r.st)
                      /\ Removal(e) \/ e.type = "mfa_reset" => e.status = "pending"
    OBVIOUS
  <2>1. CASE e \in kept
    <3>1. e.row <= r.last
      BY <1>1, <1>2, <1>8, <1>9, <1>10, <2>1
    <3> QED
      BY <1>8, <1>10, <2>1, <3>1 DEF Ordered
  <2>2. CASE e = new
    <3>1. Sound(e, r.st)
      BY <1>3, <1>4, <1>5, <2>2 DEF Sound
    <3> QED
      BY <1>2, <1>4, <1>9, <2>2, <3>1
  <2>3. CASE e \in moved
    <3>1. PICK o \in resets :
          /\ o \in d.ev /\ e.id = o.id /\ e.type = "mfa_reset" /\ e.status = o.status
          /\ d.last < e.row /\ e.row <= n /\ e.active = FALSE /\ e.rev = rev /\ e.dv = 0
          /\ e.tok = NoToken /\ e = move(o) /\ o.type = "mfa_reset" /\ e.row \in Nat
      BY <1>11, <2>3
    <3>2. Sound(e, r.st)
      BY <1>3, <3>1 DEF Sound, Current, Profile
    <3>3. o.status = "pending"
      BY <3>1 DEF Ordered
    <3> QED
      BY <1>2, <3>1, <3>2, <3>3
  <2> QED
    BY <1>12, <2>1, <2>2, <2>3
<1>14. \A e1, e2 \in r.ev : e1.id = e2.id => e1 = e2
  <2> SUFFICES ASSUME NEW e1 \in r.ev, NEW e2 \in r.ev, e1.id = e2.id PROVE e1 = e2
    OBVIOUS
  <2>1. \A e \in r.ev : \/ e = new /\ e.id = d.last + 1
                        \/ e \in kept /\ e \in d.ev /\ e \notin resets
                        \/ \E o \in resets : o \in d.ev /\ e.id = o.id /\ e = move(o)
    BY <1>4, <1>8, <1>11, <1>12
  <2>2. \A e \in d.ev : e.id # d.last + 1
    BY <1>1, <1>10
  <2>3. \A o1, o2 \in d.ev : o1.id = o2.id => o1 = o2
    BY DEF Ordered
  <2> QED
    BY <2>1, <2>2, <2>3
<1>15. \A e1, e2 \in r.ev : e1.row <= e2.row => e1.rev <= e2.rev
  <2> SUFFICES ASSUME NEW e1 \in r.ev, NEW e2 \in r.ev, e1.row <= e2.row PROVE e1.rev <= e2.rev
    OBVIOUS
  <2>1. \A e \in r.ev : \/ e.row > d.last /\ e.rev = rev /\ e.row \in Nat
                        \/ e \in d.ev /\ e.row <= d.last /\ e.rev < rev /\ e.row \in Nat /\ e.rev \in Nat
    BY <1>1, <1>4, <1>8, <1>10, <1>11, <1>12
  <2> QED
    BY <1>1, <1>3, <2>1 DEF Ordered
<1>16. Ordered(r)
  BY <1>3, <1>13, <1>14, <1>15 DEF Ordered, RowOk
<1>17. \A e \in r.ev : \/ Appended(e, d.last)
                       \/ \E o \in d.ev : /\ Kept(o, e) /\ e.tok = o.tok
                                          /\ e.status = "failed" => o.status = "failed"
  <2> SUFFICES ASSUME NEW e \in r.ev
               PROVE  \/ Appended(e, d.last)
                      \/ \E o \in d.ev : /\ Kept(o, e) /\ e.tok = o.tok
                                         /\ e.status = "failed" => o.status = "failed"
    OBVIOUS
  <2>1. CASE e \in kept
    BY <1>8, <2>1 DEF Kept
  <2>2. CASE e = new
    BY <1>1, <1>4, <2>2 DEF Appended
  <2>3. CASE e \in moved
    BY <1>1, <1>11, <2>3 DEF Appended
  <2> QED
    BY <1>12, <2>1, <2>2, <2>3
<1>18. Renewed(d, r)
  <2>1. Current(new, r.st) /\ new \in r.ev
    BY <1>2, <1>3, <1>4, <1>5 DEF Current
  <2> QED
    BY <1>3, <2>1 DEF Renewed, Fresh
<1>19. Turn(d, r)
  BY <1>1, <1>2, <1>3, <1>9, <1>17, <1>18 DEF Turn
<1> QED
  BY <1>16, <1>19 DEF r

\* A transaction that changes nothing of the queue is steady.
LEMMA TurnReflexive ==
    ASSUME NEW d, NEW r, DBOk(d), r.ev = d.ev, r.last = d.last,
           r.st.rev = d.st.rev, r.st.active = d.st.active, r.st.off = d.st.off,
           r.st.dv = d.st.dv, r.st.row = d.st.row
    PROVE  Turn(d, r)
<1>1. d.last \in Nat /\ d.st.rev \in Nat
  BY DEF DBOk, Store, State
<1>2. Steady(d, r)
  BY DEF Steady, Kept
<1> QED
  BY <1>1, <1>2 DEF Turn, Kept

\* Two turns are a turn.
LEMMA TurnTransitive ==
    ASSUME NEW d, NEW r, NEW q, DBOk(d), DBOk(r), DBOk(q), Turn(d, r), Turn(r, q)
    PROVE  Turn(d, q)
<1>1. /\ d.last \in Nat /\ r.last \in Nat /\ q.last \in Nat
      /\ d.st.rev \in Nat /\ r.st.rev \in Nat /\ q.st.rev \in Nat
  BY DEF DBOk, Store, State
<1>2. d.last <= r.last /\ r.last <= q.last /\ d.st.rev <= r.st.rev /\ r.st.rev <= q.st.rev
  BY DEF Turn
<1>3. ASSUME NEW e \in q.ev
      PROVE  \/ Appended(e, d.last)
             \/ \E o \in d.ev : /\ Kept(o, e) /\ e.tok = o.tok
                                /\ e.status = "failed" => o.status = "failed"
  <2>0. e.row \in Nat /\ e.id \in Nat
    BY DEF DBOk, Store, Event
  <2>1. CASE Appended(e, r.last)
    BY <1>1, <1>2, <2>0, <2>1 DEF Appended
  <2>2. CASE \E o \in r.ev : /\ Kept(o, e) /\ e.tok = o.tok
                             /\ e.status = "failed" => o.status = "failed"
    <3>1. PICK o \in r.ev : /\ Kept(o, e) /\ e.tok = o.tok
                            /\ e.status = "failed" => o.status = "failed"
      BY <2>2
    <3>2. CASE Appended(o, d.last)
      BY <3>1, <3>2 DEF Appended, Kept
    <3>3. CASE \E p \in d.ev : /\ Kept(p, o) /\ o.tok = p.tok
                               /\ o.status = "failed" => p.status = "failed"
      BY <3>1, <3>3 DEF Kept
    <3> QED
      BY <3>2, <3>3 DEF Turn
  <2> QED
    BY <2>1, <2>2 DEF Turn
<1>4. CASE Renewed(r, q)
  <2>1. Fresh(d, q)
    <3>1. CASE Renewed(d, r)
      BY <1>1, <1>2, <1>4, <3>1 DEF Renewed, Fresh
    <3>2. CASE Steady(d, r)
      BY <1>1, <1>2, <1>4, <3>2 DEF Renewed, Steady, Fresh
    <3> QED
      BY <3>1, <3>2 DEF Turn
  <2>2. Renewed(d, q)
    BY <1>4, <2>1 DEF Renewed
  <2> QED
    BY <1>1, <1>2, <1>3, <2>2 DEF Turn
<1>5. CASE Steady(r, q) /\ Renewed(d, r)
  <2>1. PICK o \in r.ev : Current(o, r.st)
    BY <1>5 DEF Renewed
  <2>2. PICK e \in q.ev : Kept(o, e)
    BY <1>5, <2>1 DEF Steady
  <2>3. Current(e, q.st)
    BY <1>5, <2>1, <2>2 DEF Current, Kept, Steady
  <2>4. Renewed(d, q)
    BY <1>5, <2>2, <2>3 DEF Renewed, Steady, Fresh
  <2> QED
    BY <1>1, <1>2, <1>3, <2>4 DEF Turn
<1>6. CASE Steady(r, q) /\ Steady(d, r)
  <2>1. ASSUME NEW o \in d.ev, Current(o, d.st) PROVE \E e \in q.ev : Kept(o, e)
    <3>1. PICK p \in r.ev : Kept(o, p)
      BY <1>6, <2>1 DEF Steady
    <3>2. Current(p, r.st)
      BY <1>6, <2>1, <3>1 DEF Current, Kept, Steady
    <3>3. PICK e \in q.ev : Kept(p, e)
      BY <1>6, <3>1, <3>2 DEF Steady
    <3> QED
      BY <3>1, <3>3 DEF Kept
  <2>2. Steady(d, q)
    BY <1>6, <2>1 DEF Steady
  <2> QED
    BY <1>1, <1>2, <1>3, <2>2 DEF Turn
<1> QED
  BY <1>4, <1>5, <1>6 DEF Turn

\* The tail of reconcileProvisioningTx keeps the order, and revives nothing that a newer
\* state has overtaken.
LEMMA ReviveTurns ==
    ASSUME NEW d, DBOk(d), Ordered(d)
    PROVE  Ordered(Revive(d)) /\ Turn(d, Revive(d))
<1> DEFINE idle(e)      == e.status = "failed" /\ ~Fenced(e)
           overtaken(e) == idle(e) /\ e.type \notin {"deleted", "mfa_reset"} /\ e.rev # d.st.rev
           again(e)     == IF idle(e) THEN [e EXCEPT !.status = "pending", !.att = 0, !.due = FALSE] ELSE e
           S            == {x \in d.ev : ~overtaken(x)}
           r            == Revive(d)
<1>1. d.st \in State /\ d.ev \subseteq Event /\ d.last \in Nat
  BY DEF DBOk, Store
<1>2. r.st = d.st /\ r.last = d.last /\ r.ev = {again(e) : e \in S}
  BY DEF Revive, DBOk, Store
<1>3. ASSUME NEW o \in S
      PROVE  /\ o \in d.ev
             /\ Kept(o, again(o)) /\ again(o).tok = o.tok
             /\ again(o).status = "failed" => o.status = "failed"
             /\ o.status = "pending" => again(o).status = "pending"
             /\ again(o).status = "pending" /\ o.status = "failed" =>
                  o.type \in {"deleted", "mfa_reset"} \/ o.rev = d.st.rev
  <2>1. o \in Event /\ o \in d.ev
    BY <1>1
  <2>2. CASE idle(o)
    <3>1. again(o) = [o EXCEPT !.status = "pending", !.att = 0, !.due = FALSE]
      BY <2>2
    <3>2. o.type \in {"deleted", "mfa_reset"} \/ o.rev = d.st.rev
      BY <2>2
    <3> HIDE DEF idle, again
    <3> QED
      BY <2>1, <3>1, <3>2 DEF Event, Kept
  <2>3. CASE ~idle(o)
    BY <2>1, <2>3 DEF Kept
  <2> QED
    BY <2>2, <2>3
<1>4. ASSUME NEW e \in d.ev, Current(e, d.st) PROVE e \in S
  BY <1>4 DEF Current
<1> HIDE DEF again, S, r, idle, overtaken
<1>5. ASSUME NEW e \in r.ev
      PROVE  \E o \in d.ev : /\ o \in S /\ e = again(o)
                             /\ Kept(o, e) /\ e.tok = o.tok
                             /\ e.status = "failed" => o.status = "failed"
                             /\ o.status = "pending" => e.status = "pending"
                             /\ e.status = "pending" /\ o.status = "failed" =>
                                  o.type \in {"deleted", "mfa_reset"} \/ o.rev = d.st.rev
  BY <1>2, <1>3
<1>6. Ordered(r)
  <2>1. \A e \in r.ev : /\ e.row <= r.last
                        /\ Sound(e, r.st)
                        /\ Removal(e) \/ e.type = "mfa_reset" => e.status = "pending"
    <3> SUFFICES ASSUME NEW e \in r.ev
                 PROVE  /\ e.row <= r.last
                        /\ Sound(e, r.st)
                        /\ Removal(e) \/ e.type = "mfa_reset" => e.status = "pending"
      OBVIOUS
    <3>1. PICK o \in d.ev : Kept(o, e) /\ (o.status = "pending" => e.status = "pending")
      BY <1>5
    <3>2. o.row <= d.last /\ Sound(o, d.st) /\ (Removal(o) \/ o.type = "mfa_reset" => o.status = "pending")
      BY DEF Ordered
    <3>3. Sound(e, d.st)
      BY <3>1, <3>2 DEF Sound, Current, Kept
    <3> QED
      BY <1>2, <3>1, <3>2, <3>3 DEF Kept, Removal
  <2>2. \A e1, e2 \in r.ev : e1.id = e2.id => e1 = e2
    <3>1. \A e \in r.ev : \E o \in d.ev : e = again(o) /\ e.id = o.id
      BY <1>5 DEF Kept
    <3> QED
      BY <3>1 DEF Ordered
  <2>3. \A e1, e2 \in r.ev : e1.row <= e2.row => e1.rev <= e2.rev
    <3>1. \A e \in r.ev : \E o \in d.ev : e.row = o.row /\ e.rev = o.rev
      BY <1>5 DEF Kept
    <3> QED
      BY <3>1 DEF Ordered
  <2>4. ~d.st.row => r.ev = {}
    BY <1>5 DEF Ordered
  <2> QED
    BY <1>2, <2>1, <2>2, <2>3, <2>4 DEF Ordered
<1>7. Steady(d, r)
  <2>1. ASSUME NEW o \in d.ev, Current(o, d.st) PROVE \E e \in r.ev : Kept(o, e)
    <3>1. o \in S
      BY <1>4, <2>1
    <3> QED
      BY <1>2, <1>3, <3>1
  <2>2. ASSUME NEW e \in r.ev, Removal(e) PROVE \E o \in d.ev : Removal(o)
    BY <1>5, <2>2 DEF Kept, Removal
  <2>3. ASSUME ~d.st.active, NEW e \in r.ev, e.active, e.status = "pending"
        PROVE  \E o \in d.ev : o.active /\ o.status = "pending"
    <3>1. PICK o \in d.ev : /\ Kept(o, e)
                            /\ e.status = "pending" /\ o.status = "failed" =>
                                 o.type \in {"deleted", "mfa_reset"} \/ o.rev = d.st.rev
      BY <1>5
    <3>2. Sound(o, d.st) /\ (o.type = "mfa_reset" => o.status = "pending") /\ o.active
      BY <2>3, <3>1 DEF Ordered, Kept
    <3>3. o.status \in {"pending", "failed"}
      BY <1>1 DEF Event
    <3> QED
      BY <2>3, <3>1, <3>2, <3>3 DEF Sound
  <2> QED
    BY <1>2, <2>1, <2>2, <2>3 DEF Steady
<1>8. Turn(d, r)
  <2>1. d.st.rev \in Nat
    BY <1>1 DEF State
  <2> QED
    BY <1>1, <1>2, <1>5, <1>7, <2>1 DEF Turn
<1> QED
  BY <1>6, <1>8 DEF r

\* reconcileProvisioningTx.
LEMMA ReconcileTurns ==
    ASSUME NEW d, DBOk(d), Ordered(d), NEW allowed \in BOOLEAN
    PROVE  Ordered(Reconcile(d, allowed)) /\ Turn(d, Reconcile(d, allowed))
<1> DEFINE q == IF allowed /\ ~d.st.active THEN QueueDesired(d, TRUE, FALSE, FALSE)
                ELSE IF ~allowed /\ d.st.active THEN QueueDesired(d, FALSE, FALSE, FALSE)
                ELSE d
<1>1. DBOk(q) /\ Ordered(q) /\ Turn(d, q)
  BY QueueDesiredOk, QueueDesiredTurns, TurnReflexive
<1>2. Reconcile(d, allowed) = Revive(q)
  BY DEF Reconcile
<1> HIDE DEF q
<1>3. DBOk(Revive(q)) /\ Ordered(Revive(q)) /\ Turn(q, Revive(q))
  BY <1>1, ReviveOk, ReviveTurns
<1> QED
  BY <1>1, <1>2, <1>3, TurnTransitive

\* offboardUserTx.
LEMMA OffboardTurns ==
    ASSUME NEW d, DBOk(d), Ordered(d), NEW deleted \in BOOLEAN, mapped \in BOOLEAN
    PROVE  Ordered(Offboard(d, deleted)) /\ Turn(d, Offboard(d, deleted))
<1> DEFINE p == [d EXCEPT !.st.prov = @ \/ mapped]
<1>1. /\ p \in Store /\ p.ev = d.ev /\ p.last = d.last
      /\ p.st.rev = d.st.rev /\ p.st.active = d.st.active /\ p.st.off = d.st.off
      /\ p.st.dv = d.st.dv /\ p.st.row = d.st.row
  BY DEF DBOk, Store, State
<1>2. DBOk(p) /\ Turn(d, p)
  BY <1>1, TurnReflexive DEF DBOk
<1>3. Offboard(d, deleted) = IF d.st.row \/ mapped THEN QueueDesired(p, FALSE, deleted, FALSE) ELSE d
  BY DEF Offboard
<1> HIDE DEF p
<1>4. Ordered(p)
  BY <1>1 DEF Ordered, RowOk, Sound, Current
<1>5. /\ DBOk(QueueDesired(p, FALSE, deleted, FALSE)) /\ Ordered(QueueDesired(p, FALSE, deleted, FALSE))
      /\ Turn(p, QueueDesired(p, FALSE, deleted, FALSE))
  BY <1>2, <1>4, QueueDesiredOk, QueueDesiredTurns
<1> QED
  BY <1>2, <1>3, <1>5, TurnTransitive, TurnReflexive

-----------------------------------------------------------------------------
(* The steps of the system, as the order of the queue sees them.            *)

\* A directory transaction at a connector: the store turns to d.
Transacts(d) ==
    /\ DBOk(d) /\ Ordered(d) /\ Turn(DB, d) /\ Commit(d)
    /\ sys # "gone" /\ sys' # "gone"
    /\ UNCHANGED <<fence, wk, wire, remote>>

\* Every directory change is a transaction, or removes the connector.
LEMMA DirectoryTurns ==
    ASSUME OrderInv, Directory
    PROVE  (\E d : Transacts(d)) \/ DeletePairedSystem
<1>1. DBOk(DB) /\ DB.st = st /\ DB.ev = outbox /\ DB.last = last /\ Ordered(DB) /\ Turn(DB, DB)
  BY StoreOk, TurnReflexive DEF OrderInv
<1>2. /\ user \in {"active", "ended", "disabled", "deleted"} /\ assigned \in BOOLEAN
      /\ mapped \in BOOLEAN /\ sys \in {"held", "on", "gone"}
      /\ st \in State /\ outbox \subseteq Event /\ last \in Nat
  BY DEF OrderInv, IInv, Types_OK, TypeOK, State
<1>3. \A u, a : a \in BOOLEAN => Allowed(u, a) \in BOOLEAN
  BY DEF Allowed
<1>4. ASSUME NEW a \in BOOLEAN, SetAssigned(a) PROVE \E d : Transacts(d)
  <2> DEFINE d == Reconcile(DB, Allowed(user, a))
  <2>1. DBOk(d) /\ Ordered(d) /\ Turn(DB, d)
    BY <1>1, <1>3, ReconcileOk, ReconcileTurns
  <2> HIDE DEF d
  <2>2. Commit(d)
    BY <1>4 DEF SetAssigned, d
  <2>3. Transacts(d)
    BY <1>4, <2>1, <2>2 DEF SetAssigned, Change, Transacts
  <2> QED
    BY <2>3
<1>5. CASE AssignmentLapses \/ EndDatePasses \/ ReleaseHold
  <2>1. Commit(DB)
    BY <1>1, <1>5 DEF AssignmentLapses, EndDatePasses, ReleaseHold, Commit
  <2>2. sys # "gone" /\ sys' # "gone" /\ UNCHANGED <<fence, wk, wire, remote>>
    BY <1>5 DEF AssignmentLapses, EndDatePasses, ReleaseHold, Change
  <2>3. Transacts(DB)
    BY <1>1, <2>1, <2>2 DEF Transacts
  <2> QED
    BY <2>3
<1>7. CASE ExpireAccount
  <2>1. DBOk(Offboard(DB, FALSE)) /\ Ordered(Offboard(DB, FALSE)) /\ Turn(DB, Offboard(DB, FALSE))
    BY <1>1, <1>2, OffboardOk, OffboardTurns
  <2>2. Transacts(Offboard(DB, FALSE))
    BY <1>7, <2>1 DEF ExpireAccount, Transacts
  <2> QED
    BY <2>2
<1>8. ASSUME NEW status \in {"active", "disabled"}, UpdateUser(status) PROVE \E d : Transacts(d)
  <2> DEFINE off == IF user = "active" /\ status = "disabled" THEN Offboard(DB, FALSE) ELSE DB
             upd == IF off.st.active /\ Allowed(status, assigned)
                    THEN QueueDesired(off, TRUE, FALSE, FALSE) ELSE off
             d   == Reconcile(upd, Allowed(status, assigned))
  <2>1. DBOk(off) /\ Ordered(off) /\ Turn(DB, off)
    BY <1>1, <1>2, OffboardOk, OffboardTurns
  <2> HIDE DEF off
  <2>2. DBOk(upd) /\ Ordered(upd) /\ Turn(off, upd)
    BY <2>1, QueueDesiredOk, QueueDesiredTurns, TurnReflexive
  <2> HIDE DEF upd
  <2>3. DBOk(d) /\ Ordered(d) /\ Turn(upd, d)
    BY <1>2, <1>3, <2>2, ReconcileOk, ReconcileTurns
  <2> HIDE DEF d
  <2>4. Turn(DB, upd)
    BY <1>1, <2>1, <2>2, TurnTransitive
  <2>5. Turn(DB, d)
    BY <1>1, <2>2, <2>3, <2>4, TurnTransitive
  <2>6. Commit(d)
    BY <1>8 DEF UpdateUser, d, upd, off
  <2>7. Transacts(d)
    BY <1>8, <2>3, <2>5, <2>6 DEF UpdateUser, Change, Transacts
  <2> QED
    BY <2>7
<1>9. CASE DeleteUser
  <2> DEFINE off  == Offboard(DB, TRUE)
             bare == [st |-> [NoRow EXCEPT !.row = TRUE],
                      ev |-> off.ev \cup {NewEvent(last + 1, "deleted", FALSE, 0)},
                      last |-> last + 1]
             mid  == IF off.st.row THEN off ELSE bare
             d    == Reconcile(mid, FALSE)
  <2>1. DBOk(off) /\ Ordered(off) /\ Turn(DB, off)
    BY <1>1, <1>2, OffboardOk, OffboardTurns
  <2>2. ~off.st.row => off = DB
    BY <1>1 DEF Offboard, QueueDesired, DBOk, Store, State
  <2> HIDE DEF off
  <2>3. ASSUME ~off.st.row PROVE DBOk(bare) /\ Ordered(bare) /\ Turn(DB, bare)
    <3> DEFINE new == NewEvent(last + 1, "deleted", FALSE, 0)
    <3>1. last + 1 \in Nat /\ last + 1 > last /\ last <= last + 1
      BY <1>2
    <3>2. /\ new \in Event /\ new.id = last + 1 /\ new.row = last + 1 /\ new.type = "deleted"
          /\ new.active = FALSE /\ new.rev = 0 /\ new.dv = 0 /\ new.status = "pending"
          /\ new.tok = NoToken
      BY <3>1, NewEventType DEF Types, NewEvent
    <3>3. outbox = {} /\ ~st.row /\ ~st.active /\ ~st.off /\ st.rev = 0 /\ st.dv = 0
      BY <1>1, <2>2, <2>3 DEF Ordered, RowOk
    <3> HIDE DEF new
    <3>4. /\ bare.st \in State /\ bare.st.row = TRUE /\ bare.st.active = FALSE
          /\ bare.st.off = FALSE /\ bare.st.rev = 0 /\ bare.st.dv = 0
      BY DEF State, NoRow
    <3>5. bare.ev = {new} /\ bare.last = last + 1
      BY <1>1, <2>2, <2>3, <3>3 DEF new
    <3>6. IsFiniteSet(bare.ev)
      BY <3>5, FS_Singleton
    <3>7. bare \in Store
      BY <3>1, <3>2, <3>4, <3>5 DEF Store
    <3> HIDE DEF bare
    <3>8. DBOk(bare)
      BY <3>1, <3>2, <3>5, <3>6, <3>7 DEF DBOk, SameKind
    <3>9. Sound(new, bare.st) /\ Current(new, bare.st)
      BY <3>2, <3>4 DEF Sound, Current, Profile
    <3>10. Ordered(bare)
      BY <3>1, <3>2, <3>4, <3>5, <3>9 DEF Ordered, RowOk
    <3>11. Appended(new, DB.last)
      BY <1>1, <3>1, <3>2 DEF Appended
    <3>12. Renewed(DB, bare)
      BY <1>1, <3>3, <3>4, <3>5, <3>9 DEF Renewed, Fresh
    <3>13. Turn(DB, bare)
      BY <1>1, <3>1, <3>3, <3>4, <3>5, <3>11, <3>12 DEF Turn
    <3> QED
      BY <3>8, <3>10, <3>13
  <2>4. DBOk(mid) /\ Ordered(mid) /\ Turn(DB, mid)
    BY <2>1, <2>3
  <2> HIDE DEF mid
  <2>5. DBOk(d) /\ Ordered(d) /\ Turn(mid, d)
    BY <2>4, ReconcileOk, ReconcileTurns
  <2> HIDE DEF d
  <2>6. Turn(DB, d)
    BY <1>1, <2>4, <2>5, TurnTransitive
  <2>7. Commit(d)
    BY <1>9 DEF DeleteUser, d, mid, off
  <2>8. Transacts(d)
    BY <1>9, <2>5, <2>6, <2>7 DEF DeleteUser, Change, Transacts
  <2> QED
    BY <2>8
<1>10. CASE ResetUserMFA
  <2> DEFINE new == NewEvent(last + 1, "mfa_reset", user = "active", st.rev)
             d   == [st |-> st, ev |-> outbox \cup {new}, last |-> last + 1]
  <2>1. /\ last + 1 \in Nat /\ last + 1 > last /\ last <= last + 1 /\ st.rev \in Nat /\ st.dv \in Nat
        /\ (user = "active") \in BOOLEAN
    BY <1>2 DEF State
  <2>2. /\ new \in Event /\ new.id = last + 1 /\ new.row = last + 1 /\ new.type = "mfa_reset"
        /\ new.rev = st.rev /\ new.dv = 0 /\ new.status = "pending" /\ new.tok = NoToken
    BY <2>1, NewEventType DEF Types, NewEvent
  <2> HIDE DEF new
  <2>3. d.st = st /\ d.ev = outbox \cup {new} /\ d.last = last + 1 /\ d \in Store
    BY <1>2, <2>1, <2>2 DEF Store
  <2>4. IsFiniteSet(d.ev)
    BY <1>1, FS_AddElement DEF DBOk
  <2> HIDE DEF d
  <2>5. \A e \in outbox : /\ e.id \in Nat /\ e.id <= last /\ e.row \in Nat /\ e.row <= last
                          /\ e.rev \in Nat /\ e.rev <= st.rev
    BY <1>1, <1>2 DEF DBOk, Event, Ordered, Sound
  <2>6. st.active /\ st.row /\ ~st.off
    BY <1>1, <1>10 DEF ResetUserMFA, Ordered, RowOk
  <2>7. DBOk(d)
    <3>1. \A e \in d.ev : e.id <= d.last
      BY <1>2, <2>2, <2>3, <2>5
    <3>2. \A e1, e2 \in d.ev : e1.id = e2.id => SameKind(e1, e2)
      BY <1>1, <1>2, <2>2, <2>3, <2>5 DEF DBOk, SameKind
    <3> QED
      BY <2>3, <2>4, <3>1, <3>2 DEF DBOk
  <2>8. Ordered(d)
    <3>1. Sound(new, st)
      BY <2>1, <2>2, <2>6 DEF Sound, Current, Profile
    <3>2. \A e \in d.ev : /\ e.row <= d.last /\ Sound(e, d.st)
                          /\ Removal(e) \/ e.type = "mfa_reset" => e.status = "pending"
      BY <1>1, <1>2, <2>2, <2>3, <2>5, <3>1 DEF Ordered
    <3>3. \A e1, e2 \in d.ev : e1.id = e2.id => e1 = e2
      BY <1>1, <1>2, <2>2, <2>3, <2>5 DEF Ordered
    <3>4. \A e1, e2 \in d.ev : e1.row <= e2.row => e1.rev <= e2.rev
      BY <1>1, <1>2, <2>1, <2>2, <2>3, <2>5 DEF Ordered
    <3> QED
      BY <1>1, <2>3, <2>6, <3>2, <3>3, <3>4 DEF Ordered
  <2>9. Turn(DB, d)
    <3>1. Appended(new, last)
      BY <2>1, <2>2 DEF Appended
    <3>2. Steady(DB, d)
      BY <1>1, <2>2, <2>3, <2>6 DEF Steady, Kept, Removal
    <3>3. \A e \in d.ev : Appended(e, last) \/ (e \in outbox /\ Kept(e, e))
      BY <2>3, <3>1 DEF Kept
    <3> QED
      BY <1>1, <2>1, <2>3, <3>2, <3>3 DEF Turn
  <2>10. Commit(d)
    BY <1>10, <2>3 DEF ResetUserMFA, Commit, new
  <2>11. Transacts(d)
    BY <1>10, <2>7, <2>8, <2>9, <2>10 DEF ResetUserMFA, Change, Transacts, dir
  <2> QED
    BY <2>11
<1>11. CASE ReconcileProvisioning
  <2>1. Access \in BOOLEAN
    BY <1>2, <1>3 DEF Access
  <2>2. /\ DBOk(Reconcile(DB, Access)) /\ Ordered(Reconcile(DB, Access))
        /\ Turn(DB, Reconcile(DB, Access))
    BY <1>1, <2>1, ReconcileOk, ReconcileTurns
  <2>3. Transacts(Reconcile(DB, Access))
    BY <1>11, <2>2 DEF ReconcileProvisioning, Transacts, dir
  <2> QED
    BY <2>3
<1>12. CASE ResyncSystem
  <2> DEFINE r == Reconcile(DB, Access)
             known == [r EXCEPT !.st.row = @ \/ mapped, !.st.prov = @ \/ (mapped /\ ~r.st.active)]
             q == QueueDesired(known, FALSE, FALSE, FALSE)
             d == IF r.st.active THEN IF user # "deleted" THEN QueueDesired(r, TRUE, FALSE, TRUE) ELSE r
                  ELSE IF known.st.row THEN q ELSE r
  <2>1. Access \in BOOLEAN
    BY <1>2, <1>3 DEF Access
  <2>2. DBOk(r) /\ Ordered(r) /\ Turn(DB, r)
    BY <1>1, <2>1, ReconcileOk, ReconcileTurns
  <2> HIDE DEF r
  <2>3. /\ known \in Store /\ known.ev = r.ev /\ known.last = r.last
        /\ known.st.rev = r.st.rev /\ known.st.active = r.st.active /\ known.st.off = r.st.off
        /\ known.st.dv = r.st.dv /\ (r.st.row => known.st.row) /\ known.st \in State
    BY <1>2, <2>2 DEF DBOk, Store, State
  <2> HIDE DEF known
  <2>4. DBOk(known)
    BY <2>2, <2>3 DEF DBOk
  <2>5. Ordered(known)
    BY <2>2, <2>3 DEF Ordered, RowOk, Sound, Current
  <2>6. DBOk(q) /\ Ordered(q) /\ Turn(known, q)
    BY <2>4, <2>5, QueueDesiredOk, QueueDesiredTurns
  <2>7. q.st.rev = known.st.rev + 1 /\ known.st.rev \in Nat
    BY <2>3 DEF QueueDesired, State
  <2> HIDE DEF q
  <2>8. Turn(r, q)
    <3>1. Renewed(known, q)
      BY <2>6, <2>7 DEF Turn, Steady
    <3>2. Renewed(r, q)
      BY <2>3, <2>7, <3>1 DEF Renewed, Fresh
    <3> QED
      BY <2>3, <2>6, <3>2 DEF Turn
  <2>9. DBOk(d) /\ Ordered(d) /\ Turn(r, d)
    BY <2>2, <2>6, <2>8, QueueDesiredOk, QueueDesiredTurns, TurnReflexive
  <2> HIDE DEF d
  <2>10. Turn(DB, d)
    BY <1>1, <2>2, <2>9, TurnTransitive
  <2>11. Commit(d)
    BY <1>12 DEF ResyncSystem, d, q, known, r
  <2>12. Transacts(d)
    BY <1>12, <2>9, <2>10, <2>11 DEF ResyncSystem, Change, Transacts, dir
  <2> QED
    BY <2>12
<1> QED
  BY <1>4, <1>5, <1>7, <1>8, <1>9, <1>10, <1>11, <1>12 DEF Directory

\* e is the queued event o after an edit: nothing it says has changed, except that the
\* version of a reset may be taken back together with its claim.
Edited(o, e) ==
    /\ e.id = o.id /\ e.row = o.row /\ e.type = o.type /\ e.rev = o.rev
    /\ e.active = o.active /\ e.status = o.status
    /\ e.dv = o.dv \/ (e.type = "mfa_reset" /\ e.dv = 0 /\ e.tok = NoToken)
    /\ e.tok = o.tok \/ e.tok = NoToken

\* The clock, the operator, and a claim that finds no work: events are edited, fences go
\* or expire.
Edits ==
    /\ \A e \in outbox' : \E o \in outbox : Edited(o, e)
    /\ \A o \in outbox : \E e \in outbox' : Edited(o, e)
    /\ \A e1, e2 \in outbox' : e1.id = e2.id => e1 = e2
    /\ \A f \in fence' : \E g \in fence : f.tok = g.tok /\ f.ev = g.ev
    /\ \A f, g \in fence' : f = g
    /\ sys' = sys /\ UNCHANGED <<st, last, wk, wire, remote>>

\* Worker w claims o, the head of the queue, as c.
Claims(w, o, c) ==
    /\ o \in outbox /\ c \in outbox' /\ sys # "gone" /\ wk[w].pc = "idle"
    /\ o.status = "pending"
    /\ \A p \in outbox : p.row < o.row => p.status = "failed" /\ p.type # "mfa_reset"
    /\ c.id = o.id /\ c.row = o.row /\ c.type = o.type /\ c.rev = o.rev /\ c.status = "pending"
    /\ c.active => o.active
    /\ c.active = o.active \/ c.type = "mfa_reset"
    /\ c.dv # 0
    /\ IF o.dv = 0 THEN c.dv > st.dv
       ELSE c.dv = o.dv \/ (c.dv > st.dv /\ c.type = "mfa_reset")
    /\ FreshToken(c.tok) /\ c.tok \in Tokens
    /\ \A e \in outbox' : e = c \/ \E p \in outbox : p.id # o.id /\ Edited(p, e)
    /\ \A p \in outbox : p.id = o.id \/ \E e \in outbox' : Edited(p, e)
    /\ \A e1, e2 \in outbox' : e1.id = e2.id => e1 = e2
    /\ st' = [st EXCEPT !.row = TRUE, !.dv = MaxOf(@, c.dv)]
    /\ wk' = [wk EXCEPT ![w] = [pc |-> "claimed", ev |-> c]]
    /\ fence' = {}
    /\ sys' = sys /\ UNCHANGED <<last, wire, remote>>

\* Worker w puts its valid claim under the fence.
Begins(w) ==
    /\ wk[w].pc = "claimed" /\ fence = {}
    /\ \E e \in outbox : e.id = wk[w].ev.id /\ e.tok = wk[w].ev.tok /\ e.status = "pending"
    /\ fence' = {[tok |-> wk[w].ev.tok, ev |-> wk[w].ev.id, expired |-> FALSE]}
    /\ wk' = [wk EXCEPT ![w].pc = "begun"]
    /\ sys' = sys /\ UNCHANGED <<st, outbox, last, wire, remote>>

\* Worker w stops with no outcome.
Stops(w) ==
    /\ Busy(w) /\ wk' = [wk EXCEPT ![w] = Idle]
    /\ sys' = sys /\ UNCHANGED <<st, outbox, last, fence, wire, remote>>

\* Worker w writes its request, or finds that it has nothing to write.
Sends(w) ==
    /\ wk[w].pc = "begun"
    /\ \/ /\ ~Versioned /\ (wk[w].ev.type = "mfa_reset" \/ ~remote.known)
          /\ wk' = [wk EXCEPT ![w].pc = "ok"] /\ UNCHANGED wire
       \/ /\ wire' = wire \cup {[tok |-> wk[w].ev.tok, ev |-> wk[w].ev.id, row |-> wk[w].ev.row,
                                 type |-> wk[w].ev.type, active |-> wk[w].ev.active,
                                 ver |-> wk[w].ev.dv]}
          /\ wk' = [wk EXCEPT ![w].pc = "sent"]
    /\ sys' = sys /\ UNCHANGED <<st, outbox, last, fence, remote>>

\* Worker w, which holds the fence, records the outcome of its delivery.
Mine(w) == {r \in outbox : r.id = wk[w].ev.id /\ r.tok = wk[w].ev.tok}

Outcome(o, e, status) ==
    Kept(o, e) /\ e.status = status /\ e.tok = NoToken

Finishes(w, status) ==
    /\ Busy(w) /\ \E f \in fence : f.tok = wk[w].ev.tok
    /\ fence' = {f \in fence : f.tok # wk[w].ev.tok}
    /\ status \in {"pending", "failed", "delivered"}
    /\ status = "failed" => ~Removal(wk[w].ev) /\ wk[w].ev.type # "mfa_reset"
    /\ status = "delivered" => wk[w].pc = "ok" /\ outbox' = outbox \ Mine(w) /\ st' = Provisioned(wk[w].ev)
    /\ status # "delivered" =>
          /\ \A e \in outbox' : (e \in outbox \ Mine(w)) \/ \E o \in Mine(w) : Outcome(o, e, status)
          /\ \A o \in outbox : (o \in outbox' /\ o \notin Mine(w)) \/ \E e \in outbox' : Outcome(o, e, status)
          /\ st' = st
    /\ \A e1, e2 \in outbox' : e1.id = e2.id => e1 = e2
    /\ wk' = [wk EXCEPT ![w] = Idle]
    /\ sys' = sys /\ UNCHANGED <<last, wire, remote>>

\* The write x reaches the receiver, is refused, or is lost.
Arrives(x) ==
    /\ x \in wire /\ wire' = wire \ {x}
    /\ \/ /\ Accepts(x) /\ Answer(x, "ok")
          /\ remote' = [known |-> remote.known \/ x.active, active |-> x.active,
                        ver |-> x.ver, type |-> x.type]
       \/ UNCHANGED remote /\ Answer(x, "refused")
    /\ sys' = sys /\ UNCHANGED <<st, outbox, last, fence>>

\* The clock edits one event, or the fence.
LEMMA ClockEdits ==
    ASSUME OrderInv, Clock
    PROVE  Edits
<1>1. outbox \subseteq Event /\ fence \subseteq Fence /\ \A e1, e2 \in outbox : e1.id = e2.id => e1 = e2
  BY DEF OrderInv, IInv, Types_OK, TypeOK, Ordered, DB
<1>2. \A f, g \in fence : f = g
  BY DEF OrderInv, FenceHolds
<1>3. ASSUME NEW e \in outbox, LeaseExpires(e) \/ BackoffEnds(e) PROVE Edits
  <2>1. PICK n \in {[e EXCEPT !.leased = FALSE], [e EXCEPT !.due = TRUE]} :
          /\ outbox' = (outbox \ {e}) \cup {n}
          /\ UNCHANGED <<dir, st, last, fence, wk, wire, remote, changes, faults>>
    BY <1>3 DEF LeaseExpires, BackoffEnds
  <2>2. Edited(e, n) /\ n.id = e.id
    BY <1>1 DEF Event, Edited
  <2>3. \A o \in outbox : Edited(o, o)
    BY DEF Edited
  <2>4. \A e1, e2 \in outbox' : e1.id = e2.id => e1 = e2
    BY <1>1, <2>1, <2>2
  <2>5. /\ \A q \in outbox' : \E o \in outbox : Edited(o, q)
        /\ \A o \in outbox : \E q \in outbox' : Edited(o, q)
    BY <2>1, <2>2, <2>3
  <2> QED
    BY <1>2, <2>1, <2>4, <2>5 DEF Edits, dir
<1>4. ASSUME NEW f \in fence, FenceExpires(f) PROVE Edits
  <2> DEFINE g == [f EXCEPT !.expired = TRUE]
  <2>1. /\ fence' = (fence \ {f}) \cup {g}
        /\ UNCHANGED <<dir, st, outbox, last, wk, wire, remote, changes, faults>>
    BY <1>4 DEF FenceExpires
  <2>2. g.tok = f.tok /\ g.ev = f.ev
    BY <1>1 DEF Fence
  <2> HIDE DEF g
  <2>3. \A o \in outbox : Edited(o, o)
    BY DEF Edited
  <2> QED
    BY <1>1, <1>2, <2>1, <2>2, <2>3 DEF Edits, dir
<1> QED
  BY <1>3, <1>4 DEF Clock

\* ResumeSyncDelivery edits the event the fence stood on.
LEMMA OperatorEdits ==
    ASSUME OrderInv, NEW f \in fence, NEW allow \in BOOLEAN, ResumeSyncDelivery(f, allow)
    PROVE  Edits
<1> DEFINE again(e) == [e EXCEPT !.status = "pending", !.att = 0, !.due = TRUE, !.leased = FALSE,
                                 !.tok = NoToken, !.dv = IF e.type = "mfa_reset" THEN 0 ELSE @]
           new(e) == IF e.id = f.ev THEN again(e) ELSE e
<1>1. /\ fence' = fence \ {f}
      /\ outbox' = {new(e) : e \in outbox}
      /\ UNCHANGED <<sys, st, last, wk, wire, remote>>
  BY DEF ResumeSyncDelivery
<1>2. /\ outbox \subseteq Event /\ \A e1, e2 \in outbox : e1.id = e2.id => e1 = e2
      /\ \A g, h \in fence : g = h
      /\ \A e \in outbox : e.id = f.ev => e.status = "pending"
  BY DEF OrderInv, IInv, Types_OK, TypeOK, Ordered, DB, FenceHolds
<1>3. ASSUME NEW e \in outbox PROVE Edited(e, new(e)) /\ new(e).id = e.id
  <2>1. CASE e.id = f.ev
    <3>1. Edited(e, again(e)) /\ again(e).id = e.id
      BY <1>2, <2>1 DEF Event, Edited
    <3> QED
      BY <2>1, <3>1
  <2>2. CASE e.id # f.ev
    BY <2>2 DEF Edited
  <2> QED
    BY <2>1, <2>2
<1> HIDE DEF new
<1>4. \A e1, e2 \in outbox' : e1.id = e2.id => e1 = e2
  BY <1>1, <1>2, <1>3
<1>5. /\ \A e \in outbox' : \E o \in outbox : Edited(o, e)
      /\ \A o \in outbox : \E e \in outbox' : Edited(o, e)
  BY <1>1, <1>3
<1> QED
  BY <1>1, <1>2, <1>4, <1>5 DEF Edits, dir

\* ClaimDueSyncEvents finds no work, or takes the head of the queue.
LEMMA ClaimClaims ==
    ASSUME OrderInv, NEW w \in Workers, NEW t \in Tokens, ClaimDueSyncEvents(w, t)
    PROVE  Edits \/ \E o, c : Claims(w, o, c)
<1> DEFINE free(e) == [e EXCEPT !.status = "pending", !.due = TRUE, !.leased = FALSE, !.tok = NoToken]
           freed  == {free(e) : e \in ReleasedByExpiry}
           events == (outbox \ ReleasedByExpiry) \cup freed
           fences == {f \in fence : ~ \E e \in ReleasedByExpiry : e.id = f.ev}
           heads  == {e \in events : Claimable(e, events, fences)}
           claim(e) == [Prepare(e) EXCEPT !.tok = t, !.leased = TRUE]
<1>1. /\ wk[w].pc = "idle" /\ sys # "gone" /\ FreshToken(t) /\ fence' = fences
      /\ UNCHANGED <<dir, last, wire, remote, changes, faults>>
      /\ \/ outbox' = events /\ UNCHANGED <<st, wk>>
         \/ \E e \in heads :
              /\ outbox' = (events \ {e}) \cup {claim(e)}
              /\ st' = [st EXCEPT !.row = TRUE, !.dv = MaxOf(@, claim(e).dv)]
              /\ wk' = [wk EXCEPT ![w] = [pc |-> "claimed", ev |-> claim(e)]]
  BY DEF ClaimDueSyncEvents
<1>2. /\ st \in State /\ outbox \subseteq Event /\ assigned \in BOOLEAN
      /\ \A f, g \in fence : f = g
      /\ \A e1, e2 \in outbox : e1.id = e2.id => e1 = e2
      /\ \A e \in outbox : Removal(e) => e.status = "pending"
  BY DEF OrderInv, IInv, Types_OK, TypeOK, State, FenceHolds, Ordered, DB
<1>3. ASSUME NEW e \in ReleasedByExpiry
      PROVE  free(e) \in Event /\ Edited(e, free(e)) /\ free(e).id = e.id /\ e \in outbox
  <2>1. e \in outbox /\ e \in Event /\ e.status = "pending"
    BY <1>2 DEF ReleasedByExpiry
  <2> QED
    BY <2>1 DEF Event, Edited
<1> HIDE DEF free
<1>4. \A o \in outbox : Edited(o, o)
  BY DEF Edited
<1>5. /\ \A q \in events : q \in Event /\ \E o \in outbox : Edited(o, q)
      /\ \A o \in outbox : \E q \in events : Edited(o, q)
  BY <1>2, <1>3, <1>4
<1>6. \A q1, q2 \in events : q1.id = q2.id => q1 = q2
  <2>1. \A q \in events : \E o \in outbox : q.id = o.id /\ IF o \in ReleasedByExpiry THEN q = free(o) ELSE q = o
    BY <1>3
  <2> HIDE DEF events
  <2> QED
    BY <1>2, <2>1
<1>7. \A f, g \in fence' : f \in fence /\ f = g
  BY <1>1, <1>2
<1> HIDE DEF events
<1>8. CASE outbox' = events /\ UNCHANGED <<st, wk>>
  BY <1>1, <1>5, <1>6, <1>7, <1>8 DEF Edits, dir
<1>9. ASSUME NEW e \in heads, outbox' = (events \ {e}) \cup {claim(e)},
             st' = [st EXCEPT !.row = TRUE, !.dv = MaxOf(@, claim(e).dv)],
             wk' = [wk EXCEPT ![w] = [pc |-> "claimed", ev |-> claim(e)]]
      PROVE  \E o, c : Claims(w, o, c)
  <2>1. /\ e \in events /\ e \in Event /\ e.status = "pending" /\ fences = {}
        /\ \A p \in events : p.row < e.row => p.status # "pending" /\ p.type # "mfa_reset"
    BY <1>5 DEF Claimable
  <2>2. PICK o \in outbox : Edited(o, e)
    BY <1>5, <2>1
  <2>3. \A a, b \in Nat : MaxOf(a, b) \in Nat /\ MaxOf(a, b) >= a /\ MaxOf(a, b) >= b
    BY DEF MaxOf
  <2>4. st.dv \in Nat /\ st.rev \in Nat /\ e.rev \in Nat /\ e.dv \in Nat
    BY <1>2, <2>1 DEF State, Event
  <2>5. /\ claim(e).id = e.id /\ claim(e).row = e.row /\ claim(e).type = e.type
        /\ claim(e).rev = e.rev /\ claim(e).status = e.status /\ claim(e).tok = t
        /\ claim(e).active => e.active
        /\ claim(e).active = e.active \/ claim(e).type = "mfa_reset"
        /\ IF e.dv = 0 THEN claim(e).dv > st.dv ELSE claim(e).dv = e.dv
        /\ claim(e).dv \in Nat
    <3>1. CASE e.dv # 0
      <4>1. claim(e) = [e EXCEPT !.tok = t, !.leased = TRUE]
        BY <3>1 DEF Prepare
      <4> HIDE DEF claim
      <4> QED
        BY <2>1, <3>1, <4>1 DEF Event
    <3>2. CASE e.dv = 0
      <4> DEFINE n == MaxOf(MaxOf(st.dv + 1, st.rev + 1), e.rev)
                 a == e.active /\ (e.type = "mfa_reset" => st.active /\ Access)
      <4>1. claim(e) = [[e EXCEPT !.dv = n, !.active = a] EXCEPT !.tok = t, !.leased = TRUE]
        BY <2>1, <3>2 DEF Prepare
      <4>2. a \in BOOLEAN /\ (a => e.active) /\ (e.type # "mfa_reset" => a = e.active)
        BY <1>2, <2>1 DEF Event, State, Access, Allowed
      <4>3. n \in Nat /\ n > st.dv
        <5> DEFINE m == MaxOf(st.dv + 1, st.rev + 1)
        <5>1. st.dv + 1 \in Nat /\ st.rev + 1 \in Nat
          BY <2>4
        <5>2. m \in Nat /\ m >= st.dv + 1
          BY <2>3, <5>1
        <5> HIDE DEF m
        <5>3. n \in Nat /\ n >= m
          BY <2>3, <2>4, <5>2 DEF m
        <5> HIDE DEF n
        <5> QED
          BY <2>4, <5>2, <5>3
      <4> HIDE DEF n, a, claim
      <4>4. /\ claim(e).id = e.id /\ claim(e).row = e.row /\ claim(e).type = e.type
            /\ claim(e).rev = e.rev /\ claim(e).status = e.status /\ claim(e).tok = t
            /\ claim(e).active = a /\ claim(e).dv = n
        BY <2>1, <4>1 DEF Event
      <4> QED
        BY <3>2, <4>2, <4>3, <4>4
    <3> QED
      BY <3>1, <3>2
  <2> DEFINE c == claim(e)
  <2> HIDE DEF claim, heads
  <2>6. c.dv # 0
    BY <2>4, <2>5
  <2>7. ASSUME NEW q \in outbox' PROVE q = c \/ \E p \in outbox : p.id # o.id /\ Edited(p, q)
    <3>1. CASE q = c
      BY <3>1
    <3>2. CASE q \in events /\ q # e
      <4>1. PICK p \in outbox : Edited(p, q)
        BY <1>5, <3>2
      <4>2. q.id # e.id
        BY <1>6, <2>1, <3>2
      <4>3. p.id # o.id
        BY <2>2, <4>1, <4>2 DEF Edited
      <4> QED
        BY <4>1, <4>3
    <3> QED
      BY <1>9, <3>1, <3>2
  <2>8. ASSUME NEW p \in outbox, p.id # o.id PROVE \E q \in outbox' : Edited(p, q)
    <3>1. PICK q \in events : Edited(p, q)
      BY <1>5
    <3>2. q # e
      BY <2>2, <2>8, <3>1 DEF Edited
    <3> QED
      BY <1>9, <3>1, <3>2
  <2>9. \A q1, q2 \in outbox' : q1.id = q2.id => q1 = q2
    BY <1>6, <1>9, <2>1, <2>5
  <2>10. ASSUME NEW p \in outbox, p.row < o.row PROVE p.status = "failed" /\ p.type # "mfa_reset"
    <3>1. PICK q \in events : Edited(p, q)
      BY <1>5
    <3>2. q.row < e.row
      BY <2>2, <2>10, <3>1 DEF Edited
    <3>3. p.status \in {"pending", "failed"}
      BY <1>2 DEF Event
    <3> QED
      BY <2>1, <3>1, <3>2, <3>3 DEF Edited
  <2>11. /\ c.id = o.id /\ c.row = o.row /\ c.type = o.type /\ c.rev = o.rev /\ o.status = "pending"
         /\ c.status = "pending"
         /\ c.active => o.active
         /\ c.active = o.active \/ c.type = "mfa_reset"
         /\ IF o.dv = 0 THEN c.dv > st.dv ELSE (c.dv = o.dv \/ (c.dv > st.dv /\ c.type = "mfa_reset"))
    BY <2>1, <2>2, <2>5 DEF Edited
  <2>12. c \in outbox' /\ FreshToken(c.tok) /\ c.tok \in Tokens
    BY <1>1, <1>9, <2>5
  <2> HIDE DEF c
  <2>13. Claims(w, o, c)
    <3>1. fence' = {} /\ sys' = sys /\ UNCHANGED <<last, wire, remote>>
      BY <1>1, <2>1 DEF dir
    <3>2. /\ st' = [st EXCEPT !.row = TRUE, !.dv = MaxOf(@, c.dv)]
          /\ wk' = [wk EXCEPT ![w] = [pc |-> "claimed", ev |-> c]]
      BY <1>9 DEF c
    <3> QED
      BY <1>1, <2>2, <2>6, <2>7, <2>8, <2>9, <2>10, <2>11, <2>12, <3>1, <3>2 DEF Claims
  <2> QED
    BY <2>13
<1> QED
  BY <1>1, <1>8, <1>9

\* FinishSyncDelivery by the worker that holds the fence; any other just stops.
LEMMA FinishFinishes ==
    ASSUME OrderInv, NEW w \in Workers, NEW status \in {"pending", "failed", "delivered"},
           NEW att, NEW due, Finish(w, status, att, due), Busy(w),
           status = "failed" => ~Removal(wk[w].ev) /\ wk[w].ev.type # "mfa_reset",
           status = "delivered" => wk[w].pc = "ok"
    PROVE  Stops(w) \/ Finishes(w, status)
<1> DEFINE fin(r) == [r EXCEPT !.status = status, !.att = att, !.due = due,
                               !.leased = FALSE, !.tok = NoToken]
           done == {fin(r) : r \in Mine(w)}
<1>1. wk' = [wk EXCEPT ![w] = Idle] /\ sys' = sys /\ UNCHANGED <<last, wire, remote>>
  BY DEF Finish, dir
<1>2. CASE ~ \E f \in fence : f.tok = wk[w].ev.tok
  BY <1>1, <1>2 DEF Finish, Stops
<1>3. CASE \E f \in fence : f.tok = wk[w].ev.tok
  <2>1. /\ fence' = {f \in fence : f.tok # wk[w].ev.tok}
        /\ outbox' = (outbox \ Mine(w)) \cup (IF status = "delivered" THEN {} ELSE done)
        /\ st' = IF status = "delivered" THEN Provisioned(wk[w].ev) ELSE st
    BY <1>3 DEF Finish, Mine
  <2>2. outbox \subseteq Event /\ \A e1, e2 \in outbox : e1.id = e2.id => e1 = e2
    BY DEF OrderInv, IInv, Types_OK, TypeOK, Ordered, DB
  <2>3. \A r \in Mine(w) : r \in outbox
    BY DEF Mine
  <2>4. ASSUME NEW r \in Mine(w) PROVE Outcome(r, fin(r), status) /\ fin(r).id = r.id
    BY <2>2, <2>3 DEF Event, Outcome, Kept
  <2> HIDE DEF fin
  <2>5. CASE status = "delivered"
    <3>1. outbox' = outbox \ Mine(w) /\ st' = Provisioned(wk[w].ev)
      BY <2>1, <2>5
    <3>2. \A e1, e2 \in outbox' : e1.id = e2.id => e1 = e2
      BY <2>2, <3>1
    <3> QED
      BY <1>1, <1>3, <2>1, <2>5, <3>1, <3>2 DEF Finishes
  <2>6. CASE status # "delivered"
    <3>1. outbox' = (outbox \ Mine(w)) \cup done /\ st' = st
      BY <2>1, <2>6
    <3>2. \A e1, e2 \in outbox' : e1.id = e2.id => e1 = e2
      <4>1. \A e \in outbox' : \E o \in outbox : e.id = o.id /\ IF o \in Mine(w) THEN e = fin(o) ELSE e = o
        BY <2>3, <2>4, <3>1
      <4> QED
        BY <2>2, <4>1
    <3>3. \A e \in outbox' : (e \in outbox \ Mine(w)) \/ \E o \in Mine(w) : Outcome(o, e, status)
      BY <2>4, <3>1
    <3>4. \A o \in outbox : (o \in outbox' /\ o \notin Mine(w)) \/ \E e \in outbox' : Outcome(o, e, status)
      BY <2>4, <3>1
    <3> QED
      BY <1>1, <1>3, <2>1, <2>6, <3>1, <3>2, <3>3, <3>4 DEF Finishes
  <2> QED
    BY <2>5, <2>6
<1> QED
  BY <1>2, <1>3

\* A refusal spends an attempt; only a create or an update that says active can fail.
LEMMA RetryFinishes ==
    ASSUME OrderInv, NEW w \in Workers, RetryOrFail(w), Busy(w)
    PROVE  Stops(w) \/ \E status : Finishes(w, status)
<1> DEFINE e   == wk[w].ev
           att == IF e.att < Budget THEN e.att + 1 ELSE Budget
           status == IF att >= Budget /\ ~Removal(e) /\ e.type # "mfa_reset" THEN "failed" ELSE "pending"
<1>1. Finish(w, status, att, FALSE)
  BY DEF RetryOrFail
<1>2. /\ status \in {"pending", "failed"} /\ status # "delivered"
      /\ status = "failed" => ~Removal(wk[w].ev) /\ wk[w].ev.type # "mfa_reset"
  OBVIOUS
<1> HIDE DEF status, att
<1> QED
  BY <1>1, <1>2, FinishFinishes

\* What a dispatcher does.
LEMMA DispatchKinds ==
    ASSUME OrderInv, NEW w \in Workers, Dispatch(w)
    PROVE  \/ Edits \/ (\E o, c : Claims(w, o, c)) \/ Begins(w) \/ Stops(w) \/ Sends(w)
           \/ (\E status : Finishes(w, status))
<1>1. ASSUME NEW t \in Tokens, ClaimDueSyncEvents(w, t) PROVE Edits \/ \E o, c : Claims(w, o, c)
  BY <1>1, ClaimClaims
<1>2. CASE BeginSyncDelivery(w)
  BY <1>2 DEF BeginSyncDelivery, Begins, Stops, Busy, dir
<1>3. CASE Send(w)
  <2>1. CASE NothingToSend(wk[w].ev)
    BY <1>3, <2>1 DEF Send, Sends, NothingToSend
  <2>2. CASE ~NothingToSend(wk[w].ev)
    BY <1>3, <2>2 DEF Send, Sends
  <2> QED
    BY <2>1, <2>2
<1>4. CASE SaveSCIMLink(w) \/ RejectSCIMCreate(w)
  <2>1. \A o \in outbox : Edited(o, o)
    BY DEF Edited
  <2>2. (\A e1, e2 \in outbox : e1.id = e2.id => e1 = e2) /\ \A f, g \in fence : f = g
    BY DEF OrderInv, Ordered, DB, FenceHolds
  <2> QED
    BY <1>4, <2>1, <2>2 DEF SaveSCIMLink, RejectSCIMCreate, Edits
<1>5. CASE Acknowledge(w)
  <2>1. Finish(w, "delivered", 0, TRUE) /\ Busy(w) /\ wk[w].pc = "ok"
    BY <1>5 DEF Acknowledge, Busy
  <2> QED
    BY <2>1, FinishFinishes
<1>6. CASE Reject(w)
  BY <1>6, RetryFinishes DEF Reject, Busy
<1>7. CASE Uncertain(w)
  <2>1. Busy(w)
    BY <1>7 DEF Uncertain, Busy
  <2>2. CASE Removal(wk[w].ev)
    BY <1>7, <2>1, <2>2, RetryFinishes DEF Uncertain
  <2>3. CASE ~Removal(wk[w].ev)
    BY <1>7, <2>1, <2>3 DEF Uncertain, Stops, dir
  <2> QED
    BY <2>2, <2>3
<1>8. CASE Unspent(w)
  <2>1. Finish(w, "pending", wk[w].ev.att, TRUE) /\ Busy(w)
    BY <1>8 DEF Unspent, Busy
  <2> QED
    BY <2>1, FinishFinishes
<1>9. CASE Crash(w)
  BY <1>9 DEF Crash, Stops, Busy, dir
<1> QED
  BY <1>1, <1>2, <1>3, <1>4, <1>5, <1>6, <1>7, <1>8, <1>9 DEF Dispatch

\* Every step is of one of these kinds.
Steps ==
    \/ \E d : Transacts(d)
    \/ DeletePairedSystem
    \/ Edits
    \/ \E w \in Workers : \/ \E o, c : Claims(w, o, c)
                          \/ Begins(w) \/ Stops(w) \/ Sends(w)
                          \/ \E status : Finishes(w, status)
    \/ \E x \in wire : Arrives(x)

\* What Next does to the queue, the claims and the wire is one of these kinds.
LEMMA StepKinds ==
    ASSUME OrderInv, [Next]_vars
    PROVE  Steps
<1>1. CASE Directory
  BY <1>1, DirectoryTurns DEF Steps
<1>2. ASSUME NEW w \in Workers, Dispatch(w) PROVE Steps
  BY <1>2, DispatchKinds DEF Steps
<1>3. CASE Receiver
  <2>1. PICK x \in wire : Land(x) \/ Refuse(x)
    BY <1>3 DEF Receiver
  <2>2. Arrives(x)
    BY <2>1 DEF Land, Refuse, Arrives, dir
  <2> QED
    BY <2>2 DEF Steps
<1>4. CASE Clock
  BY <1>4, ClockEdits DEF Steps
<1>5. CASE Operator
  BY <1>5, OperatorEdits DEF Operator, Steps
<1>6. CASE UNCHANGED vars
  <2>1. \A o \in outbox : Edited(o, o)
    BY DEF Edited
  <2>2. (\A e1, e2 \in outbox : e1.id = e2.id => e1 = e2) /\ \A f, g \in fence : f = g
    BY DEF OrderInv, Ordered, DB, FenceHolds
  <2>3. Edits
    BY <1>6, <2>1, <2>2 DEF vars, Edits
  <2> QED
    BY <2>3 DEF Steps
<1> QED
  BY <1>1, <1>2, <1>3, <1>4, <1>5, <1>6 DEF Next

-----------------------------------------------------------------------------
(* Every step keeps the order.                                              *)

\* The types the arithmetic on the queue rests on.
LEMMA OrderTypes ==
    ASSUME IInv
    PROVE  /\ st \in State /\ st.rev \in Nat /\ st.dv \in Nat /\ last \in Nat
           /\ \A e \in outbox : /\ e \in Event /\ e.id \in Nat /\ e.row \in Nat /\ e.rev \in Nat
                                /\ e.dv \in Nat /\ e.status \in {"pending", "failed"}
                                /\ e.id <= last
           /\ \A w \in Workers : /\ wk[w].ev \in Event /\ wk[w].ev.row \in Nat /\ wk[w].ev.rev \in Nat
                                 /\ wk[w].ev.dv \in Nat /\ wk[w].ev.id \in Nat
                                 /\ wk[w].ev.type \in Types /\ wk[w].ev.active \in BOOLEAN
           /\ \A x \in wire : x \in Write /\ x.row \in Nat /\ x.ver \in Nat /\ x.type \in Types
           /\ \A f \in fence : f.ev \in Nat /\ f.ev <= last
           /\ remote.ver \in Nat
           /\ NoToken \notin Tokens
           /\ \A w \in Workers : Busy(w) => wk[w].ev.tok \in Tokens
<1>1. TypeOK /\ IdsBounded /\ TokensOwned
  BY DEF IInv, Types_OK
<1>2. st \in State /\ st.rev \in Nat /\ st.dv \in Nat /\ last \in Nat /\ remote.ver \in Nat
  BY <1>1 DEF TypeOK, State
<1>3. \A e \in outbox : /\ e \in Event /\ e.id \in Nat /\ e.row \in Nat /\ e.rev \in Nat
                        /\ e.dv \in Nat /\ e.status \in {"pending", "failed"}
                        /\ e.id <= last
  BY <1>1 DEF TypeOK, IdsBounded, Event
<1>4. \A w \in Workers : wk[w].ev \in Event
  BY <1>1 DEF TypeOK
<1>5. \A w \in Workers : /\ wk[w].ev \in Event /\ wk[w].ev.row \in Nat /\ wk[w].ev.rev \in Nat
                         /\ wk[w].ev.dv \in Nat /\ wk[w].ev.id \in Nat
                         /\ wk[w].ev.type \in Types /\ wk[w].ev.active \in BOOLEAN
  BY <1>4 DEF Event
<1>6. \A x \in wire : x \in Write /\ x.row \in Nat /\ x.ver \in Nat /\ x.type \in Types
  BY <1>1 DEF TypeOK, Write
<1>7. \A f \in fence : f.ev \in Nat /\ f.ev <= last
  BY <1>1 DEF TypeOK, IdsBounded, Fence
<1> QED
  BY <1>1, <1>2, <1>3, <1>5, <1>6, <1>7, ConstantsAssumption DEF TokensOwned

\* What the order of the store says of the state.
LEMMA OrderOfState ==
    ASSUME OrderInv
    PROVE  /\ RowOk(st) /\ (~st.row => outbox = {})
           /\ \A e \in outbox : /\ e.row <= last /\ Sound(e, st)
                                /\ Removal(e) \/ e.type = "mfa_reset" => e.status = "pending"
           /\ \A e1, e2 \in outbox : /\ e1.id = e2.id => e1 = e2
                                     /\ e1.row <= e2.row => e1.rev <= e2.rev
BY DEF OrderInv, Ordered, DB

\* A directory transaction.
LEMMA TransactsOrder ==
    ASSUME OrderInv, IInv', NEW d, Transacts(d)
    PROVE  OrderInv'
<1>1. /\ st' = d.st /\ outbox' = d.ev /\ last' = d.last /\ wk' = wk /\ wire' = wire
      /\ fence' = fence /\ remote' = remote /\ sys # "gone" /\ sys' # "gone"
      /\ Ordered(d) /\ Turn(DB, d) /\ DBOk(d)
  BY DEF Transacts, Commit
<1>2. DB.st = st /\ DB.ev = outbox /\ DB.last = last
  BY DEF DB
<1>3. /\ last <= last' /\ st'.dv = st.dv /\ st.rev <= st'.rev
      /\ \A e \in outbox' :
            \/ Appended(e, last)
            \/ \E o \in outbox : /\ Kept(o, e) /\ e.tok = o.tok
                                 /\ e.status = "failed" => o.status = "failed"
      /\ ~st.row \/ st'.rev > st.rev \/ (st'.rev = st.rev /\ st'.active = st.active)
      /\ st.row => st'.row
  BY <1>1, <1>2 DEF Turn, Renewed, Steady, Fresh
<1>4. /\ st \in State /\ st' \in State /\ st.rev \in Nat /\ st'.rev \in Nat
      /\ last \in Nat /\ last' \in Nat /\ st.dv \in Nat
  BY <1>1, OrderTypes DEF OrderInv, DBOk, Store, State
<1>5. /\ \A e \in outbox' : /\ e.row \in Nat /\ e.id \in Nat /\ e.status \in {"pending", "failed"}
                            /\ e.type = "mfa_reset" => e.status = "pending"
  BY <1>1 DEF DBOk, Store, Event, Ordered
<1>6. Ordered(DB)'
  BY <1>1 DEF Ordered, DB
<1>7. ClaimsFit'
  <2>1. ASSUME NEW w \in Workers, Busy(w) PROVE wk[w].ev.row <= last' /\ wk[w].ev.dv # 0
    BY <1>3, <1>4, <2>1, OrderTypes DEF OrderInv, ClaimsFit
  <2>2. ASSUME NEW w \in Workers, Busy(w) PROVE Sound(wk[w].ev, st') /\ st'.row
    <3>1. Sound(wk[w].ev, st) /\ st.row /\ wk[w].ev.rev \in Nat /\ wk[w].ev.dv \in Nat
      BY <1>1, <2>2, OrderTypes DEF OrderInv, ClaimsFit
    <3>2. Sound(wk[w].ev, st')
      BY <1>3, <1>4, <3>1, SoundLater
    <3> QED
      BY <1>3, <3>1, <3>2
  <2>3. ASSUME NEW e \in outbox', NEW w \in Workers, Busy(w), e.id = wk[w].ev.id, e.tok = wk[w].ev.tok
        PROVE  SameContent(e, wk[w].ev)
    <3>1. e.tok # NoToken
      BY <2>3, OrderTypes DEF OrderInv
    <3>2. PICK o \in outbox : Kept(o, e) /\ e.tok = o.tok
      BY <1>3, <3>1 DEF Appended
    <3>3. SameContent(o, wk[w].ev)
      BY <2>3, <3>2 DEF OrderInv, ClaimsFit, Kept
    <3> QED
      BY <3>2, <3>3 DEF SameContent, Kept
  <2> QED
    BY <1>1, <2>1, <2>2, <2>3 DEF ClaimsFit, Busy
<1>8. WritesFit'
  <2>1. \A x \in wire : x.row <= last'
    BY <1>3, <1>4, OrderTypes DEF OrderInv, WritesFit
  <2> QED
    BY <1>1, <1>3, <2>1 DEF OrderInv, WritesFit, Busy
<1>9. ResetsBehind'
  <2> SUFFICES ASSUME NEW e \in outbox', e.type = "mfa_reset"
               PROVE  /\ \A w \in Workers : Busy(w) => wk[w].ev.row <= e.row
                      /\ \A x \in wire : x.row <= e.row
    BY <1>1 DEF ResetsBehind, Busy
  <2>1. CASE Appended(e, last)
    <3>1. e.row \in Nat /\ e.row > last
      BY <1>5, <2>1 DEF Appended
    <3> QED
      BY <1>4, <3>1, OrderTypes DEF OrderInv, ClaimsFit, WritesFit
  <2>2. CASE \E o \in outbox : Kept(o, e)
    BY <2>2 DEF OrderInv, ResetsBehind, Kept
  <2> QED
    BY <1>3, <2>1, <2>2
<1>10. FenceHolds'
  <2>1. ASSUME NEW f \in fence, NEW e \in outbox', e.id = f.ev PROVE e.status = "pending"
    <3>1. CASE Appended(e, last)
      BY <1>4, <1>5, <2>1, <3>1, OrderTypes DEF OrderInv, Appended
    <3>2. CASE \E o \in outbox : Kept(o, e) /\ (e.status = "failed" => o.status = "failed")
      BY <1>5, <2>1, <3>2 DEF OrderInv, FenceHolds, Kept
    <3> QED
      BY <1>3, <3>1, <3>2
  <2> QED
    BY <1>1, <2>1 DEF OrderInv, FenceHolds
<1>11. RemoteFits'
  BY <1>1, <1>3 DEF OrderInv, RemoteFits
<1> QED
  BY <1>1, <1>6, <1>7, <1>8, <1>9, <1>10, <1>11 DEF OrderInv, GoneEmpty

\* The connector is deleted.
LEMMA GoneOrder ==
    ASSUME OrderInv, IInv', DeletePairedSystem
    PROVE  OrderInv'
<1>1. /\ sys' = "gone" /\ st' = NoRow /\ outbox' = {} /\ fence' = {}
      /\ last' = last /\ wk' = wk /\ wire' = wire /\ remote' = remote
  BY DEF DeletePairedSystem
<1>2. RowOk(NoRow)
  BY DEF RowOk, NoRow
<1>3. Ordered(DB)'
  BY <1>1, <1>2 DEF Ordered, DB
<1>4. ClaimsFit' /\ WritesFit'
  BY <1>1 DEF OrderInv, ClaimsFit, WritesFit, Busy
<1>5. ResetsBehind' /\ FenceHolds' /\ RemoteFits'
  BY <1>1 DEF OrderInv, ResetsBehind, FenceHolds, RemoteFits
<1> QED
  BY <1>1, <1>3, <1>4, <1>5 DEF OrderInv, GoneEmpty

\* Events are edited in place.
LEMMA EditsOrder ==
    ASSUME OrderInv, IInv', Edits
    PROVE  OrderInv'
<1>1. /\ \A e \in outbox' : \E o \in outbox : Edited(o, e)
      /\ \A e1, e2 \in outbox' : e1.id = e2.id => e1 = e2
      /\ \A f \in fence' : \E g \in fence : f.tok = g.tok /\ f.ev = g.ev
      /\ \A f, g \in fence' : f = g
      /\ sys' = sys /\ st' = st /\ last' = last /\ wk' = wk /\ wire' = wire /\ remote' = remote
  BY DEF Edits
<1>2. ASSUME NEW e \in outbox'
      PROVE  \E o \in outbox : Edited(o, e) /\ e.row <= last /\ Sound(e, st)
                               /\ (Removal(e) \/ e.type = "mfa_reset" => e.status = "pending")
  <2>1. PICK o \in outbox : Edited(o, e)
    BY <1>1
  <2>2. /\ o.row <= last /\ Sound(o, st) /\ o.dv \in Nat /\ st.dv \in Nat
        /\ Removal(o) \/ o.type = "mfa_reset" => o.status = "pending"
    BY OrderOfState, OrderTypes DEF OrderInv
  <2>3. Sound(e, st)
    BY <2>1, <2>2 DEF Sound, Current, Edited
  <2> QED
    BY <2>1, <2>2, <2>3 DEF Edited, Removal
<1>3. Ordered(DB)'
  <2>1. \A e1, e2 \in outbox' : e1.row <= e2.row => e1.rev <= e2.rev
    BY <1>1, OrderOfState DEF Edited
  <2>2. RowOk(st) /\ (~st.row => outbox' = {})
    BY <1>1, OrderOfState
  <2> QED
    BY <1>1, <1>2, <2>1, <2>2 DEF Ordered, DB
<1>4. ClaimsFit'
  <2>1. ASSUME NEW e \in outbox', NEW w \in Workers, Busy(w), e.id = wk[w].ev.id, e.tok = wk[w].ev.tok
        PROVE  SameContent(e, wk[w].ev)
    <3>1. PICK o \in outbox : Edited(o, e)
      BY <1>1
    <3>2. e.tok # NoToken
      BY <2>1, OrderTypes DEF OrderInv
    <3>3. SameContent(o, wk[w].ev)
      BY <2>1, <3>1, <3>2 DEF OrderInv, ClaimsFit, Edited
    <3> QED
      BY <3>1, <3>2, <3>3 DEF SameContent, Edited
  <2> QED
    BY <1>1, <2>1 DEF OrderInv, ClaimsFit, Busy
<1>5. WritesFit' /\ RemoteFits'
  BY <1>1 DEF OrderInv, WritesFit, RemoteFits, Busy
<1>6. ResetsBehind'
  BY <1>1 DEF OrderInv, ResetsBehind, Busy, Edited
<1>7. FenceHolds'
  BY <1>1 DEF OrderInv, FenceHolds, Edited
<1>8. GoneEmpty'
  BY <1>1 DEF OrderInv, GoneEmpty
<1> QED
  BY <1>3, <1>4, <1>5, <1>6, <1>7, <1>8 DEF OrderInv

\* A claim of the head of the queue.
LEMMA ClaimsState ==
    ASSUME OrderInv, IInv', NEW w \in Workers, NEW o, NEW c, Claims(w, o, c)
    PROVE  /\ st'.rev = st.rev /\ st'.active = st.active /\ st'.off = st.off /\ st'.row = TRUE
           /\ st.dv <= st'.dv /\ c.dv <= st'.dv /\ c.dv \in Nat /\ c.row \in Nat
           /\ \A v \in Workers : wk'[v] = IF v = w THEN [pc |-> "claimed", ev |-> c] ELSE wk[v]
<1>1. st \in State /\ st.dv \in Nat
  BY OrderTypes DEF OrderInv
<1>2. c \in Event
  BY DEF Claims, IInv, Types_OK, TypeOK
<1>3. c.dv \in Nat /\ c.row \in Nat
  BY <1>2 DEF Event
<1>4. st' = [st EXCEPT !.row = TRUE, !.dv = MaxOf(st.dv, c.dv)]
  BY DEF Claims
<1>5. MaxOf(st.dv, c.dv) >= st.dv /\ MaxOf(st.dv, c.dv) >= c.dv /\ MaxOf(st.dv, c.dv) \in Nat
  BY <1>1, <1>3 DEF MaxOf
<1> DEFINE m == MaxOf(st.dv, c.dv)
<1> HIDE DEF m
<1>6. st' = [st EXCEPT !.row = TRUE, !.dv = m]
  BY <1>4 DEF m
<1>7. /\ st'.rev = st.rev /\ st'.active = st.active /\ st'.off = st.off /\ st'.row = TRUE
      /\ st'.dv = m
  BY <1>1, <1>6 DEF State
<1>8. \A v \in Workers : wk'[v] = IF v = w THEN [pc |-> "claimed", ev |-> c] ELSE wk[v]
  BY DEF Claims, OrderInv, IInv, Types_OK, TypeOK
<1> QED
  BY <1>1, <1>3, <1>5, <1>7, <1>8 DEF m

\* A claim is a copy of its event under a new token and the next version.
LEMMA ClaimsOrder ==
    ASSUME OrderInv, IInv', NEW w \in Workers, NEW o, NEW c, Claims(w, o, c)
    PROVE  OrderInv'
<1>1. /\ st'.rev = st.rev /\ st'.active = st.active /\ st'.off = st.off /\ st'.row = TRUE
      /\ st.dv <= st'.dv /\ c.dv <= st'.dv /\ c.dv \in Nat /\ c.row \in Nat
      /\ \A v \in Workers : wk'[v] = IF v = w THEN [pc |-> "claimed", ev |-> c] ELSE wk[v]
  BY ClaimsState
<1>2. /\ o \in outbox /\ c \in outbox' /\ sys # "gone" /\ wk[w].pc = "idle"
      /\ o.status = "pending"
      /\ \A p \in outbox : p.row < o.row => p.status = "failed" /\ p.type # "mfa_reset"
      /\ c.id = o.id /\ c.row = o.row /\ c.type = o.type /\ c.rev = o.rev /\ c.status = "pending"
      /\ c.active => o.active
      /\ c.active = o.active \/ c.type = "mfa_reset"
      /\ c.dv # 0
      /\ FreshToken(c.tok) /\ c.tok \in Tokens
      /\ \A e \in outbox' : e = c \/ \E p \in outbox : p.id # o.id /\ Edited(p, e)
      /\ \A e1, e2 \in outbox' : e1.id = e2.id => e1 = e2
      /\ fence' = {}
      /\ sys' = sys /\ last' = last /\ wire' = wire /\ remote' = remote
  BY DEF Claims
<1>3. st \in State /\ st' \in State /\ st.rev \in Nat /\ st.dv \in Nat /\ st'.dv \in Nat /\ last \in Nat
  BY OrderTypes DEF OrderInv, IInv, Types_OK, TypeOK, State
<1>4. Sound(c, st')
  <2>1. Sound(o, st)
    BY <1>2, OrderOfState
  <2> QED
    BY <1>1, <1>2, <2>1 DEF Sound, Current, Profile
<1>5. \A e : Sound(e, st) /\ e.rev \in Nat /\ e.dv \in Nat => Sound(e, st')
  BY <1>1, <1>3, SoundLater
<1>6. ASSUME NEW e \in outbox'
      PROVE  /\ e.row <= last /\ Sound(e, st')
             /\ Removal(e) \/ e.type = "mfa_reset" => e.status = "pending"
  <2>1. CASE e = c
    BY <1>2, <1>4, <2>1, OrderOfState
  <2>2. CASE \E p \in outbox : Edited(p, e)
    <3>1. PICK p \in outbox : Edited(p, e)
      BY <2>2
    <3>2. /\ p.row <= last /\ Sound(p, st) /\ p.dv \in Nat /\ p.rev \in Nat
          /\ Removal(p) \/ p.type = "mfa_reset" => p.status = "pending"
      BY OrderOfState, OrderTypes DEF OrderInv
    <3>3. Sound(e, st) /\ e.dv \in Nat /\ e.rev \in Nat
      BY <1>3, <3>1, <3>2 DEF Sound, Current, Edited
    <3> QED
      BY <1>5, <3>1, <3>2, <3>3 DEF Edited, Removal
  <2> QED
    BY <1>2, <2>1, <2>2
<1>7. Ordered(DB)'
  <2>1. \A e \in outbox' : \E p \in outbox : e.row = p.row /\ e.rev = p.rev
    BY <1>2 DEF Edited
  <2>2. \A e1, e2 \in outbox' : e1.row <= e2.row => e1.rev <= e2.rev
    BY <2>1, OrderOfState
  <2>3. RowOk(st')
    BY <1>1, OrderOfState DEF RowOk
  <2> QED
    BY <1>1, <1>2, <1>6, <2>2, <2>3 DEF Ordered, DB
<1>8. ClaimsFit'
  <2>1. ASSUME NEW v \in Workers, wk'[v].pc # "idle"
        PROVE  wk'[v].ev.row <= last /\ wk'[v].ev.dv # 0 /\ Sound(wk'[v].ev, st')
    <3>1. CASE v = w
      BY <1>1, <1>2, <1>4, <1>6, <3>1
    <3>2. CASE v # w
      <4>1. Busy(v) /\ wk'[v] = wk[v]
        BY <1>1, <2>1, <3>2 DEF Busy
      <4>2. Sound(wk[v].ev, st) /\ wk[v].ev.row <= last /\ wk[v].ev.dv # 0
        BY <1>2, <4>1 DEF OrderInv, ClaimsFit
      <4>3. wk[v].ev.rev \in Nat /\ wk[v].ev.dv \in Nat
        BY OrderTypes DEF OrderInv
      <4> QED
        BY <1>5, <4>1, <4>2, <4>3
    <3> QED
      BY <3>1, <3>2
  <2>2. ASSUME NEW e \in outbox', NEW v \in Workers, wk'[v].pc # "idle", e.id = wk'[v].ev.id,
               e.tok = wk'[v].ev.tok
        PROVE  SameContent(e, wk'[v].ev)
    <3>1. CASE v = w
      BY <1>1, <1>2, <2>2, <3>1 DEF SameContent
    <3>2. CASE v # w
      <4>1. Busy(v) /\ wk'[v] = wk[v]
        BY <1>1, <2>2, <3>2 DEF Busy
      <4>2. e.tok # NoToken /\ e.tok # c.tok
        BY <1>2, <2>2, <4>1, OrderTypes DEF OrderInv, FreshToken
      <4>3. PICK p \in outbox : Edited(p, e)
        BY <1>2, <4>2
      <4>4. SameContent(p, wk[v].ev)
        BY <2>2, <4>1, <4>2, <4>3 DEF OrderInv, ClaimsFit, Edited
      <4> QED
        BY <4>1, <4>2, <4>3, <4>4 DEF SameContent, Edited
    <3> QED
      BY <3>1, <3>2
  <2> QED
    BY <1>1, <1>2, <2>1, <2>2 DEF ClaimsFit, Busy
<1>9. WritesFit'
  <2>1. ASSUME NEW x \in wire, NEW v \in Workers, wk'[v].pc # "idle", x.tok = wk'[v].ev.tok
        PROVE  x.active = wk'[v].ev.active /\ x.ver = wk'[v].ev.dv /\ x.type = wk'[v].ev.type
    <3>1. v # w
      BY <1>1, <1>2, <2>1 DEF FreshToken
    <3>2. Busy(v) /\ wk'[v] = wk[v]
      BY <1>1, <2>1, <3>1 DEF Busy
    <3> QED
      BY <2>1, <3>2 DEF OrderInv, WritesFit
  <2>2. \A x \in wire : x.ver <= st'.dv
    BY <1>1, <1>2, <1>3, OrderTypes DEF OrderInv, WritesFit
  <2> QED
    BY <1>2, <2>1, <2>2 DEF OrderInv, WritesFit, Busy
<1>10. ResetsBehind'
  <2> SUFFICES ASSUME NEW e \in outbox', e.type = "mfa_reset"
               PROVE  /\ \A v \in Workers : wk'[v].pc # "idle" => wk'[v].ev.row <= e.row
                      /\ \A x \in wire : x.row <= e.row
    BY <1>2 DEF ResetsBehind, Busy
  <2>1. PICK p \in outbox : p.row = e.row /\ p.type = "mfa_reset" /\ p.row \in Nat
    <3>1. \E p \in outbox : p.row = e.row /\ p.type = "mfa_reset"
      BY <1>2 DEF Edited
    <3> QED
      BY <3>1, OrderTypes DEF OrderInv
  <2>2. c.row <= e.row
    BY <1>1, <1>2, <2>1
  <2>3. \A v \in Workers : Busy(v) => wk[v].ev.row <= e.row
    BY <2>1 DEF OrderInv, ResetsBehind
  <2>4. \A x \in wire : x.row <= e.row
    BY <2>1 DEF OrderInv, ResetsBehind
  <2> QED
    BY <1>1, <2>2, <2>3, <2>4 DEF Busy
<1>11. FenceHolds'
  BY <1>2 DEF FenceHolds
<1>12. RemoteFits'
  BY <1>1, <1>2, <1>3, OrderTypes DEF OrderInv, RemoteFits
<1> QED
  BY <1>2, <1>7, <1>8, <1>9, <1>10, <1>11, <1>12 DEF OrderInv, GoneEmpty

\* Nothing of the store changes: what is left is about workers, writes and the receiver.
LEMMA SameStoreOrder ==
    ASSUME OrderInv, sys' = sys, UNCHANGED <<st, outbox, last>>
    PROVE  Ordered(DB)' /\ (fence' \subseteq fence => GoneEmpty')
BY DEF OrderInv, Ordered, DB, GoneEmpty

\* A worker moves on with the event it has claimed, or stops.
LEMMA WorkersOrder ==
    ASSUME OrderInv, sys' = sys, UNCHANGED <<st, outbox, last>>, wire' \subseteq wire,
           \A w \in Workers : wk'[w].pc = "idle" \/ (Busy(w) /\ wk'[w].ev = wk[w].ev)
    PROVE  ClaimsFit' /\ WritesFit' /\ ResetsBehind'
<1>1. ClaimsFit'
  BY DEF OrderInv, ClaimsFit, Busy
<1>2. WritesFit'
  BY DEF OrderInv, WritesFit, Busy
<1>3. ResetsBehind'
  BY DEF OrderInv, ResetsBehind, Busy
<1> QED
  BY <1>1, <1>2, <1>3

\* Taking the fence: it is the only one, on an event that is pending.
LEMMA BeginsOrder ==
    ASSUME OrderInv, IInv', NEW w \in Workers, Begins(w)
    PROVE  OrderInv'
<1>1. \A v \in Workers : wk'[v].pc = "idle" \/ (Busy(v) /\ wk'[v].ev = wk[v].ev)
  BY DEF Begins, Busy, OrderInv, IInv, Types_OK, TypeOK
<1>2. Ordered(DB)' /\ ClaimsFit' /\ WritesFit' /\ ResetsBehind'
  BY <1>1, SameStoreOrder, WorkersOrder DEF Begins
<1>5. GoneEmpty'
  BY DEF Begins, OrderInv, GoneEmpty
<1>3. FenceHolds'
  <2>1. PICK e \in outbox : e.id = wk[w].ev.id /\ e.status = "pending"
    BY DEF Begins
  <2>2. \A q \in outbox : q.id = wk[w].ev.id => q.status = "pending"
    BY <2>1, OrderOfState
  <2> QED
    BY <2>2 DEF Begins, FenceHolds
<1>4. RemoteFits'
  BY DEF Begins, OrderInv, RemoteFits
<1> QED
  BY <1>2, <1>3, <1>4, <1>5 DEF OrderInv

\* A dispatcher that gives up, or crashes, leaves the queue as it was.
LEMMA StopsOrder ==
    ASSUME OrderInv, IInv', NEW w \in Workers, Stops(w)
    PROVE  OrderInv'
<1>1. \A v \in Workers : wk'[v].pc = "idle" \/ (Busy(v) /\ wk'[v].ev = wk[v].ev)
  BY DEF Stops, Busy, OrderInv, IInv, Types_OK, TypeOK, Idle
<1>2. Ordered(DB)' /\ GoneEmpty' /\ ClaimsFit' /\ WritesFit' /\ ResetsBehind'
  BY <1>1, SameStoreOrder, WorkersOrder DEF Stops
<1>3. FenceHolds' /\ RemoteFits'
  BY DEF Stops, OrderInv, FenceHolds, RemoteFits
<1> QED
  BY <1>2, <1>3 DEF OrderInv

\* A write, when it arrives, is what its worker claimed.
LEMMA ArrivesOrder ==
    ASSUME OrderInv, IInv', NEW x \in wire, Arrives(x)
    PROVE  OrderInv'
<1>1. \A v \in Workers : wk'[v].pc = "idle" \/ (Busy(v) /\ wk'[v].ev = wk[v].ev)
  <2>1. wk \in [Workers -> [pc : {"idle", "claimed", "begun", "sent", "ok", "refused"}, ev : Event]]
    BY DEF OrderInv, IInv, Types_OK, TypeOK
  <2> QED
    BY <2>1 DEF Arrives, Answer, Busy
<1>2. Ordered(DB)' /\ GoneEmpty' /\ ClaimsFit' /\ WritesFit' /\ ResetsBehind'
  BY <1>1, SameStoreOrder, WorkersOrder DEF Arrives
<1>3. FenceHolds'
  BY DEF Arrives, OrderInv, FenceHolds
<1>4. RemoteFits'
  <2>1. CASE UNCHANGED remote
    BY <2>1 DEF Arrives, OrderInv, RemoteFits
  <2>2. CASE remote' = [known |-> remote.known \/ x.active, active |-> x.active,
                        ver |-> x.ver, type |-> x.type]
    <3>1. /\ remote'.known = (remote.known \/ x.active) /\ remote'.active = x.active
          /\ remote'.ver = x.ver
      BY <2>2
    <3>2. remote'.active => remote'.known
      BY <3>1
    <3> QED
      BY <3>1, <3>2 DEF Arrives, OrderInv, RemoteFits, WritesFit
  <2> QED
    BY <2>1, <2>2 DEF Arrives
<1> QED
  BY <1>2, <1>3, <1>4 DEF OrderInv

\* A write says what the claim says, and nothing was claimed behind a reset.
LEMMA SendsOrder ==
    ASSUME OrderInv, IInv', NEW w \in Workers, Sends(w)
    PROVE  OrderInv'
<1>0. wk \in [Workers -> [pc : {"idle", "claimed", "begun", "sent", "ok", "refused"}, ev : Event]]
  BY DEF OrderInv, IInv, Types_OK, TypeOK
<1>1. \A v \in Workers : wk'[v].ev = wk[v].ev /\ (wk'[v].pc = "idle" \/ Busy(v))
  BY <1>0 DEF Sends, Busy
<1>2. Busy(w) /\ sys' = sys /\ UNCHANGED <<st, outbox, last, fence, remote>>
  BY DEF Sends, Busy
<1>3. FenceHolds' /\ RemoteFits'
  BY <1>2 DEF OrderInv, FenceHolds, RemoteFits
<1>4. CASE wire' = wire
  <2>1. Ordered(DB)' /\ GoneEmpty' /\ ClaimsFit' /\ WritesFit' /\ ResetsBehind'
    BY <1>1, <1>2, <1>4, SameStoreOrder, WorkersOrder
  <2> QED
    BY <1>3, <2>1 DEF OrderInv
<1>5. CASE wire' # wire
  <2> DEFINE x == [tok |-> wk[w].ev.tok, ev |-> wk[w].ev.id, row |-> wk[w].ev.row,
                   type |-> wk[w].ev.type, active |-> wk[w].ev.active, ver |-> wk[w].ev.dv]
  <2>1. wire' = wire \cup {x}
    BY <1>5 DEF Sends
  <2>2. /\ x.tok = wk[w].ev.tok /\ x.row = wk[w].ev.row /\ x.type = wk[w].ev.type
        /\ x.active = wk[w].ev.active /\ x.ver = wk[w].ev.dv
    OBVIOUS
  <2> HIDE DEF x
  <2>3. Ordered(DB)' /\ GoneEmpty'
    BY <1>2, SameStoreOrder
  <2>4. ClaimsFit'
    BY <1>1, <1>2 DEF OrderInv, ClaimsFit, Busy
  <2>5. ResetsBehind'
    BY <1>1, <1>2, <2>1, <2>2 DEF OrderInv, ResetsBehind, Busy
  <2>6. WritesFit'
    <3>1. /\ x.row <= last
          /\ sys # "gone" => /\ x.type = "created" => x.active
                             /\ x.type = "deleted" => ~x.active
                             /\ x.ver <= st.dv
      BY <1>2, <2>2 DEF OrderInv, ClaimsFit, Sound
    <3>2. ASSUME NEW v \in Workers, Busy(v), x.tok = wk[v].ev.tok
          PROVE  x.active = wk[v].ev.active /\ x.ver = wk[v].ev.dv /\ x.type = wk[v].ev.type
      BY <1>2, <2>2, <3>2 DEF OrderInv, IInv, TokensOwned
    <3>3. \A y \in wire', v \in Workers : wk'[v].pc # "idle" /\ y.tok = wk'[v].ev.tok =>
            y.active = wk'[v].ev.active /\ y.ver = wk'[v].ev.dv /\ y.type = wk'[v].ev.type
      BY <1>1, <2>1, <3>2 DEF OrderInv, WritesFit, Busy
    <3>4. \A y \in wire' : /\ y.row <= last
                           /\ sys # "gone" => /\ y.type = "created" => y.active
                                              /\ y.type = "deleted" => ~y.active
                                              /\ y.ver <= st.dv
      BY <2>1, <3>1 DEF OrderInv, WritesFit
    <3> QED
      BY <1>2, <3>3, <3>4 DEF WritesFit, Busy
  <2> QED
    BY <1>3, <2>3, <2>4, <2>5, <2>6 DEF OrderInv
<1> QED
  BY <1>4, <1>5

\* The answer is recorded on the one event that still carries the claim.
LEMMA FinishesOrder ==
    ASSUME OrderInv, IInv', NEW w \in Workers, NEW status, Finishes(w, status)
    PROVE  OrderInv'
<1>1. /\ Busy(w) /\ fence' = {f \in fence : f.tok # wk[w].ev.tok}
      /\ wk' = [wk EXCEPT ![w] = Idle]
      /\ sys' = sys /\ last' = last /\ wire' = wire /\ remote' = remote
      /\ \A e1, e2 \in outbox' : e1.id = e2.id => e1 = e2
  BY DEF Finishes
<1>2. fence' = {} /\ sys # "gone" /\ st.row
  BY <1>1 DEF Finishes, OrderInv, FenceHolds, ClaimsFit, GoneEmpty
<1>3. \A v \in Workers : wk'[v].pc = "idle" \/ (Busy(v) /\ wk'[v].ev = wk[v].ev)
  BY <1>1 DEF Busy, OrderInv, IInv, Types_OK, TypeOK, Idle
<1>4. /\ st'.rev = st.rev /\ st'.active = st.active /\ st'.row = st.row /\ st'.dv = st.dv
      /\ st'.off => st.off \/ ~st.active
  BY OrderTypes DEF Finishes, Provisioned, OrderInv, State
<1>5. ASSUME NEW e \in outbox'
      PROVE  \E o \in outbox : /\ Kept(o, e) /\ (e.tok = o.tok \/ e.tok = NoToken)
                               /\ Removal(e) \/ e.type = "mfa_reset" => e.status = "pending"
  <2>1. CASE e \in outbox
    BY <2>1, OrderOfState DEF Kept
  <2>2. CASE e \notin outbox
    <3>1. status # "delivered"
      BY <2>2 DEF Finishes
    <3>2. PICK o \in Mine(w) : Outcome(o, e, status)
      BY <2>2, <3>1 DEF Finishes
    <3>3. o \in outbox /\ SameContent(o, wk[w].ev)
      BY <1>1, <3>2 DEF Mine, OrderInv, ClaimsFit
    <3>4. Removal(e) \/ e.type = "mfa_reset" => e.status = "pending"
      BY <3>1, <3>2, <3>3 DEF Finishes, Outcome, Kept, SameContent, Removal
    <3> QED
      BY <3>2, <3>3, <3>4 DEF Outcome
  <2> QED
    BY <2>1, <2>2
<1>6. Ordered(DB)'
  <2>1. ASSUME NEW e \in outbox'
        PROVE  /\ e.row <= last /\ Sound(e, st')
               /\ Removal(e) \/ e.type = "mfa_reset" => e.status = "pending"
    <3>1. PICK o \in outbox : /\ Kept(o, e)
                              /\ Removal(e) \/ e.type = "mfa_reset" => e.status = "pending"
      BY <1>5
    <3>2. o.row <= last /\ Sound(o, st)
      BY OrderOfState
    <3> QED
      BY <1>4, <3>1, <3>2 DEF Sound, Current, Kept
  <2>2. \A e1, e2 \in outbox' : e1.row <= e2.row => e1.rev <= e2.rev
    <3>1. \A e \in outbox' : \E o \in outbox : e.row = o.row /\ e.rev = o.rev
      BY <1>5 DEF Kept
    <3> QED
      BY <3>1, OrderOfState
  <2>3. RowOk(st')
    BY <1>2, <1>4, OrderOfState DEF RowOk
  <2> QED
    BY <1>1, <1>2, <1>4, <2>1, <2>2, <2>3 DEF Ordered, DB
<1>7. ClaimsFit'
  <2>1. ASSUME NEW e \in outbox', NEW v \in Workers, Busy(v), e.id = wk[v].ev.id, e.tok = wk[v].ev.tok
        PROVE  SameContent(e, wk[v].ev)
    <3>1. PICK o \in outbox : Kept(o, e) /\ (e.tok = o.tok \/ e.tok = NoToken)
      BY <1>5
    <3>2. e.tok # NoToken
      BY <2>1, OrderTypes DEF OrderInv
    <3>3. SameContent(o, wk[v].ev)
      BY <2>1, <3>1, <3>2 DEF OrderInv, ClaimsFit, Kept
    <3> QED
      BY <3>1, <3>3 DEF SameContent, Kept
  <2>2. ASSUME NEW v \in Workers, Busy(v) PROVE Sound(wk[v].ev, st') /\ st'.row
    BY <1>2, <1>4, <2>2 DEF OrderInv, ClaimsFit, Sound, Current
  <2> QED
    BY <1>1, <1>3, <2>1, <2>2 DEF OrderInv, ClaimsFit, Busy
<1>8. WritesFit'
  BY <1>1, <1>3, <1>4 DEF OrderInv, WritesFit, Busy
<1>9. ResetsBehind'
  <2>1. \A e \in outbox' : \E o \in outbox : e.row = o.row /\ e.type = o.type
    BY <1>5 DEF Kept
  <2> QED
    BY <1>1, <1>3, <2>1 DEF OrderInv, ResetsBehind, Busy
<1>10. FenceHolds'
  BY <1>2 DEF FenceHolds
<1>11. RemoteFits'
  BY <1>1, <1>4 DEF OrderInv, RemoteFits
<1> QED
  BY <1>1, <1>2, <1>6, <1>7, <1>8, <1>9, <1>10, <1>11 DEF OrderInv, GoneEmpty

\* The order holds initially.
LEMMA InitOrder == Init => OrderInv
<1> SUFFICES ASSUME Init PROVE OrderInv
  OBVIOUS
<1>1. RowOk(NoRow)
  BY DEF RowOk, NoRow
<1>2. /\ st = NoRow /\ outbox = {} /\ wire = {} /\ fence = {} /\ sys # "gone"
      /\ \A w \in Workers : ~Busy(w)
  BY DEF Init, Busy, Idle
<1>3. Ordered(DB)
  BY <1>1, <1>2 DEF Ordered, DB
<1>4. RemoteFits
  BY <1>2 DEF Init, RemoteFits, NoRow
<1> QED
  BY <1>2, <1>3, <1>4, InitOk DEF OrderInv, GoneEmpty, ClaimsFit, WritesFit, ResetsBehind, FenceHolds

\* The order is inductive.
LEMMA NextOrder == OrderInv /\ [Next]_vars => OrderInv'
<1> SUFFICES ASSUME OrderInv, [Next]_vars PROVE OrderInv'
  OBVIOUS
<1>1. IInv' /\ Steps
  BY NextOk, StepKinds DEF OrderInv
<1> QED
  BY <1>1, TransactsOrder, GoneOrder, EditsOrder, ClaimsOrder, BeginsOrder, StopsOrder, SendsOrder,
     FinishesOrder, ArrivesOrder DEF Steps

\* ResetUserMFA and queueDesiredStateTx put a reset where only what is queued before it can
\* have been sent; the claim order of ClaimDueSyncEvents keeps what is behind it there. So
\* no activating profile write is ever out past an undelivered reset.
THEOREM ResetsComeFirst == Spec => []ResetBeforeReactivation
<1>1. OrderInv => ResetBeforeReactivation
  <2> SUFFICES ASSUME OrderInv, NEW x \in wire, NEW e \in outbox, e.type = "mfa_reset", e.row < x.row
               PROVE  FALSE
    BY DEF ResetBeforeReactivation
  <2>1. x.row \in Nat /\ e.row \in Nat /\ x.row <= e.row
    BY OrderTypes DEF OrderInv, ResetsBehind
  <2> QED
    BY <2>1
<1> QED
  BY <1>1, InitOrder, NextOrder, PTL DEF Spec

-----------------------------------------------------------------------------
(* Removals: from the claim of the removal that is current, nothing can    *)
(* activate the account until its desired state changes.                   *)

\* Nothing that could make the account active is out, or can be claimed.
Quiet ==
    /\ \A e \in outbox : e.active => e.status = "failed"
    /\ \A x \in wire : ~x.active
    /\ \A w \in Workers : wk[w].pc = "begun" => ~wk[w].ev.active

\* The worker delivers the removal that is current.
Removing(w) == Busy(w) /\ wk[w].ev.type \in {"updated", "deleted"} /\ wk[w].ev.rev = st.rev

RemovalInv ==
    sys # "gone" /\ ~st.active =>
       /\ st.off \/ (\E w \in Workers : Removing(w)) => Quiet
       /\ st.off \/ (\E w \in Workers : Removing(w) /\ wk[w].pc = "ok") => ~remote.active
       /\ st.row /\ ~st.off => \E e \in outbox : Current(e, st)

\* With no fence held, every write that is out or about to be made is a removal.
LEMMA NoFenceNoGrant ==
    ASSUME OrderInv', sys' # "gone", fence' = {}
    PROVE  /\ \A x \in wire' : ~x.active /\ Removal(x)
           /\ \A w \in Workers : wk'[w].pc = "begun" => ~wk'[w].ev.active /\ Removal(wk'[w].ev)
<1>1. ASSUME NEW x \in wire' PROVE ~x.active /\ Removal(x)
  BY DEF OrderInv, IInv, UncertainWriteHoldsFence, WritesFit, Removal
<1>2. ASSUME NEW w \in Workers, wk'[w].pc = "begun" PROVE ~wk'[w].ev.active /\ Removal(wk'[w].ev)
  BY <1>2 DEF OrderInv, IInv, BegunFenced, ClaimsFit, Sound, Removal, Busy
<1> QED
  BY <1>1, <1>2

\* A directory transaction: a new desired state comes with work that carries it.
LEMMA TransactsRemoval ==
    ASSUME OrderInv, RemovalInv, NEW d, Transacts(d)
    PROVE  RemovalInv'
<1> SUFFICES ASSUME ~st'.active PROVE RemovalInv'
  BY DEF RemovalInv
<1>1. /\ st' = d.st /\ outbox' = d.ev /\ wk' = wk /\ wire' = wire
      /\ remote' = remote /\ sys # "gone" /\ Turn(DB, d) /\ DBOk(d)
  BY DEF Transacts, Commit
<1>2. DB.st = st /\ DB.ev = outbox /\ DB.last = last
  BY DEF DB
<1>3. st.rev \in Nat /\ st'.rev \in Nat
  BY <1>1, OrderTypes DEF OrderInv, DBOk, Store, State
<1>4. CASE Renewed(DB, d)
  <2>1. ~st'.off /\ st'.row /\ (~st.row \/ st'.rev > st.rev) /\ \E e \in outbox' : Current(e, st')
    BY <1>1, <1>2, <1>4 DEF Renewed, Fresh
  <2>2. ASSUME NEW w \in Workers, Busy(w) PROVE wk[w].ev.rev # st'.rev
    <3>1. Sound(wk[w].ev, st) /\ st.row /\ wk[w].ev.rev \in Nat
      BY <1>1, <2>2, OrderTypes DEF OrderInv, ClaimsFit
    <3> QED
      BY <1>3, <2>1, <3>1 DEF Sound
  <2>3. \A w \in Workers : ~(Removing(w)')
    BY <1>1, <2>2 DEF Removing, Busy
  <2> QED
    BY <2>1, <2>3 DEF RemovalInv
<1>5. CASE Steady(DB, d)
  <2>1. /\ st'.rev = st.rev /\ st'.active = st.active /\ st'.off = st.off /\ st'.row = st.row
        /\ \A o \in outbox : Current(o, st) => \E e \in outbox' : Kept(o, e)
        /\ \A e \in outbox' : e.active /\ e.status = "pending" =>
                              \E o \in outbox : o.active /\ o.status = "pending"
    BY <1>1, <1>2, <1>5 DEF Steady
  <2>2. \A w \in Workers : Removing(w)' <=> Removing(w)
    BY <1>1, <2>1 DEF Removing, Busy
  <2>3. Quiet => Quiet'
    <3>1. \A e \in outbox' : e.status \in {"pending", "failed"}
      BY <1>1 DEF DBOk, Store, Event
    <3> QED
      BY <1>1, <2>1, <3>1 DEF Quiet
  <2>4. (\E e \in outbox : Current(e, st)) => \E e \in outbox' : Current(e, st')
    <3> SUFFICES ASSUME NEW o \in outbox, Current(o, st) PROVE \E e \in outbox' : Current(e, st')
      OBVIOUS
    <3>1. PICK e \in outbox' : Kept(o, e)
      BY <2>1
    <3> QED
      BY <2>1, <3>1 DEF Kept, Current
  <2> QED
    BY <1>1, <2>1, <2>2, <2>3, <2>4 DEF RemovalInv
<1> QED
  BY <1>1, <1>4, <1>5 DEF Turn

\* The clock and the operator revive, unlock or fail work, but bring no activation.
LEMMA EditsRemoval ==
    ASSUME OrderInv, RemovalInv, Edits
    PROVE  RemovalInv'
<1>1. /\ \A e \in outbox' : \E o \in outbox : Edited(o, e)
      /\ \A o \in outbox : \E e \in outbox' : Edited(o, e)
      /\ sys' = sys /\ st' = st /\ wk' = wk /\ wire' = wire /\ remote' = remote
  BY DEF Edits
<1>2. \A w \in Workers : Removing(w)' <=> Removing(w)
  BY <1>1 DEF Removing, Busy
<1>3. Quiet => Quiet'
  BY <1>1 DEF Quiet, Edited
<1>4. (\E e \in outbox : Current(e, st)) => \E e \in outbox' : Current(e, st')
  BY <1>1 DEF Current, Edited
<1> QED
  BY <1>1, <1>2, <1>3, <1>4 DEF RemovalInv

\* The claim of the removal that is current: everything before it in the queue is failed,
\* and with no fence held nothing that activates is out.
LEMMA ClaimsRemoval ==
    ASSUME OrderInv, OrderInv', RemovalInv, NEW w \in Workers, NEW o, NEW c, Claims(w, o, c)
    PROVE  RemovalInv'
<1> SUFFICES ASSUME ~st'.active PROVE RemovalInv'
  BY DEF RemovalInv
<1>1. /\ st'.rev = st.rev /\ st'.active = st.active /\ st'.off = st.off /\ st'.row = TRUE
      /\ \A v \in Workers : wk'[v] = IF v = w THEN [pc |-> "claimed", ev |-> c] ELSE wk[v]
  BY ClaimsState DEF OrderInv
<1>2. /\ o \in outbox /\ c \in outbox' /\ sys # "gone" /\ sys' # "gone" /\ o.status = "pending"
      /\ \A p \in outbox : p.row < o.row => p.status = "failed"
      /\ c.row = o.row /\ c.type = o.type /\ c.rev = o.rev
      /\ c.active => o.active
      /\ \A e \in outbox' : e = c \/ \E p \in outbox : Edited(p, e)
      /\ \A p \in outbox : p.id = o.id \/ \E e \in outbox' : Edited(p, e)
      /\ fence' = {} /\ wire' = wire /\ remote' = remote
  BY DEF Claims
<1>3. st.row
  BY <1>2, OrderOfState
<1>4. /\ \A x \in wire' : ~x.active
      /\ \A v \in Workers : wk'[v].pc = "begun" => ~wk'[v].ev.active
  BY <1>2, NoFenceNoGrant
<1>5. ASSUME st.off \/ \E v \in Workers : Removing(v)
      PROVE  Quiet'
  <2>1. Quiet
    BY <1>1, <1>2, <1>5 DEF RemovalInv
  <2>2. \A e \in outbox' : e.active => e.status = "failed"
    BY <1>2, <2>1 DEF Quiet, Edited
  <2> QED
    BY <1>4, <2>2 DEF Quiet
<1>6. ASSUME o.type \in {"updated", "deleted"}, o.rev = st.rev
      PROVE  Quiet'
  <2>1. ASSUME NEW e \in outbox', e.active PROVE e.status = "failed"
    <3>1. PICK p \in outbox : /\ p.active /\ p.row \in Nat /\ p.rev \in Nat /\ o.row \in Nat
                              /\ p.status = e.status \/ p = o
      <4>1. CASE e = c
        BY <1>2, <2>1, <4>1, OrderTypes DEF OrderInv
      <4>2. CASE \E p \in outbox : Edited(p, e)
        BY <1>2, <2>1, <4>2, OrderTypes DEF OrderInv, Edited
      <4> QED
        BY <1>2, <4>1, <4>2
    <3>2. Sound(p, st) /\ Sound(o, st) /\ (o.row <= p.row => o.rev <= p.rev) /\ st.rev \in Nat
      BY <1>2, OrderOfState, OrderTypes DEF OrderInv
    <3>3. p.rev < st.rev
      BY <1>1, <3>1, <3>2 DEF Sound
    <3>4. p.row < o.row
      BY <1>6, <3>1, <3>2, <3>3
    <3> QED
      BY <1>2, <3>1, <3>4
  <2> QED
    BY <1>4, <2>1 DEF Quiet
<1>7. \A v \in Workers : Removing(v)' => Removing(v) \/ (o.type \in {"updated", "deleted"} /\ o.rev = st.rev)
  BY <1>1, <1>2 DEF Removing, Busy
<1>8. \A v \in Workers : (Removing(v) /\ wk[v].pc = "ok")' => Removing(v) /\ wk[v].pc = "ok"
  BY <1>1 DEF Removing, Busy
<1>9. (\E e \in outbox : Current(e, st)) => \E e \in outbox' : Current(e, st')
  <2> SUFFICES ASSUME NEW p \in outbox, Current(p, st) PROVE \E e \in outbox' : Current(e, st')
    OBVIOUS
  <2>1. CASE p.id = o.id
    <3>1. p = o
      BY <1>2, <2>1, OrderOfState
    <3> QED
      BY <1>1, <1>2, <3>1 DEF Current
  <2>2. CASE p.id # o.id
    BY <1>1, <1>2, <2>2 DEF Current, Edited
  <2> QED
    BY <2>1, <2>2
<1> QED
  BY <1>1, <1>2, <1>3, <1>5, <1>6, <1>7, <1>8, <1>9 DEF RemovalInv

\* Beginning the delivery of a grant: no removal that is current is claimed.
LEMMA BeginsRemoval ==
    ASSUME OrderInv, RemovalInv, NEW w \in Workers, Begins(w)
    PROVE  RemovalInv'
<1>1. /\ wk[w].pc = "claimed" /\ sys' = sys /\ st' = st /\ outbox' = outbox /\ wire' = wire
      /\ remote' = remote /\ Busy(w)
  BY DEF Begins, Busy
<1>2. \A v \in Workers : wk'[v].ev = wk[v].ev /\ wk'[v].pc = IF v = w THEN "begun" ELSE wk[v].pc
  BY DEF Begins, OrderInv, IInv, Types_OK, TypeOK
<1>3. PICK e \in outbox : e.id = wk[w].ev.id /\ e.tok = wk[w].ev.tok /\ e.status = "pending"
  BY DEF Begins
<1>4. e.active = wk[w].ev.active
  BY <1>1, <1>3 DEF OrderInv, ClaimsFit, SameContent
<1>5. Quiet => Quiet'
  BY <1>1, <1>2, <1>3, <1>4 DEF Quiet
<1>6. \A v \in Workers : /\ Removing(v)' <=> Removing(v)
                         /\ (wk[v].pc = "ok")' => wk[v].pc = "ok"
  BY <1>1, <1>2 DEF Removing, Busy
<1> QED
  BY <1>1, <1>5, <1>6 DEF RemovalInv

\* Giving a claim up sends nothing.
LEMMA StopsRemoval ==
    ASSUME OrderInv, RemovalInv, NEW w \in Workers, Stops(w)
    PROVE  RemovalInv'
<1>1. sys' = sys /\ st' = st /\ outbox' = outbox /\ wire' = wire /\ remote' = remote
  BY DEF Stops
<1>2. \A v \in Workers : wk'[v].pc = "idle" \/ wk'[v] = wk[v]
  BY DEF Stops, OrderInv, IInv, Types_OK, TypeOK, Idle
<1>3. Quiet => Quiet'
  BY <1>1, <1>2 DEF Quiet
<1>4. \A v \in Workers : Removing(v)' => Removing(v) /\ ((wk[v].pc = "ok")' => wk[v].pc = "ok")
  BY <1>1, <1>2 DEF Removing, Busy
<1> QED
  BY <1>1, <1>3, <1>4 DEF RemovalInv

\* Sending the removal: nothing that could activate is out.
LEMMA SendsRemoval ==
    ASSUME OrderInv, RemovalInv, NEW w \in Workers, Sends(w)
    PROVE  RemovalInv'
<1>1. /\ wk[w].pc = "begun" /\ sys' = sys /\ st' = st /\ outbox' = outbox /\ remote' = remote
  BY DEF Sends
<1>2. \A v \in Workers : wk'[v].ev = wk[v].ev /\ (v # w => wk'[v] = wk[v]) /\ wk'[w].pc \in {"ok", "sent"}
  BY DEF Sends, OrderInv, IInv, Types_OK, TypeOK
<1>3. Quiet => Quiet'
  <2> SUFFICES ASSUME Quiet PROVE Quiet'
    OBVIOUS
  <2>1. \A x \in wire' : x \in wire \/ x.active = wk[w].ev.active
    BY DEF Sends
  <2>2. ~wk[w].ev.active
    BY <1>1 DEF Quiet
  <2> QED
    BY <1>1, <1>2, <2>1, <2>2 DEF Quiet
<1>4. \A v \in Workers : Removing(v)' <=> Removing(v)
  BY <1>1, <1>2 DEF Removing, Busy
<1>5. ASSUME Removing(w), wk'[w].pc = "ok" PROVE ~remote.active
  <2>1. ~remote.known
    BY <1>5, <1>2 DEF Sends, Removing, OrderInv, IInv, Types_OK, TypeOK
  <2> QED
    BY <2>1 DEF OrderInv, RemoteFits
<1>6. \A v \in Workers : (Removing(v) /\ wk[v].pc = "ok")' => ~remote.active \/ (Removing(v) /\ wk[v].pc = "ok")
  BY <1>2, <1>4, <1>5
<1> QED
  BY <1>1, <1>3, <1>4, <1>6 DEF RemovalInv

\* A write that arrives while a removal is current is not an activation.
LEMMA ArrivesRemoval ==
    ASSUME OrderInv, RemovalInv, NEW x \in wire, Arrives(x)
    PROVE  RemovalInv'
<1>1. sys' = sys /\ st' = st /\ outbox' = outbox /\ wire' \subseteq wire
  BY DEF Arrives
<1>2. wk \in [Workers -> [pc : {"idle", "claimed", "begun", "sent", "ok", "refused"}, ev : Event]]
  BY DEF OrderInv, IInv, Types_OK, TypeOK
<1>3. \A v \in Workers : wk'[v].ev = wk[v].ev /\ (wk'[v] = wk[v] \/ (wk[v].pc = "sent" /\ wk'[v].pc \in {"ok", "refused"}))
  BY <1>2 DEF Arrives, Answer
<1>4. Quiet => Quiet'
  BY <1>1, <1>3 DEF Quiet
<1>5. \A v \in Workers : Removing(v)' <=> Removing(v)
  BY <1>1, <1>3 DEF Removing, Busy
<1>6. CASE remote' = remote /\ Answer(x, "refused")
  <2>1. \A v \in Workers : (wk[v].pc = "ok")' => wk[v].pc = "ok"
    BY <1>2, <1>6 DEF Answer
  <2> QED
    BY <1>1, <1>4, <1>5, <1>6, <2>1 DEF RemovalInv
<1>7. CASE remote' = [known |-> remote.known \/ x.active, active |-> x.active,
                      ver |-> x.ver, type |-> x.type]
  <2>1. remote'.active = x.active
    BY <1>7
  <2>2. Quiet => ~remote'.active
    BY <2>1 DEF Quiet
  <2> QED
    BY <1>1, <1>4, <1>5, <2>2 DEF RemovalInv
<1> QED
  BY <1>6, <1>7 DEF Arrives

\* The event of a worker that holds the fence has not been failed meanwhile.
LEMMA MinePending ==
    ASSUME OrderInv, NEW w \in Workers, Busy(w), \E f \in fence : f.tok = wk[w].ev.tok
    PROVE  \A o \in Mine(w) : o \in outbox /\ o.status = "pending" /\ SameContent(o, wk[w].ev)
<1>1. PICK f \in fence : f.tok = wk[w].ev.tok
  OBVIOUS
<1>2. f.ev = wk[w].ev.id
  BY <1>1 DEF OrderInv, IInv, FenceOfEvent
<1> QED
  BY <1>1, <1>2 DEF Mine, OrderInv, FenceHolds, ClaimsFit

\* An outcome: the acknowledgement of the current removal is what offboards the account.
LEMMA FinishesRemoval ==
    ASSUME OrderInv, RemovalInv, NEW w \in Workers, NEW status, Finishes(w, status)
    PROVE  RemovalInv'
<1> SUFFICES ASSUME ~st'.active, sys' # "gone" PROVE RemovalInv'
  BY DEF RemovalInv
<1>1. /\ Busy(w) /\ sys' = sys /\ wire' = wire /\ remote' = remote /\ sys # "gone"
      /\ \E f \in fence : f.tok = wk[w].ev.tok
      /\ status \in {"pending", "failed", "delivered"}
  BY DEF Finishes
<1>2. \A v \in Workers : wk'[v].pc = "idle" \/ wk'[v] = wk[v]
  BY DEF Finishes, OrderInv, IInv, Types_OK, TypeOK, Idle
<1>3. /\ st'.rev = st.rev /\ st'.active = st.active /\ st'.row = st.row
  BY OrderTypes DEF Finishes, Provisioned, OrderInv, State
<1>4. \A o \in Mine(w) : o \in outbox /\ o.status = "pending" /\ SameContent(o, wk[w].ev)
  BY <1>1, MinePending
<1>5. Quiet => Quiet'
  <2> SUFFICES ASSUME Quiet PROVE Quiet'
    OBVIOUS
  <2>1. \A e \in outbox' : e \in outbox \/ \E o \in Mine(w) : e.active = o.active
    BY DEF Finishes, Outcome, Kept
  <2>2. \A o \in Mine(w) : ~o.active
    BY <1>4 DEF Quiet
  <2>3. \A e \in outbox' : e.active => e.status = "failed"
    BY <2>1, <2>2 DEF Quiet
  <2> QED
    BY <1>1, <1>2, <2>3 DEF Quiet
<1>6. \A v \in Workers : Removing(v)' => Removing(v) /\ ((wk[v].pc = "ok")' => wk[v].pc = "ok")
  BY <1>2, <1>3 DEF Removing, Busy
<1>7. CASE status # "delivered"
  <2>1. st' = st
    BY <1>7 DEF Finishes
  <2>2. (\E e \in outbox : Current(e, st)) => \E e \in outbox' : Current(e, st')
    BY <1>7, <2>1 DEF Finishes, Outcome, Kept, Current
  <2> QED
    BY <1>1, <1>5, <1>6, <2>1, <2>2 DEF RemovalInv
<1>8. CASE status = "delivered"
  <2>1. wk[w].pc = "ok" /\ outbox' = outbox \ Mine(w) /\ st' = Provisioned(wk[w].ev)
    BY <1>8 DEF Finishes
  <2>2. st'.off = (st.off \/ (/\ wk[w].ev.type \in {"deleted", "updated"}
                              /\ st.row /\ ~st.active /\ st.rev = wk[w].ev.rev))
    BY <2>1, OrderTypes DEF Provisioned, OrderInv, State
  <2>3. st'.off => st.off \/ (Removing(w) /\ wk[w].pc = "ok")
    BY <1>1, <2>1, <2>2 DEF Removing
  <2>4. ASSUME st'.row, ~st'.off PROVE \E e \in outbox' : Current(e, st')
    <3>1. PICK e \in outbox : Current(e, st)
      BY <1>1, <1>3, <2>2, <2>4 DEF RemovalInv
    <3>2. e \notin Mine(w)
      <4> SUFFICES ASSUME e \in Mine(w) PROVE FALSE
        OBVIOUS
      <4>1. SameContent(e, wk[w].ev) /\ Sound(e, st)
        BY <1>4, OrderOfState
      <4>2. wk[w].ev.type \in {"deleted", "updated"} /\ st.rev = wk[w].ev.rev
        BY <1>3, <3>1, <4>1 DEF SameContent, Sound, Current, Profile
      <4> QED
        BY <1>3, <2>2, <2>4, <4>2
    <3> QED
      BY <1>3, <2>1, <3>1, <3>2 DEF Current
  <2> QED
    BY <1>1, <1>3, <1>5, <1>6, <2>3, <2>4 DEF RemovalInv
<1> QED
  BY <1>7, <1>8

\* RemovalInv is inductive, given the order.
LEMMA NextRemoval == OrderInv /\ RemovalInv /\ [Next]_vars => RemovalInv'
<1> SUFFICES ASSUME OrderInv, RemovalInv, [Next]_vars PROVE RemovalInv'
  OBVIOUS
<1>1. OrderInv' /\ Steps
  BY NextOrder, StepKinds
<1>2. CASE DeletePairedSystem
  BY <1>2 DEF DeletePairedSystem, RemovalInv
<1> QED
  BY <1>1, <1>2, TransactsRemoval, EditsRemoval, ClaimsRemoval, BeginsRemoval, StopsRemoval,
     SendsRemoval, FinishesRemoval, ArrivesRemoval DEF Steps

\* An account that is not tracked has no work and no receiver.
LEMMA InitRemoval == Init => RemovalInv
<1> SUFFICES ASSUME Init PROVE RemovalInv
  OBVIOUS
<1>1. ~st.off /\ ~st.row /\ \A w \in Workers : ~Removing(w)
  BY DEF Init, NoRow, Removing, Busy, Idle
<1> QED
  BY <1>1 DEF RemovalInv

\* offboarded_at means what the completion view says (provisionedTx, FinishSyncDelivery):
\* the acknowledged account is inactive at the receiver, and no write that would activate
\* it is out, whatever was claimed, lost, retried or superseded before. Both kinds of
\* receiver.
THEOREM OffboardingIsFinal == Spec => []AcknowledgedOffboarding
<1>1. OrderInv /\ RemovalInv => AcknowledgedOffboarding
  <2> SUFFICES ASSUME OrderInv, RemovalInv, sys # "gone", st.off
               PROVE  ~remote.active /\ \A x \in wire : ~x.active
    BY DEF AcknowledgedOffboarding
  <2>1. ~st.active
    BY OrderOfState DEF RowOk
  <2> QED
    BY <2>1 DEF RemovalInv, Quiet
<1> QED
  BY <1>1, InitOrder, NextOrder, InitRemoval, NextRemoval, PTL DEF Spec

-----------------------------------------------------------------------------
(* Grants: from the claim of the grant that is current, every removal that *)
(* is still out carries an older version than it.                          *)

\* No removal that is queued or out can take effect at version v or later.
Settled(v) ==
    /\ \A e \in outbox : ~Removal(e)
    /\ \A x \in wire : Removal(x) => x.ver < v
    /\ \A w \in Workers : wk[w].pc = "begun" /\ Removal(wk[w].ev) => wk[w].ev.dv < v

\* The worker delivers the grant that is current.
Granting(w) == Busy(w) /\ wk[w].ev.type \in {"created", "updated"} /\ wk[w].ev.rev = st.rev

Granted == remote.active \/ remote.type = "mfa_reset"

GrantInv ==
    sys # "gone" /\ st.active =>
       /\ \A e \in outbox : Current(e, st) /\ e.dv # 0 => Settled(e.dv)
       /\ \A w \in Workers : Granting(w) => Settled(wk[w].ev.dv)
       /\ \A w \in Workers : Granting(w) /\ wk[w].pc = "ok" => remote.ver >= wk[w].ev.dv /\ Granted
       /\ (\A e \in outbox : ~Current(e, st)) => Settled(remote.ver) /\ Granted

\* A later version is settled too.
LEMMA SettledLater ==
    ASSUME IInv, NEW v \in Nat, NEW u \in Nat, v <= u, Settled(v)
    PROVE  Settled(u)
BY OrderTypes DEF Settled

\* The four parts of the invariant, for a state in which the account is to be active.
LEMMA GrantParts ==
    ASSUME GrantInv, sys # "gone", st.active
    PROVE  /\ \A e \in outbox : Current(e, st) /\ e.dv # 0 => Settled(e.dv)
           /\ \A w \in Workers : Granting(w) => Settled(wk[w].ev.dv)
           /\ \A w \in Workers : Granting(w) /\ wk[w].pc = "ok" => remote.ver >= wk[w].ev.dv /\ Granted
           /\ (\A e \in outbox : ~Current(e, st)) => Settled(remote.ver) /\ Granted
BY DEF GrantInv

\* What is settled stays settled when no removal is queued, claimed under the fence or
\* written that was not there before.
LEMMA SettledStays ==
    ASSUME NEW v, Settled(v),
           \A e \in outbox' : Removal(e) => \E o \in outbox : Removal(o),
           \A x \in wire' : Removal(x) => x \in wire \/ x.ver < v,
           \A w \in Workers : wk'[w].pc = "begun" /\ Removal(wk'[w].ev) =>
                                  wk[w].pc = "begun" /\ wk'[w].ev = wk[w].ev
    PROVE  Settled(v)'
<1>1. \A e \in outbox' : ~Removal(e)
  BY DEF Settled
<1>2. \A x \in wire' : Removal(x) => x.ver < v
  BY DEF Settled
<1>3. \A w \in Workers : wk'[w].pc = "begun" /\ Removal(wk'[w].ev) => wk'[w].ev.dv < v
  BY DEF Settled
<1> QED
  BY <1>1, <1>2, <1>3 DEF Settled, Removal

\* Work that was current and settled is still, when the desired state, the claims and the
\* receiver are as they were.
LEMMA GrantStays ==
    ASSUME GrantInv, sys # "gone", st'.rev = st.rev, st'.active = st.active, remote' = remote,
           \A v : Settled(v) => Settled(v)',
           \A e \in outbox' : Current(e, st) /\ e.dv # 0 => \E o \in outbox : Current(o, st) /\ o.dv = e.dv,
           \A w \in Workers : wk'[w].pc # "idle" => Busy(w) /\ wk'[w].ev = wk[w].ev,
           \A w \in Workers : wk'[w].pc = "ok" => wk[w].pc = "ok",
           (\A e \in outbox' : ~Current(e, st)) => \A e \in outbox : ~Current(e, st)
    PROVE  GrantInv'
<1> SUFFICES ASSUME st'.active, sys' # "gone" PROVE GrantInv'
  BY DEF GrantInv
<1>1. /\ \A e \in outbox : Current(e, st) /\ e.dv # 0 => Settled(e.dv)
      /\ \A w \in Workers : Granting(w) => Settled(wk[w].ev.dv)
      /\ \A w \in Workers : Granting(w) /\ wk[w].pc = "ok" => remote.ver >= wk[w].ev.dv /\ Granted
      /\ (\A e \in outbox : ~Current(e, st)) => Settled(remote.ver) /\ Granted
  BY GrantParts
<1>2. \A e : Current(e, st') <=> Current(e, st)
  BY DEF Current
<1>3. \A e \in outbox' : Current(e, st') /\ e.dv # 0 => Settled(e.dv)'
  <2> SUFFICES ASSUME NEW e \in outbox', Current(e, st'), e.dv # 0 PROVE Settled(e.dv)'
    OBVIOUS
  <2>1. PICK o \in outbox : Current(o, st) /\ o.dv = e.dv
    BY <1>2
  <2>2. Settled(e.dv)
    BY <1>1, <2>1
  <2> QED
    BY <2>2
<1>4. \A w \in Workers : Granting(w)' => Granting(w) /\ wk'[w].ev.dv = wk[w].ev.dv
  BY DEF Granting, Busy
<1>5. \A w \in Workers : Granting(w)' => Settled(wk[w].ev.dv)'
  <2> SUFFICES ASSUME NEW w \in Workers, Granting(w)' PROVE Settled(wk[w].ev.dv)'
    OBVIOUS
  <2> DEFINE v == wk[w].ev.dv
  <2>1. PICK n : n = v
    OBVIOUS
  <2>2. Settled(n)
    BY <1>1, <1>4, <2>1
  <2>3. Settled(n)'
    BY <2>2
  <2>4. wk'[w].ev.dv = n
    BY <1>4, <2>1
  <2> QED
    BY <2>3, <2>4
<1>6. \A w \in Workers : Granting(w)' /\ wk'[w].pc = "ok" => remote'.ver >= wk'[w].ev.dv /\ Granted'
  BY <1>1, <1>4 DEF Granted
<1>7. (\A e \in outbox' : ~Current(e, st')) => Settled(remote.ver)' /\ Granted'
  <2> SUFFICES ASSUME \A e \in outbox' : ~Current(e, st') PROVE Settled(remote.ver)' /\ Granted'
    OBVIOUS
  <2>1. Settled(remote.ver) /\ Granted
    BY <1>1, <1>2
  <2>2. PICK n : n = remote.ver
    OBVIOUS
  <2>3. Settled(n)'
    BY <2>1, <2>2
  <2>4. remote'.ver = n
    BY <2>2
  <2> QED
    BY <2>1, <2>3, <2>4 DEF Granted
<1> QED
  BY <1>3, <1>5, <1>6, <1>7 DEF GrantInv, Current

\* A directory transaction: work for a new desired state has no version yet.
LEMMA TransactsGrant ==
    ASSUME OrderInv, GrantInv, NEW d, Transacts(d)
    PROVE  GrantInv'
<1> SUFFICES ASSUME st'.active PROVE GrantInv'
  BY DEF GrantInv
<1>1. /\ st' = d.st /\ outbox' = d.ev /\ wk' = wk /\ wire' = wire
      /\ remote' = remote /\ sys # "gone" /\ Turn(DB, d) /\ DBOk(d)
  BY DEF Transacts, Commit
<1>2. DB.st = st /\ DB.ev = outbox /\ DB.last = last
  BY DEF DB
<1>3. st.rev \in Nat /\ st'.rev \in Nat
  BY <1>1, OrderTypes DEF OrderInv, DBOk, Store, State
<1>4. \A e \in outbox' : e.dv # 0 => \E o \in outbox : Kept(o, e)
  BY <1>1, <1>2 DEF Turn, Appended
<1>5. CASE Renewed(DB, d)
  <2>1. (~st.row \/ st'.rev > st.rev) /\ \E e \in outbox' : Current(e, st')
    BY <1>1, <1>2, <1>5 DEF Renewed, Fresh
  <2>2. ASSUME NEW w \in Workers, Busy(w) PROVE wk[w].ev.rev # st'.rev
    <3>1. Sound(wk[w].ev, st) /\ st.row /\ wk[w].ev.rev \in Nat
      BY <1>1, <2>2, OrderTypes DEF OrderInv, ClaimsFit
    <3> QED
      BY <1>3, <2>1, <3>1 DEF Sound
  <2>3. \A w \in Workers : ~(Granting(w)')
    BY <1>1, <2>2 DEF Granting, Busy
  <2>4. ASSUME NEW e \in outbox', e.dv # 0 PROVE ~Current(e, st')
    <3>1. PICK o \in outbox : Kept(o, e)
      BY <1>4, <2>4
    <3>2. Sound(o, st) /\ o.rev \in Nat /\ st.row
      BY OrderOfState, OrderTypes DEF OrderInv
    <3> QED
      BY <1>3, <2>1, <3>1, <3>2 DEF Sound, Kept, Current
  <2> QED
    BY <2>1, <2>3, <2>4 DEF GrantInv
<1>6. CASE Steady(DB, d)
  <2>1. /\ st'.rev = st.rev /\ st'.active = st.active
        /\ \A o \in outbox : Current(o, st) => \E e \in outbox' : Kept(o, e)
        /\ \A e \in outbox' : Removal(e) => \E o \in outbox : Removal(o)
    BY <1>1, <1>2, <1>6 DEF Steady
  <2>2. ASSUME NEW v, Settled(v) PROVE Settled(v)'
    BY <1>1, <2>1, <2>2, SettledStays
  <2>3. \A e \in outbox' : Current(e, st) /\ e.dv # 0 => \E o \in outbox : Current(o, st) /\ o.dv = e.dv
    BY <1>4 DEF Kept, Current
  <2>4. (\A e \in outbox' : ~Current(e, st)) => \A e \in outbox : ~Current(e, st)
    BY <2>1 DEF Kept, Current
  <2>5. \A w \in Workers : /\ wk'[w].pc # "idle" => Busy(w) /\ wk'[w].ev = wk[w].ev
                           /\ wk'[w].pc = "ok" => wk[w].pc = "ok"
    BY <1>1 DEF Busy
  <2> QED
    BY <1>1, <2>1, <2>2, <2>3, <2>4, <2>5, GrantStays
<1> QED
  BY <1>1, <1>5, <1>6 DEF Turn

\* The clock and the operator bring no removal to an active account.
LEMMA EditsGrant ==
    ASSUME OrderInv, GrantInv, Edits
    PROVE  GrantInv'
<1> SUFFICES ASSUME sys # "gone" PROVE GrantInv'
  BY DEF Edits, GrantInv
<1>1. /\ \A e \in outbox' : \E o \in outbox : Edited(o, e)
      /\ \A o \in outbox : \E e \in outbox' : Edited(o, e)
      /\ sys' = sys /\ st' = st /\ wk' = wk /\ wire' = wire /\ remote' = remote
  BY DEF Edits
<1>2. \A e \in outbox' : Removal(e) => \E o \in outbox : Removal(o)
  BY <1>1 DEF Edited, Removal
<1>3. ASSUME NEW v, Settled(v) PROVE Settled(v)'
  BY <1>1, <1>2, <1>3, SettledStays
<1>4. \A e \in outbox' : Current(e, st) /\ e.dv # 0 => \E o \in outbox : Current(o, st) /\ o.dv = e.dv
  BY <1>1 DEF Edited, Current
<1>5. (\A e \in outbox' : ~Current(e, st)) => \A e \in outbox : ~Current(e, st)
  BY <1>1 DEF Edited, Current
<1>6. \A w \in Workers : /\ wk'[w].pc # "idle" => Busy(w) /\ wk'[w].ev = wk[w].ev
                         /\ wk'[w].pc = "ok" => wk[w].pc = "ok"
  BY <1>1 DEF Busy
<1> QED
  BY <1>1, <1>3, <1>4, <1>5, <1>6, GrantStays

\* The claim of the grant that is current: every removal was queued, and so delivered,
\* before it, and the version it is given is above every version given before.
LEMMA ClaimsGrant ==
    ASSUME OrderInv, IInv', GrantInv, NEW w \in Workers, NEW o, NEW c, Claims(w, o, c)
    PROVE  GrantInv'
<1> SUFFICES ASSUME st'.active PROVE GrantInv'
  BY DEF GrantInv
<1>1. /\ st'.rev = st.rev /\ st'.active = st.active /\ c.dv \in Nat
      /\ \A v \in Workers : wk'[v] = IF v = w THEN [pc |-> "claimed", ev |-> c] ELSE wk[v]
  BY ClaimsState
<1>2. /\ o \in outbox /\ c \in outbox' /\ sys # "gone" /\ o.status = "pending"
      /\ \A p \in outbox : p.row < o.row => p.status = "failed"
      /\ c.row = o.row /\ c.type = o.type /\ c.rev = o.rev
      /\ c.active = o.active \/ c.type = "mfa_reset"
      /\ IF o.dv = 0 THEN c.dv > st.dv
         ELSE c.dv = o.dv \/ (c.dv > st.dv /\ c.type = "mfa_reset")
      /\ \A e \in outbox' : e = c \/ \E p \in outbox : Edited(p, e)
      /\ \A p \in outbox : p.id = o.id \/ \E e \in outbox' : Edited(p, e)
      /\ wire' = wire /\ remote' = remote
  BY DEF Claims
<1>3. /\ \A e \in outbox : Current(e, st) /\ e.dv # 0 => Settled(e.dv)
      /\ \A v \in Workers : Granting(v) => Settled(wk[v].ev.dv)
      /\ \A v \in Workers : Granting(v) /\ wk[v].pc = "ok" => remote.ver >= wk[v].ev.dv /\ Granted
      /\ (\A e \in outbox : ~Current(e, st)) => Settled(remote.ver) /\ Granted
  BY <1>1, <1>2, GrantParts
<1>4. ASSUME NEW v, Settled(v) PROVE Settled(v)'
  <2>1. \A e \in outbox' : Removal(e) => \E p \in outbox : Removal(p)
    BY <1>2 DEF Edited, Removal
  <2>2. \A u \in Workers : wk'[u].pc = "begun" => wk[u].pc = "begun" /\ wk'[u].ev = wk[u].ev
    BY <1>1
  <2> QED
    BY <1>2, <1>4, <2>1, <2>2, SettledStays
<1>5. ASSUME Current(o, st) PROVE Settled(c.dv)
  <2>1. CASE o.dv # 0
    BY <1>2, <1>3, <1>5, <2>1 DEF Current, Profile
  <2>2. CASE o.dv = 0
    <3>1. c.dv > st.dv /\ st.dv \in Nat /\ st.rev \in Nat
      BY <1>2, <2>2, OrderTypes DEF OrderInv
    <3>2. ASSUME NEW e \in outbox, Removal(e) PROVE FALSE
      <4>1. /\ e.status = "pending" /\ Sound(e, st) /\ e.rev \in Nat /\ e.row \in Nat /\ o.row \in Nat
            /\ o.row <= e.row => o.rev <= e.rev
        BY <1>2, <3>2, OrderOfState, OrderTypes DEF OrderInv
      <4>2. e.rev < st.rev
        BY <1>1, <3>1, <3>2, <4>1 DEF Sound, Removal, Current, Profile
      <4>3. e.row < o.row
        BY <1>5, <3>1, <4>1, <4>2 DEF Current
      <4> QED
        BY <1>2, <4>1, <4>3
    <3>3. \A x \in wire : x.ver < c.dv
      BY <1>1, <1>2, <3>1, OrderTypes DEF OrderInv, WritesFit
    <3>4. \A v \in Workers : Busy(v) => wk[v].ev.dv < c.dv
      BY <1>1, <1>2, <3>1, OrderTypes DEF OrderInv, ClaimsFit, Sound
    <3> QED
      BY <3>2, <3>3, <3>4 DEF Settled, Busy
  <2> QED
    BY <2>1, <2>2
<1>6. \A e : Current(e, st') <=> Current(e, st)
  BY <1>1 DEF Current
<1>7. Current(c, st) <=> Current(o, st)
  BY <1>2 DEF Current
<1>8. \A e \in outbox' : Current(e, st') /\ e.dv # 0 => Settled(e.dv)'
  <2> SUFFICES ASSUME NEW e \in outbox', Current(e, st), e.dv # 0 PROVE Settled(e.dv)'
    BY <1>6
  <2>1. Settled(e.dv)
    <3>1. CASE e = c
      BY <1>5, <1>7, <3>1
    <3>2. CASE \E p \in outbox : Edited(p, e)
      BY <1>3, <3>2 DEF Edited, Current, Profile
    <3> QED
      BY <1>2, <3>1, <3>2
  <2> QED
    BY <1>4, <2>1
<1>9. ASSUME NEW v \in Workers, Granting(v)' PROVE Settled(wk[v].ev.dv)'
  <2>1. PICK n : n = wk'[v].ev.dv
    OBVIOUS
  <2>2. Settled(n)
    <3>1. CASE v = w
      <4>1. Current(c, st) /\ n = c.dv
        BY <1>1, <1>9, <2>1, <3>1 DEF Granting, Current, Profile
      <4> QED
        BY <1>5, <1>7, <4>1
    <3>2. CASE v # w
      <4>1. Granting(v) /\ n = wk[v].ev.dv
        BY <1>1, <1>9, <2>1, <3>2 DEF Granting, Busy
      <4> QED
        BY <1>3, <4>1
    <3> QED
      BY <3>1, <3>2
  <2>3. Settled(n)'
    BY <1>4, <2>2
  <2> QED
    BY <2>1, <2>3
<1>10. \A v \in Workers : Granting(v)' /\ wk'[v].pc = "ok" => remote'.ver >= wk'[v].ev.dv /\ Granted'
  <2> SUFFICES ASSUME NEW v \in Workers, Granting(v)', wk'[v].pc = "ok"
               PROVE  remote'.ver >= wk'[v].ev.dv /\ Granted'
    OBVIOUS
  <2>1. wk'[v] = wk[v]
    BY <1>1
  <2>2. Granting(v) /\ wk[v].pc = "ok"
    BY <1>1, <2>1 DEF Granting, Busy
  <2> QED
    BY <1>2, <1>3, <2>1, <2>2 DEF Granted
<1>11. (\A e \in outbox' : ~Current(e, st')) => Settled(remote.ver)' /\ Granted'
  <2> SUFFICES ASSUME \A e \in outbox' : ~Current(e, st') PROVE Settled(remote.ver)' /\ Granted'
    OBVIOUS
  <2>1. \A p \in outbox : ~Current(p, st)
    <3> SUFFICES ASSUME NEW p \in outbox, Current(p, st) PROVE FALSE
      OBVIOUS
    <3>1. p.id = o.id => p = o
      BY <1>2, OrderOfState
    <3> QED
      BY <1>2, <1>6, <1>7, <3>1 DEF Edited, Current
  <2>2. PICK n : n = remote.ver
    OBVIOUS
  <2>3. Settled(n)' /\ Granted
    BY <1>3, <1>4, <2>1, <2>2
  <2>4. remote'.ver = n
    BY <1>2, <2>2
  <2> QED
    BY <1>2, <2>3, <2>4 DEF Granted
<1> QED
  BY <1>8, <1>9, <1>10, <1>11 DEF GrantInv, Current

\* Beginning the delivery of a removal: no grant that is current is claimed.
LEMMA BeginsGrant ==
    ASSUME OrderInv, GrantInv, NEW w \in Workers, Begins(w)
    PROVE  GrantInv'
<1>1. /\ wk[w].pc = "claimed" /\ sys' = sys /\ st' = st /\ outbox' = outbox /\ wire' = wire
      /\ remote' = remote /\ Busy(w)
  BY DEF Begins, Busy
<1>2. \A v \in Workers : wk'[v].ev = wk[v].ev /\ wk'[v].pc = IF v = w THEN "begun" ELSE wk[v].pc
  BY DEF Begins, OrderInv, IInv, Types_OK, TypeOK
<1>3. PICK e \in outbox : e.id = wk[w].ev.id /\ e.tok = wk[w].ev.tok /\ e.status = "pending"
  BY DEF Begins
<1>4. SameContent(e, wk[w].ev) /\ sys # "gone"
  BY <1>1, <1>3 DEF OrderInv, ClaimsFit, GoneEmpty
<1>5. ASSUME NEW v, Settled(v) PROVE Settled(v)'
  <2>1. ~Removal(wk[w].ev)
    BY <1>3, <1>4, <1>5 DEF Settled, SameContent, Removal
  <2>2. \A u \in Workers : wk'[u].pc = "begun" /\ Removal(wk'[u].ev) =>
                             wk[u].pc = "begun" /\ wk'[u].ev = wk[u].ev
    BY <1>2, <2>1
  <2> QED
    BY <1>1, <1>5, <2>2, SettledStays
<1>6. \A v \in Workers : /\ wk'[v].pc # "idle" => Busy(v) /\ wk'[v].ev = wk[v].ev
                         /\ wk'[v].pc = "ok" => wk[v].pc = "ok"
  BY <1>1, <1>2 DEF Busy
<1> QED
  BY <1>1, <1>4, <1>5, <1>6, GrantStays

\* Giving a claim up sends nothing.
LEMMA StopsGrant ==
    ASSUME OrderInv, GrantInv, NEW w \in Workers, Stops(w)
    PROVE  GrantInv'
<1> SUFFICES ASSUME sys # "gone" PROVE GrantInv'
  BY DEF Stops, GrantInv
<1>1. sys' = sys /\ st' = st /\ outbox' = outbox /\ wire' = wire /\ remote' = remote
  BY DEF Stops
<1>2. \A v \in Workers : wk'[v].pc = "idle" \/ wk'[v] = wk[v]
  BY DEF Stops, OrderInv, IInv, Types_OK, TypeOK, Idle
<1>3. ASSUME NEW v, Settled(v) PROVE Settled(v)'
  BY <1>1, <1>2, <1>3, SettledStays
<1>4. \A v \in Workers : /\ wk'[v].pc # "idle" => Busy(v) /\ wk'[v].ev = wk[v].ev
                         /\ wk'[v].pc = "ok" => wk[v].pc = "ok"
  BY <1>2 DEF Busy
<1> QED
  BY <1>1, <1>3, <1>4, GrantStays

\* Sending the grant: every removal that is out carries an older version.
LEMMA SendsGrant ==
    ASSUME Versioned, OrderInv, GrantInv, NEW w \in Workers, Sends(w)
    PROVE  GrantInv'
<1> SUFFICES ASSUME sys # "gone" PROVE GrantInv'
  BY DEF Sends, GrantInv
<1> DEFINE x == [tok |-> wk[w].ev.tok, ev |-> wk[w].ev.id, row |-> wk[w].ev.row,
                 type |-> wk[w].ev.type, active |-> wk[w].ev.active, ver |-> wk[w].ev.dv]
<1>1. /\ wk[w].pc = "begun" /\ sys' = sys /\ st' = st /\ outbox' = outbox /\ remote' = remote
      /\ wire' = wire \cup {x} /\ wk' = [wk EXCEPT ![w].pc = "sent"]
  BY DEF Sends
<1>2. x.type = wk[w].ev.type /\ x.active = wk[w].ev.active /\ x.ver = wk[w].ev.dv
  OBVIOUS
<1> HIDE DEF x
<1>3. \A v \in Workers : wk'[v].ev = wk[v].ev /\ wk'[v].pc = IF v = w THEN "sent" ELSE wk[v].pc
  BY <1>1 DEF OrderInv, IInv, Types_OK, TypeOK
<1>4. ASSUME NEW v, Settled(v) PROVE Settled(v)'
  <2>1. Removal(x) => x.ver < v
    BY <1>1, <1>2, <1>4 DEF Settled, Removal
  <2>2. \A u \in Workers : wk'[u].pc = "begun" => wk[u].pc = "begun" /\ wk'[u].ev = wk[u].ev
    BY <1>3
  <2> QED
    BY <1>1, <1>4, <2>1, <2>2, SettledStays
<1>5. \A v \in Workers : /\ wk'[v].pc # "idle" => Busy(v) /\ wk'[v].ev = wk[v].ev
                         /\ wk'[v].pc = "ok" => wk[v].pc = "ok"
  BY <1>1, <1>3 DEF Busy
<1> QED
  BY <1>1, <1>4, <1>5, GrantStays

\* An outcome: the work that was current is gone only when its worker was told that the
\* receiver had accepted it.
LEMMA FinishesGrant ==
    ASSUME OrderInv, GrantInv, NEW w \in Workers, NEW status, Finishes(w, status)
    PROVE  GrantInv'
<1> SUFFICES ASSUME sys' # "gone", st'.active PROVE GrantInv'
  BY DEF GrantInv
<1>1. /\ Busy(w) /\ sys' = sys /\ wire' = wire /\ remote' = remote /\ sys # "gone"
      /\ \E f \in fence : f.tok = wk[w].ev.tok
      /\ status \in {"pending", "failed", "delivered"}
  BY DEF Finishes
<1>2. \A v \in Workers : wk'[v].pc = "idle" \/ wk'[v] = wk[v]
  BY DEF Finishes, OrderInv, IInv, Types_OK, TypeOK, Idle
<1>3. st'.rev = st.rev /\ st'.active = st.active
  BY OrderTypes DEF Finishes, Provisioned, OrderInv, State
<1>4. \A o \in Mine(w) : o \in outbox /\ SameContent(o, wk[w].ev)
  BY <1>1, MinePending
<1>5. \A e \in outbox' : \E o \in outbox : Kept(o, e)
  <2> SUFFICES ASSUME NEW e \in outbox' PROVE \E o \in outbox : Kept(o, e)
    OBVIOUS
  <2>1. e \in outbox \/ \E o \in Mine(w) : Outcome(o, e, status)
    BY DEF Finishes
  <2> QED
    BY <1>4, <2>1 DEF Outcome, Kept
<1>6. ASSUME NEW v, Settled(v) PROVE Settled(v)'
  <2>1. \A e \in outbox' : Removal(e) => \E o \in outbox : Removal(o)
    BY <1>5 DEF Kept, Removal
  <2> QED
    BY <1>1, <1>2, <1>6, <2>1, SettledStays
<1>7. \A e \in outbox' : Current(e, st) /\ e.dv # 0 => \E o \in outbox : Current(o, st) /\ o.dv = e.dv
  BY <1>5 DEF Kept, Current
<1>8. \A v \in Workers : /\ wk'[v].pc # "idle" => Busy(v) /\ wk'[v].ev = wk[v].ev
                         /\ wk'[v].pc = "ok" => wk[v].pc = "ok"
  BY <1>2 DEF Busy
<1>9. CASE (\A e \in outbox' : ~Current(e, st)) => \A e \in outbox : ~Current(e, st)
  BY <1>1, <1>3, <1>6, <1>7, <1>8, <1>9, GrantStays
<1>10. ASSUME \A e \in outbox' : ~Current(e, st), NEW e \in outbox, Current(e, st)
       PROVE  GrantInv'
  <2>1. status = "delivered"
    BY <1>10 DEF Finishes, Outcome, Kept, Current
  <2>2. wk[w].pc = "ok" /\ outbox' = outbox \ Mine(w)
    BY <2>1 DEF Finishes
  <2>3. e \in Mine(w)
    BY <1>10, <2>2
  <2>4. Granting(w)
    <3>1. SameContent(e, wk[w].ev) /\ Sound(e, st)
      BY <1>4, <2>3, OrderOfState
    <3> QED
      BY <1>1, <1>3, <1>10, <3>1 DEF SameContent, Sound, Current, Profile, Granting
  <2>5. /\ Settled(wk[w].ev.dv) /\ remote.ver >= wk[w].ev.dv /\ Granted
        /\ \A v \in Workers : Granting(v) => Settled(wk[v].ev.dv)
        /\ \A v \in Workers : Granting(v) /\ wk[v].pc = "ok" => remote.ver >= wk[v].ev.dv /\ Granted
    BY <1>1, <1>3, <2>2, <2>4, GrantParts
  <2>6. PICK n \in Nat : n = remote.ver
    BY OrderTypes DEF OrderInv
  <2>7. Settled(n)
    <3>1. wk[w].ev.dv \in Nat /\ wk[w].ev.dv <= n
      BY <2>5, <2>6, OrderTypes DEF OrderInv
    <3> QED
      BY <2>5, <3>1, SettledLater DEF OrderInv
  <2>8. Settled(n)' /\ remote'.ver = n /\ Granted'
    BY <1>1, <1>6, <2>5, <2>6, <2>7 DEF Granted
  <2>9. \A v \in Workers : Granting(v)' => Granting(v) /\ wk'[v] = wk[v]
    BY <1>2, <1>3 DEF Granting, Busy
  <2>10. ASSUME NEW v \in Workers, Granting(v)' PROVE Settled(wk[v].ev.dv)'
    <3>1. PICK m : m = wk[v].ev.dv
      OBVIOUS
    <3>2. Settled(m)
      BY <2>5, <2>9, <2>10, <3>1
    <3>3. Settled(m)' /\ wk'[v].ev.dv = m
      BY <1>6, <2>9, <2>10, <3>1, <3>2
    <3> QED
      BY <3>3
  <2>11. \A v \in Workers : (Granting(v) /\ wk[v].pc = "ok")' => (remote.ver >= wk[v].ev.dv /\ Granted)'
    BY <1>1, <2>5, <2>9 DEF Granted
  <2>12. \A q \in outbox' : ~Current(q, st')
    BY <1>3, <1>10 DEF Current
  <2> QED
    BY <2>8, <2>10, <2>11, <2>12 DEF GrantInv, Current
<1> QED
  BY <1>9, <1>10

\* A write that is applied is not older than the last: after the grant, it is no removal.
LEMMA ArrivesGrant ==
    ASSUME Versioned, OrderInv, GrantInv, NEW x \in wire, Arrives(x)
    PROVE  GrantInv'
<1> SUFFICES ASSUME sys # "gone", st.active PROVE GrantInv'
  BY DEF Arrives, GrantInv
<1>1. sys' = sys /\ st' = st /\ outbox' = outbox /\ wire' \subseteq wire
  BY DEF Arrives
<1>2. wk \in [Workers -> [pc : {"idle", "claimed", "begun", "sent", "ok", "refused"}, ev : Event]]
  BY DEF OrderInv, IInv, Types_OK, TypeOK
<1>3. \A v \in Workers : /\ wk'[v].ev = wk[v].ev
                         /\ \/ wk'[v] = wk[v]
                            \/ wk[v].pc = "sent" /\ wk[v].ev.tok = x.tok /\ wk'[v].pc \in {"ok", "refused"}
  BY <1>2 DEF Arrives, Answer
<1>4. ASSUME NEW v, Settled(v) PROVE Settled(v)'
  <2>1. \A u \in Workers : wk'[u].pc = "begun" => wk[u].pc = "begun" /\ wk'[u].ev = wk[u].ev
    BY <1>3
  <2> QED
    BY <1>1, <1>4, <2>1, SettledStays
<1>5. CASE remote' = remote /\ Answer(x, "refused")
  <2>1. \A v \in Workers : /\ wk'[v].pc # "idle" => Busy(v) /\ wk'[v].ev = wk[v].ev
                           /\ wk'[v].pc = "ok" => wk[v].pc = "ok"
    BY <1>2, <1>5 DEF Answer, Busy
  <2> QED
    BY <1>1, <1>4, <1>5, <2>1, GrantStays
<1>6. CASE /\ Accepts(x)
           /\ remote' = [known |-> remote.known \/ x.active, active |-> x.active,
                         ver |-> x.ver, type |-> x.type]
  <2>1. /\ remote'.ver = x.ver /\ remote'.active = x.active /\ remote'.type = x.type
        /\ x.ver >= remote.ver /\ x.ver \in Nat /\ remote.ver \in Nat
    BY <1>6, OrderTypes DEF Accepts, OrderInv
  <2>2. ~Removal(x) => Granted'
    <3>1. x.type \in Types /\ (x.type = "created" => x.active)
      BY OrderTypes DEF OrderInv, WritesFit
    <3> QED
      BY <2>1, <3>1 DEF Granted, Removal, Types
  <2>3. ASSUME NEW v \in Nat, v <= x.ver, Settled(v) PROVE ~Removal(x)
    BY <2>1, <2>3 DEF Settled
  <2>4. /\ \A e \in outbox : Current(e, st) /\ e.dv # 0 => Settled(e.dv)
        /\ \A w \in Workers : Granting(w) => Settled(wk[w].ev.dv)
        /\ \A w \in Workers : Granting(w) /\ wk[w].pc = "ok" => remote.ver >= wk[w].ev.dv /\ Granted
        /\ (\A e \in outbox : ~Current(e, st)) => Settled(remote.ver) /\ Granted
    BY GrantParts
  <2>5. \A v \in Workers : Granting(v)' => Granting(v) /\ wk'[v].ev = wk[v].ev
    BY <1>1, <1>3 DEF Granting, Busy
  <2>6. ASSUME NEW v \in Workers, Granting(v)' PROVE Settled(wk[v].ev.dv)'
    <3>1. PICK m : m = wk[v].ev.dv
      OBVIOUS
    <3>2. Settled(m)
      BY <2>4, <2>5, <2>6, <3>1
    <3>3. Settled(m)' /\ wk'[v].ev.dv = m
      BY <1>4, <2>5, <2>6, <3>1, <3>2
    <3> QED
      BY <3>3
  <2>7. ASSUME NEW v \in Workers, Granting(v)', wk'[v].pc = "ok"
        PROVE  remote'.ver >= wk'[v].ev.dv /\ Granted'
    <3>1. Granting(v) /\ wk'[v].ev = wk[v].ev /\ wk[v].ev.dv \in Nat /\ Settled(wk[v].ev.dv)
      BY <2>4, <2>5, <2>7, OrderTypes DEF OrderInv
    <3>2. x.ver >= wk[v].ev.dv
      <4>1. CASE wk[v].pc = "ok"
        BY <2>1, <2>4, <3>1, <4>1
      <4>2. CASE wk[v].pc # "ok"
        <5>1. wk[v].ev.tok = x.tok
          BY <1>3, <2>7, <4>2
        <5>2. x.ver = wk[v].ev.dv
          BY <3>1, <5>1 DEF OrderInv, WritesFit, Granting
        <5> QED
          BY <2>1, <5>2
      <4> QED
        BY <4>1, <4>2
    <3>3. ~Removal(x)
      BY <2>1, <2>3, <3>1, <3>2
    <3> QED
      BY <2>1, <2>2, <3>1, <3>2, <3>3
  <2>8. ASSUME \A e \in outbox' : ~Current(e, st') PROVE Settled(remote.ver)' /\ Granted'
    <3>1. Settled(remote.ver)
      BY <1>1, <2>4, <2>8
    <3>2. PICK n \in Nat : n = x.ver
      BY <2>1
    <3>3. Settled(n) /\ ~Removal(x)
      BY <2>1, <2>3, <3>1, <3>2, SettledLater DEF OrderInv
    <3>4. Settled(n)' /\ remote'.ver = n
      BY <1>4, <2>1, <3>2, <3>3
    <3> QED
      BY <2>2, <3>3, <3>4
  <2>9. \A e \in outbox' : Current(e, st') /\ e.dv # 0 => Settled(e.dv)'
    BY <1>1, <1>4, <2>4
  <2> QED
    BY <2>6, <2>7, <2>8, <2>9 DEF GrantInv, Current
<1> QED
  BY <1>5, <1>6 DEF Arrives

\* GrantInv is inductive for a receiver that compares versions, given the order.
LEMMA NextGrant == Versioned /\ OrderInv /\ GrantInv /\ [Next]_vars => GrantInv'
<1> SUFFICES ASSUME Versioned, OrderInv, GrantInv, [Next]_vars PROVE GrantInv'
  OBVIOUS
<1>1. IInv' /\ Steps
  BY NextOk, StepKinds DEF OrderInv
<1>2. CASE DeletePairedSystem
  BY <1>2 DEF DeletePairedSystem, GrantInv
<1> QED
  BY <1>1, <1>2, TransactsGrant, EditsGrant, ClaimsGrant, BeginsGrant, StopsGrant,
     SendsGrant, FinishesGrant, ArrivesGrant DEF Steps

\* An account that is not tracked is not active.
LEMMA InitGrant == Init => GrantInv
BY DEF Init, NoRow, GrantInv

\* A drained queue means the receiver agrees with the desired state, whatever is still out
\* (prepareSyncDeliveryTx and a receiver that honours meta.version): a deactivation in
\* flight cannot land after the reactivation that followed it. Generic SCIM has no
\* versions and makes no such promise.
THEOREM DrainedReceiverAgrees ==
    ASSUME Versioned
    PROVE  Spec => []DrainedMeansDelivered
<1>1. OrderInv /\ RemovalInv /\ GrantInv => DrainedMeansDelivered
  <2> SUFFICES ASSUME OrderInv, RemovalInv, GrantInv, Drained, st.active => remote.type # "mfa_reset"
               PROVE  remote.active = st.active
    BY DEF DrainedMeansDelivered
  <2>1. st.active \in BOOLEAN /\ remote.active \in BOOLEAN
    BY DEF OrderInv, IInv, Types_OK, TypeOK
  <2>2. CASE st.active
    BY <2>1, <2>2, GrantParts DEF Drained, Granted
  <2>3. CASE ~st.active
    BY <2>1, <2>3 DEF Drained, RemovalInv
  <2> QED
    BY <2>2, <2>3
<1>2. GrantInv /\ OrderInv /\ [Next]_vars => GrantInv'
  BY NextGrant
<1> QED
  BY <1>1, <1>2, InitOrder, NextOrder, InitRemoval, NextRemoval, InitGrant, PTL DEF Spec
=============================================================================
