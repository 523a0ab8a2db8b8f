------------------------- MODULE Reconcile_proofs -------------------------
(***************************************************************************)
(* Proofs about Reconcile, for any accounts, remote IDs and runners and    *)
(* any number of changes, faults and jobs.                                 *)
(*                                                                         *)
(* None of the checked properties is inductive. That an account is not     *)
(* created twice rests on where its create stands (Posts, Flight); that    *)
(* nobody else's is written, on whose account a delivery has found         *)
(* (Flight); and that none is left active, on what a comparison has        *)
(* established (Known) and a delivery carries on (Flight), which holds     *)
(* because nothing moves while a restored connector is held (Stopped) and  *)
(* a complete listing is the whole collection (Seen). A listing that loses *)
(* an account it had read is not: of what its comparison misjudges         *)
(* (misled), nothing is claimed, and what it judges is judged as by a      *)
(* whole one (Trusted).                                                    *)
(***************************************************************************)
EXTENDS Reconcile, FiniteSetTheorems, TLAPS

-----------------------------------------------------------------------------
(* The inductive invariant.                                                 *)

\* Only a fenced event is being delivered, and there is one.
Fence == \A u \in Users : Fenced(u) => q[u] # <<>>

\* Access is always queued with its grant, in the directory and in its backup.
Granted ==
    /\ \A u \in wanted : st[u] = "on"
    /\ \A u \in snap.wanted : snap.st[u] = "on"

\* The last event of an account that is to go takes it away.
Events ==
    \A u \in Users : st[u] = "off" /\ q[u] # <<>> => ~q[u][Len(q[u])]

\* What a listing has read is still there and belongs to the same account, unless some of it
\* was erased; it has read as many accounts as pages.
Seen ==
    \A r \in Runners :
       /\ \A i \in Ids :
             rn[r].seen[i] # Gone =>
                /\ i \in Held(rn[r].seen)
                /\ r \notin churned => i \in Held(remote) /\ remote[i].ext = rn[r].seen[i].ext
       /\ rn[r].pc = "listing" => Cardinality(Held(rn[r].seen)) = rn[r].n

\* No account has two at the target, unless a repair was misled about it.
Single == \A u \in Users \ misled : \A i, j \in Of(u, remote) : i = j

\* A POST on its way has its marker and will find no account there.
Posts == \A u \in wire \ misled : Of(u, remote) = {} /\ link[u] = Started

\* Nothing is on its way while the connector is held, so a listing read since stays true of
\* the accounts that are still there, and is whole if none it had read was erased.
Stopped ==
    hold = "held" =>
       /\ wire = {}
       /\ \A r \in Runners : \A u \in Users : \A i \in Of(u, rn[r].seen) \cap Of(u, remote) :
             rn[r].seen[i].state = "inactive" => remote[i].state = "inactive"
       /\ \A r \in Runners \ churned : rn[r].pc = "listed" /\ rn[r].complete =>
             \A u \in Users : Of(u, remote) \subseteq Held(rn[r].seen)

\* The directory was never restored, or has been compared since.
Compared ==
    hold = "none" \/ (hold = "held" /\ \E r \in Runners : rn[r].pc = "compared" /\ Evidence(r))

\* The account at the target is inactive, and none is on its way.
NotActive(u) == u \notin wire /\ \A i \in Of(u, remote) : remote[i].state = "inactive"

\* A compared mapping names the only account, and one acknowledged as removed is removed.
Known ==
    Compared => \A u \in Users \ (disputed \cup misled) :
       /\ link[u] \in Ids => Of(u, remote) \subseteq {link[u]}
       /\ st[u] = "off" /\ q[u] = <<>> => NotActive(u)

\* What a delivery f of account u, mapped to l, may rely on.
Flight(u, f, l) ==
    \* it is not of a held connector, and creates only for an event that wants the account;
    /\ f.pc # "idle" => hold # "held"
    /\ f.pc \in {"start", "post", "posted", "created"} => Active(u)
    \* the ID it will map or write is its own account's or nobody's;
    /\ f.pc \in {"adopt", "created", "verify", "write"} => f.rid \in Ids
    /\ f.pc \in {"adopt", "write"} => remote[f.rid].state = "gone" \/ remote[f.rid].ext = u
    \* it creates once: no other POST of the account is out, and none has landed, unless a
    \* repair was misled about the account;
    /\ u \notin misled =>
          /\ f.pc \in {"start", "post", "adopt", "created", "refused", "conflict", "verify", "write"}
                => u \notin wire
          /\ f.pc \in {"start", "post"} => Of(u, remote) = {}
          /\ f.pc = "post" => l = Started
          /\ f.pc = "start" \/ (f.pc = "find" /\ ~f.started) => l # Started
          /\ f.pc \in {"adopt", "created"} => Of(u, remote) \subseteq {f.rid}
    \* and unless its mapping is disputed too, the ID it has is the only account's, and a removal
    \* it acknowledges is done.
    /\ hold = "none" /\ u \notin disputed \cup misled =>
          /\ f.pc \in {"verify", "write"} => Of(u, remote) \subseteq {f.rid}
          /\ f.pc = "ok" /\ ~Active(u) => NotActive(u)

Flights == \A u \in Users : Flight(u, fl[u], link[u])

Typed == TypeOK /\ Fence
Inv == Typed /\ Granted /\ Events /\ Seen /\ Single /\ Posts /\ Stopped /\ Known /\ Flights

-----------------------------------------------------------------------------
(* The operators.                                                           *)

\* The IDs are finitely many.
LEMMA HeldFinite ==
    ASSUME NEW S
    PROVE  /\ IsFiniteSet(Held(S)) /\ Cardinality(Held(S)) \in 0..IdCount
           /\ \A T \in SUBSET Held(S) :
                 /\ IsFiniteSet(T) /\ Cardinality(T) \in Nat /\ Cardinality(T) <= Cardinality(Held(S))
                 /\ Cardinality(T) = Cardinality(Held(S)) => T = Held(S)
  <1>1. IdCount \in Nat BY ReconcileAssumption
  <1>2. IsFiniteSet(Ids) /\ Cardinality(Ids) = IdCount
    BY <1>1, FS_Interval, SMT DEF Ids
  <1>3. Held(S) \subseteq Ids BY DEF Held
  <1>4. IsFiniteSet(Held(S)) /\ Cardinality(Held(S)) <= IdCount
    BY <1>2, <1>3, FS_Subset
  <1>5. Cardinality(Held(S)) \in Nat BY <1>4, FS_CardinalityType
  <1>6. ASSUME NEW T \in SUBSET Held(S)
        PROVE  /\ IsFiniteSet(T) /\ Cardinality(T) \in Nat /\ Cardinality(T) <= Cardinality(Held(S))
               /\ Cardinality(T) = Cardinality(Held(S)) => T = Held(S)
    BY <1>4, FS_Subset, FS_CardinalityType
  <1> QED BY <1>1, <1>4, <1>5, <1>6

\* A page that is there has fewer accounts before it than there are.
LEMMA PageBound ==
    ASSUME NEW n \in Nat, NEW i \in OnPage(n)
    PROVE  i \in Held(remote) /\ n + 1 <= Total /\ n + 1 \in Ids
  <1> DEFINE T == {j \in Held(remote) : j < i}
  <1>1. i \in Held(remote) /\ Cardinality(T) = n BY DEF OnPage
  <1>2. T \in SUBSET Held(remote) /\ i \notin T
    <2>1. i \in Nat BY <1>1 DEF Held, Ids
    <2> QED BY <2>1
  <1>3. T # Held(remote) BY <1>1, <1>2
  <1> HIDE DEF T
  <1>4. Cardinality(T) <= Cardinality(Held(remote)) /\ Cardinality(T) # Cardinality(Held(remote))
    BY <1>2, <1>3, HeldFinite
  <1>5. Cardinality(Held(remote)) \in 0..IdCount BY HeldFinite
  <1>6. IdCount \in Nat BY ReconcileAssumption
  <1> QED BY <1>1, <1>4, <1>5, <1>6 DEF Total, Ids

\* What a restore leaves of a queue are removals.
LEMMA SurvivingFacts ==
    ASSUME NEW events \in Seq(BOOLEAN)
    PROVE  /\ Surviving(events) \in Seq(BOOLEAN)
           /\ \A k \in 1..Len(Surviving(events)) : Surviving(events)[k] = FALSE
  <1> DEFINE T == {n \in DOMAIN events : ~events[n]}
             c == Cardinality(T)
  <1>1. Len(events) \in Nat /\ DOMAIN events = 1..Len(events) OBVIOUS
  <1>2. IsFiniteSet(1..Len(events)) BY <1>1, FS_Interval
  <1>3. T \subseteq 1..Len(events) BY <1>1
  <1>4. IsFiniteSet(T) BY <1>2, <1>3, FS_Subset
  <1>5. c \in Nat BY <1>4, FS_CardinalityType
  <1>6. Surviving(events) = [k \in 1..c |-> FALSE] BY DEF Surviving
  <1> HIDE DEF c
  <1> QED BY <1>5, <1>6

\* An event goes behind the one that is fenced.
LEMMA BehindFacts ==
    ASSUME Typed, NEW u \in Users, NEW a \in BOOLEAN
    PROVE  /\ Behind(u, a) \in Seq(BOOLEAN) /\ Behind(u, a) # <<>>
           /\ Behind(u, a)[Len(Behind(u, a))] = a
           /\ Fenced(u) => Head(Behind(u, a)) = Head(q[u])
  <1>1. q[u] \in Seq(BOOLEAN) BY DEF Typed, TypeOK, Queues
  <1>2. CASE Fenced(u)
    <2>1. q[u] # <<>> BY <1>2 DEF Typed, Fence
    <2>2. Head(q[u]) \in BOOLEAN BY <1>1, <2>1
    <2>3. Behind(u, a) = <<Head(q[u])>> \o <<a>> BY <1>2 DEF Behind
    <2> DEFINE x == Head(q[u])
               s == <<x>> \o <<a>>
    <2>4. x \in BOOLEAN BY <2>2
    <2> HIDE DEF x
    <2>5. s \in Seq(BOOLEAN) /\ Len(s) = 2 /\ s[1] = x /\ s[2] = a BY <2>4
    <2>6. s # <<>> /\ s[Len(s)] = a /\ Head(s) = x BY <2>5
    <2> QED BY <2>3, <2>5, <2>6 DEF x
  <1>3. CASE ~Fenced(u)
    <2>1. Behind(u, a) = <<>> \o <<a>> BY <1>3 DEF Behind
    <2>2. Behind(u, a) = <<a>> BY <2>1
    <2> QED BY <1>3, <2>2
  <1> QED BY <1>2, <1>3

\* What queueing leaves: the fenced event stays first, the new one is last, and no queue
\* becomes empty.
QueueKept ==
    \A u \in Users :
       /\ Fenced(u) => q'[u] # <<>> /\ Head(q'[u]) = Head(q[u])
       /\ st'[u] = "off" /\ q'[u] # <<>> => ~q'[u][Len(q'[u])]
       /\ st'[u] = "off" /\ q'[u] = <<>> => st[u] = "off" /\ q[u] = <<>>

\* What queueing leaves, for each account.
LEMMA QueueFacts ==
    ASSUME Typed, Events, NEW on \in SUBSET Users, NEW off \in SUBSET Users,
           on \cap off = {}, Queue(on, off)
    PROVE  /\ st' \in States /\ q' \in Queues /\ QueueKept
           /\ \A u \in Users : /\ u \in on => st'[u] = "on"
                               /\ u \in off => st'[u] = "off"
                               /\ u \in on \cup off => q'[u] # <<>>
                               /\ u \notin on \cup off => st'[u] = st[u] /\ q'[u] = q[u]
  <1>0. st \in States /\ q \in Queues BY DEF Typed, TypeOK
  <1>1. ASSUME NEW u \in Users
        PROVE  /\ q'[u] = IF u \in on \cup off THEN Behind(u, u \in on) ELSE q[u]
               /\ st'[u] = IF u \in on THEN "on" ELSE IF u \in off THEN "off" ELSE st[u]
    BY DEF Queue
  <1>2. st' \in States
    BY <1>0 DEF Queue, States
  <1>3. ASSUME NEW u \in Users
        PROVE  /\ q'[u] \in Seq(BOOLEAN)
               /\ Fenced(u) => q'[u] # <<>> /\ Head(q'[u]) = Head(q[u])
               /\ u \in on \cup off => q'[u] # <<>> /\ q'[u][Len(q'[u])] = (u \in on)
    <2>1. (u \in on) \in BOOLEAN OBVIOUS
    <2>2. q[u] \in Seq(BOOLEAN) BY <1>0 DEF Queues
    <2>3. Fenced(u) => q[u] # <<>> BY DEF Typed, Fence
    <2>4. CASE u \in on \cup off
      <3>1. q'[u] = Behind(u, u \in on) BY <1>1, <2>4
      <3> QED BY <2>1, <2>4, <3>1, BehindFacts
    <2>5. CASE u \notin on \cup off
      BY <1>1, <2>2, <2>3, <2>5
    <2> QED BY <2>4, <2>5
  <1>4. q' \in Queues
    <2>1. q' = [u \in Users |-> q'[u]] BY DEF Queue
    <2> QED BY <1>3, <2>1 DEF Queues
  <1>5. QueueKept
    <2> SUFFICES ASSUME NEW u \in Users
                 PROVE  /\ Fenced(u) => q'[u] # <<>> /\ Head(q'[u]) = Head(q[u])
                        /\ st'[u] = "off" /\ q'[u] # <<>> => ~q'[u][Len(q'[u])]
                        /\ st'[u] = "off" /\ q'[u] = <<>> => st[u] = "off" /\ q[u] = <<>>
      BY DEF QueueKept
    <2>1. CASE u \in on BY <1>1, <1>3, <2>1
    <2>2. CASE u \in off
      <3>1. (u \in on) = FALSE BY <2>2
      <3> QED BY <1>3, <2>2, <3>1
    <2>3. CASE u \notin on \cup off
      <3>1. st'[u] = st[u] /\ q'[u] = q[u] BY <1>1, <2>3
      <3> QED BY <1>3, <3>1 DEF Events
    <2> QED BY <2>1, <2>2, <2>3
  <1> QED BY <1>1, <1>2, <1>3, <1>4, <1>5

-----------------------------------------------------------------------------
(* Steps of a delivery.                                                     *)

FlRows == [pc : {"idle", "begun", "find", "adopt", "start", "post", "posted", "created",
                 "refused", "conflict", "verify", "write", "ok", "failed", "fenced"},
           rid : Ids \cup {0}, started : BOOLEAN]

\* The variables a delivery's control does not touch.
Rest0 == UNCHANGED <<wanted, st, hold, snap, job, rn, disputed, churned, misled>>

\* A delivery may still rely on what it did when no account of its own came or became
\* active, its first event stayed, and no ID it will write was given to another.
LEMMA FlightKept ==
    ASSUME NEW u \in Users, Flight(u, fl'[u], link'[u]),
           fl'[u].pc # "idle" => hold' = hold /\ (Active(u)' <=> Active(u)),
           disputed \subseteq disputed', misled \subseteq misled',
           Of(u, remote') \subseteq Of(u, remote),
           u \in wire' => u \in wire,
           fl'[u].pc \in {"adopt", "write"} =>
              remote'[fl'[u].rid].state = "gone" \/ remote'[fl'[u].rid].ext = u,
           NotActive(u) => NotActive(u)'
    PROVE  Flight(u, fl[u], link[u])'
  BY DEF Flight

\* So when nothing it relies on changed.
LEMMA FlightSame ==
    ASSUME NEW u \in Users, Flight(u, fl'[u], link'[u]), UNCHANGED <<q, hold, disputed, misled, remote, wire>>
    PROVE  Flight(u, fl[u], link[u])'
  <1>1. Active(u)' = Active(u) BY DEF Active
  <1>2. NotActive(u)' = NotActive(u) BY DEF NotActive, Of, Held
  <1> QED BY <1>1, <1>2 DEF Flight

\* A step that moves one delivery and its mapping, keeping what both rest on.
LEMMA MoveStep ==
    ASSUME Inv, NEW u \in Users, NEW f \in FlRows, NEW l \in Ids \cup {Unlinked, Started},
           fl' = [fl EXCEPT ![u] = f], link' = [link EXCEPT ![u] = l],
           UNCHANGED <<q, wire, remote>>, Rest0,
           used' \in [claims : 0..MaxClaims, changes : 0..MaxChanges, target : 0..MaxTarget,
                      faults : 0..MaxFaults],
           f.pc # "idle" => q[u] # <<>>,
           u \in wire \ misled => l = Started,
           Compared /\ u \notin disputed \cup misled /\ l \in Ids => Of(u, remote) \subseteq {l},
           Flight(u, f, l)
    PROVE  Inv'
  <1>0. /\ fl \in [Users -> FlRows] /\ link \in Links
        /\ \A v \in Users : fl'[v] = IF v = u THEN f ELSE fl[v]
        /\ \A v \in Users : link'[v] = IF v = u THEN l ELSE link[v]
    BY DEF Inv, Typed, TypeOK, FlRows, Links
  <1>1. Typed'
    <2>1. fl' \in [Users -> FlRows] /\ link' \in Links BY <1>0 DEF Links
    <2>2. TypeOK' BY <2>1 DEF Inv, Typed, TypeOK, FlRows, Rest0
    <2>3. Fence' BY <1>0 DEF Inv, Typed, Fence, Fenced
    <2> QED BY <2>2, <2>3 DEF Typed
  <1>2. Granted' /\ Events' /\ Seen' /\ Single' /\ Stopped'
    <2>1. Granted' /\ Events' BY DEF Inv, Rest0, Granted, Events
    <2>2. Seen' BY DEF Inv, Rest0, Seen, Held
    <2>3. Single' BY DEF Inv, Rest0, Single, Of, Held
    <2>4. Stopped' BY DEF Inv, Rest0, Stopped, Of, Held
    <2> QED BY <2>1, <2>2, <2>3, <2>4
  <1>3. Posts' BY <1>0 DEF Inv, Posts, Of, Held, Rest0, Typed, TypeOK
  <1>4. Known'
    BY <1>0 DEF Inv, Known, Compared, Evidence, NotActive, Of, Held, Rest0
  <1>5. Flights'
    <2>1. ASSUME NEW v \in Users PROVE Flight(v, fl[v], link[v])'
      <3>1. Flight(v, fl'[v], link'[v]) BY <1>0 DEF Inv, Flights
      <3> QED BY <3>1, FlightSame DEF Rest0
    <2> QED BY <2>1 DEF Flights
  <1> QED BY <1>1, <1>2, <1>3, <1>4, <1>5 DEF Inv

UsedRows == [claims : 0..MaxClaims, changes : 0..MaxChanges, target : 0..MaxTarget,
             faults : 0..MaxFaults]

\* The bounds stay within their limits.
LEMMA UsedType ==
    ASSUME Inv, Change \/ Fault \/ Elsewhere \/ used' = used
    PROVE  used' \in UsedRows
  <1>1. used \in UsedRows BY DEF Inv, Typed, TypeOK, UsedRows
  <1>2. {MaxClaims, MaxChanges, MaxTarget, MaxFaults} \subseteq Nat BY ReconcileAssumption
  <1> QED BY <1>1, <1>2 DEF UsedRows, Change, Fault, Elsewhere

\* A step that only moves one delivery.
LEMMA ControlStep ==
    ASSUME Inv, NEW u \in Users, NEW f \in FlRows, fl' = [fl EXCEPT ![u] = f],
           UNCHANGED <<link, q, wire, remote>>, Rest0, Fault \/ used' = used,
           f.pc # "idle" => q[u] # <<>>,
           Flight(u, f, link[u])
    PROVE  Inv'
  <1>1. link \in Links BY DEF Inv, Typed, TypeOK
  <1>2. link' = [link EXCEPT ![u] = link[u]] /\ link[u] \in Ids \cup {Unlinked, Started}
    BY <1>1 DEF Links
  <1>3. u \in wire \ misled => link[u] = Started BY DEF Inv, Posts
  <1>4. Compared /\ u \notin disputed \cup misled /\ link[u] \in Ids => Of(u, remote) \subseteq {link[u]}
    BY DEF Inv, Known
  <1>5. used' \in UsedRows BY UsedType
  <1> QED BY <1>2, <1>3, <1>4, <1>5, MoveStep DEF UsedRows

\* The row of a delivery, and that row at another place.
LEMMA AtFacts ==
    ASSUME Inv, NEW u \in Users
    PROVE  /\ fl[u] \in FlRows
           /\ Flight(u, fl[u], link[u])
           /\ fl[u].pc # "idle" => q[u] # <<>> /\ hold # "held"
           /\ \A p : To(u, p) => fl' = [fl EXCEPT ![u] = [pc |-> p, rid |-> fl[u].rid, started |-> fl[u].started]]
           /\ fl[u].rid \in Ids \cup {0} /\ fl[u].started \in BOOLEAN
  <1>1. fl \in [Users -> FlRows] BY DEF Inv, Typed, TypeOK, FlRows
  <1>2. fl[u] \in FlRows BY <1>1
  <1>3. Flight(u, fl[u], link[u]) BY DEF Inv, Flights
  <1>4. fl[u].pc # "idle" => q[u] # <<>> /\ hold # "held"
    BY <1>3 DEF Inv, Typed, Fence, Fenced, Flight
  <1>5. ASSUME NEW p, To(u, p)
        PROVE  fl' = [fl EXCEPT ![u] = [pc |-> p, rid |-> fl[u].rid, started |-> fl[u].started]]
    <2>1. fl[u] = [pc |-> fl[u].pc, rid |-> fl[u].rid, started |-> fl[u].started] BY <1>2 DEF FlRows
    <2>2. [fl[u] EXCEPT !.pc = p] = [pc |-> p, rid |-> fl[u].rid, started |-> fl[u].started]
      BY <2>1
    <2>3. fl' = [fl EXCEPT ![u] = [fl[u] EXCEPT !.pc = p]] BY <1>5 DEF To
    <2> QED BY <2>2, <2>3
  <1>6. fl[u].rid \in Ids \cup {0} /\ fl[u].started \in BOOLEAN BY <1>2 DEF FlRows
  <1> QED BY <1>2, <1>3, <1>4, <1>5, <1>6

\* The row of a delivery at another place and with another ID.
LEMMA RowFacts ==
    ASSUME Inv, NEW u \in Users, NEW p, NEW i, fl' = [fl EXCEPT ![u].pc = p, ![u].rid = i]
    PROVE  fl' = [fl EXCEPT ![u] = [pc |-> p, rid |-> i, started |-> fl[u].started]]
  <1>1. fl \in [Users -> FlRows] BY DEF Inv, Typed, TypeOK, FlRows
  <1>2. fl[u] \in FlRows BY <1>1
  <1>3. fl' = [fl EXCEPT ![u] = [[fl[u] EXCEPT !.pc = p] EXCEPT !.rid = i]]
    <2>1. DOMAIN fl = Users BY <1>1
    <2> QED BY <2>1
  <1>4. PICK g : g = [fl[u] EXCEPT !.pc = p] OBVIOUS
  <1>5. g = [pc |-> p, rid |-> fl[u].rid, started |-> fl[u].started] BY <1>2, <1>4 DEF FlRows
  <1>6. [g EXCEPT !.rid = i] = [pc |-> p, rid |-> i, started |-> fl[u].started] BY <1>5
  <1> QED BY <1>3, <1>4, <1>6, Zenon

\* A delivery that is begun, done, failed or left rests on nothing.
LEMMA IdleFlight ==
    ASSUME NEW u, NEW f, NEW l, f.pc \in {"begun", "posted", "failed", "fenced", "idle"},
           f.pc # "idle" => hold # "held",
           f.pc = "posted" => Active(u)
    PROVE  Flight(u, f, l)
  BY DEF Flight

\* The target is asked: there is one account or none, or a repair was misled about it.
LEMMA FoundCases ==
    ASSUME Inv, NEW u \in Users
    PROVE  \/ Of(u, remote) = {} /\ Cardinality(Found(u)) = 0
           \/ u \in misled /\ Cardinality(Found(u)) > 1
           \/ \E i \in Ids : /\ Of(u, remote) = {i} /\ Cardinality(Found(u)) = 1
                             /\ (CHOOSE j \in Found(u) : TRUE) = i
                             /\ remote[i].state # "gone" /\ remote[i].ext = u
  <1>1. CASE Of(u, remote) = {} BY <1>1, FS_EmptySet DEF Found
  <1>2. CASE Of(u, remote) # {}
    <2>1. PICK i : i \in Of(u, remote) BY <1>2
    <2>2. i \in Ids /\ remote[i].state # "gone" /\ remote[i].ext = u BY <2>1 DEF Of, Held
    <2>3. CASE Of(u, remote) = {i}
      <3>1. Cardinality({i}) = 1 BY FS_Singleton
      <3>2. (CHOOSE j \in {i} : TRUE) = i OBVIOUS
      <3> QED BY <2>2, <2>3, <3>1, <3>2 DEF Found
    <2>4. CASE Of(u, remote) # {i}
      <3>1. u \in misled BY <2>1, <2>4 DEF Inv, Single
      <3>2. Of(u, remote) \in SUBSET Held(remote) BY DEF Of
      <3>3. IsFiniteSet(Of(u, remote)) /\ Cardinality(Of(u, remote)) \in Nat BY <3>2, HeldFinite
      <3>4. Cardinality(Of(u, remote)) # 0 BY <1>2, <3>3, FS_EmptySet
      <3>5. Cardinality(Of(u, remote)) # 1
        <4>1. ASSUME Cardinality(Of(u, remote)) = 1 PROVE FALSE
          <5>1. PICK x : Of(u, remote) = {x} BY <3>3, <4>1, FS_Singleton
          <5> QED BY <2>1, <2>4, <5>1
        <4> QED BY <4>1
      <3> QED BY <3>1, <3>3, <3>4, <3>5 DEF Found
    <2> QED BY <2>3, <2>4
  <1> QED BY <1>1, <1>2

\* A marker and a missing mapping are no IDs.
LEMMA SmallFacts == 0 \notin Ids /\ -1 \notin Ids /\ Started \notin Ids /\ Unlinked \notin Ids /\ Started # Unlinked
  BY ReconcileAssumption DEF Ids, Started, Unlinked

\* The first event of an account is claimed.
LEMMA BeginStep ==
    ASSUME Inv, NEW u \in Users, BeginSyncDelivery(u)
    PROVE  Inv'
  <1> DEFINE f == [pc |-> "begun", rid |-> fl[u].rid, started |-> fl[u].started]
  <1>1. fl' = [fl EXCEPT ![u] = f] BY AtFacts DEF BeginSyncDelivery
  <1>2. f \in FlRows BY AtFacts DEF FlRows
  <1>3. Flight(u, f, link[u]) BY IdleFlight DEF BeginSyncDelivery
  <1>4. q[u] # <<>> BY DEF BeginSyncDelivery
  <1>5. UNCHANGED <<link, q, wire, remote>> /\ Rest0 /\ used' = used BY DEF BeginSyncDelivery, Rest0
  <1> HIDE DEF f
  <1> QED BY <1>1, <1>2, <1>3, <1>4, <1>5, ControlStep

\* A stored ID is to be verified, anything else to be looked up.
LEMMA LinkStep ==
    ASSUME Inv, NEW u \in Users, SCIMLink(u)
    PROVE  Inv'
  <1>0. q[u] # <<>> /\ hold # "held" BY AtFacts DEF SCIMLink
  <1>1. UNCHANGED <<link, q, wire, remote>> /\ Rest0 /\ used' = used BY DEF SCIMLink, Rest0
  <1>2. CASE link[u] \in Ids
    <2> DEFINE f == [pc |-> "verify", rid |-> link[u], started |-> FALSE]
    <2>1. fl' = [fl EXCEPT ![u] = f] BY <1>2 DEF SCIMLink
    <2>2. f \in FlRows BY <1>2 DEF FlRows
    <2>3. u \notin misled => u \notin wire BY <1>2, SmallFacts DEF Inv, Posts
    <2>4. hold = "none" /\ u \notin disputed \cup misled => Of(u, remote) \subseteq {link[u]}
      BY <1>2 DEF Inv, Known, Compared
    <2>5. Flight(u, f, link[u]) BY <1>0, <1>2, <2>3, <2>4 DEF Flight
    <2> HIDE DEF f
    <2> QED BY <1>0, <1>1, <2>1, <2>2, <2>5, ControlStep
  <1>3. CASE link[u] \notin Ids
    <2> DEFINE f == [pc |-> "find", rid |-> 0, started |-> link[u] = Started]
    <2>1. fl' = [fl EXCEPT ![u] = f] BY <1>3 DEF SCIMLink
    <2>2. f \in FlRows BY DEF FlRows
    <2>3. Flight(u, f, link[u]) BY <1>0 DEF Flight
    <2> HIDE DEF f
    <2> QED BY <1>0, <1>1, <2>1, <2>2, <2>3, ControlStep
  <1> QED BY <1>2, <1>3

\* The lookup finds the only account, or none.
LEMMA FindStep ==
    ASSUME Inv, NEW u \in Users, FindSCIMUser(u)
    PROVE  Inv'
  <1>0. /\ q[u] # <<>> /\ hold # "held" /\ fl[u] \in FlRows /\ fl[u].pc = "find"
        /\ Flight(u, fl[u], link[u]) /\ fl[u].started \in BOOLEAN
    BY AtFacts DEF FindSCIMUser
  <1>1. UNCHANGED <<link, q, wire, remote>> /\ Rest0 /\ used' = used BY DEF FindSCIMUser, Rest0
  <1>2. ASSUME NEW p, NEW i, p = AfterLookup(u),
               i = IF Cardinality(Found(u)) = 1 THEN CHOOSE j \in Found(u) : TRUE ELSE 0
        PROVE  fl' = [fl EXCEPT ![u] = [pc |-> p, rid |-> i, started |-> fl[u].started]]
    <2>1. fl' = [fl EXCEPT ![u].pc = p, ![u].rid = i] BY <1>2 DEF FindSCIMUser
    <2> QED BY <2>1, RowFacts
  <1>3. CASE Of(u, remote) = {} /\ Cardinality(Found(u)) = 0
    <2> DEFINE p == IF fl[u].started THEN "failed" ELSE IF Active(u) THEN "start" ELSE "ok"
               f == [pc |-> p, rid |-> 0, started |-> fl[u].started]
    <2>1. AfterLookup(u) = p BY <1>3 DEF AfterLookup
    <2>2. fl' = [fl EXCEPT ![u] = f] BY <1>2, <1>3, <2>1
    <2>3. f \in FlRows BY <1>0 DEF FlRows
    <2>4. u \notin misled /\ ~fl[u].started => link[u] # Started BY <1>0 DEF Flight
    <2>5. u \notin misled /\ ~fl[u].started => u \notin wire BY <2>4 DEF Inv, Posts
    <2>6. p \in {"failed", "start", "ok"} /\ (p = "start" => Active(u) /\ ~fl[u].started)
          /\ (p = "ok" => ~fl[u].started)
      OBVIOUS
    <2>7. u \notin misled /\ ~fl[u].started => NotActive(u) BY <1>3, <2>5 DEF NotActive
    <2>8. f.pc = p /\ f.rid = 0 /\ f.started = fl[u].started OBVIOUS
    <2> HIDE DEF p, f
    <2>9. Flight(u, f, link[u])
      BY <1>0, <1>3, <2>4, <2>5, <2>6, <2>7, <2>8 DEF Flight
    <2> QED BY <1>0, <1>1, <2>2, <2>3, <2>9, ControlStep
  <1>4. ASSUME NEW i \in Ids, Of(u, remote) = {i}, Cardinality(Found(u)) = 1,
               (CHOOSE j \in Found(u) : TRUE) = i, remote[i].state # "gone", remote[i].ext = u
        PROVE  Inv'
    <2> DEFINE f == [pc |-> "adopt", rid |-> i, started |-> fl[u].started]
    <2>1. AfterLookup(u) = "adopt" BY <1>4 DEF AfterLookup
    <2>2. fl' = [fl EXCEPT ![u] = f] BY <1>2, <1>4, <2>1
    <2>3. f \in FlRows BY <1>0 DEF FlRows
    <2>4. u \notin misled => u \notin wire BY <1>4 DEF Inv, Posts
    <2>5. Flight(u, f, link[u]) BY <1>0, <1>4, <2>4 DEF Flight
    <2> HIDE DEF f
    <2> QED BY <1>0, <1>1, <2>2, <2>3, <2>5, ControlStep
  <1>5. CASE Cardinality(Found(u)) > 1
    <2> DEFINE f == [pc |-> "failed", rid |-> 0, started |-> fl[u].started]
    <2>1. PICK c : c = Cardinality(Found(u)) OBVIOUS
    <2>2. c > 1 => c # 1
      <3>1. Found(u) \in SUBSET Held(remote) BY DEF Found, Of
      <3>2. c \in Nat BY <2>1, <3>1, HeldFinite
      <3> QED BY <3>2
    <2>3. AfterLookup(u) = "failed" BY <1>5, <2>1, <2>2 DEF AfterLookup
    <2>4. fl' = [fl EXCEPT ![u] = f] BY <1>2, <1>5, <2>1, <2>2, <2>3
    <2>5. f \in FlRows BY <1>0 DEF FlRows
    <2>6. Flight(u, f, link[u]) BY <1>0, IdleFlight
    <2> HIDE DEF f
    <2> QED BY <1>0, <1>1, <2>4, <2>5, <2>6, ControlStep
  <1> QED BY <1>3, <1>4, <1>5, FoundCases

\* A mapping is stored only for the account found or created.
LEMMA SaveStep ==
    ASSUME Inv, NEW u \in Users, SaveSCIMLink(u)
    PROVE  Inv'
  <1>0. /\ q[u] # <<>> /\ hold # "held" /\ Flight(u, fl[u], link[u])
        /\ fl[u].pc \in {"adopt", "created"} /\ fl[u].started \in BOOLEAN
    BY AtFacts DEF SaveSCIMLink
  <1>1. UNCHANGED <<q, wire, remote>> /\ Rest0 /\ used' = used BY DEF SaveSCIMLink, Rest0
  <1>2. /\ fl[u].rid \in Ids
        /\ u \notin misled => u \notin wire /\ Of(u, remote) \subseteq {fl[u].rid}
        /\ fl[u].pc = "adopt" => remote[fl[u].rid].state = "gone" \/ remote[fl[u].rid].ext = u
        /\ fl[u].pc = "created" => Active(u)
    BY <1>0 DEF Flight
  <1>3. CASE Savable(u, fl[u].rid)
    <2> DEFINE l == fl[u].rid
               p == IF fl[u].pc = "adopt" THEN "write" ELSE "ok"
               f == [pc |-> p, rid |-> l, started |-> fl[u].started]
    <2>1. link' = [link EXCEPT ![u] = l] BY <1>3 DEF SaveSCIMLink
    <2>2. To(u, p) BY <1>3 DEF SaveSCIMLink
    <2>3. fl' = [fl EXCEPT ![u] = f] BY <2>2, AtFacts
    <2>4. f \in FlRows BY <1>0, <1>2 DEF FlRows
    <2>5. \/ p = "write" /\ fl[u].pc = "adopt"
          \/ p = "ok" /\ fl[u].pc = "created"
      BY <1>0
    <2>6. f.pc = p /\ f.rid = l /\ l = fl[u].rid OBVIOUS
    <2> HIDE DEF p, f, l
    <2>7. Flight(u, f, l) BY <1>0, <1>2, <2>5, <2>6 DEF Flight
    <2>8. used' \in UsedRows BY <1>1, UsedType
    <2> QED BY <1>0, <1>1, <1>2, <2>1, <2>3, <2>4, <2>6, <2>7, <2>8, MoveStep DEF UsedRows
  <1>4. CASE ~Savable(u, fl[u].rid)
    <2> DEFINE f == [pc |-> "failed", rid |-> fl[u].rid, started |-> fl[u].started]
    <2>1. link' = link /\ To(u, "failed") BY <1>4 DEF SaveSCIMLink
    <2>2. fl' = [fl EXCEPT ![u] = f] BY <2>1, AtFacts
    <2>3. f \in FlRows BY <1>0, <1>2 DEF FlRows
    <2>4. Flight(u, f, link[u]) BY <1>0, IdleFlight
    <2> HIDE DEF f
    <2> QED BY <1>0, <1>1, <2>1, <2>2, <2>3, <2>4, ControlStep
  <1> QED BY <1>3, <1>4

\* A create is started where no mapping and no account is.
LEMMA StartStep ==
    ASSUME Inv, NEW u \in Users, StartSCIMCreate(u)
    PROVE  Inv'
  <1>0. /\ q[u] # <<>> /\ hold # "held" /\ Flight(u, fl[u], link[u])
        /\ fl[u].pc = "start" /\ fl[u].started \in BOOLEAN /\ fl[u].rid \in Ids \cup {0}
    BY AtFacts DEF StartSCIMCreate
  <1>1. UNCHANGED <<q, wire, remote>> /\ Rest0 /\ used' = used BY DEF StartSCIMCreate, Rest0
  <1>2. Active(u) /\ (u \notin misled => u \notin wire /\ Of(u, remote) = {}) BY <1>0 DEF Flight
  <1>3. CASE StartWins(u)
    <2> DEFINE f == [pc |-> "post", rid |-> fl[u].rid, started |-> fl[u].started]
    <2>1. link' = [link EXCEPT ![u] = Started] /\ To(u, "post") BY <1>3 DEF StartSCIMCreate
    <2>2. fl' = [fl EXCEPT ![u] = f] BY <2>1, AtFacts
    <2>3. f \in FlRows BY <1>0 DEF FlRows
    <2>4. Flight(u, f, Started) BY <1>0, <1>2 DEF Flight
    <2> HIDE DEF f
    <2>5. used' \in UsedRows BY <1>1, UsedType
    <2> QED BY <1>0, <1>1, <1>2, <2>1, <2>2, <2>3, <2>4, <2>5, MoveStep, SmallFacts DEF UsedRows
  <1>4. CASE ~StartWins(u)
    <2> DEFINE f == [pc |-> "failed", rid |-> fl[u].rid, started |-> fl[u].started]
    <2>1. link' = link /\ To(u, "failed") BY <1>4 DEF StartSCIMCreate
    <2>2. fl' = [fl EXCEPT ![u] = f] BY <2>1, AtFacts
    <2>3. f \in FlRows BY <1>0 DEF FlRows
    <2>4. Flight(u, f, link[u]) BY <1>0, IdleFlight
    <2> HIDE DEF f
    <2> QED BY <1>0, <1>1, <2>1, <2>2, <2>3, <2>4, ControlStep
  <1> QED BY <1>3, <1>4

\* A refused create is forgotten; a conflict may have an account to adopt.
LEMMA RejectStep ==
    ASSUME Inv, NEW u \in Users, RejectSCIMCreate(u)
    PROVE  Inv'
  <1>0. /\ q[u] # <<>> /\ hold # "held" /\ Flight(u, fl[u], link[u]) /\ fl[u] \in FlRows
        /\ fl[u].pc \in {"refused", "conflict"} /\ fl[u].started \in BOOLEAN /\ fl[u].rid \in Ids \cup {0}
    BY AtFacts DEF RejectSCIMCreate
  <1>1. UNCHANGED <<q, wire, remote>> /\ Rest0 /\ used' = used BY DEF RejectSCIMCreate, Rest0
  <1>2. u \notin misled => u \notin wire BY <1>0 DEF Flight
  <1>3. PICK l : l = IF link[u] = Started THEN Unlinked ELSE link[u] OBVIOUS
  <1>4. link' = [link EXCEPT ![u] = l] BY <1>3 DEF RejectSCIMCreate
  <1>5. l \in Ids \cup {Unlinked, Started} BY <1>3 DEF Inv, Typed, TypeOK, Links
  <1>6. Compared /\ u \notin disputed \cup misled /\ l \in Ids => Of(u, remote) \subseteq {l}
    BY <1>3, SmallFacts DEF Inv, Known
  <1>7. used' \in UsedRows BY <1>1, UsedType
  <1>8. ASSUME NEW f \in FlRows, fl' = [fl EXCEPT ![u] = f], Flight(u, f, l) PROVE Inv'
    BY <1>0, <1>1, <1>2, <1>4, <1>5, <1>6, <1>7, <1>8, MoveStep DEF UsedRows
  <1>9. CASE fl[u].pc = "conflict" /\ Cardinality(Found(u)) = 1
    <2>1. PICK i \in Ids : /\ Of(u, remote) = {i} /\ (CHOOSE j \in Found(u) : TRUE) = i
                           /\ remote[i].state # "gone" /\ remote[i].ext = u
      BY <1>9, FoundCases
    <2> DEFINE f == [pc |-> "adopt", rid |-> i, started |-> fl[u].started]
    <2>2. fl' = [fl EXCEPT ![u].pc = "adopt", ![u].rid = i] BY <1>9, <2>1 DEF RejectSCIMCreate
    <2>3. fl' = [fl EXCEPT ![u] = f] BY <2>2, RowFacts
    <2>6. f \in FlRows BY <1>0 DEF FlRows
    <2>7. Flight(u, f, l) BY <1>0, <1>2, <2>1 DEF Flight
    <2> HIDE DEF f
    <2> QED BY <1>8, <2>3, <2>6, <2>7
  <1>10. CASE ~(fl[u].pc = "conflict" /\ Cardinality(Found(u)) = 1)
    <2> DEFINE f == [pc |-> "failed", rid |-> fl[u].rid, started |-> fl[u].started]
    <2>1. To(u, "failed") BY <1>10 DEF RejectSCIMCreate
    <2>2. fl' = [fl EXCEPT ![u] = f] BY <2>1, AtFacts
    <2>3. f \in FlRows BY <1>0 DEF FlRows
    <2>4. Flight(u, f, l) BY <1>0, IdleFlight
    <2> HIDE DEF f
    <2> QED BY <1>8, <2>2, <2>3, <2>4
  <1> QED BY <1>9, <1>10

\* A stored ID is written only if it is still the account of the person.
LEMMA VerifyStep ==
    ASSUME Inv, NEW u \in Users, VerifyMapping(u)
    PROVE  Inv'
  <1>0. /\ q[u] # <<>> /\ hold # "held" /\ Flight(u, fl[u], link[u])
        /\ fl[u].pc = "verify" /\ fl[u].started \in BOOLEAN
    BY AtFacts DEF VerifyMapping
  <1>1. UNCHANGED <<link, q, wire, remote>> /\ Rest0 /\ used' = used BY DEF VerifyMapping, Rest0
  <1>2. /\ fl[u].rid \in Ids /\ (u \notin misled => u \notin wire)
        /\ hold = "none" /\ u \notin disputed \cup misled => Of(u, remote) \subseteq {fl[u].rid}
    BY <1>0 DEF Flight
  <1> DEFINE gone == ~Active(u) /\ remote[fl[u].rid].state = "gone"
             p == IF Verified(u) THEN "write" ELSE IF gone THEN "ok" ELSE "failed"
             f == [pc |-> p, rid |-> fl[u].rid, started |-> fl[u].started]
  <1>3. To(u, p) BY DEF VerifyMapping
  <1>4. fl' = [fl EXCEPT ![u] = f] BY <1>3, AtFacts
  <1>5. f \in FlRows BY <1>0, <1>2 DEF FlRows
  <1>6. /\ p \in {"write", "ok", "failed"}
        /\ p = "write" => Verified(u)
        /\ p = "ok" => remote[fl[u].rid].state = "gone"
    OBVIOUS
  <1>7. f.pc = p /\ f.rid = fl[u].rid OBVIOUS
  <1>8. Verified(u) => remote[fl[u].rid].ext = u BY DEF Verified, Of
  <1>9. u \notin misled /\ remote[fl[u].rid].state = "gone" /\ Of(u, remote) \subseteq {fl[u].rid}
           => NotActive(u)
    BY <1>2 DEF NotActive, Of, Held
  <1> HIDE DEF p, f
  <1>10. Flight(u, f, link[u]) BY <1>0, <1>2, <1>6, <1>7, <1>8, <1>9 DEF Flight
  <1> QED BY <1>0, <1>1, <1>4, <1>5, <1>10, ControlStep

\* A delivery that is left rests on nothing.
LEMMA AbandonStep ==
    ASSUME Inv, NEW u \in Users, Abandoned(u)
    PROVE  Inv'
  <1>0. q[u] # <<>> /\ hold # "held" /\ fl[u].started \in BOOLEAN /\ fl[u].rid \in Ids \cup {0}
    BY AtFacts DEF Abandoned
  <1>1. UNCHANGED <<link, q, wire, remote>> /\ Rest0 /\ Fault BY DEF Abandoned, Rest0
  <1> DEFINE f == [pc |-> "fenced", rid |-> fl[u].rid, started |-> fl[u].started]
  <1>2. fl' = [fl EXCEPT ![u] = f] BY AtFacts DEF Abandoned
  <1>3. f \in FlRows BY <1>0 DEF FlRows
  <1>4. Flight(u, f, link[u]) BY <1>0, IdleFlight
  <1> HIDE DEF f
  <1> QED BY <1>0, <1>1, <1>2, <1>3, <1>4, ControlStep

\* A delivery at rest.
LEMMA RestFacts ==
    ASSUME NEW u, NEW l
    PROVE  Resting \in FlRows /\ Resting.pc = "idle" /\ Flight(u, Resting, l)
  <1>1. Resting \in FlRows /\ Resting.pc = "idle" BY DEF Resting, FlRows
  <1> QED BY <1>1, IdleFlight

\* The fence of a removal lapses.
LEMMA ReleaseStep ==
    ASSUME Inv, NEW u \in Users, ReleaseRemovalFence(u)
    PROVE  Inv'
  <1>1. UNCHANGED <<link, q, wire, remote>> /\ Rest0 /\ used' = used BY DEF ReleaseRemovalFence, Rest0
  <1>2. fl' = [fl EXCEPT ![u] = Resting] BY DEF ReleaseRemovalFence, Rest
  <1> QED BY <1>1, <1>2, RestFacts, ControlStep

\* A fence is lifted, with the marker only if no account and no POST is there.
LEMMA ResumeStep ==
    ASSUME Inv, NEW u \in Users, NEW b \in BOOLEAN, ResumeSyncDelivery(u, b)
    PROVE  Inv'
  <1>1. UNCHANGED <<q, wire, remote>> /\ Rest0 /\ used' = used BY DEF ResumeSyncDelivery, Rest0
  <1>2. fl' = [fl EXCEPT ![u] = Resting] BY DEF ResumeSyncDelivery, Rest
  <1>3. CASE b /\ link[u] = Started
    <2>1. link' = [link EXCEPT ![u] = Unlinked] /\ u \notin wire BY <1>3 DEF ResumeSyncDelivery
    <2>2. used' \in UsedRows BY <1>1, UsedType
    <2> QED BY <1>1, <1>2, <2>1, <2>2, RestFacts, SmallFacts, MoveStep DEF UsedRows
  <1>4. CASE ~(b /\ link[u] = Started)
    <2>1. link' = link BY <1>4 DEF ResumeSyncDelivery
    <2> QED BY <1>1, <1>2, <2>1, RestFacts, ControlStep
  <1> QED BY <1>3, <1>4

\* What is left of a queue after its first event.
LEMMA TailFacts ==
    ASSUME NEW s \in Seq(BOOLEAN), s # <<>>
    PROVE  /\ Tail(s) \in Seq(BOOLEAN)
           /\ Tail(s) = <<>> => Len(s) = 1 /\ Head(s) = s[Len(s)]
           /\ Tail(s) # <<>> => Tail(s)[Len(Tail(s))] = s[Len(s)]
  <1>1. Len(s) \in Nat /\ Len(s) >= 1 OBVIOUS
  <1>2. Tail(s) \in Seq(BOOLEAN) /\ Len(Tail(s)) = Len(s) - 1 BY <1>1
  <1>3. Tail(s) = <<>> => Len(s) = 1 BY <1>1, <1>2
  <1>4. Head(s) = s[1] OBVIOUS
  <1>5. Tail(s) # <<>> => Len(Tail(s)) >= 1 BY <1>2
  <1>6. \A k \in 1..Len(Tail(s)) : Tail(s)[k] = s[k + 1] BY <1>1, <1>2
  <1>7. Tail(s) # <<>> => Tail(s)[Len(Tail(s))] = s[Len(s)] BY <1>1, <1>2, <1>5, <1>6
  <1> QED BY <1>2, <1>3, <1>4, <1>7

\* An acknowledged event leaves the queue. If it was the last, and the account is to go, it
\* was a removal, and it is done.
LEMMA FinishStep ==
    ASSUME Inv, NEW u \in Users, FinishSyncDelivery(u)
    PROVE  Inv'
  <1>0. /\ q[u] # <<>> /\ hold # "held" /\ Flight(u, fl[u], link[u]) /\ fl[u].pc \in {"ok", "failed"}
        /\ fl \in [Users -> FlRows] /\ q \in [Users -> Seq(BOOLEAN)]
    BY AtFacts DEF FinishSyncDelivery, Inv, Typed, TypeOK, FlRows, Queues
  <1>1. UNCHANGED <<link, wire, remote>> /\ Rest0 /\ used' = used BY DEF FinishSyncDelivery, Rest0
  <1>2. fl' = [fl EXCEPT ![u] = Resting] BY DEF FinishSyncDelivery, Rest
  <1>3. CASE q' = q BY <1>1, <1>2, <1>3, RestFacts, ControlStep
  <1>4. CASE q' = [q EXCEPT ![u] = Tail(@)] /\ (fl[u].pc = "ok" \/ Len(q[u]) = 2)
    <2>0. q[u] \in Seq(BOOLEAN) /\ q'[u] = Tail(q[u]) BY <1>0, <1>4
    <2>1. /\ Tail(q[u]) \in Seq(BOOLEAN)
          /\ Tail(q[u]) = <<>> => Len(q[u]) = 1 /\ Head(q[u]) = q[u][Len(q[u])]
          /\ Tail(q[u]) # <<>> => Tail(q[u])[Len(Tail(q[u]))] = q[u][Len(q[u])]
      BY <1>0, <2>0, TailFacts
    <2>2. \A v \in Users : v # u => q'[v] = q[v] /\ fl'[v] = fl[v] BY <1>0, <1>2, <1>4
    <2>3. fl'[u] = Resting BY <1>0, <1>2
    <2>4. Typed'
      <3>1. fl' \in [Users -> FlRows] BY <1>0, <1>2, RestFacts
      <3>2. q' \in Queues BY <1>0, <1>4, <2>1 DEF Queues
      <3>3. TypeOK' BY <1>1, <3>1, <3>2 DEF Inv, Typed, TypeOK, FlRows, Rest0
      <3>4. Fence' BY <2>2, <2>3, RestFacts DEF Inv, Typed, Fence, Fenced
      <3> QED BY <3>3, <3>4 DEF Typed
    <2>5. Granted' BY <1>1 DEF Inv, Rest0, Granted
    <2>6. Seen' BY <1>1 DEF Inv, Rest0, Seen, Held
    <2>7. Single' /\ Posts' BY <1>1 DEF Inv, Rest0, Single, Posts, Of, Held
    <2>8. Stopped' BY <1>0, <1>1 DEF Rest0, Stopped
    <2>9. Events'
      <3> SUFFICES ASSUME NEW v \in Users, st[v] = "off", q'[v] # <<>> PROVE ~q'[v][Len(q'[v])]
        BY <1>1 DEF Events, Rest0
      <3>1. CASE v = u BY <1>0, <2>0, <2>1, <3>1 DEF Inv, Events
      <3>2. CASE v # u BY <2>2, <3>2 DEF Inv, Events
      <3> QED BY <3>1, <3>2
    <2>10. \A v : NotActive(v)' = NotActive(v) BY <1>1 DEF NotActive, Of, Held
    <2>11. Known'
      <3>1. Compared' => hold = "none" /\ Compared BY <1>0, <1>1 DEF Compared, Rest0
      <3>2. hold = "none" /\ u \notin disputed \cup misled /\ st[u] = "off" /\ q'[u] = <<>> => NotActive(u)
        <4> SUFFICES ASSUME hold = "none", u \notin disputed \cup misled, st[u] = "off", q'[u] = <<>>
                     PROVE  NotActive(u)
          OBVIOUS
        <4>1. Len(q[u]) = 1 /\ Head(q[u]) = q[u][Len(q[u])] BY <2>0, <2>1
        <4>2. ~q[u][Len(q[u])] BY <1>0 DEF Inv, Events
        <4>3. ~Active(u) BY <4>1, <4>2 DEF Active
        <4>4. fl[u].pc = "ok" BY <1>4, <4>1
        <4> QED BY <1>0, <4>3, <4>4 DEF Flight
      <3>3. \A v \in Users \ (disputed \cup misled) :
               hold = "none" => /\ link[v] \in Ids => Of(v, remote) \subseteq {link[v]}
                                /\ st[v] = "off" /\ q'[v] = <<>> => NotActive(v)
        BY <2>2, <3>2 DEF Inv, Known, Compared
      <3> QED BY <1>1, <2>10, <3>1, <3>3 DEF Known, Rest0
    <2>12. Flights'
      <3>1. ASSUME NEW v \in Users PROVE Flight(v, fl[v], link[v])'
        <4>1. Flight(v, fl'[v], link'[v])
          BY <1>1, <2>2, <2>3, RestFacts DEF Inv, Flights
        <4>2. fl'[v].pc # "idle" => (Active(v)' <=> Active(v)) BY <2>2, <2>3, RestFacts DEF Active
        <4>3. fl'[v].pc \in {"adopt", "write"} => remote'[fl'[v].rid].state = "gone" \/ remote'[fl'[v].rid].ext = v
          BY <1>1, <4>1 DEF Flight
        <4> QED BY <1>1, <2>10, <4>1, <4>2, <4>3, FlightKept DEF Rest0
      <3> QED BY <3>1 DEF Flights
    <2> QED BY <2>4, <2>5, <2>6, <2>7, <2>8, <2>9, <2>11, <2>12 DEF Inv
  <1> QED BY <1>3, <1>4 DEF FinishSyncDelivery

-----------------------------------------------------------------------------
(* Steps at the target.                                                     *)

\* A POST leaves, or is lost or refused.
LEMMA PostStep ==
    ASSUME Inv, NEW u \in Users, Post(u)
    PROVE  Inv'
  <1>0. /\ q[u] # <<>> /\ hold # "held" /\ Flight(u, fl[u], link[u])
        /\ fl[u].pc = "post" /\ fl[u].started \in BOOLEAN /\ fl[u].rid \in Ids \cup {0}
        /\ fl \in [Users -> FlRows] /\ wire \subseteq Users
    BY AtFacts DEF Post, Inv, Typed, TypeOK, FlRows
  <1>1. UNCHANGED <<link, q, remote>> /\ Rest0 /\ used' = used /\ wire' = wire \cup {u} BY DEF Post, Rest0
  <1>2. Active(u) /\ (u \notin misled => Of(u, remote) = {} /\ link[u] = Started) BY <1>0 DEF Flight
  <1> DEFINE f == [pc |-> "posted", rid |-> fl[u].rid, started |-> fl[u].started]
  <1>3. fl' = [fl EXCEPT ![u] = f] BY AtFacts DEF Post
  <1>4. f \in FlRows /\ f.pc = "posted" BY <1>0 DEF FlRows
  <1>5. Flight(u, f, link[u]) BY <1>0, <1>2, IdleFlight
  <1> HIDE DEF f
  <1>6. \A v \in Users : fl'[v] = IF v = u THEN f ELSE fl[v] BY <1>0, <1>3
  <1>7. Typed'
    <2>1. fl' \in [Users -> FlRows] BY <1>0, <1>3, <1>4
    <2>2. TypeOK' BY <1>0, <1>1, <2>1 DEF Inv, Typed, TypeOK, FlRows, Rest0
    <2>3. Fence' BY <1>0, <1>1, <1>6 DEF Inv, Typed, Fence, Fenced
    <2> QED BY <2>2, <2>3 DEF Typed
  <1>8. Granted' /\ Events' BY <1>1 DEF Inv, Rest0, Granted, Events
  <1>9. Seen' BY <1>1 DEF Inv, Rest0, Seen, Held
  <1>10. Single' BY <1>1 DEF Inv, Rest0, Single, Of, Held
  <1>11. Posts' BY <1>1, <1>2 DEF Inv, Rest0, Posts, Of, Held
  <1>12. Stopped' BY <1>0, <1>1 DEF Rest0, Stopped
  <1>13. \A v \in Users : v # u => (NotActive(v)' <=> NotActive(v))
    BY <1>1 DEF NotActive, Of, Held
  <1>14. Known'
    <2>1. Compared' => Compared BY <1>1 DEF Compared, Rest0, Evidence
    <2>2. \A v \in Users \ (disputed \cup misled) :
             Compared => /\ link[v] \in Ids => Of(v, remote) \subseteq {link[v]}
                         /\ st[v] = "off" /\ q[v] = <<>> => NotActive(v) /\ v # u
      BY <1>0 DEF Inv, Known
    <2> QED BY <1>1, <1>13, <2>1, <2>2 DEF Known, Rest0
  <1>15. Flights'
    <2>1. ASSUME NEW v \in Users PROVE Flight(v, fl[v], link[v])'
      <3>1. CASE v = u
        BY <1>0, <1>1, <1>2, <1>4, <1>6, <3>1 DEF Flight, Active, Rest0
      <3>2. CASE v # u
        <4>1. Flight(v, fl'[v], link'[v]) BY <1>1, <1>6, <3>2 DEF Inv, Flights
        <4>2. Active(v)' <=> Active(v) BY <1>1 DEF Active
        <4>3. fl'[v].pc \in {"adopt", "write"} => remote'[fl'[v].rid].state = "gone" \/ remote'[fl'[v].rid].ext = v
          BY <1>1, <4>1 DEF Flight
        <4> QED BY <1>1, <1>13, <3>2, <4>1, <4>2, <4>3, FlightKept DEF Rest0
      <3> QED BY <3>1, <3>2
    <2> QED BY <2>1 DEF Flights
  <1> QED BY <1>7, <1>8, <1>9, <1>10, <1>11, <1>12, <1>14, <1>15 DEF Inv

\* A POST is refused or lost.
LEMMA RefuseStep ==
    ASSUME Inv, NEW u \in Users, PostRefused(u)
    PROVE  Inv'
  <1>0. fl \in [Users -> FlRows] /\ wire \subseteq Users /\ u \in wire
    BY DEF PostRefused, Inv, Typed, TypeOK, FlRows
  <1>1. UNCHANGED <<link, q, remote>> /\ Rest0 /\ used' = used /\ wire' = wire \ {u} BY DEF PostRefused, Rest0
  <1>2. hold # "held" BY <1>0 DEF Inv, Stopped
  <1>3. PICK f \in FlRows : /\ fl' = [fl EXCEPT ![u] = f]
                            /\ \/ f = fl[u]
                               \/ fl[u].pc = "posted" /\ f.pc \in {"refused", "conflict"}
    <2>1. CASE fl[u].pc = "posted"
      <3>1. PICK p \in {"refused", "conflict"} : To(u, p) BY <2>1 DEF PostRefused
      <3>2. fl' = [fl EXCEPT ![u] = [pc |-> p, rid |-> fl[u].rid, started |-> fl[u].started]] BY <3>1, AtFacts
      <3>3. [pc |-> p, rid |-> fl[u].rid, started |-> fl[u].started] \in FlRows BY AtFacts DEF FlRows
      <3> QED BY <2>1, <3>2, <3>3
    <2>2. CASE fl[u].pc # "posted"
      <3>1. fl' = fl BY <2>2 DEF PostRefused
      <3> QED BY <1>0, <3>1
    <2> QED BY <2>1, <2>2
  <1>4. \A v \in Users : fl'[v] = IF v = u THEN f ELSE fl[v] BY <1>0, <1>3
  <1>5. Typed'
    <2>1. fl' \in [Users -> FlRows] BY <1>0, <1>3
    <2>2. TypeOK' BY <1>0, <1>1, <2>1 DEF Inv, Typed, TypeOK, FlRows, Rest0
    <2>3. Fence' BY <1>1, <1>3, <1>4 DEF Inv, Typed, Fence, Fenced
    <2> QED BY <2>2, <2>3 DEF Typed
  <1>6. Granted' /\ Events' BY <1>1 DEF Inv, Rest0, Granted, Events
  <1>7. Seen' BY <1>1 DEF Inv, Rest0, Seen, Held
  <1>8. Single' /\ Posts' BY <1>1 DEF Inv, Rest0, Single, Posts, Of, Held
  <1>9. Stopped' BY <1>1, <1>2 DEF Rest0, Stopped
  <1>10. \A v \in Users : NotActive(v) => NotActive(v)'
    BY <1>1 DEF NotActive, Of, Held
  <1>11. Known'
    <2>1. Compared' => Compared BY <1>1 DEF Compared, Rest0, Evidence
    <2>2. \A v \in Users \ (disputed \cup misled) :
             Compared => /\ link[v] \in Ids => Of(v, remote) \subseteq {link[v]}
                         /\ st[v] = "off" /\ q[v] = <<>> => NotActive(v)
      BY DEF Inv, Known
    <2> QED BY <1>1, <1>10, <2>1, <2>2 DEF Known, Rest0
  <1>12. Flights'
    <2>1. ASSUME NEW v \in Users PROVE Flight(v, fl[v], link[v])'
      <3>2. Active(v)' <=> Active(v) BY <1>1 DEF Active
      <3>3. CASE fl'[v] = fl[v]
        <4>1. Flight(v, fl'[v], link'[v]) BY <1>1, <3>3 DEF Inv, Flights
        <4>3. fl'[v].pc \in {"adopt", "write"} => remote'[fl'[v].rid].state = "gone" \/ remote'[fl'[v].rid].ext = v
          BY <1>1, <4>1 DEF Flight
        <4> QED BY <1>1, <1>10, <3>2, <4>1, <4>3, FlightKept DEF Rest0
      <3>4. CASE v = u /\ fl'[u].pc \in {"refused", "conflict"}
        BY <1>1, <1>2, <3>4 DEF Flight, Rest0
      <3> QED BY <1>3, <1>4, <3>3, <3>4
    <2> QED BY <2>1 DEF Flights
  <1> QED BY <1>5, <1>6, <1>7, <1>8, <1>9, <1>11, <1>12 DEF Inv

\* A POST is applied: the account had none, so now it has one.
LEMMA ApplyStep ==
    ASSUME Inv, NEW u \in Users, NEW i \in Ids, PostApplied(u, i)
    PROVE  Inv'
  <1>0. /\ fl \in [Users -> FlRows] /\ wire \subseteq Users /\ u \in wire /\ Free(i)
        /\ remote \in [Ids -> Accounts] /\ Flight(u, fl[u], link[u])
        /\ u \notin misled => Of(u, remote) = {} /\ link[u] = Started
    BY AtFacts DEF PostApplied, Inv, Typed, TypeOK, FlRows, Posts
  <1>1. /\ UNCHANGED <<link, q>> /\ Rest0 /\ used' = used /\ wire' = wire \ {u}
        /\ remote' = [remote EXCEPT ![i] = [ext |-> u, state |-> "active"]]
    BY DEF PostApplied, Rest0
  <1>2. hold # "held" BY <1>0 DEF Inv, Stopped
  <1>3. PICK f \in FlRows : /\ fl' = [fl EXCEPT ![u] = f]
                            /\ \/ f = fl[u] /\ f.pc # "posted"
                               \/ fl[u].pc = "posted" /\ f.pc = "failed"
                               \/ fl[u].pc = "posted" /\ f.pc = "created" /\ f.rid = i
    <2>1. CASE fl[u].pc = "posted"
      <3>1. PICK p \in {"created", "failed"} :
               fl' = [fl EXCEPT ![u].pc = p, ![u].rid = IF p = "created" THEN i ELSE 0]
        BY <2>1 DEF PostApplied
      <3>2. PICK k : k = IF p = "created" THEN i ELSE 0 OBVIOUS
      <3>3. fl' = [fl EXCEPT ![u].pc = p, ![u].rid = k] BY <3>1, <3>2
      <3>4. fl' = [fl EXCEPT ![u] = [pc |-> p, rid |-> k, started |-> fl[u].started]] BY <3>3, RowFacts
      <3>5. [pc |-> p, rid |-> k, started |-> fl[u].started] \in FlRows BY <3>2, AtFacts DEF FlRows
      <3> QED BY <2>1, <3>2, <3>4, <3>5
    <2>2. CASE fl[u].pc # "posted"
      <3>1. fl' = fl BY <2>2 DEF PostApplied
      <3> QED BY <1>0, <2>2, <3>1
    <2> QED BY <2>1, <2>2
  <1>4. \A v \in Users : fl'[v] = IF v = u THEN f ELSE fl[v] BY <1>0, <1>3
  <1>5. /\ remote' \in [Ids -> Accounts] /\ remote[i].state = "gone"
        /\ \A j \in Ids : remote'[j] = IF j = i THEN [ext |-> u, state |-> "active"] ELSE remote[j]
    BY <1>0, <1>1 DEF Free, Accounts
  <1>6. u \notin misled => Of(u, remote') = {i} BY <1>0, <1>5 DEF Of, Held
  <1>7. \A v \in Users : v # u => Of(v, remote') = Of(v, remote) BY <1>5 DEF Of, Held
  <1>8. Typed'
    <2>1. fl' \in [Users -> FlRows] BY <1>0, <1>3
    <2>2. TypeOK' BY <1>0, <1>1, <1>5, <2>1 DEF Inv, Typed, TypeOK, FlRows, Rest0
    <2>3. Fence' BY <1>1, <1>3, <1>4 DEF Inv, Typed, Fence, Fenced
    <2> QED BY <2>2, <2>3 DEF Typed
  <1>9. Granted' /\ Events' BY <1>1 DEF Inv, Rest0, Granted, Events
  <1>10. Seen'
    <2>1. rn' = rn BY <1>1 DEF Rest0
    <2>2. \A r \in Runners : \A j \in Ids :
             rn[r].seen[j] # Gone =>
                /\ j \in Held(rn[r].seen)
                /\ r \notin churned => /\ j \in Held(remote) /\ j # i
                                       /\ remote[j].ext = rn[r].seen[j].ext
      BY <1>5 DEF Inv, Seen, Held
    <2>3. \A j \in Held(remote) : j # i => j \in Held(remote') /\ remote'[j].ext = remote[j].ext
      BY <1>5 DEF Held
    <2>4. \A r \in Runners : rn[r].pc = "listing" => Cardinality(Held(rn[r].seen)) = rn[r].n
      BY DEF Inv, Seen
    <2>5. churned' = churned BY <1>1 DEF Rest0
    <2> QED BY <2>1, <2>2, <2>3, <2>4, <2>5 DEF Seen
  <1>11. Single'
    <2> SUFFICES ASSUME NEW v \in Users \ misled, NEW j \in Of(v, remote'), NEW k \in Of(v, remote')
                 PROVE  j = k
      BY <1>1 DEF Rest0, Single
    <2>1. CASE v = u BY <1>6, <2>1
    <2>2. CASE v # u BY <1>7, <2>2 DEF Inv, Single
    <2> QED BY <2>1, <2>2
  <1>12. Posts' BY <1>0, <1>1, <1>7 DEF Inv, Rest0, Posts
  <1>13. Stopped' BY <1>1, <1>2 DEF Rest0, Stopped
  <1>14. \A v \in Users : v # u => (NotActive(v)' <=> NotActive(v))
    <2> SUFFICES ASSUME NEW v \in Users, v # u PROVE NotActive(v)' <=> NotActive(v) OBVIOUS
    <2>1. v \in wire' <=> v \in wire BY <1>1
    <2>2. \A j \in Of(v, remote) : remote'[j] = remote[j] BY <1>5 DEF Of, Held
    <2> QED BY <1>7, <2>1, <2>2 DEF NotActive
  <1>15. Known'
    <2>1. Compared' => Compared BY <1>1 DEF Compared, Rest0, Evidence
    <2>2. \A v \in Users \ (disputed \cup misled) :
             Compared => /\ link[v] \in Ids => Of(v, remote) \subseteq {link[v]} /\ v # u
                         /\ st[v] = "off" /\ q[v] = <<>> => NotActive(v) /\ v # u
      BY <1>0, SmallFacts DEF Inv, Known, NotActive
    <2> QED BY <1>1, <1>7, <1>14, <2>1, <2>2 DEF Known, Rest0
  <1>16. Flights'
    <2>1. ASSUME NEW v \in Users PROVE Flight(v, fl[v], link[v])'
      <3>1. Active(v)' <=> Active(v) BY <1>1 DEF Active
      <3>2. CASE v = u
        <4>1. UNCHANGED <<hold, disputed, misled, link>> BY <1>1 DEF Rest0
        <4>2. fl'[u] = f BY <1>4
        <4>3. CASE f = fl[u] /\ f.pc # "posted"
          <5>1. u \notin misled => f.pc \in {"idle", "begun", "find", "ok", "failed", "fenced"}
            BY <1>0, <1>3, <4>3 DEF Flight, FlRows
          <5>2. u \notin misled /\ f.pc = "find" => f.started BY <1>0, <4>3 DEF Flight
          <5>3. f.pc = "ok" /\ hold = "none" /\ u \notin disputed \cup misled => Active(u)
            BY <1>0, <4>3 DEF Flight, NotActive
          <5>4. f.pc \in {"adopt", "write"} => remote'[f.rid].state = "gone" \/ remote'[f.rid].ext = u
            <6>1. f.pc \in {"adopt", "write"} =>
                     f.rid # i /\ f.rid \in Ids /\ (remote[f.rid].state = "gone" \/ remote[f.rid].ext = u)
              BY <1>0, <4>3 DEF Free, Flight
            <6> QED BY <1>5, <6>1
          <5>5. f.pc \in {"adopt", "created", "verify", "write"} => f.rid \in Ids BY <1>0, <4>3 DEF Flight
          <5>6. f.pc \in {"start", "post", "posted", "created"} => Active(u) BY <1>0, <4>3 DEF Flight
          <5>7. CASE u \in misled
            BY <1>2, <3>1, <3>2, <4>1, <4>2, <5>4, <5>5, <5>6, <5>7 DEF Flight
          <5>8. CASE u \notin misled
            BY <1>2, <3>1, <3>2, <4>1, <4>2, <5>1, <5>2, <5>3, <5>8 DEF Flight
          <5> QED BY <5>7, <5>8
        <4>4. CASE fl[u].pc = "posted" /\ f.pc = "failed"
          BY <1>2, <3>2, <4>1, <4>2, <4>4 DEF Flight
        <4>5. CASE fl[u].pc = "posted" /\ f.pc = "created" /\ f.rid = i
          <5>1. Active(u) BY <1>0, <4>5 DEF Flight
          <5>2. u \notin wire' BY <1>1
          <5> QED BY <1>2, <1>6, <3>1, <3>2, <4>1, <4>2, <4>5, <5>1, <5>2 DEF Flight
        <4> QED BY <1>3, <4>3, <4>4, <4>5
      <3>3. CASE v # u
        <4>1. fl'[v] = fl[v] BY <1>4, <3>3
        <4>2. Flight(v, fl'[v], link'[v]) BY <1>1, <4>1 DEF Inv, Flights
        <4>3. fl'[v].pc \in {"adopt", "write"} => remote'[fl'[v].rid].state = "gone" \/ remote'[fl'[v].rid].ext = v
          BY <1>0, <1>5, <4>1, <4>2 DEF Flight, Free
        <4> QED BY <1>1, <1>7, <1>14, <3>1, <3>3, <4>2, <4>3, FlightKept DEF Rest0
      <3> QED BY <3>2, <3>3
    <2> QED BY <2>1 DEF Flights
  <1> QED BY <1>8, <1>9, <1>10, <1>11, <1>12, <1>13, <1>15, <1>16 DEF Inv

\* An edit of an account's state moves none.
LEMMA EditFacts ==
    ASSUME Inv, NEW i \in Ids, NEW s \in {"active", "stale", "inactive"}, remote[i].state # "gone",
           remote' = [remote EXCEPT ![i].state = s]
    PROVE  /\ remote' \in [Ids -> Accounts]
           /\ Held(remote') = Held(remote) /\ \A v : Of(v, remote') = Of(v, remote)
           /\ remote'[i].state = s
           /\ \A j \in Ids : /\ remote'[j].ext = remote[j].ext
                             /\ j # i => remote'[j] = remote[j]
  <1>1. remote \in [Ids -> Accounts] BY DEF Inv, Typed, TypeOK
  <1>2. remote[i] \in Accounts BY <1>1
  <1>3. [remote[i] EXCEPT !.state = s] = [ext |-> remote[i].ext, state |-> s] BY <1>2 DEF Accounts
  <1>4. remote' = [remote EXCEPT ![i] = [ext |-> remote[i].ext, state |-> s]] BY <1>3
  <1>5. \A j \in Ids : remote'[j] = IF j = i THEN [ext |-> remote[i].ext, state |-> s] ELSE remote[j]
    BY <1>1, <1>4
  <1>6. remote' \in [Ids -> Accounts] BY <1>1, <1>2, <1>4 DEF Accounts
  <1>7. \A j \in Ids : (remote'[j].state # "gone") <=> (remote[j].state # "gone") BY <1>5
  <1>8. \A j \in Ids : remote'[j].ext = remote[j].ext BY <1>5
  <1>9. Held(remote') = Held(remote) BY <1>7 DEF Held
  <1>10. \A v : Of(v, remote') = Of(v, remote)
    <2>1. \A j \in Held(remote) : remote'[j].ext = remote[j].ext BY <1>8 DEF Held
    <2> QED BY <1>9, <2>1 DEF Of
  <1> QED BY <1>5, <1>6, <1>8, <1>9, <1>10

\* A write, answered or not, reaches only the account's own.
LEMMA WrittenStep ==
    ASSUME Inv, NEW u \in Users, fl[u].pc = "write", NEW f \in FlRows, fl' = [fl EXCEPT ![u] = f],
           UNCHANGED <<link, q, wire>>, Rest0, Fault \/ used' = used,
           \/ remote' = remote
           \/ /\ remote[fl[u].rid].state # "gone"
              /\ remote' = [remote EXCEPT ![fl[u].rid].state = IF Active(u) THEN "active" ELSE "inactive"],
           f.pc \in {"ok", "failed", "fenced"},
           f.pc = "ok" /\ ~Active(u) => remote'[fl[u].rid].state \in {"gone", "inactive"}
    PROVE  Inv'
  <1>0. /\ q[u] # <<>> /\ hold # "held" /\ Flight(u, fl[u], link[u]) /\ fl \in [Users -> FlRows]
    BY AtFacts DEF Inv, Typed, TypeOK, FlRows
  <1>1. /\ fl[u].rid \in Ids /\ (u \notin misled => u \notin wire)
        /\ remote[fl[u].rid].state = "gone" \/ remote[fl[u].rid].ext = u
        /\ hold = "none" /\ u \notin disputed \cup misled => Of(u, remote) \subseteq {fl[u].rid}
    BY <1>0 DEF Flight
  <1>2. PICK i \in Ids : i = fl[u].rid BY <1>1
  <1>3. /\ remote' \in [Ids -> Accounts]
        /\ Held(remote') = Held(remote) /\ \A v : Of(v, remote') = Of(v, remote)
        /\ \A j \in Ids : /\ remote'[j].ext = remote[j].ext
                          /\ j # i => remote'[j] = remote[j]
        /\ remote[i].ext # u => remote' = remote
        /\ remote[i].state = "gone" => remote' = remote
    <2>1. CASE remote' = remote BY <2>1 DEF Inv, Typed, TypeOK, Held, Of
    <2>2. CASE /\ remote[fl[u].rid].state # "gone"
               /\ remote' = [remote EXCEPT ![fl[u].rid].state = IF Active(u) THEN "active" ELSE "inactive"]
      <3>1. PICK s \in {"active", "stale", "inactive"} : s = IF Active(u) THEN "active" ELSE "inactive" OBVIOUS
      <3>2. remote' = [remote EXCEPT ![i].state = s] /\ remote[i].state # "gone" BY <1>2, <2>2, <3>1
      <3> QED BY <1>1, <1>2, <3>2, EditFacts
    <2> QED BY <2>1, <2>2
  <1>4. \A v \in Users : fl'[v] = IF v = u THEN f ELSE fl[v] BY <1>0
  <1>5. Typed'
    <2>1. fl' \in [Users -> FlRows] BY <1>0
    <2>2. used' \in UsedRows BY UsedType
    <2>3. TypeOK' BY <1>3, <2>1, <2>2 DEF Inv, Typed, TypeOK, FlRows, Rest0, UsedRows
    <2>4. Fence' BY <1>0, <1>4 DEF Inv, Typed, Fence, Fenced
    <2> QED BY <2>3, <2>4 DEF Typed
  <1>6. Granted' /\ Events' BY DEF Inv, Rest0, Granted, Events
  <1>7. Seen'
    <2>1. rn' = rn BY DEF Rest0
    <2>2. \A r \in Runners : \A j \in Ids :
             rn[r].seen[j] # Gone =>
                /\ j \in Held(rn[r].seen)
                /\ r \notin churned => j \in Held(remote) /\ remote[j].ext = rn[r].seen[j].ext
      BY DEF Inv, Seen
    <2>3. \A r \in Runners : rn[r].pc = "listing" => Cardinality(Held(rn[r].seen)) = rn[r].n
      BY DEF Inv, Seen
    <2>4. churned' = churned BY DEF Rest0
    <2> QED BY <1>3, <2>1, <2>2, <2>3, <2>4 DEF Seen
  <1>8. Single' /\ Posts' BY <1>3 DEF Inv, Rest0, Single, Posts
  <1>9. Stopped' BY <1>0 DEF Rest0, Stopped
  <1>10. \A v \in Users : v # u => (NotActive(v)' <=> NotActive(v))
    <2> SUFFICES ASSUME NEW v \in Users, v # u PROVE NotActive(v)' <=> NotActive(v) OBVIOUS
    <2>1. \A j \in Of(v, remote) : remote'[j] = remote[j]
      BY <1>3 DEF Of, Held
    <2> QED BY <1>3, <2>1 DEF NotActive
  <1>11. Known'
    <2>1. Compared' => Compared BY DEF Compared, Rest0, Evidence
    <2>2. \A v \in Users \ (disputed \cup misled) :
             Compared => /\ link[v] \in Ids => Of(v, remote) \subseteq {link[v]}
                         /\ st[v] = "off" /\ q[v] = <<>> => NotActive(v) /\ v # u
      BY <1>0 DEF Inv, Known
    <2> QED BY <1>3, <1>10, <2>1, <2>2 DEF Known, Rest0
  <1>12. Flights'
    <2>1. ASSUME NEW v \in Users PROVE Flight(v, fl[v], link[v])'
      <3>1. Active(v)' <=> Active(v) BY DEF Active
      <3>2. CASE v = u
        <4>1. f.pc = "ok" /\ ~Active(u) /\ hold = "none" /\ u \notin disputed \cup misled => NotActive(u)'
          <5> SUFFICES ASSUME f.pc = "ok", ~Active(u), hold = "none", u \notin disputed \cup misled
                       PROVE  NotActive(u)'
            OBVIOUS
          <5>1. Of(u, remote') \subseteq {i} /\ remote'[i].state \in {"gone", "inactive"}
            BY <1>1, <1>2, <1>3
          <5>2. \A j \in Of(u, remote') : remote'[j].state # "gone" BY DEF Of, Held
          <5> QED BY <1>1, <5>1, <5>2 DEF NotActive
        <4> QED BY <1>0, <1>4, <3>1, <3>2, <4>1 DEF Flight, Rest0
      <3>3. CASE v # u
        <4>1. fl'[v] = fl[v] BY <1>4, <3>3
        <4>2. Flight(v, fl'[v], link'[v]) BY <4>1 DEF Inv, Flights
        <4>3. fl'[v].pc \in {"adopt", "write"} => remote'[fl'[v].rid].state = "gone" \/ remote'[fl'[v].rid].ext = v
          <5> SUFFICES ASSUME fl'[v].pc \in {"adopt", "write"}
                       PROVE  remote'[fl'[v].rid].state = "gone" \/ remote'[fl'[v].rid].ext = v
            OBVIOUS
          <5>1. PICK k \in Ids : k = fl'[v].rid BY <4>2 DEF Flight
          <5>2. remote[k].state = "gone" \/ remote[k].ext = v BY <4>2, <5>1 DEF Flight
          <5> QED BY <1>3, <5>1, <5>2
        <4> QED BY <1>3, <1>10, <3>1, <3>3, <4>2, <4>3, FlightKept DEF Rest0
      <3> QED BY <3>2, <3>3
    <2> QED BY <2>1 DEF Flights
  <1> QED BY <1>5, <1>6, <1>7, <1>8, <1>9, <1>11, <1>12 DEF Inv

\* A write leaves the account as the event wants it.
LEMMA WriteStep ==
    ASSUME Inv, NEW u \in Users, Write(u) \/ WriteUnanswered(u)
    PROVE  Inv'
  <1>0. /\ fl[u].pc = "write" /\ fl[u].started \in BOOLEAN /\ fl[u].rid \in Ids \cup {0}
        /\ UNCHANGED <<link, q, wire>> /\ Rest0 /\ (Fault \/ used' = used)
    BY AtFacts DEF Write, WriteUnanswered, Rest0
  <1>1. /\ \/ remote' = remote
           \/ /\ remote[fl[u].rid].state # "gone"
              /\ remote' = [remote EXCEPT ![fl[u].rid].state = IF Active(u) THEN "active" ELSE "inactive"]
        /\ \E p \in {"ok", "failed", "fenced"} :
              /\ To(u, p)
              /\ p = "ok" /\ ~Active(u) => \/ remote'[fl[u].rid].state = "gone"
                                           \/ /\ remote[fl[u].rid].state # "gone"
                                              /\ remote' = [remote EXCEPT ![fl[u].rid].state = "inactive"]
    BY DEF Write, WriteUnanswered
  <1>2. PICK p \in {"ok", "failed", "fenced"} :
              /\ To(u, p)
              /\ p = "ok" /\ ~Active(u) => \/ remote'[fl[u].rid].state = "gone"
                                           \/ /\ remote[fl[u].rid].state # "gone"
                                              /\ remote' = [remote EXCEPT ![fl[u].rid].state = "inactive"]
    BY <1>1
  <1> DEFINE f == [pc |-> p, rid |-> fl[u].rid, started |-> fl[u].started]
  <1>3. fl' = [fl EXCEPT ![u] = f] BY <1>2, AtFacts
  <1>4. f \in FlRows /\ f.pc = p BY <1>0 DEF FlRows
  <1>5. p = "ok" /\ ~Active(u) => remote'[fl[u].rid].state \in {"gone", "inactive"}
    <2>1. fl[u].rid \in Ids BY <1>0, AtFacts DEF Flight
    <2>2. ASSUME remote[fl[u].rid].state # "gone", remote' = [remote EXCEPT ![fl[u].rid].state = "inactive"]
          PROVE  remote'[fl[u].rid].state = "inactive"
      <3>1. PICK i \in Ids : i = fl[u].rid BY <2>1
      <3> QED BY <2>2, <3>1, EditFacts
    <2> QED BY <1>2, <2>2
  <1> HIDE DEF f
  <1> QED BY <1>0, <1>1, <1>2, <1>3, <1>4, <1>5, WrittenStep

\* Every step of a delivery keeps the invariant.
LEMMA DeliverStep ==
    ASSUME Inv, NEW u \in Users, Deliver(u)
    PROVE  Inv'
  BY BeginStep, LinkStep, FindStep, SaveStep, StartStep, PostStep, ApplyStep, RefuseStep, RejectStep,
     VerifyStep, WriteStep, AbandonStep, FinishStep, ReleaseStep, ResumeStep
     DEF Deliver

\* The variables that what others do at the target does not touch.
Rest1 == UNCHANGED <<wanted, st, hold, snap, job, rn, disputed, misled>>

\* What others do at the target gives nobody here an account or an active one, and leaves
\* what a listing has read, unless the listing counts as churned.
LEMMA OthersStep ==
    ASSUME Inv, UNCHANGED <<link, q, wire, fl>>, Rest1, Elsewhere,
           churned \subseteq churned', churned' \subseteq Runners,
           remote' \in [Ids -> Accounts],
           \A v \in Users : /\ Of(v, remote') \subseteq Of(v, remote)
                            /\ \A j \in Of(v, remote') :
                                  remote[j].state = "inactive" => remote'[j].state = "inactive",
           \A r \in Runners \ churned' : \A j \in Held(rn[r].seen) :
              j \in Held(remote') /\ remote'[j].ext = remote[j].ext,
           \A v \in Users : fl[v].pc \in {"adopt", "write"} =>
              remote'[fl[v].rid].state = "gone" \/ remote'[fl[v].rid].ext = v
    PROVE  Inv'
  <1>1. Typed'
    <2>1. used' \in UsedRows BY UsedType
    <2>2. TypeOK' BY <2>1 DEF Inv, Typed, TypeOK, Rest1, UsedRows
    <2>3. Fence' BY DEF Inv, Typed, Fence, Fenced
    <2> QED BY <2>2, <2>3 DEF Typed
  <1>2. Granted' /\ Events' BY DEF Inv, Rest1, Granted, Events
  <1>3. rn' = rn BY DEF Rest1
  <1>4. Seen'
    <2>2. \A r \in Runners : \A j \in Ids :
             rn[r].seen[j] # Gone =>
                /\ j \in Held(rn[r].seen)
                /\ r \notin churned => j \in Held(remote) /\ remote[j].ext = rn[r].seen[j].ext
      BY DEF Inv, Seen
    <2>3. \A r \in Runners : rn[r].pc = "listing" => Cardinality(Held(rn[r].seen)) = rn[r].n
      BY DEF Inv, Seen
    <2> QED BY <1>3, <2>2, <2>3 DEF Seen
  <1>5. Single' BY DEF Inv, Rest1, Single
  <1>6. Posts' BY DEF Inv, Rest1, Posts, Typed, TypeOK
  <1>7. Stopped'
    <2> SUFFICES ASSUME hold = "held"
                 PROVE  /\ wire = {}
                        /\ \A r \in Runners : \A u \in Users :
                              \A i \in Of(u, rn[r].seen) \cap Of(u, remote') :
                                 rn[r].seen[i].state = "inactive" => remote'[i].state = "inactive"
                        /\ \A r \in Runners \ churned' : rn[r].pc = "listed" /\ rn[r].complete =>
                              \A u \in Users : Of(u, remote') \subseteq Held(rn[r].seen)
      BY <1>3 DEF Stopped, Rest1
    <2>1. /\ wire = {}
          /\ \A r \in Runners : \A u \in Users : \A i \in Of(u, rn[r].seen) \cap Of(u, remote) :
                rn[r].seen[i].state = "inactive" => remote[i].state = "inactive"
          /\ \A r \in Runners \ churned : rn[r].pc = "listed" /\ rn[r].complete =>
                \A u \in Users : Of(u, remote) \subseteq Held(rn[r].seen)
      BY DEF Inv, Stopped
    <2> QED BY <2>1
  <1>8. \A v \in Users : NotActive(v) => NotActive(v)' BY DEF NotActive
  <1>9. Known'
    <2>1. Compared' => Compared BY DEF Compared, Rest1, Evidence
    <2>2. \A v \in Users \ (disputed \cup misled) :
             Compared => /\ link[v] \in Ids => Of(v, remote) \subseteq {link[v]}
                         /\ st[v] = "off" /\ q[v] = <<>> => NotActive(v)
      BY DEF Inv, Known
    <2> QED BY <1>8, <2>1, <2>2 DEF Known, Rest1
  <1>10. Flights'
    <2>1. ASSUME NEW v \in Users PROVE Flight(v, fl[v], link[v])'
      <3>1. Active(v)' <=> Active(v) BY DEF Active
      <3>2. Flight(v, fl'[v], link'[v]) BY DEF Inv, Flights
      <3> QED BY <1>8, <3>1, <3>2, FlightKept DEF Rest1
    <2> QED BY <2>1 DEF Flights
  <1> QED BY <1>1, <1>2, <1>4, <1>5, <1>6, <1>7, <1>9, <1>10 DEF Inv

\* A listed account is there; a delivery relies on its ID.
LEMMA TargetFacts ==
    ASSUME Inv
    PROVE  /\ remote \in [Ids -> Accounts]
           /\ \A r \in Runners : \A j \in Held(rn[r].seen) :
                 rn[r].seen[j] # Gone /\ (r \notin churned => j \in Held(remote))
           /\ \A v \in Users : fl[v].pc \in {"adopt", "write"} =>
                 fl[v].rid \in Ids /\ (remote[fl[v].rid].state = "gone" \/ remote[fl[v].rid].ext = v)
  <1>1. remote \in [Ids -> Accounts] BY DEF Inv, Typed, TypeOK
  <1>2. ASSUME NEW r \in Runners, NEW j \in Held(rn[r].seen)
        PROVE  rn[r].seen[j] # Gone /\ (r \notin churned => j \in Held(remote))
    <2>1. j \in Ids /\ rn[r].seen[j] # Gone BY DEF Held, Gone
    <2> QED BY <2>1 DEF Inv, Seen
  <1>3. ASSUME NEW v \in Users, fl[v].pc \in {"adopt", "write"}
        PROVE  fl[v].rid \in Ids /\ (remote[fl[v].rid].state = "gone" \/ remote[fl[v].rid].ext = v)
    <2>1. Flight(v, fl[v], link[v]) BY DEF Inv, Flights
    <2> QED BY <1>3, <2>1 DEF Flight
  <1> QED BY <1>1, <1>2, <1>3

\* So does everything others do at the target.
LEMMA TargetStep ==
    ASSUME Inv, Target
    PROVE  Inv'
  <1>1. ASSUME NEW i \in Ids, TargetErases(i) PROVE Inv'
    <2>0. churned \subseteq churned' /\ churned' \subseteq Runners BY <1>1 DEF TargetErases, Inv, Typed, TypeOK
    <2>1. UNCHANGED <<link, q, wire, fl>> /\ Rest1 /\ Elsewhere BY <1>1 DEF TargetErases, Rest1
    <2>2. /\ remote' = [remote EXCEPT ![i] = Gone]
          /\ churned' = churned \cup {r \in Runners : rn[r].seen[i] # Gone}
      BY <1>1 DEF TargetErases
    <2>3. \A j \in Ids : remote'[j] = IF j = i THEN Gone ELSE remote[j] BY <2>2, TargetFacts
    <2>4. remote' \in [Ids -> Accounts] BY <2>2, TargetFacts DEF Accounts, Gone
    <2>5. Gone.state = "gone" BY DEF Gone
    <2>6. ASSUME NEW v \in Users
          PROVE  /\ Of(v, remote') \subseteq Of(v, remote)
                 /\ \A j \in Of(v, remote') : remote[j].state = "inactive" => remote'[j].state = "inactive"
      BY <2>3, <2>5 DEF Of, Held
    <2>7. ASSUME NEW r \in Runners \ churned', NEW j \in Held(rn[r].seen)
          PROVE  j \in Held(remote') /\ remote'[j].ext = remote[j].ext
      <3>1. j # i /\ j \in Held(remote) BY <2>2, TargetFacts
      <3> QED BY <2>3, <3>1 DEF Held
    <2>8. ASSUME NEW v \in Users, fl[v].pc \in {"adopt", "write"}
          PROVE  remote'[fl[v].rid].state = "gone" \/ remote'[fl[v].rid].ext = v
      BY <2>3, <2>5, <2>8, TargetFacts
    <2> QED BY <2>0, <2>1, <2>4, <2>6, <2>7, <2>8, OthersStep
  <1>2. ASSUME NEW i \in Ids, TargetGains(i) PROVE Inv'
    <2>0. churned' = churned /\ churned \subseteq Runners BY <1>2 DEF TargetGains, Inv, Typed, TypeOK
    <2>1. UNCHANGED <<link, q, wire, fl>> /\ Rest1 /\ Elsewhere BY <1>2 DEF TargetGains, Rest1
    <2>2. remote' = [remote EXCEPT ![i] = [ext |-> Other, state |-> "active"]] /\ Free(i)
      BY <1>2 DEF TargetGains
    <2>3. \A j \in Ids : remote'[j] = IF j = i THEN [ext |-> Other, state |-> "active"] ELSE remote[j]
      BY <2>2, TargetFacts
    <2>4. remote' \in [Ids -> Accounts] BY <2>2, TargetFacts DEF Accounts
    <2>5. remote[i].state = "gone" BY <2>2 DEF Free
    <2>6. ASSUME NEW v \in Users
          PROVE  /\ Of(v, remote') \subseteq Of(v, remote)
                 /\ \A j \in Of(v, remote') : remote[j].state = "inactive" => remote'[j].state = "inactive"
      <3>1. v # Other BY ReconcileAssumption
      <3> QED BY <2>3, <3>1 DEF Of, Held
    <2>7. ASSUME NEW r \in Runners \ churned', NEW j \in Held(rn[r].seen)
          PROVE  j \in Held(remote') /\ remote'[j].ext = remote[j].ext
      <3>1. j \in Held(remote) BY <2>0, TargetFacts
      <3> QED BY <2>3, <2>5, <3>1 DEF Held
    <2>8. ASSUME NEW v \in Users, fl[v].pc \in {"adopt", "write"}
          PROVE  remote'[fl[v].rid].state = "gone" \/ remote'[fl[v].rid].ext = v
      <3>1. fl[v].rid # i BY <2>2, <2>8 DEF Free
      <3> QED BY <2>3, <2>8, <3>1, TargetFacts
    <2> QED BY <2>0, <2>1, <2>4, <2>6, <2>7, <2>8, OthersStep
  <1>3. ASSUME NEW i \in Ids, NEW s \in {"stale", "inactive"}, TargetEdits(i, s) PROVE Inv'
    <2>0. churned' = churned /\ churned \subseteq Runners BY <1>3 DEF TargetEdits, Inv, Typed, TypeOK
    <2>1. UNCHANGED <<link, q, wire, fl>> /\ Rest1 /\ Elsewhere BY <1>3 DEF TargetEdits, Rest1
    <2>2. remote' = [remote EXCEPT ![i].state = s] /\ remote[i].state = "active"
      BY <1>3 DEF TargetEdits
    <2>3. /\ remote' \in [Ids -> Accounts]
          /\ Held(remote') = Held(remote) /\ \A v : Of(v, remote') = Of(v, remote)
          /\ \A j \in Ids : /\ remote'[j].ext = remote[j].ext
                            /\ j # i => remote'[j] = remote[j]
      BY <2>2, EditFacts
    <2>4. \A j \in Ids : remote[j].state = "inactive" => remote'[j].state = "inactive" BY <2>2, <2>3
    <2>5. \A v \in Users : Of(v, remote') \subseteq Ids BY DEF Of, Held
    <2>6. ASSUME NEW r \in Runners \ churned', NEW j \in Held(rn[r].seen)
          PROVE  j \in Held(remote') /\ remote'[j].ext = remote[j].ext
      <3>1. j \in Held(remote) /\ j \in Ids BY <2>0, TargetFacts DEF Held
      <3> QED BY <2>3, <3>1
    <2>7. ASSUME NEW v \in Users, fl[v].pc \in {"adopt", "write"}
          PROVE  remote'[fl[v].rid].state = "gone" \/ remote'[fl[v].rid].ext = v
      BY <2>2, <2>3, <2>7, TargetFacts
    <2> QED BY <2>0, <2>1, <2>3, <2>4, <2>5, <2>6, <2>7, OthersStep
  <1> QED BY <1>1, <1>2, <1>3 DEF Target

-----------------------------------------------------------------------------
(* Steps of the directory.                                                  *)

\* A step that queues events and touches neither the target nor a delivery.
LEMMA QueuedStep ==
    ASSUME Inv, wanted' \subseteq Users, st' \in States, q' \in Queues, QueueKept, Granted',
           snap' \in [wanted : SUBSET Users, link : Links, st : States, q : Queues],
           UNCHANGED <<link, hold, fl, wire, remote, job, rn, disputed, churned, misled>>,
           Change \/ used' = used
    PROVE  Inv'
  <1>1. Typed'
    <2>1. used' \in UsedRows BY UsedType
    <2>2. TypeOK' BY <2>1 DEF Inv, Typed, TypeOK, UsedRows
    <2>3. Fence' BY DEF QueueKept, Fence, Fenced
    <2> QED BY <2>2, <2>3 DEF Typed
  <1>2. Events' BY DEF QueueKept, Events
  <1>3. Seen' BY DEF Inv, Seen, Held
  <1>4. Single' /\ Posts' BY DEF Inv, Single, Posts, Of, Held
  <1>5. Stopped' BY DEF Inv, Stopped, Of, Held
  <1>6. \A v \in Users : NotActive(v)' = NotActive(v) BY DEF NotActive, Of, Held
  <1>7. Known'
    <2>1. Compared' => Compared BY DEF Compared, Evidence
    <2>2. \A v \in Users \ (disputed \cup misled) :
             Compared => /\ link[v] \in Ids => Of(v, remote) \subseteq {link[v]}
                         /\ st[v] = "off" /\ q[v] = <<>> => NotActive(v)
      BY DEF Inv, Known
    <2> QED BY <1>6, <2>1, <2>2 DEF Known, QueueKept
  <1>8. Flights'
    <2>1. ASSUME NEW v \in Users PROVE Flight(v, fl[v], link[v])'
      <3>1. fl'[v].pc # "idle" => (Active(v)' <=> Active(v)) BY DEF Active, QueueKept, Fenced
      <3>2. Flight(v, fl'[v], link'[v]) BY DEF Inv, Flights
      <3>3. fl'[v].pc \in {"adopt", "write"} => remote'[fl'[v].rid].state = "gone" \/ remote'[fl'[v].rid].ext = v
        BY <3>2 DEF Flight
      <3> QED BY <1>6, <3>1, <3>2, <3>3, FlightKept
    <2> QED BY <2>1 DEF Flights
  <1> QED BY <1>1, <1>2, <1>3, <1>4, <1>5, <1>7, <1>8 DEF Inv

\* The types of the directory and its backup.
LEMMA DirectoryTypes ==
    ASSUME Inv
    PROVE  /\ Typed /\ Events /\ wanted \subseteq Users /\ link \in Links /\ st \in States /\ q \in Queues
           /\ snap \in [wanted : SUBSET Users, link : Links, st : States, q : Queues]
           /\ \A u \in wanted : st[u] = "on"
           /\ \A u \in snap.wanted : snap.st[u] = "on"
  BY DEF Inv, Typed, TypeOK, Granted

\* With the queue as it is.
LEMMA SameQueue ==
    ASSUME Inv, UNCHANGED <<st, q>>
    PROVE  QueueKept /\ st' \in States /\ q' \in Queues
  BY DirectoryTypes DEF QueueKept, Events, Typed, Fence

\* A change of access, or of what is queued for it.
LEMMA DirectoryStep ==
    ASSUME Inv, NEW u \in Users,
           SetAccess(u) \/ AccessLapses(u) \/ ReconcileProvisioning(u) \/ RetryProvisioning(u)
    PROVE  Inv'
  <1>0. /\ UNCHANGED <<link, hold, fl, wire, remote, job, rn, disputed, churned, misled>> /\ snap' = snap
        /\ Change \/ used' = used
    BY DEF SetAccess, AccessLapses, ReconcileProvisioning, RetryProvisioning
  <1>1. CASE SetAccess(u)
    <2>1. wanted' = (wanted \ {u}) \cup ({u} \ wanted) BY <1>1 DEF SetAccess
    <2>2. CASE (st[u] = "on") # (u \in wanted')
      <3> DEFINE on == {u} \ wanted
                 off == {u} \cap wanted
      <3>a. on \in SUBSET Users /\ off \in SUBSET Users /\ on \cap off = {} /\ on \cup off = {u} OBVIOUS
      <3>1. Queue(on, off) BY <1>1, <2>2 DEF SetAccess
      <3> HIDE DEF on, off
      <3>2. /\ st' \in States /\ q' \in Queues /\ QueueKept
            /\ \A v \in Users : /\ v \in on => st'[v] = "on"
                                /\ v \notin {u} => st'[v] = st[v]
        BY <3>1, <3>a, QueueFacts, DirectoryTypes
      <3>3. Granted' BY <1>0, <2>1, <3>2, DirectoryTypes DEF Granted, on
      <3> QED BY <1>0, <2>1, <3>2, <3>3, QueuedStep, DirectoryTypes
    <2>3. CASE (st[u] = "on") = (u \in wanted')
      <3>1. UNCHANGED <<st, q>> BY <1>1, <2>3 DEF SetAccess
      <3>2. Granted' BY <1>0, <2>1, <2>3, <3>1, DirectoryTypes DEF Granted
      <3> QED BY <1>0, <2>1, <3>1, <3>2, SameQueue, QueuedStep, DirectoryTypes
    <2> QED BY <2>2, <2>3
  <1>2. CASE AccessLapses(u)
    <2>1. wanted' = wanted \ {u} /\ UNCHANGED <<st, q>> BY <1>2 DEF AccessLapses
    <2>2. Granted' BY <1>0, <2>1, DirectoryTypes DEF Granted
    <2> QED BY <1>0, <2>1, <2>2, SameQueue, QueuedStep, DirectoryTypes
  <1>3. CASE ReconcileProvisioning(u) \/ RetryProvisioning(u)
    <2> DEFINE on == {u} \cap wanted
               off == {u} \ wanted
    <2>a. on \in SUBSET Users /\ off \in SUBSET Users /\ on \cap off = {} /\ on \cup off = {u} OBVIOUS
    <2>1. wanted' = wanted /\ Queue(on, off) BY <1>3 DEF ReconcileProvisioning, RetryProvisioning
    <2> HIDE DEF on, off
    <2>2. /\ st' \in States /\ q' \in Queues /\ QueueKept
          /\ \A v \in Users : /\ v \in on => st'[v] = "on"
                              /\ v \notin {u} => st'[v] = st[v]
      BY <2>1, <2>a, QueueFacts, DirectoryTypes
    <2>3. Granted' BY <1>0, <2>1, <2>2, DirectoryTypes DEF Granted, on
    <2> QED BY <1>0, <2>1, <2>2, <2>3, QueuedStep, DirectoryTypes
  <1> QED BY <1>1, <1>2, <1>3

\* A backup is sealed.
LEMMA SnapshotStep ==
    ASSUME Inv, Snapshot
    PROVE  Inv'
  <1>1. /\ UNCHANGED <<wanted, st, q, link, hold, fl, wire, remote, job, rn, disputed, churned, misled>> /\ Change
        /\ snap' = [wanted |-> wanted, link |-> link, st |-> st, q |-> q]
    BY DEF Snapshot, Directory
  <1>2. snap' \in [wanted : SUBSET Users, link : Links, st : States, q : Queues]
    BY <1>1, DirectoryTypes
  <1>3. snap'.wanted = wanted /\ snap'.st = st BY <1>1
  <1>4. Granted' BY <1>1, <1>3, DirectoryTypes DEF Granted
  <1> QED BY <1>1, <1>2, <1>4, SameQueue, QueuedStep, DirectoryTypes

-----------------------------------------------------------------------------
(* Restore, and the runners.                                                *)

RnRows == [pc : {"idle", "listing", "listed", "compared"}, tok : 0..MaxClaims,
           kind : {"preview", "repair"}, total : Ids \cup {-1, 0},
           n : Ids \cup {0}, seen : [Ids -> Accounts], complete : BOOLEAN]

JobRows == [status : {"none", "queued", "running"}, kind : {"preview", "repair"},
            tok : 0..MaxClaims, att : 0..MaxAttempts]

\* A runner that waits has read nothing.
LEMMA WaitingFacts ==
    /\ Waiting \in RnRows /\ Waiting.pc = "idle" /\ Waiting.complete = FALSE
    /\ Waiting.seen \in [Ids -> Accounts] /\ Waiting.seen = [i \in Ids |-> Gone] /\ Waiting.n = 0 /\ Waiting.total = -1
    /\ \A i \in Ids : Waiting.seen[i] = Gone
    /\ Held(Waiting.seen) = {}
  <1>1. Gone \in Accounts /\ Gone.state = "gone" BY DEF Gone, Accounts
  <1>2. 0 \in 0..MaxClaims BY ReconcileAssumption
  <1>3. [i \in Ids |-> Gone] \in [Ids -> Accounts] BY <1>1
  <1>4. Waiting = [pc |-> "idle", tok |-> 0, kind |-> "preview", total |-> -1, n |-> 0,
                   seen |-> [i \in Ids |-> Gone], complete |-> FALSE]
    BY DEF Waiting
  <1>5. Waiting \in RnRows BY <1>2, <1>3, <1>4 DEF RnRows
  <1>6. Waiting.seen = [i \in Ids |-> Gone] BY <1>4
  <1>7. \A i \in Ids : Waiting.seen[i] = Gone BY <1>6
  <1>8. Held(Waiting.seen) = {} BY <1>1, <1>7 DEF Held
  <1> QED BY <1>3, <1>4, <1>5, <1>6, <1>7, <1>8

\* A restore leaves removals only, holds the connector and ends every delivery and listing.
LEMMA RestoreStep ==
    ASSUME Inv, Restore
    PROVE  Inv'
  <1>0. /\ snap.wanted \in SUBSET Users /\ snap.link \in Links /\ snap.st \in States /\ snap.q \in Queues
    BY DirectoryTypes
  <1>1. /\ wanted' = snap.wanted /\ link' = snap.link /\ st' = snap.st /\ hold' = "held" /\ disputed' = {} /\ churned' = {}
        /\ q' = [u \in Users |-> Surviving(snap.q[u])]
        /\ fl' = [u \in Users |-> Resting] /\ rn' = [r \in Runners |-> Waiting]
        /\ UNCHANGED <<snap, wire, remote, job, misled>> /\ wire = {} /\ Fault
    BY DEF Restore
  <1>2. ASSUME NEW u \in Users
        PROVE  q'[u] \in Seq(BOOLEAN) /\ \A k \in 1..Len(q'[u]) : q'[u][k] = FALSE
    <2>1. snap.q[u] \in Seq(BOOLEAN) BY <1>0 DEF Queues
    <2>2. q'[u] = Surviving(snap.q[u]) BY <1>1
    <2> QED BY <2>1, <2>2, SurvivingFacts
  <1>3. q' \in Queues
    <2>1. q' = [u \in Users |-> q'[u]] BY <1>1
    <2> QED BY <1>2, <2>1 DEF Queues
  <1>4. \A u \in Users : fl'[u] = Resting BY <1>1
  <1>5. \A r \in Runners : rn'[r] = Waiting BY <1>1
  <1>6. Typed'
    <2>1. fl' \in [Users -> FlRows] BY <1>1, RestFacts
    <2>2. rn' \in [Runners -> RnRows] BY <1>1, WaitingFacts
    <2>3. used' \in UsedRows BY <1>1, UsedType
    <2>4. TypeOK' BY <1>0, <1>1, <1>3, <2>1, <2>2, <2>3 DEF Inv, Typed, TypeOK, FlRows, RnRows, UsedRows
    <2>5. Fence' BY <1>4, RestFacts DEF Fence, Fenced
    <2> QED BY <2>4, <2>5 DEF Typed
  <1>7. Granted' BY <1>1, DirectoryTypes DEF Granted
  <1>8. Events'
    <2> SUFFICES ASSUME NEW u \in Users, q'[u] # <<>> PROVE ~q'[u][Len(q'[u])] BY DEF Events
    <2>1. Len(q'[u]) \in 1..Len(q'[u]) BY <1>2
    <2> QED BY <1>2, <2>1
  <1>9. Seen' BY <1>5, WaitingFacts DEF Seen
  <1>10. Single' /\ Posts' BY <1>1 DEF Inv, Single, Posts, Of, Held
  <1>11. Stopped' BY <1>1, <1>5, WaitingFacts DEF Stopped, Of
  <1>12. Known' BY <1>1, <1>5, WaitingFacts DEF Known, Compared
  <1>13. Flights' BY <1>4, RestFacts DEF Flights, Flight
  <1> QED BY <1>6, <1>7, <1>8, <1>9, <1>10, <1>11, <1>12, <1>13 DEF Inv

\* The step of a runner that changes nothing else but the job.
LEMMA RunnerStep ==
    ASSUME Inv, NEW r \in Runners, NEW g \in RnRows, rn' = [rn EXCEPT ![r] = g],
           UNCHANGED <<wanted, link, st, q, hold, snap, fl, wire, remote, disputed, misled>>,
           churned' \subseteq Runners, \A s \in Runners \ {r} : s \in churned' <=> s \in churned,
           job' \in JobRows, used' \in UsedRows,
           g.pc # "compared",
           \A i \in Ids : g.seen[i] # Gone =>
              /\ i \in Held(g.seen)
              /\ r \notin churned' => i \in Held(remote) /\ remote[i].ext = g.seen[i].ext,
           g.pc = "listing" => Cardinality(Held(g.seen)) = g.n,
           hold = "held" => /\ \A u \in Users : \A i \in Of(u, g.seen) \cap Of(u, remote) :
                                  g.seen[i].state = "inactive" => remote[i].state = "inactive"
                            /\ r \notin churned' /\ g.pc = "listed" /\ g.complete =>
                                  \A u \in Users : Of(u, remote) \subseteq Held(g.seen)
    PROVE  Inv'
  <1>0. rn \in [Runners -> RnRows] BY DEF Inv, Typed, TypeOK, RnRows
  <1>1. \A s \in Runners : rn'[s] = IF s = r THEN g ELSE rn[s] BY <1>0
  <1>2. Typed'
    <2>1. rn' \in [Runners -> RnRows] BY <1>0
    <2>2. TypeOK' BY <2>1 DEF Inv, Typed, TypeOK, RnRows, JobRows, UsedRows
    <2>3. Fence' BY DEF Inv, Typed, Fence, Fenced
    <2> QED BY <2>2, <2>3 DEF Typed
  <1>3. Granted' /\ Events' BY DEF Inv, Granted, Events
  <1>4. Single' /\ Posts' BY DEF Inv, Single, Posts, Of, Held
  <1>5. Seen'
    <2> SUFFICES ASSUME NEW s \in Runners
                 PROVE  /\ \A i \in Ids : rn'[s].seen[i] # Gone =>
                             /\ i \in Held(rn'[s].seen)
                             /\ s \notin churned' =>
                                   i \in Held(remote) /\ remote[i].ext = rn'[s].seen[i].ext
                        /\ rn'[s].pc = "listing" => Cardinality(Held(rn'[s].seen)) = rn'[s].n
      BY DEF Seen
    <2>1. CASE s = r
      <3>1. rn'[s] = g BY <1>1, <2>1
      <3> QED BY <2>1, <3>1
    <2>2. CASE s # r
      <3>1. rn'[s] = rn[s] BY <1>1, <2>2
      <3> QED BY <2>2, <3>1 DEF Inv, Seen
    <2> QED BY <2>1, <2>2
  <1>6. Stopped'
    <2> SUFFICES ASSUME hold = "held"
                 PROVE  /\ wire = {}
                        /\ \A s \in Runners : \A u \in Users :
                              \A i \in Of(u, rn'[s].seen) \cap Of(u, remote) :
                                 rn'[s].seen[i].state = "inactive" => remote[i].state = "inactive"
                        /\ \A s \in Runners \ churned' : rn'[s].pc = "listed" /\ rn'[s].complete =>
                              \A u \in Users : Of(u, remote) \subseteq Held(rn'[s].seen)
      BY DEF Stopped
    <2>1. wire = {} BY DEF Inv, Stopped
    <2>2. ASSUME NEW s \in Runners
          PROVE  /\ \A u \in Users : \A i \in Of(u, rn'[s].seen) \cap Of(u, remote) :
                       rn'[s].seen[i].state = "inactive" => remote[i].state = "inactive"
                 /\ s \notin churned' /\ rn'[s].pc = "listed" /\ rn'[s].complete =>
                       \A u \in Users : Of(u, remote) \subseteq Held(rn'[s].seen)
      <3>1. CASE s = r
        <4>1. rn'[s] = g BY <1>1, <3>1
        <4> QED BY <3>1, <4>1
      <3>2. CASE s # r
        <4>1. rn'[s] = rn[s] BY <1>1, <3>2
        <4> QED BY <3>2, <4>1 DEF Inv, Stopped
      <3> QED BY <3>1, <3>2
    <2> QED BY <2>1, <2>2
  <1>7. Known'
    <2>1. Compared' => Compared BY <1>1 DEF Compared, Evidence
    <2>2. \A v \in Users : NotActive(v)' = NotActive(v) BY DEF NotActive, Of, Held
    <2>3. \A v \in Users \ (disputed \cup misled) :
             Compared => /\ link[v] \in Ids => Of(v, remote) \subseteq {link[v]}
                         /\ st[v] = "off" /\ q[v] = <<>> => NotActive(v)
      BY DEF Inv, Known
    <2> QED BY <2>1, <2>2, <2>3 DEF Known
  <1>8. Flights'
    <2>1. ASSUME NEW v \in Users PROVE Flight(v, fl[v], link[v])'
      <3>1. Flight(v, fl'[v], link'[v]) BY DEF Inv, Flights
      <3> QED BY <3>1, FlightSame
    <2> QED BY <2>1 DEF Flights
  <1> QED BY <1>2, <1>3, <1>4, <1>5, <1>6, <1>7, <1>8 DEF Inv

\* What a runner has read.
LEMMA ReadFacts ==
    ASSUME Inv, NEW r \in Runners
    PROVE  /\ rn \in [Runners -> RnRows] /\ rn[r] \in RnRows /\ rn[r].seen \in [Ids -> Accounts]
           /\ \A i \in Ids : rn[r].seen[i] # Gone =>
                 /\ i \in Held(rn[r].seen)
                 /\ r \notin churned => i \in Held(remote) /\ remote[i].ext = rn[r].seen[i].ext
           /\ rn[r].pc = "listing" => Cardinality(Held(rn[r].seen)) = rn[r].n
           /\ hold = "held" => \A u \in Users : \A i \in Of(u, rn[r].seen) \cap Of(u, remote) :
                                  rn[r].seen[i].state = "inactive" => remote[i].state = "inactive"
           /\ job \in JobRows /\ used \in UsedRows /\ churned \subseteq Runners
  <1>1. rn \in [Runners -> RnRows] /\ job \in JobRows /\ used \in UsedRows /\ churned \subseteq Runners
    BY DEF Inv, Typed, TypeOK, RnRows, JobRows, UsedRows
  <1>2. rn[r] \in RnRows /\ rn[r].seen \in [Ids -> Accounts] BY <1>1 DEF RnRows
  <1>3. /\ \A i \in Ids : rn[r].seen[i] # Gone =>
              /\ i \in Held(rn[r].seen)
              /\ r \notin churned => i \in Held(remote) /\ remote[i].ext = rn[r].seen[i].ext
        /\ rn[r].pc = "listing" => Cardinality(Held(rn[r].seen)) = rn[r].n
    BY DEF Inv, Seen
  <1>4. hold = "held" => \A u \in Users : \A i \in Of(u, rn[r].seen) \cap Of(u, remote) :
                            rn[r].seen[i].state = "inactive" => remote[i].state = "inactive"
    BY DEF Inv, Stopped
  <1> QED BY <1>1, <1>2, <1>3, <1>4

\* A runner that stops, finishes or begins has read nothing.
LEMMA FreshRunner ==
    ASSUME Inv, NEW r \in Runners, NEW g \in RnRows, rn' = [rn EXCEPT ![r] = g],
           UNCHANGED <<wanted, link, st, q, hold, snap, fl, wire, remote, disputed, misled>>,
           churned' \subseteq Runners, \A s \in Runners \ {r} : s \in churned' <=> s \in churned,
           job' \in JobRows, used' \in UsedRows,
           g.pc \in {"idle", "listing"}, g.seen = Waiting.seen, g.n = 0
    PROVE  Inv'
  <1>1. Held(g.seen) = {} /\ \A i \in Ids : g.seen[i] = Gone BY WaitingFacts
  <1>2. Cardinality(Held(g.seen)) = 0 BY <1>1, FS_EmptySet
  <1>3. \A u \in Users : Of(u, g.seen) = {} BY <1>1 DEF Of
  <1> QED BY <1>1, <1>2, <1>3, RunnerStep

\* A job is claimed.
LEMMA ClaimStep ==
    ASSUME Inv, NEW r \in Runners, ClaimReconcileJob(r)
    PROVE  Inv'
  <1>0. job \in JobRows /\ used \in UsedRows /\ rn \in [Runners -> RnRows] BY ReadFacts
  <1>1. MaxClaims \in Nat /\ MaxAttempts \in Nat BY ReconcileAssumption
  <1>2. /\ UNCHANGED <<wanted, link, st, q, hold, snap, fl, wire, remote, disputed, churned, misled>>
        /\ job.att < MaxAttempts /\ used.claims < MaxClaims
        /\ used' = [used EXCEPT !.claims = @ + 1]
        /\ job' = [job EXCEPT !.status = "running", !.tok = used.claims + 1, !.att = @ + 1]
    BY DEF ClaimReconcileJob
  <1>3. used.claims + 1 \in 0..MaxClaims /\ job.att + 1 \in 0..MaxAttempts
    BY <1>0, <1>1, <1>2 DEF UsedRows, JobRows
  <1>4. used' \in UsedRows BY <1>0, <1>2, <1>3 DEF UsedRows
  <1>5. job' \in JobRows BY <1>0, <1>2, <1>3 DEF JobRows
  <1>6. PICK t \in 0..MaxClaims : t = used.claims + 1 BY <1>3
  <1>7. PICK k \in {"preview", "repair"} : k = job.kind BY <1>0 DEF JobRows
  <1> DEFINE g == [Waiting EXCEPT !.pc = "listing", !.tok = t, !.kind = k]
  <1>8. rn' = [rn EXCEPT ![r] = g] BY <1>6, <1>7 DEF ClaimReconcileJob
  <1>9. /\ g \in RnRows /\ g.pc = "listing" /\ g.seen = Waiting.seen /\ g.n = 0
    BY WaitingFacts DEF RnRows
  <1> HIDE DEF g
  <1> QED BY <1>2, <1>4, <1>5, <1>8, <1>9, FreshRunner, ReadFacts

\* A runner dies.
LEMMA DieStep ==
    ASSUME Inv, NEW r \in Runners, RunnerDies(r)
    PROVE  Inv'
  <1>1. /\ UNCHANGED <<wanted, link, st, q, hold, snap, fl, wire, remote, disputed, misled, job>>
        /\ churned' = churned \ {r} /\ Fault /\ rn' = [rn EXCEPT ![r] = Waiting]
    BY DEF RunnerDies
  <1>2. used' \in UsedRows BY <1>1, UsedType
  <1>3. job' \in JobRows BY <1>1, ReadFacts
  <1>4. churned' \subseteq Runners /\ \A s \in Runners \ {r} : s \in churned' <=> s \in churned
    BY <1>1, ReadFacts
  <1> QED BY <1>1, <1>2, <1>3, <1>4, WaitingFacts, FreshRunner

\* A listing ends with accounts it has read, all of them if it is complete.
LEMMA EndStep ==
    ASSUME Inv, NEW r \in Runners, NEW c \in BOOLEAN, NEW s \in [Ids -> Accounts], ListEnds(r, c, s),
           UNCHANGED <<wanted, link, st, q, hold, snap, fl, wire, remote, disputed, churned, misled, job>>,
           used' \in UsedRows,
           \A i \in Ids : s[i] # Gone =>
              i \in Held(s) /\ (r \notin churned => i \in Held(remote) /\ remote[i].ext = s[i].ext),
           hold = "held" => \A u \in Users : \A i \in Of(u, s) \cap Of(u, remote) :
                               s[i].state = "inactive" => remote[i].state = "inactive",
           r \notin churned /\ c => \A u \in Users : Of(u, remote) \subseteq Held(s)
    PROVE  Inv'
  <1>0. rn[r] \in RnRows /\ job' \in JobRows /\ churned \subseteq Runners BY ReadFacts
  <1> DEFINE g == [pc |-> "listed", tok |-> rn[r].tok, kind |-> rn[r].kind, total |-> -1, n |-> 0,
                   seen |-> s, complete |-> c]
  <1>1. g \in RnRows BY <1>0 DEF RnRows
  <1>2. rn' = [rn EXCEPT ![r] = g] BY DEF ListEnds
  <1>3. g.pc = "listed" /\ g.complete = c /\ g.seen = s OBVIOUS
  <1> HIDE DEF g
  <1> QED BY <1>0, <1>1, <1>2, <1>3, RunnerStep

\* It ends as incomplete with what it had.
LEMMA CutStep ==
    ASSUME Inv, NEW r \in Runners, ListEnds(r, FALSE, rn[r].seen),
           UNCHANGED <<wanted, link, st, q, hold, snap, fl, wire, remote, disputed, churned, misled, job>>,
           used' \in UsedRows
    PROVE  Inv'
  <1>1. PICK c \in BOOLEAN : c = FALSE OBVIOUS
  <1>2. PICK s \in [Ids -> Accounts] : s = rn[r].seen BY ReadFacts
  <1>3. ListEnds(r, c, s) BY <1>1, <1>2 DEF ListEnds
  <1>4. /\ \A i \in Ids : s[i] # Gone =>
              i \in Held(s) /\ (r \notin churned => i \in Held(remote) /\ remote[i].ext = s[i].ext)
        /\ hold = "held" => \A u \in Users : \A i \in Of(u, s) \cap Of(u, remote) :
                               s[i].state = "inactive" => remote[i].state = "inactive"
    BY <1>2, ReadFacts
  <1> QED BY <1>1, <1>3, <1>4, EndStep

\* A listing fails and ends as incomplete.
LEMMA ListFailsStep ==
    ASSUME Inv, NEW r \in Runners, ListFails(r)
    PROVE  Inv'
  <1>1. /\ UNCHANGED <<wanted, link, st, q, hold, snap, fl, wire, remote, disputed, churned, misled, job>> /\ Fault
        /\ ListEnds(r, FALSE, rn[r].seen)
    BY DEF ListFails
  <1>2. used' \in UsedRows BY <1>1, UsedType
  <1> QED BY <1>1, <1>2, CutStep

\* A page adds an account that was not read before; the last one completes the collection.
LEMMA PageFacts ==
    ASSUME Inv, NEW r \in Runners, rn[r].pc = "listing", NEW i \in OnPage(rn[r].n), rn[r].seen[i] = Gone
    PROVE  /\ Read(r, i) \in [Ids -> Accounts]
           /\ Cardinality(Held(Read(r, i))) = rn[r].n + 1
           /\ rn[r].n + 1 \in Ids /\ rn[r].n + 1 <= Total
           /\ r \notin churned /\ rn[r].n + 1 = Total => Held(Read(r, i)) = Held(remote)
           /\ \A j \in Ids : Read(r, i)[j] # Gone =>
                 /\ j \in Held(Read(r, i))
                 /\ r \notin churned => j \in Held(remote) /\ remote[j].ext = Read(r, i)[j].ext
           /\ hold = "held" => \A u \in Users : \A j \in Of(u, Read(r, i)) \cap Of(u, remote) :
                 Read(r, i)[j].state = "inactive" => remote[j].state = "inactive"
  <1>0. rn[r].n \in Nat
    <2>1. rn[r] \in RnRows BY ReadFacts
    <2> QED BY <2>1 DEF RnRows, Ids
  <1>1. i \in Held(remote) /\ rn[r].n + 1 <= Total /\ rn[r].n + 1 \in Ids BY <1>0, PageBound
  <1>2. i \in Ids /\ remote[i].state # "gone" BY <1>1 DEF Held
  <1>3. PICK t \in [Ids -> Accounts] : t = rn[r].seen BY ReadFacts
  <1>a. PICK s : s = Read(r, i) OBVIOUS
  <1>4. \A j \in Ids : s[j] = IF j = i THEN remote[i] ELSE t[j] BY <1>3, <1>a DEF Read
  <1>5. s \in [Ids -> Accounts]
    <2>1. remote[i] \in Accounts BY <1>2, TargetFacts
    <2> QED BY <1>3, <1>a, <2>1 DEF Read
  <1>6. Gone.state = "gone" BY DEF Gone
  <1>7. i \notin Held(t) BY <1>3, <1>6 DEF Held
  <1>8. Held(s) = Held(t) \cup {i} BY <1>2, <1>4 DEF Held
  <1>9. \A j \in Ids : t[j] # Gone =>
           j \in Held(t) /\ (r \notin churned => j \in Held(remote) /\ remote[j].ext = t[j].ext)
    BY <1>3, ReadFacts
  <1>10. r \notin churned => Held(t) \subseteq Held(remote) BY <1>3, TargetFacts
  <1>11. r \notin churned => Held(s) \subseteq Held(remote) BY <1>1, <1>8, <1>10
  <1>12. Cardinality(Held(t)) = rn[r].n /\ IsFiniteSet(Held(t)) BY <1>3, ReadFacts, HeldFinite
  <1>13. Cardinality(Held(s)) = rn[r].n + 1 BY <1>7, <1>8, <1>12, FS_AddElement
  <1>14. r \notin churned /\ rn[r].n + 1 = Total => Held(s) = Held(remote)
    BY <1>11, <1>13, HeldFinite DEF Total
  <1>15. \A j \in Ids : s[j] # Gone =>
            j \in Held(s) /\ (r \notin churned => j \in Held(remote) /\ remote[j].ext = s[j].ext)
    BY <1>1, <1>4, <1>8, <1>9
  <1>16. hold = "held" => \A u \in Users : \A j \in Of(u, s) \cap Of(u, remote) :
                             s[j].state = "inactive" => remote[j].state = "inactive"
    <2> SUFFICES ASSUME hold = "held", NEW u \in Users, NEW j \in Of(u, s) \cap Of(u, remote),
                        s[j].state = "inactive"
                 PROVE  remote[j].state = "inactive"
      OBVIOUS
    <2>0. j \in Ids /\ j \in Held(s) /\ s[j].ext = u BY DEF Of, Held
    <2>1. CASE j = i BY <1>4, <2>0, <2>1
    <2>2. CASE j # i
      <3>1. j \in Of(u, t) /\ s[j] = t[j] BY <1>4, <1>8, <2>0, <2>2 DEF Of
      <3> QED BY <1>3, <3>1, ReadFacts
    <2> QED BY <2>1, <2>2
  <1> QED BY <1>1, <1>a, <1>5, <1>13, <1>14, <1>15, <1>16

\* A page is read.
LEMMA ListPageStep ==
    ASSUME Inv, NEW r \in Runners, ListPage(r)
    PROVE  Inv'
  <1>0. rn \in [Runners -> RnRows] /\ rn[r] \in RnRows BY ReadFacts
  <1>1. /\ UNCHANGED <<wanted, link, st, q, hold, snap, fl, wire, remote, disputed, churned, misled, job, used>>
        /\ rn[r].pc = "listing"
    BY DEF ListPage
  <1>2. job' \in JobRows /\ used' \in UsedRows BY <1>1, ReadFacts
  <1>3. CASE ListEnds(r, FALSE, rn[r].seen) BY <1>1, <1>2, <1>3, CutStep
  <1>c. PICK c \in BOOLEAN : c = TRUE OBVIOUS
  <1>4. CASE Total = 0 /\ ListEnds(r, TRUE, rn[r].seen)
    <2>1. PICK s \in [Ids -> Accounts] : s = rn[r].seen BY ReadFacts
    <2>2. ListEnds(r, c, s) BY <1>4, <1>c, <2>1 DEF ListEnds
    <2>3. /\ \A i \in Ids : s[i] # Gone =>
                i \in Held(s) /\ (r \notin churned => i \in Held(remote) /\ remote[i].ext = s[i].ext)
          /\ hold = "held" => \A u \in Users : \A i \in Of(u, s) \cap Of(u, remote) :
                                 s[i].state = "inactive" => remote[i].state = "inactive"
      BY <2>1, ReadFacts
    <2>4. Held(remote) = {} BY <1>4, HeldFinite, FS_EmptySet DEF Total
    <2>5. \A u \in Users : Of(u, remote) \subseteq Held(s) BY <2>4 DEF Of
    <2> QED BY <1>1, <1>2, <2>2, <2>3, <2>5, EndStep
  <1>5. ASSUME NEW i \in OnPage(rn[r].n), rn[r].seen[i] = Gone,
               \/ rn[r].n + 1 = Total /\ ListEnds(r, TRUE, Read(r, i))
               \/ ListContinues(r, Read(r, i))
        PROVE  Inv'
    <2>0. PICK s : s = Read(r, i) OBVIOUS
    <2>1. /\ s \in [Ids -> Accounts]
          /\ Cardinality(Held(s)) = rn[r].n + 1 /\ rn[r].n + 1 \in Ids /\ rn[r].n + 1 <= Total
          /\ r \notin churned /\ rn[r].n + 1 = Total => Held(s) = Held(remote)
          /\ \A j \in Ids : s[j] # Gone =>
                j \in Held(s) /\ (r \notin churned => j \in Held(remote) /\ remote[j].ext = s[j].ext)
          /\ hold = "held" => \A u \in Users : \A j \in Of(u, s) \cap Of(u, remote) :
                                 s[j].state = "inactive" => remote[j].state = "inactive"
      BY <1>1, <1>5, <2>0, PageFacts
    <2>2. CASE rn[r].n + 1 = Total /\ ListEnds(r, TRUE, Read(r, i))
      <3>1. ListEnds(r, c, s) BY <1>c, <2>0, <2>2 DEF ListEnds
      <3>2. r \notin churned => \A u \in Users : Of(u, remote) \subseteq Held(s) BY <2>1, <2>2 DEF Of
      <3> QED BY <1>1, <1>2, <2>1, <3>1, <3>2, EndStep
    <2>3. CASE ListContinues(r, Read(r, i))
      <3>1. PICK old \in RnRows : old = rn[r] BY <1>0
      <3>2. PICK k \in Ids : k = rn[r].n + 1 BY <2>1
      <3>3. PICK m \in Ids \cup {-1, 0} : m = Total
        <4>1. Total \in 0..IdCount /\ IdCount \in Nat BY HeldFinite, ReconcileAssumption DEF Total
        <4> QED BY <4>1 DEF Ids
      <3>4. PICK a : a = [old EXCEPT !.total = m] OBVIOUS
      <3>5. a \in RnRows /\ a.pc = old.pc BY <3>4 DEF RnRows
      <3>6. PICK b : b = [a EXCEPT !.n = k] OBVIOUS
      <3>7. b \in RnRows /\ b.pc = old.pc /\ b.n = k BY <3>5, <3>6 DEF RnRows
      <3>8. PICK g : g = [b EXCEPT !.seen = s] OBVIOUS
      <3>9. g \in RnRows /\ g.pc = "listing" /\ g.n = k /\ g.seen = s
        BY <1>1, <2>1, <3>1, <3>7, <3>8 DEF RnRows
      <3>10. rn' = [rn EXCEPT ![r] = [[[old EXCEPT !.total = m] EXCEPT !.n = k] EXCEPT !.seen = s]]
        BY <2>0, <2>3, <3>1, <3>2, <3>3 DEF ListContinues
      <3>11. rn' = [rn EXCEPT ![r] = g] BY <3>4, <3>6, <3>8, <3>10, Zenon
      <3>12. Cardinality(Held(g.seen)) = g.n BY <2>1, <3>2, <3>9
      <3>13. churned \subseteq Runners BY ReadFacts
      <3> QED BY <1>1, <1>2, <2>1, <3>9, <3>11, <3>12, <3>13, RunnerStep
    <2> QED BY <1>5, <2>2, <2>3
  <1>6. \/ ListEnds(r, FALSE, rn[r].seen)
        \/ Total = 0 /\ ListEnds(r, TRUE, rn[r].seen)
        \/ \E i \in OnPage(rn[r].n) :
              /\ rn[r].seen[i] = Gone
              /\ \/ rn[r].n + 1 = Total /\ ListEnds(r, TRUE, Read(r, i))
                 \/ ListContinues(r, Read(r, i))
    BY DEF ListPage
  <1> QED BY <1>3, <1>4, <1>5, <1>6

-----------------------------------------------------------------------------
(* The comparison.                                                          *)

\* A comparison that does not mislead about an account.
Trusted(r, u) == u \notin misled /\ (r \in churned => u \notin Mistaken(rn[r]))

\* What such a listing shows of a person is at the target.
LEMMA SeenOf ==
    ASSUME Inv, NEW r \in Runners, NEW u \in Users, Trusted(r, u)
    PROVE  Of(u, rn[r].seen) \subseteq Of(u, remote)
  <1> SUFFICES ASSUME r \notin churned, NEW i \in Of(u, rn[r].seen) PROVE i \in Of(u, remote)
    BY DEF Trusted, Mistaken
  <1>1. i \in Held(rn[r].seen) /\ rn[r].seen[i].ext = u /\ i \in Ids BY DEF Of, Held
  <1>2. rn[r].seen[i] # Gone BY <1>1, TargetFacts
  <1>3. i \in Held(remote) /\ remote[i].ext = u BY <1>1, <1>2, ReadFacts
  <1> QED BY <1>3 DEF Of

\* An account is mapped to the only one there is.
LEMMA MappedFacts ==
    ASSUME Inv, NEW r \in Runners, NEW u \in Users, Trusted(r, u)
    PROVE  \/ Mapped(rn[r], u) = {}
           \/ \E i \in Ids : /\ Mapped(rn[r], u) = {i} /\ Of(u, rn[r].seen) = {i} /\ Of(u, remote) = {i}
                             /\ Relinked(rn[r], u) = i /\ Managed(u)
  <1> SUFFICES ASSUME NEW i \in Mapped(rn[r], u)
               PROVE  /\ i \in Ids /\ Mapped(rn[r], u) = {i} /\ Of(u, rn[r].seen) = {i}
                      /\ Of(u, remote) = {i} /\ Relinked(rn[r], u) = i /\ Managed(u)
    OBVIOUS
  <1>1. i \in Of(u, rn[r].seen) /\ Managed(u) /\ Mapped(rn[r], u) \subseteq Of(u, rn[r].seen)
    BY DEF Mapped, Linkable
  <1>2. i \in Of(u, remote) BY <1>1, SeenOf
  <1>3. Of(u, remote) = {i} BY <1>2 DEF Inv, Single, Trusted
  <1>4. Of(u, rn[r].seen) = {i} BY <1>1, <1>3, SeenOf
  <1>5. Mapped(rn[r], u) = {i} BY <1>1, <1>4
  <1>6. (CHOOSE j \in {i} : TRUE) = i OBVIOUS
  <1>7. Relinked(rn[r], u) = i BY <1>5, <1>6 DEF Relinked
  <1>8. i \in Ids BY <1>2 DEF Of, Held
  <1> QED BY <1>1, <1>3, <1>4, <1>5, <1>7, <1>8

\* A marker is never made, and lost only to the account it made.
Kept(u, l) ==
    /\ link[u] = Started /\ Of(u, remote) = {} => l = Started
    /\ link[u] # Started => l # Started
    /\ l \in Ids => l = link[u] \/ Of(u, remote) \subseteq {l}

\* What a repair leaves as the mapping keeps the markers.
LEMMA RelinkedFacts ==
    ASSUME Inv, NEW r \in Runners, NEW u \in Users
    PROVE  /\ Relinked(rn[r], u) \in Ids \cup {Unlinked, Started}
           /\ Trusted(r, u) => Kept(u, Relinked(rn[r], u))
  <1>0. link[u] \in Ids \cup {Unlinked, Started} BY DirectoryTypes DEF Links
  <1>1. CASE Mapped(rn[r], u) = {}
    <2>1. \/ Relinked(rn[r], u) = link[u]
          \/ Relinked(rn[r], u) = Unlinked /\ link[u] \in Ids
      BY <1>1 DEF Relinked, Dead
    <2> QED BY <1>0, <2>1, SmallFacts DEF Kept
  <1>2. CASE Mapped(rn[r], u) # {}
    <2>1. PICK i : i \in Mapped(rn[r], u) /\ i = Relinked(rn[r], u) BY <1>2 DEF Relinked
    <2>2. i \in Ids BY <2>1 DEF Mapped, Linkable, Of, Held
    <2>3. Trusted(r, u) => Of(u, remote) = {Relinked(rn[r], u)} BY <1>2, MappedFacts
    <2> QED BY <2>1, <2>2, <2>3, SmallFacts DEF Kept
  <1> QED BY <1>1, <1>2

\* A complete listing of a held target shows every account, so what it leaves alone is as the
\* directory has it.
LEMMA EvidenceFacts ==
    ASSUME Inv, NEW r \in Runners, hold = "held", rn[r].pc = "listed", rn[r].complete,
           NEW u \in Users, u \notin MappingConflicts(rn[r]), Trusted(r, u)
    PROVE  /\ Relinked(rn[r], u) \in Ids => Of(u, remote) \subseteq {Relinked(rn[r], u)}
           /\ st[u] = "off" /\ u \notin Orphaned(rn[r]) => NotActive(u)
  <1>1. wire = {} /\ (r \notin churned => Of(u, remote) \subseteq Held(rn[r].seen)) BY DEF Inv, Stopped
  <1>2. Of(u, remote) \subseteq Of(u, rn[r].seen)
    <2> SUFFICES ASSUME r \notin churned, NEW i \in Of(u, remote) PROVE i \in Of(u, rn[r].seen)
      BY DEF Trusted, Mistaken
    <2>1. i \in Ids /\ remote[i].ext = u /\ i \in Held(rn[r].seen) BY <1>1 DEF Of, Held
    <2>2. rn[r].seen[i].ext = u BY <2>1, TargetFacts, ReadFacts
    <2> QED BY <2>1, <2>2 DEF Of
  <1>3. Managed(u) => Of(u, remote) \subseteq Mapped(rn[r], u) BY <1>2 DEF MappingConflicts
  <1>4. Relinked(rn[r], u) \in Ids => Of(u, remote) \subseteq {Relinked(rn[r], u)}
    <2>1. CASE Mapped(rn[r], u) # {}
      <3>1. PICK i \in Ids : Of(u, remote) = {i} /\ Relinked(rn[r], u) = i BY <2>1, MappedFacts
      <3> QED BY <3>1
    <2>2. CASE Mapped(rn[r], u) = {} /\ Managed(u) BY <1>3, <2>2
    <2>3. CASE Mapped(rn[r], u) = {} /\ ~Managed(u)
      <3>1. link[u] = Unlinked BY <2>3 DEF Managed
      <3>2. Relinked(rn[r], u) = Unlinked BY <2>3, <3>1 DEF Relinked
      <3> QED BY <3>2, SmallFacts
    <2> QED BY <2>1, <2>2, <2>3
  <1>5. ASSUME st[u] = "off", u \notin Orphaned(rn[r]), NEW i \in Of(u, remote)
        PROVE  remote[i].state = "inactive"
    <2>1. u \notin wanted /\ Managed(u) BY <1>5, DirectoryTypes DEF Managed
    <2>2. i \in Mapped(rn[r], u) BY <1>3, <2>1
    <2>3. rn[r].seen[i].state = "inactive" BY <1>5, <2>1, <2>2 DEF Orphaned
    <2> QED BY <1>2, <1>5, <2>3 DEF Inv, Stopped
  <1> QED BY <1>1, <1>4, <1>5 DEF NotActive

\* A comparison that keeps the markers, queues what it finds and, on a complete listing of a
\* held target, leaves only accounts that are as the directory has them.
LEMMA ComparedStep ==
    ASSUME Inv, NEW r \in Runners, rn[r].pc = "listed", NEW g \in RnRows, rn' = [rn EXCEPT ![r] = g],
           g.pc = "compared", g.seen = Waiting.seen, g.kind = rn[r].kind, g.complete = rn[r].complete,
           link' \in Links, st' \in States, q' \in Queues, QueueKept, Granted',
           disputed \subseteq disputed', disputed' \subseteq Users,
           misled \subseteq misled', misled' \subseteq Users, churned' = churned \ {r},
           UNCHANGED <<wanted, hold, snap, fl, wire, remote, job, used>>,
           \A u \in Users \ misled' : Kept(u, link'[u]),
           hold = "held" /\ Evidence(r) => \A u \in Users \ (disputed' \cup misled') :
              /\ link'[u] \in Ids => Of(u, remote) \subseteq {link'[u]}
              /\ st'[u] = "off" /\ q'[u] = <<>> => NotActive(u)
    PROVE  Inv'
  <1>0. rn \in [Runners -> RnRows] BY ReadFacts
  <1>1. \A s \in Runners : rn'[s] = IF s = r THEN g ELSE rn[s] BY <1>0
  <1>2. Typed'
    <2>1. rn' \in [Runners -> RnRows] BY <1>0
    <2>2. TypeOK' BY <2>1 DEF Inv, Typed, TypeOK, RnRows
    <2>3. Fence' BY DEF QueueKept, Fence, Fenced
    <2> QED BY <2>2, <2>3 DEF Typed
  <1>3. Events' BY DEF QueueKept, Events
  <1>4. Single' BY DEF Inv, Single, Of, Held
  <1>5. Posts'
    <2>1. \A u \in wire \ misled : u \in Users /\ Of(u, remote) = {} /\ link[u] = Started
      BY DEF Inv, Posts, Typed, TypeOK
    <2> QED BY <2>1 DEF Posts, Kept
  <1>6. Held(g.seen) = {} /\ \A i \in Ids : g.seen[i] = Gone BY WaitingFacts
  <1>b. \A u \in Users : Of(u, g.seen) = {} BY <1>6 DEF Of
  <1>c. churned' \subseteq churned /\ \A s \in Runners : s # r => (s \in churned' <=> s \in churned) OBVIOUS
  <1>7. Seen'
    <2> SUFFICES ASSUME NEW s \in Runners
                 PROVE  /\ \A i \in Ids : rn'[s].seen[i] # Gone =>
                             /\ i \in Held(rn'[s].seen)
                             /\ s \notin churned' =>
                                   i \in Held(remote) /\ remote[i].ext = rn'[s].seen[i].ext
                        /\ rn'[s].pc = "listing" => Cardinality(Held(rn'[s].seen)) = rn'[s].n
      BY DEF Seen
    <2>1. CASE s = r
      <3>1. rn'[s] = g BY <1>1, <2>1
      <3> QED BY <1>6, <3>1
    <2>2. CASE s # r
      <3>1. rn'[s] = rn[s] BY <1>1, <2>2
      <3> QED BY <1>c, <2>2, <3>1, ReadFacts
    <2> QED BY <2>1, <2>2
  <1>8. Stopped'
    <2> SUFFICES ASSUME hold = "held"
                 PROVE  /\ wire = {}
                        /\ \A s \in Runners : \A u \in Users :
                              \A i \in Of(u, rn'[s].seen) \cap Of(u, remote) :
                                 rn'[s].seen[i].state = "inactive" => remote[i].state = "inactive"
                        /\ \A s \in Runners \ churned' : rn'[s].pc = "listed" /\ rn'[s].complete =>
                              \A u \in Users : Of(u, remote) \subseteq Held(rn'[s].seen)
      BY DEF Stopped
    <2>1. wire = {} BY DEF Inv, Stopped
    <2>2. ASSUME NEW s \in Runners
          PROVE  /\ \A u \in Users : \A i \in Of(u, rn'[s].seen) \cap Of(u, remote) :
                       rn'[s].seen[i].state = "inactive" => remote[i].state = "inactive"
                 /\ s \notin churned' /\ rn'[s].pc = "listed" /\ rn'[s].complete =>
                       \A u \in Users : Of(u, remote) \subseteq Held(rn'[s].seen)
      <3>1. CASE s = r
        <4>1. rn'[s] = g BY <1>1, <3>1
        <4> QED BY <1>6, <1>b, <1>c, <3>1, <4>1
      <3>2. CASE s # r
        <4>1. rn'[s] = rn[s] BY <1>1, <3>2
        <4> QED BY <1>c, <3>2, <4>1 DEF Inv, Stopped
      <3> QED BY <3>1, <3>2
    <2> QED BY <2>1, <2>2
  <1>9. \A v \in Users : NotActive(v)' = NotActive(v) BY DEF NotActive, Of, Held
  <1>10. Known'
    <2>1. Compared' => Compared \/ (hold = "held" /\ Evidence(r))
      BY <1>1 DEF Compared, Evidence
    <2>2. ASSUME Compared, NEW u \in Users \ (disputed' \cup misled')
          PROVE  /\ link'[u] \in Ids => Of(u, remote) \subseteq {link'[u]}
                 /\ st'[u] = "off" /\ q'[u] = <<>> => NotActive(u)
      <3>1. /\ link[u] \in Ids => Of(u, remote) \subseteq {link[u]}
            /\ st[u] = "off" /\ q[u] = <<>> => NotActive(u)
        BY <2>2 DEF Inv, Known
      <3> QED BY <3>1 DEF Kept, QueueKept
    <2>3. Compared' => \A u \in Users \ (disputed' \cup misled') :
             /\ link'[u] \in Ids => Of(u, remote) \subseteq {link'[u]}
             /\ st'[u] = "off" /\ q'[u] = <<>> => NotActive(u)
      BY <2>1, <2>2
    <2> QED BY <1>9, <2>3 DEF Known
  <1>11. Flights'
    <2>1. ASSUME NEW v \in Users PROVE Flight(v, fl[v], link[v])'
      <3>1. fl'[v].pc # "idle" => (Active(v)' <=> Active(v)) BY DEF Active, QueueKept, Fenced
      <3>2. Flight(v, fl[v], link[v]) BY DEF Inv, Flights
      <3>3. CASE v \in misled' BY <3>1, <3>2, <3>3 DEF Flight
      <3>4. CASE v \notin misled'
        <4>1. Kept(v, link'[v]) /\ v \notin misled BY <3>4
        <4>2. Flight(v, fl[v], link'[v]) BY <3>2, <4>1 DEF Flight, Kept
        <4>3. Flight(v, fl'[v], link'[v]) BY <4>2
        <4>4. fl'[v].pc \in {"adopt", "write"} => remote'[fl'[v].rid].state = "gone" \/ remote'[fl'[v].rid].ext = v
          BY <4>3 DEF Flight
        <4> QED BY <1>9, <3>1, <4>3, <4>4, FlightKept
      <3> QED BY <3>3, <3>4
    <2> QED BY <2>1 DEF Flights
  <1> QED BY <1>2, <1>3, <1>4, <1>5, <1>7, <1>8, <1>10, <1>11 DEF Inv

\* The row of a runner that has compared.
LEMMA ComparedRow ==
    ASSUME Inv, NEW r \in Runners, ReconcileDrift(r)
    PROVE  \E g \in RnRows : /\ rn' = [rn EXCEPT ![r] = g] /\ g.pc = "compared" /\ g.seen = Waiting.seen
                             /\ g.kind = rn[r].kind /\ g.complete = rn[r].complete
  <1>0. rn \in [Runners -> RnRows] /\ rn[r] \in RnRows BY ReadFacts
  <1>1. PICK w \in [Ids -> Accounts] : w = Waiting.seen BY WaitingFacts
  <1>2. PICK a : a = [rn[r] EXCEPT !.pc = "compared"] OBVIOUS
  <1>3. a \in RnRows /\ a.pc = "compared" /\ a.kind = rn[r].kind /\ a.complete = rn[r].complete
    BY <1>0, <1>2 DEF RnRows
  <1>4. PICK g : g = [a EXCEPT !.seen = w] OBVIOUS
  <1>5. /\ g \in RnRows /\ g.pc = "compared" /\ g.seen = w /\ g.kind = rn[r].kind
        /\ g.complete = rn[r].complete
    BY <1>3, <1>4 DEF RnRows
  <1>6. rn' = [rn EXCEPT ![r] = [[rn[r] EXCEPT !.pc = "compared"] EXCEPT !.seen = w]]
    <2>1. DOMAIN rn = Runners BY <1>0
    <2>2. rn' = [rn EXCEPT ![r].pc = "compared", ![r].seen = w] BY <1>1 DEF ReconcileDrift
    <2> QED BY <2>1, <2>2
  <1>7. rn' = [rn EXCEPT ![r] = g] BY <1>2, <1>4, <1>6, Zenon
  <1> QED BY <1>1, <1>5, <1>7

\* A repair or a preview compares.
LEMMA DriftStep ==
    ASSUME Inv, NEW r \in Runners, ReconcileDrift(r)
    PROVE  Inv'
  <1>1. PICK g \in RnRows : /\ rn' = [rn EXCEPT ![r] = g] /\ g.pc = "compared" /\ g.seen = Waiting.seen
                            /\ g.kind = rn[r].kind /\ g.complete = rn[r].complete
    BY ComparedRow
  <1>2. /\ rn[r].pc = "listed"
        /\ UNCHANGED <<wanted, hold, snap, fl, wire, remote, job, used>>
        /\ churned' = churned \ {r}
    BY DEF ReconcileDrift
  <1>3. CASE rn[r].kind # "repair"
    <2>1. UNCHANGED <<link, st, q, disputed, misled>> BY <1>3 DEF ReconcileDrift
    <2>2. \A u \in Users : Kept(u, link'[u]) BY <2>1 DEF Kept
    <2>3. Granted' BY <1>2, <2>1, DirectoryTypes DEF Granted
    <2>4. ~Evidence(r) BY <1>3 DEF Evidence
    <2>5. disputed' \subseteq Users /\ misled' \subseteq Users BY <2>1 DEF Inv, Typed, TypeOK
    <2>6. link' \in Links BY <2>1, DirectoryTypes
    <2> QED BY <1>1, <1>2, <2>1, <2>2, <2>3, <2>4, <2>5, <2>6, SameQueue, ComparedStep
  <1>4. CASE rn[r].kind = "repair"
    <2>1. /\ link' = [u \in Users |-> Relinked(rn[r], u)]
          /\ Queue(Stale(rn[r]), Orphaned(rn[r]))
          /\ disputed' = disputed \cup MappingConflicts(rn[r])
          /\ misled' = misled \cup IF r \in churned THEN Mistaken(rn[r]) ELSE {}
      BY <1>4 DEF ReconcileDrift
    <2>2. PICK on \in SUBSET Users : on = Stale(rn[r]) BY DirectoryTypes DEF Stale
    <2>3. PICK off \in SUBSET Users : off = Orphaned(rn[r]) BY DEF Orphaned
    <2>4. on \cap off = {} /\ off \cap wanted = {} BY <2>2, <2>3 DEF Stale, Orphaned
    <2>5. Queue(on, off) BY <2>1, <2>2, <2>3
    <2>6. /\ st' \in States /\ q' \in Queues /\ QueueKept
          /\ \A u \in Users : /\ u \in on => st'[u] = "on"
                              /\ u \in on \cup off => q'[u] # <<>>
                              /\ u \notin on \cup off => st'[u] = st[u] /\ q'[u] = q[u]
      BY <2>4, <2>5, QueueFacts, DirectoryTypes
    <2>7. Granted' BY <1>2, <2>4, <2>6, DirectoryTypes DEF Granted
    <2>8. \A u \in Users : link'[u] = Relinked(rn[r], u) BY <2>1
    <2>t. \A u \in Users \ misled' : Trusted(r, u) BY <2>1 DEF Trusted
    <2>9. \A u \in Users \ misled' : Kept(u, link'[u]) BY <2>8, <2>t, RelinkedFacts
    <2>10. link' \in Links BY <2>1, RelinkedFacts DEF Links
    <2>11. disputed \subseteq disputed' /\ disputed' \subseteq Users
      BY <2>1 DEF Inv, Typed, TypeOK, MappingConflicts
    <2>m. misled \subseteq misled' /\ misled' \subseteq Users
      BY <2>1 DEF Inv, Typed, TypeOK, Mistaken
    <2>12. ASSUME hold = "held", Evidence(r), NEW u \in Users \ (disputed' \cup misled')
           PROVE  /\ link'[u] \in Ids => Of(u, remote) \subseteq {link'[u]}
                  /\ st'[u] = "off" /\ q'[u] = <<>> => NotActive(u)
      <3>1. rn[r].complete /\ u \notin MappingConflicts(rn[r]) BY <2>1, <2>12 DEF Evidence
      <3>2. /\ Relinked(rn[r], u) \in Ids => Of(u, remote) \subseteq {Relinked(rn[r], u)}
            /\ st[u] = "off" /\ u \notin Orphaned(rn[r]) => NotActive(u)
        BY <1>2, <2>12, <2>t, <3>1, EvidenceFacts
      <3> QED BY <2>3, <2>6, <2>8, <3>2
    <2> QED BY <1>1, <1>2, <2>6, <2>7, <2>9, <2>10, <2>11, <2>m, <2>12, ComparedStep
  <1> QED BY <1>3, <1>4

\* A step that only opens or closes a job.
LEMMA JobStep ==
    ASSUME Inv, job' \in JobRows,
           UNCHANGED <<wanted, link, st, q, hold, snap, fl, wire, remote, rn, disputed, churned, misled, used>>
    PROVE  Inv'
  <1>1. Typed' BY DEF Inv, Typed, TypeOK, Fence, Fenced, JobRows
  <1>2. Granted' /\ Events' /\ Seen' BY DEF Inv, Granted, Events, Seen, Held
  <1>3. Single' /\ Posts' /\ Stopped' BY DEF Inv, Single, Posts, Stopped, Of, Held
  <1>4. Known' BY DEF Inv, Known, Compared, Evidence, NotActive, Of, Held
  <1>5. Flights'
    <2>1. ASSUME NEW v \in Users PROVE Flight(v, fl[v], link[v])'
      <3>1. Flight(v, fl'[v], link'[v]) BY DEF Inv, Flights
      <3> QED BY <3>1, FlightSame
    <2> QED BY <2>1 DEF Flights
  <1> QED BY <1>1, <1>2, <1>3, <1>4, <1>5 DEF Inv

\* No job is open.
LEMMA NoJobType == NoJob \in JobRows
  BY ReconcileAssumption DEF NoJob, JobRows

\* A job is opened, or closed after too many claims.
LEMMA OpenStep ==
    ASSUME Inv, FailInterruptedJob \/ \E kind \in {"preview", "repair"} : CreateReconcileJob(kind)
    PROVE  Inv'
  <1>1. UNCHANGED <<wanted, link, st, q, hold, snap, fl, wire, remote, rn, disputed, churned, misled, used>>
    BY DEF FailInterruptedJob, CreateReconcileJob
  <1>2. job' \in JobRows
    <2>1. CASE FailInterruptedJob BY <2>1, NoJobType DEF FailInterruptedJob
    <2>2. ASSUME NEW kind \in {"preview", "repair"}, CreateReconcileJob(kind) PROVE job' \in JobRows
      BY <2>2, NoJobType DEF CreateReconcileJob, JobRows
    <2> QED BY <2>1, <2>2
  <1> QED BY <1>1, <1>2, JobStep

\* A hold is lifted: no delivery is under way, and the directory has been compared unless the
\* operator waives it.
LEMMA LiftStep ==
    ASSUME Inv, hold = "held", hold' \in {"none", "waived"}, hold' = "none" => Compared,
           job' \in JobRows, rn' \in [Runners -> RnRows],
           \A s \in Runners : rn'[s] = rn[s] \/ rn'[s] = Waiting,
           UNCHANGED <<wanted, link, st, q, snap, fl, wire, remote, disputed, churned, misled, used>>
    PROVE  Inv'
  <1>1. Typed'
    <2>1. TypeOK' BY DEF Inv, Typed, TypeOK, JobRows, RnRows
    <2>2. Fence' BY DEF Inv, Typed, Fence, Fenced
    <2> QED BY <2>1, <2>2 DEF Typed
  <1>2. Granted' /\ Events' BY DEF Inv, Granted, Events
  <1>3. Seen'
    <2> SUFFICES ASSUME NEW s \in Runners
                 PROVE  /\ \A i \in Ids : rn'[s].seen[i] # Gone =>
                             /\ i \in Held(rn'[s].seen)
                             /\ s \notin churned' =>
                                   i \in Held(remote) /\ remote[i].ext = rn'[s].seen[i].ext
                        /\ rn'[s].pc = "listing" => Cardinality(Held(rn'[s].seen)) = rn'[s].n
      BY DEF Seen
    <2> QED BY ReadFacts, WaitingFacts
  <1>4. Single' /\ Posts' BY DEF Inv, Single, Posts, Of, Held
  <1>5. Stopped' BY DEF Stopped
  <1>6. Known'
    <2>1. Compared' => Compared BY DEF Compared
    <2>2. \A v \in Users : NotActive(v)' = NotActive(v) BY DEF NotActive, Of, Held
    <2>3. \A v \in Users \ (disputed \cup misled) :
             Compared => /\ link[v] \in Ids => Of(v, remote) \subseteq {link[v]}
                         /\ st[v] = "off" /\ q[v] = <<>> => NotActive(v)
      BY DEF Inv, Known
    <2> QED BY <2>1, <2>2, <2>3 DEF Known
  <1>7. Flights'
    <2>1. ASSUME NEW v \in Users PROVE fl'[v].pc = "idle"
      BY AtFacts
    <2> QED BY <2>1 DEF Flights, Flight
  <1> QED BY <1>1, <1>2, <1>3, <1>4, <1>5, <1>6, <1>7 DEF Inv

\* A job is finished; only evidence lifts the hold.
LEMMA FinishJobStep ==
    ASSUME Inv, NEW r \in Runners, FinishReconcileJob(r)
    PROVE  Inv'
  <1>0. rn \in [Runners -> RnRows] BY ReadFacts
  <1>1. /\ rn[r].pc = "compared" /\ rn' = [rn EXCEPT ![r] = Waiting]
        /\ UNCHANGED <<wanted, link, st, q, snap, fl, wire, remote, disputed, churned, misled, used>>
        /\ job' = NoJob \/ job' = job
        /\ \/ hold' = hold
           \/ hold' = "none" /\ hold = "held" /\ Evidence(r)
    BY DEF FinishReconcileJob
  <1>2. job' \in JobRows /\ used' \in UsedRows BY <1>1, NoJobType, ReadFacts
  <1>3. CASE hold' = hold BY <1>1, <1>2, <1>3, WaitingFacts, FreshRunner, ReadFacts
  <1>4. CASE hold' = "none" /\ hold = "held" /\ Evidence(r)
    <2>1. Compared BY <1>1, <1>4 DEF Compared
    <2>2. rn' \in [Runners -> RnRows] /\ \A s \in Runners : rn'[s] = rn[s] \/ rn'[s] = Waiting
      BY <1>0, <1>1, WaitingFacts
    <2> QED BY <1>1, <1>2, <1>4, <2>1, <2>2, LiftStep
  <1> QED BY <1>1, <1>3, <1>4

\* The operator lifts the hold.
LEMMA ResumeProvisioningStep ==
    ASSUME Inv, ResumeProvisioning
    PROVE  Inv'
  <1>1. /\ hold = "held" /\ hold' = "waived"
        /\ UNCHANGED <<wanted, link, st, q, snap, fl, wire, remote, disputed, churned, misled, used, rn, job>>
    BY DEF ResumeProvisioning
  <1>2. job' \in JobRows /\ rn' \in [Runners -> RnRows] BY <1>1 DEF Inv, Typed, TypeOK, JobRows, RnRows
  <1> QED BY <1>1, <1>2, LiftStep

\* Every step keeps the invariant.
LEMMA NextStep ==
    ASSUME Inv, Next
    PROVE  Inv'
  <1>1. ASSUME NEW u \in Users,
               SetAccess(u) \/ AccessLapses(u) \/ ReconcileProvisioning(u) \/ RetryProvisioning(u)
        PROVE  Inv'
    BY <1>1, DirectoryStep
  <1>2. ASSUME NEW u \in Users, Deliver(u) PROVE Inv' BY <1>2, DeliverStep
  <1>3. CASE Snapshot BY <1>3, SnapshotStep
  <1>4. CASE Restore BY <1>4, RestoreStep
  <1>5. CASE ResumeProvisioning BY <1>5, ResumeProvisioningStep
  <1>6. CASE Target BY <1>6, TargetStep
  <1>7. CASE FailInterruptedJob \/ \E kind \in {"preview", "repair"} : CreateReconcileJob(kind)
    BY <1>7, OpenStep
  <1>8. ASSUME NEW r \in Runners, Run(r) PROVE Inv'
    BY <1>8, ClaimStep, ListPageStep, ListFailsStep, DriftStep, FinishJobStep, DieStep DEF Run
  <1> QED BY <1>1, <1>2, <1>3, <1>4, <1>5, <1>6, <1>7, <1>8 DEF Next

\* A step that changes nothing.
LEMMA StutterStep ==
    ASSUME Inv, UNCHANGED vars
    PROVE  Inv'
  <1>1. UNCHANGED <<wanted, link, st, q, hold, snap, fl, wire, remote, rn, disputed, churned, misled, used, job>>
    BY DEF vars
  <1>2. job' \in JobRows BY <1>1 DEF Inv, Typed, TypeOK, JobRows
  <1> QED BY <1>1, <1>2, JobStep

\* It holds of a new connector and of one with a person offboarded.
LEMMA InitStep ==
    ASSUME Init
    PROVE  Inv
  <1>0. 1 \in Ids /\ {MaxAttempts, MaxClaims, MaxChanges, MaxTarget, MaxFaults} \subseteq Nat
    BY ReconcileAssumption DEF Ids
  <1>1. /\ wanted = {} /\ hold = "none" /\ wire = {} /\ disputed = {} /\ churned = {} /\ misled = {} /\ job = NoJob
        /\ q = [u \in Users |-> <<>>] /\ fl = [u \in Users |-> Resting]
        /\ rn = [r \in Runners |-> Waiting]
        /\ used = [claims |-> 0, changes |-> 0, target |-> 0, faults |-> 0]
        /\ snap = [wanted |-> wanted, link |-> link, st |-> st, q |-> q]
    BY DEF Init, Directory
  <1>2. /\ link \in Links /\ st \in States /\ remote \in [Ids -> Accounts]
        /\ \A u \in Users : /\ link[u] \in Ids => Of(u, remote) \subseteq {link[u]}
                            /\ \A i, j \in Of(u, remote) : i = j /\ remote[i].state = "inactive"
    <2>1. CASE Unused
      <3>1. link = [u \in Users |-> Unlinked] /\ st = [u \in Users |-> "none"] BY <2>1 DEF Unused
      <3>2. PICK p \in BOOLEAN :
               remote = [i \in Ids |-> IF i = 1 /\ p THEN [ext |-> Other, state |-> "active"] ELSE Gone]
        BY <2>1 DEF Unused
      <3>3. Gone \in Accounts /\ Gone.ext = Other /\ [ext |-> Other, state |-> "active"] \in Accounts
        BY DEF Gone, Accounts
      <3>4. remote \in [Ids -> Accounts] /\ \A i \in Ids : remote[i].ext = Other BY <3>2, <3>3
      <3>5. \A u \in Users : Of(u, remote) = {} BY <3>4, ReconcileAssumption DEF Of, Held
      <3> QED BY <3>1, <3>4, <3>5 DEF Links, States
    <2>2. ASSUME NEW u \in Users, NEW k \in Ids, Offboarded(u, k)
          PROVE  /\ link \in Links /\ st \in States /\ remote \in [Ids -> Accounts]
                 /\ \A v \in Users : /\ link[v] \in Ids => Of(v, remote) \subseteq {link[v]}
                                     /\ \A i, j \in Of(v, remote) : i = j /\ remote[i].state = "inactive"
      <3>1. /\ link = [v \in Users |-> IF v = u THEN k ELSE Unlinked]
            /\ st = [v \in Users |-> IF v = u THEN "off" ELSE "none"]
            /\ remote = [i \in Ids |-> IF i = k THEN [ext |-> u, state |-> "inactive"]
                                       ELSE IF i < k THEN [ext |-> Other, state |-> "active"] ELSE Gone]
        BY <2>2 DEF Offboarded
      <3>2. /\ Gone \in Accounts /\ Gone.ext = Other /\ [ext |-> u, state |-> "inactive"] \in Accounts
            /\ [ext |-> Other, state |-> "active"] \in Accounts
        BY DEF Gone, Accounts
      <3>3. link \in Links /\ st \in States BY <1>0, <3>1 DEF Links, States
      <3>4. remote \in [Ids -> Accounts] BY <3>1, <3>2
      <3>5. \A i \in Ids : /\ i # k => remote[i].ext = Other
                           /\ i = k => remote[i].ext = u /\ remote[i].state = "inactive"
        BY <3>1, <3>2
      <3>6. \A v \in Users : Of(v, remote) \subseteq {k} /\ (Of(v, remote) # {} => v = u)
        BY <3>5, ReconcileAssumption DEF Of, Held
      <3>7. remote[k].state = "inactive" BY <3>5
      <3>8. \A v \in Users : v = u => link[v] = k BY <3>1
      <3> QED BY <3>3, <3>4, <3>6, <3>7, <3>8
    <2> QED BY <2>1, <2>2 DEF Init
  <1>3. /\ \A u \in Users : q[u] = <<>> /\ fl[u] = Resting
        /\ \A r \in Runners : rn[r] = Waiting
    BY <1>1
  <1>4. q \in Queues BY <1>1 DEF Queues
  <1>5. Typed
    <2>1. fl \in [Users -> FlRows] BY <1>1, RestFacts
    <2>2. rn \in [Runners -> RnRows] BY <1>1, WaitingFacts
    <2>3. used \in UsedRows BY <1>0, <1>1 DEF UsedRows
    <2>4. snap \in [wanted : SUBSET Users, link : Links, st : States, q : Queues] BY <1>1, <1>2, <1>4
    <2>5. job \in JobRows BY <1>1, NoJobType
    <2>6. TypeOK BY <1>1, <1>2, <1>4, <2>1, <2>2, <2>3, <2>4, <2>5 DEF TypeOK, FlRows, RnRows, UsedRows, JobRows
    <2>7. Fence BY <1>3, RestFacts DEF Fence, Fenced
    <2> QED BY <2>6, <2>7 DEF Typed
  <1>6. Granted BY <1>1 DEF Granted
  <1>7. Events BY <1>3 DEF Events
  <1>8. Seen BY <1>3, WaitingFacts DEF Seen
  <1>9. Single BY <1>2 DEF Single
  <1>10. Posts /\ Stopped BY <1>1 DEF Posts, Stopped
  <1>11. Known BY <1>1, <1>2 DEF Known, NotActive
  <1>12. Flights BY <1>3, RestFacts DEF Flights, Flight
  <1> QED BY <1>5, <1>6, <1>7, <1>8, <1>9, <1>10, <1>11, <1>12 DEF Inv

-----------------------------------------------------------------------------
(* The theorems.                                                            *)

\* The invariant holds in every behaviour of the connector.
THEOREM ReconcileInvariant == Spec => []Inv
  <1>1. Init => Inv BY InitStep
  <1>2. Inv /\ [Next]_vars => Inv' BY NextStep, StutterStep
  <1> QED BY <1>1, <1>2, PTL DEF Spec

\* Every mapping, queue, delivery, listing and job is of its type.
THEOREM ReconcileTypes == Spec => []TypeOK
  <1>1. Inv => TypeOK BY DEF Inv, Typed
  <1> QED BY <1>1, ReconcileInvariant, PTL

\* A person about whom no repair was misled never has two accounts at the target, for any
\* accounts, IDs, runners and faults.
THEOREM NoDuplicate == Spec => []NoDuplicateAccount
  <1>1. ASSUME Inv, NEW u \in Users \ misled PROVE Cardinality(Of(u, remote)) <= 1
    <2>1. CASE Of(u, remote) = {} BY <2>1, FS_EmptySet
    <2>2. CASE Of(u, remote) # {}
      <3>1. PICK i : i \in Of(u, remote) BY <2>2
      <3>2. Of(u, remote) = {i} BY <1>1, <3>1 DEF Inv, Single
      <3>3. Cardinality({i}) = 1 BY FS_Singleton
      <3> QED BY <3>2, <3>3
    <2> QED BY <2>1, <2>2
  <1>2. Inv => NoDuplicateAccount BY <1>1 DEF NoDuplicateAccount
  <1> QED BY <1>2, ReconcileInvariant, PTL

\* A removal that is acknowledged has been made, also after a restore that was compared, unless
\* the comparison was misled by an erasure among the accounts it had read.
THEOREM RemovalsReachTheTarget == Spec => []NoneLeftActive
  <1>1. Inv => NoneLeftActive
    BY DEF Inv, Known, Compared, NotActive, NoneLeftActive, Removed
  <1> QED BY <1>1, ReconcileInvariant, PTL

\* A write changes an account that was found or verified as the person's own.
LEMMA WriteOwn ==
    ASSUME Inv, NEW u \in Users, Write(u) \/ WriteUnanswered(u),
           NEW i \in Held(remote), remote[i].ext = Other
    PROVE  remote'[i] = remote[i]
  <1>1. fl[u].pc = "write" BY DEF Write, WriteUnanswered
  <1>2. fl[u].rid \in Ids /\ (remote[fl[u].rid].state = "gone" \/ remote[fl[u].rid].ext = u)
    BY <1>1, TargetFacts
  <1>3. u # Other BY ReconcileAssumption
  <1>4. i \in Ids /\ remote[i].state # "gone" BY DEF Held
  <1>5. i # fl[u].rid BY <1>2, <1>3, <1>4
  <1>6. remote \in [Ids -> Accounts] BY TargetFacts
  <1>7. \/ remote' = remote
        \/ \E s : remote' = [remote EXCEPT ![fl[u].rid].state = s]
    BY DEF Write, WriteUnanswered
  <1> QED BY <1>4, <1>5, <1>6, <1>7

\* What a step may do to the account of somebody else: nothing, but for its erasure there.
LEMMA OthersKept ==
    ASSUME Inv, [Next]_vars, NEW i \in Held(remote), remote[i].ext = Other
    PROVE  remote'[i].state \in {remote[i].state, "gone"}
  <1>0. /\ i \in Ids /\ remote[i].state # "gone" /\ remote \in [Ids -> Accounts]
    BY TargetFacts DEF Held
  <1>1. ASSUME NEW u \in Users, Deliver(u) PROVE remote'[i] = remote[i]
    <2>1. CASE \E j \in Ids : PostApplied(u, j)
      <3>1. PICK j \in Ids : Free(j) /\ remote' = [remote EXCEPT ![j] = [ext |-> u, state |-> "active"]]
        BY <2>1 DEF PostApplied
      <3>2. j # i BY <1>0, <3>1 DEF Free
      <3> QED BY <1>0, <3>1, <3>2
    <2>2. CASE Write(u) \/ WriteUnanswered(u) BY <2>2, WriteOwn
    <2>3. CASE remote' = remote BY <2>3
    <2> QED BY <1>1, <2>1, <2>2, <2>3
         DEF Deliver, BeginSyncDelivery, SCIMLink, FindSCIMUser, SaveSCIMLink, StartSCIMCreate, Post,
             PostRefused, RejectSCIMCreate, VerifyMapping, Abandoned, FinishSyncDelivery,
             ReleaseRemovalFence, ResumeSyncDelivery
  <1>2. CASE Target
    <2>1. ASSUME NEW j \in Ids, TargetErases(j) PROVE remote'[i].state \in {remote[i].state, "gone"}
      <3>1. remote' = [remote EXCEPT ![j] = Gone] BY <2>1 DEF TargetErases
      <3>2. remote'[i] = remote[i] \/ remote'[i] = Gone BY <1>0, <3>1
      <3> QED BY <3>2 DEF Gone
    <2>2. ASSUME NEW j \in Ids, TargetGains(j) PROVE remote'[i] = remote[i]
      <3>1. Free(j) /\ remote' = [remote EXCEPT ![j] = [ext |-> Other, state |-> "active"]]
        BY <2>2 DEF TargetGains
      <3>2. j # i BY <1>0, <3>1 DEF Free
      <3> QED BY <1>0, <3>1, <3>2
    <2>3. ASSUME NEW j \in Ids, NEW s \in {"stale", "inactive"}, TargetEdits(j, s) PROVE remote'[i] = remote[i]
      <3>1. remote[j].ext \in Users /\ remote' = [remote EXCEPT ![j].state = s] BY <2>3 DEF TargetEdits
      <3>2. j # i BY <3>1, ReconcileAssumption
      <3> QED BY <1>0, <3>1, <3>2
    <2> QED BY <1>2, <2>1, <2>2, <2>3 DEF Target
  <1>3. CASE remote' = remote BY <1>3
  <1>4. Target \/ (\E u \in Users : Deliver(u)) \/ remote' = remote
    <2>1. CASE UNCHANGED vars BY <2>1 DEF vars
    <2>2. ASSUME NEW r \in Runners, Run(r) PROVE remote' = remote
      BY <2>2 DEF Run, ClaimReconcileJob, ListPage, ListFails, ReconcileDrift, FinishReconcileJob, RunnerDies
    <2>3. CASE Next
      BY <2>2, <2>3 DEF Next, SetAccess, AccessLapses, ReconcileProvisioning, RetryProvisioning, Snapshot,
                        Restore, ResumeProvisioning, CreateReconcileJob, FailInterruptedJob
    <2> QED BY <2>1, <2>3
  <1> QED BY <1>1, <1>2, <1>3, <1>4

\* No step writes an account of somebody else, whatever IDs the target reuses.
THEOREM OthersAreUntouched == Spec => OthersUntouched
  <1>1. Inv /\ [Next]_vars =>
           [\A i \in Held(remote) :
               remote[i].ext = Other => remote'[i].state \in {remote[i].state, "gone"}]_vars
    BY OthersKept
  <1> QED BY <1>1, ReconcileInvariant, PTL DEF Spec, OthersUntouched

=============================================================================
