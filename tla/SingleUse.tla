------------------------------ MODULE SingleUse ------------------------------
(***************************************************************************)
(* What a re-authentication promises: one ticket, for one session and one  *)
(* operation, that authorises at most one change and is worth nothing once *)
(* it was spent or withdrawn.  StepUp implements it with two tables, a     *)
(* challenge and a grant, written by requests that overlap.                *)
(***************************************************************************)
EXTENDS Naturals

CONSTANTS Tickets, Holders, NoHolder

VARIABLES
    state,   \* what each ticket is worth
    holder,  \* the session and the operation it was issued for
    uses     \* the changes it authorised

vars == <<state, holder, uses>>

Init ==
    /\ state = [t \in Tickets |-> "unissued"]
    /\ holder = [t \in Tickets |-> NoHolder]
    /\ uses = [t \in Tickets |-> 0]

\* The password was right, and the second factor is asked for or was right as well.
Issue(t) ==
    /\ state[t] = "unissued"
    /\ \E w \in {"asked", "granted"}, h \in Holders :
          state' = [state EXCEPT ![t] = w] /\ holder' = [holder EXCEPT ![t] = h]
    /\ UNCHANGED uses

\* The second factor was right.
Grant(t) ==
    /\ state[t] = "asked"
    /\ state' = [state EXCEPT ![t] = "granted"]
    /\ UNCHANGED <<holder, uses>>

\* The ticket authorises its one change: nothing leads on from there.
Spend(t) ==
    /\ state[t] = "granted"
    /\ state' = [state EXCEPT ![t] = "spent"]
    /\ uses' = [uses EXCEPT ![t] = @ + 1]
    /\ UNCHANGED holder

\* Tickets lapse, are cancelled or go with their sessions.
Void(S) ==
    /\ S # {} /\ \A t \in S : state[t] \in {"asked", "granted"}
    /\ state' = [t \in Tickets |-> IF t \in S THEN "void" ELSE state[t]]
    /\ UNCHANGED <<holder, uses>>

Next ==
    \/ \E t \in Tickets : Issue(t) \/ Grant(t) \/ Spend(t)
    \/ \E S \in SUBSET Tickets : Void(S)

Spec == Init /\ [][Next]_vars
=============================================================================
