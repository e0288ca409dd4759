------------------------------ MODULE Fulfilment ------------------------------
(***************************************************************************)
(* What the checkout promises about a paid session, without requests,      *)
(* rows or database calls: goods are handed over only for sessions that    *)
(* are paid, only by an attempt that entered while the session was still   *)
(* open, and a session is closed only when everything ordered was handed   *)
(* over.  The promise is at-least-once: two attempts that both entered     *)
(* before the session closed both hand over (app-api/services/             *)
(* checkout-service.ts, verifySession).                                    *)
(***************************************************************************)
EXTENDS Naturals

CONSTANTS
    Sessions,   \* checkout sessions
    Goods,      \* what can be ordered
    Ordered     \* Ordered[s][g] in Nat: how many of g session s pays for

VARIABLES
    paid,       \* sessions the provider reports as paid
    closed,     \* sessions marked completed
    attempts,   \* per session: attempts to fulfil it that are under way
    handed      \* per session and good: how many were handed over

vars == <<paid, closed, attempts, handed>>

Init ==
    /\ paid = {}
    /\ closed = {}
    /\ attempts = [s \in Sessions |-> 0]
    /\ handed = [s \in Sessions |-> [g \in Goods |-> 0]]

Pay(s) ==
    /\ paid' = paid \cup {s}
    /\ UNCHANGED <<closed, attempts, handed>>

Enter(s) ==
    /\ s \notin closed
    /\ attempts' = [attempts EXCEPT ![s] = @ + 1]
    /\ UNCHANGED <<paid, closed, handed>>

HandOver(s, g) ==
    /\ s \in paid
    /\ attempts[s] > 0
    /\ handed' = [handed EXCEPT ![s][g] = @ + 1]
    /\ UNCHANGED <<paid, closed, attempts>>

Leave(s) ==
    /\ attempts[s] > 0
    /\ attempts' = [attempts EXCEPT ![s] = @ - 1]
    /\ UNCHANGED <<paid, closed, handed>>

Close(s) ==
    /\ s \in paid
    /\ attempts[s] > 0
    /\ \A g \in Goods : handed[s][g] >= Ordered[s][g]
    /\ closed' = closed \cup {s}
    /\ attempts' = [attempts EXCEPT ![s] = @ - 1]
    /\ UNCHANGED <<paid, handed>>

Next ==
    \E s \in Sessions :
        \/ Pay(s) \/ Enter(s) \/ Leave(s) \/ Close(s)
        \/ \E g \in Goods : HandOver(s, g)

Spec == Init /\ [][Next]_vars

=============================================================================
