--------------------------------- MODULE Desk ---------------------------------
(***************************************************************************)
(* What the controllers of the administration have in common: a request    *)
(* that passed OPTIONS, requireAdmin and verifyCsrf is handed to a service, *)
(* and answered when the service returns or throws.  Each await of the      *)
(* service is a step, so other requests run between two of them.  Whatever  *)
(* is awaited may be rejected: the handler answers 400 and what was done    *)
(* before stays done.  Who may pass is the matter of Access.                *)
(***************************************************************************)
EXTENDS Integers, Sequences, FiniteSets

CONSTANTS
    Slots,          \* the requests that may be handled at the same time
    Void,           \* no row; a field the request leaves out
    MaxCalls,       \* bound on the requests
    MaxFails        \* bound on the rejected awaits

ASSUME DeskAssumption == Void \notin BOOLEAN

VARIABLES call, calls, fails

desk == <<call, calls, fails>>
Idle == [op |-> "none"]

\* used: how many of the calls are taken away from the bound.
DeskInit(used) == call = [s \in Slots |-> Idle] /\ calls = used /\ fails = 0

Begin(s, c) ==
    /\ call[s] = Idle
    /\ calls < MaxCalls
    /\ call' = [call EXCEPT ![s] = c]
    /\ calls' = calls + 1
    /\ UNCHANGED fails

At(s, op, pc) == call[s].op = op /\ call[s].pc = pc

\* The handler goes on to its next await, or answers.
Await(s, c) == call' = [call EXCEPT ![s] = c] /\ UNCHANGED <<calls, fails>>
Answer(s) == Await(s, Idle)

\* The await of slot s is rejected.
Rejected(s) ==
    /\ call[s] # Idle
    /\ fails < MaxFails
    /\ call' = [call EXCEPT ![s] = Idle]
    /\ fails' = fails + 1
    /\ UNCHANGED calls

=============================================================================
