------------------------------ MODULE MCAccounts ------------------------------
(***************************************************************************)
(* Accounts for TLC: own and help have a plan with one sub-user each, help *)
(* being allowed sub-users of its own, far belongs to another tenant, and  *)
(* guest has no account yet.                                               *)
(***************************************************************************)
EXTENDS Accounts, TLC

CONSTANTS own, help, far, guest

User(e, home) == NewUser(e, home, <<>>, None)

Start == <<User(own, "here"), User(help, "here"), User(far, "elsewhere")>>
Subscribed == <<"pro", "pro", "free">>
Limits == [p \in {"free", "pro"} |-> IF p = "pro" THEN 1 ELSE 0]

\* The slots of requests are alike, and so are Clerk's identities.
Alike == Permutations(Requests) \cup Permutations(Subjects)

=============================================================================
