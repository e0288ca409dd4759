------------------------------- MODULE MCAccess -------------------------------
(***************************************************************************)
(* Access and Registry for TLC, in scenes that the first state chooses     *)
(* between, so that their state spaces add up and are not multiplied: a    *)
(* browser, while one administrator is disabled; overlapping changes of    *)
(* administrators, while one signs in; attempts to sign in over time; the  *)
(* feature registry; and the environment.                                  *)
(***************************************************************************)
EXTENDS Access, Registry, TLC

CONSTANTS a1, a2, u1, u2

VARIABLE scene

Limits == "admin.login" :> 2 @@ "user.login" :> 3
Alike == Permutations(Admins) \cup Permutations(Users) \cup Permutations(Requests)
         \cup Permutations(Loads) \cup Permutations(Writers)

\* The right password, and a wrong one.
SignIn(right) == \/ \E a \in Admins : AdminLogin(a, right)
                 \/ \E u \in Users : UserLogin(u, right)

\* An administrator is disabled meanwhile.
Disabling == \E r \in Requests : \/ \E a \in Admins : BeginUpdate(r, a, "keep", "disabled")
                                 \/ Proceed(r)

MCInit == /\ AccessInit /\ RegistryInit
          /\ scene \in {"browser", "changes", "limits", "features", "env"}
          /\ scene # "browser" => provider = "credentials"

AccessScene ==
    \/ scene = "browser" /\ (SignIn(TRUE) \/ VisitStep \/ Disabling \/ Tick)
                         /\ changes' <= 1 /\ visits' <= 5 /\ now' <= 2
    \/ scene = "changes" /\ (SignIn(TRUE) \/ ChangeStep) /\ visits' <= 1
    \/ scene = "limits" /\ (SignIn(FALSE) \/ CleanUp \/ Tick)

RegistryScene ==
    \/ scene = "features" /\ (FeatureStep \/ Pass) /\ writes' <= 2 /\ clock' <= 3
    \/ scene = "env" /\ (EnvStep \/ Pass)

MCNext == \/ AccessScene /\ UNCHANGED <<registryVars, scene>>
          \/ RegistryScene /\ UNCHANGED <<accessVars, scene>>

Spec == MCInit /\ [][MCNext]_<<accessVars, registryVars, scene>>

=============================================================================
