------------------------------- MODULE Dataset -------------------------------
(***************************************************************************)
(* The rows the tenant migration moves (docs/tenant-backfill-runbook.md):  *)
(* what scripts/backfill-tenant-scope.mjs and scripts/verify-tenant-       *)
(* cutover*.mjs read and write.  Rows of every scoped model have an        *)
(* environment and, once assigned, a tenant; users also have a path of     *)
(* ancestors, which their memberships of the tenant's organization mirror. *)
(* A membership is named by its user: there is one organization per tenant *)
(* and at most one membership per organization and user.                   *)
(***************************************************************************)
EXTENDS Integers, Sequences, FiniteSets, SequencesExt

CONSTANTS
    Nil,
    Rows,           \* every row that may exist
    Early,          \* those that exist when the migration begins
    ModelOf,        \* the model of a row
    Legacy,         \* the rows of the environment being migrated
    Ref,            \* by row: its references, a function from field to row
    SlugOf,         \* by row: its slug or key, a user's address, or Nil
    KeysOf,         \* by row: the feature keys or type slugs it names
    ClerkOf,        \* by user: the Clerk subject, or Nil
    StartPath,      \* by user: its ancestors at the start
    Damages,        \* references that may be broken: [row, field, to]
    Admins,         \* administrators, who belong to no tenant
    Tenant, Other   \* the destination, and the tenant of another customer

VARIABLES
    rows,           \* the rows that exist
    tenant,         \* by row: its tenantId
    path,           \* by user: User.ancestors, whose last is User.parentId
    member,         \* by user: its membership [tenant, path], or Nil
    identity,       \* by Clerk subject: ExternalIdentity.userId, or Nil
    known,          \* tenants that exist
    organized,      \* tenants that have their organization
    damage,         \* the broken reference, or Nil
    domain          \* TenantDomain of Tenant: is its host canonical

datasetVars == <<rows, tenant, path, member, identity, known, organized, damage, domain>>

Of(m) == {r \in Rows : ModelOf[r] = m}
Users == Of("User")
Subjects == {ClerkOf[u] : u \in Users} \ {Nil}

ASSUME DatasetAssumption ==
    /\ Tenant # Other /\ Nil \notin {Tenant, Other}
    /\ {Nil, Tenant, Other} \cap Rows = {}
    /\ Nil \notin [tenant : {Tenant, Other}, path : Seq(Users)]
    /\ Early \subseteq Rows /\ Legacy \subseteq Rows /\ IsFiniteSet(Rows)
    /\ StartPath \in [Users -> Seq(Users)]

Parent(u) == IF path[u] = <<>> THEN Nil ELSE Last(path[u])

\* What a row's field points at.
Target(r, f) == IF damage # Nil /\ damage.row = r /\ damage.field = f
                THEN damage.to
                ELSE Ref[r][f]

\* The rows of the other environment: migrated for another customer before,
\* mapped to the destination as well, or not migrated.
DatasetInit ==
    /\ rows = Early
    /\ path = StartPath
    /\ damage \in {Nil} \cup Damages
    /\ domain \in {"canonical", "upper"}
    /\ \E elsewhere \in {Other, Tenant, Nil}, first \in {Nil, Tenant, Other}, held \in Users \cup {Nil} :
        /\ tenant = [r \in Rows |-> IF r \notin Early THEN Nil
                                    ELSE IF r \notin Legacy THEN elsewhere
                                    ELSE IF ModelOf[r] = "Product" THEN first ELSE Nil]
        /\ known = {Other} \cup ({elsewhere, first} \ {Nil})
        /\ organized = known
        /\ member = [u \in Users |-> IF u \in Early \ Legacy /\ elsewhere # Nil
                                     THEN [tenant |-> elsewhere, path |-> path[u]] ELSE Nil]
        /\ held \in Early \cup {Nil}
        /\ identity = [s \in Subjects |-> held]

\* The data the runbook takes for granted: no broken reference, no row or
\* subject of another customer, one environment to a tenant, and no address
\* with an account in both environments.
Mappable ==
    /\ damage = Nil /\ domain = "canonical"
    /\ \A r \in Early : tenant[r] \in IF r \in Legacy THEN {Nil, Tenant} ELSE {Other}
    /\ \A u \in Users : ClerkOf[u] # Nil => identity[ClerkOf[u]] \in {Nil, u}
    /\ \A u, v \in Users : SlugOf[u] = SlugOf[v] => u = v

=============================================================================
