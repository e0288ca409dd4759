------------------------------- MODULE Backfill -------------------------------
(***************************************************************************)
(* scripts/backfill-tenant-scope.mjs, which an operator runs, may stop at  *)
(* any await and runs again until the cutover verifier accepts, while the  *)
(* server goes on serving requests: those it resolves to the tenant write  *)
(* tenantId and memberships themselves, those it does not write neither    *)
(* (lib/tenant-membership.ts).  Every database call is a step.             *)
(***************************************************************************)
EXTENDS Cutover

CONSTANTS
    Models,         \* LEGACY_SCOPED_DELEGATES, in order
    MaxStops,       \* bound: runs that stop half way
    MaxWrites       \* bound: writes of the server

VARIABLES
    run,            \* the script: where it is, and what it has read
    stops, writes,  \* counters of the bounds
    quiet           \* history: no write of the server since the run began

backfillVars == <<run, stops, writes, quiet>>

ASSUME BackfillAssumption ==
    /\ Models \in Seq(STRING) /\ Models # <<>>
    /\ \A r \in Legacy : ModelOf[r] \in Range(Models)

Off == [pc |-> "off", apply |-> FALSE, at |-> 1, conflict |-> FALSE, users |-> {},
        seen |-> {}, paths |-> [u \in Users |-> <<>>], todo |-> {}, found |-> {}]

BackfillInit ==
    /\ DatasetInit
    /\ run = Off
    /\ stops = 0 /\ writes = 0
    /\ quiet = TRUE

Goto(pc) == run' = [run EXCEPT !.pc = pc]
Throw == run' = Off
OwnRows(m) == Live(m) \cap Legacy

-----------------------------------------------------------------------------
(* The script *)

\* Without --apply nothing is written.
Begin(apply) ==
    /\ run.pc = "off"
    /\ run' = [Off EXCEPT !.pc = "tenant", !.apply = apply]
    /\ quiet' = TRUE
    /\ UNCHANGED <<datasetVars, stops, writes>>

\* resolveDestination: the tenant, found or created.
ResolveTenant ==
    /\ run.pc = "tenant"
    /\ known' = IF run.apply THEN known \cup {Tenant} ELSE known
    /\ Goto("organization")
    /\ UNCHANGED <<rows, tenant, path, member, identity, organized, damage, domain, stops, writes, quiet>>

\* resolveDestination: its one organization.
ResolveOrganization ==
    /\ run.pc = "organization"
    /\ organized' = IF run.apply THEN organized \cup {Tenant} ELSE organized
    /\ Goto("plan")
    /\ UNCHANGED <<rows, tenant, path, member, identity, known, damage, domain, stops, writes, quiet>>

\* Bug: a row that has a tenant is taken to be the destination's.
AssignedNone(m) == {}

\* Rows of the environment assigned to a tenant other than the destination,
\* to any tenant while there is no destination.
Assigned(m) == {r \in OwnRows(m) : tenant[r] \notin {Nil} \cup ({Tenant} \cap known)}

NextModel(then) == IF run.at < Len(Models) THEN [run EXCEPT !.at = @ + 1]
                   ELSE [run EXCEPT !.at = 1, !.pc = then]

\* scopedModelPlan, model by model.
Plan ==
    /\ run.pc = "plan"
    /\ run' = [NextModel("load") EXCEPT !.conflict = @ \/ Assigned(Models[run.at]) # {}]
    /\ UNCHANGED <<datasetVars, stops, writes, quiet>>

\* loadLegacyReferenceData: the users, and every other table.
Load ==
    /\ run.pc = "load"
    /\ run' = [run EXCEPT !.pc = "validate", !.users = OwnRows("User"), !.paths = path,
                          !.seen = rows \cap Legacy]
    /\ UNCHANGED <<datasetVars, stops, writes, quiet>>

\* The references preflight knows: those of the activity log, of invitations
\* and of keys are left to the verifier.
Checked == {"UserSession", "ProductPrice", "Purchase", "PurchaseFile", "Membership",
            "CheckoutSession", "ContentItem", "TaxonomyTerm"}

\* validateLegacyReferences, over what was loaded.
Conflicts ==
    \/ \E u \in run.users : \E a \in Range(run.paths[u]) : a \notin run.users
    \/ \E r \in run.seen : ModelOf[r] \in Checked /\ \E f \in Fields(r) : Target(r, f) \notin run.seen
    \/ \E r \in run.seen \cap Of("TaxonomyTerm") :
         /\ "parentId" \in Fields(r)
         /\ LET p == Target(r, "parentId")
            IN  ModelOf[p] # "TaxonomyTerm" \/ Target(p, "taxonomyId") # Target(r, "taxonomyId")

\* failConflicts, then the end of a dry run.
Validate ==
    /\ run.pc = "validate"
    /\ IF run.conflict \/ Conflicts \/ ~run.apply THEN Throw ELSE Goto("apply")
    /\ UNCHANGED <<datasetVars, stops, writes, quiet>>

\* applyScopedTenantIds: updateMany where tenantId is null, model by model.
Unassigned(m) == {r \in OwnRows(m) : tenant[r] = Nil}

Apply ==
    /\ run.pc = "apply"
    /\ tenant' = [r \in Rows |-> IF r \in Unassigned(Models[run.at]) THEN Tenant ELSE tenant[r]]
    /\ run' = [NextModel("upsert") EXCEPT !.todo = run.users]
    /\ UNCHANGED <<rows, path, member, identity, known, organized, damage, domain, stops, writes, quiet>>

Do(u) == run' = [run EXCEPT !.todo = @ \ {u}]

\* migrateOrganizationMemberships, first pass: a membership for each user
\* read, whether or not the user is still there; its path is left alone.
UpsertMembership(u) ==
    /\ run.pc = "upsert" /\ u \in run.todo
    /\ Do(u)
    /\ member' = [member EXCEPT ![u] = IF @ = Nil THEN [tenant |-> Tenant, path |-> <<>>]
                                       ELSE [@ EXCEPT !.tenant = Tenant]]
    /\ UNCHANGED <<rows, tenant, path, identity, known, organized, damage, domain, stops, writes, quiet>>

\* The memberships are read back.
ReadMemberships ==
    /\ run.pc = "upsert" /\ run.todo = {}
    /\ run' = [run EXCEPT !.pc = "paths", !.todo = run.users,
                          !.found = {u \in Users : member[u] # Nil /\ member[u].tenant = Tenant}]
    /\ UNCHANGED <<datasetVars, stops, writes, quiet>>

\* Bug: the path is written as it is now known from the memberships found,
\* those that are missing skipped.
SkippedPath(u) == SelectSeq(run.paths[u], LAMBDA a : a \notin run.todo)

PathRead(u) == run.paths[u]

\* Second pass: the paths, from the users as they were read.
SetPath(u) ==
    /\ run.pc = "paths" /\ u \in run.todo
    /\ IF {u} \cup Range(run.paths[u]) \subseteq run.found /\ member[u] # Nil
       THEN Do(u) /\ member' = [member EXCEPT ![u] = [@ EXCEPT !.path = PathRead(u)]]
       ELSE Throw /\ UNCHANGED member
    /\ UNCHANGED <<rows, tenant, path, identity, known, organized, damage, domain, stops, writes, quiet>>

PathsDone ==
    /\ run.pc = "paths" /\ run.todo = {}
    /\ run' = [run EXCEPT !.pc = "identities", !.todo = {u \in run.users : ClerkOf[u] # Nil}]
    /\ UNCHANGED <<datasetVars, stops, writes, quiet>>

\* Bug: an identity linked by an earlier run ends this one.
LinkableOnce(u) == identity[ClerkOf[u]] = Nil

Linkable(u) == identity[ClerkOf[u]] \in {Nil, u}

\* The Clerk identities; one linked to another user ends the run.
UpsertIdentity(u) ==
    /\ run.pc = "identities" /\ u \in run.todo
    /\ IF Linkable(u)
       THEN Do(u) /\ identity' = [identity EXCEPT ![ClerkOf[u]] = u]
       ELSE Throw /\ UNCHANGED identity
    /\ UNCHANGED <<rows, tenant, path, member, known, organized, damage, domain, stops, writes, quiet>>

IdentitiesDone ==
    /\ run.pc = "identities" /\ run.todo = {}
    /\ Goto("check")
    /\ UNCHANGED <<datasetVars, stops, writes, quiet>>

\* verifyAppliedScope, model by model.
CheckModel ==
    /\ run.pc = "check"
    /\ IF \A r \in OwnRows(Models[run.at]) : tenant[r] = Tenant
       THEN run' = NextModel("count") ELSE Throw
    /\ UNCHANGED <<datasetVars, stops, writes, quiet>>

\* As many memberships of the organization as users were read.
CountMemberships ==
    /\ run.pc = "count"
    /\ IF Cardinality({u \in Users : member[u] # Nil /\ member[u].tenant = Tenant})
            = Cardinality(run.users)
       THEN Goto("applied") ELSE Throw
    /\ UNCHANGED <<datasetVars, stops, writes, quiet>>

\* The operator runs the verifier, and the whole again if it refuses.
VerifyCutover ==
    /\ run.pc = "applied"
    /\ IF Accepted THEN Goto("accepted") ELSE Throw
    /\ UNCHANGED <<datasetVars, stops, writes, quiet>>

ScriptStep ==
    \/ ResolveTenant \/ ResolveOrganization \/ Plan \/ Load \/ Validate \/ Apply
    \/ \E u \in Users : UpsertMembership(u) \/ SetPath(u) \/ UpsertIdentity(u)
    \/ ReadMemberships \/ PathsDone \/ IdentitiesDone
    \/ CheckModel \/ CountMemberships \/ VerifyCutover

\* The script stops: a failed call, a closed terminal.
Stop ==
    /\ run.pc \notin {"off", "accepted"} /\ stops < MaxStops
    /\ run' = Off
    /\ stops' = stops + 1
    /\ UNCHANGED <<datasetVars, writes, quiet>>

-----------------------------------------------------------------------------
(* The server meanwhile.  A bound request is one the server resolved to the *)
(* tenant, which must have its organization by then.                        *)

Request(bound) ==
    /\ run.pc # "accepted"
    /\ writes < MaxWrites
    /\ bound => Tenant \in organized
    /\ writes' = writes + 1
    /\ quiet' = FALSE

Stamp(bound) == IF bound THEN Tenant ELSE Nil

\* A row is created; a user's membership with it if the request is bound.
Create(r, bound) ==
    /\ Request(bound)
    /\ r \in Legacy \ (rows \cup Early)       \* ids are not used again
    /\ rows' = rows \cup {r}
    /\ tenant' = [tenant EXCEPT ![r] = Stamp(bound)]
    /\ member' = IF bound /\ r \in Users
                 THEN [member EXCEPT ![r] = [tenant |-> Tenant, path |-> <<>>]] ELSE member
    /\ UNCHANGED <<path, identity, known, organized, damage, domain, run, stops>>

\* createSubUser links an account, or revokeSubUser unlinks it (u = p); a bound
\* request writes the membership too, and needs the rows to be the tenant's.
Relink(u, p, bound) ==
    LET new == IF u = p THEN <<>> ELSE Append(path[p], p)
    IN  /\ Request(bound)
        /\ {u, p} \subseteq OwnRows("User")
        /\ u \notin Range(path[p])
        /\ IF u = p THEN path[u] # <<>> ELSE path[u] = <<>>
        /\ \A c \in Users : u \notin Range(path[c])
        /\ bound => /\ \A x \in {u, p} : tenant[x] = Tenant
                    /\ member[p] # Nil
        /\ path' = [path EXCEPT ![u] = new]
        /\ member' = IF ~bound THEN member
                     ELSE [member EXCEPT ![u] = [tenant |-> Tenant,
                             path |-> IF u = p THEN <<>> ELSE Append(member[p].path, p)]]
        /\ UNCHANGED <<rows, tenant, identity, known, organized, damage, domain, run, stops>>

\* A user without sub-users is deleted, and with it, by the schema, its
\* membership and identities.
Delete(u, bound) ==
    /\ Request(bound)
    /\ u \in OwnRows("User")
    /\ \A c \in Users : u \notin Range(path[c])
    /\ \A r \in rows : \A f \in Fields(r) : Target(r, f) # u     \* else a conflict to settle by hand
    /\ rows' = rows \ {u}
    /\ tenant' = [tenant EXCEPT ![u] = Nil]
    /\ path' = [path EXCEPT ![u] = <<>>]
    /\ member' = [member EXCEPT ![u] = Nil]
    /\ identity' = [s \in Subjects |-> IF identity[s] = u THEN Nil ELSE identity[s]]
    /\ UNCHANGED <<known, organized, damage, domain, run, stops>>

ServerStep ==
    \E bound \in BOOLEAN :
        \/ \E r \in Rows : Create(r, bound)
        \/ \E u, p \in Users : Relink(u, p, bound)
        \/ \E u \in Users : Delete(u, bound)

-----------------------------------------------------------------------------

BackfillNext == ScriptStep \/ Stop \/ ServerStep \/ \E apply \in BOOLEAN : Begin(apply)

\* A script that runs goes on; the operator applies the mapping again until
\* the verifier accepts.  Stops and the server's writes are not promised.
BackfillFairness == WF_<<datasetVars, backfillVars>>(ScriptStep)
                        /\ SF_<<datasetVars, backfillVars>>(Begin(TRUE))

-----------------------------------------------------------------------------

\* Failures the script's own preflight and verification stand for; those of
\* the activity log, keys, slugs and prices are the verifier's alone.
Covered(f) == f[1] \in {"missing", "organization", "membership", "path", "workspace", "user"}
                  \/ (f[1] = "reference" /\ ModelOf[f[2]] \in Checked)

\* A run that reports success, and met no write of the server on its way, has
\* left nothing for the verifier to find among the rows it migrated: no row
\* without its tenant, no reference between tenants, and every user's path
\* mirrored by its membership, however many runs stopped half way before.
BackfilledIsClean ==
    run.pc = "applied" /\ quiet =>
        \A f \in CutoverFailures : Covered(f) => f[2] \notin Legacy \cup {Tenant}

\* A row keeps the tenant it was assigned, whatever the script and the server
\* do, and a run writes no tenant at all once its preflight met a row of the
\* environment that another tenant owns.
TenantIsKept ==
    [][\A r \in Rows :
          /\ (r \in rows \cap rows' /\ tenant[r] # Nil) => tenant'[r] = tenant[r]
          /\ (run.pc = "apply" /\ rows' = rows /\ tenant'[r] # tenant[r])
                => r \in Legacy /\ \A q \in Early \cap Legacy : tenant[q] # Other
      ]_<<datasetVars, backfillVars>>

\* A membership or a linked subject of nobody: the script upserts them for the
\* users it read, and one may have been deleted since.
Orphaned == \/ \E u \in Users \ rows : member[u] # Nil /\ member[u].tenant = Tenant
            \/ \E s \in Subjects : identity[s] \notin rows \cup {Nil}

\* On data the runbook takes for granted the migration comes to an end, once
\* the runs stop failing and the server stops writing: some run is verified.
\* A user deleted between the script's reading of it and its upserts leaves a
\* membership or an identity that no later run removes, and none is accepted;
\* whatever else the server writes is made good by applying the mapping again.
BackfillCompletes == Mappable => <>(run.pc = "accepted" \/ Orphaned)

=============================================================================
