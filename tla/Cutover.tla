------------------------------- MODULE Cutover -------------------------------
(***************************************************************************)
(* The read-only verifier that must accept the data before tenants replace *)
(* environments: verify-tenant-cutover-entry.mjs, then                     *)
(* verify-tenant-cutover.mjs.  A failure is named by its check and row.    *)
(***************************************************************************)
EXTENDS Dataset

Fields(r) == DOMAIN Ref[r]
Live(m) == Of(m) \cap rows

\* tenantMismatch: an absent tenant never matches.
Mismatch(expected, actual) == actual = Nil \/ actual # expected

-----------------------------------------------------------------------------
(* verifyTenantOwnership *)

OwnershipFailures ==
    {<<"owner", r>> : r \in {r \in rows : tenant[r] \notin known \cup {Nil}}}
        \cup {<<"domain", Tenant>> : d \in {domain} \cap {"upper"}}

-----------------------------------------------------------------------------
(* verifyNoMissingTenantIds *)

MissingTenantIds == {<<"missing", r>> : r \in {r \in rows : tenant[r] = Nil}}

(* verifyFoundation *)

FoundationFailures ==
    LET Wrong(u) == \/ u \notin rows
                    \/ member[u].tenant \notin organized
                    \/ Mismatch(tenant[u], member[u].tenant)
                    \/ \E a \in Range(member[u].path) :
                         member[a] = Nil \/ member[a].tenant # member[u].tenant
    IN  {<<"organization", t>> : t \in organized \ known}
            \cup {<<"membership", u>> : u \in {u \in Users : member[u] # Nil /\ Wrong(u)}}
            \cup {<<"identity", s>> : s \in {s \in Subjects : identity[s] \notin rows \cup {Nil}}}

(* verifyLegacyAndScopedRelations *)

UserPathFailures ==
    {<<"path", u>> : u \in {u \in Live("User") :
        \E a \in Range(path[u]) : a \notin rows \/ Mismatch(tenant[u], tenant[a])}}

\* A reference must exist, and both rows belong to one tenant.
Astray(models) ==
    {<<"reference", r>> : r \in {r \in rows :
        /\ ModelOf[r] \in models
        /\ \E f \in Fields(r) : LET t == Target(r, f)
                                IN  t \notin rows \/ Mismatch(tenant[t], tenant[r])}}

\* An invitation names an administrator.
SessionFailures ==
    Astray({"UserSession"})
        \cup {<<"admin", r>> : r \in {r \in Live("UserInvitation") : Target(r, "invitedBy") \notin Admins}}
ActivityFailures == Astray({"ActivityLog"})
PurchaseFailures == Astray({"ProductPrice", "Purchase", "PurchaseFile", "Membership"})

\* An item of a cart names a product and a price of that product.
CheckoutFailures ==
    Astray({"CheckoutSession"})
        \cup {<<"price", r>> : r \in {r \in Live("CheckoutSession") :
                 /\ {"productId", "priceId"} \subseteq Fields(r)
                 /\ LET p == Target(r, "priceId")
                    IN  p \in Live("ProductPrice") /\ Target(p, "productId") # Target(r, "productId")}}

\* A term's parent is a term of the same taxonomy.
ContentFailures ==
    Astray({"ContentItem", "TaxonomyTerm"})
        \cup {<<"term", r>> : r \in {r \in Live("TaxonomyTerm") :
                 /\ "parentId" \in Fields(r)
                 /\ LET p == Target(r, "parentId")
                    IN  p \in Live("TaxonomyTerm") => Target(p, "taxonomyId") # Target(r, "taxonomyId")}}

(* verifyFeatureAndTaxonomyKeys: keys are looked up among the tenant's own *)

KeyFailures ==
    LET Offered(t, m) == {SlugOf[k] : k \in {k \in Live(m) : tenant[k] = t}}
        Lacks(r) == LET named == IF ModelOf[r] = "Taxonomy" THEN "ContentType" ELSE "Feature"
                    IN  ~ KeysOf[r] \subseteq Offered(tenant[r], named)
    IN  {<<"key", r>> : r \in {r \in rows :
            ModelOf[r] \in {"Product", "Membership", "Taxonomy"} /\ Lacks(r)}}

(* verifyFinalUniqueKeys: slugs within a tenant, addresses everywhere *)

Collisions ==
    {<<"collision", r>> : r \in {r \in rows : \E q \in rows \ {r} :
        /\ ModelOf[q] = ModelOf[r]
        /\ SlugOf[r] # Nil /\ SlugOf[q] = SlugOf[r]
        /\ ModelOf[r] = "User" \/ (tenant[r] # Nil /\ tenant[q] = tenant[r])}}

(* verifyWorkspaceMigration *)

\* A user's membership mirrors its path, and its Clerk subject is linked.
Unmigrated(u) ==
    \/ member[u] = Nil
    \/ member[u].tenant # tenant[u]
    \/ \E a \in Range(path[u]) : member[a] = Nil \/ member[a].tenant # tenant[u]
    \/ member[u].path # path[u]
    \/ ClerkOf[u] # Nil /\ identity[ClerkOf[u]] # u

WorkspaceFailures ==
    {<<"workspace", t>> : t \in known \ organized}
        \cup {<<"user", u>> : u \in {u \in Live("User") :
                 tenant[u] \in known \cap organized /\ Unmigrated(u)}}

-----------------------------------------------------------------------------

\* verify-tenant-cutover.mjs, main.
CutoverFailures ==
    MissingTenantIds \cup FoundationFailures \cup UserPathFailures \cup SessionFailures
        \cup ActivityFailures \cup PurchaseFailures \cup CheckoutFailures
        \cup ContentFailures \cup KeyFailures \cup Collisions \cup WorkspaceFailures

\* The entry script goes on only if ownership is right.
Accepted == OwnershipFailures = {} /\ Tenant \in known /\ CutoverFailures = {}

=============================================================================
