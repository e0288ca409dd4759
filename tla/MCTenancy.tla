------------------------------ MODULE MCTenancy ------------------------------
(***************************************************************************)
(* The tenant migration and the request path for TLC, in scenes the first  *)
(* state chooses between: the backfill while the server goes on; requests  *)
(* being resolved while configuration, tenants and domains change; and the *)
(* database calls of two requests while the environment is switched.       *)
(***************************************************************************)
EXTENDS Backfill, TenantScope, TLC

CONSTANTS t1, t2, label, shop, r1, r2

VARIABLES scene, odd

-----------------------------------------------------------------------------
(* The rows migrated: two accounts and a sub-user to come, a product with its *)
(* price, a cart, a feature, a log entry to come; and another environment's.  *)

MCModelOf == "u1" :> "User" @@ "u2" :> "User" @@ "u3" :> "User" @@ "x" :> "User"
             @@ "product" :> "Product" @@ "price" :> "ProductPrice" @@ "other" :> "Product"
             @@ "cart" :> "CheckoutSession" @@ "feature" :> "Feature" @@ "log" :> "ActivityLog"
             @@ "invitation" :> "UserInvitation"
MCRows == DOMAIN MCModelOf
MCLegacy == MCRows \ {"x", "other"}
MCEarly == MCRows \ {"u3", "log"}
MCRef == [r \in MCRows |->
            CASE r = "price" -> [productId |-> "product"]
              [] r = "cart"  -> [productId |-> "product", priceId |-> "price", userId |-> "u2"]
              [] r = "log"   -> [actorId |-> "u1"]
              [] r = "invitation" -> [invitedBy |-> "admin"]
              [] OTHER       -> <<>>]
MCSlugOf == [r \in MCRows |-> CASE r \in {"product", "other"} -> "book"
                                [] r = "feature" -> "read"
                                [] MCModelOf[r] = "User" -> r
                                [] OTHER -> Nil]
MCKeysOf == [r \in MCRows |-> IF r = "product" THEN {"read"} ELSE {}]
MCClerkOf == [r \in MCRows |-> IF r = "u1" THEN "s1" ELSE Nil]
MCStartPath == [r \in {r \in MCRows : MCModelOf[r] = "User"} |-> IF r = "u2" THEN <<"u1">> ELSE <<>>]
MCDamages == {[row |-> "cart", field |-> "userId", to |-> "x"],
              [row |-> "price", field |-> "productId", to |-> "other"],
              [row |-> "log", field |-> "actorId", to |-> "lost"],
              [row |-> "invitation", field |-> "invitedBy", to |-> "lost"]}
MCModels == <<"User", "UserInvitation", "Product", "ProductPrice", "CheckoutSession", "Feature", "ActivityLog">>

\* What the runbook does not take for granted; at most one at a time, and then
\* the server does not write.
Oddities == {o \in {"damage", "domain", "elsewhere", "first", "held"} :
                \/ o = "damage" /\ damage # Nil
                \/ o = "domain" /\ domain # "canonical"
                \/ o = "elsewhere" /\ tenant["x"] # Other
                \/ o = "first" /\ tenant["product"] # Nil
                \/ o = "held" /\ identity["s1"] # Nil}

-----------------------------------------------------------------------------
(* The rows called for: a user and its purchase in each environment, and two *)
(* to come.                                                                  *)

MCStore == [t \in Things |->
              CASE t = "ann" -> [env |-> "dev", tenant |-> t1, user |-> Absent]
                [] t = "bob" -> [env |-> "production", tenant |-> t2, user |-> Absent]
                [] t = "pa"  -> [env |-> "dev", tenant |-> t1, user |-> "ann"]
                [] t = "pb"  -> [env |-> "production", tenant |-> t2, user |-> "bob"]
                [] OTHER     -> Absent]

\* What a caller may claim: nothing, or the other environment and tenant.
Claims(r) == {<<Absent, Absent>>} \cup {<<e, t2>> : e \in Envs \ {EnvOf(r)}}
Accounts == Things \ Purchases

Call(kind, op, on, env, tnt, user, nested, include) ==
    [kind |-> kind, op |-> op, on |-> on, where |-> env, whereTenant |-> Absent, env |-> env,
     tenant |-> tnt, retag |-> tnt, user |-> user, nested |-> nested, include |-> include,
     includeEnv |-> env]

Find(r) == \E c \in Claims(r), include \in BOOLEAN, kind \in {"user", "purchase"} :
              Query(r, Call(kind, "find", AnyRow, c[1], Absent, Absent, Absent, include))

OnPurchase(r) ==
    \E c \in Claims(r), op \in {"create", "update", "updateMany", "upsert", "delete", "deleteMany"},
       on \in Purchases,
       user \in {Absent} \cup [how : {"scalar", "connect", "both"}, id : {"ann", "bob"}, env : {Absent}] :
          /\ op \in {"delete", "deleteMany"} => user = Absent /\ c[2] = Absent
          /\ Query(r, Call("purchase", op, on, c[1], c[2], user, Absent, FALSE))

OnUser(r) ==
    \E c \in Claims(r), on \in Accounts, op \in {"create", "update"},
       verb \in {"create", "connect", "connectOrCreate", "update", "updateMany", "upsert", "delete", "deleteMany"},
       child \in Purchases :
          Query(r, Call("user", op, on, c[1], c[2], Absent,
                        [verb |-> verb, on |-> child, where |-> c[1], env |-> c[1], tenant |-> c[2], retag |-> c[2]], FALSE))

-----------------------------------------------------------------------------

MCInit ==
    /\ BackfillInit /\ ScopeInit
    /\ store = MCStore
    /\ scene \in {"migration", "resolution", "calls"}
    /\ IF scene = "migration" THEN Cardinality(Oddities) <= 1 /\ odd = (Oddities # {})
       ELSE odd = TRUE /\ Oddities = {"domain"}
    /\ deployed = "dev" /\ domains = [h \in Hosts |-> t1]
    /\ scene = "migration" => config = Absent
    /\ scene = "calls" => config = "path-prefix"

MigrationScene == scene = "migration" /\ BackfillNext /\ (odd => writes' = 0)

CallScene ==
    \/ \E r \in Requests :
          \/ \E k \in {t1, Absent} : Arrive(r, [Plain EXCEPT !.segment = k])
          \/ Resolve(r) \/ Bind(r) \/ Find(r) \/ OnPurchase(r)
    \/ OnUser(r1)
    \/ SwitchEnv

ScopeScene == \/ scene = "resolution" /\ ResolutionStep /\ request'[r2] = Idle
              \/ scene = "calls" /\ CallScene

MCNext == \/ MigrationScene /\ UNCHANGED <<scopeVars, scene, odd>>
          \/ ScopeScene /\ UNCHANGED <<datasetVars, backfillVars, scene, odd>>

MCFairness == scene = "migration" => BackfillFairness

Spec == MCInit /\ [][MCNext]_<<datasetVars, backfillVars, scopeVars, scene, odd>> /\ MCFairness

=============================================================================
