------------------------------ MODULE ScopeGuard ------------------------------
(***************************************************************************)
(* The scoped Prisma client of lib/prisma.ts: what applyEnvScope and       *)
(* applyTenantStagingCreates make of a call, and, external, what Prisma    *)
(* then does with the arguments it is given.  Two models stand for those   *)
(* with an env column: a user, and its list of purchases, whose reference  *)
(* to the user is required.  A call is a record; the env and tenantId a    *)
(* caller wrote into it, anywhere, are its claims.                         *)
(***************************************************************************)
EXTENDS Integers, Sequences, FiniteSets

CONSTANTS
    Absent,
    Things,         \* the rows that may exist
    Purchases       \* those that are purchases; the others are users

Envs == {"dev", "production"}
AnyRow == "any row"

ASSUME ThingsAssumption ==
    /\ Purchases \subseteq Things
    /\ AnyRow \notin Things
    /\ Absent \notin Things \cup Envs

VARIABLE store      \* by row: [env, tenant, user], or Absent

Kind(t) == IF t \in Purchases THEN "purchase" ELSE "user"
Exists(t, s) == s[t] # Absent

-----------------------------------------------------------------------------
(* The guard *)

\* normalizeRelationScalarWrites: a scalar foreign key becomes a connect, one
\* beside relation data is refused.
Refused(call) == call.user # Absent /\ call.user.how = "both"

\* Bug: a scalar foreign key is left as it is.
ConnectedAsGiven(user, env) == user

Connected(user, env) ==
    IF user = Absent THEN Absent ELSE [how |-> "connect", id |-> user.id, env |-> env]

\* scopeNestedWrites: selectors, filters and data of nested writes.
ScopedNested(nested, env) ==
    IF nested = Absent THEN Absent ELSE [nested EXCEPT !.where = env, !.env = env]

\* applyEnvScope: the environment replaces every claim, in filters, selectors,
\* data and the relations selected.
Guarded(call, env) ==
    [call EXCEPT !.where = env, !.env = env, !.includeEnv = env,
                 !.user = Connected(call.user, env),
                 !.nested = ScopedNested(call.nested, env)]

\* applyTenantStagingCreates: creates are stamped, updates lose their claim.
Stamped(data, t) == IF data = Absent THEN Absent ELSE [data EXCEPT !.tenant = t, !.retag = Absent]

Staged(call, t) ==
    IF t = Absent THEN call
    ELSE [call EXCEPT !.tenant = t, !.retag = Absent, !.nested = Stamped(call.nested, t)]

-----------------------------------------------------------------------------
(* Prisma *)

Row(data, user) == [env |-> IF data.env = Absent THEN "dev" ELSE data.env,
                    tenant |-> data.tenant, user |-> user]

Written(row, data) == [row EXCEPT !.env = IF data.env = Absent THEN @ ELSE data.env,
                                  !.tenant = IF data.retag = Absent THEN @ ELSE data.retag]

Fits(t, on, env, s) == Exists(t, s) /\ on \in {t, AnyRow} /\ env \in {Absent, s[t].env}

\* A call includes the purchases of a user, or the user of a purchase, which
\* cannot be filtered and so becomes a condition on the purchase.
Found(call, s) ==
    {t \in Things :
        /\ Kind(t) = call.kind /\ Fits(t, call.on, call.where, s)
        /\ call.whereTenant \in {Absent, s[t].tenant}
        /\ call.include /\ call.kind = "purchase" => call.includeEnv \in {Absent, s[s[t].user].env}}

Included(call, s) ==
    IF ~call.include THEN {}
    ELSE IF call.kind = "purchase" THEN {s[t].user : t \in Found(call, s)}
    ELSE {t \in Purchases : Fits(t, AnyRow, call.includeEnv, s) /\ s[t].user \in Found(call, s)}

\* The rows a nested write of user p selects, and the one it creates.
Picks(n, p, s) ==
    {t \in Purchases : /\ Fits(t, n.on, n.where, s)
                       /\ n.verb \in {"connect", "connectOrCreate"} \/ s[t].user = p}
Makes(n, p, s) ==
    n.verb = "create" \/ (n.verb \in {"connectOrCreate", "upsert"} /\ Picks(n, p, s) = {})

NestedFails(n, p, s) ==
    \/ Makes(n, p, s) /\ (n.on = AnyRow \/ Exists(n.on, s))
    \/ n.verb \in {"connect", "update", "delete"} /\ Picks(n, p, s) = {}

AfterNested(n, p, s) ==
    [t \in Things |->
        IF Makes(n, p, s) THEN IF t = n.on THEN Row(n, p) ELSE s[t]
        ELSE IF t \notin Picks(n, p, s) THEN s[t]
        ELSE IF n.verb \in {"connect", "connectOrCreate"} THEN [s[t] EXCEPT !.user = p]
        ELSE IF n.verb \in {"delete", "deleteMany"} THEN Absent
        ELSE Written(s[t], n)]

UserOf(call, t, s) == IF call.user # Absent THEN call.user.id
                      ELSE IF Exists(t, s) THEN s[t].user ELSE Absent

\* A purchase needs a user, and a connect a row that fits its selector.
UserFails(call, t, s) ==
    \/ Kind(t) = "purchase" /\ (UserOf(call, t, s) = Absent \/ ~Exists(UserOf(call, t, s), s))
    \/ /\ call.user # Absent /\ call.user.how = "connect"
       /\ ~Fits(call.user.id, call.user.id, call.user.env, s)

\* What a create, update or delete makes of the rows; a call that fails leaves
\* them alone.
Creates(call, s) == call.op = "create" \/ (call.op = "upsert" /\ Found(call, s) = {})
Targets(call, s) == IF Creates(call, s) THEN {call.on} ELSE Found(call, s)

Base(call, s) ==
    [t \in Things |->
        IF t \notin Targets(call, s) THEN s[t]
        ELSE IF Creates(call, s) THEN Row(call, UserOf(call, t, s))
        ELSE IF call.op \in {"delete", "deleteMany"} THEN Absent
        ELSE [Written(s[t], call) EXCEPT !.user = UserOf(call, t, s)]]

Fails(call, s) ==
    \/ call.op = "create" /\ Exists(call.on, s)
    \/ call.op = "upsert" /\ Creates(call, s) /\ Exists(call.on, s)
    \/ call.op \in {"update", "delete"} /\ Found(call, s) = {}
    \/ call.op \in {"create", "update", "updateMany", "upsert"}
         /\ \E t \in Targets(call, s) : UserFails(call, t, s)
    \/ call.op \in {"delete", "deleteMany"} /\ \E p \in Purchases : Exists(p, s) /\ s[p].user \in Found(call, s)
    \/ call.nested # Absent /\ \E t \in Targets(call, s) : NestedFails(call.nested, t, Base(call, s))

After(call, s) ==
    IF call.op = "find" \/ Fails(call, s) THEN s
    ELSE IF call.nested = Absent \/ Targets(call, s) = {} THEN Base(call, s)
    ELSE AfterNested(call.nested, CHOOSE t \in Targets(call, s) : TRUE, Base(call, s))

\* What a call returns.
Seen(call, s) ==
    IF call.op = "find" THEN Found(call, s) \cup Included(call, s) ELSE {}

=============================================================================
