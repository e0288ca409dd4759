---------------------------- MODULE TenancyProofs ----------------------------
(***************************************************************************)
(* Theorems about tenancy, for any rows, tenants, hosts and requests:      *)
(*   - a request's calls stay in its environment and tenant                *)
(*     (RequestsStayInScope);                                              *)
(*   - it runs in the tenant it named, by a configuration in force         *)
(*     (BoundAsConfigured);                                                *)
(*   - the migration takes no row from a tenant (TenantIsKept), and leaves *)
(*     nothing for the verifier to find (BackfilledIsClean).               *)
(***************************************************************************)
EXTENDS Backfill, TenantScope, FiniteSetTheorems, TLAPS

-----------------------------------------------------------------------------
(* The calls a handler makes *)

EnvClaim == Envs \cup {Absent}
TenantClaim == Tenants \cup {Absent}
Ops == {"find", "create", "update", "updateMany", "upsert", "delete", "deleteMany"}
Verbs == {"create", "connect", "connectOrCreate", "update", "updateMany", "upsert",
          "delete", "deleteMany"}

Linked == [how : {"scalar", "connect", "both"}, id : Things \ Purchases, env : EnvClaim]
Nested == [verb : Verbs, on : Purchases \cup {AnyRow}, where : EnvClaim, env : EnvClaim,
           tenant : TenantClaim, retag : TenantClaim]

\* Any claims, anywhere: a purchase may name its user, a user that is created
\* or updated may write its purchases.
Calls ==
    {c \in [kind : {"user", "purchase"}, op : Ops, on : Things \cup {AnyRow},
            where : EnvClaim, whereTenant : TenantClaim, env : EnvClaim,
            tenant : TenantClaim, retag : TenantClaim, user : Linked \cup {Absent},
            nested : Nested \cup {Absent}, include : BOOLEAN, includeEnv : EnvClaim] :
        /\ c.on \in Things => Kind(c.on) = c.kind
        /\ c.op \in {"create", "upsert"} => c.on \in Things
        /\ c.user # Absent => c.kind = "purchase"
        /\ c.nested # Absent => c.kind = "user" /\ c.op \in {"create", "update", "upsert"}}

\* Requests, their calls, and all that changes meanwhile: both scenes of
\* MCTenancy about requests at once.
ScopeNext ==
    \/ ResolutionStep
    \/ SwitchEnv
    \/ \E r \in Requests, c \in Calls : Query(r, c)

\* The rows there are at first may be any.
StoreRow == [env : Envs, tenant : TenantClaim, user : Things \cup {Absent}]
Stores == [Things -> StoreRow \cup {Absent}]

ScopeSpec == ScopeInit /\ store \in Stores /\ [][ScopeNext]_scopeVars

-----------------------------------------------------------------------------
(* The scoped client *)

\* A call as it leaves the guard of a request in environment e and tenant t.
Scoped(c, e, t) ==
    /\ c.kind \in {"user", "purchase"} /\ c.op \in Ops
    /\ c.where = e /\ c.env = e /\ c.includeEnv = e
    /\ c.on \in Things => Kind(c.on) = c.kind
    /\ c.op \in {"create", "upsert"} => c.on \in Things
    /\ c.tenant \in TenantClaim /\ c.retag \in TenantClaim
    /\ t # Absent => c.tenant = t /\ c.retag = Absent
    /\ c.user # Absent =>
          /\ c.kind = "purchase"
          /\ c.user.how = "connect" /\ c.user.id \in Things \ Purchases /\ c.user.env = e
    /\ c.nested # Absent =>
          /\ c.kind = "user" /\ c.op \in {"create", "update", "upsert"}
          /\ c.nested.verb \in Verbs /\ c.nested.on \in Purchases \cup {AnyRow}
          /\ c.nested.where = e /\ c.nested.env = e
          /\ c.nested.tenant \in TenantClaim /\ c.nested.retag \in TenantClaim
          /\ t # Absent => c.nested.tenant = t /\ c.nested.retag = Absent

\* Whatever the call claimed, the guard makes it a call of its request.
LEMMA CallsAreScoped ==
    ASSUME NEW call \in Calls, NEW e \in Envs, NEW t \in TenantClaim,
           NEW w \in TenantClaim
    PROVE  Scoped(Staged(Guarded([call EXCEPT !.whereTenant = w], e), t), e, t)
<1>. DEFINE CallRow == [kind : {"user", "purchase"}, op : Ops, on : Things \cup {AnyRow},
                        where : EnvClaim, whereTenant : TenantClaim, env : EnvClaim,
                        tenant : TenantClaim, retag : TenantClaim, user : Linked \cup {Absent},
                        nested : Nested \cup {Absent}, include : BOOLEAN, includeEnv : EnvClaim]
            b == [call EXCEPT !.whereTenant = w]
            g == Guarded(b, e)
            c == Staged(g, t)
<1>1. /\ b \in CallRow /\ b.kind = call.kind /\ b.op = call.op /\ b.on = call.on
      /\ b.user = call.user /\ b.nested = call.nested
  BY DEF Calls
<1>2. Connected(b.user, e) \in Linked \cup {Absent}
      /\ (b.user = Absent => Connected(b.user, e) = Absent)
      /\ (b.user # Absent => /\ Connected(b.user, e).how = "connect"
                             /\ Connected(b.user, e).id \in Things \ Purchases
                             /\ Connected(b.user, e).env = e)
  <2>1. CASE b.user = Absent
    BY <2>1 DEF Connected
  <2>2. CASE b.user # Absent
    <3>1. b.user \in Linked
      BY <1>1, <2>2
    <3>. QED
      BY <2>2, <3>1 DEF Connected, Linked, EnvClaim
  <2>. QED
    BY <2>1, <2>2
<1>3. /\ ScopedNested(b.nested, e) \in Nested \cup {Absent}
      /\ b.nested = Absent => ScopedNested(b.nested, e) = Absent
      /\ b.nested # Absent => /\ ScopedNested(b.nested, e) \in Nested
                              /\ ScopedNested(b.nested, e).where = e
                              /\ ScopedNested(b.nested, e).env = e
  <2>1. CASE b.nested = Absent
    BY <2>1 DEF ScopedNested
  <2>2. CASE b.nested # Absent
    <3>1. b.nested \in Nested
      BY <1>1, <2>2
    <3>. QED
      BY <2>2, <3>1 DEF ScopedNested, Nested, EnvClaim
  <2>. QED
    BY <2>1, <2>2
<1>4. /\ g \in CallRow /\ g.kind = b.kind /\ g.op = b.op /\ g.on = b.on
      /\ g.where = e /\ g.env = e /\ g.includeEnv = e
      /\ g.user = Connected(b.user, e) /\ g.nested = ScopedNested(b.nested, e)
  <2>. HIDE DEF b
  <2>. QED
    BY <1>1, <1>2, <1>3 DEF Guarded, EnvClaim
<1>. HIDE DEF b, g
<1>5. /\ c.kind = g.kind /\ c.op = g.op /\ c.on = g.on
      /\ c.where = e /\ c.env = e /\ c.includeEnv = e /\ c.user = g.user
      /\ c.tenant \in TenantClaim /\ c.retag \in TenantClaim
      /\ t # Absent => c.tenant = t /\ c.retag = Absent
      /\ c.nested = IF t = Absent THEN g.nested ELSE Stamped(g.nested, t)
  <2>1. CASE t = Absent
    BY <1>4, <2>1 DEF Staged
  <2>2. CASE t # Absent
    BY <1>4, <2>2 DEF Staged, TenantClaim
  <2>. QED
    BY <2>1, <2>2
<1>. HIDE DEF c
<1>6. /\ c.nested # Absent => g.nested \in Nested
      /\ c.nested # Absent =>
            /\ c.nested.verb \in Verbs /\ c.nested.on \in Purchases \cup {AnyRow}
            /\ c.nested.where = e /\ c.nested.env = e
            /\ c.nested.tenant \in TenantClaim /\ c.nested.retag \in TenantClaim
            /\ t # Absent => c.nested.tenant = t /\ c.nested.retag = Absent
            /\ call.nested # Absent
  BY <1>1, <1>3, <1>4, <1>5 DEF Stamped, Nested, TenantClaim
<1>7. c.user # Absent => /\ c.user.how = "connect" /\ c.user.id \in Things \ Purchases
                        /\ c.user.env = e /\ call.user # Absent
  BY <1>1, <1>2, <1>4, <1>5
<1>8. /\ call.kind \in {"user", "purchase"} /\ call.op \in Ops
      /\ call.on \in Things => Kind(call.on) = call.kind
      /\ call.op \in {"create", "upsert"} => call.on \in Things
      /\ call.user # Absent => call.kind = "purchase"
      /\ call.nested # Absent => call.kind = "user" /\ call.op \in {"create", "update", "upsert"}
  BY DEF Calls
<1>9. Scoped(c, e, t)
  BY <1>1, <1>4, <1>5, <1>6, <1>7, <1>8 DEF Scoped
<1>. QED
  BY <1>9 DEF c, g, b

-----------------------------------------------------------------------------
(* What Prisma makes of a scoped call *)

Own(x, s, e) == Exists(x, s) => s[x].env = e

\* Between the rows s and z only rows of environment e changed, into rows of e
\* and tenant t, and references that changed are to rows of e.
Confined(s, z, e, t) ==
    \A x \in Things : z[x] # s[x] =>
        /\ Own(x, s, e) /\ Own(x, z, e)
        /\ Exists(x, z) /\ t # Absent =>
              z[x].tenant = IF Exists(x, s) THEN s[x].tenant ELSE t
        /\ Exists(x, z) /\ Kind(x) = "purchase" /\ (~Exists(x, s) \/ s[x].user # z[x].user)
              => Own(z[x].user, z, e)

LEMMA FoundIsOwn ==
    ASSUME NEW s \in Stores, NEW e \in Envs, NEW t \in TenantClaim, NEW c, Scoped(c, e, t),
           NEW x \in Found(c, s)
    PROVE  x \in Things /\ Kind(x) = c.kind /\ s[x] \in StoreRow /\ s[x].env = e
BY ThingsAssumption DEF Found, Fits, Exists, Scoped, Stores

\* The rows a call selects or creates.
LEMMA TargetsAre ==
    ASSUME NEW s \in Stores, NEW e \in Envs, NEW t \in TenantClaim, NEW c, Scoped(c, e, t),
           c.op # "find", ~Fails(c, s), NEW x \in Targets(c, s)
    PROVE  /\ x \in Things /\ Kind(x) = c.kind
           /\ Creates(c, s) => ~Exists(x, s)
           /\ ~Creates(c, s) => s[x] \in StoreRow /\ s[x].env = e
           /\ c.op \notin {"delete", "deleteMany"} => ~UserFails(c, x, s)
<1>1. CASE Creates(c, s)
  BY <1>1, FoundIsOwn DEF Creates, Targets, Fails, Scoped, Ops
<1>2. CASE ~Creates(c, s)
  BY <1>2, FoundIsOwn DEF Creates, Targets, Fails, Scoped, Ops
<1>. QED
  BY <1>1, <1>2

LEMMA RowsAreWritten ==
    ASSUME NEW e \in Envs, NEW data, data.env = e, data.tenant \in TenantClaim,
           data.retag \in TenantClaim, NEW u \in Things \cup {Absent}, NEW row \in StoreRow
    PROVE  /\ Row(data, u) \in StoreRow
           /\ Row(data, u).env = e /\ Row(data, u).tenant = data.tenant /\ Row(data, u).user = u
           /\ Written(row, data) \in StoreRow
           /\ Written(row, data).env = e /\ Written(row, data).user = row.user
           /\ data.retag = Absent => Written(row, data).tenant = row.tenant
<1>1. data.env # Absent
  BY ThingsAssumption
<1>. QED
  BY <1>1 DEF Row, Written, StoreRow

\* The call itself, without its nested write.
LEMMA BaseIsConfined ==
    ASSUME NEW s \in Stores, NEW e \in Envs, NEW t \in TenantClaim, NEW c, Scoped(c, e, t),
           c.op # "find", ~Fails(c, s)
    PROVE  /\ Base(c, s) \in Stores
           /\ Confined(s, Base(c, s), e, t)
           /\ \A x \in Things : Kind(x) # c.kind => Base(c, s)[x] = s[x]
           /\ \A x \in Targets(c, s) : x \in Things /\ Kind(x) = c.kind /\ Own(x, Base(c, s), e)
<1>. DEFINE z == Base(c, s)
<1>1. ASSUME NEW x \in Things, x \notin Targets(c, s)
      PROVE  z[x] = s[x] /\ z[x] \in StoreRow \cup {Absent}
  BY <1>1 DEF Base, Stores
<1>2. ASSUME NEW x \in Targets(c, s), Creates(c, s)
      PROVE  /\ x \in Things /\ Kind(x) = c.kind /\ ~Exists(x, s)
             /\ z[x] \in StoreRow /\ z[x].env = e /\ z[x].tenant = c.tenant
             /\ z[x].user = UserOf(c, x, s)
  <2>1. x \in Things /\ Kind(x) = c.kind /\ ~Exists(x, s)
    BY <1>2, TargetsAre
  <2>2. UserOf(c, x, s) \in Things \cup {Absent}
    BY <2>1 DEF UserOf, Scoped
  <2>3. z[x] = Row(c, UserOf(c, x, s))
    BY <1>2, <2>1 DEF Base
  <2>. QED
    BY <2>1, <2>2, <2>3, RowsAreWritten, ThingsAssumption DEF Scoped, Row, StoreRow
<1>3. ASSUME NEW x \in Targets(c, s), ~Creates(c, s), c.op \notin {"delete", "deleteMany"}
      PROVE  /\ x \in Things /\ Kind(x) = c.kind /\ s[x] \in StoreRow /\ s[x].env = e
             /\ z[x] \in StoreRow /\ z[x].env = e /\ z[x].user = UserOf(c, x, s)
             /\ c.retag = Absent => z[x].tenant = s[x].tenant
  <2>1. x \in Things /\ Kind(x) = c.kind /\ s[x] \in StoreRow /\ s[x].env = e
    BY <1>3, TargetsAre
  <2>2. UserOf(c, x, s) \in Things \cup {Absent}
    BY <2>1 DEF UserOf, Scoped, StoreRow
  <2>3. z[x] = [Written(s[x], c) EXCEPT !.user = UserOf(c, x, s)]
    BY <1>3, <2>1 DEF Base
  <2>4. /\ Written(s[x], c) \in StoreRow /\ Written(s[x], c).env = e
        /\ c.retag = Absent => Written(s[x], c).tenant = s[x].tenant
    BY <2>1, RowsAreWritten DEF Scoped
  <2>. HIDE DEF z
  <2>. QED
    BY <2>1, <2>2, <2>3, <2>4 DEF StoreRow
<1>4. ASSUME NEW x \in Targets(c, s), ~Creates(c, s), c.op \in {"delete", "deleteMany"}
      PROVE  /\ x \in Things /\ Kind(x) = c.kind /\ s[x].env = e /\ z[x] = Absent
  BY <1>4, TargetsAre DEF Base
<1>5. z \in Stores
  <2>1. \A x \in Things : z[x] \in StoreRow \cup {Absent}
    BY <1>1, <1>2, <1>3, <1>4
  <2>2. z = [x \in Things |-> z[x]]
    BY DEF Base
  <2>. QED
    BY <2>1, <2>2 DEF Stores
<1>6. \A x \in Things : Kind(x) # c.kind => z[x] = s[x]
  BY <1>1, <1>2, <1>3, <1>4
<1>7. \A x \in Targets(c, s) : x \in Things /\ Kind(x) = c.kind /\ Own(x, z, e) /\ Own(x, s, e)
  BY <1>2, <1>3, <1>4 DEF Own, Exists
<1>8. ASSUME NEW x \in Things, Exists(x, z), t # Absent, z[x] # s[x]
      PROVE  z[x].tenant = IF Exists(x, s) THEN s[x].tenant ELSE t
  <2>1. c.tenant = t /\ c.retag = Absent /\ x \in Targets(c, s)
    BY <1>1, <1>8 DEF Scoped
  <2>2. z[x] # Absent
    BY <1>8 DEF Exists
  <2>. HIDE DEF z
  <2>3. CASE Creates(c, s)
    BY <1>2, <2>1, <2>3
  <2>4. CASE ~Creates(c, s)
    <3>1. c.op \notin {"delete", "deleteMany"} /\ s[x] \in StoreRow
          /\ z[x].tenant = s[x].tenant
      BY <1>3, <1>4, <2>1, <2>2, <2>4
    <3>2. Exists(x, s)
      BY <2>1, <2>4, TargetsAre, FoundIsOwn DEF Targets, Found, Fits
    <3>. QED
      BY <3>1, <3>2
  <2>. QED
    BY <2>3, <2>4
<1>9. ASSUME NEW x \in Things, Exists(x, z), Kind(x) = "purchase", z[x] # s[x],
             ~Exists(x, s) \/ s[x].user # z[x].user
      PROVE  Own(z[x].user, z, e)
  <2>1. x \in Targets(c, s) /\ c.op \notin {"delete", "deleteMany"} /\ c.kind = "purchase"
        /\ z[x].user = UserOf(c, x, s)
    BY <1>1, <1>2, <1>3, <1>4, <1>9 DEF Exists, Creates
  <2>2. ~UserFails(c, x, s)
    BY <2>1, TargetsAre
  <2>3. c.user # Absent
    BY <1>9, <2>1, <2>2 DEF UserFails, UserOf
  <2>4. /\ z[x].user = c.user.id /\ c.user.id \in Things \ Purchases
        /\ s[c.user.id].env = e
    BY <2>1, <2>2, <2>3, ThingsAssumption DEF UserOf, UserFails, Fits, Scoped
  <2>5. z[c.user.id] = s[c.user.id]
    BY <1>6, <2>1, <2>4 DEF Kind
  <2>. QED
    BY <2>4, <2>5 DEF Own
<1>10. Confined(s, z, e, t)
  <2>1. ASSUME NEW x \in Things, z[x] # s[x] PROVE Own(x, s, e) /\ Own(x, z, e)
    BY <1>1, <1>7, <2>1
  <2>. HIDE DEF z
  <2>. QED
    BY <1>8, <1>9, <2>1 DEF Confined
<1>. QED
  BY <1>5, <1>6, <1>7, <1>10

\* The nested write of a user's purchases.
LEMMA NestedIsConfined ==
    ASSUME NEW b \in Stores, NEW e \in Envs, NEW t \in TenantClaim,
           NEW n, n.verb \in Verbs, n.on \in Purchases \cup {AnyRow}, n.where = e, n.env = e,
           n.tenant \in TenantClaim, n.retag \in TenantClaim,
           t # Absent => n.tenant = t /\ n.retag = Absent,
           NEW p \in Things \ Purchases, Own(p, b, e), ~NestedFails(n, p, b)
    PROVE  /\ AfterNested(n, p, b) \in Stores
           /\ Confined(b, AfterNested(n, p, b), e, t)
           /\ \A x \in Things \ Purchases : AfterNested(n, p, b)[x] = b[x]
<1>. PICK z : z = AfterNested(n, p, b)
  OBVIOUS
<1>1. z = [x \in Things |-> z[x]]
  BY DEF AfterNested
<1>2. ASSUME NEW x \in Things, x # n.on, x \notin Picks(n, p, b)
      PROVE  z[x] = b[x]
  BY <1>2 DEF AfterNested
<1>3. ASSUME NEW x \in Things, Makes(n, p, b), x # n.on
      PROVE  z[x] = b[x]
  BY <1>3 DEF AfterNested
<1>4. ASSUME NEW x \in Things, ~Makes(n, p, b), x \notin Picks(n, p, b)
      PROVE  z[x] = b[x]
  BY <1>4 DEF AfterNested
<1>5. ASSUME NEW x \in Things, Makes(n, p, b), x = n.on
      PROVE  /\ x \in Purchases /\ ~Exists(x, b)
             /\ z[x] \in StoreRow /\ z[x].env = e /\ z[x].tenant = n.tenant /\ z[x].user = p
  <2>1. x \in Purchases /\ ~Exists(x, b)
    BY <1>5, ThingsAssumption DEF NestedFails
  <2>2. z[x] = Row(n, p)
    BY <1>5 DEF AfterNested
  <2>3. n.env # Absent
    BY ThingsAssumption
  <2>. QED
    BY <2>1, <2>2, <2>3 DEF Row, StoreRow
<1>6. ASSUME NEW x \in Things, ~Makes(n, p, b), x \in Picks(n, p, b)
      PROVE  /\ x \in Purchases /\ b[x] \in StoreRow /\ b[x].env = e
             /\ z[x] \in StoreRow \cup {Absent}
             /\ Exists(x, z) => /\ z[x].env = e /\ z[x].user \in {p, b[x].user}
                                /\ n.retag = Absent => z[x].tenant = b[x].tenant
  <2>1. x \in Purchases /\ b[x] \in StoreRow /\ b[x].env = e
    BY <1>6, ThingsAssumption DEF Picks, Fits, Exists, Stores
  <2>2. CASE n.verb \in {"connect", "connectOrCreate"}
    <3>1. z[x] = [b[x] EXCEPT !.user = p]
      BY <1>6, <2>2 DEF AfterNested
    <3>. QED
      BY <2>1, <3>1 DEF StoreRow
  <2>3. CASE n.verb \in {"delete", "deleteMany"}
    <3>1. z[x] = Absent
      BY <1>6, <2>3 DEF AfterNested
    <3>. QED
      BY <2>1, <3>1 DEF Exists
  <2>4. CASE n.verb \notin {"connect", "connectOrCreate", "delete", "deleteMany"}
    <3>1. z[x] = Written(b[x], n)
      BY <1>6, <2>4 DEF AfterNested
    <3>2. /\ Written(b[x], n) \in StoreRow /\ Written(b[x], n).env = e
          /\ Written(b[x], n).user = b[x].user
          /\ n.retag = Absent => Written(b[x], n).tenant = b[x].tenant
      <4>1. n.env # Absent
        BY ThingsAssumption
      <4>2. PICK row \in StoreRow : row = b[x]
        BY <2>1
      <4>. QED
        BY <2>1, <4>1, <4>2 DEF Written, StoreRow
    <3>. QED
      BY <2>1, <3>1, <3>2
  <2>. QED
    BY <2>2, <2>3, <2>4
<1>7. z \in Stores
  <2>1. ASSUME NEW x \in Things PROVE z[x] \in StoreRow \cup {Absent}
    <3>1. b[x] \in StoreRow \cup {Absent}
      BY DEF Stores
    <3>. QED
      BY <1>3, <1>4, <1>5, <1>6, <3>1
  <2>. QED
    BY <1>1, <2>1 DEF Stores
<1>8. \A x \in Things \ Purchases : z[x] = b[x]
  BY <1>3, <1>4, <1>5, <1>6
<1>9. ASSUME NEW x \in Things, z[x] # b[x]
      PROVE  /\ Own(x, b, e) /\ Own(x, z, e)
             /\ Exists(x, z) /\ t # Absent =>
                   z[x].tenant = IF Exists(x, b) THEN b[x].tenant ELSE t
             /\ Exists(x, z) /\ (~Exists(x, b) \/ b[x].user # z[x].user)
                   => Own(z[x].user, z, e)
  <2>1. z[p] = b[p]
    BY <1>8
  <2>2. Own(p, z, e)
    BY <2>1 DEF Own, Exists
  <2>3. CASE Makes(n, p, b)
    <3>1. x = n.on
      BY <1>3, <1>9, <2>3
    <3>2. /\ ~Exists(x, b) /\ z[x].env = e /\ z[x].tenant = n.tenant /\ z[x].user = p
      BY <1>5, <2>3, <3>1
    <3>. QED
      BY <2>2, <3>2 DEF Own
  <2>4. CASE ~Makes(n, p, b)
    <3>1. x \in Picks(n, p, b)
      BY <1>4, <1>9, <2>4
    <3>2. /\ b[x].env = e
          /\ Exists(x, z) => /\ z[x].env = e /\ z[x].user \in {p, b[x].user}
                             /\ n.retag = Absent => z[x].tenant = b[x].tenant
      BY <1>6, <2>4, <3>1
    <3>3. Exists(x, b)
      BY <3>1 DEF Picks, Fits
    <3>. QED
      BY <2>2, <3>2, <3>3 DEF Own
  <2>. QED
    BY <2>3, <2>4
<1>10. Confined(b, z, e, t)
  <2>. QED
    BY <1>9 DEF Confined
<1>. QED
  BY <1>7, <1>8, <1>10

LEMMA CallIsConfined ==
    ASSUME NEW s \in Stores, NEW e \in Envs, NEW t \in TenantClaim, NEW c, Scoped(c, e, t)
    PROVE  /\ After(c, s) \in Stores
           /\ Confined(s, After(c, s), e, t)
<1>1. CASE c.op = "find" \/ Fails(c, s)
  BY <1>1 DEF After, Confined
<1>2. CASE c.op # "find" /\ ~Fails(c, s) /\ (c.nested = Absent \/ Targets(c, s) = {})
  BY <1>2, BaseIsConfined DEF After
<1>3. CASE c.op # "find" /\ ~Fails(c, s) /\ c.nested # Absent /\ Targets(c, s) # {}
  <2>1. PICK p \in Targets(c, s) : p = CHOOSE x \in Targets(c, s) : TRUE
    BY <1>3
  <2>2. PICK b : b = Base(c, s)
    OBVIOUS
  <2>3. PICK n : n = c.nested
    OBVIOUS
  <2>4. After(c, s) = AfterNested(n, p, b)
    BY <1>3, <2>1, <2>2, <2>3 DEF After
  <2>5. /\ b \in Stores /\ Confined(s, b, e, t) /\ Own(p, b, e)
        /\ p \in Things /\ Kind(p) = c.kind
        /\ \A x \in Things : Kind(x) # c.kind => b[x] = s[x]
    BY <1>3, <2>1, <2>2, BaseIsConfined
  <2>6. c.kind = "user" /\ p \in Things \ Purchases
    BY <1>3, <2>5 DEF Scoped, Kind
  <2>7. ~NestedFails(n, p, b)
    BY <1>3, <2>1, <2>2, <2>3 DEF Fails
  <2>8. /\ n.verb \in Verbs /\ n.on \in Purchases \cup {AnyRow} /\ n.where = e /\ n.env = e
        /\ n.tenant \in TenantClaim /\ n.retag \in TenantClaim
        /\ t # Absent => n.tenant = t /\ n.retag = Absent
    BY <1>3, <2>3 DEF Scoped
  <2>9. PICK z : z = AfterNested(n, p, b)
    OBVIOUS
  <2>10. /\ z \in Stores /\ Confined(b, z, e, t)
         /\ \A x \in Things \ Purchases : z[x] = b[x]
    BY <2>5, <2>6, <2>7, <2>8, <2>9, NestedIsConfined
  <2>11. \A x \in Purchases : b[x] = s[x]
    BY <2>5, <2>6, ThingsAssumption DEF Kind
  <2>12. ASSUME NEW x \in Things, z[x] # s[x]
         PROVE  /\ Own(x, s, e) /\ Own(x, z, e)
                /\ Exists(x, z) /\ t # Absent =>
                      z[x].tenant = IF Exists(x, s) THEN s[x].tenant ELSE t
                /\ Exists(x, z) /\ Kind(x) = "purchase"
                      /\ (~Exists(x, s) \/ s[x].user # z[x].user)
                      => Own(z[x].user, z, e)
    <3>1. CASE x \in Purchases
      BY <2>10, <2>11, <2>12, <3>1 DEF Confined, Own, Exists
    <3>2. CASE x \notin Purchases
      <4>1. z[x] = b[x] /\ Kind(x) = "user"
        BY <2>10, <3>2 DEF Kind
      <4>. QED
        BY <2>5, <2>12, <4>1 DEF Confined, Own, Exists
    <3>. QED
      BY <3>1, <3>2
  <2>13. Confined(s, z, e, t)
    BY <2>12 DEF Confined
  <2>. QED
    BY <2>4, <2>9, <2>10, <2>13
<1>. QED
  BY <1>1, <1>2, <1>3

\* A call returns rows of its environment only.
LEMMA SeenIsOwn ==
    ASSUME NEW s \in Stores, NEW e \in Envs, NEW t \in TenantClaim, NEW c, Scoped(c, e, t),
           NEW x \in Seen(c, s)
    PROVE  Own(x, s, e)
<1>1. CASE x \in Found(c, s)
  BY <1>1, FoundIsOwn DEF Own
<1>2. CASE x \in Included(c, s) /\ c.kind = "purchase"
  BY <1>2, ThingsAssumption DEF Included, Found, Scoped, Own
<1>3. CASE x \in Included(c, s) /\ c.kind # "purchase"
  BY <1>3, ThingsAssumption DEF Included, Fits, Scoped, Own
<1>. QED
  BY <1>1, <1>2, <1>3 DEF Seen

-----------------------------------------------------------------------------
(* Requests *)

Pcs == {"idle", "resolve", "bind", "run"}

\* A request that has begun has an environment, and its tenant is one there is.
RequestTyped(q) ==
    /\ q = [pc |-> q.pc, input |-> q.input, env |-> q.env, candidate |-> q.candidate,
            tenant |-> q.tenant, due |-> q.due]
    /\ q.pc \in Pcs
    /\ q.pc # "idle" => q.env \in Envs
    /\ q.tenant \in TenantClaim

ScopeTyped ==
    /\ store \in Stores
    /\ deployed \in Envs
    /\ active \subseteq Tenants
    /\ request = [r \in Requests |-> request[r]]
    /\ \A r \in Requests : RequestTyped(request[r])

LEMMA IdleTyped == RequestTyped(Idle) /\ Idle.pc = "idle"
BY DEF RequestTyped, Idle, Pcs, TenantClaim

\* What each step of a request makes of it.
LEMMA RequestMoves ==
    ASSUME ScopeTyped, NEW r \in Requests, NEW input,
           Arrive(r, input) \/ Resolve(r) \/ Bind(r) \/ Finish(r)
    PROVE  /\ UNCHANGED <<store, deployed, active, calls>>
           /\ request' = [q \in Requests |-> request'[q]]
           /\ \A q \in Requests \ {r} : request'[q] = request[q]
           /\ RequestTyped(request'[r])
<1>t. /\ request = [q \in Requests |-> request[q]] /\ RequestTyped(request[r])
      /\ deployed \in Envs /\ active \subseteq Tenants
  BY DEF ScopeTyped
<1>1. CASE Arrive(r, input)
  <2>. PICK q : q = [Idle EXCEPT !.pc = "resolve", !.input = input, !.env = deployed]
    OBVIOUS
  <2>1. request' = [request EXCEPT ![r] = q]
    BY <1>1 DEF Arrive
  <2>2. UNCHANGED <<store, deployed, active, calls>>
    BY <1>1 DEF Arrive
  <2>3. RequestTyped(q)
    BY <1>t DEF RequestTyped, Idle, Pcs, TenantClaim
  <2>. QED
    BY <1>t, <2>1, <2>2, <2>3
<1>2. CASE Resolve(r)
  <2>1. PICK candidate, due :
           request' = [request EXCEPT ![r] =
                          [@ EXCEPT !.pc = "bind", !.candidate = candidate, !.due = due]]
           \/ request' = [request EXCEPT ![r] = Idle]
    BY <1>2 DEF Resolve
  <2>2. UNCHANGED <<store, deployed, active, calls>> /\ request[r].pc = "resolve"
    BY <1>2 DEF Resolve
  <2>3. \/ request'[r] = [request[r] EXCEPT !.pc = "bind", !.candidate = candidate, !.due = due]
        \/ request'[r] = Idle
    BY <1>t, <2>1
  <2>4. RequestTyped(request'[r])
    BY <1>t, <2>2, <2>3, IdleTyped DEF RequestTyped, Pcs
  <2>. QED
    BY <1>t, <2>1, <2>2, <2>4
<1>3. CASE Bind(r)
  <2>1. /\ request[r].pc = "bind"
        /\ \/ request' = [request EXCEPT ![r] = [@ EXCEPT !.pc = "run"]]
           \/ /\ Named(request[r].candidate) \in active
              /\ request' = [request EXCEPT ![r] =
                    [@ EXCEPT !.pc = "run", !.tenant = Named(request[r].candidate)]]
           \/ request' = [request EXCEPT ![r] = Idle]
    BY <1>3 DEF Bind
  <2>2. UNCHANGED <<store, deployed, active, calls>>
    BY <1>3 DEF Bind
  <2>3. \/ request'[r] = [request[r] EXCEPT !.pc = "run"]
        \/ /\ Named(request[r].candidate) \in Tenants
           /\ request'[r] = [request[r] EXCEPT !.pc = "run",
                                               !.tenant = Named(request[r].candidate)]
        \/ request'[r] = Idle
    BY <1>t, <2>1
  <2>4. RequestTyped(request'[r])
    BY <1>t, <2>1, <2>3, IdleTyped DEF RequestTyped, Pcs, TenantClaim
  <2>. QED
    BY <1>t, <2>1, <2>2, <2>4
<1>4. CASE Finish(r)
  BY <1>t, <1>4, IdleTyped DEF Finish
<1>. QED
  BY <1>1, <1>2, <1>3, <1>4

\* What happens meanwhile leaves requests and rows alone.
LEMMA MeanwhileMoves ==
    ASSUME ScopeTyped,
           \/ \E m \in Modes \cup {Absent, "invalid"} : Configure(m)
           \/ \E k \in Tenants : SetStatus(k) \/ \E h \in Hosts : SetDomain(h, k)
           \/ TickTime \/ SwitchEnv
    PROVE  ScopeTyped' /\ UNCHANGED <<request, calls>>
<1>1. UNCHANGED <<store, request, calls>>
  BY DEF Configure, SetStatus, SetDomain, TickTime, SwitchEnv
<1>2. active' \subseteq Tenants /\ deployed' \in Envs
  BY DEF ScopeTyped, Configure, SetStatus, SetDomain, TickTime, SwitchEnv
<1>. QED
  BY <1>1, <1>2 DEF ScopeTyped

\* A call of a request changes only rows of its environment and its tenant.
LEMMA QueryIsConfined ==
    ASSUME ScopeTyped, NEW r \in Requests, NEW call \in Calls, Query(r, call)
    PROVE  /\ ScopeTyped' /\ UNCHANGED request /\ last'.by = r
           /\ Confined(store, store', request[r].env, request[r].tenant)
           /\ \A x \in last'.saw : Own(x, store, request[r].env)
<1>. PICK e : e = request[r].env
  OBVIOUS
<1>. PICK t : t = request[r].tenant
  OBVIOUS
<1>1. e \in Envs /\ t \in TenantClaim /\ store \in Stores
  BY DEF ScopeTyped, RequestTyped, Query
<1>2. PICK w \in TenantClaim : w = IF call.op = "find" THEN t ELSE Absent
  BY <1>1 DEF TenantClaim
<1>. PICK c : c = Staged(Guarded([call EXCEPT !.whereTenant = w], e), t)
  OBVIOUS
<1>3. Scoped(c, e, t)
  BY <1>1, CallsAreScoped
<1>4. /\ store' = IF Refused(call) THEN store ELSE After(c, store)
      /\ last' = [by |-> r, saw |-> IF Refused(call) THEN {} ELSE Seen(c, store)]
      /\ UNCHANGED <<deployed, active, request>>
  BY <1>2 DEF Query, EnvOf, TenantOf
<1>5. store' \in Stores /\ Confined(store, store', e, t)
  BY <1>1, <1>3, <1>4, CallIsConfined DEF Confined
<1>6. \A x \in last'.saw : Own(x, store, e)
  BY <1>1, <1>3, <1>4, SeenIsOwn
<1>7. ScopeTyped'
  BY <1>4, <1>5 DEF ScopeTyped
<1>. QED
  BY <1>4, <1>5, <1>6, <1>7

LEMMA ScopeTypedStep ==
    ASSUME ScopeTyped, [ScopeNext]_scopeVars
    PROVE  ScopeTyped'
<1>1. CASE UNCHANGED scopeVars
  BY <1>1 DEF scopeVars, ScopeTyped
<1>2. ASSUME NEW r \in Requests, NEW input,
             Arrive(r, input) \/ Resolve(r) \/ Bind(r) \/ Finish(r)
      PROVE  ScopeTyped'
  <2>1. /\ UNCHANGED <<store, deployed, active>>
        /\ request' = [q \in Requests |-> request'[q]]
        /\ \A q \in Requests : RequestTyped(request'[q])
    BY <1>2, RequestMoves DEF ScopeTyped
  <2>. QED
    BY <2>1 DEF ScopeTyped
<1>3. ASSUME NEW r \in Requests, NEW call \in Calls, Query(r, call) PROVE ScopeTyped'
  BY <1>3, QueryIsConfined
<1>. QED
  BY <1>1, <1>2, <1>3, MeanwhileMoves DEF ScopeNext, ResolutionStep

LEMMA ScopeTypedInit == ScopeInit /\ store \in Stores => ScopeTyped
BY IdleTyped DEF ScopeInit, ScopeTyped

\* Whatever callers claim and however the environment is switched, a request's
\* calls return and change only rows of its own environment and tenant.
THEOREM RequestsAreConfined == ScopeSpec => RequestsStayInScope
<1>1. ASSUME ScopeTyped, [ScopeNext]_scopeVars, calls' # calls
      PROVE  LET q == request[last'.by]
                 OwnRow(t, s) == Exists(t, s) => s[t].env = q.env
             IN  /\ \A t \in last'.saw : OwnRow(t, store)
                 /\ \A t \in Things : store'[t] # store[t] =>
                       /\ OwnRow(t, store) /\ OwnRow(t, store')
                       /\ Exists(t, store') /\ q.tenant # Absent =>
                             store'[t].tenant = IF Exists(t, store) THEN store[t].tenant
                                                ELSE q.tenant
                       /\ Exists(t, store') /\ Kind(t) = "purchase" /\
                            (~Exists(t, store) \/ store[t].user # store'[t].user)
                            => OwnRow(store'[t].user, store')
  <2>1. PICK r \in Requests, call \in Calls : Query(r, call)
    <3>1. ASSUME NEW r \in Requests, NEW input,
                 Arrive(r, input) \/ Resolve(r) \/ Bind(r) \/ Finish(r)
          PROVE  FALSE
      BY <1>1, <3>1, RequestMoves
    <3>2. CASE UNCHANGED scopeVars
      BY <1>1, <3>2 DEF scopeVars
    <3>. QED
      BY <1>1, <3>1, <3>2, MeanwhileMoves DEF ScopeNext, ResolutionStep
  <2>2. /\ last'.by = r
        /\ Confined(store, store', request[r].env, request[r].tenant)
        /\ \A x \in last'.saw : Own(x, store, request[r].env)
    BY <1>1, <2>1, QueryIsConfined
  <2>. QED
    BY <2>2 DEF Confined, Own, Exists
<1>. QED
  BY <1>1, ScopeTypedInit, ScopeTypedStep, PTL DEF ScopeSpec, RequestsStayInScope

-----------------------------------------------------------------------------
(* Resolution *)

Configurations == Modes \cup {Absent, "invalid"}

\* The configuration now is in force now, and the cached one was in force when
\* it was loaded.
Configured ==
    /\ time \in Nat
    /\ config \in Configurations
    /\ inForce \in [Configurations -> Int]
    /\ inForce[config] = time
    /\ \A m \in Configurations : inForce[m] <= time
    /\ cached # Absent =>
          /\ cached.mode \in Modes \cup {Absent} /\ cached.until \in Nat
          /\ inForce[cached.mode] >= cached.until - CacheMs

\* What a request was resolved to, and the tenant it is bound to then.
Resolved(q) ==
    /\ q.pc \in {"bind", "run"} => q.candidate \in q.due
    /\ q.pc \in {"resolve", "bind"} => q.tenant = Absent
    /\ q.pc = "run" =>
          /\ (q.candidate = Absent) = (q.tenant = Absent)
          /\ q.tenant = Absent \/ q.candidate \notin Tenants \/ q.tenant = q.candidate

BoundInv == Configured /\ \A r \in Requests : Resolved(request[r])

LEMMA ResolvesAsConfigured ==
    ASSUME ScopeTyped, BoundInv, NEW r \in Requests, Resolve(r)
    PROVE  Configured' /\ Resolved(request'[r])
<1>. PICK mode : mode = IF Fresh THEN cached.mode ELSE config
  OBVIOUS
<1>. PICK due : due = {Candidate(m, request[r].input, time) :
                          m \in {m \in Modes \cup {Absent} : inForce[m] > time - CacheMs}}
  OBVIOUS
<1>. PICK candidate : candidate = Candidate(mode, request[r].input, time)
  OBVIOUS
<1>c. /\ time \in Nat /\ CacheMs \in Nat \ {0} /\ config \in Configurations
      /\ inForce \in [Configurations -> Int] /\ inForce[config] = time
  BY ScopeAssumption DEF BoundInv, Configured
<1>1. ASSUME Fresh \/ config # "invalid"
      PROVE  mode \in Modes \cup {Absent} /\ inForce[mode] > time - CacheMs
  <2>1. CASE Fresh
    <3>1. cached # Absent /\ time < cached.until
      BY <2>1 DEF Fresh
    <3>2. /\ cached.mode \in Modes \cup {Absent} /\ cached.until \in Nat
          /\ inForce[cached.mode] >= cached.until - CacheMs
      BY <3>1 DEF BoundInv, Configured
    <3>3. inForce[cached.mode] \in Int
      BY <1>c, <3>2 DEF Configurations
    <3>4. mode = cached.mode
      BY <2>1
    <3>. QED
      BY <1>c, <3>1, <3>2, <3>3, <3>4
  <2>2. CASE ~Fresh
    BY <1>1, <1>c, <2>2 DEF Configurations
  <2>. QED
    BY <2>1, <2>2
<1>2. \/ request' = [request EXCEPT ![r] = Idle]
      \/ /\ Fresh \/ config # "invalid"
         /\ request' = [request EXCEPT ![r] =
               [@ EXCEPT !.pc = "bind", !.candidate = candidate, !.due = due]]
  <2>1. request' = [request EXCEPT ![r] =
           IF ~(Fresh \/ config # "invalid") \/ (mode = "trusted-header" /\ ~HasSecret)
           THEN Idle
           ELSE [@ EXCEPT !.pc = "bind", !.candidate = candidate, !.due = due]]
    BY DEF Resolve
  <2>. QED
    BY <2>1
<1>3. Resolved(request'[r])
  <2>1. request = [q \in Requests |-> request[q]] /\ RequestTyped(request[r])
        /\ request[r].pc = "resolve"
    BY DEF ScopeTyped, Resolve
  <2>2. CASE request' = [request EXCEPT ![r] = Idle]
    BY <2>1, <2>2 DEF Idle, Resolved
  <2>3. CASE /\ Fresh \/ config # "invalid"
             /\ request' = [request EXCEPT ![r] =
                   [@ EXCEPT !.pc = "bind", !.candidate = candidate, !.due = due]]
    <3>1. candidate \in due
      BY <1>1, <2>3
    <3>. PICK q : q = request[r]
      OBVIOUS
    <3>2. request'[r] = [q EXCEPT !.pc = "bind", !.candidate = candidate, !.due = due]
      BY <2>1, <2>3
    <3>3. q = [pc |-> q.pc, input |-> q.input, env |-> q.env, candidate |-> q.candidate,
               tenant |-> q.tenant, due |-> q.due]
      BY <2>1 DEF RequestTyped
    <3>4. request'[r] = [pc |-> "bind", input |-> q.input, env |-> q.env, candidate |-> candidate,
                         tenant |-> q.tenant, due |-> due]
      BY <3>2, <3>3
    <3>5. q.tenant = Absent
      BY <2>1 DEF BoundInv, Resolved
    <3>. QED
      BY <3>1, <3>4, <3>5 DEF Resolved
  <2>. QED
    BY <1>2, <2>2, <2>3
<1>4. Configured'
  <2>1. /\ UNCHANGED <<config, inForce, time>>
        /\ \/ cached' = cached
           \/ config # "invalid" /\ cached' = [mode |-> config, until |-> time + CacheMs]
    <3>1. cached' = IF Fresh \/ ~(Fresh \/ config # "invalid") THEN cached
                    ELSE [mode |-> config, until |-> time + CacheMs]
      BY DEF Resolve
    <3>2. config' = config /\ inForce' = inForce /\ time' = time
      BY DEF Resolve
    <3>. QED
      BY <3>1, <3>2
  <2>2. CASE cached' = cached
    BY <2>1, <2>2 DEF BoundInv, Configured
  <2>3. CASE config # "invalid" /\ cached' = [mode |-> config, until |-> time + CacheMs]
    <3>1. /\ cached'.mode \in Modes \cup {Absent} /\ cached'.until \in Nat
          /\ inForce[cached'.mode] >= cached'.until - CacheMs
      BY <1>c, <2>3 DEF Configurations
    <3>. QED
      BY <2>1, <3>1 DEF BoundInv, Configured
  <2>. QED
    BY <2>1, <2>2, <2>3
<1>. QED
  BY <1>3, <1>4

\* The other steps of a request.
LEMMA BindsAsNamed ==
    ASSUME ScopeTyped, BoundInv, NEW r \in Requests, NEW input,
           Arrive(r, input) \/ Bind(r) \/ Finish(r)
    PROVE  Configured' /\ Resolved(request'[r])
<1>t. request = [q \in Requests |-> request[q]] /\ RequestTyped(request[r])
      /\ active \subseteq Tenants /\ Absent \notin Tenants
  BY ScopeAssumption DEF ScopeTyped
<1>1. Configured'
  BY DEF Arrive, Bind, Finish, BoundInv, Configured
<1>i. Resolved(Idle)
  BY DEF Idle, Resolved
<1>2. CASE Arrive(r, input)
  <2>1. request'[r] = [Idle EXCEPT !.pc = "resolve", !.input = input, !.env = deployed]
    BY <1>t, <1>2 DEF Arrive
  <2>2. request'[r] = [pc |-> "resolve", input |-> input, env |-> deployed, candidate |-> Absent,
                       tenant |-> Absent, due |-> {}]
    BY <2>1 DEF Idle
  <2>. QED
    BY <1>1, <2>2 DEF Resolved
<1>3. CASE Finish(r)
  <2>1. request'[r] = Idle
    BY <1>t, <1>3 DEF Finish
  <2>. QED
    BY <1>1, <1>i, <2>1
<1>4. CASE Bind(r)
  <2>. PICK q : q = request[r]
    OBVIOUS
  <2>1. q.pc = "bind" /\ q.candidate \in q.due /\ q.tenant = Absent
    BY <1>4 DEF Bind, BoundInv, Resolved
  <2>2. \/ q.candidate = Absent /\ request'[r] = [q EXCEPT !.pc = "run"]
        \/ /\ q.candidate # Absent /\ Named(q.candidate) \in Tenants
           /\ request'[r] = [q EXCEPT !.pc = "run", !.tenant = Named(q.candidate)]
        \/ request'[r] = Idle
    <3>1. request' = [request EXCEPT ![r] =
              IF q.candidate = Absent THEN [q EXCEPT !.pc = "run"]
              ELSE IF Named(q.candidate) \in active
              THEN [q EXCEPT !.pc = "run", !.tenant = Named(q.candidate)]
              ELSE Idle]
      BY <1>4 DEF Bind
    <3>. QED
      BY <1>t, <3>1
  <2>3. q.candidate \in Tenants => Named(q.candidate) = q.candidate
    BY DEF Named
  <2>4. q = [pc |-> q.pc, input |-> q.input, env |-> q.env, candidate |-> q.candidate,
             tenant |-> q.tenant, due |-> q.due]
    BY <1>t DEF RequestTyped
  <2>5. CASE q.candidate = Absent /\ request'[r] = [q EXCEPT !.pc = "run"]
    <3>1. request'[r] = [pc |-> "run", input |-> q.input, env |-> q.env, candidate |-> q.candidate,
                         tenant |-> q.tenant, due |-> q.due]
      BY <2>4, <2>5
    <3>. QED
      BY <1>1, <2>1, <2>5, <3>1 DEF Resolved
  <2>6. CASE /\ q.candidate # Absent /\ Named(q.candidate) \in Tenants
             /\ request'[r] = [q EXCEPT !.pc = "run", !.tenant = Named(q.candidate)]
    <3>. PICK k : k = Named(q.candidate)
      OBVIOUS
    <3>1. request'[r] = [pc |-> "run", input |-> q.input, env |-> q.env, candidate |-> q.candidate,
                         tenant |-> k, due |-> q.due]
      BY <2>4, <2>6
    <3>2. k # Absent /\ (q.candidate \in Tenants => k = q.candidate)
      BY <1>t, <2>3, <2>6
    <3>. QED
      BY <1>1, <2>1, <2>6, <3>1, <3>2 DEF Resolved
  <2>. QED
    BY <1>1, <1>i, <2>2, <2>5, <2>6
<1>. QED
  BY <1>1, <1>2, <1>3, <1>4

LEMMA BoundInvStep ==
    ASSUME ScopeTyped, BoundInv, [ScopeNext]_scopeVars
    PROVE  BoundInv'
<1>c. /\ time \in Nat /\ CacheMs \in Nat \ {0} /\ config \in Configurations
      /\ inForce \in [Configurations -> Int] /\ inForce[config] = time
      /\ \A m \in Configurations : inForce[m] <= time
  BY ScopeAssumption DEF BoundInv, Configured
<1>1. ASSUME NEW r \in Requests, NEW input,
             Arrive(r, input) \/ Resolve(r) \/ Bind(r) \/ Finish(r)
      PROVE  BoundInv'
  <2>1. \A q \in Requests \ {r} : request'[q] = request[q]
    BY <1>1, RequestMoves
  <2>2. Configured' /\ Resolved(request'[r])
    BY <1>1, ResolvesAsConfigured, BindsAsNamed
  <2>. QED
    BY <2>1, <2>2 DEF BoundInv
<1>2. CASE UNCHANGED <<request, time, config, inForce, cached>>
  BY <1>2 DEF BoundInv, Configured
<1>3. ASSUME NEW m \in Configurations, Configure(m) PROVE BoundInv'
  <2>1. /\ config' = m /\ inForce' = [inForce EXCEPT ![m] = time]
        /\ UNCHANGED <<request, time, cached>>
    BY <1>3 DEF Configure
  <2>2. \A k \in Configurations : inForce'[k] >= inForce[k] /\ inForce'[k] <= time
    BY <1>c, <2>1
  <2>3. inForce' \in [Configurations -> Int] /\ inForce'[m] = time
    BY <1>c, <2>1
  <2>4. cached # Absent =>
          /\ cached.mode \in Configurations /\ cached.until \in Nat
          /\ inForce'[cached.mode] >= cached.until - CacheMs
    BY <1>c, <2>2, <2>3 DEF BoundInv, Configured, Configurations
  <2>. QED
    BY <1>c, <2>1, <2>2, <2>3, <2>4 DEF BoundInv, Configured
<1>4. CASE TickTime
  <2>1. /\ time' = time + 1 /\ inForce' = [inForce EXCEPT ![config] = time + 1]
        /\ UNCHANGED <<request, config, cached>>
    BY <1>4 DEF TickTime
  <2>2. \A k \in Configurations : inForce'[k] >= inForce[k] /\ inForce'[k] <= time + 1
    BY <1>c, <2>1
  <2>3. inForce' \in [Configurations -> Int] /\ inForce'[config] = time + 1
    BY <1>c, <2>1
  <2>4. cached # Absent =>
          /\ cached.mode \in Configurations /\ cached.until \in Nat
          /\ inForce'[cached.mode] >= cached.until - CacheMs
    BY <1>c, <2>2, <2>3 DEF BoundInv, Configured, Configurations
  <2>. QED
    BY <1>c, <2>1, <2>2, <2>3, <2>4 DEF BoundInv, Configured
<1>5. CASE \/ \E k \in Tenants : SetStatus(k) \/ \E h \in Hosts : SetDomain(h, k)
           \/ SwitchEnv \/ UNCHANGED scopeVars
           \/ \E r \in Requests, call \in Calls : Query(r, call)
  BY <1>2, <1>5 DEF SetStatus, SetDomain, SwitchEnv, scopeVars, Query
<1>. QED
  BY <1>1, <1>3, <1>4, <1>5 DEF ScopeNext, ResolutionStep, Configurations

\* A request runs in the tenant it named, or in none if it named none, by a
\* configuration in force within the life of the cache before it was resolved.
THEOREM RequestsAreBound == ScopeSpec => []BoundAsConfigured
<1>1. ScopeInit => BoundInv
  <2>. SUFFICES ASSUME ScopeInit PROVE BoundInv
    OBVIOUS
  <2>1. \A r \in Requests : Resolved(request[r])
    BY DEF ScopeInit, Idle, Resolved
  <2>2. Configured
    BY ScopeAssumption DEF ScopeInit, Configured, Configurations
  <2>. QED
    BY <2>1, <2>2 DEF BoundInv
<1>2. BoundInv => BoundAsConfigured
  BY DEF BoundInv, Resolved, BoundAsConfigured
<1>. QED
  BY <1>1, <1>2, ScopeTypedInit, ScopeTypedStep, BoundInvStep, PTL DEF ScopeSpec

-----------------------------------------------------------------------------
(* The migration *)

BackfillSpec == BackfillInit /\ [][BackfillNext]_<<datasetVars, backfillVars>>

Memberships == [tenant : {Tenant, Other}, path : Seq(Users)]

\* Where a run may be: before its preflight ends, writing, and verifying.
Preflight == {"plan", "load", "validate"}
Writing == {"apply", "upsert", "paths", "identities"}
Verifying == {"check", "count", "applied", "accepted"}
Points == {"off", "tenant", "organization"} \cup Preflight \cup Writing \cup Verifying

Runs == [pc : Points, apply : BOOLEAN, at : 1..Len(Models), conflict : BOOLEAN,
         users : SUBSET Users, seen : SUBSET Rows,
         paths : [Users -> Seq(Users)], todo : SUBSET Users, found : SUBSET Users]

MigrationTyped ==
    /\ rows \subseteq Rows
    /\ tenant \in [Rows -> {Nil, Tenant, Other}]
    /\ path \in [Users -> Seq(Users)]
    /\ member \in [Users -> {Nil} \cup Memberships]
    /\ identity \in [Subjects -> {Nil} \cup Users]
    /\ known \subseteq {Tenant, Other} /\ organized \subseteq {Tenant, Other}
    /\ run \in Runs /\ quiet \in BOOLEAN

\* The rows to migrate that another tenant owns: no step adds one, and the
\* plan has met those of the models it has been through.
Foreign == {r \in Legacy : tenant[r] = Other}

Planned ==
    /\ Foreign \subseteq rows
    /\ run.pc \notin {"plan", "apply", "check"} => run.at = 1
    /\ run.pc = "plan" /\ ~run.conflict =>
          \A r \in Foreign, i \in 1..Len(Models) : ModelOf[r] = Models[i] => i >= run.at
    /\ run.pc \in {"load", "validate"} /\ ~run.conflict => Foreign = {}
    /\ run.pc \in Writing \cup Verifying => Foreign = {}

\* What a run has made sure of, whatever the server does meanwhile.
Prepared ==
    /\ organized \subseteq known
    /\ run.pc = "organization" /\ run.apply => Tenant \in known
    /\ run.pc \in Preflight /\ run.apply => Tenant \in organized
    /\ run.pc \in Writing \cup Verifying => Tenant \in organized /\ ~Conflicts
    /\ run.users \subseteq Legacy
    /\ \A u \in Users \cap Legacy : member[u] # Nil => member[u].tenant = Tenant

\* What it read is so still, and what it has written is there, when the server
\* has not written since.
UsersRead == run.users = OwnRows("User") /\ run.seen = rows \cap Legacy /\ run.paths = path
Joined(S) == \A u \in S : member[u] # Nil
Mirrored(S) == \A u \in S : member[u].path = path[u]
SignsIn(S) == \A u \in S : ClerkOf[u] # Nil => identity[ClerkOf[u]] = u
Moved(S) == \A r \in S : tenant[r] = Tenant
Members == {u \in Users : member[u] # Nil /\ member[u].tenant = Tenant}

Undisturbed ==
    /\ run.pc \in {"validate"} \cup Writing \cup Verifying => UsersRead
    /\ run.pc = "upsert" => Joined(run.users \ run.todo)
    /\ run.pc \in {"paths", "identities"} \cup Verifying => Joined(run.users)
    /\ run.pc = "paths" => Mirrored(run.users \ run.todo)
    /\ run.pc \in {"identities"} \cup Verifying => Mirrored(run.users)
    /\ run.pc = "identities" => SignsIn(run.users \ run.todo)
    /\ run.pc \in Verifying => SignsIn(run.users)
    /\ run.pc = "check" =>
          Moved({r \in rows \cap Legacy : \E i \in 1..run.at - 1 : ModelOf[r] = Models[i]})
    /\ run.pc \in {"count", "applied", "accepted"} => Moved(rows \cap Legacy)
    /\ run.pc \in {"applied", "accepted"} => Members = run.users


LEMMA StartsTyped == BackfillInit => MigrationTyped
<1>. SUFFICES ASSUME BackfillInit PROVE MigrationTyped
  OBVIOUS
<1>d. /\ Early \subseteq Rows /\ Users \subseteq Rows /\ StartPath \in [Users -> Seq(Users)]
      /\ Models \in Seq(STRING) /\ Len(Models) \in Nat \ {0} /\ Nil \notin Rows
  BY DatasetAssumption, BackfillAssumption DEF Users, Of
<1>1. PICK elsewhere \in {Other, Tenant, Nil}, first \in {Nil, Tenant, Other}, held \in Users \cup {Nil} :
        /\ tenant = [r \in Rows |-> IF r \notin Early THEN Nil
                                    ELSE IF r \notin Legacy THEN elsewhere
                                    ELSE IF ModelOf[r] = "Product" THEN first ELSE Nil]
        /\ known = {Other} \cup ({elsewhere, first} \ {Nil})
        /\ organized = known
        /\ member = [u \in Users |-> IF u \in Early \ Legacy /\ elsewhere # Nil
                                     THEN [tenant |-> elsewhere, path |-> path[u]] ELSE Nil]
        /\ held \in Early \cup {Nil}
        /\ identity = [s \in Subjects |-> held]
  BY DEF BackfillInit, DatasetInit
<1>2. rows = Early /\ path = StartPath /\ run = Off /\ quiet = TRUE
  BY DEF BackfillInit, DatasetInit
<1>3. tenant \in [Rows -> {Nil, Tenant, Other}]
  BY <1>1
<1>4. member \in [Users -> {Nil} \cup Memberships]
  BY <1>d, <1>1, <1>2 DEF Memberships
<1>5. run \in Runs
  BY <1>d, <1>2 DEF Off, Runs, Points, Preflight, Writing, Verifying
<1>. QED
  BY <1>d, <1>1, <1>2, <1>3, <1>4, <1>5 DEF MigrationTyped

\* Whatever a script's step does to the run, it stays one.
LEMMA RunMoves ==
    ASSUME run \in Runs, NEW pc \in Points, NEW todo \in SUBSET Users, NEW found \in SUBSET Users,
           NEW at \in 1..Len(Models), NEW conflict \in BOOLEAN
    PROVE  /\ [run EXCEPT !.pc = pc] \in Runs
           /\ [run EXCEPT !.todo = todo] \in Runs
           /\ [run EXCEPT !.pc = pc, !.todo = todo, !.found = found] \in Runs
           /\ [run EXCEPT !.pc = pc, !.todo = todo] \in Runs
           /\ [run EXCEPT !.at = at] \in Runs
           /\ [run EXCEPT !.at = at, !.pc = pc] \in Runs
           /\ [run EXCEPT !.conflict = conflict] \in Runs
  BY DEF Runs

LEMMA NextModelIs ==
    ASSUME run \in Runs, NEW pc \in Points
    PROVE  /\ NextModel(pc) \in Runs
           /\ \/ /\ run.at < Len(Models) /\ NextModel(pc).at = run.at + 1
                 /\ NextModel(pc).pc = run.pc
              \/ /\ run.at = Len(Models) /\ NextModel(pc).at = 1
                 /\ NextModel(pc).pc = pc
           /\ NextModel(pc).conflict = run.conflict /\ NextModel(pc).users = run.users
           /\ NextModel(pc).seen = run.seen /\ NextModel(pc).paths = run.paths
           /\ NextModel(pc).apply = run.apply /\ NextModel(pc).todo = run.todo
<1>1. /\ run.at \in 1..Len(Models) /\ Len(Models) \in Nat /\ 1 \in 1..Len(Models)
  BY BackfillAssumption DEF Runs
<1>2. CASE run.at < Len(Models)
  <2>1. NextModel(pc) = [run EXCEPT !.at = run.at + 1] /\ run.at + 1 \in 1..Len(Models)
    BY <1>1, <1>2 DEF NextModel
  <2>. QED
    BY <1>2, <2>1 DEF Runs
<1>3. CASE run.at = Len(Models)
  <2>1. NextModel(pc) = [run EXCEPT !.at = 1, !.pc = pc]
    BY <1>1, <1>3 DEF NextModel
  <2>. QED
    BY <1>1, <1>3, <2>1 DEF Runs
<1>. QED
  BY <1>1, <1>2, <1>3


\* Whatever moves the run alone leaves the rest of the state typed.
LEMMA RunAloneTyped ==
    ASSUME MigrationTyped, UNCHANGED datasetVars, run' \in Runs, quiet' \in BOOLEAN
    PROVE  MigrationTyped'
  BY DEF MigrationTyped, datasetVars

LEMMA ScriptTyped ==
    ASSUME MigrationTyped, ScriptStep PROVE MigrationTyped'
<1>. USE DEF Points, Preflight, Writing, Verifying
<1>r. /\ run \in Runs /\ run.users \subseteq Users /\ run.at \in 1..Len(Models)
      /\ run.conflict \in BOOLEAN /\ run.paths \in [Users -> Seq(Users)]
      /\ 1 \in 1..Len(Models) /\ run.todo \subseteq Users /\ Users \subseteq Rows
  BY BackfillAssumption DEF MigrationTyped, Runs, Users, Of
<1>0. Off \in Runs
  BY <1>r DEF Off, Runs
<1>1. CASE ResolveTenant
  <2>1. run' \in Runs
    BY <1>1, <1>r, RunMoves DEF ResolveTenant, Goto
  <2>. QED
    BY <1>1, <2>1 DEF ResolveTenant, MigrationTyped
<1>2. CASE ResolveOrganization
  <2>1. run' \in Runs
    BY <1>2, <1>r, RunMoves DEF ResolveOrganization, Goto
  <2>. QED
    BY <1>2, <2>1 DEF ResolveOrganization, MigrationTyped
<1>3. CASE Plan
  <2>. PICK c \in BOOLEAN : c = (NextModel("load").conflict \/ Assigned(Models[run.at]) # {})
    OBVIOUS
  <2>1. NextModel("load") \in Runs
    BY <1>r, NextModelIs
  <2>2. [NextModel("load") EXCEPT !.conflict = c] \in Runs
    BY <2>1 DEF Runs
  <2>3. run' = [NextModel("load") EXCEPT !.conflict = c]
    BY <1>3 DEF Plan
  <2>. QED
    BY <1>3, <2>2, <2>3, RunAloneTyped DEF Plan, MigrationTyped
<1>4. CASE Load
  <2>1. OwnRows("User") \subseteq Users /\ rows \cap Legacy \subseteq Rows /\ path \in [Users -> Seq(Users)]
    BY DEF OwnRows, Live, Users, MigrationTyped
  <2>2. [run EXCEPT !.pc = "validate", !.users = OwnRows("User"), !.paths = path,
                    !.seen = rows \cap Legacy] \in Runs
    BY <1>r, <2>1 DEF Runs
  <2>. QED
    BY <1>4, <2>2, RunAloneTyped DEF Load, MigrationTyped
<1>5. CASE Validate
  BY <1>5, <1>0, <1>r, RunMoves, RunAloneTyped DEF Validate, Throw, Goto, MigrationTyped
<1>6. CASE Apply
  <2>0. NextModel("upsert") \in Runs
    BY <1>r, NextModelIs
  <2>1. [NextModel("upsert") EXCEPT !.todo = run.users] \in Runs
    BY <1>r, <2>0 DEF Runs
  <2>2. tenant' \in [Rows -> {Nil, Tenant, Other}]
    BY <1>6 DEF Apply, MigrationTyped
  <2>. QED
    BY <1>6, <2>1, <2>2 DEF Apply, MigrationTyped
<1>7. ASSUME NEW u \in Users, UpsertMembership(u) PROVE MigrationTyped'
  <2>1. run' \in Runs
    BY <1>7, <1>r, RunMoves DEF UpsertMembership, Do
  <2>2. member' \in [Users -> {Nil} \cup Memberships]
    <3>1. <<>> \in Seq(Users) /\ member \in [Users -> {Nil} \cup Memberships]
      BY DEF MigrationTyped
    <3>2. member[u] # Nil => member[u] = [tenant |-> member[u].tenant, path |-> member[u].path]
                             /\ member[u].path \in Seq(Users)
      BY <3>1 DEF Memberships
    <3>3. (IF member[u] = Nil THEN [tenant |-> Tenant, path |-> <<>>]
           ELSE [member[u] EXCEPT !.tenant = Tenant]) \in Memberships
      BY <3>1, <3>2 DEF Memberships
    <3>4. member' = [member EXCEPT ![u] = IF member[u] = Nil THEN [tenant |-> Tenant, path |-> <<>>]
                                          ELSE [member[u] EXCEPT !.tenant = Tenant]]
      BY <1>7 DEF UpsertMembership
    <3>. QED
      BY <3>1, <3>3, <3>4
  <2>. QED
    BY <1>7, <2>1, <2>2 DEF UpsertMembership, MigrationTyped
<1>8. ASSUME NEW u \in Users, SetPath(u) PROVE MigrationTyped'
  <2>1. run' \in Runs
    BY <1>8, <1>0, <1>r, RunMoves DEF SetPath, Do, Throw
  <2>2. member' \in [Users -> {Nil} \cup Memberships]
    <3>1. member \in [Users -> {Nil} \cup Memberships] /\ run.todo \subseteq run.todo
      BY DEF MigrationTyped
    <3>2. CASE UNCHANGED member
      BY <3>1, <3>2
    <3>3. CASE member[u] # Nil /\ member' = [member EXCEPT ![u] = [@ EXCEPT !.path = run.paths[u]]]
      <4>1. [member[u] EXCEPT !.path = run.paths[u]] \in Memberships
        BY <1>r, <3>1, <3>3 DEF Memberships
      <4>. QED
        BY <3>1, <3>3, <4>1
    <3>. QED
      BY <1>8, <3>2, <3>3 DEF SetPath, PathRead
  <2>. QED
    BY <1>8, <2>1, <2>2 DEF SetPath, MigrationTyped
<1>9. ASSUME NEW u \in Users, UpsertIdentity(u) PROVE MigrationTyped'
  <2>1. run' \in Runs
    BY <1>9, <1>0, <1>r, RunMoves DEF UpsertIdentity, Do, Throw
  <2>2. identity' \in [Subjects -> {Nil} \cup Users]
    BY <1>9 DEF UpsertIdentity, MigrationTyped
  <2>. QED
    BY <1>9, <2>1, <2>2 DEF UpsertIdentity, MigrationTyped
<1>10. CASE ReadMemberships
  <2>1. [run EXCEPT !.pc = "paths", !.todo = run.users,
                    !.found = {u \in Users : member[u] # Nil /\ member[u].tenant = Tenant}] \in Runs
    BY <1>r, RunMoves
  <2>. QED
    BY <1>10, <2>1, RunAloneTyped DEF ReadMemberships, MigrationTyped
<1>11. CASE PathsDone
  <2>1. [run EXCEPT !.pc = "identities", !.todo = {u \in run.users : ClerkOf[u] # Nil}] \in Runs
    BY <1>r, RunMoves
  <2>. QED
    BY <1>11, <2>1, RunAloneTyped DEF PathsDone, MigrationTyped
<1>12. CASE IdentitiesDone
  BY <1>12, <1>r, RunMoves, RunAloneTyped DEF IdentitiesDone, Goto, MigrationTyped
<1>13. CASE CheckModel
  BY <1>13, <1>0, <1>r, NextModelIs, RunAloneTyped DEF CheckModel, Throw, MigrationTyped
<1>14. CASE CountMemberships
  BY <1>14, <1>0, <1>r, RunMoves, RunAloneTyped DEF CountMemberships, Goto, Throw, MigrationTyped
<1>15. CASE VerifyCutover
  BY <1>15, <1>0, <1>r, RunMoves, RunAloneTyped DEF VerifyCutover, Goto, Throw, MigrationTyped
<1>. QED
  BY <1>1, <1>2, <1>3, <1>4, <1>5, <1>6, <1>7, <1>8, <1>9, <1>10, <1>11, <1>12, <1>13, <1>14,
     <1>15 DEF ScriptStep

LEMMA ServerTyped ==
    ASSUME MigrationTyped, ServerStep PROVE MigrationTyped'
<1>t. /\ tenant \in [Rows -> {Nil, Tenant, Other}] /\ path \in [Users -> Seq(Users)]
      /\ member \in [Users -> {Nil} \cup Memberships] /\ Users \subseteq Rows
      /\ identity \in [Subjects -> {Nil} \cup Users]
      /\ Legacy \subseteq Rows /\ <<>> \in Seq(Users)
  BY DatasetAssumption DEF MigrationTyped, Users, Of
<1>1. ASSUME NEW bound \in BOOLEAN, NEW r \in Rows, Create(r, bound) PROVE MigrationTyped'
  <2>1. [tenant |-> Tenant, path |-> <<>>] \in Memberships
    BY <1>t DEF Memberships
  <2>2. member' \in [Users -> {Nil} \cup Memberships]
    BY <1>1, <1>t, <2>1 DEF Create
  <2>3. tenant' \in [Rows -> {Nil, Tenant, Other}] /\ rows' \subseteq Rows
    BY <1>1, <1>t DEF Create, Stamp, MigrationTyped
  <2>. QED
    BY <1>1, <2>2, <2>3 DEF Create, Request, MigrationTyped
<1>2. ASSUME NEW bound \in BOOLEAN, NEW u \in Users, NEW p \in Users, Relink(u, p, bound)
      PROVE  MigrationTyped'
  <2>1. path' \in [Users -> Seq(Users)]
    <3>1. Append(path[p], p) \in Seq(Users)
      BY <1>t
    <3>. QED
      BY <1>2, <1>t, <3>1 DEF Relink
  <2>2. member' \in [Users -> {Nil} \cup Memberships]
    <3>1. CASE ~bound
      BY <1>2, <1>t, <3>1 DEF Relink
    <3>2. CASE bound
      <4>1. member[p] \in Memberships
        BY <1>2, <1>t, <3>2 DEF Relink
      <4>2. Append(member[p].path, p) \in Seq(Users)
        BY <4>1 DEF Memberships
      <4>3. [tenant |-> Tenant, path |-> IF u = p THEN <<>> ELSE Append(member[p].path, p)]
              \in Memberships
        BY <1>t, <4>2 DEF Memberships
      <4>. QED
        BY <1>2, <1>t, <3>2, <4>3 DEF Relink
    <3>. QED
      BY <3>1, <3>2
  <2>. QED
    BY <1>2, <2>1, <2>2 DEF Relink, Request, MigrationTyped
<1>3. ASSUME NEW bound \in BOOLEAN, NEW u \in Users, Delete(u, bound) PROVE MigrationTyped'
  <2>1. /\ tenant' \in [Rows -> {Nil, Tenant, Other}] /\ rows' \subseteq Rows
        /\ member' \in [Users -> {Nil} \cup Memberships]
        /\ identity' \in [Subjects -> {Nil} \cup Users]
    BY <1>3, <1>t DEF Delete, MigrationTyped
  <2>2. path' \in [Users -> Seq(Users)]
    BY <1>3, <1>t DEF Delete
  <2>. QED
    BY <1>3, <2>1, <2>2 DEF Delete, Request, MigrationTyped
<1>. QED
  BY <1>1, <1>2, <1>3 DEF ServerStep

LEMMA MigrationTypedStep ==
    ASSUME MigrationTyped, [BackfillNext]_<<datasetVars, backfillVars>> PROVE MigrationTyped'
<1>0. Off \in Runs /\ \A apply \in BOOLEAN : [Off EXCEPT !.pc = "tenant", !.apply = apply] \in Runs
  <2>1. 1 \in 1..Len(Models) /\ [u \in Users |-> <<>>] \in [Users -> Seq(Users)]
    BY BackfillAssumption
  <2>. QED
    BY <2>1 DEF Off, Runs, Points
<1>1. CASE Stop
  BY <1>0, <1>1, RunAloneTyped DEF Stop, MigrationTyped
<1>2. ASSUME NEW apply \in BOOLEAN, Begin(apply) PROVE MigrationTyped'
  BY <1>0, <1>2, RunAloneTyped DEF Begin
<1>3. CASE UNCHANGED <<datasetVars, backfillVars>>
  BY <1>3, RunAloneTyped DEF backfillVars, MigrationTyped
<1>. QED
  BY <1>1, <1>2, <1>3, ScriptTyped, ServerTyped DEF BackfillNext


\* What may happen to a row's tenant: the script gives a row of the environment
\* its first one; the server writes that of a row it creates or deletes.
LEMMA TenantMoves ==
    ASSUME MigrationTyped, [BackfillNext]_<<datasetVars, backfillVars>>, NEW r \in Rows
    PROVE  /\ r \in rows \ rows' => tenant'[r] = Nil
           /\ \/ tenant'[r] = tenant[r]
              \/ /\ run.pc = "apply" /\ rows' = rows
                 /\ r \in rows \cap Legacy /\ tenant[r] = Nil /\ tenant'[r] = Tenant
              \/ r \notin rows /\ r \in rows' /\ tenant'[r] \in {Nil, Tenant}
              \/ r \in rows \ rows' /\ tenant'[r] = Nil
<1>t. tenant \in [Rows -> {Nil, Tenant, Other}]
  BY DEF MigrationTyped
<1>1. CASE Apply
  BY <1>1, <1>t DEF Apply, Unassigned, OwnRows, Live
<1>2. ASSUME NEW bound, NEW q \in Rows, Create(q, bound)
      PROVE  /\ rows \subseteq rows'
             /\ \/ tenant'[r] = tenant[r]
                \/ r \notin rows /\ r \in rows' /\ tenant'[r] \in {Nil, Tenant}
  BY <1>2, <1>t DEF Create, Stamp
<1>3. ASSUME NEW bound, NEW u \in Users, Delete(u, bound)
      PROVE  /\ rows' = rows \ {u}
             /\ \/ tenant'[r] = tenant[r] /\ r # u
                \/ r \in rows \ rows' /\ tenant'[r] = Nil
  BY <1>3, <1>t DEF Delete, OwnRows, Live
<1>4. CASE UNCHANGED <<rows, tenant>>
  BY <1>4
<1>5. CASE \/ ResolveTenant \/ ResolveOrganization \/ Plan \/ Load \/ Validate
           \/ \E u \in Users : UpsertMembership(u) \/ SetPath(u) \/ UpsertIdentity(u)
           \/ ReadMemberships \/ PathsDone \/ IdentitiesDone
           \/ CheckModel \/ CountMemberships \/ VerifyCutover \/ Stop
           \/ \E apply \in BOOLEAN : Begin(apply)
           \/ \E bound \in BOOLEAN, u, p \in Users : Relink(u, p, bound)
           \/ UNCHANGED <<datasetVars, backfillVars>>
  BY <1>4, <1>5 DEF ResolveTenant, ResolveOrganization, Plan, Load, Validate, UpsertMembership,
     SetPath, UpsertIdentity, ReadMemberships, PathsDone, IdentitiesDone, CheckModel,
     CountMemberships, VerifyCutover, Stop, Begin, Relink, datasetVars
<1>. QED
  BY <1>1, <1>2, <1>3, <1>5 DEF BackfillNext, ScriptStep, ServerStep

LEMMA PlannedStep ==
    ASSUME MigrationTyped, Planned, [BackfillNext]_<<datasetVars, backfillVars>>
    PROVE  Planned'
<1>. USE DEF Points, Preflight, Writing, Verifying
<1>r. /\ run \in Runs /\ run.at \in 1..Len(Models) /\ 1 \in 1..Len(Models) /\ Len(Models) \in Nat
      /\ Legacy \subseteq Rows /\ Other \notin {Nil, Tenant}
  BY DatasetAssumption, BackfillAssumption DEF MigrationTyped, Runs
<1>1. Foreign' \subseteq Foreign /\ Foreign' \subseteq rows'
  <2>1. ASSUME NEW r \in Foreign' PROVE r \in Foreign /\ r \in rows'
    <3>1. r \in Legacy /\ tenant'[r] = Other
      BY <2>1 DEF Foreign
    <3>2. tenant'[r] = tenant[r] /\ r \notin rows \ rows'
      BY <1>r, <3>1, TenantMoves
    <3>. QED
      BY <3>1, <3>2 DEF Foreign, Planned
  <2>. QED
    BY <2>1
<1>2. CASE run' = run
  BY <1>1, <1>2 DEF Planned
<1>3. CASE run'.pc \in {"off", "tenant", "organization"} /\ run'.at = 1
  BY <1>1, <1>3 DEF Planned
<1>4. CASE ResolveOrganization
  <2>1. run' = [run EXCEPT !.pc = "plan"] /\ run.at = 1
    BY <1>4 DEF ResolveOrganization, Goto, Planned
  <2>2. run'.pc = "plan" /\ run'.at = 1
    BY <1>r, <2>1 DEF Runs
  <2>. QED
    BY <1>1, <2>2 DEF Planned
<1>5. CASE Plan
  <2>. PICK c : c = (run.conflict \/ Assigned(Models[run.at]) # {})
    OBVIOUS
  <2>. PICK q : q = NextModel("load")
    OBVIOUS
  <2>1. /\ q \in Runs /\ run.pc = "plan" /\ run' = [q EXCEPT !.conflict = c]
        /\ \/ run.at < Len(Models) /\ q.at = run.at + 1 /\ q.pc = "plan"
           \/ run.at = Len(Models) /\ q.at = 1 /\ q.pc = "load"
    BY <1>5, <1>r, NextModelIs DEF Plan
  <2>2. run'.conflict = c /\ run'.at = q.at /\ run'.pc = q.pc
    BY <2>1 DEF Runs
  <2>3. ASSUME ~c, NEW r \in Foreign', NEW i \in 1..Len(Models), ModelOf[r] = Models[i]
        PROVE  i > run.at
    <3>1. r \in Foreign /\ r \in rows /\ r \in Rows /\ ~run.conflict
      BY <1>1, <1>r, <2>3 DEF Foreign, Planned
    <3>2. i >= run.at
      BY <2>1, <2>3, <3>1 DEF Planned
    <3>3. CASE i = run.at
      <4>1. r \in Assigned(Models[run.at])
        BY <1>r, <2>3, <3>1, <3>3 DEF Assigned, OwnRows, Live, Of, Foreign
      <4>. QED
        BY <2>3, <4>1
    <3>. QED
      BY <1>r, <3>2, <3>3
  <2>4. CASE run'.pc = "plan"
    <3>1. \A r \in Foreign', i \in 1..Len(Models) :
             ~c /\ ModelOf[r] = Models[i] => i >= run'.at
      BY <1>r, <2>1, <2>2, <2>3, <2>4
    <3>. QED
      BY <1>1, <2>2, <2>4, <3>1 DEF Planned
  <2>5. CASE run'.pc = "load" /\ run.at = Len(Models) /\ run'.at = 1
    <3>1. ASSUME ~c, NEW r \in Foreign' PROVE FALSE
      <4>1. ModelOf[r] \in Range(Models)
        BY <1>1, <3>1, BackfillAssumption DEF Foreign
      <4>2. PICK i \in 1..Len(Models) : ModelOf[r] = Models[i]
        BY <4>1, BackfillAssumption DEF Range
      <4>. QED
        BY <1>r, <2>3, <2>5, <3>1, <4>2
    <3>. QED
      BY <1>1, <2>2, <2>5, <3>1 DEF Planned
  <2>. QED
    BY <2>1, <2>2, <2>4, <2>5
<1>6. CASE Load
  <2>1. run.pc = "load" /\ run'.pc = "validate" /\ run'.at = run.at /\ run'.conflict = run.conflict
    BY <1>6, <1>r DEF Load, Runs
  <2>. QED
    BY <1>1, <2>1 DEF Planned
<1>7. CASE Validate /\ run' # Off
  <2>1. /\ run.pc = "validate" /\ ~run.conflict
        /\ run'.pc = "apply" /\ run'.at = run.at /\ run'.conflict = run.conflict
    BY <1>7, <1>r DEF Validate, Goto, Throw, Runs
  <2>. QED
    BY <1>1, <2>1 DEF Planned
<1>8. CASE /\ run.pc \in Writing \cup Verifying /\ run'.pc \in Writing \cup Verifying
           /\ run'.pc \notin {"apply", "check"} => run'.at = 1
  BY <1>1, <1>8 DEF Planned
<1>9. run.pc \in Points /\ Off.pc = "off" /\ Off.at = 1
  BY <1>r DEF Runs, Off
<1>10. CASE Apply \/ (CheckModel /\ run' # Off)
  <2>1. \/ NextModel("upsert") \in Runs /\ run' = [NextModel("upsert") EXCEPT !.todo = run.users]
           /\ run.pc = "apply"
        \/ run' = NextModel("count") /\ run.pc = "check"
    BY <1>10, <1>r, NextModelIs DEF Apply, CheckModel, Throw
  <2>2. CASE run' = NextModel("count") /\ run.pc = "check"
    BY <1>r, <1>8, <2>2, NextModelIs
  <2>3. CASE NextModel("upsert") \in Runs /\ run' = [NextModel("upsert") EXCEPT !.todo = run.users]
             /\ run.pc = "apply"
    <3>1. run'.pc = NextModel("upsert").pc /\ run'.at = NextModel("upsert").at
      BY <2>3 DEF Runs
    <3>. QED
      BY <1>r, <1>8, <2>3, <3>1, NextModelIs
  <2>. QED
    BY <2>1, <2>2, <2>3
<1>11. ASSUME NEW u \in Users, UpsertMembership(u) \/ SetPath(u) \/ UpsertIdentity(u)
       PROVE  Planned'
  <2>1. \/ run' = Off
        \/ run.pc \in {"upsert", "paths", "identities"} /\ run' = [run EXCEPT !.todo = run.todo \ {u}]
    BY <1>11 DEF UpsertMembership, SetPath, UpsertIdentity, Do, Throw
  <2>2. \/ run' = Off
        \/ run.pc \in {"upsert", "paths", "identities"} /\ run'.pc = run.pc /\ run'.at = run.at
    BY <1>r, <2>1 DEF Runs
  <2>. QED
    BY <1>3, <1>8, <1>9, <2>2 DEF Planned
<1>12. CASE ReadMemberships \/ PathsDone \/ IdentitiesDone \/ CountMemberships \/ VerifyCutover
  <2>1. \/ run' = Off
        \/ /\ run.pc \in {"upsert", "paths", "identities", "count", "applied"} /\ run'.at = run.at
           /\ run'.pc \in {"paths", "identities", "check", "applied", "accepted"}
    BY <1>12, <1>r DEF ReadMemberships, PathsDone, IdentitiesDone, CountMemberships, VerifyCutover,
       Goto, Throw, Runs
  <2>. QED
    BY <1>3, <1>8, <1>9, <2>1 DEF Planned
<1>13. CASE ResolveTenant
  <2>1. run.pc = "tenant" /\ run'.pc = "organization" /\ run'.at = run.at
    BY <1>13, <1>r DEF ResolveTenant, Goto, Runs
  <2>. QED
    BY <1>3, <2>1 DEF Planned
<1>14. CASE Stop \/ \E apply \in BOOLEAN : Begin(apply)
  <2>1. run' = Off \/ (run'.pc = "tenant" /\ run'.at = 1)
    BY <1>14 DEF Stop, Begin, Off
  <2>. QED
    BY <1>3, <1>9, <2>1
<1>15. CASE ServerStep \/ UNCHANGED <<datasetVars, backfillVars>>
  BY <1>2, <1>15 DEF ServerStep, Create, Relink, Delete, backfillVars
<1>. QED
  BY <1>3, <1>4, <1>5, <1>6, <1>7, <1>9, <1>10, <1>11, <1>12, <1>13, <1>14, <1>15
     DEF BackfillNext, ScriptStep

\* A row keeps the tenant it was assigned, and a run that met another tenant's
\* row among those it migrates writes none.
THEOREM BackfillKeepsTenants == BackfillSpec => TenantIsKept
<1>1. BackfillInit => Planned
  <2>. SUFFICES ASSUME BackfillInit PROVE Planned
    OBVIOUS
  <2>1. run.pc = "off" /\ run.at = 1
    BY DEF BackfillInit, Off
  <2>2. Foreign \subseteq rows
    BY DatasetAssumption DEF Foreign, BackfillInit, DatasetInit
  <2>. QED
    BY <2>1, <2>2 DEF Planned, Writing, Verifying
<1>2. ASSUME MigrationTyped, Planned, [BackfillNext]_<<datasetVars, backfillVars>>
      PROVE  \A r \in Rows :
                /\ (r \in rows \cap rows' /\ tenant[r] # Nil) => tenant'[r] = tenant[r]
                /\ (run.pc = "apply" /\ rows' = rows /\ tenant'[r] # tenant[r])
                      => r \in Legacy /\ \A q \in Early \cap Legacy : tenant[q] # Other
  <2>. SUFFICES ASSUME NEW r \in Rows
                PROVE  /\ (r \in rows \cap rows' /\ tenant[r] # Nil) => tenant'[r] = tenant[r]
                       /\ (run.pc = "apply" /\ rows' = rows /\ tenant'[r] # tenant[r])
                             => r \in Legacy /\ \A q \in Early \cap Legacy : tenant[q] # Other
    OBVIOUS
  <2>1. (r \in rows \cap rows' /\ tenant[r] # Nil) => tenant'[r] = tenant[r]
    BY <1>2, TenantMoves
  <2>2. ASSUME run.pc = "apply", rows' = rows, tenant'[r] # tenant[r]
        PROVE  r \in Legacy /\ \A q \in Early \cap Legacy : tenant[q] # Other
    <3>1. Foreign = {}
      BY <1>2, <2>2 DEF Planned, Writing
    <3>2. r \in Legacy
      BY <1>2, <2>2, TenantMoves
    <3>. QED
      BY <3>1, <3>2 DEF Foreign
  <2>. QED
    BY <2>1, <2>2
<1>. QED
  BY <1>1, <1>2, StartsTyped, MigrationTypedStep, PlannedStep, PTL DEF BackfillSpec, TenantIsKept


\* Only the load changes what a run has read.
LEMMA RunKeepsWhatItRead ==
    ASSUME MigrationTyped, ScriptStep, ~Load, run' # Off
    PROVE  /\ run'.users = run.users /\ run'.seen = run.seen /\ run'.paths = run.paths
           /\ run'.apply = run.apply
<1>r. run \in Runs
  BY DEF MigrationTyped
<1>1. CASE Plan \/ Apply \/ CheckModel
  <2>1. \E pc \in Points :
           /\ NextModel(pc) \in Runs
           /\ \/ run' = NextModel(pc)
              \/ run' = [NextModel(pc) EXCEPT !.todo = run.users]
              \/ \E c : run' = [NextModel(pc) EXCEPT !.conflict = c]
    <3>1. \A pc \in {"load", "upsert", "count"} : pc \in Points /\ NextModel(pc) \in Runs
      BY <1>r, NextModelIs DEF Points, Preflight, Writing, Verifying
    <3>. QED
      BY <1>1, <3>1 DEF Plan, Apply, CheckModel, Throw
  <2>2. PICK pc \in Points :
           /\ NextModel(pc) \in Runs
           /\ \/ run' = NextModel(pc)
              \/ run' = [NextModel(pc) EXCEPT !.todo = run.users]
              \/ \E c : run' = [NextModel(pc) EXCEPT !.conflict = c]
    BY <2>1
  <2>3. /\ run'.users = NextModel(pc).users /\ run'.seen = NextModel(pc).seen
        /\ run'.paths = NextModel(pc).paths /\ run'.apply = NextModel(pc).apply
    BY <2>2 DEF Runs
  <2>. QED
    BY <1>r, <2>3, NextModelIs
<1>2. CASE ~(Plan \/ Apply \/ CheckModel)
  <2>1. \/ \E pc : run' = [run EXCEPT !.pc = pc]
        \/ \E S : run' = [run EXCEPT !.todo = S]
        \/ \E pc, S : run' = [run EXCEPT !.pc = pc, !.todo = S]
        \/ \E pc, S, T : run' = [run EXCEPT !.pc = pc, !.todo = S, !.found = T]
    <3>1. ASSUME NEW u, UpsertMembership(u) \/ SetPath(u) \/ UpsertIdentity(u)
          PROVE  \E S : run' = [run EXCEPT !.todo = S]
      BY <3>1 DEF UpsertMembership, SetPath, UpsertIdentity, Throw, Do
    <3>2. ASSUME PathsDone PROVE \E pc, S : run' = [run EXCEPT !.pc = pc, !.todo = S]
      BY <3>2 DEF PathsDone
    <3>4. ASSUME ReadMemberships
          PROVE  \E pc, S, T : run' = [run EXCEPT !.pc = pc, !.todo = S, !.found = T]
      BY <3>4 DEF ReadMemberships
    <3>3. ASSUME \/ ResolveTenant \/ ResolveOrganization \/ Validate \/ IdentitiesDone
                 \/ CountMemberships \/ VerifyCutover
          PROVE  \E pc : run' = [run EXCEPT !.pc = pc]
      BY <3>3 DEF ResolveTenant, ResolveOrganization, Validate, IdentitiesDone, CountMemberships,
         VerifyCutover, Goto, Throw
    <3>. QED
      BY <1>2, <3>1, <3>2, <3>3, <3>4 DEF ScriptStep
  <2>. QED
    BY <1>r, <2>1 DEF Runs
<1>. QED
  BY <1>1, <1>2

\* A script that writes or verifies goes on to, unless it ends.
LEMMA ScriptGoesOn ==
    ASSUME MigrationTyped, ScriptStep, run.pc \in Writing \cup Verifying, run' # Off
    PROVE  run'.pc \in Writing \cup Verifying
<1>. USE DEF Preflight, Writing, Verifying
<1>r. run \in Runs
  BY DEF MigrationTyped
<1>1. CASE Apply \/ CheckModel
  <2>1. \A pc \in {"upsert", "count"} : pc \in Points /\ NextModel(pc) \in Runs
                                        /\ NextModel(pc).pc \in {run.pc, pc}
    BY <1>r, NextModelIs DEF Points
  <2>2. \/ run' = NextModel("count")
        \/ run' = [NextModel("upsert") EXCEPT !.todo = run.users]
    BY <1>1 DEF Apply, CheckModel, Throw
  <2>3. run'.pc \in {NextModel("count").pc, NextModel("upsert").pc}
    BY <2>1, <2>2 DEF Runs
  <2>. QED
    BY <2>1, <2>3
<1>2. CASE ~(Apply \/ CheckModel)
  <2>1. \/ \E S : run' = [run EXCEPT !.todo = S]
        \/ \E pc \in Writing \cup Verifying : run' = [run EXCEPT !.pc = pc]
        \/ \E S : run' = [run EXCEPT !.pc = "identities", !.todo = S]
        \/ \E S, T : run' = [run EXCEPT !.pc = "paths", !.todo = S, !.found = T]
    BY <1>2 DEF ScriptStep, ResolveTenant, ResolveOrganization, Plan, Load, Validate, UpsertMembership,
       SetPath, UpsertIdentity, ReadMemberships, PathsDone, IdentitiesDone, CountMemberships,
       VerifyCutover, Goto, Throw, Do
  <2>. QED
    BY <1>r, <2>1 DEF Runs
<1>. QED
  BY <1>1, <1>2

LEMMA DamageStays ==
    ASSUME [BackfillNext]_<<datasetVars, backfillVars>> PROVE damage' = damage
<1>1. ASSUME ScriptStep PROVE damage' = damage
  BY <1>1 DEF ScriptStep, ResolveTenant, ResolveOrganization, Plan, Load, Validate, Apply, UpsertMembership,
     SetPath, UpsertIdentity, ReadMemberships, PathsDone, IdentitiesDone, CheckModel,
     CountMemberships, VerifyCutover, datasetVars
<1>2. ASSUME ~ScriptStep PROVE damage' = damage
  BY <1>2 DEF BackfillNext, Stop, Begin, ServerStep, Create, Relink, Delete, datasetVars
<1>. QED
  BY <1>1, <1>2

LEMMA ConflictsStay ==
    ASSUME damage' = damage, run'.users = run.users, run'.seen = run.seen, run'.paths = run.paths,
           ~Conflicts
    PROVE  ~Conflicts'
  BY DEF Conflicts, Target, Fields

\* A membership of a user to migrate is the destination's.
LEMMA LegacyMembers ==
    ASSUME MigrationTyped, Prepared, [BackfillNext]_<<datasetVars, backfillVars>>,
           NEW u \in Users, u \in Legacy, member'[u] # Nil
    PROVE  member'[u].tenant = Tenant
<1>m. member \in [Users -> {Nil} \cup Memberships] /\ (member[u] # Nil => member[u].tenant = Tenant)
  BY DEF MigrationTyped, Prepared
<1>r. \A v \in Users : member[v] # Nil =>
         member[v] = [tenant |-> member[v].tenant, path |-> member[v].path]
  BY <1>m DEF Memberships
<1>1. CASE UNCHANGED member
  BY <1>1, <1>m
<1>2. ASSUME NEW v \in Users, UpsertMembership(v) PROVE member'[u].tenant = Tenant
  <2>1. member' = [member EXCEPT ![v] = IF member[v] = Nil THEN [tenant |-> Tenant, path |-> <<>>]
                                        ELSE [member[v] EXCEPT !.tenant = Tenant]]
    BY <1>2 DEF UpsertMembership
  <2>. QED
    BY <1>m, <1>r, <2>1
<1>3. ASSUME NEW v \in Users, SetPath(v) PROVE member'[u].tenant = Tenant
  <2>1. \/ UNCHANGED member
        \/ member[v] # Nil /\ member' = [member EXCEPT ![v] = [member[v] EXCEPT !.path = run.paths[v]]]
    BY <1>3 DEF SetPath, PathRead
  <2>. QED
    BY <1>1, <1>m, <1>r, <2>1
<1>4. ASSUME NEW bound, NEW v, Create(v, bound) PROVE member'[u].tenant = Tenant
  BY <1>4, <1>m DEF Create
<1>5. ASSUME NEW bound, NEW v \in Users, NEW p \in Users, Relink(v, p, bound) PROVE member'[u].tenant = Tenant
  <2>1. UNCHANGED member \/ \E l : member' = [member EXCEPT ![v] = [tenant |-> Tenant, path |-> l]]
    BY <1>5 DEF Relink
  <2>. QED
    BY <1>m, <2>1
<1>6. ASSUME NEW bound, NEW v \in Users, Delete(v, bound) PROVE member'[u].tenant = Tenant
  BY <1>6, <1>m DEF Delete
<1>7. ASSUME ScriptStep, ~(\E v \in Users : UpsertMembership(v) \/ SetPath(v)) PROVE UNCHANGED member
  BY <1>7 DEF ScriptStep, ResolveTenant, ResolveOrganization, Plan, Load, Validate, Apply,
     UpsertIdentity, ReadMemberships, PathsDone, IdentitiesDone, CheckModel,
     CountMemberships, VerifyCutover, datasetVars
<1>8. ASSUME Stop \/ (\E apply \in BOOLEAN : Begin(apply)) \/ UNCHANGED <<datasetVars, backfillVars>>
      PROVE  UNCHANGED member
  BY <1>8 DEF Stop, Begin, datasetVars
<1>. QED
  BY <1>1, <1>2, <1>3, <1>4, <1>5, <1>6, <1>7, <1>8 DEF BackfillNext, ServerStep

LEMMA PreparedStep ==
    ASSUME MigrationTyped, Prepared, [BackfillNext]_<<datasetVars, backfillVars>>
    PROVE  Prepared'
<1>. USE DEF Preflight, Writing, Verifying
<1>r. run \in Runs /\ run.pc \in Points /\ run.apply \in BOOLEAN
  BY DEF MigrationTyped, Runs
<1>m. \A u \in Users \cap Legacy : member'[u] # Nil => member'[u].tenant = Tenant
  BY LegacyMembers
<1>k. known \subseteq known' /\ organized \subseteq organized' /\ organized' \subseteq known'
  <2>1. CASE ResolveTenant
    BY <2>1 DEF ResolveTenant, Prepared
  <2>2. CASE ResolveOrganization
    BY <2>2 DEF ResolveOrganization, Prepared
  <2>3. ASSUME ~ResolveTenant, ~ResolveOrganization, ScriptStep PROVE UNCHANGED <<known, organized>>
    BY <2>3 DEF ScriptStep, Plan, Load, Validate, Apply, UpsertMembership,
       SetPath, UpsertIdentity, ReadMemberships, PathsDone, IdentitiesDone, CheckModel,
       CountMemberships, VerifyCutover, datasetVars
  <2>4. ASSUME ~ScriptStep PROVE UNCHANGED <<known, organized>>
    BY <2>4 DEF BackfillNext, Stop, Begin, ServerStep, Create, Relink, Delete, datasetVars
  <2>. QED
    BY <2>1, <2>2, <2>3, <2>4 DEF Prepared
<1>1. CASE run'.pc \in {"off", "tenant"} /\ run'.users \subseteq Legacy
  BY <1>1, <1>m, <1>k DEF Prepared
<1>0. Off.pc = "off" /\ Off.users \subseteq Legacy
  BY DEF Off
<1>2. CASE ResolveTenant
  <2>1. /\ run'.pc = "organization" /\ run'.apply = run.apply /\ run'.users = run.users
        /\ run.apply => Tenant \in known'
    BY <1>2, <1>r DEF ResolveTenant, Goto, Runs
  <2>. QED
    BY <2>1, <1>m, <1>k DEF Prepared
<1>3. CASE ResolveOrganization
  <2>1. /\ run'.pc = "plan" /\ run'.apply = run.apply /\ run'.users = run.users
        /\ run.apply => Tenant \in organized'
    BY <1>3, <1>r DEF ResolveOrganization, Goto, Runs
  <2>. QED
    BY <2>1, <1>m, <1>k DEF Prepared
<1>4. CASE Plan
  <2>1. run.pc = "plan" /\ run'.pc \in {"plan", "load"}
    <3>1. NextModel("load").pc \in {"plan", "load"} /\ NextModel("load") \in Runs /\ run.pc = "plan"
      BY <1>4, <1>r, NextModelIs DEF Plan, Points
    <3>2. \E c : run' = [NextModel("load") EXCEPT !.conflict = c]
      BY <1>4 DEF Plan
    <3>. QED
      BY <3>1, <3>2 DEF Runs
  <2>2. run' # Off /\ ~Load
    BY <2>1, <1>0 DEF Load
  <2>3. run'.apply = run.apply /\ run'.users = run.users
    BY <1>4, <2>2, RunKeepsWhatItRead DEF ScriptStep
  <2>. QED
    BY <2>1, <2>3, <1>m, <1>k DEF Prepared
<1>5. CASE Load
  <2>1. /\ run.pc = "load" /\ run'.pc = "validate" /\ run'.apply = run.apply
        /\ run'.users = OwnRows("User")
    BY <1>5, <1>r DEF Load, Runs
  <2>. QED
    BY <2>1, <1>m, <1>k DEF Prepared, OwnRows
<1>6. CASE Validate
  <2>1. CASE run' = Off
    BY <1>0, <1>1, <2>1
  <2>2. CASE run' # Off
    <3>1. run.pc = "validate" /\ ~Conflicts /\ run.apply /\ run'.pc = "apply"
      BY <1>6, <1>r, <2>2 DEF Validate, Goto, Throw, Runs
    <3>2. ~Load
      BY <3>1 DEF Load
    <3>3. /\ run'.users = run.users /\ run'.seen = run.seen /\ run'.paths = run.paths
          /\ run'.apply = run.apply
      BY <1>6, <2>2, <3>2, RunKeepsWhatItRead DEF ScriptStep
    <3>4. ~Conflicts'
      BY <3>1, <3>3, DamageStays, ConflictsStay
    <3>. QED
      BY <3>1, <3>3, <3>4, <1>m, <1>k DEF Prepared
  <2>. QED
    BY <2>1, <2>2
<1>7. ASSUME ScriptStep, run.pc \in Writing \cup Verifying PROVE Prepared'
  <2>1. CASE run' = Off
    BY <1>0, <1>1, <2>1
  <2>2. CASE run' # Off
    <3>1. ~Load
      BY <1>7 DEF Load
    <3>2. /\ run'.users = run.users /\ run'.seen = run.seen /\ run'.paths = run.paths
          /\ run'.apply = run.apply
      BY <1>7, <2>2, <3>1, RunKeepsWhatItRead
    <3>3. ~Conflicts' /\ Tenant \in organized'
      BY <1>7, <1>k, <3>2, DamageStays, ConflictsStay DEF Prepared
    <3>4. run'.pc \in Writing \cup Verifying
      BY <1>7, <2>2, <3>1, ScriptGoesOn
    <3>. QED
      BY <3>2, <3>3, <3>4, <1>m, <1>k DEF Prepared
  <2>. QED
    BY <2>1, <2>2
<1>8. CASE Stop \/ \E apply \in BOOLEAN : Begin(apply)
  <2>1. run'.pc \in {"off", "tenant"} /\ run'.users \subseteq Legacy
    <3>1. ASSUME NEW apply, Begin(apply) PROVE run'.pc = "tenant" /\ run'.users = {}
      BY <3>1 DEF Begin, Off
    <3>2. ASSUME Stop PROVE run' = Off
      BY <3>2 DEF Stop
    <3>. QED
      BY <1>0, <1>8, <3>1, <3>2
  <2>. QED
    BY <1>1, <2>1
<1>9. CASE run' = run
  <2>1. Conflicts' = Conflicts
    BY <1>9, DamageStays DEF Conflicts, Target, Fields
  <2>. QED
    BY <1>9, <2>1, <1>m, <1>k DEF Prepared
<1>10. CASE ServerStep \/ UNCHANGED <<datasetVars, backfillVars>>
  BY <1>9, <1>10 DEF ServerStep, Create, Relink, Delete, backfillVars
<1>11. ScriptStep => \/ ResolveTenant \/ ResolveOrganization \/ Plan \/ Load \/ Validate
                     \/ run.pc \in Writing \cup Verifying
  BY DEF ScriptStep, Apply, UpsertMembership, SetPath, UpsertIdentity, ReadMemberships, PathsDone,
     IdentitiesDone, CheckModel, CountMemberships, VerifyCutover
<1>. QED
  BY <1>2, <1>3, <1>4, <1>5, <1>6, <1>7, <1>8, <1>10, <1>11 DEF BackfillNext

-----------------------------------------------------------------------------
(* A clean run *)

\* What a finished run has read and written, as its steps go on.
LEMMA UndisturbedStep ==
    ASSUME MigrationTyped, Planned, Prepared, Prepared', quiet /\ Undisturbed, ScriptStep
    PROVE  Undisturbed'
<1>. USE DEF Preflight, Writing, Verifying
<1>r. /\ run \in Runs /\ run.pc \in Points /\ run.users \subseteq Users
      /\ run.at \in 1..Len(Models) /\ Len(Models) \in Nat
      /\ Off.pc = "off" /\ member \in [Users -> {Nil} \cup Memberships]
      /\ identity \in [Subjects -> {Nil} \cup Users] /\ tenant \in [Rows -> {Nil, Tenant, Other}]
  BY BackfillAssumption DEF MigrationTyped, Runs, Off
<1>n. /\ \A u \in Users : member[u] # Nil =>
            member[u] = [tenant |-> member[u].tenant, path |-> member[u].path]
      /\ Nil \notin Memberships
  BY <1>r, DatasetAssumption DEF Memberships
<1>0. CASE run'.pc \notin {"validate"} \cup Writing \cup Verifying
  BY <1>0 DEF Undisturbed
<1>k. ASSUME ~Load, run' # Off, UNCHANGED <<rows, path>>,
             run.pc \in {"validate"} \cup Writing \cup Verifying
      PROVE  UsersRead' /\ run'.users = run.users
  BY <1>k, RunKeepsWhatItRead DEF UsersRead, Undisturbed, OwnRows, Live
<1>1. CASE ResolveTenant \/ ResolveOrganization
  <2>1. run'.pc \in {"organization", "plan"}
    BY <1>1, <1>r DEF ResolveTenant, ResolveOrganization, Goto, Runs
  <2>. QED
    BY <1>0, <2>1
<1>2. CASE Plan
  <2>1. NextModel("load").pc \in {"plan", "load"} /\ NextModel("load") \in Runs
    BY <1>2, <1>r, NextModelIs DEF Plan, Points
  <2>2. \E c : run' = [NextModel("load") EXCEPT !.conflict = c]
    BY <1>2 DEF Plan
  <2>3. run'.pc \in {"plan", "load"}
    BY <2>1, <2>2 DEF Runs
  <2>. QED
    BY <1>0, <2>3
<1>3. CASE Load
  <2>1. /\ run'.pc = "validate" /\ run'.users = OwnRows("User") /\ run'.paths = path
        /\ run'.seen = rows \cap Legacy /\ UNCHANGED <<rows, path>>
    BY <1>3, <1>r DEF Load, Runs, datasetVars
  <2>2. UsersRead'
    BY <2>1 DEF UsersRead, OwnRows, Live
  <2>. QED
    BY <2>1, <2>2 DEF Undisturbed
<1>4. CASE run' = Off
  BY <1>0, <1>4, <1>r
<1>5. CASE Validate /\ run' # Off
  <2>1. run.pc = "validate" /\ run'.pc = "apply" /\ UNCHANGED <<rows, path>>
    BY <1>5, <1>r DEF Validate, Goto, Throw, Runs, datasetVars
  <2>2. UsersRead'
    BY <1>5, <1>k, <2>1 DEF Load
  <2>. QED
    BY <2>1, <2>2 DEF Undisturbed
<1>6. CASE Apply
  <2>1. NextModel("upsert") \in Runs /\ NextModel("upsert").pc \in {"apply", "upsert"} /\ run.pc = "apply"
    BY <1>6, <1>r, NextModelIs DEF Apply, Points
  <2>2. run' = [NextModel("upsert") EXCEPT !.todo = run.users] /\ UNCHANGED <<rows, path>>
    BY <1>6 DEF Apply
  <2>3. run'.pc \in {"apply", "upsert"} /\ run'.todo = run.users
    BY <2>1, <2>2 DEF Runs
  <2>4. UsersRead' /\ run'.users = run.users
    BY <1>k, <1>r, <2>1, <2>2, <2>3 DEF Load
  <2>. QED
    BY <2>3, <2>4 DEF Undisturbed, Joined
<1>7. ASSUME NEW u \in Users, UpsertMembership(u) PROVE Undisturbed'
  <2>1. /\ run.pc = "upsert" /\ u \in run.todo /\ UNCHANGED <<rows, path>>
        /\ run' = [run EXCEPT !.todo = run.todo \ {u}]
        /\ member' = [member EXCEPT ![u] = IF member[u] = Nil THEN [tenant |-> Tenant, path |-> <<>>]
                                           ELSE [member[u] EXCEPT !.tenant = Tenant]]
    BY <1>7 DEF UpsertMembership, Do
  <2>2. run'.pc = "upsert" /\ run'.todo = run.todo \ {u}
    BY <1>r, <2>1 DEF Runs
  <2>3. UsersRead' /\ run'.users = run.users
    BY <1>k, <1>r, <2>1, <2>2 DEF Load
  <2>4. member'[u] # Nil
    <3>1. (IF member[u] = Nil THEN [tenant |-> Tenant, path |-> <<>>]
           ELSE [member[u] EXCEPT !.tenant = Tenant]) \in Memberships
      <4>1. <<>> \in Seq(Users)
        OBVIOUS
      <4>. QED
        BY <1>r, <1>n, <4>1 DEF Memberships
    <3>. QED
      BY <1>r, <1>n, <2>1, <3>1
  <2>5. \A v \in run.users \ (run.todo \ {u}) : member'[v] # Nil
    BY <1>r, <2>1, <2>4 DEF Undisturbed, Joined
  <2>. QED
    BY <2>2, <2>3, <2>5 DEF Undisturbed, Joined
<1>8. CASE ReadMemberships
  <2>1. /\ run.pc = "upsert" /\ run.todo = {} /\ UNCHANGED <<rows, path, member>>
        /\ run'.pc = "paths" /\ run'.todo = run.users
    BY <1>8, <1>r DEF ReadMemberships, Runs, datasetVars
  <2>2. UsersRead' /\ run'.users = run.users
    BY <1>k, <1>r, <2>1 DEF Load
  <2>. QED
    BY <2>1, <2>2 DEF Undisturbed, Joined, Mirrored
<1>9. ASSUME NEW u \in Users, SetPath(u), run' # Off PROVE Undisturbed'
  <2>1. /\ run.pc = "paths" /\ u \in run.todo /\ UNCHANGED <<rows, path>>
        /\ run' = [run EXCEPT !.todo = run.todo \ {u}] /\ member[u] # Nil
        /\ member' = [member EXCEPT ![u] = [member[u] EXCEPT !.path = run.paths[u]]]
    BY <1>9 DEF SetPath, Do, Throw, PathRead
  <2>2. run'.pc = "paths" /\ run'.todo = run.todo \ {u}
    BY <1>r, <2>1 DEF Runs
  <2>3. UsersRead' /\ run'.users = run.users /\ run.paths = path
    BY <1>9, <1>k, <1>r, <2>1, <2>2 DEF Load, Undisturbed, UsersRead
  <2>4. member'[u] = [tenant |-> member[u].tenant, path |-> path[u]] /\ path[u] \in Seq(Users)
        /\ member[u].tenant \in {Tenant, Other}
    BY <1>r, <1>n, <2>1, <2>3 DEF MigrationTyped, Memberships
  <2>5. member'[u] # Nil /\ member'[u].path = path[u]
    BY <1>n, <2>4 DEF Memberships
  <2>6. \A v \in Users \ {u} : member'[v] = member[v]
    BY <1>r, <2>1
  <2>. QED
    BY <1>r, <2>1, <2>2, <2>3, <2>5, <2>6 DEF Undisturbed, Joined, Mirrored
<1>10. CASE PathsDone
  <2>1. /\ run.pc = "paths" /\ run.todo = {} /\ UNCHANGED <<rows, path, member, identity>>
        /\ run'.pc = "identities" /\ run'.todo = {u \in run.users : ClerkOf[u] # Nil}
    BY <1>10, <1>r DEF PathsDone, Runs, datasetVars
  <2>2. UsersRead' /\ run'.users = run.users
    BY <1>k, <1>r, <2>1 DEF Load
  <2>. QED
    BY <2>1, <2>2 DEF Undisturbed, Joined, Mirrored, SignsIn
<1>11. ASSUME NEW u \in Users, UpsertIdentity(u), run' # Off PROVE Undisturbed'
  <2>1. /\ run.pc = "identities" /\ u \in run.todo /\ UNCHANGED <<rows, path, member>>
        /\ run' = [run EXCEPT !.todo = run.todo \ {u}] /\ identity[ClerkOf[u]] \in {Nil, u}
        /\ identity' = [identity EXCEPT ![ClerkOf[u]] = u]
    BY <1>11 DEF UpsertIdentity, Do, Throw, Linkable
  <2>2. run'.pc = "identities" /\ run'.todo = run.todo \ {u}
    BY <1>r, <2>1 DEF Runs
  <2>3. UsersRead' /\ run'.users = run.users
    BY <1>11, <1>k, <1>r, <2>1, <2>2 DEF Load
  <2>4. ASSUME NEW v \in run.users \ (run.todo \ {u}), ClerkOf[v] # Nil
        PROVE  identity'[ClerkOf[v]] = v
    <3>1. ClerkOf[v] \in Subjects /\ v # Nil /\ u # Nil
      BY <1>r, <2>4, DatasetAssumption DEF Subjects, Users, Of
    <3>2. v # u => identity[ClerkOf[v]] = v
      BY <2>1, <2>4 DEF Undisturbed, SignsIn
    <3>. QED
      BY <1>r, <2>1, <3>1, <3>2
  <2>. QED
    BY <2>1, <2>2, <2>3, <2>4 DEF Undisturbed, Joined, Mirrored, SignsIn
<1>12. CASE IdentitiesDone
  <2>1. /\ run.pc = "identities" /\ run.todo = {} /\ UNCHANGED <<rows, path, member, identity>>
        /\ run'.pc = "check" /\ run'.at = 1
    BY <1>12, <1>r DEF IdentitiesDone, Goto, Runs, datasetVars, Planned
  <2>2. UsersRead' /\ run'.users = run.users
    BY <1>k, <1>r, <2>1 DEF Load
  <2>. QED
    BY <2>1, <2>2 DEF Undisturbed, Joined, Mirrored, SignsIn, Moved
<1>13. CASE CheckModel /\ run' # Off
  <2>1. /\ run.pc = "check" /\ run' = NextModel("count") /\ UNCHANGED <<rows, path, member, identity, tenant>>
        /\ \A r \in OwnRows(Models[run.at]) : tenant[r] = Tenant
    BY <1>13 DEF CheckModel, Throw, datasetVars
  <2>2. \/ run.at < Len(Models) /\ run'.at = run.at + 1 /\ run'.pc = "check"
        \/ run.at = Len(Models) /\ run'.at = 1 /\ run'.pc = "count"
    BY <1>r, <2>1, NextModelIs DEF Points
  <2>3. UsersRead' /\ run'.users = run.users
    BY <1>13, <1>k, <1>r, <2>1, <2>2 DEF Load
  <2>4. ASSUME NEW r \in rows \cap Legacy, NEW i \in 1..Len(Models), i <= run.at, ModelOf[r] = Models[i]
        PROVE  tenant[r] = Tenant
    <3>1. CASE i = run.at
      BY <2>1, <2>4, <3>1, DatasetAssumption DEF OwnRows, Live, Of
    <3>2. CASE i # run.at
      <4>1. i \in 1..run.at - 1
        BY <1>r, <2>4, <3>2
      <4>. QED
        BY <2>1, <2>4, <4>1 DEF Undisturbed, Moved
    <3>. QED
      BY <3>1, <3>2
  <2>5. CASE run'.pc = "check" /\ run'.at = run.at + 1
    <3>1. \A i \in 1..run'.at - 1 : i \in 1..Len(Models) /\ i <= run.at
      BY <1>r, <2>2, <2>5
    <3>2. Moved({r \in rows \cap Legacy : \E i \in 1..run'.at - 1 : ModelOf[r] = Models[i]})
      BY <2>4, <3>1 DEF Moved
    <3>. QED
      BY <2>1, <2>3, <2>5, <3>2 DEF Undisturbed, Joined, Mirrored, SignsIn, Moved
  <2>6. CASE run'.pc = "count" /\ run.at = Len(Models)
    <3>1. ASSUME NEW r \in rows \cap Legacy PROVE tenant[r] = Tenant
      <4>1. PICK i \in 1..Len(Models) : ModelOf[r] = Models[i]
        BY BackfillAssumption DEF Range
      <4>2. i <= run.at
        BY <1>r, <2>6
      <4>. QED
        BY <2>4, <4>1, <4>2
    <3>. QED
      BY <2>1, <2>3, <2>6, <3>1 DEF Undisturbed, Joined, Mirrored, SignsIn, Moved
  <2>. QED
    BY <2>2, <2>5, <2>6
<1>14. CASE CountMemberships /\ run' # Off
  <2>1. /\ run.pc = "count" /\ UNCHANGED <<rows, path, member, identity, tenant>>
        /\ run'.pc = "applied"
        /\ Cardinality(Members) = Cardinality(run.users)
    BY <1>14, <1>r DEF CountMemberships, Goto, Throw, Runs, datasetVars, Members
  <2>2. UsersRead' /\ run'.users = run.users
    BY <1>14, <1>k, <1>r, <2>1 DEF Load
  <2>3. Members = run.users
    <3>1. run.users \subseteq Members
      BY <1>r, <2>1 DEF Undisturbed, Joined, Prepared, Members
    <3>2. Members \subseteq Rows
      BY DEF Members, Users, Of
    <3>3. IsFiniteSet(Members)
      BY <3>2, DatasetAssumption, FS_Subset
    <3>. QED
      BY <2>1, <3>1, <3>3, FS_Subset
  <2>4. Members' = Members
    BY <2>1 DEF Members
  <2>. QED
    BY <2>1, <2>2, <2>3, <2>4 DEF Undisturbed, Joined, Mirrored, SignsIn, Moved
<1>15. CASE VerifyCutover /\ run' # Off
  <2>1. /\ run.pc = "applied" /\ UNCHANGED <<rows, path, member, identity, tenant>>
        /\ run'.pc = "accepted"
    BY <1>15, <1>r DEF VerifyCutover, Goto, Throw, Runs, datasetVars
  <2>2. UsersRead' /\ run'.users = run.users
    BY <1>15, <1>k, <1>r, <2>1 DEF Load
  <2>3. Members' = Members
    BY <2>1 DEF Members
  <2>. QED
    BY <2>1, <2>2, <2>3 DEF Undisturbed, Joined, Mirrored, SignsIn, Moved
<1>. QED
  BY <1>1, <1>2, <1>3, <1>4, <1>5, <1>6, <1>7, <1>8, <1>9, <1>10, <1>11, <1>12, <1>13, <1>14, <1>15
     DEF ScriptStep

MigrationInv == MigrationTyped /\ Planned /\ Prepared /\ (quiet => Undisturbed)

LEMMA MigrationInvStep ==
    ASSUME MigrationInv, [BackfillNext]_<<datasetVars, backfillVars>>
    PROVE  MigrationInv'
<1>1. MigrationTyped' /\ Planned' /\ Prepared'
  BY MigrationTypedStep, PlannedStep, PreparedStep DEF MigrationInv
<1>2. ASSUME quiet' PROVE Undisturbed'
  <2>1. CASE ScriptStep
    <3>1. quiet' = quiet
      BY <2>1 DEF ScriptStep, ResolveTenant, ResolveOrganization, Plan, Load, Validate, Apply,
         UpsertMembership, SetPath, UpsertIdentity, ReadMemberships, PathsDone, IdentitiesDone,
         CheckModel, CountMemberships, VerifyCutover
    <3>. QED
      BY <1>1, <1>2, <2>1, <3>1, UndisturbedStep DEF MigrationInv
  <2>2. CASE Stop
    BY <2>2 DEF Stop, Off, Undisturbed, Writing, Verifying
  <2>3. ASSUME NEW apply \in BOOLEAN, Begin(apply) PROVE Undisturbed'
    <3>1. run'.pc = "tenant"
      BY <2>3 DEF Begin, Off
    <3>. QED
      BY <3>1 DEF Undisturbed, Writing, Verifying
  <2>4. CASE ServerStep
    BY <1>2, <2>4 DEF ServerStep, Create, Relink, Delete, Request
  <2>5. CASE UNCHANGED <<datasetVars, backfillVars>>
    <3>1. Undisturbed
      BY <1>2, <2>5 DEF MigrationInv, backfillVars
    <3>. QED
      BY <2>5, <3>1 DEF datasetVars, backfillVars, Undisturbed, UsersRead, OwnRows, Live, Joined,
         Mirrored, SignsIn, Moved, Members
  <2>. QED
    BY <2>1, <2>2, <2>3, <2>4, <2>5 DEF BackfillNext
<1>. QED
  BY <1>1, <1>2 DEF MigrationInv

\* A run that found all as it should be has left nothing for the verifier to
\* refuse among the rows it migrated.
LEMMA FinishedIsClean ==
    ASSUME MigrationInv, run.pc = "applied", quiet
    PROVE  \A f \in CutoverFailures : Covered(f) => f[2] \notin Legacy \cup {Tenant}
<1>. USE DEF Writing, Verifying
<1>f. /\ UsersRead /\ Joined(run.users) /\ Mirrored(run.users) /\ SignsIn(run.users)
      /\ Moved(rows \cap Legacy) /\ Members = run.users
      /\ Tenant \in organized /\ organized \subseteq known /\ ~Conflicts
  BY DEF MigrationInv, Undisturbed, Prepared
<1>t. /\ {Nil, Tenant, Other} \cap Rows = {} /\ Nil \notin {Tenant, Other} /\ Legacy \subseteq Rows
      /\ rows \subseteq Rows /\ known \subseteq {Tenant, Other}
      /\ member \in [Users -> {Nil} \cup Memberships] /\ run.users \subseteq Users
  BY DatasetAssumption DEF MigrationInv, MigrationTyped, Runs
\* What there is of a user to migrate.
<1>u. ASSUME NEW u \in run.users
      PROVE  /\ u \in rows \cap Legacy /\ u \in Users /\ tenant[u] = Tenant
             /\ member[u] # Nil /\ member[u].tenant = Tenant /\ member[u].path = path[u]
             /\ ClerkOf[u] # Nil => identity[ClerkOf[u]] = u
             /\ \A a \in Range(path[u]) : a \in run.users
  <2>1. u \in rows \cap Legacy /\ u \in Users
    BY <1>f, <1>t DEF UsersRead, OwnRows, Live
  <2>2. \A a \in Range(path[u]) : a \in run.users
    BY <1>f DEF Conflicts, UsersRead
  <2>. QED
    BY <1>f, <2>1, <2>2 DEF Joined, Mirrored, SignsIn, Moved, Members
<1>v. \A u \in Users \cap Legacy : u \in rows => u \in run.users
  BY <1>f DEF UsersRead, OwnRows, Live, Users
<1>. SUFFICES ASSUME NEW f \in CutoverFailures, Covered(f), f[2] \in Legacy \cup {Tenant}
              PROVE  FALSE
  OBVIOUS
<1>1. CASE f \in MissingTenantIds
  BY <1>1, <1>f, <1>t DEF MissingTenantIds, Moved
<1>2. CASE f \in FoundationFailures
  <2>1. CASE \E t \in organized \ known : f = <<"organization", t>>
    BY <2>1, <1>f
  <2>2. ASSUME NEW u \in Users, f = <<"membership", u>>, member[u] # Nil,
               \/ u \notin rows
               \/ member[u].tenant \notin organized
               \/ Mismatch(tenant[u], member[u].tenant)
               \/ \E a \in Range(member[u].path) :
                    member[a] = Nil \/ member[a].tenant # member[u].tenant
        PROVE  FALSE
    <3>1. u \in Legacy
      BY <2>2, <1>t DEF Users, Of
    <3>2. u \in run.users
      BY <1>f, <2>2, <3>1 DEF MigrationInv, Prepared, Members
    <3>. QED
      BY <1>f, <1>t, <1>u, <2>2, <3>2 DEF Mismatch
  <2>3. CASE \E s : f = <<"identity", s>>
    BY <2>3 DEF Covered
  <2>. QED
    BY <1>2, <2>1, <2>2, <2>3 DEF FoundationFailures
<1>3. CASE f \in UserPathFailures
  <2>1. PICK u \in Live("User") : /\ f = <<"path", u>>
                                  /\ \E a \in Range(path[u]) : a \notin rows \/ Mismatch(tenant[u], tenant[a])
    BY <1>3 DEF UserPathFailures
  <2>2. u \in run.users
    BY <1>t, <1>v, <2>1 DEF Live, Users, Of
  <2>. QED
    BY <1>t, <1>u, <2>1, <2>2 DEF Mismatch
<1>4. ASSUME NEW models, f \in Astray(models) PROVE FALSE
  <2>1. PICK r \in rows : /\ f = <<"reference", r>>
                          /\ \E g \in Fields(r) : LET t == Target(r, g)
                                                  IN  t \notin rows \/ Mismatch(tenant[t], tenant[r])
    BY <1>4 DEF Astray
  <2>2. r \in rows \cap Legacy /\ ModelOf[r] \in Checked
    BY <1>t, <2>1 DEF Covered
  <2>3. PICK g \in Fields(r) : Target(r, g) \notin rows \/ Mismatch(tenant[Target(r, g)], tenant[r])
    BY <2>1
  <2>4. Target(r, g) \in rows \cap Legacy
    BY <1>f, <2>2, <2>3 DEF Conflicts, UsersRead
  <2>. QED
    BY <1>f, <1>t, <2>2, <2>3, <2>4 DEF Moved, Mismatch
<1>5. CASE f \in SessionFailures \cup ActivityFailures \cup PurchaseFailures
  <2>1. CASE \E r : f = <<"admin", r>>
    BY <2>1 DEF Covered
  <2>. QED
    BY <1>4, <1>5, <2>1 DEF SessionFailures, ActivityFailures, PurchaseFailures
<1>6. CASE f \in CheckoutFailures \cup ContentFailures
  <2>1. CASE (\E r : f = <<"price", r>>) \/ (\E r : f = <<"term", r>>)
    BY <2>1 DEF Covered
  <2>. QED
    BY <1>4, <1>6, <2>1 DEF CheckoutFailures, ContentFailures
<1>7. CASE f \in KeyFailures \cup Collisions
  <2>1. (\E r : f = <<"key", r>>) \/ (\E r : f = <<"collision", r>>)
    BY <1>7 DEF KeyFailures, Collisions
  <2>. QED
    BY <2>1 DEF Covered
<1>8. CASE f \in WorkspaceFailures
  <2>1. CASE \E t \in known \ organized : f = <<"workspace", t>>
    BY <1>f, <1>t, <2>1
  <2>2. ASSUME NEW u \in Live("User"), f = <<"user", u>>, Unmigrated(u) PROVE FALSE
    <3>1. u \in run.users
      BY <1>t, <1>v, <2>2 DEF Live, Users, Of
    <3>. QED
      BY <1>u, <2>2, <3>1 DEF Unmigrated
  <2>. QED
    BY <1>8, <2>1, <2>2 DEF WorkspaceFailures
<1>. QED
  BY <1>1, <1>2, <1>3, <1>5, <1>6, <1>7 , <1>8 DEF CutoverFailures

\* A run that reports success, and met no write of the server on its way, has
\* left nothing for the verifier to refuse, however many runs stopped before.
THEOREM CleanBackfill == BackfillSpec => []BackfilledIsClean
<1>1. BackfillInit => MigrationInv
  <2>. SUFFICES ASSUME BackfillInit PROVE MigrationInv
    OBVIOUS
  <2>1. run.pc = "off" /\ run.at = 1 /\ run.users = {} /\ organized = known /\ rows = Early
    BY DEF BackfillInit, DatasetInit, Off
  <2>2. Planned
    BY <2>1, DatasetAssumption DEF Foreign, BackfillInit, DatasetInit, Planned, Writing, Verifying
  <2>3. \A u \in Users \cap Legacy : member[u] = Nil
    BY DEF BackfillInit, DatasetInit
  <2>4. Prepared
    BY <2>1, <2>3 DEF Prepared, Preflight, Writing, Verifying
  <2>5. Undisturbed
    BY <2>1 DEF Undisturbed, Writing, Verifying
  <2>. QED
    BY <2>2, <2>4, <2>5, StartsTyped DEF MigrationInv
<1>2. MigrationInv => BackfilledIsClean
  BY FinishedIsClean DEF BackfilledIsClean
<1>. QED
  BY <1>1, <1>2, MigrationInvStep, PTL DEF BackfillSpec

=============================================================================
