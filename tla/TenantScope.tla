----------------------------- MODULE TenantScope -----------------------------
(***************************************************************************)
(* A request from its arrival to its database calls: withRequestScope      *)
(* (lib/api-request-scope.ts) reads the environment, finds the tenant the  *)
(* request names by the configuration in force (lib/tenant-resolution*.ts) *)
(* and looks it up (lib/tenant-binding.ts); every call of the handler then *)
(* goes through the scoped client with that snapshot.  Meanwhile an        *)
(* administrator switches the environment, and an operator changes the     *)
(* configuration, tenants and domains in the database.  Hosts, paths and   *)
(* keys are those their normalisation yields.                              *)
(***************************************************************************)
EXTENDS ScopeGuard

CONSTANTS
    Requests, Tenants,
    Labels,         \* host labels and path segments; those in Tenants are keys
    Hosts,          \* hosts outside the base domain
    HasSecret,      \* is TENANT_RESOLUTION_SHARED_SECRET set and long enough
    CacheMs, Skew,  \* life of the cached configuration; clock skew allowed
    MaxTime, MaxChanges, MaxCalls   \* bounds

ASSUME ScopeAssumption == Absent \notin Tenants /\ CacheMs \in Nat \ {0}

VARIABLES
    deployed,       \* APP_ENV
    config,         \* SystemConfig TENANT_RESOLUTION: a mode, or Absent
    cached,         \* the configuration cached: [mode, until], or Absent
    active,         \* the active tenants
    domains,        \* TenantDomain: host to tenant, or Absent
    request,        \* by request: where it is, its input and its scope
    time, changes, calls,
    inForce,        \* history: by mode, when it was last in force
    last            \* history: the last call, who made it and what it returned

scopeVars == <<store, deployed, config, cached, active, domains, request, time, changes, calls, inForce, last>>

Modes == {"subdomain", "custom-domain", "path-prefix", "trusted-header"}

Plain == [host |-> [labels |-> <<>>, elsewhere |-> Absent], segment |-> Absent, header |-> Absent]

\* A host is labels under the base domain, or elsewhere; a header is a key,
\* signed or not for this host and path, at a time.  No mode looks at more
\* than one of host, path and header.
Inputs ==
    {[Plain EXCEPT !.host = [labels |-> l, elsewhere |-> Absent]] :
        l \in {<<k>> : k \in Labels} \cup {<<k, k>> : k \in Labels}}
      \cup {[Plain EXCEPT !.host.elsewhere = h] : h \in Hosts}
      \cup {[Plain EXCEPT !.segment = k] : k \in {Absent} \cup Labels}
      \cup {[Plain EXCEPT !.header = h] : h \in [key : Tenants \cap Labels, at : {0, MaxTime}, signed : BOOLEAN]}

Idle == [pc |-> "idle", input |-> Plain, env |-> Absent, candidate |-> Absent,
         tenant |-> Absent, due |-> {}]

ScopeInit ==
    /\ deployed \in Envs
    /\ config \in Modes \cup {Absent}
    /\ cached = Absent
    /\ active = Tenants
    /\ domains \in [Hosts -> Tenants \cup {Absent}]
    /\ request = [r \in Requests |-> Idle]
    /\ time = 0 /\ changes = 0 /\ calls = 0
    /\ inForce = [m \in Modes \cup {Absent, "invalid"} |-> IF m = config THEN 0 ELSE -1 - CacheMs]
    /\ last = [by |-> Absent, saw |-> {}]

-----------------------------------------------------------------------------
(* Resolution *)

\* getAppEnv, before there is a scope (its own cache: Registry).
Arrive(r, input) ==
    /\ request[r].pc = "idle"
    /\ request' = [request EXCEPT ![r] = [Idle EXCEPT !.pc = "resolve", !.input = input, !.env = deployed]]
    /\ UNCHANGED <<store, deployed, config, cached, active, domains, time, changes, calls, inForce, last>>

KeyOrAbsent(l) == IF l \in Tenants THEN l ELSE Absent

Subdomain(input) ==
    IF Len(input.host.labels) = 1 THEN KeyOrAbsent(input.host.labels[1]) ELSE Absent

\* Every host is a candidate, the base domain's too.
CustomDomain(input) == input.host

TrustedHeader(input, now) ==
    IF /\ input.header # Absent
       /\ input.header.signed
       /\ now - input.header.at \in -Skew..Skew
    THEN input.header.key ELSE Absent

\* The segment after the prefix, decoded.
PathPrefix(input) == KeyOrAbsent(input.segment)

\* resolveTenantCandidate.
Candidate(mode, input, now) ==
    CASE mode = "subdomain"      -> Subdomain(input)
      [] mode = "custom-domain"  -> CustomDomain(input)
      [] mode = "path-prefix"    -> PathPrefix(input)
      [] mode = "trusted-header" -> TrustedHeader(input, now)
      [] OTHER                   -> Absent

\* Bug: a configuration once loaded is kept.
FreshForever == cached # Absent

Fresh == cached # Absent /\ time < cached.until

\* The configuration, cached or loaded; one that does not parse, and headers
\* without their secret, fail the request.
Resolve(r) ==
    LET mode == IF Fresh THEN cached.mode ELSE config
        parses == Fresh \/ config # "invalid"
    IN  /\ request[r].pc = "resolve"
        /\ cached' = IF Fresh \/ ~parses THEN cached ELSE [mode |-> config, until |-> time + CacheMs]
        /\ request' = [request EXCEPT ![r] =
              IF ~parses \/ (mode = "trusted-header" /\ ~HasSecret) THEN Idle
              ELSE [@ EXCEPT !.pc = "bind", !.candidate = Candidate(mode, request[r].input, time),
                             !.due = {Candidate(m, request[r].input, time) :
                                        m \in {m \in Modes \cup {Absent} : inForce[m] > time - CacheMs}}]]
        /\ UNCHANGED <<store, deployed, config, active, domains, time, changes, calls, inForce, last>>

\* The tenant a candidate names, by its key or by a domain record.
Named(candidate) ==
    IF candidate \in Tenants THEN candidate
    ELSE IF candidate.elsewhere \in Hosts THEN domains[candidate.elsewhere] ELSE Absent

\* resolveAuthoritativeTenant: a request with a candidate runs in its tenant,
\* which must be active, or is answered 404.
Bind(r) ==
    LET q == request[r]
    IN  /\ q.pc = "bind"
        /\ request' = [request EXCEPT ![r] =
              IF q.candidate = Absent THEN [@ EXCEPT !.pc = "run"]
              ELSE IF Named(q.candidate) \in active
              THEN [@ EXCEPT !.pc = "run", !.tenant = Named(q.candidate)]
              ELSE Idle]
        /\ UNCHANGED <<store, deployed, config, cached, active, domains, time, changes, calls, inForce, last>>

-----------------------------------------------------------------------------
(* The handler *)

\* getAppEnv and getTenantId inside a request: its snapshot.
EnvOf(r) == request[r].env
TenantOf(r) == request[r].tenant

\* One call; repositories filter their reads by the tenant (tenantWhere).
Query(r, call) ==
    LET c == Staged(Guarded([call EXCEPT !.whereTenant = IF call.op = "find" THEN TenantOf(r) ELSE Absent],
                            EnvOf(r)), TenantOf(r))
    IN  /\ request[r].pc = "run" /\ calls < MaxCalls
        /\ calls' = calls + 1
        /\ store' = IF Refused(call) THEN store ELSE After(c, store)
        /\ last' = [by |-> r, saw |-> IF Refused(call) THEN {} ELSE Seen(c, store)]
        /\ UNCHANGED <<deployed, config, cached, active, domains, request, time, changes, inForce>>

Finish(r) ==
    /\ request[r].pc = "run"
    /\ request' = [request EXCEPT ![r] = Idle]
    /\ UNCHANGED <<store, deployed, config, cached, active, domains, time, changes, calls, inForce, last>>

-----------------------------------------------------------------------------
(* Meanwhile *)

Change == changes < MaxChanges /\ changes' = changes + 1

SwitchEnv ==
    /\ Change
    /\ deployed' \in Envs \ {deployed}
    /\ UNCHANGED <<store, config, cached, active, domains, request, time, calls, inForce, last>>

Configure(mode) ==
    /\ Change
    /\ mode # config
    /\ config' = mode
    /\ inForce' = [inForce EXCEPT ![mode] = time]
    /\ UNCHANGED <<store, deployed, cached, active, domains, request, time, calls, last>>

SetStatus(k) ==
    /\ Change
    /\ active' = IF k \in active THEN active \ {k} ELSE active \cup {k}
    /\ UNCHANGED <<store, deployed, config, cached, domains, request, time, calls, inForce, last>>

SetDomain(h, k) ==
    /\ Change
    /\ domains[h] # k
    /\ domains' = [domains EXCEPT ![h] = k]
    /\ UNCHANGED <<store, deployed, config, cached, active, request, time, calls, inForce, last>>

TickTime ==
    /\ time < MaxTime
    /\ time' = time + 1
    /\ inForce' = [inForce EXCEPT ![config] = time + 1]
    /\ UNCHANGED <<store, deployed, config, cached, active, domains, request, changes, calls, last>>

ResolutionStep ==
    \/ \E r \in Requests : \/ \E i \in Inputs : Arrive(r, i)
                           \/ Resolve(r) \/ Bind(r) \/ Finish(r)
    \/ \E m \in Modes \cup {Absent, "invalid"} : Configure(m)
    \/ \E k \in Tenants : SetStatus(k) \/ \E h \in Hosts : SetDomain(h, k)
    \/ TickTime

-----------------------------------------------------------------------------

\* Whatever a caller puts into its arguments, and whatever the environment is
\* switched to meanwhile, a request's calls return and change only rows of the
\* environment it began in; a row it creates is of that environment and of its
\* tenant, another keeps the tenant it had, and no row comes to refer to a row
\* of the other environment.
RequestsStayInScope ==
    [][calls' # calls =>
          LET q == request[last'.by]
              Own(t, s) == Exists(t, s) => s[t].env = q.env
          IN  /\ \A t \in last'.saw : Own(t, store)
              /\ \A t \in Things : store'[t] # store[t] =>
                    /\ Own(t, store) /\ Own(t, store')
                    /\ Exists(t, store') /\ q.tenant # Absent =>
                          store'[t].tenant = IF Exists(t, store) THEN store[t].tenant ELSE q.tenant
                    /\ Exists(t, store') /\ Kind(t) = "purchase" /\
                         (~Exists(t, store) \/ store[t].user # store'[t].user)
                         => Own(store'[t].user, store')
      ]_scopeVars

\* A request runs in the tenant it named, and in none only if it named none,
\* by a configuration in force within the life of the cache before it was
\* resolved.
BoundAsConfigured ==
    \A r \in Requests : request[r].pc = "run" =>
        /\ request[r].candidate \in request[r].due
        /\ (request[r].candidate = Absent) = (request[r].tenant = Absent)
        /\ request[r].tenant = Absent \/ request[r].candidate \notin Tenants
             \/ request[r].tenant = request[r].candidate

=============================================================================
