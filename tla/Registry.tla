------------------------------- MODULE Registry -------------------------------
(***************************************************************************)
(* The two caches that have no generation: the feature registry            *)
(* (lib/feature-registry.ts), cleared by the administrators' routes for    *)
(* features, and the deployment's environment (lib/env.ts), cleared by the *)
(* system configuration.  One tenant's entry and one server process; every *)
(* await between a database call and what uses it is a step boundary.      *)
(***************************************************************************)
EXTENDS Integers, FiniteSets

CONSTANTS
    Nothing,
    Keys,           \* feature keys
    Envs, Fallback, \* "dev" and "production"; process.env.APP_ENV
    Loads,          \* slots: loads of either cache in flight
    Writers,        \* slots: writes of either table in flight
    FeatureTtl, EnvTtl,     \* CACHE_TTL, SYSTEM_CONFIG_CACHE_MS
    MaxClock,       \* bound: the clock
    MaxWrites       \* bound: writes

ASSUME RegistryAssumption ==
    /\ Fallback \in Envs
    /\ FeatureTtl \in Nat \ {0} /\ EnvTtl \in Nat \ {0}
    /\ MaxClock \in Nat

VARIABLES
    features,       \* Feature rows: keys, and whether each is active
    featureCache,   \* [value, expiresAt], or Nothing
    systemConfig,   \* the row APP_ENV, or Nothing
    cachedEnv,      \* [value, expiresAt], or Nothing
    inflight,       \* the load whose promise readers join, or Nothing
    load, writer, clock,
    writes,         \* history: writes made
    was,            \* history: active features by tick
    quiet           \* history: no load was in flight at the last write of
                    \* APP_ENV, and none failed since

featureVars == <<features, featureCache, was>>
envVars == <<systemConfig, cachedEnv, inflight, quiet>>
registryVars == <<featureVars, envVars, load, writer, clock, writes>>

Active(fs) == {k \in Keys : fs[k] = "active"}

Idle == [of |-> "none", pc |-> "idle", began |-> 0, value |-> Nothing]
IdleWriter == [of |-> "none", pc |-> "idle", op |-> "none", key |-> Nothing]

RegistryInit ==
    /\ features = [k \in Keys |-> "absent"]
    /\ featureCache = Nothing
    /\ systemConfig = Nothing
    /\ cachedEnv = Nothing /\ inflight = Nothing
    /\ load = [l \in Loads |-> Idle]
    /\ writer = [w \in Writers |-> IdleWriter]
    /\ clock = 0 /\ writes = 0
    /\ was = [t \in 0..MaxClock |-> IF t = 0 THEN {{}} ELSE {}]
    /\ quiet = TRUE

Serves(cache) == cache # Nothing /\ clock < cache.expiresAt

-----------------------------------------------------------------------------
(* Features *)

\* getAllFeatures on a miss: the expiry counts from now, before the query.
BeginFeatures(l) ==
    /\ load[l] = Idle
    /\ ~Serves(featureCache)
    /\ load' = [load EXCEPT ![l] = [of |-> "features", pc |-> "query",
                                    began |-> clock, value |-> Nothing]]
    /\ UNCHANGED <<featureVars, envVars, writer, clock, writes>>

Loaded(reading, value) == [reading EXCEPT !.pc = "store", !.value = value]

\* featureRepository.list, or its failure, which ends the load.
QueryFeatures(l) ==
    /\ load[l].of = "features" /\ load[l].pc = "query"
    /\ \/ load' = [load EXCEPT ![l] = Loaded(@, Active(features))]
       \/ load' = [load EXCEPT ![l] = Idle]
    /\ UNCHANGED <<featureVars, envVars, writer, clock, writes>>

\* Bug: the expiry counts from the end of the load.
ExpiryAtEnd(l) == clock + FeatureTtl

Expiry(l) == load[l].began + FeatureTtl

StoreFeatures(l) ==
    /\ load[l].of = "features" /\ load[l].pc = "store"
    /\ featureCache' = [value |-> load[l].value, expiresAt |-> Expiry(l)]
    /\ load' = [load EXCEPT ![l] = Idle]
    /\ UNCHANGED <<features, was, envVars, writer, clock, writes>>

BeginWrite(w, of, op, key) ==
    /\ writer[w] = IdleWriter
    /\ writes < MaxWrites
    /\ writes' = writes + 1
    /\ writer' = [writer EXCEPT ![w] = [of |-> of, pc |-> "write", op |-> op, key |-> key]]
    /\ UNCHANGED <<featureVars, envVars, load, clock>>

\* The administrators' routes, past their reads: POST checks that the key is
\* free, PUT and DELETE that the feature is there.
BeginFeatureCreate(w, k) == features[k] = "absent" /\ BeginWrite(w, "features", "create", k)
BeginFeatureItem(w, k) ==
    /\ features[k] # "absent"
    /\ \E op \in {"switch", "delete"} : BeginWrite(w, "features", op, k)

\* create is refused when the key was taken meanwhile (the key is unique in
\* an environment), update and delete when the row is gone.
WriteFeature(w) ==
    LET c == writer[w]
        row == features[c.key]
        next == CASE c.op = "create" -> "active"
                  [] c.op = "delete" -> "absent"
                  [] OTHER -> IF row = "active" THEN "inactive" ELSE "active"
    IN /\ c.of = "features" /\ c.pc = "write"
       /\ IF (c.op = "create") # (row = "absent")
          THEN writer' = [writer EXCEPT ![w] = IdleWriter] /\ UNCHANGED <<features, was>>
          ELSE /\ features' = [features EXCEPT ![c.key] = next]
               /\ was' = [was EXCEPT ![clock] = @ \cup {Active(features')}]
               /\ writer' = [writer EXCEPT ![w].pc = "invalidate"]
       /\ UNCHANGED <<featureCache, envVars, load, clock, writes>>

\* invalidateFeatureCache.
InvalidateFeatures(w) ==
    /\ writer[w].of = "features" /\ writer[w].pc = "invalidate"
    /\ featureCache' = Nothing
    /\ writer' = [writer EXCEPT ![w] = IdleWriter]
    /\ UNCHANGED <<features, was, envVars, load, clock, writes>>

-----------------------------------------------------------------------------
(* The environment *)

\* getAppEnv outside a request: a reader finds the cache stale and nothing to
\* join.
BeginEnv(l) ==
    /\ load[l] = Idle
    /\ ~Serves(cachedEnv) /\ inflight = Nothing
    /\ inflight' = l
    /\ load' = [load EXCEPT ![l] = [of |-> "env", pc |-> "query", began |-> clock, value |-> Nothing]]
    /\ UNCHANGED <<featureVars, systemConfig, cachedEnv, quiet, writer, clock, writes>>

\* The row, or process.env when there is none or the call is rejected.
QueryEnv(l) ==
    /\ load[l].of = "env" /\ load[l].pc = "query"
    /\ \E available \in BOOLEAN :
          /\ load' = [load EXCEPT ![l] =
                 Loaded(@, IF available /\ systemConfig # Nothing THEN systemConfig ELSE Fallback)]
          /\ quiet' = (quiet /\ available)
    /\ UNCHANGED <<featureVars, systemConfig, cachedEnv, inflight, writer, clock, writes>>

\* Whichever load ends, it is the one that is remembered, and the promise
\* that is forgotten may be another load's.
StoreEnv(l) ==
    /\ load[l].of = "env" /\ load[l].pc = "store"
    /\ cachedEnv' = [value |-> load[l].value, expiresAt |-> clock + EnvTtl]
    /\ inflight' = Nothing
    /\ load' = [load EXCEPT ![l] = Idle]
    /\ UNCHANGED <<featureVars, systemConfig, quiet, writer, clock, writes>>

\* systemConfigService.set, of a key and a value that are allowed.
BeginSetEnv(w, env) == BeginWrite(w, "env", "set", env)

EnvLoads == {l \in Loads : load[l].of = "env"}

WriteEnv(w) ==
    /\ writer[w].of = "env" /\ writer[w].pc = "write"
    /\ systemConfig' = writer[w].key
    /\ quiet' = (EnvLoads = {})
    /\ writer' = [writer EXCEPT ![w].pc = "invalidate"]
    /\ UNCHANGED <<featureVars, cachedEnv, inflight, load, clock, writes>>

\* Bug: the promise is forgotten and the value is kept.
ForgottenPromiseOnly == cachedEnv

\* What invalidateAppEnvCache leaves of the cached value.
Forgotten == Nothing

InvalidateEnv(w) ==
    /\ writer[w].of = "env" /\ writer[w].pc = "invalidate"
    /\ cachedEnv' = Forgotten /\ inflight' = Nothing
    /\ writer' = [writer EXCEPT ![w] = IdleWriter]
    /\ UNCHANGED <<featureVars, systemConfig, quiet, load, clock, writes>>

-----------------------------------------------------------------------------
Pass ==
    /\ clock < MaxClock
    /\ clock' = clock + 1
    /\ was' = [was EXCEPT ![clock + 1] = {Active(features)}]
    /\ UNCHANGED <<features, featureCache, envVars, load, writer, writes>>

FeatureStep ==
    \/ \E l \in Loads : BeginFeatures(l) \/ QueryFeatures(l) \/ StoreFeatures(l)
    \/ \E w \in Writers :
          \/ \E k \in Keys : BeginFeatureCreate(w, k) \/ BeginFeatureItem(w, k)
          \/ WriteFeature(w) \/ InvalidateFeatures(w)

EnvStep ==
    \/ \E l \in Loads : BeginEnv(l) \/ QueryEnv(l) \/ StoreEnv(l)
    \/ \E w \in Writers : \/ \E e \in Envs : BeginSetEnv(w, e)
                          \/ WriteEnv(w) \/ InvalidateEnv(w)

RegistryNext == FeatureStep \/ EnvStep \/ Pass

-----------------------------------------------------------------------------
(* Properties *)

\* Features that are served from the cache were the active ones at some moment
\* less than a time to live ago, also when a load from before an invalidation
\* ends after it and puts the old list back (feature-registry.ts:19-29).
FeatureStaleness ==
    Serves(featureCache) =>
        featureCache.value \in UNION {was[t] : t \in {s \in 0..clock : s > clock - FeatureTtl}}

\* Once APP_ENV is set, and if no load was in flight when it was written, the
\* old environment is served to nobody: a load that ends later read the new
\* value, and the cached one was dropped (env.ts:50-71,
\* system-config-service.ts:33-38).
EnvFreshAfterSet ==
    /\ quiet /\ Serves(cachedEnv) /\ systemConfig # Nothing
    /\ \A w \in Writers : writer[w].of # "env"
    => cachedEnv.value = systemConfig

=============================================================================
