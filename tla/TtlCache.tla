------------------------------ MODULE TtlCache ------------------------------
(***************************************************************************)
(* The in-process cache of configuration reads, app-api/lib/               *)
(* async-ttl-cache.ts, as settingService uses it: getAuthConfig and the    *)
(* other readers call get(), settingService.set writes the SiteSetting     *)
(* rows and then calls invalidate() in its own process only.               *)
(*                                                                         *)
(* Several server processes share the database; each has its own cache.    *)
(* JavaScript runs one synchronous piece at a time, so the actions are the *)
(* pieces between awaits: the call of get(), the database read of its      *)
(* loader, .then, .finally, the database write of set() and what follows.  *)
(* A key is one scope; invalidate() drops all scopes, so one key stands    *)
(* for each.  The value of the configuration is its version number.        *)
(***************************************************************************)
EXTENDS Naturals, FiniteSets

CONSTANTS
    Processes,      \* server processes
    Readers,        \* calls of get() in flight
    Writers,        \* calls of set() in flight
    HomeOf,         \* the process a reader or writer runs in
    Nobody,         \* no promise
    Ttl,            \* ttlMs, in ticks
    MaxLoad,        \* bound: ticks a loader takes
    MaxVersion,     \* bound: writes over a behaviour
    MaxTime         \* bound: ticks over a behaviour

ASSUME HomeAssumption ==
    /\ HomeOf \in [Readers \cup Writers -> Processes]
    /\ Readers \cap Writers = {}
    /\ Nobody \notin Readers

ASSUME TimeAssumption ==
    /\ Ttl \in Nat \ {0}
    /\ MaxLoad \in Nat
    /\ MaxVersion \in Nat
    /\ MaxTime \in Nat

VARIABLES
    now,            \* Date.now()
    db,             \* version of the stored configuration
    since,          \* since[v]: when version v became the stored one
    cache,          \* per process: the variables of createAsyncTtlCache
    reader,         \* per reader: the load it started and the promise it awaits
    writer,         \* per writer: the version it wrote, until it has invalidated
    settled         \* per process: newest version whose set() has returned

vars == <<now, db, since, cache, reader, writer, settled>>

-----------------------------------------------------------------------------
(* State *)

\* A promise is known by the reader whose call created it.
CacheRecord == [value : Nat, hasValue : BOOLEAN, expiresAt : Nat,
                inflight : Readers \cup {Nobody}, generation : Nat]

EmptyCache(generation) ==
    [value |-> 0, hasValue |-> FALSE, expiresAt |-> 0, inflight |-> Nobody,
     generation |-> generation]

\* load, loaded, generation and startedAt belong to the loader the reader
\* started; on is the promise it awaits, its own or another reader's; floor is
\* what was settled in its process when it asked.
ReaderRecord == [load : {"none", "querying", "loaded", "stored", "rejected"},
                 loaded : Nat, generation : Nat, startedAt : Nat,
                 on : Readers \cup {Nobody}, floor : Nat,
                 answer : {"none", "given"}, value : Nat, answeredAt : Nat]

IdleReader == [load |-> "none", loaded |-> 0, generation |-> 0,
               startedAt |-> 0, on |-> Nobody, floor |-> 0,
               answer |-> "none", value |-> 0, answeredAt |-> 0]

\* 0 is "not writing": the first version written is 1.
TypeOK ==
    /\ now \in Nat
    /\ db \in 0..MaxVersion
    /\ since \in [1..MaxVersion -> Nat]
    /\ cache \in [Processes -> CacheRecord]
    /\ reader \in [Readers -> ReaderRecord]
    /\ writer \in [Writers -> Nat]
    /\ settled \in [Processes -> Nat]

Loading(r) == reader[r].load # "none"
Waiting(r) == reader[r].on # Nobody
Answered(r) == reader[r].answer = "given"
Idle(r) == reader[r] = IdleReader

Init ==
    /\ now = 0
    /\ db = 0
    /\ since = [v \in 1..MaxVersion |-> 0]
    /\ cache = [p \in Processes |-> EmptyCache(0)]
    /\ reader = [r \in Readers |-> IdleReader]
    /\ writer = [w \in Writers |-> 0]
    /\ settled = [p \in Processes |-> 0]

-----------------------------------------------------------------------------
(* get() *)

\* Mutant: the value is served on the tick it expires.
HitTooLate(r) ==
    LET c == cache[HomeOf[r]]
    IN /\ Idle(r)
       /\ c.hasValue /\ now <= c.expiresAt
       /\ reader' = [reader EXCEPT ![r] =
              [IdleReader EXCEPT !.floor = settled[HomeOf[r]],
                                 !.answer = "given",
                                 !.value = c.value,
                                 !.answeredAt = now]]
       /\ UNCHANGED <<now, db, since, cache, writer, settled>>

\* The cached value, while it lasts.
Hit(r) ==
    LET c == cache[HomeOf[r]]
    IN /\ Idle(r)
       /\ c.hasValue /\ now < c.expiresAt
       /\ reader' = [reader EXCEPT ![r] =
              [IdleReader EXCEPT !.floor = settled[HomeOf[r]],
                                 !.answer = "given",
                                 !.value = c.value,
                                 !.answeredAt = now]]
       /\ UNCHANGED <<now, db, since, cache, writer, settled>>

Missed(p) == ~(cache[p].hasValue /\ now < cache[p].expiresAt)

\* A load is under way: share its promise.
Join(r) ==
    LET c == cache[HomeOf[r]]
    IN /\ Idle(r)
       /\ Missed(HomeOf[r])
       /\ c.inflight # Nobody
       /\ reader' = [reader EXCEPT ![r] =
              [IdleReader EXCEPT !.floor = settled[HomeOf[r]],
                                 !.on = c.inflight]]
       /\ UNCHANGED <<now, db, since, cache, writer, settled>>

\* Mutant: get() does not look for a load under way.
LoadAlways(r) ==
    LET p == HomeOf[r]
    IN /\ Idle(r)
       /\ Missed(p)
       /\ cache' = [cache EXCEPT ![p].inflight = r]
       /\ reader' = [reader EXCEPT ![r] =
              [IdleReader EXCEPT !.floor = settled[p],
                                 !.on = r,
                                 !.load = "querying",
                                 !.generation = cache[p].generation,
                                 !.startedAt = now]]
       /\ UNCHANGED <<now, db, since, writer, settled>>

\* Call the loader, and remember the generation it started in.
Load(r) ==
    LET p == HomeOf[r]
    IN /\ Idle(r)
       /\ Missed(p)
       /\ cache[p].inflight = Nobody
       /\ cache' = [cache EXCEPT ![p].inflight = r]
       /\ reader' = [reader EXCEPT ![r] =
              [IdleReader EXCEPT !.floor = settled[p],
                                 !.on = r,
                                 !.load = "querying",
                                 !.generation = cache[p].generation,
                                 !.startedAt = now]]
       /\ UNCHANGED <<now, db, since, writer, settled>>

\* The loader reads the database, or rejects.
Query(r) ==
    /\ reader[r].load = "querying"
    /\ \/ reader' = [reader EXCEPT ![r] =
                        [@ EXCEPT !.load = "loaded", !.loaded = db]]
       \/ reader' = [reader EXCEPT ![r].load = "rejected"]
    /\ UNCHANGED <<now, db, since, cache, writer, settled>>

\* Mutant: whatever was loaded is cached.
StoreAlways(r) ==
    LET p == HomeOf[r]
    IN /\ reader[r].load = "loaded"
       /\ reader' = [reader EXCEPT ![r].load = "stored"]
       /\ cache' = [cache EXCEPT ![p].value = reader[r].loaded,
                                 ![p].hasValue = TRUE,
                                 ![p].expiresAt = now + Ttl]
       /\ UNCHANGED <<now, db, since, writer, settled>>

\* .then: cache what was loaded, unless the cache was invalidated meanwhile.
Store(r) ==
    LET p == HomeOf[r]
    IN /\ reader[r].load = "loaded"
       /\ reader' = [reader EXCEPT ![r].load = "stored"]
       /\ cache' = IF cache[p].generation = reader[r].generation
                   THEN [cache EXCEPT ![p] = [@ EXCEPT
                            !.value = reader[r].loaded,
                            !.hasValue = TRUE,
                            !.expiresAt = now + Ttl]]
                   ELSE cache
       /\ UNCHANGED <<now, db, since, writer, settled>>

\* Mutant: only the reader that started the load hears of a rejection.
SettledAlone(q, r) ==
    IF reader[q].on # r THEN reader[q]
    ELSE IF reader[r].load = "rejected"
    THEN IF q = r THEN IdleReader ELSE reader[q]
    ELSE [IdleReader EXCEPT !.floor = reader[q].floor,
                            !.answer = "given",
                            !.value = reader[r].loaded,
                            !.answeredAt = now]

\* What a reader holds once the promise of r settles.
Settled(q, r) ==
    IF reader[q].on # r THEN reader[q]
    ELSE IF reader[r].load = "rejected" THEN IdleReader
    ELSE [IdleReader EXCEPT !.floor = reader[q].floor,
                            !.answer = "given",
                            !.value = reader[r].loaded,
                            !.answeredAt = now]

\* .finally, and the answer to everyone who shares the promise.
Settle(r) ==
    LET p == HomeOf[r]
    IN /\ reader[r].load \in {"stored", "rejected"}
       /\ cache' = IF cache[p].inflight = r
                   THEN [cache EXCEPT ![p].inflight = Nobody]
                   ELSE cache
       /\ reader' = [q \in Readers |-> Settled(q, r)]
       /\ UNCHANGED <<now, db, since, writer, settled>>

\* The caller goes on; the slot is free for the next call.
Return(r) ==
    /\ Answered(r)
    /\ reader' = [reader EXCEPT ![r] = IdleReader]
    /\ UNCHANGED <<now, db, since, cache, writer, settled>>

-----------------------------------------------------------------------------
(* settingService.set *)

Write(w) ==
    /\ writer[w] = 0
    /\ db < MaxVersion
    /\ db' = db + 1
    /\ since' = [since EXCEPT ![db + 1] = now]
    /\ writer' = [writer EXCEPT ![w] = db + 1]
    /\ UNCHANGED <<now, cache, reader, settled>>

\* invalidate(), in the writer's process, and set() returns.
Invalidate(w) ==
    LET p == HomeOf[w]
    IN /\ writer[w] # 0
       /\ cache' = [cache EXCEPT ![p] = EmptyCache(@.generation + 1)]
       /\ settled' = [settled EXCEPT ![p] = IF writer[w] > @ THEN writer[w]
                                            ELSE @]
       /\ writer' = [writer EXCEPT ![w] = 0]
       /\ UNCHANGED <<now, db, since, reader>>

\* The write took place, but its acknowledgement is lost and set() throws.
LoseAck(w) ==
    /\ writer[w] # 0
    /\ writer' = [writer EXCEPT ![w] = 0]
    /\ UNCHANGED <<now, db, since, cache, reader, settled>>

\* Time passes; no loader takes longer than MaxLoad.
Tick ==
    /\ now < MaxTime
    /\ \A r \in Readers : Loading(r) => now < reader[r].startedAt + MaxLoad
    /\ now' = now + 1
    /\ UNCHANGED <<db, since, cache, reader, writer, settled>>

Read(r) == Hit(r) \/ Join(r) \/ Load(r) \/ Return(r)
Loader(r) == Query(r) \/ Store(r) \/ Settle(r)

Next ==
    \/ \E r \in Readers : Read(r) \/ Loader(r)
    \/ \E w \in Writers : Write(w) \/ Invalidate(w) \/ LoseAck(w)
    \/ Tick

\* Database calls are answered and callbacks run; nobody has to ask or write.
Fairness == \A r \in Readers : WF_vars(Loader(r))

Spec == Init /\ [][Next]_vars /\ Fairness

-----------------------------------------------------------------------------
(* Properties *)

\* After set() has returned, get() in the same process answers with that
\* configuration or a newer one, although older loads are still in flight and
\* finish later (the comment of createAsyncTtlCache: "an older in-flight load
\* cannot restore stale data after an administrator writes new configuration").
ReadYourWrites ==
    \A r \in Readers :
        Answered(r) => reader[r].value >= reader[r].floor

\* Wherever the write took place, and even if its process never invalidated,
\* an answer is outdated by less than the ttl and one load.
BoundedStaleness ==
    \A r \in Readers :
        Answered(r) /\ reader[r].value < db =>
            reader[r].answeredAt < since[reader[r].value + 1] + Ttl + MaxLoad

\* Concurrent misses share one loader: within a process and a generation there
\* are never two, although .finally clears the shared promise asynchronously.
OneLoadPerGeneration ==
    \A q, r \in Readers :
        /\ Loading(q) /\ Loading(r)
        /\ HomeOf[q] = HomeOf[r]
        /\ reader[q].generation = reader[r].generation
        => q = r

\* Whoever shares a promise is answered, also when an invalidation has
\* detached the promise from the cache or its loader rejects.
ReadersAreAnswered ==
    \A r \in Readers : Waiting(r) ~> ~Waiting(r)

-----------------------------------------------------------------------------
(* The strengthenings that make the properties inductive *)

HasLoaded(r) == reader[r].load \in {"loaded", "stored"}

\* A load of the current generation is the one in flight, and what it read is
\* no older than what was settled; earlier generations are past.
LoadInv(r) ==
    LET c == cache[HomeOf[r]]
    IN Loading(r) =>
        /\ reader[r].generation <= c.generation
        /\ reader[r].generation = c.generation =>
              /\ c.inflight = r
              /\ HasLoaded(r) => reader[r].loaded >= settled[HomeOf[r]]

InflightInv(p) ==
    LET r == cache[p].inflight
    IN r # Nobody =>
        /\ HomeOf[r] = p
        /\ Loading(r)
        /\ reader[r].generation = cache[p].generation

\* What a waiting reader will be answered with is not older than its floor.
WaitInv(q) ==
    LET r == reader[q].on
    IN r # Nobody =>
        /\ Loading(r)
        /\ reader[q].floor <= db
        /\ HasLoaded(r) => reader[r].loaded >= reader[q].floor

\* Who loads awaits its own load; who was answered awaits nothing.
AnsweredInv(r) ==
    /\ Loading(r) => reader[r].on = r /\ ~Answered(r)
    /\ Answered(r) => ~Waiting(r)

CacheInv ==
    /\ TypeOK
    /\ \A p \in Processes :
          /\ settled[p] <= db
          /\ cache[p].hasValue => cache[p].value >= settled[p]
          /\ InflightInv(p)
    /\ \A w \in Writers : writer[w] <= db
    /\ \A r \in Readers : LoadInv(r) /\ WaitInv(r) /\ AnsweredInv(r)
    /\ ReadYourWrites
    /\ OneLoadPerGeneration

\* Version v was the stored one at time t or later.
CurrentAt(v, t) == v <= db /\ (v < db => since[v + 1] >= t)

ReaderTime(r) ==
    /\ Loading(r) => /\ reader[r].startedAt <= now
                     /\ now <= reader[r].startedAt + MaxLoad
    /\ HasLoaded(r) => CurrentAt(reader[r].loaded, reader[r].startedAt)
    /\ Answered(r) => reader[r].answeredAt <= now /\ reader[r].value <= db

CacheTime(p) ==
    LET c == cache[p]
    IN c.hasValue =>
        /\ c.expiresAt <= now + Ttl
        /\ c.value <= db
        /\ c.value < db => c.expiresAt <= since[c.value + 1] + Ttl + MaxLoad

TimeInv ==
    /\ \A r \in Readers : ReaderTime(r)
    /\ \A p \in Processes : CacheTime(p)
    /\ BoundedStaleness

=============================================================================
