--------------------------- MODULE TtlCacheProofs ---------------------------
(***************************************************************************)
(* Theorems about TtlCache, for every number of processes, readers and     *)
(* writers and every ttl: a process reads its own writes, concurrent       *)
(* misses share one loader, and no answer is outdated by more than the ttl *)
(* and one load.                                                           *)
(***************************************************************************)
EXTENDS TtlCache, TLAPS

USE HomeAssumption, TimeAssumption

-----------------------------------------------------------------------------
(* Types *)

\* The initial state is well typed.
LEMMA TypeInit == Init => TypeOK
BY DEF Init, TypeOK, EmptyCache, CacheRecord, IdleReader, ReaderRecord

\* Every step keeps every table well typed.
LEMMA TypeStep == TypeOK /\ [Next]_vars => TypeOK'
<1>. SUFFICES ASSUME TypeOK, [Next]_vars PROVE TypeOK'
  OBVIOUS
<1>. USE DEF TypeOK
<1>1. CASE UNCHANGED vars
  BY <1>1 DEF vars
<1>2. ASSUME NEW r \in Readers, Hit(r) PROVE TypeOK'
  BY <1>2 DEF Hit, IdleReader, ReaderRecord, CacheRecord
<1>3. ASSUME NEW r \in Readers, Join(r) PROVE TypeOK'
  BY <1>3 DEF Join, IdleReader, ReaderRecord, CacheRecord
<1>4. ASSUME NEW r \in Readers, Load(r) PROVE TypeOK'
  <2>. DEFINE p == HomeOf[r]
  <2>1. /\ cache' = [cache EXCEPT ![p] = [@ EXCEPT !.inflight = r]]
        /\ reader' = [reader EXCEPT ![r] =
              [IdleReader EXCEPT !.floor = settled[p],
                                 !.on = r,
                                 !.load = "querying",
                                 !.generation = cache[p].generation,
                                 !.startedAt = now]]
        /\ UNCHANGED <<now, db, since, writer, settled>>
    BY <1>4 DEF Load
  <2>2. p \in Processes /\ cache[p] \in CacheRecord
    OBVIOUS
  <2>3. [cache[p] EXCEPT !.inflight = r] \in CacheRecord
    BY <2>2 DEF CacheRecord
  <2>4. [IdleReader EXCEPT !.floor = settled[p], !.on = r, !.load = "querying",
                           !.generation = cache[p].generation,
                           !.startedAt = now] \in ReaderRecord
    BY <2>2 DEF IdleReader, ReaderRecord, CacheRecord
  <2>. HIDE DEF p
  <2>. QED
    BY <2>1, <2>2, <2>3, <2>4
<1>5. ASSUME NEW r \in Readers, Return(r) PROVE TypeOK'
  BY <1>5 DEF Return, IdleReader, ReaderRecord
<1>6. ASSUME NEW r \in Readers, Query(r) PROVE TypeOK'
  <2>1. PICK rec \in {[reader[r] EXCEPT !.load = "loaded", !.loaded = db],
                      [reader[r] EXCEPT !.load = "rejected"]} :
            reader' = [reader EXCEPT ![r] = rec]
    BY <1>6 DEF Query
  <2>2. rec \in ReaderRecord
    <3>1. reader[r] \in ReaderRecord /\ db \in Nat
      OBVIOUS
    <3>. QED
      BY <3>1 DEF ReaderRecord
  <2>. QED
    BY <1>6, <2>1, <2>2 DEF Query
<1>7. ASSUME NEW r \in Readers, Store(r) PROVE TypeOK'
  <2>. DEFINE p == HomeOf[r]
  <2>1. p \in Processes /\ cache[p] \in CacheRecord /\ reader[r] \in ReaderRecord
    OBVIOUS
  <2>2. cache' \in [Processes -> CacheRecord]
    <3>1. [cache[p] EXCEPT !.value = reader[r].loaded, !.hasValue = TRUE,
                           !.expiresAt = now + Ttl] \in CacheRecord
      <4>1. reader[r].loaded \in Nat /\ now + Ttl \in Nat
        BY <2>1 DEF ReaderRecord
      <4>. QED
        BY <2>1, <4>1 DEF CacheRecord
    <3>2. cache' \in {cache, [cache EXCEPT ![p] =
              [@ EXCEPT !.value = reader[r].loaded, !.hasValue = TRUE,
                        !.expiresAt = now + Ttl]]}
      BY <1>7 DEF Store
    <3>. QED
      BY <2>1, <3>1, <3>2
  <2>3. reader' \in [Readers -> ReaderRecord]
    <3>1. [reader[r] EXCEPT !.load = "stored"] \in ReaderRecord
      BY <2>1 DEF ReaderRecord
    <3>2. reader' = [reader EXCEPT ![r] = [@ EXCEPT !.load = "stored"]]
      BY <1>7 DEF Store
    <3>. QED
      BY <3>1, <3>2
  <2>4. UNCHANGED <<now, db, since, writer, settled>>
    BY <1>7 DEF Store
  <2>. QED
    BY <2>2, <2>3, <2>4
<1>8. ASSUME NEW r \in Readers, Settle(r) PROVE TypeOK'
  <2>1. cache' \in [Processes -> CacheRecord]
    <3>. DEFINE p == HomeOf[r]
                c == [cache[p] EXCEPT !.inflight = Nobody]
    <3>1. p \in Processes /\ cache[p] \in CacheRecord
      OBVIOUS
    <3>2. c \in CacheRecord
      BY <3>1 DEF CacheRecord
    <3>3. cache' \in {cache, [cache EXCEPT ![p] = c]}
      BY <1>8 DEF Settle
    <3>. HIDE DEF p, c
    <3>. QED
      BY <3>1, <3>2, <3>3
  <2>2. ASSUME NEW q \in Readers PROVE Settled(q, r) \in ReaderRecord
    <3>1. reader[q] \in ReaderRecord /\ reader[r] \in ReaderRecord
      OBVIOUS
    <3>2. reader[q].floor \in Nat /\ reader[r].loaded \in Nat
      BY <3>1 DEF ReaderRecord
    <3>3. IdleReader \in ReaderRecord
      BY DEF IdleReader, ReaderRecord
    <3>4. [IdleReader EXCEPT !.floor = reader[q].floor, !.answer = "given",
                             !.value = reader[r].loaded, !.answeredAt = now]
              \in ReaderRecord
      BY <3>2 DEF IdleReader, ReaderRecord
    <3>. QED
      BY <3>1, <3>3, <3>4 DEF Settled
  <2>. QED
    BY <1>8, <2>1, <2>2 DEF Settle
<1>9. ASSUME NEW w \in Writers, Write(w) PROVE TypeOK'
  BY <1>9 DEF Write
<1>10. ASSUME NEW w \in Writers, Invalidate(w) PROVE TypeOK'
  BY <1>10 DEF Invalidate, EmptyCache, CacheRecord
<1>11. ASSUME NEW w \in Writers, LoseAck(w) PROVE TypeOK'
  BY <1>11 DEF LoseAck
<1>12. ASSUME Tick PROVE TypeOK'
  BY <1>12 DEF Tick
<1>. QED
  BY <1>1, <1>2, <1>3, <1>4, <1>5, <1>6, <1>7, <1>8, <1>9, <1>10, <1>11, <1>12
     DEF Next, Read, Loader

-----------------------------------------------------------------------------
(* A process reads its own writes *)

\* Nothing is cached, loading or settled at first.
LEMMA CacheInit == Init => CacheInv
BY TypeInit DEF Init, CacheInv, EmptyCache, IdleReader, LoadInv, InflightInv,
    WaitInv, AnsweredInv, Answered, Waiting, HasLoaded, Loading, ReadYourWrites,
    OneLoadPerGeneration

\* A reader that runs no loader asks, waits or goes on: the loads, the caches
\* and the database are as they were.
LEMMA ReaderFrame ==
    ASSUME CacheInv, TypeOK', NEW r \in Readers,
           UNCHANGED <<db, cache, writer, settled>>,
           \A q \in Readers \ {r} : reader'[q] = reader[q],
           ~Loading(r), ~Loading(r)', WaitInv(r)', AnsweredInv(r)',
           Answered(r)' => reader'[r].value >= reader'[r].floor
    PROVE  CacheInv'
<1>1. \A q \in Readers : Loading(q)' <=> Loading(q)
  BY DEF Loading
<1>2. \A q \in Readers : Loading(q) => reader'[q] = reader[q]
  BY DEF Loading
<1>3. \A p \in Processes : InflightInv(p)'
  BY <1>1, <1>2 DEF CacheInv, InflightInv, TypeOK, CacheRecord
<1>4. \A q \in Readers : LoadInv(q)'
  BY <1>1, <1>2 DEF CacheInv, LoadInv, HasLoaded
<1>5. \A q \in Readers : WaitInv(q)'
  <2>1. ASSUME NEW q \in Readers \ {r} PROVE WaitInv(q)'
    <3>1. reader[q].on \in Readers \cup {Nobody}
      <4>1. reader[q] \in ReaderRecord
        BY DEF CacheInv, TypeOK
      <4>. QED
        BY <4>1 DEF ReaderRecord
    <3>. QED
      BY <3>1, <1>1, <1>2 DEF CacheInv, WaitInv, HasLoaded
  <2>. QED
    BY <2>1
<1>6. OneLoadPerGeneration'
  BY <1>1, <1>2 DEF CacheInv, OneLoadPerGeneration
<1>7. ReadYourWrites'
  BY DEF CacheInv, ReadYourWrites, Answered
<1>8. \A q \in Readers : AnsweredInv(q)'
  BY DEF CacheInv, AnsweredInv, Answered, Waiting, Loading
<1>. QED
  BY <1>3, <1>4, <1>5, <1>6, <1>7, <1>8 DEF CacheInv

\* A loader got on: it answered from the database, or rejected.
LEMMA LoaderFrame ==
    ASSUME CacheInv, TypeOK', UNCHANGED <<db, cache, writer, settled>>,
           \A q \in Readers : /\ Loading(q)' <=> Loading(q)
                              /\ reader'[q].on = reader[q].on
                              /\ reader'[q].generation = reader[q].generation
                              /\ reader'[q].floor = reader[q].floor
                              /\ reader'[q].answer = reader[q].answer
                              /\ reader'[q].value = reader[q].value
                              /\ HasLoaded(q)' => \/ reader'[q].loaded = db
                                                  \/ /\ reader'[q] = reader[q]
                                                     /\ HasLoaded(q)
    PROVE  CacheInv'
<1>h. \A r \in Readers : HomeOf[r] \in Processes
  OBVIOUS
<1>n. /\ db \in Nat
      /\ \A r \in Readers : reader[r].on \in Readers \cup {Nobody}
      /\ \A p \in Processes : cache[p].inflight \in Readers \cup {Nobody}
  <2>1. /\ db \in Nat
        /\ \A r \in Readers : reader[r] \in ReaderRecord
        /\ \A p \in Processes : cache[p] \in CacheRecord
    BY DEF TypeOK, CacheInv
  <2>. QED
    BY <2>1 DEF ReaderRecord, CacheRecord
<1>1. \A p \in Processes : InflightInv(p)'
  BY <1>n DEF CacheInv, InflightInv
<1>2. \A q \in Readers : LoadInv(q)'
  BY <1>h, <1>n DEF CacheInv, LoadInv
<1>3. \A q \in Readers : WaitInv(q)'
  BY <1>n DEF CacheInv, WaitInv
<1>4. OneLoadPerGeneration'
  BY DEF CacheInv, OneLoadPerGeneration
<1>5. ReadYourWrites' /\ \A q \in Readers : AnsweredInv(q)'
  BY DEF CacheInv, ReadYourWrites, AnsweredInv, Answered, Waiting
<1>. QED
  BY <1>1, <1>2, <1>3, <1>4, <1>5 DEF CacheInv

\* Every step preserves the invariant of the cache.
LEMMA CacheStep == CacheInv /\ [Next]_vars => CacheInv'
<1>. SUFFICES ASSUME CacheInv, [Next]_vars PROVE CacheInv'
  OBVIOUS
<1>t. TypeOK /\ TypeOK'
  BY TypeStep DEF CacheInv
<1>h. \A r \in Readers \cup Writers : HomeOf[r] \in Processes
  OBVIOUS
<1>n. /\ db \in Nat
      /\ \A r \in Readers : /\ reader[r].generation \in Nat
                           /\ reader[r].loaded \in Nat
                           /\ reader[r].floor \in Nat
                           /\ reader[r].value \in Nat
                           /\ reader[r].on \in Readers \cup {Nobody}
      /\ \A p \in Processes : /\ cache[p].generation \in Nat
                              /\ cache[p].value \in Nat
                              /\ cache[p].inflight \in Readers \cup {Nobody}
                              /\ settled[p] \in Nat
  <2>1. /\ db \in Nat
        /\ \A r \in Readers : reader[r] \in ReaderRecord
        /\ \A p \in Processes : cache[p] \in CacheRecord /\ settled[p] \in Nat
    BY <1>t DEF TypeOK
  <2>. QED
    BY <2>1 DEF ReaderRecord, CacheRecord
<1>1. CASE UNCHANGED vars
  BY <1>1, <1>t DEF vars, CacheInv, LoadInv, InflightInv, WaitInv, AnsweredInv,
     Answered, Waiting, HasLoaded, Loading, ReadYourWrites, OneLoadPerGeneration
<1>2. ASSUME NEW r \in Readers, Hit(r) PROVE CacheInv'
  <2>1. /\ UNCHANGED <<db, cache, writer, settled>>
        /\ \A q \in Readers \ {r} : reader'[q] = reader[q]
        /\ reader'[r].load = "none" /\ reader'[r].on = Nobody
        /\ reader'[r].value >= reader'[r].floor
        /\ reader[r].load = "none"
    BY <1>2, <1>t, <1>h DEF Hit, IdleReader, TypeOK, CacheInv, Idle, CacheRecord
  <2>2. ~Loading(r) /\ ~Loading(r)' /\ WaitInv(r)' /\ AnsweredInv(r)'
    BY <2>1 DEF Loading, WaitInv, AnsweredInv, Answered, Waiting
  <2>. QED
    BY <1>t, <2>1, <2>2, ReaderFrame
<1>3. ASSUME NEW r \in Readers, Join(r) PROVE CacheInv'
  <2>. DEFINE p == HomeOf[r]
              on == cache[p].inflight
  <2>1. /\ UNCHANGED <<db, cache, writer, settled>>
        /\ \A q \in Readers \ {r} : reader'[q] = reader[q]
        /\ reader'[r].load = "none" /\ reader'[r].answer = "none"
        /\ reader'[r].on = on
        /\ reader'[r].floor = settled[p]
        /\ reader[r].load = "none"
        /\ on \in Readers
    BY <1>3, <1>t, <1>h DEF Join, IdleReader, TypeOK, Idle, CacheRecord
  <2>2. /\ HomeOf[on] = p /\ Loading(on)
        /\ reader[on].generation = cache[p].generation
    BY <2>1, <1>h DEF CacheInv, InflightInv
  <2>3. HasLoaded(on) => reader[on].loaded >= settled[p]
    BY <2>1, <2>2 DEF CacheInv, LoadInv
  <2>4. on # r /\ reader'[on] = reader[on]
    BY <2>1, <2>2 DEF Loading
  <2>5. WaitInv(r)'
    BY <2>1, <2>2, <2>3, <2>4, <1>h DEF WaitInv, Loading, HasLoaded, CacheInv
  <2>. QED
    BY <1>t, <2>1, <2>5, ReaderFrame DEF Loading, AnsweredInv, Answered, Waiting
<1>4. ASSUME NEW r \in Readers, Load(r) PROVE CacheInv'
  <2>. DEFINE p == HomeOf[r]
  <2>1. /\ UNCHANGED <<db, writer, settled>>
        /\ \A q \in Readers \ {r} : reader'[q] = reader[q]
        /\ reader'[r].load = "querying" /\ reader'[r].answer = "none"
        /\ reader'[r].on = r
        /\ reader'[r].floor = settled[p]
        /\ reader'[r].generation = cache[p].generation
        /\ reader[r].load = "none"
        /\ cache[p].inflight = Nobody
        /\ cache' = [cache EXCEPT ![p].inflight = r]
    BY <1>4, <1>t, <1>h DEF Load, IdleReader, TypeOK, Idle
  <2>2. /\ \A o \in Processes \ {p} : cache'[o] = cache[o]
        /\ cache'[p].inflight = r
        /\ cache'[p].generation = cache[p].generation
        /\ cache'[p].hasValue = cache[p].hasValue
        /\ cache'[p].value = cache[p].value
    BY <1>t, <1>h, <2>1 DEF TypeOK, CacheRecord
  <2>3. \A q \in Readers : HomeOf[q] = p /\ Loading(q) =>
            reader[q].generation < cache[p].generation
    <3>. SUFFICES ASSUME NEW q \in Readers, HomeOf[q] = p, Loading(q)
                  PROVE  reader[q].generation < cache[p].generation
      OBVIOUS
    <3>1. reader[q].generation \in Nat /\ cache[p].generation \in Nat
      BY <1>n
    <3>2. /\ reader[q].generation <= cache[p].generation
          /\ reader[q].generation # cache[p].generation
      BY <2>1 DEF CacheInv, LoadInv
    <3>. QED
      BY <3>1, <3>2
  <2>4. \A o \in Processes : InflightInv(o)'
    <3>1. InflightInv(p)'
      BY <1>h, <2>1, <2>2 DEF InflightInv, Loading
    <3>2. ASSUME NEW o \in Processes \ {p} PROVE InflightInv(o)'
      BY <1>n, <2>1, <2>2 DEF CacheInv, InflightInv, Loading
    <3>. QED
      BY <3>1, <3>2
  <2>5. \A q \in Readers : LoadInv(q)'
    <3>1. LoadInv(r)'
      BY <1>n, <1>h, <2>1, <2>2 DEF LoadInv, HasLoaded
    <3>2. ASSUME NEW q \in Readers \ {r} PROVE LoadInv(q)'
      <4>1. CASE HomeOf[q] = p
        BY <4>1, <1>n, <1>h, <2>1, <2>2, <2>3 DEF LoadInv, Loading
      <4>2. CASE HomeOf[q] # p
        BY <4>2, <1>h, <2>1, <2>2 DEF CacheInv, LoadInv, Loading, HasLoaded
      <4>. QED
        BY <4>1, <4>2
    <3>. QED
      BY <3>1, <3>2
  <2>6. \A q \in Readers : WaitInv(q)'
    <3>1. WaitInv(r)'
      BY <1>h, <2>1 DEF WaitInv, CacheInv, Loading, HasLoaded
    <3>2. ASSUME NEW q \in Readers \ {r} PROVE WaitInv(q)'
      BY <1>n, <2>1 DEF CacheInv, WaitInv, Loading, HasLoaded
    <3>. QED
      BY <3>1, <3>2
  <2>7. OneLoadPerGeneration'
    <3>. SUFFICES ASSUME NEW q1 \in Readers, NEW q2 \in Readers,
                         Loading(q1)', Loading(q2)', HomeOf[q1] = HomeOf[q2],
                         reader'[q1].generation = reader'[q2].generation
                  PROVE  q1 = q2
      BY DEF OneLoadPerGeneration
    <3>1. CASE q1 = r \/ q2 = r
      BY <3>1, <1>n, <1>h, <2>1, <2>3 DEF Loading
    <3>2. CASE q1 # r /\ q2 # r
      BY <3>2, <2>1 DEF CacheInv, OneLoadPerGeneration, Loading
    <3>. QED
      BY <3>1, <3>2
  <2>8. ReadYourWrites'
    BY <2>1 DEF CacheInv, ReadYourWrites, Answered
  <2>9. \A o \in Processes : /\ settled'[o] <= db'
                             /\ cache'[o].hasValue => cache'[o].value >= settled'[o]
    BY <1>h, <2>1, <2>2 DEF CacheInv
  <2>10. \A q \in Readers : AnsweredInv(q)'
    BY <2>1 DEF CacheInv, AnsweredInv, Answered, Waiting, Loading
  <2>. QED
    BY <1>t, <2>1, <2>4, <2>5, <2>6, <2>7, <2>8, <2>9, <2>10 DEF CacheInv
<1>5. ASSUME NEW r \in Readers, Return(r) PROVE CacheInv'
  <2>1. /\ UNCHANGED <<db, cache, writer, settled>>
        /\ \A q \in Readers \ {r} : reader'[q] = reader[q]
        /\ reader'[r].load = "none" /\ reader'[r].on = Nobody
        /\ reader'[r].answer = "none"
        /\ reader[r].answer = "given"
    BY <1>5, <1>t DEF Return, TypeOK, IdleReader, Answered
  <2>2. ~Loading(r)
    BY <2>1 DEF CacheInv, AnsweredInv, Answered, Waiting
  <2>. QED
    BY <1>t, <2>1, <2>2, ReaderFrame DEF Loading, WaitInv, AnsweredInv, Answered, Waiting
<1>6. ASSUME NEW r \in Readers, Query(r) PROVE CacheInv'
  <2>1. /\ UNCHANGED <<db, cache, writer, settled>>
        /\ \A q \in Readers \ {r} : reader'[q] = reader[q]
        /\ reader[r].load = "querying"
        /\ \/ reader'[r].load = "loaded" /\ reader'[r].loaded = db
           \/ reader'[r].load = "rejected"
        /\ reader'[r].on = reader[r].on
        /\ reader'[r].generation = reader[r].generation
        /\ reader'[r].floor = reader[r].floor
        /\ reader'[r].answer = reader[r].answer
        /\ reader'[r].value = reader[r].value
    <3>1. PICK rec \in {[reader[r] EXCEPT !.load = "loaded", !.loaded = db],
                        [reader[r] EXCEPT !.load = "rejected"]} :
              reader' = [reader EXCEPT ![r] = rec]
      BY <1>6 DEF Query
    <3>2. reader[r] \in ReaderRecord
      BY <1>t DEF TypeOK
    <3>3. /\ \/ rec.load = "loaded" /\ rec.loaded = db
             \/ rec.load = "rejected"
          /\ rec.on = reader[r].on /\ rec.generation = reader[r].generation
          /\ rec.floor = reader[r].floor /\ rec.answer = reader[r].answer
          /\ rec.value = reader[r].value
      BY <3>2 DEF ReaderRecord
    <3>4. reader'[r] = rec /\ \A q \in Readers \ {r} : reader'[q] = reader[q]
      BY <3>1, <1>t DEF TypeOK
    <3>. QED
      BY <1>6, <3>3, <3>4 DEF Query
  <2>2. /\ \A q \in Readers : /\ Loading(q)' <=> Loading(q)
                              /\ reader'[q].on = reader[q].on
                              /\ reader'[q].generation = reader[q].generation
                              /\ reader'[q].floor = reader[q].floor
                              /\ reader'[q].answer = reader[q].answer
                              /\ reader'[q].value = reader[q].value
                              /\ HasLoaded(q)' => \/ reader'[q].loaded = db
                                                  \/ /\ reader'[q] = reader[q]
                                                     /\ HasLoaded(q)
    BY <2>1 DEF Loading, HasLoaded
  <2>. QED
    BY <1>t, <1>h, <1>n, <2>1, <2>2, LoaderFrame
<1>7. ASSUME NEW r \in Readers, Store(r) PROVE CacheInv'
  <2>. DEFINE p == HomeOf[r]
  <2>1. /\ UNCHANGED <<db, writer, settled>>
        /\ reader[r].load = "loaded"
        /\ reader' = [reader EXCEPT ![r].load = "stored"]
    BY <1>7 DEF Store
  <2>2. /\ \A q \in Readers \ {r} : reader'[q] = reader[q]
        /\ reader'[r] = [reader[r] EXCEPT !.load = "stored"]
        /\ reader'[r].load = "stored"
    BY <2>1, <1>t DEF TypeOK, ReaderRecord
  <2>3. \A q \in Readers : /\ Loading(q)' <=> Loading(q)
                           /\ HasLoaded(q)' <=> HasLoaded(q)
                           /\ reader'[q].on = reader[q].on
                           /\ reader'[q].loaded = reader[q].loaded
                           /\ reader'[q].generation = reader[q].generation
                           /\ reader'[q].floor = reader[q].floor
                           /\ reader'[q].answer = reader[q].answer
                           /\ reader'[q].value = reader[q].value
    <3>1. reader[r] \in ReaderRecord
      BY <1>t DEF TypeOK
    <3>2. /\ reader'[r].on = reader[r].on
          /\ reader'[r].loaded = reader[r].loaded
          /\ reader'[r].generation = reader[r].generation
          /\ reader'[r].floor = reader[r].floor
          /\ reader'[r].answer = reader[r].answer
          /\ reader'[r].value = reader[r].value
      BY <2>2, <3>1 DEF ReaderRecord
    <3>. QED
      BY <2>1, <2>2, <3>2 DEF Loading, HasLoaded
  <2>4. \A o \in Processes :
            /\ cache'[o].inflight = cache[o].inflight
            /\ cache'[o].generation = cache[o].generation
            /\ cache'[o].hasValue =>
                  \/ cache[o].hasValue /\ cache'[o].value = cache[o].value
                  \/ /\ o = p /\ cache[p].generation = reader[r].generation
                     /\ cache'[o].value = reader[r].loaded
    <3>. DEFINE new == [cache[p] EXCEPT !.value = reader[r].loaded,
                                        !.hasValue = TRUE,
                                        !.expiresAt = now + Ttl]
    <3>1. CASE cache' = cache
      BY <3>1
    <3>2. CASE /\ cache[p].generation = reader[r].generation
               /\ cache' = [cache EXCEPT ![p] = new]
      <4>1. cache[p] \in CacheRecord /\ p \in Processes
        BY <1>t, <1>h DEF TypeOK
      <4>2. /\ new.inflight = cache[p].inflight
            /\ new.generation = cache[p].generation
            /\ new.value = reader[r].loaded
        BY <4>1 DEF CacheRecord
      <4>3. cache'[p] = new /\ \A o \in Processes \ {p} : cache'[o] = cache[o]
        BY <3>2, <4>1, <1>t DEF TypeOK
      <4>. QED
        BY <3>2, <4>2, <4>3
    <3>. QED
      BY <1>7, <3>1, <3>2 DEF Store
  <2>5. \A o \in Processes : /\ settled'[o] <= db'
                             /\ cache'[o].hasValue => cache'[o].value >= settled'[o]
    <3>1. cache[p].generation = reader[r].generation =>
              reader[r].loaded >= settled[p]
      BY <2>1 DEF CacheInv, LoadInv, Loading, HasLoaded
    <3>. QED
      BY <1>h, <2>1, <2>4, <3>1 DEF CacheInv
  <2>6. \A o \in Processes : InflightInv(o)'
    BY <1>n, <2>3, <2>4 DEF CacheInv, InflightInv
  <2>7. \A q \in Readers : LoadInv(q)'
    BY <1>h, <2>1, <2>3, <2>4 DEF CacheInv, LoadInv
  <2>8. \A q \in Readers : WaitInv(q)'
    BY <1>n, <2>1, <2>3 DEF CacheInv, WaitInv
  <2>9. ReadYourWrites' /\ OneLoadPerGeneration' /\ \A q \in Readers : AnsweredInv(q)'
    BY <2>3 DEF CacheInv, ReadYourWrites, OneLoadPerGeneration, AnsweredInv,
                Answered, Waiting
  <2>. QED
    BY <1>t, <2>1, <2>5, <2>6, <2>7, <2>8, <2>9 DEF CacheInv
<1>8. ASSUME NEW r \in Readers, Settle(r) PROVE CacheInv'
  <2>. DEFINE p == HomeOf[r]
  <2>1. /\ UNCHANGED <<db, writer, settled>>
        /\ reader[r].load \in {"stored", "rejected"}
        /\ \A q \in Readers : reader'[q] = Settled(q, r)
    BY <1>8 DEF Settle
  <2>2. \A o \in Processes :
            /\ cache'[o].inflight = IF o = p /\ cache[p].inflight = r THEN Nobody
                                    ELSE cache[o].inflight
            /\ cache'[o].generation = cache[o].generation
            /\ cache'[o].hasValue = cache[o].hasValue
            /\ cache'[o].value = cache[o].value
    BY <1>8, <1>t, <1>h DEF Settle, TypeOK, CacheRecord
  <2>3. reader[r].on = r
    BY <2>1 DEF CacheInv, AnsweredInv, Answered, Waiting, Loading
  <2>4. ASSUME NEW q \in Readers
        PROVE  \/ reader[q].on # r /\ reader'[q] = reader[q]
               \/ /\ reader[q].on = r
                  /\ reader'[q].load = "none" /\ reader'[q].on = Nobody
                  /\ Answered(q)' =>
                        reader'[q].value >= reader'[q].floor
    <3>1. CASE reader[q].on # r
      BY <3>1, <2>1 DEF Settled
    <3>2. CASE reader[q].on = r /\ reader[r].load = "rejected"
      BY <3>2, <2>1 DEF Settled, IdleReader, Answered
    <3>3. CASE reader[q].on = r /\ reader[r].load = "stored"
      <4>1. reader[r].loaded >= reader[q].floor
        <5>1. WaitInv(q) /\ r # Nobody
          BY DEF CacheInv
        <5>. QED
          BY <3>3, <5>1 DEF WaitInv, HasLoaded
      <4>2. /\ reader'[q].load = "none" /\ reader'[q].on = Nobody
            /\ reader'[q].value = reader[r].loaded
            /\ reader'[q].floor = reader[q].floor
        <5>1. reader'[q] = [IdleReader EXCEPT
                  !.floor = reader[q].floor, !.answer = "given",
                  !.value = reader[r].loaded, !.answeredAt = now]
          BY <3>3, <2>1 DEF Settled
        <5>. QED
          BY <5>1 DEF IdleReader
      <4>. QED
        BY <3>3, <4>1, <4>2
    <3>. QED
      BY <3>1, <3>2, <3>3, <2>1
  <2>5. \A q \in Readers : Loading(q)' => /\ reader'[q] = reader[q]
                                          /\ q # r
    BY <2>3, <2>4 DEF Loading
  <2>6. \A o \in Processes : InflightInv(o)'
    BY <1>h, <1>n, <2>2, <2>3, <2>4, <2>1
       DEF CacheInv, InflightInv, AnsweredInv, Answered, Waiting, Loading
  <2>7. \A q \in Readers : LoadInv(q)'
    BY <1>h, <1>n, <2>1, <2>2, <2>5 DEF CacheInv, LoadInv, HasLoaded, Loading
  <2>8. \A q \in Readers : WaitInv(q)'
    <3>1. ASSUME NEW q \in Readers, reader'[q].on # Nobody PROVE WaitInv(q)'
      <4>1. reader'[q] = reader[q] /\ reader[q].on # r /\ reader[q].on \in Readers
        BY <3>1, <1>n, <2>4
      <4>2. Loading(reader[q].on)
        BY <4>1 DEF CacheInv, WaitInv
      <4>3. reader[reader[q].on].on = reader[q].on
        BY <4>1, <4>2 DEF CacheInv, AnsweredInv
      <4>4. reader'[reader[q].on] = reader[reader[q].on]
        BY <4>1, <4>3, <2>4
      <4>. QED
        BY <4>1, <4>4, <2>1 DEF CacheInv, WaitInv, Loading, HasLoaded
    <3>. QED
      BY <3>1 DEF WaitInv
  <2>9. OneLoadPerGeneration'
    BY <2>5 DEF CacheInv, OneLoadPerGeneration, Loading
  <2>10. \A q \in Readers : AnsweredInv(q)'
    BY <2>3, <2>4 DEF CacheInv, AnsweredInv, Answered, Waiting, Loading
  <2>11. ReadYourWrites'
    BY <2>4 DEF CacheInv, ReadYourWrites, Answered
  <2>12. \A o \in Processes : /\ settled'[o] <= db'
                              /\ cache'[o].hasValue => cache'[o].value >= settled'[o]
    BY <2>1, <2>2 DEF CacheInv
  <2>. QED
    BY <1>t, <2>1, <2>6, <2>7, <2>8, <2>9, <2>10, <2>11, <2>12 DEF CacheInv
<1>9. ASSUME NEW w \in Writers, Write(w) PROVE CacheInv'
  <2>1. /\ UNCHANGED <<cache, reader, settled>>
        /\ db' = db + 1
        /\ \A v \in Writers : writer'[v] \in {writer[v], db + 1}
    BY <1>9, <1>t DEF Write, TypeOK
  <2>2. \A v \in Writers : writer[v] \in Nat
    BY <1>t DEF TypeOK
  <2>3. \A q \in Readers : WaitInv(q)'
    BY <1>n, <2>1 DEF CacheInv, WaitInv, Loading, HasLoaded
  <2>. QED
    BY <1>t, <1>n, <2>1, <2>2, <2>3
       DEF CacheInv, InflightInv, LoadInv, AnsweredInv, Answered, Waiting, Loading,
           HasLoaded, ReadYourWrites, OneLoadPerGeneration
<1>10. ASSUME NEW w \in Writers, Invalidate(w) PROVE CacheInv'
  <2>. DEFINE p == HomeOf[w]
  <2>1. /\ UNCHANGED <<db, reader>>
        /\ \A v \in Writers : writer'[v] \in {writer[v], 0}
        /\ settled' = [settled EXCEPT ![p] = IF writer[w] > @ THEN writer[w] ELSE @]
        /\ cache' = [cache EXCEPT ![p] = EmptyCache(@.generation + 1)]
    BY <1>10, <1>t DEF Invalidate, TypeOK
  <2>2. /\ \A o \in Processes \ {p} : cache'[o] = cache[o] /\ settled'[o] = settled[o]
        /\ cache'[p].inflight = Nobody
        /\ cache'[p].hasValue = FALSE
        /\ cache'[p].generation = cache[p].generation + 1
        /\ settled'[p] \in {settled[p], writer[w]}
    BY <1>t, <1>h, <2>1 DEF TypeOK, EmptyCache
  <2>3. \A o \in Processes : /\ settled'[o] <= db'
                             /\ cache'[o].hasValue => cache'[o].value >= settled'[o]
                             /\ InflightInv(o)'
    <3>1. ASSUME NEW o \in Processes \ {p} PROVE InflightInv(o)'
      BY <1>n, <2>1, <2>2 DEF CacheInv, InflightInv, Loading
    <3>2. InflightInv(p)'
      BY <2>2 DEF InflightInv
    <3>. QED
      BY <3>1, <3>2, <2>1, <2>2 DEF CacheInv
  <2>4. ASSUME NEW q \in Readers PROVE LoadInv(q)'
    <3>1. CASE HomeOf[q] = p
      <4>1. Loading(q) => reader[q].generation < cache'[p].generation
        BY <3>1, <1>n, <1>h, <2>2 DEF CacheInv, LoadInv
      <4>2. reader[q].generation \in Nat /\ cache'[p].generation \in Nat
        BY <1>n, <1>h, <2>2
      <4>. QED
        BY <3>1, <4>1, <4>2, <2>1 DEF LoadInv, Loading
    <3>2. CASE HomeOf[q] # p
      BY <3>2, <1>h, <2>1, <2>2 DEF CacheInv, LoadInv, Loading, HasLoaded
    <3>. QED
      BY <3>1, <3>2
  <2>5. \A v \in Writers : writer'[v] <= db'
    BY <1>n, <2>1 DEF CacheInv
  <2>6. /\ \A q \in Readers : WaitInv(q)' /\ AnsweredInv(q)'
        /\ ReadYourWrites' /\ OneLoadPerGeneration'
    BY <2>1 DEF CacheInv, WaitInv, AnsweredInv, Answered, Waiting, Loading,
                HasLoaded, ReadYourWrites, OneLoadPerGeneration
  <2>. QED
    BY <1>t, <2>3, <2>4, <2>5, <2>6 DEF CacheInv
<1>11. ASSUME NEW w \in Writers, LoseAck(w) PROVE CacheInv'
  <2>1. /\ UNCHANGED <<db, cache, reader, settled>>
        /\ \A v \in Writers : writer'[v] \in {writer[v], 0}
    BY <1>11, <1>t DEF LoseAck, TypeOK
  <2>. QED
    BY <1>t, <1>n, <2>1
       DEF CacheInv, InflightInv, LoadInv, WaitInv, AnsweredInv, Answered, Waiting,
           Loading, HasLoaded, ReadYourWrites, OneLoadPerGeneration
<1>12. ASSUME Tick PROVE CacheInv'
  BY <1>12, <1>t
     DEF Tick, CacheInv, InflightInv, LoadInv, WaitInv, AnsweredInv, Answered,
         Waiting, Loading, HasLoaded, ReadYourWrites, OneLoadPerGeneration
<1>. QED
  BY <1>1, <1>2, <1>3, <1>4, <1>5, <1>6, <1>7, <1>8, <1>9, <1>10, <1>11, <1>12
     DEF Next, Read, Loader

\* A get() that starts after set() has returned in the same process answers
\* with that write or a later one, whatever loads were in flight.
THEOREM ProcessReadsItsWrites == Spec => []ReadYourWrites
BY CacheInit, CacheStep, PTL DEF Spec, CacheInv

\* Concurrent misses of one generation share one loader.
THEOREM MissesShareOneLoader == Spec => []OneLoadPerGeneration
BY CacheInit, CacheStep, PTL DEF Spec, CacheInv

-----------------------------------------------------------------------------
(* Answers are outdated by less than the ttl and one load *)

\* Nothing has been loaded or answered at first.
LEMMA TimeInit == Init => TimeInv
BY DEF Init, TimeInv, ReaderTime, CacheTime, EmptyCache, IdleReader, HasLoaded,
       Loading, Answered, BoundedStaleness

\* What the fields of well-typed tables are.
LEMMA Fields ==
    ASSUME TypeOK
    PROVE  /\ now \in Nat /\ db \in Nat /\ db <= MaxVersion
           /\ \A v \in 1..MaxVersion : since[v] \in Nat
           /\ \A r \in Readers : /\ reader[r] \in ReaderRecord
                                 /\ reader[r].loaded \in Nat
                                 /\ reader[r].startedAt \in Nat
                                 /\ reader[r].value \in Nat
                                 /\ reader[r].answeredAt \in Nat
           /\ \A p \in Processes : /\ cache[p] \in CacheRecord
                                   /\ cache[p].value \in Nat
                                   /\ cache[p].expiresAt \in Nat
<1>1. /\ now \in Nat /\ db \in Nat /\ db <= MaxVersion
      /\ \A v \in 1..MaxVersion : since[v] \in Nat
      /\ \A r \in Readers : reader[r] \in ReaderRecord
      /\ \A p \in Processes : cache[p] \in CacheRecord
  BY DEF TypeOK
<1>. QED
  BY <1>1 DEF ReaderRecord, CacheRecord

\* A step that reads or loads: the clock and the stored versions stand still,
\* and readers and caches keep their marks or get ones that hold.
LEMMA TimeFrame ==
    ASSUME TimeInv, UNCHANGED <<now, db, since>>,
           \A q \in Readers :
              \/ reader'[q] = reader[q]
              \/ ReaderTime(q)' /\ (Answered(q)' => reader'[q].answer = reader[q].answer
                                                    /\ reader'[q].value = reader[q].value
                                                    /\ reader'[q].answeredAt = reader[q].answeredAt)
              \/ ReaderTime(q)' /\ (reader'[q].value < db =>
                    reader'[q].answeredAt < since[reader'[q].value + 1] + Ttl + MaxLoad),
           \A p \in Processes : cache'[p] = cache[p] \/ CacheTime(p)'
    PROVE  TimeInv'
<1>1. \A q \in Readers : ReaderTime(q)'
  BY DEF TimeInv, ReaderTime, Loading, HasLoaded, Answered, CurrentAt
<1>2. \A p \in Processes : CacheTime(p)'
  BY DEF TimeInv, CacheTime
<1>3. BoundedStaleness'
  BY DEF TimeInv, BoundedStaleness, Answered
<1>. QED
  BY <1>1, <1>2, <1>3 DEF TimeInv

\* Every step preserves the marks.
LEMMA TimeStep == TypeOK /\ TimeInv /\ [Next]_vars => TimeInv'
<1>. SUFFICES ASSUME TypeOK, TimeInv, [Next]_vars PROVE TimeInv'
  OBVIOUS
<1>h. \A r \in Readers \cup Writers : HomeOf[r] \in Processes
  OBVIOUS
<1>1. CASE UNCHANGED vars
  BY <1>1, TimeFrame DEF vars
<1>2. ASSUME NEW r \in Readers, Hit(r) PROVE TimeInv'
  <2>. DEFINE c == cache[HomeOf[r]]
  <2>1. /\ UNCHANGED <<now, db, since, cache>>
        /\ \A q \in Readers \ {r} : reader'[q] = reader[q]
        /\ reader'[r].load = "none" /\ reader'[r].value = c.value
        /\ reader'[r].answeredAt = now
        /\ c.hasValue /\ now < c.expiresAt
    BY <1>2 DEF Hit, IdleReader, TypeOK
  <2>2. CacheTime(HomeOf[r])
    BY <1>h DEF TimeInv
  <2>3. c.value <= db /\ (c.value < db =>
            c.expiresAt <= since[c.value + 1] + Ttl + MaxLoad)
    BY <2>1, <2>2 DEF CacheTime
  <2>4. ReaderTime(r)'
    BY <2>1, <2>3, Fields DEF ReaderTime, Loading, HasLoaded
  <2>5. reader'[r].value < db =>
            reader'[r].answeredAt < since[reader'[r].value + 1] + Ttl + MaxLoad
    <3>1. c.value < db => c.value + 1 \in 1..MaxVersion
      BY <1>h, Fields
    <3>. QED
      BY <1>h, <2>1, <2>3, <3>1, Fields
  <2>. QED
    BY <2>1, <2>4, <2>5, TimeFrame
<1>3. ASSUME NEW r \in Readers, Join(r) PROVE TimeInv'
  <2>1. /\ UNCHANGED <<now, db, since, cache>>
        /\ \A q \in Readers \ {r} : reader'[q] = reader[q]
        /\ reader'[r].load = "none" /\ reader'[r].answer = "none"
    BY <1>3 DEF Join, IdleReader, TypeOK
  <2>. QED
    BY <2>1, TimeFrame DEF ReaderTime, Loading, HasLoaded, Answered
<1>4. ASSUME NEW r \in Readers, Load(r) PROVE TimeInv'
  <2>. DEFINE p == HomeOf[r]
  <2>1. /\ UNCHANGED <<now, db, since>>
        /\ \A q \in Readers \ {r} : reader'[q] = reader[q]
        /\ reader'[r].load = "querying" /\ reader'[r].answer = "none"
        /\ reader'[r].startedAt = now
        /\ cache' = [cache EXCEPT ![p].inflight = r]
    BY <1>4 DEF Load, IdleReader, TypeOK
  <2>2. \A o \in Processes : /\ cache'[o].hasValue = cache[o].hasValue
                             /\ cache'[o].value = cache[o].value
                             /\ cache'[o].expiresAt = cache[o].expiresAt
    BY <1>h, <2>1 DEF TypeOK, CacheRecord
  <2>3. \A o \in Processes : CacheTime(o)'
    BY <2>1, <2>2 DEF TimeInv, CacheTime
  <2>4. ReaderTime(r)'
    BY <2>1, Fields DEF ReaderTime, Loading, HasLoaded, Answered
  <2>. QED
    BY <2>1, <2>3, <2>4, TimeFrame DEF Answered
<1>5. ASSUME NEW r \in Readers, Return(r) PROVE TimeInv'
  <2>1. /\ UNCHANGED <<now, db, since, cache>>
        /\ \A q \in Readers \ {r} : reader'[q] = reader[q]
        /\ reader'[r].load = "none" /\ reader'[r].answer = "none"
    BY <1>5 DEF Return, IdleReader, TypeOK
  <2>. QED
    BY <2>1, TimeFrame DEF ReaderTime, Loading, HasLoaded, Answered
<1>6. ASSUME NEW r \in Readers, Query(r) PROVE TimeInv'
  <2>1. /\ UNCHANGED <<now, db, since, cache>>
        /\ reader[r].load = "querying"
        /\ \A q \in Readers \ {r} : reader'[q] = reader[q]
        /\ \/ reader'[r].load = "loaded" /\ reader'[r].loaded = db
           \/ reader'[r].load = "rejected"
        /\ reader'[r].startedAt = reader[r].startedAt
        /\ reader'[r].answer = reader[r].answer
        /\ reader'[r].value = reader[r].value
        /\ reader'[r].answeredAt = reader[r].answeredAt
    <3>1. PICK rec \in {[reader[r] EXCEPT !.load = "loaded", !.loaded = db],
                        [reader[r] EXCEPT !.load = "rejected"]} :
              reader' = [reader EXCEPT ![r] = rec]
      BY <1>6 DEF Query
    <3>2. /\ \/ rec.load = "loaded" /\ rec.loaded = db
             \/ rec.load = "rejected"
          /\ rec.startedAt = reader[r].startedAt /\ rec.answer = reader[r].answer
          /\ rec.value = reader[r].value /\ rec.answeredAt = reader[r].answeredAt
      BY Fields DEF ReaderRecord
    <3>3. reader'[r] = rec /\ \A q \in Readers \ {r} : reader'[q] = reader[q]
      BY <3>1 DEF TypeOK
    <3>. QED
      BY <1>6, <3>2, <3>3 DEF Query
  <2>2. ReaderTime(r)'
    BY <2>1, Fields DEF TimeInv, ReaderTime, Loading, HasLoaded, Answered, CurrentAt
  <2>. QED
    BY <2>1, <2>2, TimeFrame
<1>7. ASSUME NEW r \in Readers, Store(r) PROVE TimeInv'
  <2>. DEFINE p == HomeOf[r]
              new == [cache[p] EXCEPT !.value = reader[r].loaded,
                                      !.hasValue = TRUE,
                                      !.expiresAt = now + Ttl]
  <2>1. /\ UNCHANGED <<now, db, since>>
        /\ reader[r].load = "loaded"
        /\ reader' = [reader EXCEPT ![r] = [@ EXCEPT !.load = "stored"]]
        /\ cache' = cache \/ cache' = [cache EXCEPT ![p] = new]
    BY <1>7 DEF Store
  <2>2. /\ \A q \in Readers \ {r} : reader'[q] = reader[q]
        /\ reader'[r].load = "stored"
        /\ reader'[r].loaded = reader[r].loaded
        /\ reader'[r].startedAt = reader[r].startedAt
        /\ reader'[r].answer = reader[r].answer
        /\ reader'[r].value = reader[r].value
        /\ reader'[r].answeredAt = reader[r].answeredAt
    <3>. DEFINE rec == [reader[r] EXCEPT !.load = "stored"]
    <3>1. /\ rec.load = "stored" /\ rec.loaded = reader[r].loaded
          /\ rec.startedAt = reader[r].startedAt /\ rec.answer = reader[r].answer
          /\ rec.value = reader[r].value /\ rec.answeredAt = reader[r].answeredAt
      BY Fields DEF ReaderRecord
    <3>2. reader'[r] = rec /\ \A q \in Readers \ {r} : reader'[q] = reader[q]
      BY <2>1 DEF TypeOK
    <3>. QED
      BY <3>1, <3>2
  <2>3. ReaderTime(r)'
    BY <2>1, <2>2 DEF TimeInv, ReaderTime, Loading, HasLoaded, Answered, CurrentAt
  <2>4. ASSUME cache' = [cache EXCEPT ![p] = new] PROVE CacheTime(p)'
    <3>1. /\ new.value = reader[r].loaded /\ new.expiresAt = now + Ttl
      BY <1>h, Fields DEF CacheRecord
    <3>2. cache'[p] = new
      BY <1>h, <2>4 DEF TypeOK
    <3>3. /\ CurrentAt(reader[r].loaded, reader[r].startedAt)
          /\ now <= reader[r].startedAt + MaxLoad
      BY <2>1 DEF TimeInv, ReaderTime, Loading, HasLoaded
    <3>4. reader[r].loaded < db => reader[r].loaded + 1 \in 1..MaxVersion
      BY Fields
    <3>5. reader[r].loaded < db =>
              now + Ttl <= since[reader[r].loaded + 1] + Ttl + MaxLoad
      BY <3>3, <3>4, Fields DEF CurrentAt
    <3>. HIDE DEF new
    <3>. QED
      BY <2>1, <3>1, <3>2, <3>3, <3>5, Fields DEF CacheTime, CurrentAt
  <2>5. \A o \in Processes : cache'[o] = cache[o] \/ CacheTime(o)'
    BY <1>h, <2>1, <2>4 DEF TypeOK
  <2>. QED
    BY <2>1, <2>2, <2>3, <2>5, TimeFrame
<1>8. ASSUME NEW r \in Readers, Settle(r) PROVE TimeInv'
  <2>. DEFINE p == HomeOf[r]
  <2>1. /\ UNCHANGED <<now, db, since>>
        /\ reader[r].load \in {"stored", "rejected"}
        /\ \A q \in Readers : reader'[q] = Settled(q, r)
        /\ cache' \in {cache, [cache EXCEPT ![p].inflight = Nobody]}
    BY <1>8 DEF Settle
  <2>2. \A o \in Processes : /\ cache'[o].hasValue = cache[o].hasValue
                             /\ cache'[o].value = cache[o].value
                             /\ cache'[o].expiresAt = cache[o].expiresAt
    <3>1. CASE cache' = [cache EXCEPT ![p].inflight = Nobody]
      BY <3>1, <1>h DEF TypeOK, CacheRecord
    <3>. QED
      BY <2>1, <3>1
  <2>3. \A o \in Processes : CacheTime(o)'
    BY <2>1, <2>2 DEF TimeInv, CacheTime
  <2>4. ASSUME NEW q \in Readers
        PROVE  \/ reader'[q] = reader[q]
               \/ reader'[q].load = "none" /\ reader'[q].answer = "none"
               \/ /\ reader'[q].load = "none" /\ reader'[q].answeredAt = now
                  /\ reader'[q].value = reader[r].loaded
                  /\ reader[r].load = "stored"
    <3>. DEFINE rec == [IdleReader EXCEPT
                  !.floor = reader[q].floor, !.answer = "given",
                  !.value = reader[r].loaded, !.answeredAt = now]
    <3>1. \/ reader'[q] = reader[q]
          \/ reader'[q] = IdleReader
          \/ reader'[q] = rec /\ reader[r].load = "stored"
      BY <2>1 DEF Settled
    <3>2. /\ rec.load = "none" /\ rec.value = reader[r].loaded
          /\ rec.answeredAt = now
      BY DEF IdleReader
    <3>3. IdleReader.load = "none" /\ IdleReader.answer = "none"
      BY DEF IdleReader
    <3>. HIDE DEF rec
    <3>. QED
      BY <3>1, <3>2, <3>3
  <2>5. reader[r].load = "stored" =>
            /\ CurrentAt(reader[r].loaded, reader[r].startedAt)
            /\ now <= reader[r].startedAt + MaxLoad
    BY DEF TimeInv, ReaderTime, Loading, HasLoaded
  <2>6. reader[r].load = "stored" /\ reader[r].loaded < db =>
            now < since[reader[r].loaded + 1] + Ttl + MaxLoad
    <3>1. reader[r].loaded < db => reader[r].loaded + 1 \in 1..MaxVersion
      BY Fields
    <3>. QED
      BY <2>5, <3>1, Fields DEF CurrentAt
  <2>7. ASSUME NEW q \in Readers
        PROVE  \/ reader'[q] = reader[q]
               \/ ReaderTime(q)' /\ reader'[q].answer = "none"
               \/ ReaderTime(q)' /\ (reader'[q].value < db =>
                    reader'[q].answeredAt < since[reader'[q].value + 1] + Ttl + MaxLoad)
    BY <2>1, <2>4, <2>5, <2>6, Fields
       DEF ReaderTime, Loading, HasLoaded, Answered, CurrentAt
  <2>. QED
    BY <2>1, <2>3, <2>7, TimeFrame DEF Answered
<1>9. ASSUME NEW w \in Writers, Write(w) PROVE TimeInv'
  <2>1. /\ UNCHANGED <<now, cache, reader>>
        /\ db < MaxVersion
        /\ db' = db + 1
        /\ since'[db + 1] = now
        /\ \A v \in 1..db : since'[v] = since[v]
    BY <1>9, Fields DEF Write, TypeOK
  <2>2. ASSUME NEW v \in Nat, v <= db
        PROVE  /\ v < db' /\ v + 1 \in 1..MaxVersion
               /\ since'[v + 1] = IF v = db THEN now ELSE since[v + 1]
               /\ v < db => v + 1 \in 1..db
    BY <2>1, <2>2, Fields
  <2>3. ASSUME NEW q \in Readers PROVE ReaderTime(q)'
    BY <2>1, <2>2, Fields
       DEF TimeInv, ReaderTime, Loading, HasLoaded, Answered, CurrentAt
  <2>4. ASSUME NEW o \in Processes PROVE CacheTime(o)'
    BY <2>1, <2>2, Fields DEF TimeInv, CacheTime
  <2>5. BoundedStaleness'
    BY <2>1, <2>2, Fields DEF TimeInv, ReaderTime, BoundedStaleness, Answered
  <2>. QED
    BY <2>3, <2>4, <2>5 DEF TimeInv
<1>10. ASSUME NEW w \in Writers, Invalidate(w) PROVE TimeInv'
  <2>1. /\ UNCHANGED <<now, db, since, reader>>
        /\ \A o \in Processes : cache'[o] = cache[o] \/ cache'[o].hasValue = FALSE
    BY <1>10, <1>h DEF Invalidate, TypeOK, EmptyCache
  <2>. QED
    BY <2>1, TimeFrame DEF CacheTime
<1>11. ASSUME NEW w \in Writers, LoseAck(w) PROVE TimeInv'
  BY <1>11, TimeFrame DEF LoseAck
<1>12. ASSUME Tick PROVE TimeInv'
  <2>1. /\ UNCHANGED <<db, since, cache, reader>>
        /\ now' = now + 1
        /\ \A r \in Readers : Loading(r) => now < reader[r].startedAt + MaxLoad
    BY <1>12 DEF Tick
  <2>2. ASSUME NEW q \in Readers PROVE ReaderTime(q)'
    BY <2>1, Fields
       DEF TimeInv, ReaderTime, Loading, HasLoaded, Answered, CurrentAt
  <2>3. ASSUME NEW o \in Processes PROVE CacheTime(o)'
    BY <2>1, Fields DEF TimeInv, CacheTime
  <2>4. BoundedStaleness'
    BY <2>1 DEF TimeInv, BoundedStaleness, Answered
  <2>. QED
    BY <2>2, <2>3, <2>4 DEF TimeInv
<1>. QED
  BY <1>1, <1>2, <1>3, <1>4, <1>5, <1>6, <1>7, <1>8, <1>9, <1>10, <1>11, <1>12
     DEF Next, Read, Loader

\* However many processes write, and even if a write is never followed by its
\* invalidation, no answer is outdated by the ttl and one load or more.
THEOREM AnswersAreRecent == Spec => []BoundedStaleness
<1>1. Init => TypeOK /\ TimeInv
  BY TypeInit, TimeInit
<1>2. (TypeOK /\ TimeInv) /\ [Next]_vars => (TypeOK /\ TimeInv)'
  BY TypeStep, TimeStep
<1>. QED
  BY <1>1, <1>2, PTL DEF Spec, TimeInv

=============================================================================
