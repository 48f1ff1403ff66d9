---------------------------- MODULE Caches_proofs ----------------------------
(***************************************************************************)
(* Proofs about the two caches the web interface answers from: the catalog  *)
(* of scopes (ScopeCatalog), for any databases, requests and number of      *)
(* reloads, and what a person may see (AccessCache), for any number of      *)
(* users, callers, lookups, changes and invalidations.                      *)
(***************************************************************************)
EXTENDS ScopeCatalog, AccessCache, TLAPS

-----------------------------------------------------------------------------
(* The catalog of scopes.                                                   *)

\* Nobody works for a generation that has not begun.
Begun ==
  /\ \A r \in Requests : requests[r].gen <= generation
  /\ \A g \in Generations : g > generation => threads[g] = 0

IInv == TypeOK /\ Begun /\ CatalogOfItsDatabase /\ OneRefresh

\* Every generation has the database it was served from.
LEMMA ServedFacts ==
  ASSUME TypeOK
  PROVE  /\ Len(served) \in Nat \ {0}
         /\ generation \in Generations /\ generation + 1 = Len(served)
         /\ db = served[generation + 1] /\ db \in Dbs
         /\ \A g \in Generations : g <= generation => served[g + 1] \in Dbs
BY CatalogConstants DEF TypeOK, generation, db, Last, Generations

\* The initial states satisfy the inductive invariant.
LEMMA InitIInv == Init => IInv
<1> SUFFICES ASSUME Init PROVE IInv
    OBVIOUS
<1>1. PICK d \in Dbs : served = <<d>>
  BY DEF Init
<1>2. TypeOK
  <2>1. Len(served) = 1 /\ served \in Seq(Dbs)
    BY <1>1
  <2>2. 1 \in 1..(MaxReloads + 1) /\ 0 \in Generations
    BY CatalogConstants DEF Generations
  <2>3. /\ threads \in [Generations -> Nat]
        /\ requests \in [Requests ->
             [building : BOOLEAN, force : BOOLEAN, retry : BOOLEAN, gen : Generations]]
    BY <2>2 DEF Init, Idle
  <2>4. disk \in [Dbs -> Catalogs \cup {None}] /\ readable \in BOOLEAN
    BY DEF Init
  <2> QED BY <2>1, <2>2, <2>3, <2>4 DEF Init, TypeOK
<1>3. generation = 0
  BY <1>1 DEF generation
<1>4. Begun /\ OneRefresh
  BY <1>3, CatalogConstants DEF Init, Begun, OneRefresh, Generations, Idle
<1>5. CatalogOfItsDatabase
  BY DEF Init, CatalogOfItsDatabase
<1> QED BY <1>2, <1>4, <1>5 DEF IInv

\* A file that is written holds a catalog of the database it is named for, or
\* none, and is not downgraded where it can be read.
LEMMA PersistFacts ==
  ASSUME TypeOK, CatalogOfItsDatabase, NEW v \in Catalogs, v.db = db, Persist(v)
  PROVE  /\ disk' \in [Dbs -> Catalogs \cup {None}]
         /\ \A d \in Dbs : disk'[d] # None => disk'[d].db = d
         /\ \A d \in Dbs : readable /\ disk[d] # None /\ disk[d].verified =>
                             disk'[d] = None \/ disk'[d].verified
<1>1. db \in Dbs
  BY ServedFacts
<1>2. CASE UNCHANGED disk
  BY <1>2 DEF TypeOK, CatalogOfItsDatabase
<1>3. ASSUME NEW left \in {v, None}, ~Kept(v), disk' = [disk EXCEPT ![db] = left]
      PROVE  /\ disk' \in [Dbs -> Catalogs \cup {None}]
             /\ \A d \in Dbs : disk'[d] # None => disk'[d].db = d
             /\ \A d \in Dbs : readable /\ disk[d] # None /\ disk[d].verified =>
                                 disk'[d] = None \/ disk'[d].verified
  <2>1. disk'[db] = left /\ \A d \in Dbs : d # db => disk'[d] = disk[d]
    BY <1>1, <1>3 DEF TypeOK
  <2>2. readable /\ disk[db] # None /\ disk[db].verified => v.verified
    BY <1>3 DEF Kept, Loaded
  <2>3. disk' \in [Dbs -> Catalogs \cup {None}]
    BY <1>1, <1>3 DEF TypeOK
  <2> QED BY <1>1, <1>3, <2>1, <2>2, <2>3 DEF CatalogOfItsDatabase
<1> QED BY <1>2, <1>3 DEF Persist

\* Steps that neither publish a catalog nor swap the database.
LEMMA QuietKeeps ==
  ASSUME IInv, UNCHANGED <<served, value, disk>>, TypeOK', Begun', OneRefresh'
  PROVE  IInv'
BY DEF IInv, CatalogOfItsDatabase, db

\* A refresh that is started where there is none is the only one.
LEMMA StartFacts ==
  ASSUME IInv, UNCHANGED served,
         \/ ~refreshing /\ StartRefresh
         \/ UNCHANGED <<refreshing, threads>>
  PROVE  /\ refreshing' \in BOOLEAN /\ threads' \in [Generations -> Nat]
         /\ \A g \in Generations : g > generation => threads'[g] = 0
         /\ OneRefresh'
<1>1. generation \in Generations /\ generation' = generation
  BY ServedFacts DEF IInv, generation
<1>2. CASE ~refreshing /\ StartRefresh
  BY <1>1, <1>2 DEF StartRefresh, IInv, TypeOK, Begun, OneRefresh, Generations
<1>3. CASE UNCHANGED <<refreshing, threads>>
  BY <1>1, <1>3 DEF IInv, TypeOK, Begun, OneRefresh
<1> QED BY <1>2, <1>3

\* A request that is served may start a refresh; nothing else changes.
LEMMA ServeKeeps ==
  ASSUME IInv, NEW r \in Requests, Serve(r)
  PROVE  IInv'
<1>1. UNCHANGED <<served, value, fresh, prime, requests, disk, readable>>
  BY DEF Serve
<1>2. (~refreshing /\ StartRefresh) \/ UNCHANGED <<refreshing, threads>>
  BY DEF Serve
<1>3. TypeOK' /\ Begun' /\ OneRefresh'
  BY <1>1, <1>2, StartFacts DEF IInv, TypeOK, Begun, generation
<1> QED BY <1>1, <1>3, QuietKeeps

\* A build captures the present generation; one that fails is forgotten.
LEMMA BuildKeeps ==
  ASSUME IInv, NEW r \in Requests,
         BuildFails(r) \/ \E force \in BOOLEAN : Build(r, force)
  PROVE  IInv'
<1>1. /\ generation \in Generations /\ 0 \in Generations
      /\ generation' = generation /\ 0 <= generation
  BY ServedFacts, CatalogConstants DEF IInv, BuildFails, Build, generation, Generations
<1>2. UNCHANGED <<served, scopeCache, threads, prime, disk, readable>>
  BY DEF BuildFails, Build
<1>3. PICK q \in [building : BOOLEAN, force : BOOLEAN, retry : BOOLEAN, gen : Generations] :
        requests' = [requests EXCEPT ![r] = q] /\ q.gen <= generation
  <2>1. CASE BuildFails(r)
    <3>1. /\ Idle \in [building : BOOLEAN, force : BOOLEAN, retry : BOOLEAN, gen : Generations]
          /\ Idle.gen <= generation
      BY <1>1 DEF Idle
    <3> QED BY <2>1, <3>1 DEF BuildFails
  <2>2. CASE \E force \in BOOLEAN : Build(r, force)
    <3>1. PICK force \in BOOLEAN : Build(r, force)
      BY <2>2
    <3> DEFINE q == [building |-> TRUE, force |-> force, retry |-> FALSE, gen |-> generation]
    <3>2. /\ q \in [building : BOOLEAN, force : BOOLEAN, retry : BOOLEAN, gen : Generations]
          /\ q.gen <= generation
      BY <1>1 DEF Generations
    <3> QED BY <3>1, <3>2 DEF Build
  <2> QED BY <2>1, <2>2
<1>4. TypeOK'
  BY <1>2, <1>3 DEF IInv, TypeOK, scopeCache
<1>5. Begun' /\ OneRefresh'
  BY <1>1, <1>2, <1>3 DEF IInv, TypeOK, Begun, OneRefresh, scopeCache
<1> QED BY <1>2, <1>4, <1>5, QuietKeeps DEF scopeCache

\* What a request publishes was read from the database that is served.
LEMMA PublishKeeps ==
  ASSUME IInv, NEW r \in Requests, Publish(r)
  PROVE  IInv'
<1> DEFINE q == requests[r]
           built == [db |-> served[q.gen + 1], verified |-> q.force]
<1>1. /\ q.gen = generation /\ generation' = generation /\ db' = db
      /\ built \in Catalogs /\ built.db = db
      /\ q.force \in BOOLEAN
  BY ServedFacts DEF IInv, TypeOK, Publish, Current, Catalogs, generation, db
<1>2. /\ value' = built /\ fresh' = q.force /\ Persist(built)
      /\ requests' = [requests EXCEPT ![r] = Idle] /\ UNCHANGED <<served, prime, readable>>
      /\ (~refreshing /\ StartRefresh) \/ UNCHANGED <<refreshing, threads>>
  BY DEF Publish
<1>3. /\ disk' \in [Dbs -> Catalogs \cup {None}]
      /\ \A d \in Dbs : disk'[d] # None => disk'[d].db = d
  BY <1>1, <1>2, PersistFacts DEF IInv
<1>4. /\ refreshing' \in BOOLEAN /\ threads' \in [Generations -> Nat]
      /\ \A g \in Generations : g > generation => threads'[g] = 0
      /\ OneRefresh'
  BY <1>2, StartFacts
<1>5. 0 \in Generations /\ 0 <= generation
  BY ServedFacts, CatalogConstants DEF IInv, Generations
<1>6. TypeOK'
  BY <1>1, <1>2, <1>3, <1>4, <1>5 DEF IInv, TypeOK, Idle
<1>7. Begun'
  BY <1>1, <1>2, <1>4, <1>5 DEF IInv, TypeOK, Begun, Idle
<1>8. CatalogOfItsDatabase'
  BY <1>1, <1>2, <1>3 DEF CatalogOfItsDatabase
<1> QED BY <1>4, <1>6, <1>7, <1>8 DEF IInv

\* A build of a replaced database is begun again, or given up.
LEMMA OutdatedKeeps ==
  ASSUME IInv, NEW r \in Requests, Outdated(r)
  PROVE  IInv'
<1>1. /\ generation \in Generations /\ generation' = generation
      /\ 0 \in Generations /\ 0 <= generation
  BY ServedFacts, CatalogConstants DEF IInv, Outdated, generation, Generations
<1>2. /\ UNCHANGED <<served, value, fresh, prime, disk, readable>>
      /\ (~refreshing /\ StartRefresh) \/ UNCHANGED <<refreshing, threads>>
      /\ \/ requests' = [requests EXCEPT ![r] = Idle]
         \/ requests' = [requests EXCEPT ![r] =
                           [@ EXCEPT !.retry = TRUE, !.gen = generation]]
  BY DEF Outdated
<1>3. /\ refreshing' \in BOOLEAN /\ threads' \in [Generations -> Nat]
      /\ \A g \in Generations : g > generation => threads'[g] = 0
      /\ OneRefresh'
  BY <1>2, StartFacts
<1>4. PICK q \in [building : BOOLEAN, force : BOOLEAN, retry : BOOLEAN, gen : Generations] :
        requests' = [requests EXCEPT ![r] = q] /\ q.gen <= generation
  <2>1. /\ Idle \in [building : BOOLEAN, force : BOOLEAN, retry : BOOLEAN, gen : Generations]
        /\ Idle.gen <= generation
    BY <1>1 DEF Idle
  <2> DEFINE again == [requests[r] EXCEPT !.retry = TRUE, !.gen = generation]
  <2>2. /\ again \in [building : BOOLEAN, force : BOOLEAN, retry : BOOLEAN, gen : Generations]
        /\ again.gen <= generation
    <3>1. requests[r] \in [building : BOOLEAN, force : BOOLEAN, retry : BOOLEAN, gen : Generations]
      BY DEF IInv, TypeOK
    <3>2. generation \in Generations /\ generation <= generation
      BY <1>1 DEF Generations
    <3> QED BY <3>1, <3>2
  <2>3. requests' = [requests EXCEPT ![r] = Idle] \/ requests' = [requests EXCEPT ![r] = again]
    BY <1>2
  <2> HIDE DEF again
  <2> QED BY <2>1, <2>2, <2>3
<1>5. TypeOK'
  BY <1>2, <1>3, <1>4 DEF IInv, TypeOK
<1>6. Begun'
  BY <1>1, <1>2, <1>3, <1>4 DEF IInv, TypeOK, Begun
<1> QED BY <1>2, <1>3, <1>5, <1>6, QuietKeeps

\* The end of a refresh: only that of the present generation publishes, and
\* it is the one the flag stands for.
LEMMA RefreshSucceedsKeeps ==
  ASSUME IInv, NEW g \in Generations, RefreshSucceeds(g)
  PROVE  IInv'
<1> DEFINE built == [db |-> served[g + 1], verified |-> TRUE]
<1>1. /\ generation \in Generations /\ generation' = generation /\ db' = db
      /\ UNCHANGED <<served, prime, requests, readable>>
      /\ threads[g] > 0 /\ threads' = [threads EXCEPT ![g] = @ - 1]
  BY ServedFacts DEF IInv, RefreshSucceeds, generation, db
<1>2. threads' \in [Generations -> Nat]
  BY <1>1 DEF IInv, TypeOK
<1>3. CASE Current(g)
  <2>1. g = generation /\ built \in Catalogs /\ built.db = db
    BY <1>3, ServedFacts DEF IInv, Current, Catalogs
  <2>2. value' = built /\ fresh' = TRUE /\ refreshing' = FALSE /\ Persist(built)
    BY <1>3 DEF RefreshSucceeds
  <2>3. /\ disk' \in [Dbs -> Catalogs \cup {None}]
        /\ \A d \in Dbs : disk'[d] # None => disk'[d].db = d
    BY <2>1, <2>2, PersistFacts DEF IInv
  <2>4. TypeOK'
    BY <1>1, <1>2, <2>1, <2>2, <2>3 DEF IInv, TypeOK
  <2>5. Begun' /\ OneRefresh'
    BY <1>1, <2>1, <2>2 DEF IInv, TypeOK, Begun, OneRefresh
  <2>6. CatalogOfItsDatabase'
    BY <1>1, <2>1, <2>2, <2>3 DEF CatalogOfItsDatabase
  <2> QED BY <2>4, <2>5, <2>6 DEF IInv
<1>4. CASE ~Current(g)
  <2>1. UNCHANGED <<scopeCache, disk>> /\ g # generation
    BY <1>4 DEF RefreshSucceeds, Current
  <2>2. TypeOK'
    BY <1>1, <1>2, <2>1 DEF IInv, TypeOK, scopeCache
  <2>3. Begun' /\ OneRefresh'
    BY <1>1, <2>1 DEF IInv, TypeOK, Begun, OneRefresh, scopeCache
  <2> QED BY <1>1, <2>1, <2>2, <2>3, QuietKeeps DEF scopeCache
<1> QED BY <1>3, <1>4

LEMMA RefreshFailsKeeps ==
  ASSUME IInv, NEW g \in Generations, RefreshFails(g)
  PROVE  IInv'
<1>1. /\ generation \in Generations /\ generation' = generation
      /\ UNCHANGED <<served, value, fresh, prime, requests, disk, readable>>
      /\ threads[g] > 0 /\ threads' = [threads EXCEPT ![g] = @ - 1]
      /\ refreshing' = (refreshing /\ g # generation)
  BY ServedFacts DEF IInv, RefreshFails, Current, generation
<1>2. TypeOK'
  BY <1>1 DEF IInv, TypeOK
<1>3. Begun'
  BY <1>1 DEF IInv, TypeOK, Begun
<1>4. OneRefresh'
  <2>1. CASE g = generation
    <3>1. ~refreshing'
      BY <1>1, <2>1
    <3>2. threads[generation] = 1
      BY <1>1, <2>1 DEF IInv, OneRefresh
    <3>3. threads'[generation'] = 0
      BY <1>1, <2>1, <3>2 DEF IInv, TypeOK
    <3> QED BY <3>1, <3>3 DEF OneRefresh
  <2>2. CASE g # generation
    BY <1>1, <2>2 DEF IInv, TypeOK, OneRefresh
  <2> QED BY <2>1, <2>2
<1> QED BY <1>1, <1>2, <1>3, <1>4, QuietKeeps

\* The boot's thread publishes only while its generation is the present one.
LEMMA PrimeKeeps ==
  ASSUME IInv, PrimeBegins \/ PrimeEnds
  PROVE  IInv'
<1> DEFINE built == [db |-> served[1], verified |-> FALSE]
<1>1. /\ UNCHANGED <<served, threads, requests, refreshing, readable>>
      /\ generation' = generation /\ db' = db
      /\ prime' \in {"building", "done"}
  BY DEF PrimeBegins, PrimeEnds, scopeCache, generation, db
<1>2. Begun' /\ OneRefresh'
  BY <1>1 DEF IInv, Begun, OneRefresh
<1>3. CASE UNCHANGED <<scopeCache, disk>>
  <2>1. TypeOK'
    BY <1>1, <1>3 DEF IInv, TypeOK, scopeCache
  <2> QED BY <1>1, <1>2, <1>3, <2>1, QuietKeeps DEF scopeCache
<1>4. CASE Current(0) /\ value' = built /\ fresh' = FALSE /\ Persist(built)
  <2>1. built \in Catalogs /\ built.db = db
    BY <1>4, ServedFacts DEF IInv, Current, Catalogs
  <2>2. /\ disk' \in [Dbs -> Catalogs \cup {None}]
        /\ \A d \in Dbs : disk'[d] # None => disk'[d].db = d
    BY <1>4, <2>1, PersistFacts DEF IInv
  <2>3. TypeOK'
    BY <1>1, <1>4, <2>1, <2>2 DEF IInv, TypeOK
  <2>4. CatalogOfItsDatabase'
    BY <1>1, <1>4, <2>1, <2>2 DEF CatalogOfItsDatabase
  <2> QED BY <1>2, <2>3, <2>4 DEF IInv
<1> QED BY <1>3, <1>4 DEF PrimeBegins, PrimeEnds

\* A reload begins a generation that nobody works for yet.
LEMMA ReloadKeeps ==
  ASSUME IInv, NEW d \in Dbs, Reload(d)
  PROVE  IInv'
<1>1. /\ served \in Seq(Dbs) /\ Len(served) \in Nat \ {0}
      /\ generation < MaxReloads /\ MaxReloads \in Nat
      /\ served' = Append(served, d)
      /\ value' = None /\ fresh' = FALSE /\ refreshing' = FALSE
      /\ UNCHANGED <<threads, prime, requests, disk, readable>>
  BY ServedFacts, CatalogConstants DEF IInv, TypeOK, Reload
<1>2. /\ served' \in Seq(Dbs) /\ Len(served') = Len(served) + 1
      /\ generation' = generation + 1 /\ generation' \in Generations
      /\ generation \in Nat
  BY <1>1 DEF generation, Generations
<1>3. TypeOK'
  <2>1. Len(served') \in 1..(MaxReloads + 1)
    BY <1>1, <1>2 DEF generation
  <2> QED BY <1>1, <1>2, <2>1 DEF IInv, TypeOK
<1>4. Begun' /\ OneRefresh'
  BY <1>1, <1>2 DEF IInv, TypeOK, Begun, OneRefresh, Generations
<1>5. CatalogOfItsDatabase'
  BY <1>1 DEF IInv, CatalogOfItsDatabase
<1> QED BY <1>3, <1>4, <1>5 DEF IInv

\* A boot knows nothing but files that are each of their database.
LEMMA BootKeeps ==
  ASSUME IInv, NEW files \in [Dbs -> Catalogs \cup {None}],
         \A d \in Dbs : files[d] # None => files[d].db = d, Boot(db, files)
  PROVE  IInv'
<1>1. db \in Dbs /\ served' = <<db>> /\ generation' = 0 /\ db' = db
  BY ServedFacts DEF IInv, Boot, generation, db, Last
<1>2. TypeOK'
  <2>1. Len(served') = 1 /\ served' \in Seq(Dbs)
    BY <1>1
  <2>2. 1 \in 1..(MaxReloads + 1) /\ 0 \in Generations
    BY CatalogConstants DEF Generations
  <2>3. /\ threads' \in [Generations -> Nat]
        /\ requests' \in [Requests ->
             [building : BOOLEAN, force : BOOLEAN, retry : BOOLEAN, gen : Generations]]
    BY <2>2 DEF Boot, Idle
  <2>4. value' \in Catalogs \cup {None} /\ disk' \in [Dbs -> Catalogs \cup {None}]
    BY <1>1 DEF Boot, Loaded
  <2>5. fresh' \in BOOLEAN /\ refreshing' \in BOOLEAN /\ prime' \in {"due", "building", "done"}
        /\ readable' \in BOOLEAN
    BY DEF Boot, IInv, TypeOK
  <2> QED BY <2>1, <2>2, <2>3, <2>4, <2>5 DEF TypeOK
<1>3. Begun' /\ OneRefresh'
  BY <1>1, CatalogConstants DEF Boot, Begun, OneRefresh, Idle, Generations
<1>4. CatalogOfItsDatabase'
  BY <1>1 DEF Boot, Loaded, CatalogOfItsDatabase
<1> QED BY <1>2, <1>3, <1>4 DEF IInv

LEMMA RestartKeeps ==
  ASSUME IInv, Restart \/ RestartInWrite
  PROVE  IInv'
<1>1. CASE Restart
  BY <1>1, BootKeeps DEF Restart, IInv, TypeOK, CatalogOfItsDatabase
<1>2. CASE RestartInWrite
  <2> DEFINE files == [disk EXCEPT ![db] = None]
  <2>1. files \in [Dbs -> Catalogs \cup {None}]
    BY DEF IInv, TypeOK
  <2>2. \A d \in Dbs : files[d] # None => files[d].db = d
    BY DEF IInv, TypeOK, CatalogOfItsDatabase
  <2>3. Boot(db, files)
    BY <1>2 DEF RestartInWrite
  <2> HIDE DEF files
  <2> QED BY <2>1, <2>2, <2>3, BootKeeps
<1> QED BY <1>1, <1>2

\* Every step keeps the inductive invariant.
LEMMA NextKeeps == IInv /\ [Next]_vars => IInv'
<1> SUFFICES ASSUME IInv, [Next]_vars PROVE IInv'
    OBVIOUS
<1>1. ASSUME NEW r \in Requests, Serve(r) PROVE IInv'
  BY <1>1, ServeKeeps
<1>2. ASSUME NEW r \in Requests, BuildFails(r) \/ \E force \in BOOLEAN : Build(r, force)
      PROVE IInv'
  BY <1>2, BuildKeeps
<1>3. ASSUME NEW r \in Requests, Publish(r) PROVE IInv'
  BY <1>3, PublishKeeps
<1>4. ASSUME NEW r \in Requests, Outdated(r) PROVE IInv'
  BY <1>4, OutdatedKeeps
<1>5. CASE Expire
  BY <1>5, QuietKeeps DEF Expire, IInv, TypeOK, Begun, OneRefresh, generation
<1>6. ASSUME NEW g \in Generations, RefreshSucceeds(g) \/ RefreshFails(g) PROVE IInv'
  BY <1>6, RefreshSucceedsKeeps, RefreshFailsKeeps
<1>7. CASE PrimeBegins \/ PrimeEnds
  BY <1>7, PrimeKeeps
<1>8. ASSUME NEW d \in Dbs, Reload(d) PROVE IInv'
  BY <1>8, ReloadKeeps
<1>9. CASE Restart \/ RestartInWrite
  BY <1>9, RestartKeeps
<1>10. CASE UNCHANGED vars
  BY <1>10, QuietKeeps DEF vars, scopeCache, IInv, TypeOK, Begun, OneRefresh, generation
<1>11. CASE ReadsChange
  BY <1>11, QuietKeeps DEF ReadsChange, scopeCache, IInv, TypeOK, Begun, OneRefresh,
                          generation
<1> QED BY <1>1, <1>2, <1>3, <1>4, <1>5, <1>6, <1>7, <1>8, <1>9, <1>10, <1>11
        DEF Next, Work

LEMMA Inductive == Spec => []IInv
BY InitIInv, NextKeeps, PTL DEF Spec

\* Every variable of the catalog keeps its type.
THEOREM TypeCorrect == Spec => []TypeOK
<1>1. IInv => TypeOK
  BY DEF IInv
<1> QED BY <1>1, Inductive, PTL

\* The catalog in memory and each on disk are of their own database, through
\* any number of reloads, builds in flight and restarts.
THEOREM CatalogIsOfItsDatabase == Spec => []CatalogOfItsDatabase
<1>1. IInv => CatalogOfItsDatabase
  BY DEF IInv
<1> QED BY <1>1, Inductive, PTL

\* Exactly one thread refreshes for the present database while the flag is set,
\* and none while it is not.
THEOREM RefreshIsOne == Spec => []OneRefresh
<1>1. IInv => OneRefresh
  BY DEF IInv
<1> QED BY <1>1, Inductive, PTL

\* No order of endings replaces a verified file that can be read by an
\* unverified one.
THEOREM VerifiedStays == Spec => DiskKeepsVerified
<1> DEFINE Keeps == \A d \in Dbs : readable /\ disk[d] # None /\ disk[d].verified =>
                                     disk'[d] = None \/ disk'[d].verified
<1>1. IInv /\ [Next]_vars => [Keeps]_vars
  <2> SUFFICES ASSUME IInv, [Next]_vars PROVE Keeps
      OBVIOUS
  <2>1. ASSUME UNCHANGED disk PROVE Keeps
    BY <2>1
  <2>2. ASSUME NEW r \in Requests, Publish(r) PROVE Keeps
    <3> DEFINE built == [db |-> served[requests[r].gen + 1], verified |-> requests[r].force]
    <3>1. built \in Catalogs /\ built.db = db /\ Persist(built)
      BY <2>2, ServedFacts DEF IInv, TypeOK, Publish, Current, Catalogs
    <3> QED BY <3>1, PersistFacts DEF IInv
  <2>3. ASSUME NEW g \in Generations, RefreshSucceeds(g) PROVE Keeps
    <3> DEFINE built == [db |-> served[g + 1], verified |-> TRUE]
    <3>1. CASE Current(g)
      <4>1. built \in Catalogs /\ built.db = db /\ Persist(built)
        BY <2>3, <3>1, ServedFacts DEF IInv, RefreshSucceeds, Current, Catalogs
      <4> QED BY <4>1, PersistFacts DEF IInv
    <3>2. CASE ~Current(g)
      BY <2>1, <2>3, <3>2 DEF RefreshSucceeds
    <3> QED BY <3>1, <3>2
  <2>4. CASE PrimeEnds
    <3> DEFINE built == [db |-> served[1], verified |-> FALSE]
    <3>1. CASE Current(0) /\ Persist(built)
      <4>1. built \in Catalogs /\ built.db = db
        BY <3>1, ServedFacts DEF IInv, Current, Catalogs
      <4> QED BY <3>1, <4>1, PersistFacts DEF IInv
    <3> QED BY <2>1, <2>4, <3>1 DEF PrimeEnds
  <2>5. CASE Restart
    BY <2>1, <2>5 DEF Restart, Boot
  <2>6. CASE RestartInWrite
    <3>1. disk' = [disk EXCEPT ![db] = None]
      BY <2>6 DEF RestartInWrite, Boot
    <3> QED BY <3>1 DEF IInv, TypeOK
  <2> QED BY <2>1, <2>2, <2>3, <2>4, <2>5, <2>6
          DEF Next, Work, vars, Serve, BuildFails, Build, Outdated, Expire, RefreshFails,
              PrimeBegins, ReadsChange, Reload
<1> QED BY <1>1, Inductive, PTL DEF Spec, DiskKeepsVerified

-----------------------------------------------------------------------------
(* What a person may see.                                                   *)

\* Attempts are numbered once: no two lookups share one.
Numbered ==
  /\ \A u \in Users : latest[u] <= sequence
  /\ \A c \in Callers :
       /\ calls[c].attempt <= sequence
       /\ calls[c].attempt = 0 => calls[c].read = NoVersion
  /\ \A c, d \in Callers :
       calls[c].attempt # 0 /\ calls[c].attempt = calls[d].attempt => c = d

\* What a lookup read was granted no earlier than when the lookup began.
ReadInTime ==
  \A c \in Callers :
    LET q == calls[c]
    IN q.attempt # 0 =>
         /\ q.start <= now
         /\ q.read # NoVersion =>
              /\ q.read <= grants[q.user]
              /\ q.read # grants[q.user] => q.start <= since[q.user]

\* A cached version expires within Ttl, one that was replaced within Ttl of
\* that moment.
CachedInTime ==
  \A u \in Users :
    /\ since[u] <= now
    /\ cache[u].version # NoVersion =>
         /\ cache[u].version <= grants[u]
         /\ cache[u].expires <= now + Ttl
         /\ cache[u].version # grants[u] => cache[u].expires <= since[u] + Ttl

\* The lookup that may still publish began after the last that did, and after
\* the last invalidation, so it reads nothing older.
LastReadsNewest ==
  /\ \A u \in Users : newest[u] <= grants[u] /\ floor[u] <= grants[u]
  /\ \A c \in Callers :
       LET q == calls[c]
       IN q.attempt # 0 /\ q.read # NoVersion /\ latest[q.user] = q.attempt =>
            q.read >= newest[q.user] /\ q.read >= floor[q.user]

AccessInv ==
  /\ AccessTypeOK /\ Numbered /\ ReadInTime /\ CachedInTime /\ LastReadsNewest
  /\ NeverOlder /\ InvalidationHolds

\* The initial states satisfy the inductive invariant.
LEMMA AccessInitInv == AccessInit => AccessInv
<1> SUFFICES ASSUME AccessInit PROVE AccessInv
    OBVIOUS
<1> USE AccessConstants
<1>1. AccessTypeOK
  BY DEF AccessInit, AccessTypeOK, Empty, NoCall, Versions, NoVersion
<1>2. Numbered
  BY DEF AccessInit, Numbered, NoCall, NoVersion
<1>3. ReadInTime /\ CachedInTime /\ LastReadsNewest
  BY DEF AccessInit, ReadInTime, CachedInTime, LastReadsNewest, NoCall, Empty,
         NoVersion
<1>4. NeverOlder /\ InvalidationHolds
  BY DEF AccessInit, NeverOlder, InvalidationHolds, Empty
<1> QED BY <1>1, <1>2, <1>3, <1>4 DEF AccessInv

\* A lookup that begins takes a new number, has read nothing, and is the last.
LEMMA BeginKeeps ==
  ASSUME AccessInv, NEW c \in Callers, NEW u \in Users, Begin(c, u)
  PROVE  AccessInv'
<1> USE AccessConstants DEF Begin, world
<1>1. AccessTypeOK'
  BY DEF AccessInv, AccessTypeOK, Versions, NoVersion
<1>2. \A d \in Callers : d # c => calls'[d] = calls[d]
  BY DEF AccessInv, AccessTypeOK
<1>3. calls'[c] = [user |-> u, start |-> now, generation |-> cacheGeneration,
                   attempt |-> sequence + 1, read |-> NoVersion]
  BY DEF AccessInv, AccessTypeOK
<1>4. Numbered'
  BY <1>1, <1>2, <1>3 DEF AccessInv, Numbered, AccessTypeOK
<1>5. ReadInTime'
  BY <1>2, <1>3 DEF AccessInv, ReadInTime, AccessTypeOK
<1>6. LastReadsNewest'
  BY <1>2, <1>3 DEF AccessInv, LastReadsNewest, AccessTypeOK, Numbered
<1>7. CachedInTime' /\ NeverOlder' /\ InvalidationHolds'
  BY DEF AccessInv, CachedInTime, NeverOlder, InvalidationHolds
<1> QED BY <1>1, <1>4, <1>5, <1>6, <1>7 DEF AccessInv

\* What is read is the present version, which is the newest there is.
LEMMA ReadKeeps ==
  ASSUME AccessInv, NEW c \in Callers, Read(c)
  PROVE  AccessInv'
<1> USE AccessConstants DEF Read, world
<1>1. AccessTypeOK'
  BY DEF AccessInv, AccessTypeOK, Versions
<1>2. \A d \in Callers : d # c => calls'[d] = calls[d]
  BY DEF AccessInv, AccessTypeOK
<1>3. calls'[c] = [calls[c] EXCEPT !.read = grants[calls[c].user]]
  BY DEF AccessInv, AccessTypeOK
<1>4. Numbered'
  BY <1>2, <1>3 DEF AccessInv, Numbered, AccessTypeOK
<1>5. ReadInTime'
  BY <1>2, <1>3 DEF AccessInv, ReadInTime, AccessTypeOK
<1>6. LastReadsNewest'
  BY <1>2, <1>3 DEF AccessInv, LastReadsNewest, AccessTypeOK
<1>7. CachedInTime' /\ NeverOlder' /\ InvalidationHolds'
  BY DEF AccessInv, CachedInTime, NeverOlder, InvalidationHolds
<1> QED BY <1>1, <1>4, <1>5, <1>6, <1>7 DEF AccessInv

\* A lookup that ends leaves the register to the others, and fills the cache
\* only where it is the last: then nobody else may publish for this user.
LEMMA ReturnKeeps ==
  ASSUME AccessInv, NEW c \in Callers, Return(c)
  PROVE  AccessInv'
<1> DEFINE u == calls[c].user
           v == calls[c].read
<1> USE AccessConstants DEF world
<1>1. /\ u \in Users /\ v \in Nat /\ calls[c].attempt # 0
      /\ calls[c].attempt \in Nat /\ calls[c].start \in Nat
  BY DEF AccessInv, AccessTypeOK, Numbered, Versions, Return, NoVersion
<1>2. /\ \A d \in Callers : d # c => calls'[d] = calls[d]
      /\ calls'[c] = NoCall(u)
  BY DEF AccessInv, AccessTypeOK, Return
<1>3. \A w \in Users : latest'[w] = latest[w] \/ latest'[w] = 0
  BY DEF AccessInv, AccessTypeOK, Return, Settled
<1>4. latest' \in [Users -> Nat]
  BY <1>3 DEF AccessInv, AccessTypeOK, Return, Settled
<1>5. Numbered'
  <2>1. sequence' = sequence /\ sequence \in Nat
    BY DEF Return, AccessInv, AccessTypeOK
  <2>2. \A w \in Users : latest'[w] <= sequence'
    BY <1>3, <2>1 DEF AccessInv, Numbered, AccessTypeOK
  <2> QED BY <1>2, <2>1, <2>2 DEF AccessInv, Numbered, NoCall
<1>6. ReadInTime'
  BY <1>2 DEF AccessInv, ReadInTime, NoCall, Return
<1>7. calls' \in [Callers -> [user : Users, start : Nat, generation : Nat,
                              attempt : Nat, read : Versions]]
  BY <1>1 DEF AccessInv, AccessTypeOK, Return, NoCall, Versions
<1>8. CASE MayPublish(c)
  <2>1. /\ cache' = [cache EXCEPT ![u] =
                       [version |-> v, expires |-> calls[c].start + Ttl]]
        /\ newest' = [newest EXCEPT ![u] = IF v > @ THEN v ELSE @]
        /\ latest[u] = calls[c].attempt
    BY <1>8 DEF Return, MayPublish, Until
  <2>2. v >= newest[u] /\ v >= floor[u] /\ v <= grants[u]
    BY <1>1, <2>1 DEF AccessInv, LastReadsNewest, ReadInTime, NoVersion
  <2>3. newest[u] \in Versions
    BY <1>1 DEF AccessInv, AccessTypeOK
  <2>4. /\ newest'[u] = v /\ cache'[u].version = v
        /\ cache'[u].expires = calls[c].start + Ttl
        /\ \A w \in Users : w # u => newest'[w] = newest[w] /\ cache'[w] = cache[w]
    <3>1. v > newest[u] \/ v = newest[u]
      BY <1>1, <2>2, <2>3 DEF Versions, NoVersion
    <3> QED BY <1>1, <2>1, <3>1 DEF AccessInv, AccessTypeOK
  <2>5. AccessTypeOK'
    <3>1. cache' \in [Users -> [version : Versions, expires : Int]]
      BY <1>1, <2>1 DEF AccessInv, AccessTypeOK, Versions
    <3>2. newest' \in [Users -> Versions]
      BY <1>1, <2>1 DEF AccessInv, AccessTypeOK, Versions
    <3> QED BY <1>4, <1>7, <3>1, <3>2 DEF AccessInv, AccessTypeOK, Return
  <2>6. CachedInTime'
    <3>1. v # grants[u] => calls[c].start <= since[u]
      BY <1>1 DEF AccessInv, ReadInTime, NoVersion
    <3>2. v # grants[u] => calls[c].start + Ttl <= since[u] + Ttl
      BY <1>1, <3>1 DEF AccessInv, AccessTypeOK
    <3>3. calls[c].start + Ttl <= now + Ttl
      BY <1>1 DEF AccessInv, ReadInTime, AccessTypeOK
    <3> QED BY <2>2, <2>4, <3>2, <3>3 DEF AccessInv, CachedInTime, Return
  <2>7. LastReadsNewest'
    <3>1. latest'[u] = 0
      BY <1>1, <2>1 DEF Return, Settled, AccessInv, AccessTypeOK
    <3>2. \A w \in Users : newest'[w] <= grants[w] /\ floor[w] <= grants[w]
      BY <2>2, <2>4 DEF AccessInv, LastReadsNewest
    <3>3. ASSUME NEW d \in Callers, calls'[d].attempt # 0,
                 calls'[d].read # NoVersion,
                 latest'[calls'[d].user] = calls'[d].attempt
          PROVE  /\ calls'[d].read >= newest'[calls'[d].user]
                 /\ calls'[d].read >= floor[calls'[d].user]
      <4>1. d # c /\ calls'[d] = calls[d]
        BY <1>2, <3>3 DEF NoCall
      <4>2. calls[d].user \in Users /\ calls[d].user # u
        BY <3>1, <3>3, <4>1 DEF AccessInv, AccessTypeOK
      <4>3. latest'[calls[d].user] = latest[calls[d].user]
        BY <1>3, <3>3, <4>1, <4>2
      <4> QED BY <2>4, <3>3, <4>1, <4>2, <4>3 DEF AccessInv, LastReadsNewest
    <3> QED BY <3>2, <3>3 DEF LastReadsNewest, Return
  <2>8. NeverOlder' /\ InvalidationHolds'
    BY <2>2, <2>4 DEF AccessInv, NeverOlder, InvalidationHolds, Return
  <2> QED BY <1>5, <1>6, <2>5, <2>6, <2>7, <2>8 DEF AccessInv
<1>9. CASE ~MayPublish(c)
  <2>1. cache' = cache /\ newest' = newest
    BY <1>9 DEF Return
  <2>2. AccessTypeOK'
    BY <1>4, <1>7, <2>1 DEF AccessInv, AccessTypeOK, Return
  <2>3. CachedInTime' /\ NeverOlder' /\ InvalidationHolds'
    BY <2>1 DEF AccessInv, CachedInTime, NeverOlder, InvalidationHolds, Return
  <2>4. LastReadsNewest'
    BY <1>2, <1>3, <2>1
       DEF AccessInv, LastReadsNewest, NoCall, Return, AccessTypeOK
  <2> QED BY <1>5, <1>6, <2>2, <2>3, <2>4 DEF AccessInv
<1> QED BY <1>8, <1>9

\* A lookup that fails only leaves the register.
LEMMA FailKeeps ==
  ASSUME AccessInv, NEW c \in Callers, Fail(c)
  PROVE  AccessInv'
<1> USE AccessConstants DEF world
<1>1. calls[c].user \in Users
  BY DEF AccessInv, AccessTypeOK
<1>2. /\ \A d \in Callers : d # c => calls'[d] = calls[d]
      /\ calls'[c] = NoCall(calls[c].user)
  BY DEF AccessInv, AccessTypeOK, Fail
<1>3. \A w \in Users : latest'[w] = latest[w] \/ latest'[w] = 0
  BY DEF AccessInv, AccessTypeOK, Fail, Settled
<1>4. AccessTypeOK'
  <2>1. latest' \in [Users -> Nat]
    BY <1>3 DEF AccessInv, AccessTypeOK, Fail, Settled
  <2>2. calls' \in [Callers -> [user : Users, start : Nat, generation : Nat,
                                attempt : Nat, read : Versions]]
    BY <1>1 DEF AccessInv, AccessTypeOK, Fail, NoCall, Versions
  <2> QED BY <2>1, <2>2 DEF AccessInv, AccessTypeOK, Fail
<1>5. Numbered'
  <2>1. sequence' = sequence /\ sequence \in Nat
    BY DEF Fail, AccessInv, AccessTypeOK
  <2>2. \A w \in Users : latest'[w] <= sequence'
    BY <1>3, <2>1 DEF AccessInv, Numbered, AccessTypeOK
  <2> QED BY <1>2, <2>1, <2>2 DEF AccessInv, Numbered, NoCall
<1>6. ReadInTime'
  BY <1>2 DEF AccessInv, ReadInTime, NoCall, Fail
<1>7. LastReadsNewest'
  BY <1>2, <1>3 DEF AccessInv, LastReadsNewest, NoCall, Fail, AccessTypeOK
<1>8. CachedInTime' /\ NeverOlder' /\ InvalidationHolds'
  BY DEF AccessInv, CachedInTime, NeverOlder, InvalidationHolds, Fail
<1> QED BY <1>4, <1>5, <1>6, <1>7, <1>8 DEF AccessInv

\* After an invalidation no lookup that runs may publish.
LEMMA InvalidateKeeps ==
  ASSUME AccessInv, NEW who \in SUBSET Users, Invalidate(who)
  PROVE  AccessInv'
<1> USE AccessConstants DEF world, Invalidate
<1>1. AccessTypeOK'
  BY DEF AccessInv, AccessTypeOK, Empty, Versions, NoVersion
<1>2. Numbered'
  BY DEF AccessInv, Numbered, AccessTypeOK
<1>3. ReadInTime'
  BY DEF AccessInv, ReadInTime
<1>4. CachedInTime'
  BY DEF AccessInv, CachedInTime, Empty
<1>5. LastReadsNewest'
  <2>1. \A u \in Users : newest'[u] <= grants'[u] /\ floor'[u] <= grants'[u]
    BY DEF AccessInv, LastReadsNewest, AccessTypeOK
  <2>2. \A c \in Callers : calls'[c].attempt # 0 =>
                             latest'[calls'[c].user] # calls'[c].attempt
    BY DEF AccessInv, AccessTypeOK
  <2> QED BY <2>1, <2>2 DEF LastReadsNewest
<1>6. NeverOlder' /\ InvalidationHolds'
  BY DEF AccessInv, NeverOlder, InvalidationHolds, Empty
<1> QED BY <1>1, <1>2, <1>3, <1>4, <1>5, <1>6 DEF AccessInv

\* A change makes the versions read before it old as of now.
LEMMA ChangeKeeps ==
  ASSUME AccessInv, NEW u \in Users, Change(u)
  PROVE  AccessInv'
<1> USE AccessConstants DEF Change
<1>1. AccessTypeOK'
  BY DEF AccessInv, AccessTypeOK
<1>2. Numbered' /\ NeverOlder' /\ InvalidationHolds'
  BY DEF AccessInv, Numbered, NeverOlder, InvalidationHolds
<1>3. \A w \in Users : /\ grants[w] <= grants'[w]
                       /\ w # u => grants'[w] = grants[w] /\ since'[w] = since[w]
  BY DEF AccessInv, AccessTypeOK
<1>4. grants'[u] = grants[u] + 1 /\ since'[u] = now
  BY DEF AccessInv, AccessTypeOK
<1>5. ReadInTime'
  BY <1>3, <1>4 DEF AccessInv, ReadInTime, AccessTypeOK, Versions
<1>6. CachedInTime'
  <2>1. ASSUME NEW w \in Users, cache[w].version # NoVersion
        PROVE  /\ cache[w].version <= grants'[w]
               /\ cache[w].expires <= now + Ttl
               /\ cache[w].version # grants'[w] =>
                    cache[w].expires <= since'[w] + Ttl
    <3>1. CASE w # u
      BY <1>3, <2>1, <3>1 DEF AccessInv, CachedInTime
    <3>2. CASE w = u
      <4>1. /\ cache[u].version \in Int /\ grants[u] \in Nat /\ since[u] \in Nat
            /\ now \in Nat /\ cache[u].expires \in Int
        BY DEF AccessInv, AccessTypeOK, Versions, NoVersion
      <4>2. cache[u].version <= grants[u] /\ since[u] <= now
        BY <2>1, <3>2 DEF AccessInv, CachedInTime
      <4>3. cache[u].expires <= now + Ttl
        BY <2>1, <3>2 DEF AccessInv, CachedInTime
      <4> QED BY <1>4, <3>2, <4>1, <4>2, <4>3
    <3> QED BY <3>1, <3>2
  <2> QED BY <1>3, <1>4, <2>1 DEF AccessInv, CachedInTime, AccessTypeOK
<1>7. LastReadsNewest'
  BY <1>3 DEF AccessInv, LastReadsNewest, AccessTypeOK, Versions, NoVersion
<1> QED BY <1>1, <1>2, <1>5, <1>6, <1>7 DEF AccessInv

\* Time alone takes nothing back.
LEMMA TickKeeps ==
  ASSUME AccessInv, Tick
  PROVE  AccessInv'
<1> USE AccessConstants DEF Tick
<1>1. AccessTypeOK'
  BY DEF AccessInv, AccessTypeOK
<1>2. ReadInTime' /\ CachedInTime'
  <2>1. now \in Nat /\ now' = now + 1
    BY DEF AccessInv, AccessTypeOK
  <2>2. ReadInTime'
    BY <2>1 DEF AccessInv, ReadInTime, AccessTypeOK
  <2>3. CachedInTime'
    BY <2>1 DEF AccessInv, CachedInTime, AccessTypeOK
  <2> QED BY <2>2, <2>3
<1>3. Numbered' /\ LastReadsNewest' /\ NeverOlder' /\ InvalidationHolds'
  BY DEF AccessInv, Numbered, LastReadsNewest, NeverOlder, InvalidationHolds
<1> QED BY <1>1, <1>2, <1>3 DEF AccessInv

\* Nothing changes.
LEMMA StutterKeeps ==
  ASSUME AccessInv, UNCHANGED accessVars
  PROVE  AccessInv'
BY DEF AccessInv, AccessTypeOK, Numbered, ReadInTime, CachedInTime,
       LastReadsNewest, NeverOlder, InvalidationHolds, accessVars, world

\* The invariant is inductive.
LEMMA AccessNextKeeps == AccessInv /\ [AccessNext]_accessVars => AccessInv'
<1> SUFFICES ASSUME AccessInv, [AccessNext]_accessVars PROVE AccessInv'
    OBVIOUS
<1>1. CASE \E c \in Callers, u \in Users : Begin(c, u)
  BY <1>1, BeginKeeps
<1>2. CASE \E c \in Callers : Read(c) \/ Return(c) \/ Fail(c)
  BY <1>2, ReadKeeps, ReturnKeeps, FailKeeps
<1>3. CASE \E u \in Users : Invalidate({u})
  <2>1. PICK u \in Users : Invalidate({u})
    BY <1>3
  <2>2. {u} \in SUBSET Users
    OBVIOUS
  <2> QED BY <2>1, <2>2, InvalidateKeeps
<1>4. CASE Invalidate(Users)
  <2>1. Users \in SUBSET Users
    OBVIOUS
  <2> QED BY <1>4, <2>1, InvalidateKeeps
<1>5. CASE \E u \in Users : Change(u)
  BY <1>5, ChangeKeeps
<1>6. CASE Tick
  BY <1>6, TickKeeps
<1>7. CASE UNCHANGED accessVars
  BY <1>7, StutterKeeps
<1> QED BY <1>1, <1>2, <1>3, <1>4, <1>5, <1>6, <1>7 DEF AccessNext

\* The inductive invariant holds in every reachable state.
LEMMA AccessInductive == AccessSpec => []AccessInv
BY AccessInitInv, AccessNextKeeps, PTL DEF AccessSpec

\* Every variable keeps its type.
THEOREM AccessTypeCorrect == AccessSpec => []AccessTypeOK
<1>1. AccessInv => AccessTypeOK
  BY DEF AccessInv
<1> QED BY <1>1, AccessInductive, PTL

\* The cache never goes back to an older version, for any interleaving of any
\* number of lookups (access_for).
THEOREM CacheNeverOlder == AccessSpec => []NeverOlder
<1>1. AccessInv => NeverOlder
  BY DEF AccessInv
<1> QED BY <1>1, AccessInductive, PTL

\* Nothing read before an invalidation is remembered after it (invalidate).
THEOREM CacheInvalidationHolds == AccessSpec => []InvalidationHolds
<1>1. AccessInv => InvalidationHolds
  BY DEF AccessInv
<1> QED BY <1>1, AccessInductive, PTL

\* A change of the grants takes hold within Ttl, whatever a lookup took.
THEOREM GrantChangeTakesHold == AccessSpec => []ChangeTakesHold
<1>1. ASSUME AccessInv, NEW u \in Users, Remembered(u), now >= since[u] + Ttl
      PROVE  cache[u].version = grants[u]
  <2>1. /\ now \in Nat /\ since[u] \in Nat /\ Ttl \in Nat
        /\ cache[u].expires \in Int
    BY <1>1, AccessConstants DEF AccessInv, AccessTypeOK
  <2>2. cache[u].version # NoVersion /\ now < cache[u].expires
    BY <1>1 DEF Remembered
  <2>3. cache[u].version # grants[u] => cache[u].expires <= since[u] + Ttl
    BY <1>1, <2>2 DEF AccessInv, CachedInTime
  <2> QED BY <1>1, <2>1, <2>2, <2>3
<1>2. AccessInv => ChangeTakesHold
  BY <1>1 DEF ChangeTakesHold
<1> QED BY <1>2, AccessInductive, PTL
=============================================================================
