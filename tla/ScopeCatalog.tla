---------------------------- MODULE ScopeCatalog ----------------------------
(***************************************************************************)
(* pstb/gui/app.py: the catalog of financial scopes the whole process       *)
(* shares.  The first request builds it unverified, from the setup tables;  *)
(* past its time a request is served the old one and starts a thread that   *)
(* builds the verified one; a user who asks for it waits for that one.  It  *)
(* is kept on disk under a name made from the database, from which a        *)
(* restart starts.  The console may swap the database under all of them.    *)
(* A build reads the engine it captured together with the generation, so    *)
(* what it brings is told by the generation and by how it was asked for.    *)
(***************************************************************************)
EXTENDS Integers, Sequences, SequencesExt, TLC

CONSTANTS
  Dbs,        \* databases the configuration may name
  Requests,   \* threads that ask for the catalog
  MaxReloads, \* reloads in one life of the process
  None        \* no catalog, or a file that cannot be parsed

ASSUME CatalogConstants == Dbs # {} /\ MaxReloads \in Nat

VARIABLES
  served,     \* databases served since the boot: one more with every reload
  value,      \* _scope_cache["value"]
  fresh,      \* now < _scope_cache["expires"]
  refreshing, \* _scope_cache["refreshing"]
  threads,    \* how many refresh threads run, by the generation they captured
  prime,      \* the boot's thread: "due", "building", "done"
  requests,   \* each request: Idle or what it builds
  disk,       \* by database: the persisted catalog
  readable    \* the files can be read now (another program may hold them)

scopeCache == <<value, fresh, refreshing>>
vars == <<served, scopeCache, threads, prime, requests, disk, readable>>

generation == Len(served) - 1
db == Last(served)

Catalogs == [db : Dbs, verified : BOOLEAN]
Idle == [building |-> FALSE, force |-> FALSE, retry |-> FALSE, gen |-> 0]
Generations == 0..MaxReloads

TypeOK ==
  /\ Len(served) \in 1..(MaxReloads + 1) /\ served \in Seq(Dbs)
  /\ value \in Catalogs \cup {None} /\ fresh \in BOOLEAN /\ refreshing \in BOOLEAN
  /\ threads \in [Generations -> Nat]
  /\ prime \in {"due", "building", "done"}
  /\ requests \in [Requests ->
        [building : BOOLEAN, force : BOOLEAN, retry : BOOLEAN, gen : Generations]]
  /\ disk \in [Dbs -> Catalogs \cup {None}] /\ readable \in BOOLEAN

-----------------------------------------------------------------------------
\* mutant of Kept: the file is written whatever it holds
KeptNever(v) == FALSE

\* _load_persisted_scope_catalog
Loaded(files, d) == IF readable THEN files[d] ELSE None

\* An unverified catalog does not overwrite a verified one that can be read.
Kept(v) ==
  /\ ~v.verified
  /\ Loaded(disk, db) # None /\ disk[db].verified

\* _persist_scope_catalog; in silence the file may not open, which leaves what
\* there is, or the write may fail in a file that is emptied first.
Persist(v) ==
  \/ UNCHANGED disk
  \/ ~Kept(v) /\ \E left \in {v, None} : disk' = [disk EXCEPT ![db] = left]

\* The process starts on database d: nothing but the disk is left.
Boot(d, files) ==
  /\ served' = <<d>>
  /\ value' = Loaded(files, d)
  /\ fresh' = FALSE /\ refreshing' = FALSE
  /\ threads' = [g \in Generations |-> 0] /\ prime' = "due"
  /\ requests' = [r \in Requests |-> Idle]
  /\ disk' = files /\ UNCHANGED readable

Init ==
  /\ \E d \in Dbs : served = <<d>>
  /\ value = None /\ fresh = FALSE /\ refreshing = FALSE
  /\ threads = [g \in Generations |-> 0] /\ prime = "due"
  /\ requests = [r \in Requests |-> Idle]
  /\ disk = [d \in Dbs |-> None] /\ readable \in BOOLEAN

-----------------------------------------------------------------------------
(* A request: _financial_scope_catalog. *)

\* _refresh_scope_catalog_async, called under the lock by whoever set the flag
StartRefresh ==
  /\ refreshing' = TRUE
  /\ threads' = [threads EXCEPT ![generation] = @ + 1]

\* What there is answers at once; when it is stale a refresh is started.
Serve(r) ==
  /\ ~requests[r].building /\ value # None
  /\ IF ~fresh /\ ~refreshing THEN StartRefresh ELSE UNCHANGED <<refreshing, threads>>
  /\ UNCHANGED <<served, value, fresh, prime, requests, disk, readable>>

\* There is none, or the user asked to wait for the truth.
Build(r, force) ==
  /\ ~requests[r].building /\ (force \/ value = None)
  /\ requests' = [requests EXCEPT ![r] =
       [building |-> TRUE, force |-> force, retry |-> FALSE, gen |-> generation]]
  /\ UNCHANGED <<served, scopeCache, threads, prime, disk, readable>>

BuildFails(r) ==
  /\ requests[r].building
  /\ requests' = [requests EXCEPT ![r] = Idle]
  /\ UNCHANGED <<served, scopeCache, threads, prime, disk, readable>>

\* mutant of Current: whatever was built is taken
CurrentAlways(g) == TRUE

\* The database is the one that was asked.
Current(g) == g = generation

\* The build is published under the lock it is checked under; an unverified
\* one is stale at once and is followed by a refresh.
Publish(r) ==
  LET q == requests[r]
      built == [db |-> served[q.gen + 1], verified |-> q.force]
  IN /\ q.building /\ Current(q.gen)
     /\ value' = built /\ fresh' = q.force
     /\ Persist(built)
     /\ IF ~q.force /\ ~refreshing THEN StartRefresh
        ELSE UNCHANGED <<refreshing, threads>>
     /\ requests' = [requests EXCEPT ![r] = Idle]
     /\ UNCHANGED <<served, prime, readable>>

\* The database was swapped meanwhile: the first time the request goes back
\* to the top of the loop, the second time it is answered 503.
Outdated(r) ==
  LET q == requests[r]
  IN /\ q.building /\ ~Current(q.gen)
     /\ \/ /\ ~q.retry /\ (q.force \/ value = None)
           /\ requests' = [requests EXCEPT ![r] =
                             [q EXCEPT !.retry = TRUE, !.gen = generation]]
           /\ UNCHANGED <<refreshing, threads>>
        \/ /\ ~q.retry /\ ~q.force /\ value # None
           /\ requests' = [requests EXCEPT ![r] = Idle]
           /\ IF ~fresh /\ ~refreshing THEN StartRefresh
              ELSE UNCHANGED <<refreshing, threads>>
        \/ /\ q.retry
           /\ requests' = [requests EXCEPT ![r] = Idle]
           /\ UNCHANGED <<refreshing, threads>>
     /\ UNCHANGED <<served, value, fresh, prime, disk, readable>>

Expire ==
  /\ fresh /\ fresh' = FALSE
  /\ UNCHANGED <<served, value, refreshing, threads, prime, requests, disk,
                 readable>>

-----------------------------------------------------------------------------
(* The threads. *)

RefreshSucceeds(g) ==
  /\ threads[g] > 0
  /\ threads' = [threads EXCEPT ![g] = @ - 1]
  /\ IF Current(g)
     THEN LET built == [db |-> served[g + 1], verified |-> TRUE]
          IN value' = built /\ fresh' = TRUE /\ refreshing' = FALSE /\ Persist(built)
     ELSE UNCHANGED <<scopeCache, disk>>
  /\ UNCHANGED <<served, prime, requests, readable>>

\* mutant of RefreshFails: the failure is only printed
RefreshFailsQuietly(g) ==
  /\ threads[g] > 0
  /\ threads' = [threads EXCEPT ![g] = @ - 1]
  /\ UNCHANGED <<served, scopeCache, prime, requests, disk, readable>>

\* mutant of RefreshFails: a thread of a replaced database clears the flag
RefreshFailsAnyway(g) ==
  /\ threads[g] > 0
  /\ threads' = [threads EXCEPT ![g] = @ - 1]
  /\ refreshing' = FALSE
  /\ UNCHANGED <<served, value, fresh, prime, requests, disk, readable>>

RefreshFails(g) ==
  /\ threads[g] > 0
  /\ threads' = [threads EXCEPT ![g] = @ - 1]
  /\ refreshing' = (refreshing /\ ~Current(g))
  /\ UNCHANGED <<served, value, fresh, prime, requests, disk, readable>>

\* _prime_scope_catalog: the boot's thread, which has generation 0, looks
\* whether there is a catalog and builds an unverified one if there is none.
PrimeBegins ==
  /\ prime = "due"
  /\ prime' = IF value = None THEN "building" ELSE "done"
  /\ UNCHANGED <<served, scopeCache, threads, requests, disk, readable>>

\* It is adopted only where there is still none, and may be of no use.
PrimeEnds ==
  /\ prime = "building" /\ prime' = "done"
  /\ LET built == [db |-> served[1], verified |-> FALSE]
     IN \/ /\ Current(0) /\ value = None
           /\ value' = built /\ fresh' = FALSE /\ UNCHANGED refreshing
           /\ Persist(built)
        \/ UNCHANGED <<scopeCache, disk>>
  /\ UNCHANGED <<served, threads, requests, readable>>

-----------------------------------------------------------------------------
\* external: the files cannot be read, or can be again
ReadsChange ==
  /\ readable' = ~readable
  /\ UNCHANGED <<served, scopeCache, threads, prime, requests, disk>>

\* _console_reload, where it succeeds
Reload(d) ==
  /\ generation < MaxReloads
  /\ served' = Append(served, d)
  /\ value' = None /\ fresh' = FALSE /\ refreshing' = FALSE
  /\ UNCHANGED <<threads, prime, requests, disk, readable>>

\* The process dies and is started again on its configuration.
Restart == Boot(db, disk)

\* It dies while it writes the file, which is then cut off.
RestartInWrite ==
  /\ \/ \E r \in Requests : /\ requests[r].building /\ Current(requests[r].gen)
                            /\ ~Kept([db |-> db, verified |-> requests[r].force])
     \/ \E g \in Generations : threads[g] > 0 /\ Current(g)
     \/ /\ prime = "building" /\ Current(0) /\ value = None
        /\ ~Kept([db |-> db, verified |-> FALSE])
  /\ Boot(db, [disk EXCEPT ![db] = None])

Work ==
  \/ \E r \in Requests :
       \/ Serve(r) \/ BuildFails(r) \/ Publish(r) \/ Outdated(r)
       \/ \E force \in BOOLEAN : Build(r, force)
  \/ Expire
  \/ \E g \in Generations : RefreshSucceeds(g) \/ RefreshFails(g)
  \/ PrimeBegins \/ PrimeEnds
  \/ \E d \in Dbs : Reload(d)

Next == Work \/ ReadsChange \/ Restart \/ RestartInWrite

\* A thread ends: its queries have a time limit.
Fairness == \A g \in Generations : WF_vars(RefreshSucceeds(g) \/ RefreshFails(g))

Spec == Init /\ [][Next]_vars /\ Fairness

-----------------------------------------------------------------------------
(* Properties. *)

\* The catalog in memory, and each on disk, is of the database it stands for,
\* through reloads during a build, a refresh or the boot's thread.
CatalogOfItsDatabase ==
  /\ value # None => value.db = db
  /\ \A d \in Dbs : disk[d] # None => disk[d].db = d

\* One thread refreshes the catalog of the database that is served exactly
\* while the flag says so, however many threads of earlier ones still run.
OneRefresh == threads[generation] = IF refreshing THEN 1 ELSE 0

\* A verified catalog on disk that can be read is never replaced by an
\* unverified one; only a write that fails or is cut off can lose it.
DiskKeepsVerified ==
  [][\A d \in Dbs :
       readable /\ disk[d] # None /\ disk[d].verified =>
         disk'[d] = None \/ disk'[d].verified]_vars

\* The flag that keeps other requests from refreshing does not stay set.
RefreshEnds == refreshing ~> ~refreshing
=============================================================================
