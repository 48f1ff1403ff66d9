------------------------- MODULE BatchExports_proofs -------------------------
(***************************************************************************)
(* Proofs about BatchExports, for any number of jobs, callers and workers   *)
(* and any times.                                                           *)
(***************************************************************************)
EXTENDS BatchExports, TLAPS

In(j, s) == jobs[j] # None /\ jobs[j].state = s

\* What a job's state says of its worker and its files.
StagesAgree ==
  \A j \in Jobs :
    /\ In(j, "running") <=> work[j] # "none"
    /\ In(j, "queued") => files[j] = {}
    /\ In(j, "ready") \/ work[j] = "ready" => files[j] = {"final"}

\* The pool's queue holds accepted jobs, each once.
QueueAgrees ==
  \A i \in DOMAIN queue :
    /\ In(queue[i], "queued")
    /\ \A k \in DOMAIN queue : queue[i] = queue[k] => i = k

\* A job on its way to the pool is on nobody else's.
PendingAgrees ==
  \A t \in Threads : threads[t].at = "pool" =>
    /\ threads[t].job \in Jobs /\ In(threads[t].job, "queued")
    /\ \A i \in DOMAIN queue : queue[i] # threads[t].job
    /\ \A u \in Threads : threads[u].at = "pool" /\ threads[u].job = threads[t].job => t = u

\* What a thread is about to delete has left the table.
DoomedGone ==
  \A t \in Threads : \A j \in threads[t].doomed :
    threads[t].at = "delete" /\ jobs[j] = None

\* A file that was handed out expires no sooner than its reader may need it.
HeldInTime ==
  \A j \in Jobs : held[j] > 0 => In(j, "ready") /\ held[j] <= jobs[j].left

IInv ==
  /\ TypeOK /\ StagesAgree /\ QueueAgrees /\ PendingAgrees /\ DoomedGone
  /\ HeldInTime /\ NoOrphan

LEMMA RestingTyped == Resting \in Doings
BY DEF Resting, Doings

\* Deleting removes files of the given tokens only, and what it leaves of them
\* is known to have been refused.
LEMMA UnlinkFacts ==
  ASSUME TypeOK, NEW tokens \in SUBSET Jobs, Unlink(tokens)
  PROVE  /\ files' \in [Jobs -> SUBSET Kinds] /\ refused' \subseteq Jobs
         /\ \A j \in Jobs : j \notin tokens => files'[j] = files[j]
         /\ \A j \in Jobs : files[j] = {} => files'[j] = {}
         /\ \A j \in tokens : files'[j] # {} => j \in refused'
         /\ \A j \in refused : files'[j] # {} => j \in refused'
BY DEF TypeOK, Unlink

\* A manager that has just begun, or is gone, has no jobs.
LEMMA FreshFacts ==
  ASSUME Fresh, up' \in BOOLEAN, files' \in [Jobs -> SUBSET Kinds],
         refused' \subseteq Jobs,
         up' => \A j \in Jobs : files'[j] # {} => j \in refused'
  PROVE  IInv'
<1> USE ExportConstants
<1>1. TypeOK'
  <2>1. queue' \in Seq(Jobs)
    BY DEF Fresh
  <2>2. threads' \in [Threads -> Doings]
    BY RestingTyped DEF Fresh
  <2>3. up' \in BOOLEAN /\ closed' \in BOOLEAN /\ shut' \in BOOLEAN
    BY DEF Fresh
  <2>4. jobs' \in [Jobs -> Entries \cup {None}] /\ held' \in [Jobs -> 0..Hold]
    BY DEF Fresh, NotHeld
  <2>5. /\ work' \in [Jobs -> {"none", "produce", "rename", "ready", "fail"}]
        /\ files' \in [Jobs -> SUBSET Kinds]
    BY DEF Fresh
  <2> QED BY <2>1, <2>2, <2>3, <2>4, <2>5 DEF TypeOK
<1>2. StagesAgree' /\ QueueAgrees'
  BY DEF Fresh, StagesAgree, QueueAgrees, In
<1>3. PendingAgrees' /\ DoomedGone'
  BY DEF Fresh, PendingAgrees, DoomedGone, Resting
<1>4. HeldInTime'
  BY DEF Fresh, HeldInTime, NotHeld
<1>5. NoOrphan'
  BY DEF NoOrphan
<1> QED BY <1>1, <1>2, <1>3, <1>4, <1>5 DEF IInv

LEMMA InitIInv == Init => IInv
<1> SUFFICES ASSUME Init PROVE IInv
    OBVIOUS
<1> USE ExportConstants
<1>1. TypeOK
  <2>1. queue \in Seq(Jobs)
    BY DEF Init
  <2>2. threads \in [Threads -> Doings]
    BY RestingTyped DEF Init
  <2>3. up \in BOOLEAN /\ closed \in BOOLEAN /\ shut \in BOOLEAN
    BY DEF Init
  <2>4. jobs \in [Jobs -> Entries \cup {None}] /\ held \in [Jobs -> 0..Hold]
    BY DEF Init, NotHeld
  <2>5. /\ work \in [Jobs -> {"none", "produce", "rename", "ready", "fail"}]
        /\ files \in [Jobs -> SUBSET Kinds] /\ refused \subseteq Jobs
    BY DEF Init
  <2> QED BY <2>1, <2>2, <2>3, <2>4, <2>5 DEF TypeOK
<1>2. StagesAgree /\ QueueAgrees
  BY DEF Init, StagesAgree, QueueAgrees, In
<1>3. PendingAgrees /\ DoomedGone
  BY DEF Init, PendingAgrees, DoomedGone, Resting
<1>4. HeldInTime /\ NoOrphan
  BY DEF Init, HeldInTime, NoOrphan, NotHeld
<1> QED BY <1>1, <1>2, <1>3, <1>4 DEF IInv

LEMMA DoomedJobs ==
  ASSUME TypeOK, NEW t \in Threads
  PROVE  threads[t] \in Doings /\ threads[t].doomed \subseteq Jobs
BY DEF TypeOK, Doings

\* A step of a thread that is not going to the pool leaves the others' way
\* there as it is.
LEMMA PendingKept ==
  ASSUME PendingAgrees, UNCHANGED queue, NEW t \in Threads,
         threads'[t].at # "pool", \A u \in Threads : u # t => threads'[u] = threads[u],
         \A i \in Jobs : In(i, "queued") => In(i, "queued")'
  PROVE  PendingAgrees'
<1> SUFFICES ASSUME NEW u \in Threads, threads'[u].at = "pool"
             PROVE  /\ threads'[u].job \in Jobs /\ In(threads[u].job, "queued")'
                    /\ threads'[u] = threads[u]
                    /\ \A i \in DOMAIN queue : queue[i] # threads[u].job
                    /\ \A v \in Threads : threads'[v].at = "pool"
                          /\ threads'[v].job = threads[u].job => u = v
    BY DEF PendingAgrees, In
<1>1. u # t /\ threads'[u] = threads[u]
  OBVIOUS
<1>2. /\ threads[u].job \in Jobs /\ In(threads[u].job, "queued")
      /\ \A i \in DOMAIN queue : queue[i] # threads[u].job
  BY <1>1 DEF PendingAgrees
<1>3. ASSUME NEW v \in Threads, threads'[v].at = "pool", threads'[v].job = threads[u].job
      PROVE  u = v
  BY <1>1, <1>3 DEF PendingAgrees
<1> QED BY <1>1, <1>2, <1>3

LEMMA CreateKeeps ==
  ASSUME IInv, Create \/ Crash
  PROVE  IInv'
<1>1. CASE Create
  BY <1>1, FreshFacts, UnlinkFacts DEF Create, IInv
<1>2. CASE Crash
  BY <1>2, FreshFacts DEF Crash, IInv, TypeOK
<1> QED BY <1>1, <1>2

LEMMA CloseKeeps ==
  ASSUME IInv, Close \/ Shutdown
  PROVE  IInv'
<1>1. /\ UNCHANGED <<up, jobs, work, files, threads, held, refused>>
      /\ closed' \in BOOLEAN /\ shut' \in BOOLEAN
      /\ queue' = queue \/ queue' = <<>>
  BY DEF Close, Shutdown, IInv, TypeOK
<1>2. TypeOK'
  <2>1. queue \in Seq(Jobs) /\ <<>> \in Seq(Jobs)
    BY DEF IInv, TypeOK
  <2>2. queue' \in Seq(Jobs)
    BY <1>1, <2>1
  <2> QED BY <1>1, <2>2 DEF IInv, TypeOK
<1>3. StagesAgree' /\ QueueAgrees' /\ PendingAgrees'
  BY <1>1 DEF IInv, StagesAgree, QueueAgrees, PendingAgrees, In
<1>4. DoomedGone' /\ HeldInTime' /\ NoOrphan'
  BY <1>1 DEF IInv, DoomedGone, HeldInTime, NoOrphan, In
<1> QED BY <1>2, <1>3, <1>4 DEF IInv

\* Time takes as much from a download as from the job it belongs to.
LEMMA TickKeeps ==
  ASSUME IInv, Tick
  PROVE  IInv'
<1> USE ExportConstants
<1>1. UNCHANGED <<up, closed, shut, queue, work, files, threads, refused>>
  BY DEF Tick
<1>2. ASSUME NEW j \in Jobs
      PROVE  /\ jobs[j] = None <=> jobs'[j] = None
             /\ jobs'[j] \in Entries \cup {None}
             /\ jobs[j] # None => /\ jobs'[j].state = jobs[j].state
                                  /\ jobs'[j].left = IF jobs[j].left = 0 THEN 0
                                                     ELSE jobs[j].left - 1
  <2>1. jobs[j] \in Entries \cup {None}
    BY DEF IInv, TypeOK
  <2>2. CASE jobs[j] = None
    BY <2>2 DEF Tick
  <2>3. CASE jobs[j] # None /\ jobs[j].left = 0
    BY <2>1, <2>3 DEF Tick
  <2>4. CASE jobs[j] # None /\ jobs[j].left # 0
    <3>1. jobs'[j] = [jobs[j] EXCEPT !.left = @ - 1]
      BY <2>4 DEF Tick
    <3>2. jobs'[j] \in Entries /\ jobs'[j].state = jobs[j].state
          /\ jobs'[j].left = jobs[j].left - 1
      BY <2>1, <2>4, <3>1 DEF Entries
    <3> QED BY <2>4, <3>2
  <2> QED BY <2>2, <2>3, <2>4
<1>3. ASSUME NEW j \in Jobs
      PROVE  held'[j] \in 0..Hold /\ (held'[j] > 0 => held[j] = held'[j] + 1)
  BY DEF Tick, IInv, TypeOK
<1>4. TypeOK'
  BY <1>1, <1>2, <1>3 DEF Tick, IInv, TypeOK
<1>5. \A j \in Jobs : \A s : In(j, s)' <=> In(j, s)
  BY <1>2 DEF In
<1>6. StagesAgree'
  BY <1>1, <1>5 DEF IInv, StagesAgree
<1>7. QueueAgrees' /\ PendingAgrees'
  BY <1>1, <1>5 DEF IInv, TypeOK, QueueAgrees, PendingAgrees
<1>8. DoomedGone' /\ NoOrphan'
  BY <1>1, <1>2 DEF IInv, TypeOK, Doings, DoomedGone, NoOrphan
<1>9. ASSUME NEW j \in Jobs, held'[j] > 0
      PROVE  In(j, "ready")' /\ held'[j] <= jobs'[j].left
  <2>1. held[j] = held'[j] + 1 /\ held'[j] \in Nat
    BY <1>3, <1>9
  <2>2. In(j, "ready") /\ held[j] <= jobs[j].left
    BY <2>1, <1>9 DEF IInv, HeldInTime
  <2>3. jobs[j].left \in Nat
    BY <2>2 DEF IInv, TypeOK, Entries, In
  <2>4. jobs'[j].left = jobs[j].left - 1
    BY <1>2, <1>9, <2>1, <2>2, <2>3 DEF In
  <2> QED BY <1>5, <2>1, <2>2, <2>3, <2>4
<1>10. HeldInTime'
  BY <1>9 DEF HeldInTime
<1> QED BY <1>4, <1>6, <1>7, <1>8, <1>10 DEF IInv

\* What cleanup takes out was done with and nobody is reading it.
LEMMA CleanUpKeeps ==
  ASSUME IInv, NEW t \in Threads, NEW op \in {"submit", "file", "status", "clean"},
         NEW j \in Jobs \cup {None}, CleanUp(t, op, j)
  PROVE  IInv'
<1> USE ExportConstants
<1> DEFINE new == [op |-> op, at |-> "delete", job |-> j, doomed |-> Expired]
<1>1. /\ UNCHANGED <<up, closed, shut, queue, work, files, held, refused>>
      /\ threads[t].at # "pool" /\ Expired \subseteq Jobs
      /\ new \in Doings
  BY DEF CleanUp, Doings, Expired
<1>2. /\ threads' \in [Threads -> Doings] /\ threads'[t] = new
      /\ \A u \in Threads : u # t => threads'[u] = threads[u]
  BY <1>1 DEF CleanUp, IInv, TypeOK
<1>3. \A i \in Jobs : jobs'[i] = IF i \in Expired THEN None ELSE jobs[i]
  BY DEF CleanUp
<1>4. TypeOK'
  BY <1>1, <1>2, <1>3 DEF CleanUp, IInv, TypeOK
<1>5. ASSUME NEW i \in Expired
      PROVE  /\ i \in Jobs /\ ~In(i, "queued") /\ ~In(i, "running") /\ work[i] = "none"
             /\ held[i] = 0 /\ jobs[i] # None
  <2>1. /\ i \in Jobs /\ jobs[i] # None /\ jobs[i].left = 0
        /\ ~In(i, "queued") /\ ~In(i, "running")
    BY DEF Expired, Active, In
  <2>2. work[i] = "none"
    BY <2>1 DEF IInv, StagesAgree
  <2>3. held[i] = 0
    <3>1. held[i] \in Nat
      BY <2>1 DEF IInv, TypeOK
    <3>2. ~(held[i] > 0)
      BY <2>1, <3>1 DEF IInv, HeldInTime
    <3> QED BY <3>1, <3>2
  <2> QED BY <2>1, <2>2, <2>3
<1>6. \A i \in Jobs, s \in {"queued", "running", "ready", "failed"} :
        In(i, s)' <=> In(i, s) /\ i \notin Expired
  BY <1>3 DEF In
<1>7. StagesAgree'
  BY <1>1, <1>5, <1>6 DEF IInv, StagesAgree
<1>8. QueueAgrees'
  <2>1. \A i \in DOMAIN queue : queue[i] \in Jobs
    BY DEF IInv, TypeOK
  <2> QED BY <1>1, <1>5, <1>6, <2>1 DEF IInv, QueueAgrees
<1>9. PendingAgrees'
  <2>1. threads'[t].at # "pool"
    BY <1>2
  <2>2. \A i \in Jobs : In(i, "queued") => In(i, "queued")'
    BY <1>5, <1>6
  <2> QED BY <1>1, <1>2, <2>1, <2>2, PendingKept DEF IInv
<1>10. DoomedGone'
  <2> SUFFICES ASSUME NEW u \in Threads, NEW i \in threads'[u].doomed
               PROVE  threads'[u].at = "delete" /\ jobs'[i] = None
      BY DEF DoomedGone
  <2>1. CASE u = t
    BY <1>1, <1>2, <1>3, <2>1
  <2>2. CASE u # t
    <3>1. threads'[u] = threads[u] /\ i \in Jobs
      BY <1>2, <2>2, DoomedJobs DEF IInv
    <3>2. threads[u].at = "delete" /\ jobs[i] = None
      BY <3>1 DEF IInv, DoomedGone
    <3> QED BY <1>3, <3>1, <3>2
  <2> QED BY <2>1, <2>2
<1>11. HeldInTime'
  <2> SUFFICES ASSUME NEW i \in Jobs, held'[i] > 0
               PROVE  In(i, "ready")' /\ held'[i] <= jobs'[i].left
      BY DEF HeldInTime
  <2>1. i \notin Expired
    BY <1>1, <1>5
  <2> QED BY <1>1, <1>3, <1>6, <2>1 DEF IInv, HeldInTime
<1>12. NoOrphan'
  <2> SUFFICES ASSUME up', NEW i \in Jobs, files'[i] # {}
               PROVE  \/ jobs'[i] # None
                      \/ \E u \in Threads : i \in threads'[u].doomed
                      \/ i \in refused'
      BY DEF NoOrphan
  <2>1. CASE i \in Expired
    BY <1>2, <2>1
  <2>2. CASE i \notin Expired
    <3>1. jobs'[i] = jobs[i]
      BY <1>3, <2>2
    <3>2. threads[t].doomed = {} \/ \A k \in threads[t].doomed : threads[t].at = "delete"
      BY DEF IInv, DoomedGone
    <3>3. threads[t].at # "delete"
      BY DEF CleanUp
    <3> QED BY <1>1, <1>2, <3>1, <3>2, <3>3 DEF IInv, NoOrphan
  <2> QED BY <2>1, <2>2
<1> QED BY <1>4, <1>7, <1>8, <1>9, <1>10, <1>11, <1>12 DEF IInv

\* Only files of jobs that left the table are deleted, all of them.
LEMMA DeleteKeeps ==
  ASSUME IInv, NEW t \in Threads, Delete(t)
  PROVE  IInv'
<1>1. /\ UNCHANGED <<up, closed, shut, jobs, queue, work, held>>
      /\ threads[t].at = "delete" /\ threads[t] \in Doings
  BY DEF Delete, IInv, TypeOK
<1>2. /\ threads'[t] \in Doings /\ threads'[t].doomed = {}
      /\ threads'[t].at \in {"rest", "act"}
      /\ \A u \in Threads : u # t => threads'[u] = threads[u]
  <2>1. CASE threads[t].op \in {"clean", "status"}
    <3>1. threads' = [threads EXCEPT ![t] = Resting]
      BY <2>1 DEF Delete
    <3> QED BY <3>1, RestingTyped DEF IInv, TypeOK, Resting
  <2>2. CASE threads[t].op \notin {"clean", "status"}
    <3> DEFINE new == [threads[t] EXCEPT !.at = "act", !.doomed = {}]
    <3>1. threads' = [threads EXCEPT ![t] = new]
      BY <2>2 DEF Delete
    <3>2. new \in Doings /\ new.doomed = {} /\ new.at = "act"
      BY <1>1 DEF Doings
    <3> HIDE DEF new
    <3> QED BY <3>1, <3>2 DEF IInv, TypeOK
  <2> QED BY <2>1, <2>2
<1>3. threads' \in [Threads -> Doings]
  BY <1>2 DEF Delete, IInv, TypeOK
<1>4. /\ files' \in [Jobs -> SUBSET Kinds] /\ refused' \subseteq Jobs
      /\ \A i \in Jobs : i \notin threads[t].doomed => files'[i] = files[i]
      /\ \A i \in Jobs : files[i] = {} => files'[i] = {}
      /\ \A i \in threads[t].doomed : files'[i] # {} => i \in refused'
      /\ \A i \in refused : files'[i] # {} => i \in refused'
  BY UnlinkFacts, DoomedJobs DEF Delete, IInv
<1>5. TypeOK'
  BY <1>1, <1>3, <1>4 DEF IInv, TypeOK
<1>6. \A i \in threads[t].doomed : jobs[i] = None
  BY DEF IInv, DoomedGone
<1>7. StagesAgree'
  BY <1>1, <1>4, <1>6 DEF IInv, StagesAgree, In
<1>8. QueueAgrees' /\ HeldInTime'
  BY <1>1 DEF IInv, QueueAgrees, HeldInTime, In
<1>9. PendingAgrees'
  BY <1>1, <1>2 DEF IInv, PendingAgrees, In
<1>10. DoomedGone'
  BY <1>1, <1>2 DEF IInv, DoomedGone
<1>11. NoOrphan'
  BY <1>1, <1>2, <1>4 DEF IInv, NoOrphan
<1> QED BY <1>5, <1>7, <1>8, <1>9, <1>10, <1>11 DEF IInv

\* A submitted job gets a token of which nothing is left.
LEMMA AcceptKeeps ==
  ASSUME IInv, NEW t \in Threads, NEW j \in Jobs, Accept(t, j)
  PROVE  IInv'
<1> USE ExportConstants
<1> DEFINE new == [state |-> "queued", left |-> Ttl]
           gone == [threads[t] EXCEPT !.at = "pool", !.job = j]
<1>1. /\ UNCHANGED <<up, closed, shut, queue, work, files, held, refused>>
      /\ threads[t].at = "act" /\ threads[t] \in Doings
      /\ threads[t].doomed = {}
  BY DEF Accept, IInv, TypeOK, DoomedGone
<1>2. CASE threads' = [threads EXCEPT ![t] = Resting] /\ UNCHANGED jobs
  <2>1. /\ threads'[t] = Resting /\ threads' \in [Threads -> Doings]
        /\ \A u \in Threads : u # t => threads'[u] = threads[u]
    BY <1>2, RestingTyped DEF IInv, TypeOK
  <2>2. TypeOK'
    BY <1>1, <1>2, <2>1 DEF IInv, TypeOK
  <2>3. StagesAgree' /\ QueueAgrees' /\ HeldInTime'
    BY <1>1, <1>2 DEF IInv, StagesAgree, QueueAgrees, HeldInTime, In
  <2>4. PendingAgrees'
    <3>1. threads'[t].at # "pool"
      BY <2>1 DEF Resting
    <3> QED BY <1>1, <1>2, <2>1, <3>1, PendingKept DEF IInv, In
  <2>5. DoomedGone'
    BY <1>2, <2>1 DEF IInv, DoomedGone, Resting
  <2>6. NoOrphan'
    BY <1>1, <1>2, <2>1 DEF IInv, NoOrphan
  <2> QED BY <2>2, <2>3, <2>4, <2>5, <2>6 DEF IInv
<1>3. CASE /\ Free(j) /\ jobs' = [jobs EXCEPT ![j] = new]
           /\ threads' = [threads EXCEPT ![t].at = "pool", ![t].job = j]
  <2>1. gone \in Doings /\ gone.at = "pool" /\ gone.job = j /\ gone.doomed = {}
    BY <1>1 DEF Doings
  <2>2. threads' = [threads EXCEPT ![t] = gone]
    BY <1>3 DEF IInv, TypeOK
  <2> HIDE DEF gone
  <2>3. /\ threads'[t] = gone /\ threads' \in [Threads -> Doings]
        /\ \A u \in Threads : u # t => threads'[u] = threads[u]
    BY <2>1, <2>2 DEF IInv, TypeOK
  <2>4. new \in Entries /\ new # None /\ new.state = "queued"
    BY DEF Entries
  <2> HIDE DEF new
  <2>5. /\ jobs'[j] = new /\ jobs' \in [Jobs -> Entries \cup {None}]
        /\ \A i \in Jobs : i # j => jobs'[i] = jobs[i]
    BY <1>3, <2>4 DEF IInv, TypeOK
  <2>6. TypeOK'
    BY <1>1, <2>3, <2>5 DEF IInv, TypeOK
  <2>7. /\ jobs[j] = None /\ files[j] = {} /\ work[j] = "none"
        /\ \A i \in DOMAIN queue : queue[i] # j
        /\ \A u \in Threads : threads[u].job # j /\ j \notin threads[u].doomed
    BY <1>3 DEF Free
  <2>8. /\ In(j, "queued")'
        /\ \A s \in {"running", "ready", "failed"} : ~In(j, s)'
        /\ \A i \in Jobs : i # j => \A s : In(i, s)' <=> In(i, s)
    BY <2>4, <2>5 DEF In
  <2>9. StagesAgree'
    <3> SUFFICES ASSUME NEW i \in Jobs
                 PROVE  /\ In(i, "running")' <=> work'[i] # "none"
                        /\ In(i, "queued")' => files'[i] = {}
                        /\ In(i, "ready")' \/ work'[i] = "ready" => files'[i] = {"final"}
        BY DEF StagesAgree
    <3>1. CASE i = j
      BY <1>1, <2>7, <2>8, <3>1
    <3>2. CASE i # j
      BY <1>1, <2>8, <3>2 DEF IInv, StagesAgree
    <3> QED BY <3>1, <3>2
  <2>10. QueueAgrees'
    <3>1. \A i \in DOMAIN queue : queue[i] \in Jobs
      BY DEF IInv, TypeOK
    <3> QED BY <1>1, <2>5, <2>7, <3>1 DEF IInv, QueueAgrees, In
  <2>11. PendingAgrees'
    <3> SUFFICES ASSUME NEW u \in Threads, threads'[u].at = "pool"
                 PROVE  /\ threads'[u].job \in Jobs
                        /\ jobs'[threads'[u].job] # None
                        /\ jobs'[threads'[u].job].state = "queued"
                        /\ \A i \in DOMAIN queue : queue[i] # threads'[u].job
                        /\ \A v \in Threads : threads'[v].at = "pool"
                              /\ threads'[v].job = threads'[u].job => u = v
        BY <1>1 DEF PendingAgrees, In
    <3>1. CASE u = t
      <4>1. threads'[u].job = j
        BY <2>1, <2>3, <3>1
      <4>2. \A v \in Threads : v # t => threads'[v].job # j
        BY <2>3, <2>7
      <4>3. jobs'[threads'[u].job] # None /\ jobs'[threads'[u].job].state = "queued"
        BY <2>4, <2>5, <4>1
      <4> QED BY <2>7, <3>1, <4>1, <4>2, <4>3
    <3>2. CASE u # t
      <4>1. threads'[u] = threads[u] /\ threads[u].at = "pool" /\ threads[u].job # j
        BY <2>3, <2>7, <3>2
      <4>2. /\ threads[u].job \in Jobs /\ In(threads[u].job, "queued")
            /\ \A i \in DOMAIN queue : queue[i] # threads[u].job
        BY <4>1 DEF IInv, PendingAgrees
      <4>3. jobs'[threads'[u].job] # None /\ jobs'[threads'[u].job].state = "queued"
        BY <2>5, <4>1, <4>2 DEF In
      <4>4. ASSUME NEW v \in Threads, threads'[v].at = "pool",
                   threads'[v].job = threads'[u].job
            PROVE  u = v
        <5>1. v # t /\ threads'[v] = threads[v]
          BY <2>1, <2>3, <4>1, <4>4
        <5> QED BY <4>1, <4>4, <5>1 DEF IInv, PendingAgrees
      <4> QED BY <4>1, <4>2, <4>3, <4>4
    <3> QED BY <3>1, <3>2
  <2>12. DoomedGone'
    <3> SUFFICES ASSUME NEW u \in Threads, NEW i \in threads'[u].doomed
                 PROVE  threads'[u].at = "delete" /\ jobs'[i] = None
        BY DEF DoomedGone
    <3>1. u # t /\ threads'[u] = threads[u] /\ i \in Jobs /\ i # j
      BY <2>1, <2>3, <2>7, DoomedJobs DEF IInv
    <3> QED BY <2>5, <3>1 DEF IInv, DoomedGone
  <2>13. HeldInTime'
    BY <1>1, <2>5, <2>7, <2>8 DEF IInv, HeldInTime, In
  <2>14. NoOrphan'
    BY <1>1, <2>1, <2>3, <2>5, <2>7 DEF IInv, NoOrphan
  <2> QED BY <2>6, <2>9, <2>10, <2>11, <2>12, <2>13, <2>14 DEF IInv
<1> QED BY <1>2, <1>3 DEF Accept

\* Nothing changes but one thread, which comes to rest.
LEMMA RestKeeps ==
  ASSUME IInv, NEW t \in Threads, threads[t].doomed = {},
         threads' = [threads EXCEPT ![t] = Resting],
         UNCHANGED <<up, closed, shut, jobs, queue, work, files, held, refused>>
  PROVE  IInv'
<1>1. /\ threads'[t] = Resting /\ threads' \in [Threads -> Doings]
      /\ \A u \in Threads : u # t => threads'[u] = threads[u]
  BY RestingTyped DEF IInv, TypeOK
<1>2. TypeOK'
  BY <1>1 DEF IInv, TypeOK
<1>3. StagesAgree' /\ QueueAgrees' /\ HeldInTime'
  BY DEF IInv, StagesAgree, QueueAgrees, HeldInTime, In
<1>4. PendingAgrees'
  <2>1. threads'[t].at # "pool"
    BY <1>1 DEF Resting
  <2> QED BY <1>1, <2>1, PendingKept DEF IInv, In
<1>5. DoomedGone'
  BY <1>1 DEF IInv, DoomedGone, Resting
<1>6. NoOrphan'
  BY <1>1 DEF IInv, NoOrphan
<1> QED BY <1>2, <1>3, <1>4, <1>5, <1>6 DEF IInv

\* The pool gets each accepted job once, at the end of its queue.
LEMMA EnqueueKeeps ==
  ASSUME IInv, NEW t \in Threads, Enqueue(t)
  PROVE  IInv'
<1>1. /\ UNCHANGED <<up, closed, shut, jobs, work, files, held, refused>>
      /\ threads[t].at = "pool" /\ threads[t] \in Doings
      /\ threads[t].doomed = {}
  BY DEF Enqueue, IInv, TypeOK, DoomedGone
<1>2. CASE threads' = [threads EXCEPT ![t] = Resting] /\ UNCHANGED queue
  BY <1>1, <1>2, RestKeeps
<1>3. CASE /\ queue' = Append(queue, threads[t].job)
           /\ threads' = [threads EXCEPT ![t].at = "status"]
  <2> DEFINE j == threads[t].job
             gone == [threads[t] EXCEPT !.at = "status"]
  <2>1. /\ j \in Jobs /\ In(j, "queued")
        /\ \A i \in DOMAIN queue : queue[i] # j
        /\ \A u \in Threads : threads[u].at = "pool" /\ threads[u].job = j => t = u
    BY <1>1 DEF IInv, PendingAgrees
  <2>2. gone \in Doings /\ gone.at = "status" /\ gone.doomed = {}
    BY <1>1 DEF Doings
  <2>3. threads' = [threads EXCEPT ![t] = gone]
    BY <1>3 DEF IInv, TypeOK
  <2> HIDE DEF gone
  <2>4. /\ threads'[t] = gone /\ threads' \in [Threads -> Doings]
        /\ \A u \in Threads : u # t => threads'[u] = threads[u]
    BY <2>2, <2>3 DEF IInv, TypeOK
  <2>5. queue \in Seq(Jobs)
    BY DEF IInv, TypeOK
  <2>6. /\ queue' \in Seq(Jobs) /\ Len(queue') = Len(queue) + 1
        /\ DOMAIN queue = 1..Len(queue) /\ DOMAIN queue' = 1..(Len(queue) + 1)
        /\ \A i \in DOMAIN queue : queue'[i] = queue[i]
        /\ queue'[Len(queue) + 1] = j
    BY <1>3, <2>1, <2>5
  <2>7. TypeOK'
    BY <1>1, <2>4, <2>6 DEF IInv, TypeOK
  <2>8. StagesAgree' /\ HeldInTime'
    BY <1>1 DEF IInv, StagesAgree, HeldInTime, In
  <2>9. \A i \in DOMAIN queue' : i \in DOMAIN queue \/ i = Len(queue) + 1
    BY <2>5, <2>6
  <2>10. QueueAgrees'
    <3> SUFFICES ASSUME NEW i \in DOMAIN queue'
                 PROVE  /\ jobs'[queue'[i]] # None /\ jobs'[queue'[i]].state = "queued"
                        /\ \A k \in DOMAIN queue' : queue'[i] = queue'[k] => i = k
        BY DEF QueueAgrees, In
    <3>1. CASE i \in DOMAIN queue
      BY <1>1, <2>1, <2>6, <2>9, <3>1 DEF IInv, QueueAgrees, In
    <3>2. CASE i = Len(queue) + 1
      BY <1>1, <2>1, <2>6, <2>9, <3>2 DEF In
    <3> QED BY <2>9, <3>1, <3>2
  <2>11. PendingAgrees'
    <3> SUFFICES ASSUME NEW u \in Threads, threads'[u].at = "pool"
                 PROVE  /\ threads'[u].job \in Jobs
                        /\ jobs'[threads'[u].job] # None
                        /\ jobs'[threads'[u].job].state = "queued"
                        /\ \A i \in DOMAIN queue' : queue'[i] # threads'[u].job
                        /\ \A v \in Threads : threads'[v].at = "pool"
                              /\ threads'[v].job = threads'[u].job => u = v
        BY DEF PendingAgrees, In
    <3>1. u # t /\ threads'[u] = threads[u]
      BY <2>2, <2>4
    <3>2. threads[u].job # j
      BY <2>1, <3>1
    <3>3. /\ threads[u].job \in Jobs /\ In(threads[u].job, "queued")
          /\ \A i \in DOMAIN queue : queue[i] # threads[u].job
          /\ \A v \in Threads : threads[v].at = "pool"
                /\ threads[v].job = threads[u].job => u = v
      BY <3>1 DEF IInv, PendingAgrees
    <3>4. \A i \in DOMAIN queue' : queue'[i] # threads[u].job
      BY <2>6, <2>9, <3>2, <3>3
    <3>5. ASSUME NEW v \in Threads, threads'[v].at = "pool",
                 threads'[v].job = threads'[u].job
          PROVE  u = v
      <4>1. v # t /\ threads'[v] = threads[v]
        BY <2>2, <2>4, <3>5
      <4> QED BY <3>1, <3>3, <3>5, <4>1
    <3> QED BY <1>1, <3>1, <3>3, <3>4, <3>5 DEF In
  <2>12. DoomedGone'
    BY <1>1, <2>2, <2>4 DEF IInv, DoomedGone
  <2>13. NoOrphan'
    BY <1>1, <2>4 DEF IInv, NoOrphan
  <2> QED BY <2>7, <2>8, <2>10, <2>11, <2>12, <2>13 DEF IInv
<1> QED BY <1>2, <1>3 DEF Enqueue

\* A download gets a ready file, and the job stays at least as long.
LEMMA FileKeeps ==
  ASSUME IInv, NEW t \in Threads, File(t)
  PROVE  IInv'
<1> USE ExportConstants
<1> DEFINE j == threads[t].job
           more == IF jobs[j].left > Hold THEN jobs[j].left ELSE Hold
           new == [jobs[j] EXCEPT !.left = more]
<1>1. /\ UNCHANGED <<up, closed, shut, queue, work, files, refused>>
      /\ threads[t].at = "act" /\ threads[t].doomed = {}
      /\ threads' = [threads EXCEPT ![t] = Resting]
  BY DEF File, IInv, DoomedGone
<1>2. CASE UNCHANGED <<jobs, held>>
  BY <1>1, <1>2, RestKeeps
<1>3. CASE /\ j \in Jobs /\ jobs[j] # None /\ jobs[j].state = "ready"
           /\ jobs' = [jobs EXCEPT ![j].left = IF @ > Hold THEN @ ELSE Hold]
           /\ held' = [held EXCEPT ![j] = Hold]
  <2>1. jobs[j] \in Entries
    BY <1>3 DEF IInv, TypeOK
  <2>2. more \in 0..Ttl /\ Hold <= more
    BY <2>1 DEF Entries
  <2>3. new \in Entries /\ new.state = "ready" /\ new.left = more
    BY <1>3, <2>1, <2>2 DEF Entries
  <2>4. jobs' = [jobs EXCEPT ![j] = new]
    BY <1>3 DEF IInv, TypeOK
  <2> HIDE DEF new, more
  <2>5. /\ jobs'[j] = new /\ jobs' \in [Jobs -> Entries \cup {None}]
        /\ \A i \in Jobs : i # j => jobs'[i] = jobs[i]
    BY <1>3, <2>3, <2>4 DEF IInv, TypeOK
  <2>6. /\ held'[j] = Hold /\ held' \in [Jobs -> 0..Hold]
        /\ \A i \in Jobs : i # j => held'[i] = held[i]
    BY <1>3 DEF IInv, TypeOK
  <2>7. /\ threads'[t] = Resting /\ threads' \in [Threads -> Doings]
        /\ \A u \in Threads : u # t => threads'[u] = threads[u]
    BY <1>1, RestingTyped DEF IInv, TypeOK
  <2>8. TypeOK'
    BY <1>1, <2>5, <2>6, <2>7 DEF IInv, TypeOK
  <2>9. \A i \in Jobs : \A s : In(i, s)' <=> In(i, s)
    BY <1>3, <2>3, <2>5 DEF In
  <2>10. StagesAgree'
    BY <1>1, <2>9 DEF IInv, StagesAgree
  <2>11. QueueAgrees'
    <3>1. \A i \in DOMAIN queue : queue[i] \in Jobs
      BY DEF IInv, TypeOK
    <3> QED BY <1>1, <2>9, <3>1 DEF IInv, QueueAgrees
  <2>12. PendingAgrees'
    <3>1. threads'[t].at # "pool"
      BY <2>7 DEF Resting
    <3> QED BY <1>1, <2>7, <2>9, <3>1, PendingKept DEF IInv
  <2>13. DoomedGone'
    <3> SUFFICES ASSUME NEW u \in Threads, NEW i \in threads'[u].doomed
                 PROVE  threads'[u].at = "delete" /\ jobs'[i] = None
        BY DEF DoomedGone
    <3>1. u # t /\ threads'[u] = threads[u] /\ i \in Jobs
      BY <2>7, DoomedJobs DEF IInv, Resting
    <3>2. threads[u].at = "delete" /\ jobs[i] = None
      BY <3>1 DEF IInv, DoomedGone
    <3> QED BY <1>3, <2>5, <3>1, <3>2
  <2>14. HeldInTime'
    <3> SUFFICES ASSUME NEW i \in Jobs, held'[i] > 0
                 PROVE  In(i, "ready")' /\ held'[i] <= jobs'[i].left
        BY DEF HeldInTime
    <3>1. CASE i = j
      <4>1. In(j, "ready")
        BY <1>3 DEF In
      <4>2. In(i, "ready")'
        BY <2>9, <3>1, <4>1
      <4> QED BY <2>2, <2>3, <2>5, <2>6, <3>1, <4>2
    <3>2. CASE i # j
      <4>1. In(i, "ready") /\ held[i] <= jobs[i].left
        BY <2>6, <3>2 DEF IInv, HeldInTime
      <4>2. In(i, "ready")'
        BY <2>9, <4>1
      <4> QED BY <2>5, <2>6, <3>2, <4>1, <4>2
    <3> QED BY <3>1, <3>2
  <2>15. NoOrphan'
    <3>1. \A i \in Jobs : jobs[i] # None => jobs'[i] # None
      BY <2>3, <2>5
    <3> QED BY <1>1, <2>7, <3>1 DEF IInv, NoOrphan
  <2> QED BY <2>8, <2>10, <2>11, <2>12, <2>13, <2>14, <2>15 DEF IInv
<1>4. CASE j \notin Jobs
  BY <1>2, <1>4 DEF File, IInv, TypeOK
<1> QED BY <1>2, <1>3, <1>4 DEF File

\* A step of the worker that has a job: the job stays in the table, and its
\* state keeps agreeing with the worker and the files.
LEMMA WorkKeeps ==
  ASSUME IInv, NEW j \in Jobs, In(j, "queued") \/ In(j, "running"),
         UNCHANGED <<up, closed, shut, threads, held>>,
         queue' \in Seq(Jobs), QueueAgrees',
         \A i \in DOMAIN queue' : \E k \in DOMAIN queue : queue'[i] = queue[k],
         In(j, "queued") => \E k \in DOMAIN queue : queue[k] = j,
         jobs' \in [Jobs -> Entries \cup {None}], jobs'[j] # None,
         work' \in [Jobs -> {"none", "produce", "rename", "ready", "fail"}],
         files' \in [Jobs -> SUBSET Kinds], refused' \subseteq Jobs,
         \A i \in Jobs : i # j =>
            /\ jobs'[i] = jobs[i] /\ work'[i] = work[i] /\ files'[i] = files[i]
            /\ i \in refused /\ files[i] # {} => i \in refused',
         jobs'[j].state = "running" <=> work'[j] # "none",
         jobs'[j].state # "queued",
         jobs'[j].state = "ready" \/ work'[j] = "ready" => files'[j] = {"final"}
  PROVE  IInv'
<1>1. TypeOK'
  BY DEF IInv, TypeOK
<1>2. StagesAgree'
  <2> SUFFICES ASSUME NEW i \in Jobs
               PROVE  /\ (jobs'[i] # None /\ jobs'[i].state = "running") <=> work'[i] # "none"
                      /\ jobs'[i] # None /\ jobs'[i].state = "queued" => files'[i] = {}
                      /\ (jobs'[i] # None /\ jobs'[i].state = "ready") \/ work'[i] = "ready"
                            => files'[i] = {"final"}
      BY DEF StagesAgree, In
  <2>1. CASE i = j
    BY <2>1
  <2>2. CASE i # j
    BY <2>2 DEF IInv, StagesAgree, In
  <2> QED BY <2>1, <2>2
<1>3. PendingAgrees'
  <2> SUFFICES ASSUME NEW u \in Threads, threads[u].at = "pool"
               PROVE  /\ threads[u].job \in Jobs
                      /\ jobs'[threads[u].job] # None
                      /\ jobs'[threads[u].job].state = "queued"
                      /\ \A i \in DOMAIN queue' : queue'[i] # threads[u].job
                      /\ \A v \in Threads : threads[v].at = "pool"
                            /\ threads[v].job = threads[u].job => u = v
      BY DEF PendingAgrees, In
  <2>1. /\ threads[u].job \in Jobs /\ In(threads[u].job, "queued")
        /\ \A i \in DOMAIN queue : queue[i] # threads[u].job
        /\ \A v \in Threads : threads[v].at = "pool"
              /\ threads[v].job = threads[u].job => u = v
    BY DEF IInv, PendingAgrees
  <2>2. threads[u].job # j
    BY <2>1 DEF In
  <2> QED BY <2>1, <2>2 DEF In
<1>4. DoomedGone'
  <2> SUFFICES ASSUME NEW u \in Threads, NEW i \in threads[u].doomed
               PROVE  threads[u].at = "delete" /\ jobs'[i] = None
      BY DEF DoomedGone
  <2>1. threads[u].at = "delete" /\ jobs[i] = None /\ i \in Jobs
    BY DoomedJobs DEF IInv, DoomedGone
  <2>2. i # j
    BY <2>1 DEF In
  <2> QED BY <2>1, <2>2
<1>5. HeldInTime'
  <2> SUFFICES ASSUME NEW i \in Jobs, held[i] > 0
               PROVE  /\ jobs'[i] # None /\ jobs'[i].state = "ready"
                      /\ held[i] <= jobs'[i].left
      BY DEF HeldInTime, In
  <2>1. In(i, "ready") /\ held[i] <= jobs[i].left
    BY DEF IInv, HeldInTime
  <2>2. i # j
    BY <2>1 DEF In
  <2> QED BY <2>1, <2>2 DEF In
<1>6. NoOrphan'
  BY DEF IInv, NoOrphan
<1> QED BY <1>1, <1>2, <1>3, <1>4, <1>5, <1>6 DEF IInv

\* A worker takes the oldest job, which nothing has been written for.
LEMMA StartKeeps ==
  ASSUME IInv, Start
  PROVE  IInv'
<1> USE ExportConstants
<1> DEFINE j == Head(queue)
           new == [jobs[j] EXCEPT !.state = "running"]
<1>1. /\ UNCHANGED <<up, closed, shut, files, threads, held, refused>>
      /\ queue # <<>> /\ queue' = Tail(queue) /\ queue \in Seq(Jobs)
  BY DEF Start, IInv, TypeOK
<1>2. /\ j \in Jobs /\ queue' \in Seq(Jobs) /\ j = queue[1] /\ 1 \in DOMAIN queue
      /\ \A i \in DOMAIN queue' :
           i + 1 \in DOMAIN queue /\ i + 1 # 1 /\ i \in Nat /\ queue'[i] = queue[i + 1]
  BY <1>1
<1>3. In(j, "queued") /\ jobs[j] \in Entries
  BY <1>2 DEF IInv, TypeOK, QueueAgrees, In
<1>4. \A i \in DOMAIN queue' : queue'[i] # j
  BY <1>2 DEF IInv, QueueAgrees
<1>5. /\ new \in Entries /\ new # None /\ new.state = "running"
      /\ files[j] = {}
  BY <1>2, <1>3 DEF IInv, StagesAgree, Entries
<1>6. jobs' = [jobs EXCEPT ![j] = new] /\ work' = [work EXCEPT ![j] = "produce"]
  BY <1>3 DEF Start, In, IInv, TypeOK
<1> HIDE DEF new
<1>7. /\ jobs'[j] = new /\ jobs' \in [Jobs -> Entries \cup {None}]
      /\ work'[j] = "produce"
      /\ work' \in [Jobs -> {"none", "produce", "rename", "ready", "fail"}]
      /\ \A i \in Jobs : i # j => jobs'[i] = jobs[i] /\ work'[i] = work[i]
  BY <1>2, <1>5, <1>6 DEF IInv, TypeOK
<1>8. QueueAgrees'
  <2> SUFFICES ASSUME NEW i \in DOMAIN queue'
               PROVE  /\ jobs'[queue'[i]] # None /\ jobs'[queue'[i]].state = "queued"
                      /\ \A k \in DOMAIN queue' : queue'[i] = queue'[k] => i = k
      BY DEF QueueAgrees, In
  <2>1. In(queue'[i], "queued") /\ queue'[i] \in Jobs /\ queue'[i] # j
    BY <1>1, <1>2, <1>4 DEF IInv, QueueAgrees
  <2>2. ASSUME NEW k \in DOMAIN queue', queue'[i] = queue'[k]
        PROVE  i = k
    <3>1. i + 1 = k + 1
      BY <1>2, <2>2 DEF IInv, QueueAgrees
    <3> QED BY <1>2, <3>1
  <2> QED BY <1>7, <2>1, <2>2 DEF In
<1>9. \A i \in DOMAIN queue' : \E k \in DOMAIN queue : queue'[i] = queue[k]
  BY <1>2
<1>10. files' \in [Jobs -> SUBSET Kinds]
  BY <1>1 DEF IInv, TypeOK
<1>11. refused' \subseteq Jobs /\ \A i \in refused : i \in refused'
  BY <1>1 DEF IInv, TypeOK
<1> HIDE DEF j
<1> QED BY <1>1, <1>2, <1>3, <1>5, <1>7, <1>8, <1>9, <1>10, <1>11, WorkKeeps

\* A job in a worker's hands is running.
LEMMA AtWork ==
  ASSUME IInv, NEW j \in Jobs, work[j] # "none"
  PROVE  /\ In(j, "running") /\ jobs[j] # None /\ jobs[j].state = "running"
         /\ files[j] \in SUBSET Kinds
         /\ work[j] = "ready" => files[j] = {"final"}
         /\ queue \in Seq(Jobs) /\ \A i \in DOMAIN queue : queue[i] # j
BY DEF IInv, TypeOK, StagesAgree, QueueAgrees, In

LEMMA ProduceKeeps ==
  ASSUME IInv, NEW j \in Jobs, Produce(j)
  PROVE  IInv'
<1>1. /\ UNCHANGED <<up, closed, shut, jobs, queue, threads, held, refused>>
      /\ work[j] = "produce"
  BY DEF Produce
<1>2. PICK w \in {"rename", "fail"} : work' = [work EXCEPT ![j] = w]
  BY DEF Produce
<1>3. PICK f \in SUBSET Kinds : files' = [files EXCEPT ![j] = f]
  <2>1. files = [files EXCEPT ![j] = files[j]] /\ files[j] \in SUBSET Kinds
    BY DEF IInv, TypeOK
  <2>2. files[j] \cup {"part"} \in SUBSET Kinds
    BY <2>1 DEF Kinds
  <2> QED BY <2>1, <2>2 DEF Produce
<1>4. /\ work'[j] = w
      /\ work' \in [Jobs -> {"none", "produce", "rename", "ready", "fail"}]
      /\ files' \in [Jobs -> SUBSET Kinds]
      /\ \A i \in Jobs : i # j => work'[i] = work[i] /\ files'[i] = files[i]
  BY <1>2, <1>3 DEF IInv, TypeOK
<1>5. QueueAgrees' /\ jobs' \in [Jobs -> Entries \cup {None}]
  BY <1>1 DEF IInv, TypeOK, QueueAgrees, In
<1>6. /\ In(j, "running") /\ jobs[j] # None /\ jobs[j].state = "running"
      /\ queue \in Seq(Jobs)
  BY <1>1, AtWork
<1>7. ~In(j, "queued") /\ work'[j] # "none" /\ work'[j] # "ready"
  BY <1>4, <1>6 DEF In
<1>8. refused' \subseteq Jobs /\ \A i \in refused : i \in refused'
  BY <1>1 DEF IInv, TypeOK
<1> QED BY <1>1, <1>4, <1>5, <1>6, <1>7, <1>8, WorkKeeps

LEMMA RenameKeeps ==
  ASSUME IInv, NEW j \in Jobs, Rename(j)
  PROVE  IInv'
<1>1. /\ UNCHANGED <<up, closed, shut, jobs, queue, threads, held, refused>>
      /\ work[j] = "rename"
  BY DEF Rename
<1>2. \/ files' = [files EXCEPT ![j] = {"final"}] /\ work' = [work EXCEPT ![j] = "ready"]
      \/ files' = files /\ work' = [work EXCEPT ![j] = "fail"]
  BY DEF Rename
<1>3. /\ work' \in [Jobs -> {"none", "produce", "rename", "ready", "fail"}]
      /\ files' \in [Jobs -> SUBSET Kinds]
      /\ \A i \in Jobs : i # j => work'[i] = work[i] /\ files'[i] = files[i]
      /\ work'[j] = "fail" \/ (work'[j] = "ready" /\ files'[j] = {"final"})
  <2>1. /\ work \in [Jobs -> {"none", "produce", "rename", "ready", "fail"}]
        /\ files \in [Jobs -> SUBSET Kinds]
        /\ {"final"} \in SUBSET Kinds
    BY DEF IInv, TypeOK, Kinds
  <2>2. CASE files' = [files EXCEPT ![j] = {"final"}] /\ work' = [work EXCEPT ![j] = "ready"]
    BY <2>1, <2>2
  <2>3. CASE files' = files /\ work' = [work EXCEPT ![j] = "fail"]
    BY <2>1, <2>3
  <2> QED BY <1>2, <2>2, <2>3
<1>4. QueueAgrees' /\ jobs' \in [Jobs -> Entries \cup {None}]
  BY <1>1 DEF IInv, TypeOK, QueueAgrees, In
<1>5. /\ In(j, "running") /\ jobs[j] # None /\ jobs[j].state = "running"
      /\ queue \in Seq(Jobs)
  BY <1>1, AtWork
<1>6. ~In(j, "queued") /\ work'[j] # "none"
  BY <1>3, <1>5 DEF In
<1>7. refused' \subseteq Jobs /\ \A i \in refused : i \in refused'
  BY <1>1 DEF IInv, TypeOK
<1> QED BY <1>1, <1>3, <1>4, <1>5, <1>6, <1>7, WorkKeeps

\* A worker is done with a job: it is ready with its file, or failed without.
LEMMA DoneKeeps ==
  ASSUME IInv, NEW j \in Jobs, Ready(j) \/ Fail(j)
  PROVE  IInv'
<1> USE ExportConstants
<1>1. /\ UNCHANGED <<up, closed, shut, queue, threads, held>>
      /\ work[j] \in {"ready", "fail"} /\ work' = [work EXCEPT ![j] = "none"]
  BY DEF Ready, Fail
<1>2. jobs[j] # None /\ In(j, "running") /\ (work[j] = "ready" => files[j] = {"final"})
  BY <1>1, AtWork
<1>3. PICK s \in {"ready", "failed"} :
        /\ jobs' = [jobs EXCEPT ![j] = [state |-> s, left |-> Ttl]]
        /\ \/ s = "ready" /\ UNCHANGED <<files, refused>> /\ files[j] = {"final"}
           \/ s = "failed" /\ Unlink({j})
  BY <1>2 DEF Ready, Fail
<1> DEFINE new == [state |-> s, left |-> Ttl]
<1>4. new \in Entries /\ new # None /\ new.state = s
  BY DEF Entries
<1> HIDE DEF new
<1>5. /\ jobs'[j] = new /\ jobs' \in [Jobs -> Entries \cup {None}]
      /\ work'[j] = "none"
      /\ work' \in [Jobs -> {"none", "produce", "rename", "ready", "fail"}]
      /\ \A i \in Jobs : i # j => jobs'[i] = jobs[i] /\ work'[i] = work[i]
  BY <1>1, <1>3, <1>4 DEF IInv, TypeOK, new
<1>8. /\ files' \in [Jobs -> SUBSET Kinds] /\ refused' \subseteq Jobs
      /\ s = "ready" => files'[j] = {"final"}
      /\ \A i \in Jobs : i # j =>
           /\ files'[i] = files[i]
           /\ i \in refused /\ files[i] # {} => i \in refused'
  <2>1. CASE s = "ready"
    BY <1>3, <2>1 DEF IInv, TypeOK
  <2>2. CASE s = "failed"
    <3>1. Unlink({j}) /\ {j} \in SUBSET Jobs
      BY <1>3, <2>2
    <3> QED BY <2>2, <3>1, UnlinkFacts DEF IInv
  <2> QED BY <2>1, <2>2
<1>6. queue' \in Seq(Jobs) /\ \A i \in DOMAIN queue : queue[i] \in Jobs /\ queue[i] # j
  BY <1>1, AtWork DEF IInv, TypeOK
<1>7. QueueAgrees'
  BY <1>1, <1>5, <1>6 DEF IInv, QueueAgrees, In
<1> QED BY <1>1, <1>2, <1>4, <1>5, <1>6, <1>7, <1>8, WorkKeeps DEF In

LEMMA NextKeeps ==
  ASSUME IInv, Next
  PROVE  IInv'
<1>1. CASE Create \/ Crash
  BY <1>1, CreateKeeps
<1>2. CASE Close \/ Shutdown
  BY <1>2, CloseKeeps
<1>3. CASE Tick
  BY <1>3, TickKeeps
<1>4. CASE \E t \in Callers : CleanUp(t, "submit", None) \/ CleanUp(t, "status", None)
  BY <1>4, CleanUpKeeps DEF Threads
<1>5. CASE \E t \in Callers, j \in Jobs : CleanUp(t, "file", j)
  BY <1>5, CleanUpKeeps DEF Threads
<1>6. CASE JanitorCleans
  BY <1>6, CleanUpKeeps DEF JanitorCleans, Threads
<1>7. CASE \E t \in Threads : ThreadStep(t)
  <2>1. PICK t \in Threads : ThreadStep(t)
    BY <1>7
  <2> QED BY <2>1, DeleteKeeps, EnqueueKeeps, FileKeeps, AcceptKeeps, CleanUpKeeps
          DEF ThreadStep
<1>8. CASE WorkerStep
  BY <1>8, StartKeeps, ProduceKeeps, RenameKeeps, DoneKeeps DEF WorkerStep
<1> QED BY <1>1, <1>2, <1>3, <1>4, <1>5, <1>6, <1>7, <1>8 DEF Next

LEMMA StutterKeeps ==
  ASSUME IInv, UNCHANGED vars
  PROVE  IInv'
<1>1. TypeOK'
  BY DEF IInv, TypeOK, vars
<1>2. StagesAgree' /\ QueueAgrees'
  BY DEF IInv, StagesAgree, QueueAgrees, In, vars
<1>3. PendingAgrees' /\ DoomedGone'
  BY DEF IInv, PendingAgrees, DoomedGone, In, vars
<1>4. HeldInTime' /\ NoOrphan'
  BY DEF IInv, HeldInTime, NoOrphan, In, vars
<1> QED BY <1>1, <1>2, <1>3, <1>4 DEF IInv

LEMMA Inductive == Spec => []IInv
<1>1. IInv /\ [Next]_vars => IInv'
  BY NextKeeps, StutterKeeps
<1> QED BY <1>1, InitIInv, PTL DEF Spec

-----------------------------------------------------------------------------
\* Every variable keeps its type (the state ExportManager keeps).
THEOREM TypeCorrect == Spec => []TypeOK
BY Inductive, PTL DEF IInv

\* A file handed out by file() stays for the time it was given, whatever the
\* janitor and other callers do and however many jobs and workers there are.
THEOREM HandedOut == Spec => []HandedOutStays
<1>1. IInv => HandedOutStays
  <2> SUFFICES ASSUME IInv, NEW j \in Jobs, held[j] > 0
               PROVE  "final" \in files[j]
      BY DEF HandedOutStays
  <2>1. In(j, "ready")
    BY DEF IInv, HeldInTime
  <2> QED BY <2>1 DEF IInv, StagesAgree
<1> QED BY <1>1, Inductive, PTL

\* Every file on disk belongs to a job in the table or is about to be deleted.
THEOREM NoFileForgotten == Spec => []NoOrphan
BY Inductive, PTL DEF IInv

\* The handlers of _run never meet a job that was taken away: a job in a
\* worker's hands stays in the table.
THEOREM WorkedOnStays == Spec => [](\A j \in Jobs : work[j] # "none" => jobs[j] # None)
<1>1. IInv => \A j \in Jobs : work[j] # "none" => jobs[j] # None
  BY AtWork
<1> QED BY <1>1, Inductive, PTL
=============================================================================
