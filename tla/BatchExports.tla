---------------------------- MODULE BatchExports ----------------------------
(***************************************************************************)
(* pstb/batch_export.py: CSV exports made in the background.  A job is put  *)
(* into a table under a lock and then given to a small pool; a worker       *)
(* writes a partial file and renames it; the file may be downloaded until   *)
(* the job expires, when whoever calls next, or the janitor, takes the job  *)
(* out of the table and deletes its files.  close() stops all that; a crash *)
(* forgets the jobs, and the next manager deletes their files.  The system  *)
(* may refuse to delete a file, say because someone reads it: the error is  *)
(* swallowed.  Times are what is left of them.                              *)
(***************************************************************************)
EXTENDS Naturals, Sequences, FiniteSets

CONSTANTS
  Jobs,      \* tokens; one is used again only when nothing is left of it
  Callers,   \* requests
  Janitor,   \* the thread that only cleans up
  Workers, MaxQueued,
  Ttl,       \* ttl_seconds
  Hold,      \* the 60 seconds a download is given to open the file
  None

Entries == [state : {"queued", "running", "ready", "failed"}, left : 0..Ttl]

ASSUME ExportConstants ==
  /\ None \notin Jobs /\ None \notin Entries
  /\ Janitor \notin Callers
  /\ Workers \in Nat \ {0} /\ MaxQueued \in Nat /\ MaxQueued >= Workers
  /\ Hold \in Nat \ {0} /\ Ttl \in Nat /\ Ttl >= Hold

Threads == Callers \cup {Janitor}

VARIABLES
  up,      \* there is a manager
  closed,  \* _closed
  shut,    \* the pool takes no more work
  jobs,    \* _jobs: [state, left] by token, or None
  queue,   \* the pool's work items that no worker has taken
  work,    \* by job in a worker's hands: "produce", "rename", "ready", "fail"
  files,   \* by token: subset of Kinds
  threads, \* what a caller is doing: [op, job, doomed]
  held,    \* ghost: by token, what is left of the time its file was handed out for
  refused  \* ghost: tokens of files that are there because deleting them failed

vars == <<up, closed, shut, jobs, queue, work, files, threads, held, refused>>

Kinds == {"part", "final"}

Doings == [op : {"submit", "file", "status", "clean", "rest"},
           at : {"rest", "delete", "act", "pool", "status"},
           job : Jobs \cup {None}, doomed : SUBSET Jobs]
Resting == [op |-> "rest", at |-> "rest", job |-> None, doomed |-> {}]
NotHeld == [j \in Jobs |-> 0]
Active(j) == jobs[j] # None /\ jobs[j].state \in {"queued", "running"}

TypeOK ==
  /\ up \in BOOLEAN /\ closed \in BOOLEAN /\ shut \in BOOLEAN
  /\ jobs \in [Jobs -> Entries \cup {None}]
  /\ queue \in Seq(Jobs)
  /\ work \in [Jobs -> {"none", "produce", "rename", "ready", "fail"}]
  /\ files \in [Jobs -> SUBSET Kinds]
  /\ threads \in [Threads -> Doings]
  /\ held \in [Jobs -> 0..Hold]
  /\ refused \subseteq Jobs

Fresh ==
  /\ closed' = FALSE /\ shut' = FALSE
  /\ jobs' = [j \in Jobs |-> None] /\ queue' = <<>>
  /\ work' = [j \in Jobs |-> "none"]
  /\ threads' = [t \in Threads |-> Resting]
  /\ held' = NotHeld

Init ==
  /\ up = FALSE /\ closed = FALSE /\ shut = FALSE
  /\ jobs = [j \in Jobs |-> None] /\ queue = <<>>
  /\ work = [j \in Jobs |-> "none"]
  /\ files = [j \in Jobs |-> {}]
  /\ threads = [t \in Threads |-> Resting]
  /\ held = NotHeld /\ refused = {}

\* unlink for every file of these tokens, each of which may fail
Unlink(tokens) ==
  /\ files' \in {f \in [Jobs -> SUBSET Kinds] : \A j \in Jobs :
                  f[j] \subseteq files[j] /\ (j \notin tokens => f[j] = files[j])}
  /\ refused' = {j \in tokens \cup refused : files'[j] # {}}

-----------------------------------------------------------------------------
(* The manager. *)

\* mutant of Create: the files of an earlier process stay
CreateKeepsFiles ==
  /\ ~up /\ up' = TRUE
  /\ Fresh /\ UNCHANGED <<files, refused>>

\* The first request that needs one makes the manager: _remove_orphans.
Create ==
  /\ ~up /\ up' = TRUE
  /\ Fresh /\ Unlink(Jobs)

Crash ==
  /\ up /\ up' = FALSE
  /\ Fresh /\ UNCHANGED <<files, refused>>

\* close(): no job is accepted, the janitor ends ...
Close ==
  /\ up /\ ~closed /\ closed' = TRUE
  /\ UNCHANGED <<up, shut, jobs, queue, work, files, threads, held, refused>>

\* ... and the pool drops what no worker has taken.
Shutdown ==
  /\ closed /\ ~shut /\ shut' = TRUE
  /\ queue' = <<>>
  /\ UNCHANGED <<up, closed, jobs, work, files, threads, held, refused>>

Tick ==
  /\ up
  /\ jobs' = [j \in Jobs |->
       IF jobs[j] = None \/ jobs[j].left = 0 THEN jobs[j]
       ELSE [jobs[j] EXCEPT !.left = @ - 1]]
  /\ held' = [j \in Jobs |-> IF held[j] = 0 THEN 0 ELSE held[j] - 1]
  /\ UNCHANGED <<up, closed, shut, queue, work, files, threads, refused>>

-----------------------------------------------------------------------------
(* A call: it cleans up, deletes what it took out, and then acts. *)

\* mutant of Expired: only a job that failed is taken out
ExpiredFailed == {j \in Jobs : jobs[j] # None /\ jobs[j].left = 0 /\ jobs[j].state = "failed"}

Expired == {j \in Jobs : jobs[j] # None /\ jobs[j].left = 0 /\ ~Active(j)}

\* cleanup(), under the lock: every call begins with it, and submit ends
\* with a status call of its own
CleanUp(t, op, j) ==
  /\ up
  /\ threads[t].at = "rest" \/ (threads[t].at = "status" /\ op = "status")
  /\ jobs' = [i \in Jobs |-> IF i \in Expired THEN None ELSE jobs[i]]
  /\ threads' = [threads EXCEPT ![t] =
                   [op |-> op, at |-> "delete", job |-> j, doomed |-> Expired]]
  /\ UNCHANGED <<up, closed, shut, queue, work, files, held, refused>>

\* _cleanup_loop, until close() stops it
JanitorCleans == ~closed /\ CleanUp(Janitor, "clean", None)

\* _delete, after the lock is released
Delete(t) ==
  /\ threads[t].at = "delete"
  /\ Unlink(threads[t].doomed)
  /\ threads' = [threads EXCEPT ![t] =
       IF threads[t].op \in {"clean", "status"} THEN Resting
       ELSE [@ EXCEPT !.at = "act", !.doomed = {}]]
  /\ UNCHANGED <<up, closed, shut, jobs, queue, work, held>>

\* Nothing is left of this token.
Free(j) ==
  /\ jobs[j] = None /\ files[j] = {} /\ work[j] = "none"
  /\ \A i \in DOMAIN queue : queue[i] # j
  /\ \A t \in Threads : threads[t].job # j /\ j \notin threads[t].doomed

\* submit, under the lock: refused when the service stops or is full
Accept(t, j) ==
  /\ threads[t].op = "submit" /\ threads[t].at = "act"
  /\ IF closed \/ Cardinality({i \in Jobs : Active(i)}) >= MaxQueued
     THEN threads' = [threads EXCEPT ![t] = Resting] /\ UNCHANGED jobs
     ELSE /\ Free(j)
          /\ jobs' = [jobs EXCEPT ![j] = [state |-> "queued", left |-> Ttl]]
          /\ threads' = [threads EXCEPT ![t].at = "pool", ![t].job = j]
  /\ UNCHANGED <<up, closed, shut, queue, work, files, held, refused>>

\* _pool.submit; a pool that is shut raises, and the job stays in the table
Enqueue(t) ==
  /\ threads[t].at = "pool"
  /\ IF shut
     THEN threads' = [threads EXCEPT ![t] = Resting] /\ UNCHANGED queue
     ELSE /\ queue' = Append(queue, threads[t].job)
          /\ threads' = [threads EXCEPT ![t].at = "status"]
  /\ UNCHANGED <<up, closed, shut, jobs, work, files, held, refused>>

\* mutant of File: the file is handed out for what is left of its time
FileUnextended(t) ==
  LET j == threads[t].job
  IN /\ threads[t].op = "file" /\ threads[t].at = "act"
     /\ IF jobs[j] # None /\ jobs[j].state = "ready"
        THEN held' = [held EXCEPT ![j] = Hold]
        ELSE UNCHANGED held
     /\ threads' = [threads EXCEPT ![t] = Resting]
     /\ UNCHANGED <<up, closed, shut, jobs, queue, work, files, refused>>

\* file(): a ready file is handed out, and stays long enough to be opened
File(t) ==
  LET j == threads[t].job
  IN /\ threads[t].op = "file" /\ threads[t].at = "act"
     /\ IF jobs[j] # None /\ jobs[j].state = "ready"
        THEN /\ jobs' = [jobs EXCEPT ![j].left = IF @ > Hold THEN @ ELSE Hold]
             /\ held' = [held EXCEPT ![j] = Hold]
        ELSE UNCHANGED <<jobs, held>>
     /\ threads' = [threads EXCEPT ![t] = Resting]
     /\ UNCHANGED <<up, closed, shut, queue, work, files, refused>>

-----------------------------------------------------------------------------
(* A worker: _run. *)

Busy == Cardinality({j \in Jobs : work[j] # "none"})

Start ==
  /\ queue # <<>> /\ Busy < Workers
  /\ LET j == Head(queue)
     IN /\ jobs' = IF jobs[j] = None THEN jobs ELSE [jobs EXCEPT ![j].state = "running"]
        /\ work' = [work EXCEPT ![j] = IF jobs[j] = None THEN "none" ELSE "produce"]
  /\ queue' = Tail(queue)
  /\ UNCHANGED <<up, closed, shut, files, threads, held, refused>>

\* The producer writes the partial file, or raises with or without one.
Produce(j) ==
  /\ work[j] = "produce"
  /\ \/ /\ files' = [files EXCEPT ![j] = @ \cup {"part"}]
        /\ work' \in {[work EXCEPT ![j] = w] : w \in {"rename", "fail"}}
     \/ work' = [work EXCEPT ![j] = "fail"] /\ UNCHANGED files
  /\ UNCHANGED <<up, closed, shut, jobs, queue, threads, held, refused>>

\* os.replace, which may fail
Rename(j) ==
  /\ work[j] = "rename"
  /\ \/ /\ "part" \in files[j]
        /\ files' = [files EXCEPT ![j] = {"final"}]
        /\ work' = [work EXCEPT ![j] = "ready"]
     \/ work' = [work EXCEPT ![j] = "fail"] /\ UNCHANGED files
  /\ UNCHANGED <<up, closed, shut, jobs, queue, threads, held, refused>>

\* Under the lock: the job is ready, or was taken away and its file goes.
Ready(j) ==
  /\ work[j] = "ready" /\ work' = [work EXCEPT ![j] = "none"]
  /\ IF jobs[j] = None
     THEN Unlink({j}) /\ UNCHANGED jobs
     ELSE /\ jobs' = [jobs EXCEPT ![j] = [state |-> "ready", left |-> Ttl]]
          /\ UNCHANGED <<files, refused>>
  /\ UNCHANGED <<up, closed, shut, queue, threads, held>>

\* mutant of Fail: the state is left as it was
FailSilently(j) ==
  /\ work[j] = "fail" /\ work' = [work EXCEPT ![j] = "none"]
  /\ Unlink({j})
  /\ UNCHANGED <<up, closed, shut, jobs, queue, threads, held>>

\* The handler of every error: its files go, then the job has failed.
Fail(j) ==
  /\ work[j] = "fail" /\ work' = [work EXCEPT ![j] = "none"]
  /\ Unlink({j})
  /\ jobs' = IF jobs[j] = None THEN jobs
             ELSE [jobs EXCEPT ![j] = [state |-> "failed", left |-> Ttl]]
  /\ UNCHANGED <<up, closed, shut, queue, threads, held>>

-----------------------------------------------------------------------------
WorkerStep == Start \/ \E j \in Jobs : Produce(j) \/ Rename(j) \/ Ready(j) \/ Fail(j)

ThreadStep(t) ==
  \/ Delete(t) \/ Enqueue(t) \/ File(t)
  \/ \E j \in Jobs : Accept(t, j)
  \/ threads[t].at = "status" /\ CleanUp(t, "status", None)

Next ==
  \/ Create \/ Crash \/ Close \/ Shutdown \/ Tick
  \/ \E t \in Callers : CleanUp(t, "submit", None) \/ CleanUp(t, "status", None)
  \/ \E t \in Callers, j \in Jobs : CleanUp(t, "file", j)
  \/ JanitorCleans
  \/ \E t \in Threads : ThreadStep(t)
  \/ WorkerStep

\* Workers and callers go on, a producer ends, the janitor comes round and
\* time passes.
Fairness ==
  /\ WF_vars(WorkerStep) /\ WF_vars(JanitorCleans) /\ WF_vars(Tick)
  /\ \A t \in Threads : WF_vars(ThreadStep(t))

Spec == Init /\ [][Next]_vars /\ Fairness

-----------------------------------------------------------------------------
(* Properties. *)

\* A file that was handed out is there for as long as it may take to open it:
\* neither the janitor nor another call's cleanup removes it.
HandedOutStays == \A j \in Jobs : held[j] > 0 => "final" \in files[j]

\* No file is forgotten: it belongs to a job in the table, or to a thread that
\* is about to delete it, or deleting it was tried and the system refused.
NoOrphan ==
  up => \A j \in Jobs :
          files[j] # {} => \/ jobs[j] # None
                           \/ \E t \in Threads : j \in threads[t].doomed
                           \/ j \in refused

\* A job that was accepted ends, also one that runs when the service is
\* closed; only one that no worker has taken by then is left where it is.
EveryJobEnds ==
  \A j \in Jobs :
    Active(j) ~> ~Active(j) \/ (closed /\ jobs[j].state = "queued")

\* While the service runs, a file goes once nobody downloads it any more, unless
\* the system refused to delete it when its job had left the table.
FilesGo ==
  \A j \in Jobs :
    files[j] # {} ~> \/ files[j] = {} \/ held[j] > 0 \/ closed \/ ~up
                     \/ j \in refused /\ jobs[j] = None
=============================================================================
