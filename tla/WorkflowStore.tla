---------------------------- MODULE WorkflowStore ----------------------------
(***************************************************************************)
(* pstb/workflows.py: WorkflowStore, one workflow.  Several processes      *)
(* (CLI calls, review screens) share a checkpoint file and a lock file     *)
(* made by exclusive creation.  run_next claims the current phase in one   *)
(* critical section, runs the playbook with no lock held, and checkpoints  *)
(* the result in a second one; review is a critical section guarded by the *)
(* revision its caller was shown.                                          *)
(***************************************************************************)
EXTENDS Naturals

CONSTANTS
  Proc,             \* processes that call the store
  Nobody,           \* no lock file
  NPhases,          \* phases of the workflow (1 to 3 in WORKFLOWS)
  Scope,            \* fully explicit scopes (unit, ledger, year, period)
  Unset,            \* the scope was left to the deployment's defaults
  MaxClaims,        \* bound: no run is begun once this many were claimed
  MaxRevision,      \* bound: no review is begun from this revision on
  MaxCrashes,       \* bound: processes killed in mid-call
  ConcurrentBreak,  \* may two callers break the same stale lock at once?
  IoErrors          \* may an unlink or a checkpoint write raise?

ASSUME ConstantsAssumption ==
  /\ NPhases \in Nat \ {0}
  /\ Nobody \notin Proc
  /\ Unset \notin Scope
  /\ Scope # {}
  /\ MaxClaims \in Nat /\ MaxRevision \in Nat /\ MaxCrashes \in Nat
  /\ ConcurrentBreak \in BOOLEAN /\ IoErrors \in BOOLEAN

VARIABLES
  file,       \* the checkpoint <id>.json
  lockBy,     \* whose <id>.lock exists
  lockStale,  \* that lock file is older than 120 seconds
  pc,         \* where each process is
  op,         \* the critical section it is in, or on its way to
  buf,        \* what it read under the lock
  seen,       \* the checkpoint its user is looking at
  exec,       \* the execution it holds: token, phase, scope run for
  claims,     \* execution tokens issued so far; the last one's number
  expired,    \* tokens up to this number are past lease_expires_at
  default,    \* the scope the deployment resolves an unset one to
  crashes

vars == <<file, lockBy, lockStale, pc, op, buf, seen, exec, claims, expired,
          default, crashes>>

Phases == 1..NPhases
Open == {"pending", "running", "awaiting_review"}
ReviewOps == {"accept", "rerun", "cancel"}
Holds(p) == pc[p] \in {"read", "write", "unlock"}

\* A phase of the checkpoint.  token stands for execution_token together with
\* lease_expires_at, which are set and popped together; result and ranFor
\* stand for result_hash, verdict and counts: which execution produced them
\* and for which scope.
PhaseState == [status : Open \cup {"reviewed", "cancelled"}, attempts : Nat,
               token : Nat, result : Nat, ranFor : Scope \cup {Unset}]

Checkpoint ==
  [status : {"absent", "pending", "running", "awaiting_review", "completed",
             "cancelled"},
   revision : Nat, phases : [Phases -> PhaseState],
   active : 0..NPhases, scope : Scope \cup {Unset}]

NewPhase == [status |-> "pending", attempts |-> 0, token |-> 0, result |-> 0,
             ranFor |-> Unset]

NoFile == [status |-> "absent", revision |-> 0,
           phases |-> [i \in Phases |-> NewPhase], active |-> 0,
           scope |-> Unset]

NoExec == [token |-> 0, phase |-> 1, scope |-> Unset]

TypeOK ==
  /\ file \in Checkpoint
  /\ lockBy \in Proc \cup {Nobody}
  /\ lockStale \in BOOLEAN
  /\ pc \in [Proc -> {"idle", "viewing", "lock", "break", "read", "write",
                      "unlock", "exec"}]
  /\ op \in [Proc -> {"none", "run", "commit"} \cup ReviewOps]
  /\ buf \in [Proc -> Checkpoint]
  /\ seen \in [Proc -> Checkpoint]
  /\ exec \in [Proc -> [token : Nat, phase : Phases,
                        scope : Scope \cup {Unset}]]
  /\ claims \in Nat /\ expired \in Nat /\ crashes \in Nat
  /\ default \in Scope

Init ==
  /\ file = NoFile
  /\ lockBy = Nobody
  /\ lockStale = FALSE
  /\ pc = [p \in Proc |-> "idle"]
  /\ op = [p \in Proc |-> "none"]
  /\ buf = [p \in Proc |-> NoFile]
  /\ seen = [p \in Proc |-> NoFile]
  /\ exec = [p \in Proc |-> NoExec]
  /\ claims = 0
  /\ expired = 0
  /\ default \in Scope
  /\ crashes = 0

-----------------------------------------------------------------------------
(* Reading a checkpoint *)

\* Faulty: any phase still open, not the first one.
ActivePhaseAny(f) == {i \in Phases : f.phases[i].status \in Open}

\* _active: the first phase that is neither reviewed nor cancelled.
ActivePhase(f) == {i \in Phases : /\ f.phases[i].status \in Open
                                  /\ \A j \in Phases :
                                       f.phases[j].status \in Open => i <= j}

\* Faulty: the lease is not looked at.
LeaseFreeAlways(ph) == ph.status \in {"pending", "running"}

\* run_next starts an execution of phase i: a pending phase, or a running one
\* whose lease ran out.
LeaseFree(ph) ==
  \/ ph.status = "pending"
  \/ ph.status = "running" /\ ph.token <= expired

Claimable(f, i) ==
  /\ f.status \notin {"completed", "cancelled"}
  /\ i \in ActivePhase(f)
  /\ LeaseFree(f.phases[i])

\* The second section takes the result only from the execution in charge.
InCharge(f, x) ==
  /\ f.status # "cancelled"
  /\ f.phases[x.phase].status = "running"
  /\ f.phases[x.phase].token = x.token

\* Faulty: the displayed revision is not compared.
ReviewableUnseen(f, d, shown) ==
  d # "cancel" => \E i \in ActivePhase(f) :
                    f.phases[i].status = "awaiting_review"

Reviewable(f, d, shown) ==
  /\ f.revision = shown.revision
  /\ d # "cancel" => \E i \in ActivePhase(f) :
                       f.phases[i].status = "awaiting_review"

Permitted(f, p) ==
  CASE op[p] = "run"    -> \E i \in Phases : Claimable(f, i)
    [] op[p] = "commit" -> InCharge(f, exec[p])
    [] OTHER            -> Reviewable(f, op[p], seen[p])

-----------------------------------------------------------------------------
(* Computing the next checkpoint *)

\* What happens to the phase ...
Granted(ph, t) == [ph EXCEPT !.status = "running", !.attempts = @ + 1,
                             !.token = t]
Reported(ph, x) == [ph EXCEPT !.status = "awaiting_review",
                              !.result = x.token, !.ranFor = x.scope,
                              !.token = 0]
Reset(ph) == [ph EXCEPT !.status = "pending", !.result = 0,
                        !.ranFor = Unset, !.token = 0]
CalledOff(ph) == [ph EXCEPT !.status = "cancelled", !.token = 0]

\* ... and to the checkpoint around it.
\* Faulty: claiming a phase does not count the revision.
ClaimedSilently(f, i, t) ==
  [f EXCEPT !.status = "running",
            !.phases[i] = Granted(@, t)]

Claimed(f, i, t) ==
  [f EXCEPT !.status = "running", !.revision = @ + 1,
            !.phases[i] = Granted(@, t)]

\* Defaults the engine resolved become explicit; a failed playbook names none.
Pinned(scope, ran) == IF ran = Unset THEN scope ELSE ran

\* Faulty: the defaults the run resolved stay implicit.
CommittedUnpinned(f, x) ==
  [f EXCEPT !.status = "awaiting_review", !.revision = @ + 1,
            !.phases[x.phase] = Reported(@, x),
            !.active = x.phase]

Committed(f, x) ==
  [f EXCEPT !.status = "awaiting_review", !.revision = @ + 1,
            !.phases[x.phase] = Reported(@, x),
            !.scope = Pinned(@, x.scope),
            !.active = x.phase]

\* active_phase after the current phase was accepted: the first pending one,
\* or 0 for None.
Following(f) == {j \in Phases : f.phases[j].status = "pending"}

NextUp(f, i) == IF Following(f) = {} THEN {0}
                ELSE {j \in Following(f) : \A k \in Following(f) : j <= k}

Accepted(f, i, next) ==
  [f EXCEPT !.status = IF next = 0 THEN "completed" ELSE "pending",
            !.revision = @ + 1,
            !.phases[i] = [@ EXCEPT !.status = "reviewed"],
            !.active = next]

RerunAsked(f, i) ==
  [f EXCEPT !.status = "pending", !.revision = @ + 1,
            !.phases[i] = Reset(@)]

\* Cancelling has no status guard: a completed workflow can be cancelled too.
Cancelled(f) ==
  [f EXCEPT !.status = "cancelled", !.revision = @ + 1,
            !.phases = [i \in Phases |->
                          IF i \in ActivePhase(f)
                          THEN CalledOff(f.phases[i])
                          ELSE f.phases[i]]]

-----------------------------------------------------------------------------
(* A call, from its first line to its return *)

\* Leaving the store, by return, by exception or by being killed.
Gone(p) ==
  /\ pc' = [pc EXCEPT ![p] = "idle"]
  /\ op' = [op EXCEPT ![p] = "none"]
  /\ seen' = [seen EXCEPT ![p] = NoFile]
  /\ exec' = [exec EXCEPT ![p] = NoExec]

\* start: nobody else knows the new id, so its critical section is one step.
Start(p) ==
  /\ pc[p] = "idle"
  /\ file.status = "absent"
  /\ \E s \in Scope \cup {Unset} :
       file' = [NoFile EXCEPT !.status = "pending", !.revision = 1,
                              !.active = 1, !.scope = s]
  /\ UNCHANGED <<lockBy, lockStale, pc, op, buf, seen, exec, claims, expired,
                 default, crashes>>

\* get: a screen shows the checkpoint; the file is replaced whole, so the
\* read needs no lock.
View(p) ==
  /\ pc[p] = "idle"
  /\ file.status # "absent"
  /\ file.revision < MaxRevision
  /\ pc' = [pc EXCEPT ![p] = "viewing"]
  /\ seen' = [seen EXCEPT ![p] = file]
  /\ UNCHANGED <<file, lockBy, lockStale, op, buf, exec, claims, expired,
                 default, crashes>>

BeginReview(p, d) ==
  /\ pc[p] = "viewing"
  /\ pc' = [pc EXCEPT ![p] = "lock"]
  /\ op' = [op EXCEPT ![p] = d]
  /\ UNCHANGED <<file, lockBy, lockStale, buf, seen, exec, claims, expired,
                 default, crashes>>

BeginRun(p) ==
  /\ pc[p] = "idle"
  /\ file.status # "absent"
  /\ claims < MaxClaims
  /\ pc' = [pc EXCEPT ![p] = "lock"]
  /\ op' = [op EXCEPT ![p] = "run"]
  /\ UNCHANGED <<file, lockBy, lockStale, buf, seen, exec, claims, expired,
                 default, crashes>>

\* os.open with O_CREAT and O_EXCL succeeds.
TakeLock(p) ==
  /\ pc[p] = "lock"
  /\ lockBy = Nobody
  /\ lockBy' = p
  /\ lockStale' = FALSE
  /\ pc' = [pc EXCEPT ![p] = "read"]
  /\ UNCHANGED <<file, op, buf, seen, exec, claims, expired, default, crashes>>

\* The lock is fresh and the three-second deadline passes: WorkflowError.
\* Polling until then changes nothing.
LockBusy(p) ==
  /\ pc[p] = "lock"
  /\ lockBy # Nobody
  /\ ~lockStale
  /\ Gone(p)
  /\ UNCHANGED <<file, lockBy, lockStale, buf, claims, expired, default,
                 crashes>>

\* stat says the lock is older than 120 seconds ...
FindStale(p) ==
  /\ pc[p] = "lock"
  /\ lockBy # Nobody
  /\ lockStale
  /\ ~ConcurrentBreak => \A q \in Proc : pc[q] # "break"
  /\ pc' = [pc EXCEPT ![p] = "break"]
  /\ UNCHANGED <<file, lockBy, lockStale, op, buf, seen, exec, claims, expired,
                 default, crashes>>

\* Removing <id>.lock, whoever made the file that is there now.
Unlink ==
  \/ lockBy' = Nobody /\ lockStale' = FALSE
  \/ IoErrors /\ UNCHANGED <<lockBy, lockStale>>

\* ... and it is unlinked, then the exclusive creation is tried again.
BreakLock(p) ==
  /\ pc[p] = "break"
  /\ Unlink
  /\ pc' = [pc EXCEPT ![p] = "lock"]
  /\ UNCHANGED <<file, op, buf, seen, exec, claims, expired, default, crashes>>

\* Read the checkpoint; either go on to change it or return what it says.
Read(p) ==
  /\ pc[p] = "read"
  /\ IF Permitted(file, p)
     THEN /\ pc' = [pc EXCEPT ![p] = "write"]
          /\ buf' = [buf EXCEPT ![p] = file]
     ELSE /\ pc' = [pc EXCEPT ![p] = "unlock"]
          /\ UNCHANGED buf
  /\ UNCHANGED <<file, lockBy, lockStale, op, seen, exec, claims, expired,
                 default, crashes>>

\* _write: the new checkpoint is built beside the old one and replaces it in
\* one step.  It may raise before the replacement, or (chmod) after it.
Replace(p, new, completes) ==
  /\ \/ completes /\ file' = new
     \/ /\ ~completes
        /\ IoErrors
        /\ file' \in {file, new}
  /\ pc' = [pc EXCEPT ![p] = "unlock"]
  /\ buf' = [buf EXCEPT ![p] = NoFile]
  /\ UNCHANGED <<lockBy, lockStale, op, seen, expired, default, crashes>>

\* The call learns its token only when the write returned.
WriteClaim(p, completes) ==
  /\ pc[p] = "write"
  /\ op[p] = "run"
  /\ \E i \in ActivePhase(buf[p]) :
       /\ Replace(p, Claimed(buf[p], i, claims + 1), completes)
       /\ exec' = IF completes
                  THEN [exec EXCEPT ![p] = [token |-> claims + 1, phase |-> i,
                                            scope |-> buf[p].scope]]
                  ELSE exec
  /\ claims' = IF file' = file THEN claims ELSE claims + 1

WriteCommit(p, completes) ==
  /\ pc[p] = "write"
  /\ op[p] = "commit"
  /\ Replace(p, Committed(buf[p], exec[p]), completes)
  /\ UNCHANGED <<exec, claims>>

WriteReview(p, completes) ==
  /\ pc[p] = "write"
  /\ \/ \E i \in ActivePhase(buf[p]) :
          \/ /\ op[p] = "accept"
             /\ \E n \in NextUp(buf[p], i) :
                  Replace(p, Accepted(buf[p], i, n), completes)
          \/ /\ op[p] = "rerun"
             /\ Replace(p, RerunAsked(buf[p], i), completes)
     \/ op[p] = "cancel" /\ Replace(p, Cancelled(buf[p]), completes)
  /\ UNCHANGED <<exec, claims>>

\* Leaving the with-block; a run that got its claim goes on to the playbook.
Unlock(p) ==
  /\ pc[p] = "unlock"
  /\ Unlink
  /\ IF op[p] = "run" /\ exec[p].token # 0
     THEN /\ pc' = [pc EXCEPT ![p] = "exec"]
          /\ UNCHANGED <<op, seen, exec>>
     ELSE Gone(p)
  /\ UNCHANGED <<file, buf, claims, expired, default, crashes>>

\* playbook_runner.run resolves an unset scope from today's defaults; one
\* that raises yields an "incomplete" result naming no scope.
RunPlaybook(p) ==
  /\ pc[p] = "exec"
  /\ \E ran \in {Unset, Pinned(default, exec[p].scope)} :
       exec' = [exec EXCEPT ![p].scope = ran]
  /\ pc' = [pc EXCEPT ![p] = "lock"]
  /\ op' = [op EXCEPT ![p] = "commit"]
  /\ UNCHANGED <<file, lockBy, lockStale, buf, seen, claims, expired, default,
                 crashes>>

-----------------------------------------------------------------------------
(* What happens around the calls *)

\* A process is killed: its lock file, if any, stays.
Crash(p) ==
  /\ pc[p] \notin {"idle", "viewing"}
  /\ crashes < MaxCrashes
  /\ crashes' = crashes + 1
  /\ Gone(p)
  /\ buf' = [buf EXCEPT ![p] = NoFile]
  /\ UNCHANGED <<file, lockBy, lockStale, claims, expired, default>>

\* 120 seconds pass and the process that made the lock file does not hold it
\* any more.  (A live holder needs milliseconds; one that stalls for two
\* minutes would have its lock broken under it.)
LockAges ==
  /\ lockBy # Nobody
  /\ ~lockStale
  /\ ~Holds(lockBy)
  /\ lockStale' = TRUE
  /\ UNCHANGED <<file, lockBy, pc, op, buf, seen, exec, claims, expired,
                 default, crashes>>

\* All leases are 15 minutes long, so they run out in the order of issue.
LeaseExpires ==
  /\ expired < claims
  /\ expired' = expired + 1
  /\ UNCHANGED <<file, lockBy, lockStale, pc, op, buf, seen, exec, claims,
                 default, crashes>>

DefaultsChange ==
  /\ default' \in Scope \ {default}
  /\ UNCHANGED <<file, lockBy, lockStale, pc, op, buf, seen, exec, claims,
                 expired, crashes>>

Call(p) ==
  \/ TakeLock(p) \/ LockBusy(p) \/ FindStale(p) \/ BreakLock(p) \/ Read(p)
  \/ \E completes \in BOOLEAN : WriteClaim(p, completes)
                                \/ WriteCommit(p, completes)
                                \/ WriteReview(p, completes)
  \/ Unlock(p) \/ RunPlaybook(p)

Next ==
  \/ \E p \in Proc : \/ Start(p) \/ View(p) \/ BeginRun(p)
                     \/ \E d \in ReviewOps : BeginReview(p, d)
                     \/ Call(p)
                     \/ Crash(p)
  \/ LockAges \/ LeaseExpires \/ DefaultsChange

Spec == Init /\ [][Next]_vars

-----------------------------------------------------------------------------
(* Properties *)

\* The exclusively created lock file admits one process to the read-change-
\* write section at a time, although it may be broken, left behind by a
\* crash, or fail to be unlinked.
MutualExclusion == \A p, q \in Proc : Holds(p) /\ Holds(q) => p = q

\* run_next: "Normal calls cannot run the same control twice concurrently."
\* Two processes never run a playbook of this workflow at the same time,
\* unless the lease of one of them has run out.
NoConcurrentControl ==
  \A p, q \in Proc :
    /\ pc[p] = "exec" /\ exec[p].token > expired
    /\ pc[q] = "exec" /\ exec[q].token > expired
    => p = q

\* The phases a reviewer sees a result for, and the scope line above them,
\* belong together: once a phase has run, later phases (and reruns) are for
\* the scope it was run for, whatever happens to the deployment's defaults.
OneScope ==
  \A i \in Phases : \/ file.phases[i].ranFor = Unset
                    \/ file.phases[i].ranFor = file.scope

\* The summary the list and the console show agrees with the phases it sums
\* up: completed exactly when a human has read every phase, and otherwise
\* the status and number of the phase that is up.
StatusAgrees ==
  file.status \notin {"absent", "cancelled"} =>
    /\ file.status = "completed"
         <=> \A i \in Phases : file.phases[i].status = "reviewed"
    /\ file.status = "completed" <=> file.active = 0
    /\ file.status # "completed" =>
         /\ file.active \in ActivePhase(file)
         /\ file.status = file.phases[file.active].status
         /\ file.status = "running" => file.phases[file.active].token # 0

\* Every change of an existing checkpoint counts the revision up by one:
\* no write is built on a checkpoint that another write has replaced.
NoLostUpdate ==
  [][file' # file /\ file.status # "absent"
     => file'.revision = file.revision + 1]_vars

\* review: a decision is applied to the very checkpoint its user was shown,
\* in every field, although only the revision number is compared.
DecidesWhatWasShown ==
  [][\A p \in Proc : (/\ op[p] \in ReviewOps
                      /\ pc[p] = "write" /\ pc'[p] = "unlock"
                      /\ file' # file)
                     => file = seen[p]]_vars

\* "Never let this superseded execution overwrite its result": the write of
\* a result finds the phase still held under the writer's own token.
SupersededDiscarded ==
  [][\A p \in Proc : (/\ op[p] = "commit"
                      /\ pc[p] = "write" /\ pc'[p] = "unlock"
                      /\ file' # file)
                     => /\ file.phases[exec[p].phase].status = "running"
                        /\ file.phases[exec[p].phase].token = exec[p].token]_vars

\* Why at most one process is inside: the lock file is the holder's own and
\* young; one that is being broken is old, and only one caller breaks it.
LockInv ==
  /\ \A p \in Proc : Holds(p) => lockBy = p /\ ~lockStale
  /\ \A p \in Proc : pc[p] = "break" => lockBy # Nobody /\ lockStale
  /\ \A p, q \in Proc : pc[p] = "break" /\ pc[q] = "break" => p = q

\* p claimed a phase, has not reported yet, and its lease is still good.
Live(p) == /\ op[p] = "run"
           /\ pc[p] \in {"unlock", "exec"}
           /\ exec[p].token > expired

\* Why no two executions run under good leases.  A call holds a token only
\* between its claim and its report ...
HoldsToken(p) ==
  /\ exec[p].token # 0 => \/ op[p] = "commit"
                          \/ op[p] = "run" /\ pc[p] \in {"unlock", "exec"}
  /\ op[p] = "commit" \/ pc[p] = "exec" => exec[p].token # 0
  /\ pc[p] = "exec" => op[p] = "run"
  /\ pc[p] \in {"idle", "viewing"} => op[p] = "none"

\* ... a phase is only up when all later ones are untouched, and a cancelled
\* workflow has none that is up ...
PhasesInOrder ==
  /\ \A i, j \in Phases : i < j /\ file.phases[i].status \in Open
                          => file.phases[j].status = "pending"
  /\ file.status = "cancelled" =>
       \A i \in Phases :
         file.phases[i].status \notin {"running", "awaiting_review"}
  /\ \A i \in Phases : file.phases[i].token <= claims

\* ... and under the lock, what was read is still there and still permits the
\* change; tokens are never shared; a live execution is the one the
\* checkpoint names, unless the workflow was cancelled.
WorkInv ==
  /\ PhasesInOrder
  /\ \A p \in Proc : pc[p] = "write" => buf[p] = file /\ Permitted(file, p)
  /\ \A p \in Proc : HoldsToken(p)
  /\ \A p \in Proc : exec[p].token <= claims
  /\ \A p, q \in Proc : exec[p].token = exec[q].token /\ exec[p].token # 0
                        => p = q
  /\ \A p \in Proc : file.status = "absent" => pc[p] = "idle"
  /\ \A p \in Proc : Live(p) =>
       \/ file.status = "cancelled"
       \/ /\ file.phases[exec[p].phase].status = "running"
          /\ file.phases[exec[p].phase].token = exec[p].token
  /\ \A p, q \in Proc : Live(p) /\ Live(q) => p = q

\* Why the revision stands for the checkpoint: what a user is shown is never
\* ahead of the file, and is the file itself while the numbers agree.
SeenInv ==
  /\ file.status = "absent" \/ file.revision = 0 => file = NoFile
  /\ \A p \in Proc : /\ seen[p].revision <= file.revision
                     /\ seen[p].revision = file.revision => seen[p] = file

\* The invariant the proofs rest on.
StoreInv == LockInv /\ WorkInv /\ SeenInv

\* Why results belong to the scope above them: an execution that may still
\* report was claimed under that scope, or under one left to the defaults.
RanUnder(p) ==
  exec[p].token # 0 /\ InCharge(file, exec[p]) =>
    \/ exec[p].scope = file.scope
    \/ op[p] # "run" /\ Unset \in {exec[p].scope, file.scope}

ScopeInv == OneScope /\ \A p \in Proc : RanUnder(p)

\* Why the phases follow the protocol: the open ones are those past some k,
\* only a running one has a token, only a cancelled workflow a cancelled one.
PhaseInv ==
  /\ \E k \in 0..NPhases :
       \A i \in Phases : file.phases[i].status \in Open <=> k < i
  /\ \A i \in Phases : file.phases[i].status = "running"
                         \/ file.phases[i].token = 0
  /\ file.status # "cancelled" =>
       \A i \in Phases : file.phases[i].status # "cancelled"

\* The concurrent store behaves like the protocol of ReviewProtocol.
Protocol == INSTANCE ReviewProtocol WITH
  stage   <- [i \in Phases |-> file.phases[i].status],
  grant   <- [i \in Phases |-> file.phases[i].token],
  outcome <- [i \in Phases |-> file.phases[i].result],
  issued  <- claims,
  lapsed  <- expired,
  over    <- file.status = "cancelled"

\* Only the current phase is run, by one grant at a time; only the current
\* grant's result is shown; nothing is passed over without a human decision.
FollowsProtocol == Protocol!Spec

=============================================================================
