------------------------ MODULE WorkflowStore_proofs ------------------------
(* Proofs about WorkflowStore, for any processes, phases and scopes.       *)
EXTENDS WorkflowStore, TLAPS

(***************************************************************************)
(* Every checkpoint the store computes from a checkpoint is one.           *)
(***************************************************************************)
LEMMA NoFileType == NoFile \in Checkpoint
  BY ConstantsAssumption DEF NoFile, Checkpoint, PhaseState, NewPhase, Open

LEMMA GrantedType ==
  \A ph \in PhaseState, t \in Nat : Granted(ph, t) \in PhaseState
<1> SUFFICES ASSUME NEW ph \in PhaseState, NEW t \in Nat
             PROVE  Granted(ph, t) \in PhaseState
  OBVIOUS
<1>1. ph.attempts + 1 \in Nat
  BY DEF PhaseState
<1>2. \A n \in Nat : [ph EXCEPT !.status = "running", !.attempts = n,
                                !.token = t] \in PhaseState
  BY DEF PhaseState, Open
<1>3. QED
  BY <1>1, <1>2 DEF Granted

Execution == [token : Nat, phase : Phases, scope : Scope \cup {Unset}]

LEMMA ReportedType ==
  \A ph \in PhaseState, x \in Execution : Reported(ph, x) \in PhaseState
  BY DEF Reported, PhaseState, Open, Execution

LEMMA ResetType == \A ph \in PhaseState : Reset(ph) \in PhaseState
  BY DEF Reset, PhaseState, Open

LEMMA Successor == \A r \in Nat : r + 1 \in Nat
  OBVIOUS

LEMMA Fields ==
  ASSUME NEW f \in Checkpoint
  PROVE  /\ f.revision + 1 \in Nat
         /\ \A i \in Phases : f.phases[i] \in PhaseState
         /\ f.scope \in Scope \cup {Unset}
<1>1. /\ f.revision \in Nat
      /\ f.phases \in [Phases -> PhaseState]
      /\ f.scope \in Scope \cup {Unset}
  BY DEF Checkpoint
<1>2. f.revision + 1 \in Nat
  BY <1>1, Successor, Zenon
<1>3. QED
  BY <1>1, <1>2

LEMMA PhaseNumbers == \A i \in Phases : i \in 0..NPhases
  BY ConstantsAssumption DEF Phases

LEMMA ClaimedType ==
  ASSUME NEW f \in Checkpoint, NEW i \in Phases, NEW t \in Nat
  PROVE  Claimed(f, i, t) \in Checkpoint
<1>1. f.revision + 1 \in Nat /\ Granted(f.phases[i], t) \in PhaseState
  BY GrantedType, Fields
<1>2. \A r \in Nat, ph \in PhaseState :
        [f EXCEPT !.status = "running", !.revision = r,
                  !.phases[i] = ph] \in Checkpoint
  BY DEF Checkpoint
<1>3. QED
  BY <1>1, <1>2 DEF Claimed

LEMMA CommittedType ==
  ASSUME NEW f \in Checkpoint, NEW x \in Execution
  PROVE  Committed(f, x) \in Checkpoint
<1> DEFINE i == x.phase
<1>1. i \in Phases /\ i \in 0..NPhases
  BY PhaseNumbers DEF Execution
<1>2. f.revision + 1 \in Nat /\ Reported(f.phases[i], x) \in PhaseState
  BY <1>1, ReportedType, Fields
<1>3. Pinned(f.scope, x.scope) \in Scope \cup {Unset}
  BY Fields DEF Pinned, Execution
<1> HIDE DEF i
<1>4. \A r \in Nat, ph \in PhaseState, s \in Scope \cup {Unset} :
        [f EXCEPT !.status = "awaiting_review", !.revision = r,
                  !.phases[i] = ph, !.scope = s, !.active = i] \in Checkpoint
  BY <1>1 DEF Checkpoint
<1>5. QED
  BY <1>2, <1>3, <1>4 DEF Committed, i

LEMMA AcceptedType ==
  ASSUME NEW f \in Checkpoint, NEW i \in Phases, NEW n \in NextUp(f, i)
  PROVE  Accepted(f, i, n) \in Checkpoint
<1>1. n \in 0..NPhases
  BY ConstantsAssumption, PhaseNumbers DEF NextUp, Following
<1>2. f.revision + 1 \in Nat
  BY Fields
<1>3. [f.phases[i] EXCEPT !.status = "reviewed"] \in PhaseState
  BY Fields DEF PhaseState
<1>4. \A r \in Nat, ph \in PhaseState, st \in {"completed", "pending"} :
        [f EXCEPT !.status = st, !.revision = r, !.phases[i] = ph,
                  !.active = n] \in Checkpoint
  BY <1>1 DEF Checkpoint
<1>5. QED
  BY <1>2, <1>3, <1>4 DEF Accepted

LEMMA RerunType ==
  ASSUME NEW f \in Checkpoint, NEW i \in Phases
  PROVE  RerunAsked(f, i) \in Checkpoint
<1>1. f.revision + 1 \in Nat /\ Reset(f.phases[i]) \in PhaseState
  BY ResetType, Fields
<1>2. \A r \in Nat, ph \in PhaseState :
        [f EXCEPT !.status = "pending", !.revision = r,
                  !.phases[i] = ph] \in Checkpoint
  BY DEF Checkpoint
<1>3. QED
  BY <1>1, <1>2 DEF RerunAsked

LEMMA CancelledType ==
  ASSUME NEW f \in Checkpoint
  PROVE  Cancelled(f) \in Checkpoint
<1> DEFINE phs == [i \in Phases |->
                     IF i \in ActivePhase(f)
                     THEN CalledOff(f.phases[i])
                     ELSE f.phases[i]]
<1>1. f.revision + 1 \in Nat
  BY Fields
<1>2. phs \in [Phases -> PhaseState]
  <2>1. \A ph \in PhaseState : CalledOff(ph) \in PhaseState
    BY DEF CalledOff, PhaseState, Open
  <2>2. QED
    BY <2>1, Fields
<1> HIDE DEF phs
<1>3. \A r \in Nat :
        [f EXCEPT !.status = "cancelled", !.revision = r,
                  !.phases = phs] \in Checkpoint
  BY <1>2 DEF Checkpoint
<1>4. QED
  BY <1>1, <1>3 DEF Cancelled, phs

(***************************************************************************)
(* Type correctness.                                                       *)
(***************************************************************************)
LEMMA NoExecType ==
  NoExec \in [token : Nat, phase : Phases, scope : Scope \cup {Unset}]
  BY ConstantsAssumption DEF NoExec, Phases

LEMMA TypeInit == Init => TypeOK
<1> SUFFICES ASSUME Init PROVE TypeOK
  OBVIOUS
<1>1. file \in Checkpoint /\ lockBy \in Proc \cup {Nobody}
  BY NoFileType DEF Init
<1>2. lockStale \in BOOLEAN /\ default \in Scope
  BY DEF Init
<1>3. /\ pc \in [Proc -> {"idle", "viewing", "lock", "break", "read", "write",
                         "unlock", "exec"}]
      /\ op \in [Proc -> {"none", "run", "commit"} \cup ReviewOps]
  BY DEF Init
<1>4. buf \in [Proc -> Checkpoint] /\ seen \in [Proc -> Checkpoint]
  BY NoFileType DEF Init
<1>5. exec \in [Proc -> [token : Nat, phase : Phases,
                        scope : Scope \cup {Unset}]]
  BY NoExecType DEF Init
<1>6. claims \in Nat /\ expired \in Nat /\ crashes \in Nat
  BY DEF Init
<1>7. QED
  BY <1>1, <1>2, <1>3, <1>4, <1>5, <1>6 DEF TypeOK

LEMMA TypeNext == TypeOK /\ [Next]_vars => TypeOK'
<1> SUFFICES ASSUME TypeOK, [Next]_vars PROVE TypeOK'
  OBVIOUS
<1> USE DEF TypeOK
<1>1. ASSUME NEW p \in Proc, Start(p) PROVE TypeOK'
  <2>1. 1 \in 0..NPhases
    BY ConstantsAssumption
  <2>2. \A s \in Scope \cup {Unset} :
          [NoFile EXCEPT !.status = "pending", !.revision = 1,
                         !.active = 1, !.scope = s] \in Checkpoint
    BY <2>1, NoFileType DEF Checkpoint
  <2>3. file' \in Checkpoint
    <3>1. PICK s \in Scope \cup {Unset} :
            file' = [NoFile EXCEPT !.status = "pending", !.revision = 1,
                                   !.active = 1, !.scope = s]
      BY <1>1, Zenon DEF Start
    <3>2. QED
      BY <2>2, <3>1, Zenon
  <2>4. QED
    BY <1>1, <2>3 DEF Start
<1>2. ASSUME NEW p \in Proc, View(p) PROVE TypeOK'
  BY <1>2 DEF View
<1>3. ASSUME NEW p \in Proc, BeginRun(p) PROVE TypeOK'
  BY <1>3 DEF BeginRun
<1>4. ASSUME NEW p \in Proc, NEW d \in ReviewOps, BeginReview(p, d)
      PROVE  TypeOK'
  BY <1>4 DEF BeginReview
<1>5. ASSUME NEW p \in Proc, TakeLock(p) PROVE TypeOK'
  BY <1>5 DEF TakeLock
<1>6. ASSUME NEW p \in Proc, LockBusy(p) PROVE TypeOK'
  BY <1>6, NoFileType, NoExecType DEF LockBusy, Gone
<1>7. ASSUME NEW p \in Proc, FindStale(p) PROVE TypeOK'
  BY <1>7 DEF FindStale
<1>8. ASSUME NEW p \in Proc, BreakLock(p) PROVE TypeOK'
  BY <1>8 DEF BreakLock, Unlink
<1>9. ASSUME NEW p \in Proc, Read(p) PROVE TypeOK'
  BY <1>9 DEF Read
<1>10. ASSUME NEW p \in Proc, NEW c \in BOOLEAN, WriteClaim(p, c)
       PROVE  TypeOK'
  <2>1. PICK i \in ActivePhase(buf[p]) :
          Replace(p, Claimed(buf[p], i, claims + 1), c)
    BY <1>10 DEF WriteClaim
  <2>2. i \in Phases /\ claims + 1 \in Nat
    BY DEF ActivePhase
  <2>3. Claimed(buf[p], i, claims + 1) \in Checkpoint
    BY <2>2, ClaimedType
  <2>4. exec' \in [Proc -> [token : Nat, phase : Phases,
                            scope : Scope \cup {Unset}]]
    BY <1>10, Fields DEF WriteClaim, ActivePhase
  <2>5. claims' \in Nat
    BY <1>10 DEF WriteClaim
  <2>6. QED
    BY <2>1, <2>3, <2>4, <2>5, NoFileType DEF Replace
<1>11. ASSUME NEW p \in Proc, NEW c \in BOOLEAN, WriteCommit(p, c)
       PROVE  TypeOK'
  <2>1. Committed(buf[p], exec[p]) \in Checkpoint
    BY CommittedType DEF Execution
  <2>2. QED
    BY <1>11, <2>1, NoFileType DEF WriteCommit, Replace
<1>12. ASSUME NEW p \in Proc, NEW c \in BOOLEAN, WriteReview(p, c)
       PROVE  TypeOK'
  <2>1. PICK new \in Checkpoint : Replace(p, new, c)
    BY <1>12, AcceptedType, RerunType, CancelledType
       DEF WriteReview, ActivePhase
  <2>2. UNCHANGED <<exec, claims>>
    BY <1>12 DEF WriteReview
  <2>3. QED
    BY <2>1, <2>2, NoFileType DEF Replace
<1>13. ASSUME NEW p \in Proc, Unlock(p) PROVE TypeOK'
  <2>1. lockBy' \in Proc \cup {Nobody} /\ lockStale' \in BOOLEAN
    BY <1>13 DEF Unlock, Unlink
  <2>2. \/ Gone(p)
        \/ pc' = [pc EXCEPT ![p] = "exec"] /\ UNCHANGED <<op, seen, exec>>
    BY <1>13 DEF Unlock
  <2>3. /\ pc' \in [Proc -> {"idle", "viewing", "lock", "break", "read",
                            "write", "unlock", "exec"}]
        /\ op' \in [Proc -> {"none", "run", "commit"} \cup ReviewOps]
        /\ seen' \in [Proc -> Checkpoint]
        /\ exec' \in [Proc -> [token : Nat, phase : Phases,
                               scope : Scope \cup {Unset}]]
    <3>1. CASE Gone(p)
      BY <3>1, NoFileType, NoExecType DEF Gone
    <3>2. CASE /\ pc' = [pc EXCEPT ![p] = "exec"]
               /\ UNCHANGED <<op, seen, exec>>
      BY <3>2
    <3>3. QED
      BY <2>2, <3>1, <3>2
  <2>4. QED
    BY <1>13, <2>1, <2>3 DEF Unlock
<1>14. ASSUME NEW p \in Proc, RunPlaybook(p) PROVE TypeOK'
  BY <1>14 DEF RunPlaybook, Pinned
<1>15. ASSUME NEW p \in Proc, Crash(p) PROVE TypeOK'
  BY <1>15, NoFileType, NoExecType DEF Crash, Gone
<1>16. CASE LockAges
  BY <1>16 DEF LockAges
<1>17. CASE LeaseExpires
  BY <1>17 DEF LeaseExpires
<1>18. CASE DefaultsChange
  BY <1>18 DEF DefaultsChange
<1>19. CASE UNCHANGED vars
  BY <1>19 DEF vars
<1>20. QED
  BY <1>1, <1>2, <1>3, <1>4, <1>5, <1>6, <1>7, <1>8, <1>9, <1>10, <1>11,
     <1>12, <1>13, <1>14, <1>15, <1>16, <1>17, <1>18, <1>19
     DEF Next, Call

\* Every variable keeps its type; in particular every checkpoint on disk is
\* well formed, whatever processes crash and whatever writes raise.
THEOREM TypeCorrect == Spec => []TypeOK
  BY TypeInit, TypeNext, PTL DEF Spec

(***************************************************************************)
(* Mutual exclusion, provided stale locks are broken one caller at a time. *)
(***************************************************************************)
LEMMA LockInit == Init => LockInv
  BY DEF Init, LockInv, Holds

LEMMA LockNext ==
  ~ConcurrentBreak /\ TypeOK /\ LockInv /\ [Next]_vars => LockInv'
<1> SUFFICES ASSUME ~ConcurrentBreak, TypeOK, LockInv, [Next]_vars
             PROVE  LockInv'
  OBVIOUS
<1> USE ConstantsAssumption DEF LockInv, Holds
<1>0. pc \in [Proc -> {"idle", "viewing", "lock", "break", "read", "write",
                       "unlock", "exec"}]
  BY DEF TypeOK
\* A step that leaves the lock alone and moves nobody into its scope.
<1>1. ASSUME UNCHANGED <<lockBy, lockStale>>,
             \A q \in Proc : /\ Holds(q)' => Holds(q)
                             /\ pc'[q] = "break" => pc[q] = "break"
      PROVE  LockInv'
  BY <1>1
<1>2. ASSUME NEW p \in Proc, Start(p) \/ View(p) \/ BeginRun(p)
      PROVE  LockInv'
  BY <1>0, <1>1, <1>2 DEF Start, View, BeginRun
<1>3. ASSUME NEW p \in Proc, NEW d \in ReviewOps, BeginReview(p, d)
      PROVE  LockInv'
  BY <1>0, <1>1, <1>3 DEF BeginReview
<1>4. ASSUME NEW p \in Proc, TakeLock(p) PROVE LockInv'
  BY <1>0, <1>4 DEF TakeLock
<1>5. ASSUME NEW p \in Proc, LockBusy(p) PROVE LockInv'
  BY <1>0, <1>1, <1>5 DEF LockBusy, Gone
<1>6. ASSUME NEW p \in Proc, FindStale(p) PROVE LockInv'
  BY <1>0, <1>6 DEF FindStale
<1>7. ASSUME NEW p \in Proc, BreakLock(p) PROVE LockInv'
  BY <1>0, <1>7 DEF BreakLock, Unlink
<1>8. ASSUME NEW p \in Proc, Read(p) PROVE LockInv'
  BY <1>0, <1>1, <1>8 DEF Read
<1>9. ASSUME NEW p \in Proc, NEW c \in BOOLEAN,
             WriteClaim(p, c) \/ WriteCommit(p, c) \/ WriteReview(p, c)
      PROVE  LockInv'
  <2>1. /\ pc[p] = "write"
        /\ pc' = [pc EXCEPT ![p] = "unlock"]
        /\ UNCHANGED <<lockBy, lockStale>>
    BY <1>9 DEF WriteClaim, WriteCommit, WriteReview, Replace
  <2>2. QED
    BY <1>0, <1>1, <2>1
<1>10. ASSUME NEW p \in Proc, Unlock(p) PROVE LockInv'
  <2>1. /\ pc[p] = "unlock"
        /\ pc' = [pc EXCEPT ![p] = "exec"] \/ pc' = [pc EXCEPT ![p] = "idle"]
        /\ Unlink
    BY <1>10 DEF Unlock, Gone
  <2>2. \A q \in Proc : ~Holds(q)' /\ pc'[q] # "break"
    BY <1>0, <2>1
  <2>3. QED
    BY <2>2
<1>11. ASSUME NEW p \in Proc, RunPlaybook(p) PROVE LockInv'
  BY <1>0, <1>1, <1>11 DEF RunPlaybook
<1>12. ASSUME NEW p \in Proc, Crash(p) PROVE LockInv'
  BY <1>0, <1>1, <1>12 DEF Crash, Gone
<1>13. CASE LockAges
  BY <1>0, <1>13 DEF LockAges
<1>14. CASE LeaseExpires \/ DefaultsChange \/ UNCHANGED vars
  BY <1>1, <1>14 DEF LeaseExpires, DefaultsChange, vars
<1>15. QED
  BY <1>2, <1>3, <1>4, <1>5, <1>6, <1>7, <1>8, <1>9, <1>10, <1>11, <1>12,
     <1>13, <1>14 DEF Next, Call

\* One process at a time is between taking and leaving the lock, for any
\* number of processes and crashes, as long as two callers never break the
\* same stale lock at once.
THEOREM OneHolder ==
  ASSUME ~ConcurrentBreak
  PROVE  Spec => []MutualExclusion
<1>1. LockInv => MutualExclusion
  BY DEF LockInv, MutualExclusion
<1>2. QED
  BY <1>1, TypeInit, TypeNext, LockInit, LockNext, PTL DEF Spec

(***************************************************************************)
(* No two executions under good leases.                                    *)
(***************************************************************************)
\* Each change of the checkpoint finds nobody executing under a good lease.
LEMMA ClaimFindsNobody ==
  ASSUME TypeOK, WorkInv, NEW i \in Phases, Claimable(file, i)
  PROVE  \A p \in Proc : ~Live(p)
<1> SUFFICES ASSUME NEW p \in Proc, Live(p) PROVE FALSE
  OBVIOUS
<1> DEFINE k == exec[p].phase
<1>1. k \in Phases /\ exec[p].token > expired
  BY DEF TypeOK, Live
<1>2. /\ file.phases[k].status = "running"
      /\ file.phases[k].token = exec[p].token
  BY DEF WorkInv, Claimable
<1>3. i <= k
  BY <1>1, <1>2 DEF Claimable, ActivePhase, Open
<1>4. i = k
  <2>1. i \in Nat /\ k \in Nat
    BY <1>1 DEF Phases
  <2>2. CASE i < k
    BY <2>2, <1>1, <1>2 DEF WorkInv, PhasesInOrder, Claimable, ActivePhase
  <2>3. QED
    BY <1>3, <2>1, <2>2
<1> HIDE DEF k
<1>5. /\ exec[p].token \in Nat /\ expired \in Nat
      /\ file.phases[k].token <= expired
  BY <1>2, <1>4 DEF TypeOK, Claimable, LeaseFree
<1>6. QED
  BY <1>1, <1>2, <1>5

LEMMA ReviewFindsNobody ==
  ASSUME TypeOK, WorkInv, NEW i \in ActivePhase(file),
         file.phases[i].status = "awaiting_review"
  PROVE  \A p \in Proc : ~Live(p)
<1> SUFFICES ASSUME NEW p \in Proc, Live(p) PROVE FALSE
  OBVIOUS
<1> DEFINE k == exec[p].phase
<1>1. k \in Phases /\ i \in Phases
  BY DEF TypeOK, ActivePhase
<1>2. file.phases[k].status = "running"
  BY <1>1 DEF WorkInv, PhasesInOrder
<1>3. i <= k /\ i # k
  BY <1>1, <1>2 DEF ActivePhase, Open
<1>4. i < k
  BY <1>1, <1>3 DEF Phases
<1>5. QED
  BY <1>1, <1>2, <1>4 DEF WorkInv, PhasesInOrder, Open

LEMMA ReportFindsNobody ==
  ASSUME TypeOK, WorkInv, NEW q \in Proc, op[q] = "commit",
         InCharge(file, exec[q])
  PROVE  \A p \in Proc : ~Live(p)
<1> SUFFICES ASSUME NEW p \in Proc, Live(p) PROVE FALSE
  OBVIOUS
<1> DEFINE k == exec[p].phase
           m == exec[q].phase
<1>1. k \in Phases /\ m \in Phases
  BY DEF TypeOK
<1>2. /\ file.phases[k].status = "running"
      /\ file.phases[k].token = exec[p].token
  BY DEF WorkInv, InCharge
<1>3. /\ file.phases[m].status = "running"
      /\ file.phases[m].token = exec[q].token
  BY DEF InCharge
<1>4. k = m
  <2>1. k \in Nat /\ m \in Nat
    BY <1>1 DEF Phases
  <2>2. ~(k < m) /\ ~(m < k)
    BY <1>1, <1>2, <1>3 DEF WorkInv, PhasesInOrder, Open
  <2>3. QED
    BY <2>1, <2>2
<1>5. p = q
  BY <1>2, <1>3, <1>4 DEF WorkInv, HoldsToken
<1>6. QED
  BY <1>5 DEF Live

\* A step that leaves the checkpoint alone, lets nobody begin to write, hands
\* out no token and makes nobody live.
LEMMA QuietStep ==
  ASSUME TypeOK, TypeOK', WorkInv,
         UNCHANGED <<file, claims>>, expired <= expired',
         \A p \in Proc : /\ HoldsToken(p)'
                         /\ exec'[p].token \in {exec[p].token, 0}
                         /\ file.status = "absent" => pc'[p] = "idle"
                         /\ Live(p)' => Live(p) /\ exec'[p] = exec[p],
         \A p \in Proc : pc'[p] = "write" =>
             /\ pc[p] = "write"
             /\ buf'[p] = buf[p] /\ op'[p] = op[p]
             /\ seen'[p] = seen[p] /\ exec'[p] = exec[p]
  PROVE  WorkInv'
<1>1. PhasesInOrder'
  BY DEF WorkInv, PhasesInOrder
<1>2. \A p \in Proc : pc'[p] = "write" =>
                        buf'[p] = file' /\ Permitted(file, p)'
  <2>1. expired \in Nat /\ expired' \in Nat
    BY DEF TypeOK
  <2>2. \A i \in Phases : file.phases[i].token \in Nat
    BY Fields DEF TypeOK, PhaseState
  <2>3. \A i \in Phases : Claimable(file, i) => Claimable(file, i)'
    BY <2>1, <2>2 DEF Claimable, LeaseFree, ActivePhase
  <2>4. QED
    BY <2>3 DEF WorkInv, Permitted, InCharge, Reviewable, ActivePhase
<1>3. \A p \in Proc : exec'[p].token <= claims'
  <2>1. claims' = claims /\ 0 <= claims
    BY DEF TypeOK
  <2>2. \A p \in Proc : exec[p].token <= claims
    BY DEF WorkInv
  <2>3. QED
    BY <2>1, <2>2
<1>4. \A p, q \in Proc : exec'[p].token = exec'[q].token /\ exec'[p].token # 0
                         => p = q
  BY DEF WorkInv
<1>5. \A p \in Proc : Live(p)' =>
        \/ file'.status = "cancelled"
        \/ /\ file'.phases[exec'[p].phase].status = "running"
           /\ file'.phases[exec'[p].phase].token = exec'[p].token
  BY DEF WorkInv
<1>6. \A p, q \in Proc : Live(p)' /\ Live(q)' => p = q
  BY DEF WorkInv
<1>7. QED
  BY <1>1, <1>2, <1>3, <1>4, <1>5, <1>6 DEF WorkInv

\* A write that replaced the checkpoint by one with its phases in order; p
\* holds no good lease afterwards, or nobody held one and p has a new token.
LEMMA WriteStep ==
  ASSUME TypeOK, TypeOK', LockInv, WorkInv, NEW p \in Proc, pc[p] = "write",
         pc' = [pc EXCEPT ![p] = "unlock"], UNCHANGED <<op, seen, expired>>,
         buf' = [buf EXCEPT ![p] = NoFile],
         PhasesInOrder', file'.status # "absent", claims <= claims',
         \/ exec' = exec
         \/ /\ op[p] = "run"
            /\ exec' = [exec EXCEPT ![p] = exec'[p]]
            /\ claims < claims' /\ exec'[p].token = claims'
            /\ file'.phases[exec'[p].phase].status = "running"
            /\ file'.phases[exec'[p].phase].token = claims',
         \/ \A q \in Proc : ~Live(q)
         \/ exec' = exec /\ file'.status = "cancelled",
         op[p] = "run" => exec[p].token = 0
  PROVE  WorkInv'
<1> USE DEF HoldsToken
<1>0. /\ pc \in [Proc -> {"idle", "viewing", "lock", "break", "read", "write",
                          "unlock", "exec"}]
      /\ exec \in [Proc -> Execution]
      /\ claims \in Nat /\ claims' \in Nat /\ expired \in Nat
  BY DEF TypeOK, Execution
<1>1. \A q \in Proc : pc'[q] # "write"
  BY <1>0 DEF LockInv, Holds
<1>2. \A q \in Proc : q # p => exec'[q] = exec[q] /\ pc'[q] = pc[q]
  BY <1>0
<1>3. \A q \in Proc : exec[q].token \in Nat /\ exec[q].token <= claims
  BY <1>0 DEF WorkInv, Execution
<1>4. \A q \in Proc : HoldsToken(q)'
  <2>1. \A q \in Proc : q # p => HoldsToken(q)'
    BY <1>2 DEF WorkInv
  <2>2. HoldsToken(p)'
    BY <1>0, <1>3 DEF WorkInv
  <2>3. QED
    BY <2>1, <2>2
<1>5. \A q \in Proc : exec'[q].token <= claims'
  BY <1>0, <1>2, <1>3
<1>6. \A q, r \in Proc : exec'[q].token = exec'[r].token /\ exec'[q].token # 0
                         => q = r
  <2>1. CASE exec' = exec
    BY <2>1 DEF WorkInv
  <2>2. CASE claims < claims' /\ exec'[p].token = claims'
    <3>1. \A q \in Proc : q # p => exec'[q].token # exec'[p].token
      BY <1>0, <1>2, <1>3, <2>2
    <3>2. QED
      BY <1>2, <3>1 DEF WorkInv
  <2>3. QED
    BY <2>1, <2>2
<1>7. \A q \in Proc : Live(q)' =>
        \/ q # p /\ Live(q) /\ exec' = exec /\ file'.status = "cancelled"
        \/ /\ q = p
           /\ \A r \in Proc : ~Live(r)
           /\ file'.phases[exec'[p].phase].status = "running"
           /\ file'.phases[exec'[p].phase].token = exec'[p].token
  <2> SUFFICES ASSUME NEW q \in Proc, Live(q)'
               PROVE  \/ /\ q # p /\ Live(q) /\ exec' = exec
                         /\ file'.status = "cancelled"
                      \/ /\ q = p
                         /\ \A r \in Proc : ~Live(r)
                         /\ file'.phases[exec'[p].phase].status = "running"
                         /\ file'.phases[exec'[p].phase].token = exec'[p].token
    OBVIOUS
  <2>1. CASE q # p
    BY <1>2, <2>1 DEF Live
  <2>2. CASE q = p
    <3>1. op[p] = "run" /\ exec'[p].token > expired
      BY <2>2 DEF Live
    <3>2. exec'[p].token # 0
      BY <1>0, <3>1
    <3>3. exec' # exec
      BY <3>1, <3>2
    <3>4. QED
      BY <2>2, <3>1, <3>3
  <2>3. QED
    BY <2>1, <2>2
<1>8. \A q, r \in Proc : Live(q)' /\ Live(r)' => q = r
  BY <1>7 DEF WorkInv
<1>9. QED
  BY <1>1, <1>4, <1>5, <1>6, <1>7, <1>8 DEF WorkInv

\* Changing one phase that is up keeps the phases in order.
LEMMA OrderKept ==
  ASSUME TypeOK, TypeOK', WorkInv, NEW i \in Phases, NEW ph,
         file'.phases = [file.phases EXCEPT ![i] = ph],
         file'.status \notin {"cancelled", "absent"},
         ph.token <= claims', claims <= claims',
         file.phases[i].status \in Open,
         \A j \in Phases : file.phases[j].status \in Open => i <= j
  PROVE  PhasesInOrder'
<1>0. /\ \A j \in Phases : j # i => file'.phases[j] = file.phases[j]
      /\ file'.phases[i] = ph
  <2>1. file.phases \in [Phases -> PhaseState]
    BY DEF TypeOK, Checkpoint
  <2>2. QED
    BY <2>1
<1>1. ASSUME NEW a \in Phases, NEW b \in Phases, a < b,
             file'.phases[a].status \in Open
      PROVE  file'.phases[b].status = "pending"
  <2>1. a \in Nat /\ b \in Nat /\ i \in Nat
    BY DEF Phases
  <2>2. file.phases[a].status \in Open
    BY <1>0, <1>1
  <2>3. file.phases[b].status = "pending"
    BY <1>1, <2>2 DEF WorkInv, PhasesInOrder
  <2>4. CASE b = i
    <3>1. a # i
      BY <1>1, <2>1, <2>4
    <3>2. ~(i <= a)
      BY <1>1, <2>1, <2>4
    <3>3. QED
      BY <2>2, <3>2
  <2>5. CASE b # i
    BY <1>0, <2>3, <2>5
  <2>6. QED
    BY <2>4, <2>5
<1>2. \A j \in Phases : file'.phases[j].token <= claims'
  <2>1. \A j \in Phases : file.phases[j].token \in Nat
    BY Fields DEF TypeOK, PhaseState
  <2>2. \A j \in Phases : file.phases[j].token <= claims
    BY DEF WorkInv, PhasesInOrder
  <2>3. claims \in Nat /\ claims' \in Nat
    BY DEF TypeOK
  <2>4. QED
    BY <1>0, <2>1, <2>2, <2>3
<1>3. QED
  BY <1>1, <1>2 DEF PhasesInOrder

LEMMA OrderCancelled ==
  ASSUME TypeOK, WorkInv, file' = Cancelled(file), claims' = claims
  PROVE  PhasesInOrder'
<1>0. /\ \A j \in Phases : j \in Nat
      /\ \A j \in Phases : file.phases[j].token \in Nat
      /\ claims \in Nat
  BY Fields DEF TypeOK, PhaseState, Phases
<1>1. \A j \in Phases :
        file'.phases[j] = IF j \in ActivePhase(file)
                          THEN CalledOff(file.phases[j])
                          ELSE file.phases[j]
  <2> DEFINE phs == [i \in Phases |->
                       IF i \in ActivePhase(file)
                       THEN CalledOff(file.phases[i])
                       ELSE file.phases[i]]
  <2>1. file'.phases = phs
    <3> HIDE DEF phs
    <3>1. file' = [file EXCEPT !.status = "cancelled",
                               !.revision = file.revision + 1,
                               !.phases = phs]
      BY Zenon DEF Cancelled, phs
    <3>2. QED
      BY <3>1 DEF TypeOK, Checkpoint
  <2>2. \A j \in Phases : phs[j] = IF j \in ActivePhase(file)
                                 THEN CalledOff(file.phases[j])
                                 ELSE file.phases[j]
    OBVIOUS
  <2> HIDE DEF phs
  <2>3. QED
    BY <2>1, <2>2
<1>2. \A j \in Phases : j \in ActivePhase(file) =>
        /\ file'.phases[j].status = "cancelled"
        /\ file'.phases[j].token = 0
  <2>1. \A ph \in PhaseState : /\ CalledOff(ph).status = "cancelled"
                               /\ CalledOff(ph).token = 0
    BY DEF CalledOff, PhaseState
  <2>2. \A j \in Phases : file.phases[j] \in PhaseState
    BY Fields DEF TypeOK
  <2>3. QED
    BY <1>1, <2>1, <2>2
<1>3. ASSUME NEW a \in Phases, NEW b \in Phases, a < b,
             file'.phases[a].status \in Open
      PROVE  file'.phases[b].status = "pending"
  <2>1. a \notin ActivePhase(file)
    BY <1>2, <1>3 DEF Open
  <2>2. file.phases[a].status \in Open
    BY <1>1, <1>3, <2>1
  <2>3. file.phases[b].status = "pending"
    BY <1>3, <2>2 DEF WorkInv, PhasesInOrder
  <2>4. b \notin ActivePhase(file)
    BY <1>0, <1>3, <2>2 DEF ActivePhase
  <2>5. QED
    BY <1>1, <2>3, <2>4
<1>4. ASSUME NEW i \in Phases,
             file'.phases[i].status \in {"running", "awaiting_review"}
      PROVE  FALSE
  <2>1. i \notin ActivePhase(file)
    BY <1>2, <1>4
  <2>2. file.phases[i].status \in {"running", "awaiting_review"}
    BY <1>1, <1>4, <2>1
  <2>3. PICK a \in Phases : file.phases[a].status \in Open /\ ~(i <= a)
    BY <2>1, <2>2 DEF ActivePhase, Open
  <2>4. a < i
    BY <1>0, <2>3
  <2>5. QED
    BY <2>2, <2>3, <2>4 DEF WorkInv, PhasesInOrder
<1>5. \A j \in Phases : file'.phases[j].token <= claims'
  <2>1. \A j \in Phases : file.phases[j].token <= claims
    BY DEF WorkInv, PhasesInOrder
  <2>2. \A j \in Phases : file'.phases[j].token \in {file.phases[j].token, 0}
    BY <1>1, <1>2
  <2>3. QED
    BY <1>0, <2>1, <2>2
<1>6. QED
  BY <1>3, <1>4, <1>5 DEF PhasesInOrder

\* A write that raised before it replaced anything.
LEMMA QuietWrite ==
  ASSUME TypeOK, TypeOK', LockInv, WorkInv, NEW p \in Proc, pc[p] = "write",
         pc' = [pc EXCEPT ![p] = "unlock"],
         buf' = [buf EXCEPT ![p] = NoFile],
         UNCHANGED <<file, op, seen, expired, exec, claims>>
  PROVE  WorkInv'
<1>1. \A q \in Proc : q # p => pc'[q] = pc[q] /\ buf'[q] = buf[q]
  BY DEF TypeOK
<1>2. pc'[p] = "unlock"
  BY DEF TypeOK
<1>3. \A q \in Proc : HoldsToken(q)'
  BY <1>1, <1>2 DEF WorkInv, HoldsToken
<1>4. \A q \in Proc : Live(q)' => Live(q)
  <2>1. expired \in Nat
    BY DEF TypeOK
  <2>2. op[p] = "run" => exec[p].token = 0
    BY DEF WorkInv, HoldsToken
  <2>3. ~Live(p)'
    BY <2>1, <2>2 DEF Live
  <2>4. QED
    BY <1>1, <2>3 DEF Live
<1>5. expired <= expired'
  BY DEF TypeOK
<1>6. \A q \in Proc : file.status = "absent" => pc'[q] = "idle"
  BY DEF WorkInv
<1>7. QED
  BY <1>1, <1>2, <1>3, <1>4, <1>5, <1>6, QuietStep

LEMMA WriteClaimInv ==
  ASSUME TypeOK, TypeOK', LockInv, WorkInv, NEW p \in Proc,
         NEW c \in BOOLEAN, WriteClaim(p, c)
  PROVE  WorkInv'
<1>1. /\ pc[p] = "write" /\ op[p] = "run"
      /\ pc' = [pc EXCEPT ![p] = "unlock"]
      /\ buf' = [buf EXCEPT ![p] = NoFile]
      /\ UNCHANGED <<op, seen, expired>>
  BY DEF WriteClaim, Replace
<1>2. buf[p] = file /\ Permitted(file, p)
  BY <1>1 DEF WorkInv
<1>3. PICK i \in ActivePhase(file) :
        /\ Replace(p, Claimed(file, i, claims + 1), c)
        /\ exec' = IF c THEN [exec EXCEPT ![p] = [token |-> claims + 1,
                                                  phase |-> i,
                                                  scope |-> file.scope]]
                        ELSE exec
  BY <1>2 DEF WriteClaim
<1>4. i \in Phases /\ Claimable(file, i)
  <2>1. PICK k \in Phases : Claimable(file, k)
    BY <1>1, <1>2 DEF Permitted
  <2>2. i \in Phases /\ k \in ActivePhase(file) /\ i \in Nat /\ k \in Nat
    BY <2>1 DEF Claimable, ActivePhase, Phases
  <2>3. i <= k /\ k <= i
    BY <2>2 DEF ActivePhase
  <2>4. i = k
    BY <2>2, <2>3
  <2>5. QED
    BY <2>1, <2>4
<1>5. exec[p].token = 0
  BY <1>1 DEF WorkInv, HoldsToken
<1>6. CASE file' = file /\ ~c
  <2>1. claims' = claims /\ exec' = exec
    BY <1>3, <1>6 DEF WriteClaim
  <2>2. QED
    BY <1>1, <1>6, <2>1, QuietWrite
<1>7. CASE file' = Claimed(file, i, claims + 1)
  <2>1. /\ file'.phases = [file.phases EXCEPT ![i] =
                             Granted(file.phases[i], claims + 1)]
        /\ file'.status = "running"
        /\ file'.revision = file.revision + 1
    BY <1>7 DEF Claimed, TypeOK, Checkpoint
  <2>2. file' # file
    <3>1. file.revision \in Nat
      BY DEF TypeOK, Checkpoint
    <3>2. QED
      BY <2>1, <3>1
  <2>3. claims' = claims + 1 /\ claims \in Nat
    BY <2>2 DEF WriteClaim, TypeOK
  <2>4. /\ Granted(file.phases[i], claims + 1).status = "running"
        /\ Granted(file.phases[i], claims + 1).token = claims + 1
    BY <1>4, Fields DEF Granted, TypeOK, PhaseState
  <2>5. PhasesInOrder'
    BY <1>4, <2>1, <2>3, <2>4, OrderKept DEF ActivePhase
  <2>6. /\ file'.phases[i].status = "running"
        /\ file'.phases[i].token = claims'
    BY <1>4, <2>1, <2>3, <2>4 DEF TypeOK, Checkpoint
  <2>7. \A q \in Proc : ~Live(q)
    BY <1>4, ClaimFindsNobody
  <2>8. \/ exec' = exec
        \/ /\ exec' = [exec EXCEPT ![p] = exec'[p]]
           /\ exec'[p].token = claims'
           /\ exec'[p].phase = i
    BY <1>3, <2>3 DEF TypeOK
  <2>9. /\ claims <= claims' /\ claims < claims'
        /\ file'.status # "absent"
    BY <2>1, <2>3
  <2>10. \/ exec' = exec
         \/ /\ op[p] = "run"
            /\ exec' = [exec EXCEPT ![p] = exec'[p]]
            /\ claims < claims' /\ exec'[p].token = claims'
            /\ file'.phases[exec'[p].phase].status = "running"
            /\ file'.phases[exec'[p].phase].token = claims'
    BY <1>1, <2>6, <2>8, <2>9
  <2>11. QED
    BY <1>1, <1>5, <2>5, <2>7, <2>9, <2>10, WriteStep
<1>8. QED
  BY <1>3, <1>6, <1>7 DEF Replace

LEMMA WriteCommitInv ==
  ASSUME TypeOK, TypeOK', LockInv, WorkInv, NEW p \in Proc,
         NEW c \in BOOLEAN, WriteCommit(p, c)
  PROVE  WorkInv'
<1> DEFINE x == exec[p]
           i == exec[p].phase
<1>1. /\ pc[p] = "write" /\ op[p] = "commit"
      /\ pc' = [pc EXCEPT ![p] = "unlock"]
      /\ buf' = [buf EXCEPT ![p] = NoFile]
      /\ UNCHANGED <<op, seen, expired, exec, claims>>
  BY DEF WriteCommit, Replace
<1>2. buf[p] = file /\ InCharge(file, x)
  BY <1>1 DEF WorkInv, Permitted
<1>3. file' \in {file, Committed(file, x)}
  BY <1>2 DEF WriteCommit, Replace
<1>4. CASE file' = file
  BY <1>1, <1>4, QuietWrite
<1>5. CASE file' = Committed(file, x)
  <2>1. i \in Phases /\ x \in Execution
    BY DEF TypeOK, Execution
  <2>2. /\ file'.phases = [file.phases EXCEPT ![i] =
                             Reported(file.phases[i], x)]
        /\ file'.status = "awaiting_review"
    BY <1>5, <2>1 DEF Committed, TypeOK, Checkpoint
  <2>3. Reported(file.phases[i], x).token = 0
    BY <2>1, Fields DEF Reported, TypeOK, PhaseState
  <2>4. \A j \in Phases : file.phases[j].status \in Open => i <= j
    <3>1. file.phases[i].status = "running"
      BY <1>2 DEF InCharge
    <3>2. \A j \in Phases : j < i => file.phases[j].status \notin Open
      BY <2>1, <3>1 DEF WorkInv, PhasesInOrder
    <3>3. i \in Nat /\ \A j \in Phases : j \in Nat
      BY <2>1 DEF Phases
    <3>4. QED
      BY <3>2, <3>3
  <2>5. 0 <= claims' /\ claims <= claims'
    BY <1>1 DEF TypeOK
  <2>6. PhasesInOrder'
    BY <1>2, <2>1, <2>2, <2>3, <2>4, <2>5, OrderKept DEF InCharge, Open
  <2>7. \A q \in Proc : ~Live(q)
    BY <1>1, <1>2, ReportFindsNobody
  <2>8. QED
    BY <1>1, <2>2, <2>5, <2>6, <2>7, WriteStep
<1>6. QED
  BY <1>3, <1>4, <1>5

LEMMA WriteReviewInv ==
  ASSUME TypeOK, TypeOK', LockInv, WorkInv, NEW p \in Proc,
         NEW c \in BOOLEAN, WriteReview(p, c)
  PROVE  WorkInv'
<1>1. /\ pc[p] = "write" /\ op[p] \in ReviewOps
      /\ pc' = [pc EXCEPT ![p] = "unlock"]
      /\ buf' = [buf EXCEPT ![p] = NoFile]
      /\ UNCHANGED <<op, seen, expired, exec, claims>>
  BY DEF WriteReview, Replace, ReviewOps
<1>2. buf[p] = file /\ Reviewable(file, op[p], seen[p])
  BY <1>1 DEF WorkInv, Permitted, ReviewOps
<1>3. claims <= claims' /\ claims \in Nat
  BY <1>1 DEF TypeOK
<1>4. op[p] # "run"
  BY <1>1 DEF ReviewOps
<1>5. ASSUME NEW i \in ActivePhase(file), op[p] # "cancel", NEW ph,
             file'.phases = [file.phases EXCEPT ![i] = ph],
             file'.status \in {"pending", "completed"},
             ph.token <= claims
      PROVE  WorkInv'
  <2>1. i \in Phases /\ file.phases[i].status = "awaiting_review"
    <3>1. PICK k \in ActivePhase(file) :
            file.phases[k].status = "awaiting_review"
      BY <1>2, <1>5 DEF Reviewable
    <3>2. i \in Phases /\ k \in Phases /\ i <= k /\ k <= i
      BY DEF ActivePhase
    <3>3. i = k
      BY <3>2 DEF Phases
    <3>4. QED
      BY <3>1, <3>2, <3>3
  <2>2. PhasesInOrder'
    BY <1>1, <1>3, <1>5, <2>1, OrderKept DEF ActivePhase, Open
  <2>3. \A q \in Proc : ~Live(q)
    BY <2>1, ReviewFindsNobody
  <2>4. QED
    BY <1>1, <1>3, <1>4, <1>5, <2>2, <2>3, WriteStep
<1>6. CASE file' = file
  BY <1>1, <1>6, QuietWrite
<1>7. ASSUME NEW i \in ActivePhase(file), op[p] = "accept",
             NEW n, file' = Accepted(file, i, n)
      PROVE  WorkInv'
  <2>1. i \in Phases
    BY DEF ActivePhase
  <2>2. /\ file'.phases = [file.phases EXCEPT ![i] =
                             [file.phases[i] EXCEPT !.status = "reviewed"]]
        /\ file'.status \in {"pending", "completed"}
    BY <1>7, <2>1 DEF Accepted, TypeOK, Checkpoint
  <2>3. [file.phases[i] EXCEPT !.status = "reviewed"].token <= claims
    BY <2>1, Fields DEF TypeOK, PhaseState, WorkInv, PhasesInOrder
  <2>4. QED
    BY <1>5, <1>7, <2>2, <2>3
<1>8. ASSUME NEW i \in ActivePhase(file), op[p] = "rerun",
             file' = RerunAsked(file, i)
      PROVE  WorkInv'
  <2>1. i \in Phases
    BY DEF ActivePhase
  <2>2. /\ file'.phases = [file.phases EXCEPT ![i] = Reset(file.phases[i])]
        /\ file'.status \in {"pending", "completed"}
    BY <1>8, <2>1 DEF RerunAsked, TypeOK, Checkpoint
  <2>3. Reset(file.phases[i]).token = 0
    BY <2>1, Fields DEF Reset, TypeOK, PhaseState
  <2>4. 0 <= claims
    BY <1>3
  <2>5. QED
    BY <1>5, <1>8, <2>2, <2>3, <2>4
<1>9. CASE file' = Cancelled(file)
  <2>1. PhasesInOrder'
    BY <1>1, <1>9, OrderCancelled
  <2>2. file'.status = "cancelled"
    BY <1>9 DEF Cancelled, TypeOK, Checkpoint
  <2>3. QED
    BY <1>1, <1>3, <1>4, <2>1, <2>2, WriteStep
<1>10. QED
  BY <1>2, <1>6, <1>7, <1>8, <1>9 DEF WriteReview, Replace

LEMMA WorkInit == Init => WorkInv
  BY ConstantsAssumption
     DEF Init, WorkInv, PhasesInOrder, HoldsToken, Live, NoFile, NoExec,
         NewPhase, Open

LEMMA WorkNext ==
  TypeOK /\ TypeOK' /\ LockInv /\ WorkInv /\ [Next]_vars => WorkInv'
<1> SUFFICES ASSUME TypeOK, TypeOK', LockInv, WorkInv, [Next]_vars
             PROVE  WorkInv'
  OBVIOUS
<1>0. /\ pc \in [Proc -> {"idle", "viewing", "lock", "break", "read", "write",
                          "unlock", "exec"}]
      /\ op \in [Proc -> {"none", "run", "commit"} \cup ReviewOps]
      /\ exec \in [Proc -> Execution]
      /\ seen \in [Proc -> Checkpoint]
      /\ buf \in [Proc -> Checkpoint]
      /\ claims \in Nat /\ expired \in Nat /\ expired <= expired
  BY DEF TypeOK, Execution
<1>00. /\ \A p \in Proc : HoldsToken(p)
       /\ \A p \in Proc : file.status = "absent" => pc[p] = "idle"
  BY DEF WorkInv
<1> USE DEF HoldsToken, Live
<1>1. ASSUME NEW p \in Proc, Start(p) PROVE WorkInv'
  <2>1. /\ file.status = "absent" /\ \A q \in Proc : pc[q] = "idle"
        /\ UNCHANGED <<pc, op, buf, seen, exec, claims, expired>>
    BY <1>1, <1>00 DEF Start
  <2>2. PICK s \in Scope \cup {Unset} :
          file' = [NoFile EXCEPT !.status = "pending", !.revision = 1,
                                 !.active = 1, !.scope = s]
    BY <1>1, Zenon DEF Start
  <2>3. file'.phases = NoFile.phases /\ file'.status = "pending"
    BY <2>2 DEF NoFile
  <2>4. PhasesInOrder'
    BY <1>0, <2>1, <2>3 DEF PhasesInOrder, NoFile, NewPhase, Open
  <2>5. QED
    BY <2>1, <2>3, <2>4 DEF WorkInv
<1>2. ASSUME NEW p \in Proc, View(p) PROVE WorkInv'
  BY <1>0, <1>00, <1>2, QuietStep DEF View
<1>3. ASSUME NEW p \in Proc, BeginRun(p) PROVE WorkInv'
  BY <1>0, <1>00, <1>3, QuietStep DEF BeginRun
<1>4. ASSUME NEW p \in Proc, NEW d \in ReviewOps, BeginReview(p, d)
      PROVE  WorkInv'
  BY <1>0, <1>00, <1>4, QuietStep DEF BeginReview, ReviewOps
<1>5. ASSUME NEW p \in Proc, TakeLock(p) PROVE WorkInv'
  BY <1>0, <1>00, <1>5, QuietStep DEF TakeLock
<1>6. ASSUME NEW p \in Proc, Gone(p), UNCHANGED <<file, claims, expired>>,
             \A q \in Proc : q # p => buf'[q] = buf[q]
      PROVE  WorkInv'
  <2>1. /\ pc'[p] = "idle" /\ op'[p] = "none" /\ exec'[p].token = 0
        /\ \A q \in Proc : q # p =>
             /\ pc'[q] = pc[q] /\ op'[q] = op[q] /\ exec'[q] = exec[q]
             /\ seen'[q] = seen[q]
    BY <1>0, <1>6 DEF Gone, NoExec
  <2>2. QED
    BY <1>0, <1>00, <1>6, <2>1, QuietStep
<1>7. ASSUME NEW p \in Proc, LockBusy(p) PROVE WorkInv'
  BY <1>6, <1>7 DEF LockBusy
<1>8. ASSUME NEW p \in Proc, FindStale(p) PROVE WorkInv'
  BY <1>0, <1>00, <1>8, QuietStep DEF FindStale
<1>9. ASSUME NEW p \in Proc, BreakLock(p) PROVE WorkInv'
  BY <1>0, <1>00, <1>9, QuietStep DEF BreakLock
<1>10. ASSUME NEW p \in Proc, Read(p) PROVE WorkInv'
  <2>1. CASE ~Permitted(file, p)
    BY <1>0, <1>00, <1>10, <2>1, QuietStep DEF Read
  <2>2. CASE Permitted(file, p)
    <3>1. /\ pc[p] = "read"
          /\ pc' = [pc EXCEPT ![p] = "write"]
          /\ buf' = [buf EXCEPT ![p] = file]
          /\ UNCHANGED <<file, op, seen, exec, claims, expired>>
      BY <1>10, <2>2 DEF Read
    <3>2. \A q \in Proc : Permitted(file, q)' <=> Permitted(file, q)
      BY <3>1 DEF Permitted, Claimable, LeaseFree, ActivePhase, InCharge,
                  Reviewable
    <3>3. \A q \in Proc : pc'[q] = "write" =>
                            buf'[q] = file' /\ Permitted(file, q)'
      BY <1>0, <2>2, <3>1, <3>2 DEF WorkInv
    <3>4. \A q \in Proc : HoldsToken(q)' /\ (Live(q)' => Live(q))
      BY <1>0, <1>00, <3>1
    <3>5. \A q \in Proc : file'.status = "absent" => pc'[q] = "idle"
      BY <1>0, <1>00, <3>1
    <3>6. PhasesInOrder'
      BY <3>1 DEF WorkInv, PhasesInOrder
    <3>7. QED
      BY <3>1, <3>3, <3>4, <3>5, <3>6 DEF WorkInv
  <2>3. QED
    BY <2>1, <2>2
<1>11. ASSUME NEW p \in Proc, NEW c \in BOOLEAN,
              WriteClaim(p, c) \/ WriteCommit(p, c) \/ WriteReview(p, c)
       PROVE  WorkInv'
  BY <1>11, WriteClaimInv, WriteCommitInv, WriteReviewInv
<1>12. ASSUME NEW p \in Proc, Unlock(p) PROVE WorkInv'
  <2>1. CASE op[p] = "run" /\ exec[p].token # 0
    BY <1>0, <1>00, <1>12, <2>1, QuietStep DEF Unlock
  <2>2. CASE ~(op[p] = "run" /\ exec[p].token # 0)
    BY <1>6, <1>12, <2>2 DEF Unlock
  <2>3. QED
    BY <2>1, <2>2
<1>13. ASSUME NEW p \in Proc, RunPlaybook(p) PROVE WorkInv'
  <2>1. /\ pc[p] = "exec"
        /\ pc' = [pc EXCEPT ![p] = "lock"]
        /\ op' = [op EXCEPT ![p] = "commit"]
        /\ exec'[p].token = exec[p].token
        /\ \A q \in Proc : q # p => exec'[q] = exec[q]
        /\ UNCHANGED <<file, buf, seen, claims, expired>>
    BY <1>0, <1>13 DEF RunPlaybook, Execution
  <2>2. QED
    BY <1>0, <1>00, <2>1, QuietStep
<1>14. ASSUME NEW p \in Proc, Crash(p) PROVE WorkInv'
  BY <1>0, <1>6, <1>14 DEF Crash
<1>15. CASE LeaseExpires
  <2>1. expired <= expired'
    BY <1>0, <1>15 DEF LeaseExpires
  <2>2. /\ UNCHANGED <<file, pc, op, buf, seen, exec, claims>>
        /\ expired' = expired + 1
    BY <1>15 DEF LeaseExpires
  <2>3. \A q \in Proc : exec[q].token \in Nat
    BY <1>0 DEF Execution
  <2>4. \A q \in Proc : Live(q)' => Live(q)
    BY <1>0, <2>2, <2>3
  <2>5. QED
    BY <1>00, <2>1, <2>2, <2>4, QuietStep
<1>16. CASE LockAges \/ DefaultsChange \/ UNCHANGED vars
  BY <1>0, <1>00, <1>16, QuietStep DEF LockAges, DefaultsChange, vars
<1>17. QED
  BY <1>1, <1>2, <1>3, <1>4, <1>5, <1>7, <1>8, <1>9, <1>10, <1>11, <1>12,
     <1>13, <1>14, <1>15, <1>16 DEF Next, Call

LEMMA StoreInvariant ==
  ASSUME ~ConcurrentBreak
  PROVE  Spec => [](TypeOK /\ LockInv /\ WorkInv)
  BY TypeInit, TypeNext, LockInit, LockNext, WorkInit, WorkNext, PTL DEF Spec

\* run_next's comment, for any number of processes, phases, crashes, failing
\* writes and expiring leases: no two processes run a playbook of the same
\* workflow while both their leases are good.
THEOREM NoConcurrentExecution ==
  ASSUME ~ConcurrentBreak
  PROVE  Spec => []NoConcurrentControl
<1>1. TypeOK /\ WorkInv => NoConcurrentControl
  BY DEF WorkInv, HoldsToken, NoConcurrentControl, Live
<1>2. QED
  BY <1>1, StoreInvariant, PTL

(***************************************************************************)
(* Revisions.                                                              *)
(***************************************************************************)
LEMMA NextRevision ==
  ASSUME NEW f \in Checkpoint, NEW new,
         \/ \E i, t : new = Claimed(f, i, t)
         \/ \E x : new = Committed(f, x)
         \/ \E i, n : new = Accepted(f, i, n)
         \/ \E i : new = RerunAsked(f, i)
         \/ new = Cancelled(f)
  PROVE  new.revision = f.revision + 1 /\ new.status # "absent"
<1>1. ASSUME NEW i, NEW t, new = Claimed(f, i, t)
      PROVE  new.revision = f.revision + 1 /\ new.status # "absent"
  BY <1>1 DEF Claimed, Checkpoint
<1>2. ASSUME NEW x, new = Committed(f, x)
      PROVE  new.revision = f.revision + 1 /\ new.status # "absent"
  BY <1>2 DEF Committed, Checkpoint
<1>3. ASSUME NEW i, NEW n, new = Accepted(f, i, n)
      PROVE  new.revision = f.revision + 1 /\ new.status # "absent"
  BY <1>3 DEF Accepted, Checkpoint
<1>4. ASSUME NEW i, new = RerunAsked(f, i)
      PROVE  new.revision = f.revision + 1 /\ new.status # "absent"
  BY <1>4 DEF RerunAsked, Checkpoint
<1>5. ASSUME new = Cancelled(f)
      PROVE  new.revision = f.revision + 1 /\ new.status # "absent"
  BY <1>5 DEF Cancelled, Checkpoint
<1>6. QED
  BY <1>1, <1>2, <1>3, <1>4, <1>5

\* Who may change the checkpoint, and by how much.
LEMMA FileSteps ==
  ASSUME TypeOK, WorkInv, [Next]_vars
  PROVE  \/ file' = file
         \/ /\ file.status = "absent" /\ file'.revision = 1
            /\ file'.status = "pending" /\ UNCHANGED <<pc, seen>>
         \/ /\ file'.revision = file.revision + 1
            /\ file'.status # "absent"
            /\ \E p \in Proc :
                 /\ pc[p] = "write" /\ pc' = [pc EXCEPT ![p] = "unlock"]
                 /\ UNCHANGED seen
<1>1. ASSUME NEW p \in Proc, Start(p)
      PROVE  /\ file.status = "absent" /\ file'.revision = 1
             /\ file'.status = "pending" /\ UNCHANGED <<pc, seen>>
  <2>1. PICK s \in Scope \cup {Unset} :
          file' = [NoFile EXCEPT !.status = "pending", !.revision = 1,
                                 !.active = 1, !.scope = s]
    BY <1>1, Zenon DEF Start
  <2>2. QED
    BY <1>1, <2>1 DEF Start, NoFile
<1>2. ASSUME NEW p \in Proc, NEW c \in BOOLEAN, NEW new, pc[p] = "write",
             Replace(p, new, c),
             \/ \E i, t : new = Claimed(file, i, t)
             \/ \E x : new = Committed(file, x)
             \/ \E i, n : new = Accepted(file, i, n)
             \/ \E i : new = RerunAsked(file, i)
             \/ new = Cancelled(file)
      PROVE  \/ file' = file
             \/ /\ file'.revision = file.revision + 1
                /\ file'.status # "absent"
                /\ pc[p] = "write" /\ pc' = [pc EXCEPT ![p] = "unlock"]
                /\ UNCHANGED seen
  <2>1. new.revision = file.revision + 1 /\ new.status # "absent"
    BY <1>2, NextRevision DEF TypeOK
  <2>2. QED
    BY <1>2, <2>1 DEF Replace
<1>3. \A p \in Proc : pc[p] = "write" => buf[p] = file
  BY DEF WorkInv
<1>4. ASSUME NEW p \in Proc, NEW c \in BOOLEAN,
             WriteClaim(p, c) \/ WriteCommit(p, c) \/ WriteReview(p, c)
      PROVE  \/ file' = file
             \/ /\ file'.revision = file.revision + 1
                /\ file'.status # "absent"
                /\ pc[p] = "write" /\ pc' = [pc EXCEPT ![p] = "unlock"]
                /\ UNCHANGED seen
  BY <1>2, <1>3, <1>4 DEF WriteClaim, WriteCommit, WriteReview
<1>5. ASSUME NEW p \in Proc,
             \/ View(p) \/ BeginRun(p) \/ TakeLock(p) \/ LockBusy(p)
             \/ FindStale(p) \/ BreakLock(p) \/ Read(p) \/ Unlock(p)
             \/ RunPlaybook(p) \/ Crash(p)
             \/ \E d \in ReviewOps : BeginReview(p, d)
      PROVE  file' = file
  BY <1>5 DEF View, BeginRun, TakeLock, LockBusy, FindStale, BreakLock, Read,
              Unlock, RunPlaybook, Crash, BeginReview
<1>6. ASSUME LockAges \/ LeaseExpires \/ DefaultsChange \/ UNCHANGED vars
      PROVE  file' = file
  BY <1>6 DEF LockAges, LeaseExpires, DefaultsChange, vars
<1>7. QED
  BY <1>1, <1>4, <1>5, <1>6 DEF Next, Call

\* The revision counts the changes of a checkpoint; none is lost.
THEOREM EveryChangeCounted ==
  ASSUME ~ConcurrentBreak
  PROVE  Spec => NoLostUpdate
<1>1. TypeOK /\ WorkInv /\ [Next]_vars
      => [file' # file /\ file.status # "absent"
          => file'.revision = file.revision + 1]_vars
  BY FileSteps
<1>2. QED
  BY <1>1, StoreInvariant, PTL DEF Spec, NoLostUpdate

\* "Never let this superseded execution overwrite its result."
THEOREM SupersededNeverWrites ==
  ASSUME ~ConcurrentBreak
  PROVE  Spec => SupersededDiscarded
<1>1. TypeOK /\ WorkInv /\ [Next]_vars
      => [\A p \in Proc : (/\ op[p] = "commit"
                           /\ pc[p] = "write" /\ pc'[p] = "unlock"
                           /\ file' # file)
            => /\ file.phases[exec[p].phase].status = "running"
               /\ file.phases[exec[p].phase].token = exec[p].token]_vars
  BY DEF WorkInv, Permitted, InCharge
<1>2. QED
  BY <1>1, StoreInvariant, PTL DEF Spec, SupersededDiscarded

LEMMA SeenInit == Init => SeenInv
  BY DEF Init, SeenInv, NoFile

LEMMA SeenNext == TypeOK /\ WorkInv /\ SeenInv /\ [Next]_vars => SeenInv'
<1> SUFFICES ASSUME TypeOK, WorkInv, SeenInv, [Next]_vars
             PROVE  SeenInv'
  OBVIOUS
<1>0. /\ file.revision \in Nat
      /\ \A p \in Proc : seen[p].revision \in Nat
      /\ seen \in [Proc -> Checkpoint]
  BY DEF TypeOK, Checkpoint
\* The file moves on: everything that was shown is behind it.
<1>1. ASSUME file'.revision = file.revision + 1 /\ file'.status # "absent",
             UNCHANGED seen
      PROVE  SeenInv'
  <2>1. \A p \in Proc : seen[p].revision < file'.revision
    BY <1>0, <1>1 DEF SeenInv
  <2>2. QED
    BY <1>0, <1>1, <2>1 DEF SeenInv
<1>2. CASE file.status = "absent" /\ file'.revision = 1
           /\ file'.status = "pending" /\ UNCHANGED <<pc, seen>>
  <2>1. file.revision = 0
    BY <1>2 DEF SeenInv, NoFile
  <2>2. QED
    BY <1>1, <1>2, <2>1
\* The file stays: a screen keeps what it shows, is opened, or is closed.
<1>3. ASSUME file' = file,
             \A p \in Proc : seen'[p] \in {seen[p], file, NoFile}
      PROVE  SeenInv'
  <2>1. NoFile.revision = 0 /\ NoFile.status = "absent"
    BY DEF NoFile
  <2>2. file.revision = 0 => file = NoFile
    BY DEF SeenInv
  <2>3. QED
    BY <1>0, <1>3, <2>1, <2>2 DEF SeenInv
<1>4. CASE file' = file
  <2>1. ASSUME NEW p \in Proc, Gone(p)
        PROVE  \A q \in Proc : seen'[q] \in {seen[q], file, NoFile}
    BY <1>0, <2>1 DEF Gone
  <2>2. ASSUME NEW p \in Proc, View(p)
        PROVE  \A q \in Proc : seen'[q] \in {seen[q], file, NoFile}
    BY <1>0, <2>2 DEF View
  <2>3. \/ UNCHANGED seen
        \/ \E p \in Proc : Gone(p) \/ View(p)
    <3>1. ASSUME NEW p \in Proc,
                 \/ Start(p) \/ BeginRun(p) \/ TakeLock(p) \/ FindStale(p)
                 \/ BreakLock(p) \/ Read(p) \/ RunPlaybook(p)
                 \/ \E d \in ReviewOps : BeginReview(p, d)
          PROVE  UNCHANGED seen
      BY <3>1 DEF Start, BeginRun, BeginReview, TakeLock, FindStale,
                  BreakLock, Read, RunPlaybook
    <3>2. ASSUME NEW p \in Proc, NEW c \in BOOLEAN,
                 WriteClaim(p, c) \/ WriteCommit(p, c) \/ WriteReview(p, c)
          PROVE  UNCHANGED seen
      BY <3>2 DEF WriteClaim, WriteCommit, WriteReview, Replace
    <3>3. ASSUME NEW p \in Proc, LockBusy(p) \/ Unlock(p) \/ Crash(p)
          PROVE  UNCHANGED seen \/ Gone(p)
      BY <3>3 DEF LockBusy, Unlock, Crash
    <3>4. ASSUME LockAges \/ LeaseExpires \/ DefaultsChange \/ UNCHANGED vars
          PROVE  UNCHANGED seen
      BY <3>4 DEF LockAges, LeaseExpires, DefaultsChange, vars
    <3>5. QED
      BY <3>1, <3>2, <3>3, <3>4 DEF Next, Call
  <2>4. QED
    BY <1>3, <1>4, <2>1, <2>2, <2>3
<1>5. QED
  BY <1>1, <1>2, <1>4, FileSteps

\* A reviewer decides on the very checkpoint the screen showed, although only
\* its revision number is sent back.
THEOREM ReviewsWhatWasShown ==
  ASSUME ~ConcurrentBreak
  PROVE  Spec => DecidesWhatWasShown
<1>1. TypeOK /\ WorkInv /\ SeenInv /\ [Next]_vars
      => [\A p \in Proc : (/\ op[p] \in ReviewOps
                           /\ pc[p] = "write" /\ pc'[p] = "unlock"
                           /\ file' # file)
            => file = seen[p]]_vars
  BY DEF WorkInv, SeenInv, Permitted, Reviewable, ReviewOps
<1>2. QED
  BY <1>1, StoreInvariant, SeenInit, SeenNext, PTL
     DEF Spec, DecidesWhatWasShown

(***************************************************************************)
(* How the checkpoint moves: always in the phase that is up.               *)
(***************************************************************************)
ClaimMove(p, i) ==
  /\ op[p] = "run" /\ Claimable(file, i)
  /\ file' = Claimed(file, i, claims + 1)
  /\ claims' = claims + 1
  /\ \/ exec' = exec
     \/ exec' = [exec EXCEPT ![p] = [token |-> claims + 1, phase |-> i,
                                     scope |-> file.scope]]

ReportMove(p) ==
  /\ op[p] = "commit" /\ InCharge(file, exec[p])
  /\ file' = Committed(file, exec[p])
  /\ UNCHANGED <<claims, exec>>

AcceptMove(i, n) ==
  /\ i \in ActivePhase(file) /\ file.phases[i].status = "awaiting_review"
  /\ n \in NextUp(file, i)
  /\ file' = Accepted(file, i, n)
  /\ UNCHANGED <<claims, exec>>

RerunMove(i) ==
  /\ i \in ActivePhase(file) /\ file.phases[i].status = "awaiting_review"
  /\ file' = RerunAsked(file, i)
  /\ UNCHANGED <<claims, exec>>

CancelMove == file' = Cancelled(file) /\ UNCHANGED <<claims, exec>>

\* A phase that is up is the only one.
LEMMA OneUp ==
  ASSUME NEW f, NEW i \in ActivePhase(f), NEW j \in ActivePhase(f)
  PROVE  i = j
<1>1. i \in Nat /\ j \in Nat /\ i <= j /\ j <= i
  BY DEF ActivePhase, Phases
<1> QED BY <1>1

LEMMA WriteMoves ==
  ASSUME TypeOK, WorkInv, NEW p \in Proc, NEW c \in BOOLEAN,
         WriteClaim(p, c) \/ WriteCommit(p, c) \/ WriteReview(p, c)
  PROVE  /\ UNCHANGED <<op, expired>>
         /\ \/ UNCHANGED <<file, claims, exec>>
            \/ \E i \in Phases : ClaimMove(p, i)
            \/ ReportMove(p)
            \/ \E i \in Phases : \/ \E n \in NextUp(file, i) : AcceptMove(i, n)
                                 \/ RerunMove(i)
            \/ CancelMove
<1>1. UNCHANGED <<op, expired>>
  BY DEF WriteClaim, WriteCommit, WriteReview, Replace
<1>2. buf[p] = file /\ Permitted(file, p)
  BY DEF WriteClaim, WriteCommit, WriteReview, WorkInv
<1>3. ASSUME WriteClaim(p, c)
      PROVE  UNCHANGED <<file, claims, exec>> \/ \E i \in Phases : ClaimMove(p, i)
  <2>1. PICK i \in ActivePhase(file) :
          /\ Replace(p, Claimed(file, i, claims + 1), c)
          /\ exec' = IF c THEN [exec EXCEPT ![p] = [token |-> claims + 1,
                                                    phase |-> i,
                                                    scope |-> file.scope]]
                          ELSE exec
    BY <1>2, <1>3 DEF WriteClaim
  <2>2. op[p] = "run" /\ claims' = IF file' = file THEN claims ELSE claims + 1
    BY <1>3 DEF WriteClaim
  <2>3. i \in Phases /\ Claimable(file, i)
    <3>1. PICK k \in Phases : Claimable(file, k)
      BY <1>2, <2>2 DEF Permitted
    <3>2. k \in ActivePhase(file)
      BY <3>1 DEF Claimable
    <3> QED BY <3>1, <3>2, OneUp
  <2>4. Claimed(file, i, claims + 1) # file
    <3>1. file \in Checkpoint /\ file.revision \in Nat
      BY DEF TypeOK, Checkpoint
    <3>2. Claimed(file, i, claims + 1).revision = file.revision + 1
      BY <3>1 DEF Claimed, Checkpoint
    <3> QED BY <3>1, <3>2
  <2>5. CASE file' = Claimed(file, i, claims + 1)
    BY <2>1, <2>2, <2>3, <2>4, <2>5 DEF ClaimMove
  <2>6. CASE file' = file /\ ~c
    BY <2>1, <2>2, <2>6
  <2> QED BY <2>1, <2>5, <2>6 DEF Replace
<1>4. ASSUME WriteCommit(p, c)
      PROVE  UNCHANGED <<file, claims, exec>> \/ ReportMove(p)
  BY <1>2, <1>4 DEF WriteCommit, Replace, ReportMove, Permitted
<1>5. ASSUME WriteReview(p, c)
      PROVE  \/ UNCHANGED <<file, claims, exec>>
             \/ \E i \in Phases : \/ \E n \in NextUp(file, i) : AcceptMove(i, n)
                                  \/ RerunMove(i)
             \/ CancelMove
  <2>1. UNCHANGED <<claims, exec>> /\ op[p] \in ReviewOps
    BY <1>5 DEF WriteReview, ReviewOps
  <2>2. ASSUME NEW i \in ActivePhase(file), op[p] \in {"accept", "rerun"}
        PROVE  i \in Phases /\ file.phases[i].status = "awaiting_review"
    <3>1. PICK k \in ActivePhase(file) :
            file.phases[k].status = "awaiting_review"
      BY <1>2, <2>2 DEF Permitted, Reviewable
    <3> QED BY <3>1, OneUp DEF ActivePhase
  <2>3. ASSUME NEW i \in ActivePhase(file), op[p] = "accept",
               NEW n \in NextUp(file, i), Replace(p, Accepted(file, i, n), c)
        PROVE  file' = file \/ \E k \in Phases : \E m \in NextUp(file, k) : AcceptMove(k, m)
    BY <2>1, <2>2, <2>3 DEF Replace, AcceptMove
  <2>4. ASSUME NEW i \in ActivePhase(file), op[p] = "rerun",
               Replace(p, RerunAsked(file, i), c)
        PROVE  file' = file \/ \E k \in Phases : RerunMove(k)
    BY <2>1, <2>2, <2>4 DEF Replace, RerunMove
  <2>5. ASSUME Replace(p, Cancelled(file), c)
        PROVE  file' = file \/ CancelMove
    BY <2>1, <2>5 DEF Replace, CancelMove
  <2> QED BY <1>2, <1>5, <2>1, <2>3, <2>4, <2>5 DEF WriteReview
<1> QED BY <1>1, <1>3, <1>4, <1>5

\* Of the other steps only start changes the checkpoint, and only the clock
\* changes what has run out.
LEMMA OtherMoves ==
  ASSUME [Next]_vars
  PROVE  \/ UNCHANGED <<file, claims, expired>>
         \/ UNCHANGED <<file, claims>> /\ LeaseExpires
         \/ \E p \in Proc : Start(p)
         \/ \E p \in Proc, c \in BOOLEAN :
              WriteClaim(p, c) \/ WriteCommit(p, c) \/ WriteReview(p, c)
<1>1. ASSUME NEW p \in Proc,
             \/ View(p) \/ BeginRun(p) \/ TakeLock(p) \/ LockBusy(p)
             \/ FindStale(p) \/ BreakLock(p) \/ Read(p) \/ Unlock(p)
             \/ RunPlaybook(p) \/ Crash(p)
             \/ \E d \in ReviewOps : BeginReview(p, d)
      PROVE  UNCHANGED <<file, claims, expired>>
  BY <1>1 DEF View, BeginRun, TakeLock, LockBusy, FindStale, BreakLock, Read,
              Unlock, RunPlaybook, Crash, BeginReview
<1>2. ASSUME LockAges \/ DefaultsChange \/ UNCHANGED vars
      PROVE  UNCHANGED <<file, claims, expired>>
  BY <1>2 DEF LockAges, DefaultsChange, vars
<1>3. LeaseExpires => UNCHANGED <<file, claims>>
  BY DEF LeaseExpires
<1> QED BY <1>1, <1>2, <1>3 DEF Next, Call

\* What each move makes of the checkpoint, field by field.
Others(i) == \A j \in Phases : j # i => file'.phases[j] = file.phases[j]

LEMMA ClaimShape ==
  ASSUME TypeOK, NEW p, NEW i \in Phases, ClaimMove(p, i)
  PROVE  /\ Others(i)
         /\ file'.phases[i].status = "running"
         /\ file'.phases[i].token = claims + 1
         /\ file'.phases[i].result = file.phases[i].result
         /\ file'.phases[i].ranFor = file.phases[i].ranFor
         /\ file'.status = "running" /\ file'.scope = file.scope
         /\ file'.active = file.active
<1>1. file \in Checkpoint /\ file.phases \in [Phases -> PhaseState]
  BY DEF TypeOK, Checkpoint
<1>2. /\ file'.phases = [file.phases EXCEPT ![i] =
                           Granted(file.phases[i], claims + 1)]
      /\ file'.status = "running" /\ file'.scope = file.scope
      /\ file'.active = file.active
  BY <1>1 DEF ClaimMove, Claimed, Checkpoint
<1>3. Others(i) /\ file'.phases[i] = Granted(file.phases[i], claims + 1)
  BY <1>1, <1>2 DEF Others
<1>4. file.phases[i] \in PhaseState
  BY <1>1
<1> QED BY <1>2, <1>3, <1>4 DEF Granted, PhaseState

LEMMA ReportShape ==
  ASSUME TypeOK, NEW p \in Proc, ReportMove(p), NEW i, i = exec[p].phase
  PROVE  /\ i \in Phases /\ Others(i)
         /\ file.status # "cancelled" /\ file.phases[i].status = "running"
         /\ file.phases[i].token = exec[p].token
         /\ file'.phases[i].status = "awaiting_review"
         /\ file'.phases[i].token = 0
         /\ file'.phases[i].result = exec[p].token
         /\ file'.phases[i].ranFor = exec[p].scope
         /\ file'.status = "awaiting_review" /\ file'.active = i
         /\ file'.scope = Pinned(file.scope, exec[p].scope)
<1>1. /\ file \in Checkpoint /\ file.phases \in [Phases -> PhaseState]
      /\ i \in Phases
  BY DEF TypeOK, Checkpoint
<1>2. /\ file'.phases = [file.phases EXCEPT ![i] =
                           Reported(file.phases[i], exec[p])]
      /\ file'.status = "awaiting_review" /\ file'.active = i
      /\ file'.scope = Pinned(file.scope, exec[p].scope)
  BY <1>1 DEF ReportMove, Committed, Checkpoint
<1>3. Others(i) /\ file'.phases[i] = Reported(file.phases[i], exec[p])
  BY <1>1, <1>2 DEF Others
<1>4. file.phases[i] \in PhaseState
  BY <1>1
<1> QED BY <1>1, <1>2, <1>3, <1>4 DEF Reported, PhaseState, ReportMove, InCharge

LEMMA AcceptShape ==
  ASSUME TypeOK, NEW i \in Phases, NEW n, AcceptMove(i, n)
  PROVE  /\ Others(i)
         /\ file'.phases[i].status = "reviewed"
         /\ file'.phases[i].token = file.phases[i].token
         /\ file'.phases[i].result = file.phases[i].result
         /\ file'.phases[i].ranFor = file.phases[i].ranFor
         /\ file'.status = (IF n = 0 THEN "completed" ELSE "pending")
         /\ file'.scope = file.scope /\ file'.active = n
<1>1. file \in Checkpoint /\ file.phases \in [Phases -> PhaseState]
  BY DEF TypeOK, Checkpoint
<1>2. /\ file'.phases = [file.phases EXCEPT ![i] =
                           [file.phases[i] EXCEPT !.status = "reviewed"]]
      /\ file'.status = (IF n = 0 THEN "completed" ELSE "pending")
      /\ file'.scope = file.scope /\ file'.active = n
  BY <1>1 DEF AcceptMove, Accepted, Checkpoint
<1>3. /\ Others(i)
      /\ file'.phases[i] = [file.phases[i] EXCEPT !.status = "reviewed"]
  BY <1>1, <1>2 DEF Others
<1>4. file.phases[i] \in PhaseState
  BY <1>1
<1> QED BY <1>2, <1>3, <1>4 DEF PhaseState

LEMMA RerunShape ==
  ASSUME TypeOK, NEW i \in Phases, RerunMove(i)
  PROVE  /\ Others(i)
         /\ file'.phases[i].status = "pending" /\ file'.phases[i].token = 0
         /\ file'.phases[i].result = 0 /\ file'.phases[i].ranFor = Unset
         /\ file'.status = "pending" /\ file'.scope = file.scope
         /\ file'.active = file.active
<1>1. file \in Checkpoint /\ file.phases \in [Phases -> PhaseState]
  BY DEF TypeOK, Checkpoint
<1>2. /\ file'.phases = [file.phases EXCEPT ![i] = Reset(file.phases[i])]
      /\ file'.status = "pending" /\ file'.scope = file.scope
      /\ file'.active = file.active
  BY <1>1 DEF RerunMove, RerunAsked, Checkpoint
<1>3. Others(i) /\ file'.phases[i] = Reset(file.phases[i])
  BY <1>1, <1>2 DEF Others
<1>4. file.phases[i] \in PhaseState
  BY <1>1
<1> QED BY <1>2, <1>3, <1>4 DEF Reset, PhaseState

LEMMA CancelShape ==
  ASSUME TypeOK, CancelMove
  PROVE  /\ file'.status = "cancelled" /\ file'.scope = file.scope
         /\ \A j \in Phases : j \notin ActivePhase(file) =>
              file'.phases[j] = file.phases[j]
         /\ \A j \in ActivePhase(file) :
              /\ file'.phases[j].status = "cancelled"
              /\ file'.phases[j].token = 0
              /\ file'.phases[j].result = file.phases[j].result
              /\ file'.phases[j].ranFor = file.phases[j].ranFor
<1> DEFINE phs == [j \in Phases |-> IF j \in ActivePhase(file)
                                    THEN CalledOff(file.phases[j])
                                    ELSE file.phases[j]]
<1>1. file \in Checkpoint /\ \A j \in Phases : file.phases[j] \in PhaseState
  BY DEF TypeOK, Checkpoint
<1>2. \A j \in Phases : phs[j] = IF j \in ActivePhase(file)
                                 THEN CalledOff(file.phases[j])
                                 ELSE file.phases[j]
  OBVIOUS
<1>3. file' = [file EXCEPT !.status = "cancelled",
                           !.revision = file.revision + 1, !.phases = phs]
  BY Zenon DEF CancelMove, Cancelled
<1> HIDE DEF phs
<1>4. /\ file'.phases = phs /\ file'.status = "cancelled"
      /\ file'.scope = file.scope
  BY <1>1, <1>3 DEF Checkpoint
<1>5. \A ph \in PhaseState : /\ CalledOff(ph).status = "cancelled"
                             /\ CalledOff(ph).token = 0
                             /\ CalledOff(ph).result = ph.result
                             /\ CalledOff(ph).ranFor = ph.ranFor
  BY DEF CalledOff, PhaseState
<1>6. ActivePhase(file) \subseteq Phases
  BY DEF ActivePhase
<1> QED BY <1>1, <1>2, <1>4, <1>5, <1>6

LEMMA StartShape ==
  ASSUME NEW p, Start(p)
  PROVE  /\ file.status = "absent" /\ UNCHANGED <<claims, expired, exec, op>>
         /\ file'.status = "pending" /\ file'.active = 1
         /\ file'.phases = [i \in Phases |-> NewPhase]
<1>1. PICK s \in Scope \cup {Unset} :
        file' = [NoFile EXCEPT !.status = "pending", !.revision = 1,
                               !.active = 1, !.scope = s]
  BY Zenon DEF Start
<1> QED BY <1>1 DEF Start, NoFile

(***************************************************************************)
(* The phases are worked through in order.                                 *)
(***************************************************************************)
\* The phases after the first k, and no others, are open.
OpenAfter(f, k) == \A i \in Phases : f.phases[i].status \in Open <=> k < i

LEMMA UpIsNext ==
  ASSUME NEW f, NEW k \in 0..NPhases, OpenAfter(f, k), NEW i \in ActivePhase(f)
  PROVE  i \in Phases /\ i = k + 1
<1>1. i \in Phases /\ i \in Nat /\ k \in Nat /\ k < i
  BY DEF ActivePhase, OpenAfter, Phases
<1>2. k + 1 \in Phases /\ k < k + 1
  BY <1>1, ConstantsAssumption DEF Phases
<1>3. i <= k + 1
  BY <1>2 DEF ActivePhase, OpenAfter
<1> QED BY <1>1, <1>3

LEMMA RunningIsUp ==
  ASSUME WorkInv, NEW i \in Phases, file.phases[i].status = "running"
  PROVE  i \in ActivePhase(file)
<1>1. file.phases[i].status \in Open
  BY DEF Open
<1>2. \A j \in Phases : j < i => file.phases[j].status \notin Open
  BY DEF WorkInv, PhasesInOrder
<1>3. \A j \in Phases : file.phases[j].status \in Open => i <= j
  BY <1>2 DEF Phases
<1> QED BY <1>1, <1>3 DEF ActivePhase

\* The phase that is up stays open, or is closed and the next one is up.
LEMMA OpenMoves ==
  ASSUME NEW k \in 0..NPhases, OpenAfter(file, k), NEW i \in ActivePhase(file),
         Others(i)
  PROVE  \E m \in 0..NPhases : OpenAfter(file', m)
<1>1. i \in Phases /\ i = k + 1
  BY UpIsNext
<1>2. /\ k \in Nat /\ i \in Nat /\ i \in 0..NPhases
      /\ \A j \in Phases : j \in Nat
  BY <1>1, ConstantsAssumption DEF Phases
<1>3. CASE file'.phases[i].status \in Open
  <2>1. OpenAfter(file', k)
    BY <1>1, <1>2, <1>3 DEF OpenAfter, Others
  <2> QED BY <2>1
<1>4. CASE file'.phases[i].status \notin Open
  <2>1. \A j \in Phases : j # i => (k < j <=> i < j)
    BY <1>1, <1>2
  <2>2. ~(i < i)
    BY <1>2
  <2>3. OpenAfter(file', i)
    BY <1>1, <1>4, <2>1, <2>2 DEF OpenAfter, Others
  <2> QED BY <1>2, <2>3
<1> QED BY <1>3, <1>4

LEMMA PhaseInit == Init => PhaseInv
<1> SUFFICES ASSUME Init PROVE PhaseInv
  OBVIOUS
<1>1. /\ \A i \in Phases : file.phases[i] = NewPhase /\ 0 < i
      /\ file.status = "absent" /\ 0 \in 0..NPhases
  BY ConstantsAssumption DEF Init, NoFile, Phases
<1>2. /\ NewPhase.status = "pending" /\ NewPhase.token = 0
      /\ "pending" \in Open
  BY DEF NewPhase, Open
<1> QED BY <1>1, <1>2 DEF PhaseInv

LEMMA PhaseNext == TypeOK /\ WorkInv /\ PhaseInv /\ [Next]_vars => PhaseInv'
<1> SUFFICES ASSUME TypeOK, WorkInv, PhaseInv, [Next]_vars PROVE PhaseInv'
  OBVIOUS
<1>0. PICK k \in 0..NPhases : OpenAfter(file, k)
  BY DEF PhaseInv, OpenAfter
<1>1. ASSUME NEW p, Start(p) PROVE PhaseInv'
  <2>1. /\ \A i \in Phases : file'.phases[i] = NewPhase /\ 0 < i
        /\ file'.status = "pending" /\ 0 \in 0..NPhases
    BY <1>1, StartShape, ConstantsAssumption DEF Phases
  <2>2. /\ NewPhase.status = "pending" /\ NewPhase.token = 0
        /\ "pending" \in Open
    BY DEF NewPhase, Open
  <2> QED BY <2>1, <2>2 DEF PhaseInv
\* A change of the phase that is up.
<1>2. ASSUME NEW i \in ActivePhase(file), Others(i),
             file'.phases[i].status # "cancelled", file.status # "cancelled",
             file'.phases[i].status = "running" \/ file'.phases[i].token = 0
      PROVE  PhaseInv'
  <2>1. PICK m \in 0..NPhases : OpenAfter(file', m)
    BY <1>0, <1>2, OpenMoves
  <2>2. \A j \in Phases : /\ file'.phases[j].status = "running"
                             \/ file'.phases[j].token = 0
                          /\ file'.phases[j].status # "cancelled"
    BY <1>2 DEF PhaseInv, Others
  <2> QED BY <2>1, <2>2 DEF PhaseInv, OpenAfter
<1>3. file.status = "cancelled" => \A i \in Phases :
        file.phases[i].status \notin {"running", "awaiting_review"}
  BY DEF WorkInv, PhasesInOrder
<1>4. ASSUME NEW p, NEW i \in Phases, ClaimMove(p, i) PROVE PhaseInv'
  <2>1. i \in ActivePhase(file) /\ file.status # "cancelled"
    BY <1>4 DEF ClaimMove, Claimable
  <2> QED BY <1>2, <1>4, <2>1, ClaimShape
<1>5. ASSUME NEW p \in Proc, ReportMove(p) PROVE PhaseInv'
  <2> DEFINE i == exec[p].phase
  <2>1. /\ i \in Phases /\ Others(i) /\ file.status # "cancelled"
        /\ file.phases[i].status = "running"
        /\ file'.phases[i].status = "awaiting_review"
        /\ file'.phases[i].token = 0
    BY <1>5, ReportShape
  <2> HIDE DEF i
  <2>2. i \in ActivePhase(file)
    BY <2>1, RunningIsUp
  <2> QED BY <1>2, <2>1, <2>2
<1>6. ASSUME NEW i \in Phases, NEW n, AcceptMove(i, n) PROVE PhaseInv'
  <2>1. i \in ActivePhase(file) /\ file.phases[i].status = "awaiting_review"
    BY <1>6 DEF AcceptMove
  <2>2. file.phases[i].token = 0
    BY <2>1 DEF PhaseInv
  <2> QED BY <1>2, <1>3, <1>6, <2>1, <2>2, AcceptShape
<1>7. ASSUME NEW i \in Phases, RerunMove(i) PROVE PhaseInv'
  <2>1. i \in ActivePhase(file) /\ file.phases[i].status = "awaiting_review"
    BY <1>7 DEF RerunMove
  <2> QED BY <1>2, <1>3, <1>7, <2>1, RerunShape
<1>8. ASSUME CancelMove PROVE PhaseInv'
  <2>1. /\ file'.status = "cancelled"
        /\ \A j \in Phases : j \notin ActivePhase(file) =>
             file'.phases[j] = file.phases[j]
        /\ \A j \in ActivePhase(file) : /\ file'.phases[j].status = "cancelled"
                                        /\ file'.phases[j].token = 0
    BY <1>8, CancelShape
  <2>2. \E m \in 0..NPhases : OpenAfter(file', m)
    <3>1. CASE ActivePhase(file) = {}
      BY <1>0, <2>1, <3>1 DEF OpenAfter
    <3>2. ASSUME NEW i \in ActivePhase(file)
          PROVE  \E m \in 0..NPhases : OpenAfter(file', m)
      <4>1. Others(i)
        BY <2>1, OneUp DEF Others
      <4> QED BY <1>0, <4>1, OpenMoves
    <3> QED BY <3>1, <3>2
  <2> QED BY <2>1, <2>2 DEF PhaseInv, OpenAfter
<1>9. CASE file' = file
  BY <1>9 DEF PhaseInv
<1> QED BY <1>1, <1>4, <1>5, <1>6, <1>7, <1>8, <1>9, OtherMoves, WriteMoves

(***************************************************************************)
(* The store implements the protocol.                                      *)
(***************************************************************************)
Stage   == [i \in Phases |-> file.phases[i].status]
Grants  == [i \in Phases |-> file.phases[i].token]
Results == [i \in Phases |-> file.phases[i].result]

LEMMA Pointwise ==
  ASSUME NEW i \in Phases, Others(i)
  PROVE  /\ Stage' = [Stage EXCEPT ![i] = file'.phases[i].status]
         /\ Grants' = [Grants EXCEPT ![i] = file'.phases[i].token]
         /\ Results' = [Results EXCEPT ![i] = file'.phases[i].result]
  BY DEF Others, Stage, Grants, Results

\* A field that keeps its value in the phase that is up is unchanged.
LEMMA Same ==
  ASSUME NEW i \in Phases, Others(i)
  PROVE  /\ file'.phases[i].token = file.phases[i].token => Grants' = Grants
         /\ file'.phases[i].result = file.phases[i].result => Results' = Results
  BY DEF Others, Grants, Results

\* Nothing before the phase that is up is open, and in a workflow that was not
\* cancelled all of it was reviewed.
LEMMA BeforeUp ==
  ASSUME TypeOK, PhaseInv, NEW i \in ActivePhase(file), NEW j \in Phases, j < i
  PROVE  /\ file.phases[j].status \in {"reviewed", "cancelled"}
         /\ file.status # "cancelled" => file.phases[j].status = "reviewed"
<1>1. file.phases[j].status \in Open \cup {"reviewed", "cancelled"}
  BY Fields DEF TypeOK, PhaseState
<1>2. ~(i <= j)
  BY DEF ActivePhase, Phases
<1>3. file.phases[j].status \notin Open
  BY <1>2 DEF ActivePhase
<1> QED BY <1>1, <1>3 DEF PhaseInv

LEMMA ClaimIsGrant ==
  ASSUME TypeOK, PhaseInv, NEW p, NEW i \in Phases, ClaimMove(p, i),
         expired' = expired
  PROVE  Protocol!Grant(i)
<1>1. /\ i \in ActivePhase(file) /\ file.status # "cancelled"
      /\ LeaseFree(file.phases[i]) /\ claims' = claims + 1
      /\ file'.status # "cancelled"
  BY ClaimShape DEF ClaimMove, Claimable
<1>2. \A j \in Phases : j < i => Stage[j] = "reviewed"
  BY <1>1, BeforeUp DEF Stage
<1>3. \/ Stage[i] = "pending"
      \/ Stage[i] = "running" /\ Grants[i] <= expired
  BY <1>1 DEF LeaseFree, Stage, Grants
<1>4. /\ Stage' = [Stage EXCEPT ![i] = "running"]
      /\ Grants' = [Grants EXCEPT ![i] = claims']
      /\ Results' = Results
  BY <1>1, ClaimShape, Pointwise, Same
<1> QED BY <1>1, <1>2, <1>3, <1>4
        DEF Protocol!Grant, Protocol!Current, Protocol!Phases, Phases, Stage,
            Grants, Results

LEMMA ReportIsReport ==
  ASSUME TypeOK, NEW p \in Proc, ReportMove(p), expired' = expired
  PROVE  \E i \in Phases : Protocol!Report(i)
<1>0. PICK i \in Phases : i = exec[p].phase
  BY ReportShape
<1>1. /\ Others(i) /\ claims' = claims
      /\ file.status # "cancelled" /\ file'.status # "cancelled"
      /\ file.phases[i].status = "running"
      /\ file.phases[i].token = exec[p].token
      /\ file'.phases[i].status = "awaiting_review"
      /\ file'.phases[i].token = 0
      /\ file'.phases[i].result = exec[p].token
  BY <1>0, ReportShape DEF ReportMove
<1>2. /\ Stage' = [Stage EXCEPT ![i] = "awaiting_review"]
      /\ Results' = [Results EXCEPT ![i] = Grants[i]]
      /\ Grants' = [Grants EXCEPT ![i] = 0]
  BY <1>1, Pointwise DEF Grants
<1>3. Stage[i] = "running"
  BY <1>1 DEF Stage
<1>4. Protocol!Report(i)
  BY <1>1, <1>2, <1>3
     DEF Protocol!Report, Protocol!Phases, Phases, Stage, Grants, Results
<1> QED BY <1>1, <1>4

LEMMA AcceptIsAccept ==
  ASSUME TypeOK, WorkInv, NEW i \in Phases, NEW n, AcceptMove(i, n),
         expired' = expired
  PROVE  Protocol!Accept(i)
<1>1. /\ file.phases[i].status = "awaiting_review" /\ claims' = claims
      /\ file.status # "cancelled" /\ file'.status # "cancelled"
  BY AcceptShape DEF AcceptMove, WorkInv, PhasesInOrder
<1>2. /\ Stage' = [Stage EXCEPT ![i] = "reviewed"]
      /\ Grants' = Grants /\ Results' = Results
      /\ Stage[i] = "awaiting_review"
  BY <1>1, AcceptShape, Pointwise, Same DEF Stage
<1> QED BY <1>1, <1>2
        DEF Protocol!Accept, Protocol!Phases, Phases, Stage, Grants, Results

LEMMA RerunIsRerun ==
  ASSUME TypeOK, WorkInv, PhaseInv, NEW i \in Phases, RerunMove(i),
         expired' = expired
  PROVE  Protocol!Rerun(i)
<1>1. /\ file.phases[i].status = "awaiting_review" /\ claims' = claims
      /\ file.phases[i].token = 0
      /\ file.status # "cancelled" /\ file'.status # "cancelled"
  BY RerunShape DEF RerunMove, WorkInv, PhasesInOrder, PhaseInv
<1>2. /\ Stage' = [Stage EXCEPT ![i] = "pending"]
      /\ Results' = [Results EXCEPT ![i] = 0]
      /\ Grants' = Grants
      /\ Stage[i] = "awaiting_review"
  BY <1>1, RerunShape, Pointwise, Same DEF Stage
<1> QED BY <1>1, <1>2
        DEF Protocol!Rerun, Protocol!Phases, Phases, Stage, Grants, Results

LEMMA CancelIsCancel ==
  ASSUME TypeOK, PhaseInv, CancelMove, expired' = expired
  PROVE  Protocol!Cancel
<1>1. /\ file'.status = "cancelled" /\ claims' = claims
      /\ \A j \in Phases : j \notin ActivePhase(file) =>
           file'.phases[j] = file.phases[j]
      /\ \A j \in ActivePhase(file) :
           /\ file'.phases[j].status = "cancelled"
           /\ file'.phases[j].token = 0
           /\ file'.phases[j].result = file.phases[j].result
  BY CancelShape DEF CancelMove
<1>2. \A j \in Phases : Stage[j] \in Open \cup {"reviewed", "cancelled"}
  BY Fields DEF TypeOK, PhaseState, Stage
<1>3. CASE ActivePhase(file) = {}
  <2>1. PICK k \in 0..NPhases : OpenAfter(file, k)
    BY DEF PhaseInv, OpenAfter
  <2>2. \A j \in Phases : Stage[j] \notin Open
    <3> SUFFICES ASSUME NEW j \in Phases, Stage[j] \in Open PROVE FALSE
      OBVIOUS
    <3>1. j \in Nat /\ k < j /\ k \in Nat
      BY <2>1 DEF OpenAfter, Stage, Phases
    <3>2. k + 1 \in Phases /\ k < k + 1
      BY <3>1, ConstantsAssumption DEF Phases
    <3>3. \A m \in Phases : k < m => k + 1 <= m
      BY <3>1 DEF Phases
    <3>4. k + 1 \in ActivePhase(file)
      BY <2>1, <3>2, <3>3 DEF OpenAfter, ActivePhase
    <3> QED BY <1>3, <3>4
  <2>3. \A j \in Phases : Stage[j] \in {"reviewed", "cancelled"}
    BY <1>2, <2>2
  <2>4. Stage' = Stage /\ Grants' = Grants /\ Results' = Results
    BY <1>1, <1>3 DEF Stage, Grants, Results
  <2> QED BY <1>1, <2>3, <2>4
          DEF Protocol!Cancel, Protocol!Closed, Protocol!Phases, Phases, Stage,
              Grants, Results
<1>4. ASSUME NEW i \in ActivePhase(file) PROVE Protocol!Cancel
  <2>1. i \in Phases /\ Stage[i] \in Open
    BY DEF ActivePhase, Stage
  <2>2. Others(i)
    BY <1>1, OneUp DEF Others
  <2>3. /\ Stage' = [Stage EXCEPT ![i] = "cancelled"]
        /\ Grants' = [Grants EXCEPT ![i] = 0]
        /\ Results' = Results
    BY <1>1, <2>1, <2>2, Pointwise, Same
  <2>4. \A j \in Phases : j < i => Stage[j] \in {"reviewed", "cancelled"}
    BY BeforeUp DEF Stage
  <2>5. Stage[i] \notin {"reviewed", "cancelled"}
    BY <2>1 DEF Open
  <2> QED BY <1>1, <2>1, <2>3, <2>4, <2>5
          DEF Protocol!Cancel, Protocol!Closed, Protocol!Phases, Phases, Stage,
              Grants, Results
<1> QED BY <1>3, <1>4

LEMMA ProtocolInit == Init => Protocol!Init
<1> SUFFICES ASSUME Init PROVE Protocol!Init
  OBVIOUS
<1>1. /\ \A i \in Phases : file.phases[i] = NewPhase
      /\ file.status = "absent" /\ claims = 0 /\ expired = 0
  BY DEF Init, NoFile
<1> QED BY <1>1 DEF Protocol!Init, Protocol!Phases, Phases, NewPhase

LEMMA ProtocolStep ==
  TypeOK /\ WorkInv /\ SeenInv /\ PhaseInv /\ [Next]_vars
    => [Protocol!Next]_(Protocol!vars)
<1> SUFFICES ASSUME TypeOK, WorkInv, SeenInv, PhaseInv, [Next]_vars
             PROVE  Protocol!Next \/ UNCHANGED Protocol!vars
  OBVIOUS
<1>1. CASE UNCHANGED <<file, claims, expired>>
  BY <1>1 DEF Protocol!vars
<1>2. CASE UNCHANGED <<file, claims>> /\ LeaseExpires
  <2>1. Protocol!Lapse
    BY <1>2 DEF Protocol!Lapse, LeaseExpires
  <2> QED BY <2>1 DEF Protocol!Next
\* start writes what an absent file was taken for.
<1>3. ASSUME NEW p, Start(p) PROVE UNCHANGED Protocol!vars
  <2>1. file.status = "absent" /\ UNCHANGED <<claims, expired>>
        /\ file'.status = "pending" /\ file'.phases = [i \in Phases |-> NewPhase]
    BY <1>3, StartShape
  <2>2. file.phases = [i \in Phases |-> NewPhase]
    BY <2>1 DEF SeenInv, NoFile
  <2> QED BY <2>1, <2>2 DEF Protocol!vars
<1>4. ASSUME NEW p \in Proc, NEW i \in Phases, ClaimMove(p, i), expired' = expired
      PROVE  Protocol!Next
  BY <1>4, ClaimIsGrant DEF Protocol!Next, Protocol!Phases, Phases
<1>5. ASSUME NEW p \in Proc, ReportMove(p), expired' = expired
      PROVE  Protocol!Next
  BY <1>5, ReportIsReport DEF Protocol!Next, Protocol!Phases, Phases
<1>6. ASSUME NEW i \in Phases, NEW n, AcceptMove(i, n), expired' = expired
      PROVE  Protocol!Next
  BY <1>6, AcceptIsAccept DEF Protocol!Next, Protocol!Phases, Phases
<1>7. ASSUME NEW i \in Phases, RerunMove(i), expired' = expired
      PROVE  Protocol!Next
  BY <1>7, RerunIsRerun DEF Protocol!Next, Protocol!Phases, Phases
<1>8. ASSUME CancelMove, expired' = expired PROVE Protocol!Next
  BY <1>8, CancelIsCancel DEF Protocol!Next
<1>9. ASSUME NEW p \in Proc, NEW c \in BOOLEAN,
             WriteClaim(p, c) \/ WriteCommit(p, c) \/ WriteReview(p, c)
      PROVE  Protocol!Next \/ UNCHANGED Protocol!vars
  BY <1>1, <1>4, <1>5, <1>6, <1>7, <1>8, <1>9, WriteMoves
<1> QED BY <1>1, <1>2, <1>3, <1>9, OtherMoves

LEMMA PhaseInvariant ==
  ASSUME ~ConcurrentBreak
  PROVE  Spec => [](TypeOK /\ WorkInv /\ SeenInv /\ PhaseInv)
  BY StoreInvariant, SeenInit, SeenNext, PhaseInit, PhaseNext, PTL DEF Spec

\* docs/AI_ORCHESTRATION.md's promise, for any number of processes and phases:
\* seen from outside, the store with its lock file, crashes, failing writes and
\* expiring leases takes the steps of ReviewProtocol, or none.
THEOREM StoreFollowsProtocol ==
  ASSUME ~ConcurrentBreak
  PROVE  Spec => FollowsProtocol
  BY ProtocolInit, ProtocolStep, PhaseInvariant, PTL
     DEF Spec, FollowsProtocol, Protocol!Spec

(***************************************************************************)
(* Results and the scope above them.                                       *)
(***************************************************************************)
LEMMA ScopeInit == Init => ScopeInv
<1> SUFFICES ASSUME Init PROVE ScopeInv
  OBVIOUS
<1>1. /\ \A i \in Phases : file.phases[i] = NewPhase
      /\ \A p \in Proc : exec[p] = NoExec
  BY DEF Init, NoFile
<1>2. NewPhase.ranFor = Unset /\ NoExec.token = 0
  BY DEF NewPhase, NoExec
<1> QED BY <1>1, <1>2 DEF ScopeInv, OneScope, RanUnder

\* What becomes of an execution while the checkpoint stays.
LEMMA ExecMoves ==
  ASSUME TypeOK, WorkInv, [Next]_vars, UNCHANGED <<file, claims>>, NEW q \in Proc
  PROVE  \/ exec'[q].token = 0
         \/ exec'[q] = exec[q] /\ op'[q] = op[q]
         \/ RunPlaybook(q)
<1>0. /\ exec \in [Proc -> Execution]
      /\ op \in [Proc -> {"none", "run", "commit"} \cup ReviewOps]
      /\ pc \in [Proc -> {"idle", "viewing", "lock", "break", "read", "write",
                          "unlock", "exec"}]
  BY DEF TypeOK, Execution
<1>1. ASSUME NEW p \in Proc, Gone(p)
      PROVE  exec'[q].token = 0 \/ (exec'[q] = exec[q] /\ op'[q] = op[q])
  BY <1>0, <1>1 DEF Gone, NoExec
<1>2. ASSUME NEW p \in Proc, BeginRun(p) \/ \E d \in ReviewOps : BeginReview(p, d)
      PROVE  exec'[q].token = 0 \/ (exec'[q] = exec[q] /\ op'[q] = op[q])
  <2>1. /\ pc[p] \in {"idle", "viewing"} /\ exec' = exec
        /\ \A r \in Proc : r # p => op'[r] = op[r]
    BY <1>0, <1>2 DEF BeginRun, BeginReview
  <2>2. HoldsToken(p)
    BY DEF WorkInv
  <2>3. exec[p].token = 0
    BY <2>1, <2>2 DEF HoldsToken
  <2> QED BY <2>1, <2>3
<1>3. ASSUME NEW p \in Proc,
             \/ Start(p) \/ View(p) \/ TakeLock(p) \/ FindStale(p)
             \/ BreakLock(p) \/ Read(p)
      PROVE  UNCHANGED <<exec, op>>
  BY <1>3 DEF Start, View, TakeLock, FindStale, BreakLock, Read
<1>4. ASSUME NEW p \in Proc, LockBusy(p) \/ Unlock(p) \/ Crash(p)
      PROVE  UNCHANGED <<exec, op>> \/ Gone(p)
  BY <1>4 DEF LockBusy, Unlock, Crash
<1>5. ASSUME NEW p \in Proc, RunPlaybook(p), p # q
      PROVE  exec'[q] = exec[q] /\ op'[q] = op[q]
  BY <1>0, <1>5 DEF RunPlaybook
<1>6. ASSUME NEW p \in Proc, NEW c \in BOOLEAN,
             WriteClaim(p, c) \/ WriteCommit(p, c) \/ WriteReview(p, c)
      PROVE  UNCHANGED <<exec, op>>
  <2>1. claims + 1 # claims
    BY DEF TypeOK
  <2>2. UNCHANGED op /\ (exec' = exec \/ \E i \in Phases : ClaimMove(p, i))
    BY <1>6, WriteMoves DEF ReportMove, AcceptMove, RerunMove, CancelMove
  <2> QED BY <2>1, <2>2 DEF ClaimMove
<1>7. ASSUME LockAges \/ LeaseExpires \/ DefaultsChange \/ UNCHANGED vars
      PROVE  UNCHANGED <<exec, op>>
  BY <1>7 DEF LockAges, LeaseExpires, DefaultsChange, vars
<1> QED BY <1>1, <1>2, <1>3, <1>4, <1>5, <1>6, <1>7 DEF Next, Call

LEMMA ScopeStays ==
  ASSUME TypeOK, WorkInv, ScopeInv, [Next]_vars, UNCHANGED <<file, claims>>
  PROVE  ScopeInv'
<1>1. OneScope'
  BY DEF ScopeInv, OneScope
<1>2. ASSUME NEW q \in Proc, RunPlaybook(q) PROVE RanUnder(q)'
  <2>1. /\ exec \in [Proc -> Execution]
        /\ op \in [Proc -> {"none", "run", "commit"} \cup ReviewOps]
    BY DEF TypeOK, Execution
  <2>2. PICK ran \in {Unset, Pinned(default, exec[q].scope)} :
          exec' = [exec EXCEPT ![q].scope = ran]
    BY <1>2 DEF RunPlaybook
  <2>3. /\ exec'[q].token = exec[q].token /\ exec'[q].phase = exec[q].phase
        /\ exec'[q].scope = ran /\ op[q] = "run" /\ op'[q] = "commit"
    BY <1>2, <2>1, <2>2 DEF RunPlaybook, Execution, WorkInv, HoldsToken
  <2>4. RanUnder(q)
    BY DEF ScopeInv
  <2> QED BY <2>2, <2>3, <2>4 DEF RanUnder, InCharge, Pinned
<1>3. ASSUME NEW q \in Proc PROVE RanUnder(q)'
  <2>1. CASE exec'[q].token = 0
    BY <2>1 DEF RanUnder
  <2>2. CASE exec'[q] = exec[q] /\ op'[q] = op[q]
    BY <2>2 DEF ScopeInv, RanUnder, InCharge
  <2> QED BY <1>2, <2>1, <2>2, ExecMoves
<1> QED BY <1>1, <1>3 DEF ScopeInv

\* A change of the phase that is up that leaves the scope: nobody is in charge
\* afterwards who was not before.
LEMMA ScopeLeft ==
  ASSUME TypeOK, WorkInv, ScopeInv, NEW i \in Phases, Others(i),
         file'.scope = file.scope, UNCHANGED <<exec, op>>,
         file'.phases[i].ranFor \in {file.phases[i].ranFor, Unset},
         file'.phases[i].status = "running" =>
           \A p \in Proc : exec[p].token # file'.phases[i].token
  PROVE  ScopeInv'
<1>1. OneScope'
  BY DEF ScopeInv, OneScope, Others
<1>2. ASSUME NEW q \in Proc, exec[q].token # 0, InCharge(file', exec[q])
      PROVE  InCharge(file, exec[q])
  <2>1. exec[q].phase \in Phases /\ exec[q].phase # i
    BY <1>2 DEF TypeOK, InCharge
  <2>2. /\ file.phases[exec[q].phase].status = "running"
        /\ file.phases[exec[q].phase].token = exec[q].token
    BY <1>2, <2>1 DEF InCharge, Others
  <2>3. file.status # "cancelled"
    BY <2>1, <2>2 DEF WorkInv, PhasesInOrder
  <2> QED BY <2>2, <2>3 DEF InCharge
<1>3. ASSUME NEW q \in Proc PROVE RanUnder(q)'
  BY <1>2 DEF ScopeInv, RanUnder
<1> QED BY <1>1, <1>3 DEF ScopeInv

\* No execution holds the token a claim is about to issue.
LEMMA NewToken ==
  ASSUME TypeOK, WorkInv PROVE \A p \in Proc : exec[p].token # claims + 1
<1>1. \A p \in Proc : exec[p].token \in Nat /\ exec[p].token <= claims
  BY DEF TypeOK, WorkInv
<1>2. claims \in Nat /\ ~(claims + 1 <= claims)
  BY DEF TypeOK
<1> QED BY <1>1, <1>2

LEMMA ScopeClaim ==
  ASSUME TypeOK, WorkInv, ScopeInv, NEW p \in Proc, NEW i \in Phases,
         ClaimMove(p, i), UNCHANGED op
  PROVE  ScopeInv'
<1>1. /\ Others(i) /\ file'.scope = file.scope
      /\ file'.phases[i].token = claims + 1
      /\ file'.phases[i].status = "running"
      /\ file'.phases[i].ranFor = file.phases[i].ranFor
  BY ClaimShape
<1>2. CASE exec' = exec
  BY <1>1, <1>2, NewToken, ScopeLeft
<1>3. CASE exec' = [exec EXCEPT ![p] = [token |-> claims + 1, phase |-> i,
                                        scope |-> file.scope]]
  <2>1. OneScope'
    BY <1>1 DEF ScopeInv, OneScope, Others
  <2>2. RanUnder(p)'
    BY <1>1, <1>3 DEF RanUnder, TypeOK
  <2>3. ASSUME NEW q \in Proc, q # p PROVE RanUnder(q)'
    <3>1. exec'[q] = exec[q] /\ op'[q] = op[q] /\ exec[q].phase \in Phases
      BY <1>3, <2>3 DEF TypeOK
    <3>2. CASE exec[q].phase = i
      BY <1>1, <3>1, <3>2, NewToken DEF RanUnder, InCharge
    <3>3. CASE exec[q].phase # i /\ InCharge(file', exec[q])
      <4>1. InCharge(file, exec[q])
        BY <1>1, <3>1, <3>3 DEF InCharge, Others, WorkInv, PhasesInOrder
      <4> QED BY <1>1, <3>1, <4>1 DEF ScopeInv, RanUnder
    <3>4. CASE ~InCharge(file', exec[q])
      BY <3>1, <3>4 DEF RanUnder
    <3> QED BY <3>2, <3>3, <3>4
  <2> QED BY <2>1, <2>2, <2>3 DEF ScopeInv
<1> QED BY <1>2, <1>3 DEF ClaimMove

\* The result is for the scope the checkpoint then names, and so are the
\* results before it; afterwards nobody is in charge.
LEMMA ScopeReport ==
  ASSUME TypeOK, WorkInv, ScopeInv, NEW p \in Proc, ReportMove(p), UNCHANGED op
  PROVE  ScopeInv'
<1>1. PICK i \in Phases : i = exec[p].phase
  BY ReportShape
<1>2. /\ Others(i) /\ file.phases[i].status = "running"
      /\ file'.phases[i].status = "awaiting_review"
      /\ file'.phases[i].ranFor = exec[p].scope
      /\ file'.scope = Pinned(file.scope, exec[p].scope)
      /\ exec' = exec
  BY <1>1, ReportShape DEF ReportMove
<1>3. \/ exec[p].scope = file.scope
      \/ Unset \in {exec[p].scope, file.scope}
  BY DEF ReportMove, WorkInv, HoldsToken, ScopeInv, RanUnder
<1>4. OneScope'
  BY <1>2, <1>3 DEF ScopeInv, OneScope, Others, Pinned
<1>5. ASSUME NEW q \in Proc PROVE ~InCharge(file', exec[q])
  <2>1. PICK j \in Phases : j = exec[q].phase
    BY DEF TypeOK
  <2>2. ASSUME j # i, file.phases[j].status = "running" PROVE FALSE
    <3>1. i \in ActivePhase(file) /\ j \in ActivePhase(file)
      BY <1>2, <2>2, RunningIsUp
    <3> QED BY <2>2, <3>1, OneUp
  <2> QED BY <1>2, <2>1, <2>2 DEF InCharge, Others
<1>6. \A q \in Proc : RanUnder(q)'
  BY <1>2, <1>5 DEF RanUnder
<1> QED BY <1>4, <1>6 DEF ScopeInv

LEMMA ScopeCancel ==
  ASSUME TypeOK, ScopeInv, CancelMove PROVE ScopeInv'
<1>1. file'.status = "cancelled" /\ file'.scope = file.scope
  BY CancelShape
<1>2. \A j \in Phases : file'.phases[j].ranFor = file.phases[j].ranFor
  BY CancelShape
<1> QED BY <1>1, <1>2 DEF ScopeInv, OneScope, RanUnder, InCharge

LEMMA ScopeNext == TypeOK /\ WorkInv /\ ScopeInv /\ [Next]_vars => ScopeInv'
<1> SUFFICES ASSUME TypeOK, WorkInv, ScopeInv, [Next]_vars PROVE ScopeInv'
  OBVIOUS
<1>1. ASSUME NEW p \in Proc, Start(p) PROVE ScopeInv'
  <2>1. /\ file.status = "absent" /\ exec' = exec
        /\ \A i \in Phases : file'.phases[i] = NewPhase
    BY <1>1, StartShape
  <2>2. NewPhase.ranFor = Unset /\ NewPhase.status = "pending"
    BY DEF NewPhase
  <2>3. \A q \in Proc : exec[q].phase \in Phases
    BY DEF TypeOK
  <2> QED BY <2>1, <2>2, <2>3 DEF ScopeInv, OneScope, RanUnder, InCharge
<1>2. ASSUME NEW i \in Phases, NEW n, AcceptMove(i, n), UNCHANGED op
      PROVE  ScopeInv'
  BY <1>2, AcceptShape, ScopeLeft DEF AcceptMove
<1>3. ASSUME NEW i \in Phases, RerunMove(i), UNCHANGED op PROVE ScopeInv'
  BY <1>3, RerunShape, ScopeLeft DEF RerunMove
<1>4. ASSUME NEW p \in Proc, NEW c \in BOOLEAN,
             WriteClaim(p, c) \/ WriteCommit(p, c) \/ WriteReview(p, c)
      PROVE  ScopeInv'
  BY <1>2, <1>3, <1>4, WriteMoves, ScopeStays, ScopeClaim, ScopeReport,
     ScopeCancel
<1> QED BY <1>1, <1>4, OtherMoves, ScopeStays

\* The phases a reviewer sees and the scope line above them belong together,
\* although the defaults change while a playbook runs and superseded
\* executions go on running.
THEOREM ResultsShareScope ==
  ASSUME ~ConcurrentBreak
  PROVE  Spec => []OneScope
<1>1. ScopeInv => OneScope
  BY DEF ScopeInv
<1> QED BY <1>1, StoreInvariant, ScopeInit, ScopeNext, PTL DEF Spec

(***************************************************************************)
(* The summary and the phases it sums up.                                  *)
(***************************************************************************)
LEMMA AgreesInit == Init => StatusAgrees
  BY DEF Init, NoFile, StatusAgrees

\* The phase that is up is worked on, and stays up.
LEMMA AgreesOpen ==
  ASSUME NEW i \in ActivePhase(file), Others(i),
         file'.phases[i].status \in Open,
         file'.status = file'.phases[i].status, file'.active = i,
         file'.status = "running" => file'.phases[i].token # 0
  PROVE  StatusAgrees'
<1>1. i \in Phases /\ i # 0 /\ file.phases[i].status \in Open
      /\ \A j \in Phases : file.phases[j].status \in Open => i <= j
  BY DEF ActivePhase, Phases
<1>2. i <= i
  BY <1>1 DEF Phases
<1>3. \A j \in Phases : file'.phases[j].status \in Open => i <= j
  BY <1>1, <1>2 DEF Others
<1>4. i \in ActivePhase(file')
  BY <1>1, <1>3 DEF ActivePhase
<1>5. file'.status # "completed" /\ file'.phases[i].status # "reviewed"
  BY DEF Open
<1> QED BY <1>1, <1>4, <1>5 DEF StatusAgrees

\* The phase that is up is the one the summary names.
LEMMA ActiveIsUp ==
  ASSUME SeenInv, StatusAgrees, NEW i \in ActivePhase(file),
         file.status # "cancelled",
         file.status # "absent" \/ file.phases[i].status # "pending"
  PROVE  file.active = i
<1>1. i \in Phases /\ file.phases[i].status # "reviewed"
  BY DEF ActivePhase, Open
<1>2. file.status # "absent"
  BY <1>1 DEF SeenInv, NoFile, NewPhase
<1>3. file.active \in ActivePhase(file)
  BY <1>1, <1>2 DEF StatusAgrees
<1> QED BY <1>3, OneUp

LEMMA AgreesAccept ==
  ASSUME TypeOK, WorkInv, PhaseInv, NEW i \in Phases, NEW n, AcceptMove(i, n)
  PROVE  StatusAgrees'
<1>1. /\ i \in ActivePhase(file) /\ file.phases[i].status = "awaiting_review"
      /\ n \in NextUp(file, i) /\ Others(i)
      /\ file'.phases[i].status = "reviewed"
      /\ file'.status = (IF n = 0 THEN "completed" ELSE "pending")
      /\ file'.active = n
  BY AcceptShape DEF AcceptMove
<1>2. file.status # "cancelled"
  BY <1>1 DEF WorkInv, PhasesInOrder
<1>3. \A j \in Phases : j # i =>
        \/ j < i /\ file'.phases[j].status = "reviewed"
        \/ i < j /\ file'.phases[j].status = "pending"
  <2> SUFFICES ASSUME NEW j \in Phases, j # i
               PROVE  \/ j < i /\ file'.phases[j].status = "reviewed"
                      \/ i < j /\ file'.phases[j].status = "pending"
    OBVIOUS
  <2>1. CASE j < i
    BY <1>1, <1>2, <2>1, BeforeUp DEF Others
  <2>2. CASE i < j
    BY <1>1, <2>2 DEF Others, WorkInv, PhasesInOrder, Open
  <2> QED BY <2>1, <2>2 DEF Phases
<1>4. CASE n = 0
  <2>1. Following(file) = {}
    BY <1>1, <1>4 DEF NextUp, Following, Phases
  <2>2. \A j \in Phases : j # i => file'.phases[j].status # "pending"
    BY <1>1, <2>1 DEF Following, Others
  <2>3. \A j \in Phases : file'.phases[j].status = "reviewed"
    BY <1>1, <1>3, <2>2
  <2> QED BY <1>1, <1>4, <2>3 DEF StatusAgrees
<1>5. CASE n # 0
  <2>1. /\ n \in Phases /\ file.phases[n].status = "pending"
        /\ \A j \in Phases : file.phases[j].status = "pending" => n <= j
    BY <1>1, <1>5 DEF NextUp, Following
  <2>2. n # i /\ file'.phases[n].status = "pending"
    BY <1>1, <2>1 DEF Others
  <2>3. \A j \in Phases : file'.phases[j].status \in Open => n <= j
    <3>1. \A j \in Phases : j # i /\ file'.phases[j].status \in Open =>
                              file.phases[j].status = "pending"
      BY <1>1, <1>3 DEF Others, Open
    <3> QED BY <1>1, <2>1, <3>1 DEF Open
  <2>4. n \in ActivePhase(file')
    BY <2>1, <2>2, <2>3 DEF ActivePhase, Open
  <2> QED BY <1>1, <1>5, <2>1, <2>2, <2>4 DEF StatusAgrees
<1> QED BY <1>4, <1>5

LEMMA AgreesNext ==
  TypeOK /\ WorkInv /\ SeenInv /\ PhaseInv /\ StatusAgrees /\ [Next]_vars
    => StatusAgrees'
<1> SUFFICES ASSUME TypeOK, WorkInv, SeenInv, PhaseInv, StatusAgrees,
                    [Next]_vars
             PROVE  StatusAgrees'
  OBVIOUS
<1>0. file.status = "cancelled" => \A i \in Phases :
        file.phases[i].status \notin {"running", "awaiting_review"}
  BY DEF WorkInv, PhasesInOrder
<1>1. ASSUME NEW p, Start(p) PROVE StatusAgrees'
  <2>1. /\ file'.status = "pending" /\ file'.active = 1
        /\ \A j \in Phases : file'.phases[j] = NewPhase
    BY <1>1, StartShape
  <2>2. 1 \in Phases /\ \A j \in Phases : 1 <= j
    BY ConstantsAssumption DEF Phases
  <2>3. NewPhase.status = "pending"
    BY DEF NewPhase
  <2> QED BY <2>1, <2>2, <2>3 DEF StatusAgrees, ActivePhase, Open
<1>2. ASSUME NEW p \in Proc, NEW i \in Phases, ClaimMove(p, i)
      PROVE  StatusAgrees'
  <2>1. i \in ActivePhase(file) /\ file.status # "cancelled" /\ op[p] = "run"
    BY <1>2 DEF ClaimMove, Claimable
  <2>2. file.status # "absent"
    BY <2>1 DEF WorkInv, HoldsToken
  <2>3. file.active = i
    BY <2>1, <2>2, ActiveIsUp
  <2>4. claims + 1 # 0
    BY DEF TypeOK
  <2> QED BY <1>2, <2>1, <2>3, <2>4, ClaimShape, AgreesOpen DEF Open
<1>3. ASSUME NEW p \in Proc, ReportMove(p) PROVE StatusAgrees'
  <2>1. PICK i \in Phases : i = exec[p].phase
    BY <1>3, ReportShape
  <2>2. /\ Others(i) /\ file.phases[i].status = "running"
        /\ file'.phases[i].status = "awaiting_review"
        /\ file'.status = "awaiting_review" /\ file'.active = i
    BY <1>3, <2>1, ReportShape
  <2>3. i \in ActivePhase(file)
    BY <2>2, RunningIsUp
  <2> QED BY <2>2, <2>3, AgreesOpen DEF Open
<1>4. ASSUME NEW i \in Phases, NEW n, AcceptMove(i, n) PROVE StatusAgrees'
  BY <1>4, AgreesAccept
<1>5. ASSUME NEW i \in Phases, RerunMove(i) PROVE StatusAgrees'
  <2>1. i \in ActivePhase(file) /\ file.phases[i].status = "awaiting_review"
    BY <1>5 DEF RerunMove
  <2>2. file.active = i
    BY <1>0, <2>1, ActiveIsUp
  <2> QED BY <1>5, <2>1, <2>2, RerunShape, AgreesOpen DEF Open
<1>6. ASSUME CancelMove PROVE StatusAgrees'
  BY <1>6, CancelShape DEF StatusAgrees
<1>7. ASSUME file' = file PROVE StatusAgrees'
  BY <1>7 DEF StatusAgrees, ActivePhase
<1> QED BY <1>1, <1>2, <1>3, <1>4, <1>5, <1>6, <1>7, OtherMoves, WriteMoves

\* The status line of the list and the console (workflows.py: status and
\* active_phase are written beside the phases) never contradicts the phases.
THEOREM SummaryAgrees ==
  ASSUME ~ConcurrentBreak
  PROVE  Spec => []StatusAgrees
  BY PhaseInvariant, AgreesInit, AgreesNext, PTL DEF Spec
=============================================================================
