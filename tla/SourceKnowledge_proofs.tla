----------------------- MODULE SourceKnowledge_proofs -----------------------
(***************************************************************************)
(* Proofs about SourceKnowledge, for any number of proposals, writers and   *)
(* askers and any limits.                                                   *)
(***************************************************************************)
EXTENDS SourceKnowledge, TLAPS

At(t, where) == writers[t].at = where
Working(t) == At(t, "create") \/ At(t, "apply") \/ At(t, "persist") \/ At(t, "close")

\* The lock file is in the hands of the writer that is at work, if there is one.
LockInv == \A t \in Writers : Working(t) <=> lock = t

\* A copy is of the file as it is; once changed, it is one step ahead of it.
CopyOf(t) ==
  LET w == writers[t]
  IN /\ At(t, "create") => version = 0 /\ w.staged = status
     /\ At(t, "apply") => version # 0 /\ w.staged = status
     /\ At(t, "create") \/ At(t, "apply") \/ At(t, "persist") => w.on \in Proposals
     /\ At(t, "persist") =>
          /\ version # 0
          /\ w.staged = [status EXCEPT ![w.on] = Wanted(w.op)]
          /\ May(w.op, w.on, status)

CopyInv == \A t \in Writers : CopyOf(t)

\* Nothing is on file before there is a file.
EmptyAtFirst == version = 0 => \A p \in Proposals : status[p] = "none"

FileInv == LockInv /\ CopyInv /\ EmptyAtFirst /\ ToldHolds

Asking(a) == askers[a].at \in {"look", "read", "keep"}

\* What an asker's call began with is of the past; if its signature is the
\* file's, of the present.
BeganInv ==
  \A a \in Askers :
    LET q == askers[a]
    IN /\ \A v \in Vetoes : status[v] \in Later(q.began[v])
       /\ Asking(a) =>
            /\ q.signature \in 0 .. version
            /\ q.signature = version => \A v \in Vetoes : q.began[v] = status[v]
            /\ q.signature = 0 => \A v \in Vetoes : q.began[v] = "none"

\* One signature is one file.
SameFile ==
  \A a, b \in Askers :
    Asking(a) /\ Asking(b) /\ askers[a].signature = askers[b].signature
      => \A v \in Vetoes : askers[a].began[v] = askers[b].began[v]

\* What a call has to answer: rows are of a moment between the one at which
\* the decisions were b and the one at which they are s.
Between(b, rows, s) ==
  \A v \in Vetoes :
    /\ b[v] = "approved" /\ s[v] = "approved" => v \in rows
    /\ v \in rows => b[v] # "revoked" /\ s[v] \in {"approved", "revoked"}

RowsInv ==
  \A a \in Askers :
    LET q == askers[a]
    IN /\ q.at = "look" => q.rows = {}
       /\ q.at \in {"keep", "answered"} => Between(q.began, q.rows, status)

\* The index is of a file there was; of the present one it is exact, and who
\* has its signature and is about to look may be answered from it.
IndexInv ==
  /\ index.signature <= version
  /\ index.signature = version => index.rows = InForce
  /\ \A a \in Askers :
       askers[a].at = "look" /\ askers[a].signature = index.signature
         => Between(askers[a].began, index.rows, status)

AskerInv == BeganInv /\ SameFile /\ RowsInv /\ IndexInv

IInv == TypeOK /\ FileInv /\ AskerInv

-----------------------------------------------------------------------------
(* The decisions. *)

LEMMA StatusesAre ==
  Statuses = {"none", "pending", "approved", "rejected", "revoked"}
BY DEF Statuses, Review!Statuses

LEMMA WantedIs ==
  /\ Wanted("propose") = "pending" /\ Wanted("approve") = "approved"
  /\ Wanted("reject") = "rejected" /\ Wanted("revoke") = "revoked"
BY DEF Wanted

LEMMA MayIs ==
  ASSUME NEW p, NEW s
  PROVE  /\ May("propose", p, s) <=> s[p] = "none" /\ ~Full(s)
         /\ May("revoke", p, s) <=> s[p] = "approved"
         /\ May("approve", p, s) <=> s[p] = "pending"
         /\ May("reject", p, s) <=> s[p] = "pending"
BY DEF May

LEMMA LaterIs ==
  /\ Later("none") = Statuses
  /\ Later("pending") = Statuses \ {"none"}
  /\ Later("approved") = {"approved", "revoked"}
  /\ Later("rejected") = {"rejected"}
  /\ Later("revoked") = {"revoked"}
BY DEF Later

\* Time does not run backward, and every decision is later than itself.
LEMMA LaterOrder ==
  /\ \A s \in Statuses : s \in Later(s) /\ Later(s) \subseteq Statuses
  /\ \A r, s, u \in Statuses : s \in Later(r) /\ u \in Later(s) => u \in Later(r)
BY LaterIs, StatusesAre

\* What an operation may make of a proposal comes later than what it was.
LEMMA MayIsLater ==
  ASSUME NEW op \in Ops, NEW p \in Proposals, NEW s \in [Proposals -> Statuses],
         May(op, p, s)
  PROVE  Wanted(op) \in Statuses /\ Wanted(op) \in Later(s[p])
BY MayIs, WantedIs, LaterIs, StatusesAre DEF Ops

-----------------------------------------------------------------------------
(* Writers. *)

\* What any step does to the file: nothing, or a new one in which no decision
\* moved backward.
FileMoves ==
  /\ version' \in Nat /\ version <= version'
  /\ version' = version => status' = status
  /\ \A p \in Proposals : status'[p] \in Later(status[p])

LEMMA StillMoves ==
  ASSUME TypeOK, UNCHANGED <<status, version>>
  PROVE  FileMoves
BY LaterOrder DEF TypeOK, FileMoves

\* Only the writer that takes the step changes its place and its copy.
LEMMA OneWriter ==
  ASSUME TypeOK, NEW t \in Writers, NEW r,
         writers' = [writers EXCEPT ![t] = r]
  PROVE  writers'[t] = r /\ \A u \in Writers : u # t => writers'[u] = writers[u]
BY DEF TypeOK

LEMMA RestingIs ==
  /\ Resting.at = "rest" /\ Resting.op = "propose"
  /\ Resting.on = None /\ Resting.staged = [p \in Proposals |-> "none"]
BY DEF Resting, NoProposals

\* The records writers are kept in, changed as the actions change them.
LEMMA WorksTyped ==
  ASSUME NEW w \in Works
  PROVE  /\ \A x \in {"rest", "lock", "create", "apply", "persist", "close"} :
              [w EXCEPT !.at = x] \in Works
         /\ Resting \in Works /\ [Resting EXCEPT !.at = "close"] \in Works
BY StatusesAre DEF Works, Resting, NoProposals, Ops

LEMMA WaitKeeps ==
  ASSUME IInv, NEW t \in Writers, Wait(t)
  PROVE  TypeOK' /\ FileInv'
<1> USE KnowledgeConstants DEF IInv, Wait
<1>1. TypeOK'
  <2>1. [writers[t] EXCEPT !.at = "lock"] \in Works
    BY WorksTyped DEF TypeOK
  <2> QED BY <2>1 DEF TypeOK
<1>2. At(t, "rest") /\ At(t, "lock")'
  BY DEF TypeOK, Works, At
<1>3. \A u \in Writers : u # t => writers'[u] = writers[u]
  BY DEF TypeOK
<1>4. LockInv'
  BY <1>2, <1>3 DEF LockInv, FileInv, Working, At
<1>5. CopyInv'
  BY <1>2, <1>3 DEF CopyInv, CopyOf, FileInv, At
<1>6. EmptyAtFirst' /\ ToldHolds'
  BY DEF FileInv, EmptyAtFirst, ToldHolds
<1> QED BY <1>1, <1>4, <1>5, <1>6 DEF FileInv

\* Who opens is alone at work, whether that succeeds or not.
LEMMA OpenKeeps ==
  ASSUME IInv, NEW t \in Writers, NEW op \in Ops, NEW p \in Proposals, Open(t, op, p)
  PROVE  TypeOK' /\ FileInv'
<1> USE KnowledgeConstants DEF IInv
<1> DEFINE o == Opened(op, p)
           c == [Resting EXCEPT !.at = "close"]
<1>1. /\ o.at = IF version = 0 THEN "create" ELSE "apply"
      /\ o.op = op /\ o.on = p /\ o.staged = status /\ o \in Works
  BY DEF TypeOK, Works, Opened
<1>2. c.at = "close" /\ c \in Works
  <2>1. writers[t] \in Works
    BY DEF TypeOK
  <2> QED BY <2>1, WorksTyped DEF Resting
<1> HIDE DEF o, c
<1>3. /\ writers[t].at = "lock" /\ lock = None /\ lock' = t
      /\ UNCHANGED <<status, version, told, index, askers>>
  BY DEF Open
<1>4. PICK r \in {o, c} : writers' = [writers EXCEPT ![t] = r]
  BY DEF Open, Leave, o, c
<1>5. r \in Works /\ r.at \in {"create", "apply", "close"}
  BY <1>1, <1>2, <1>4
<1>6. TypeOK'
  BY <1>3, <1>4, <1>5 DEF TypeOK
<1>7. writers'[t] = r /\ \A u \in Writers : u # t => writers'[u] = writers[u]
  BY <1>4, OneWriter
<1>8. \A u \in Writers : ~Working(u)
  BY <1>3 DEF FileInv, LockInv
<1>9. Working(t)'
  BY <1>5, <1>7 DEF Working, At
<1>10. LockInv'
  BY <1>3, <1>7, <1>8, <1>9 DEF LockInv, Working, At
<1>11. CopyInv'
  <2> SUFFICES ASSUME NEW u \in Writers PROVE CopyOf(u)'
    BY DEF CopyInv
  <2>1. CASE u # t
    BY <1>7, <1>8, <2>1 DEF CopyOf, Working, At
  <2>2. CASE u = t /\ r = o
    BY <1>1, <1>3, <1>7, <2>2 DEF CopyOf, At, TypeOK
  <2>3. CASE u = t /\ r = c
    BY <1>2, <1>7, <2>3 DEF CopyOf, At
  <2> QED BY <1>4, <2>1, <2>2, <2>3
<1>12. EmptyAtFirst' /\ ToldHolds'
  BY <1>3 DEF FileInv, EmptyAtFirst, ToldHolds
<1> QED BY <1>6, <1>10, <1>11, <1>12 DEF FileInv

\* While one writer works the others are outside.
LEMMA WorksAlone ==
  ASSUME IInv, NEW t \in Writers, Working(t)
  PROVE  lock = t /\ \A u \in Writers : Working(u) => u = t
BY DEF IInv, FileInv, LockInv

\* What was told stays true of a file in which nothing moves backward.
LEMMA ToldStays ==
  ASSUME TypeOK, ToldHolds, FileMoves, UNCHANGED told
  PROVE  ToldHolds'
<1> SUFFICES ASSUME NEW p \in Proposals PROVE status'[p] \in Later(told[p])
  BY DEF ToldHolds
<1>1. status[p] \in Later(told[p]) /\ status'[p] \in Later(status[p])
  BY DEF ToldHolds, FileMoves
<1>2. told[p] \in Statuses /\ status[p] \in Statuses
  BY DEF TypeOK
<1>3. status'[p] \in Statuses
  BY <1>1, <1>2, LaterOrder
<1> QED BY <1>1, <1>2, <1>3, LaterOrder

\* So does what is told now, if it is of the file as it then is.
LEMMA TellHolds ==
  ASSUME TypeOK, ToldHolds, FileMoves,
         NEW p \in Proposals, NEW s \in Statuses, Tell(p, s), status'[p] = s
  PROVE  ToldHolds' /\ told' \in [Proposals -> Statuses]
<1>1. told' \in [Proposals -> Statuses]
  BY DEF Tell, TypeOK
<1>2. ASSUME NEW r \in Proposals PROVE status'[r] \in Later(told'[r])
  <2>1. status'[r] \in Later(told[r])
    <3>1. status[r] \in Later(told[r]) /\ status'[r] \in Later(status[r])
      BY DEF ToldHolds, FileMoves
    <3>2. told[r] \in Statuses /\ status[r] \in Statuses
      BY DEF TypeOK
    <3> QED BY <3>1, <3>2, LaterOrder
  <2>2. CASE told'[r] = told[r]
    BY <2>1, <2>2
  <2>3. CASE r = p /\ told'[r] = s
    BY <2>3, LaterOrder
  <2> QED BY <2>2, <2>3 DEF Tell, TypeOK
<1> QED BY <1>1, <1>2 DEF ToldHolds

\* A writer that leaves has nothing more to do with the file, whatever it did.
LEMMA LeaveKeeps ==
  ASSUME IInv, NEW t \in Writers, Working(t), Leave(t), lock' = lock
  PROVE  writers' \in [Writers -> Works] /\ LockInv' /\ CopyInv'
<1> DEFINE r == [Resting EXCEPT !.at = "close"]
<1>1. lock = t /\ \A u \in Writers : Working(u) => u = t
  BY WorksAlone
<1>2. writers[t] \in Works
  BY DEF IInv, TypeOK
<1>3. r \in Works /\ r.at = "close"
  BY <1>2, WorksTyped DEF Resting
<1> HIDE DEF r
<1>4. writers' = [writers EXCEPT ![t] = r]
  BY DEF Leave, r
<1>5. writers' \in [Writers -> Works]
  BY <1>3, <1>4 DEF IInv, TypeOK
<1>6. writers'[t] = r /\ \A u \in Writers : u # t => writers'[u] = writers[u]
  BY <1>4, OneWriter DEF IInv
<1>7. At(t, "close")'
  BY <1>3, <1>6 DEF At
<1>8. \A u \in Writers : u # t => ~Working(u)'
  BY <1>1, <1>6 DEF Working, At
<1>9. LockInv'
  BY <1>1, <1>7, <1>8 DEF LockInv, Working
<1>10. CopyInv'
  BY <1>3, <1>6, <1>8 DEF CopyInv, CopyOf, Working, At
<1> QED BY <1>5, <1>9, <1>10

LEMMA CreateKeeps ==
  ASSUME IInv, NEW t \in Writers, Create(t)
  PROVE  TypeOK' /\ FileInv' /\ FileMoves
<1> USE DEF IInv
<1>1. At(t, "create") /\ Working(t)
  BY DEF Create, At, Working
<1>2. version = 0 /\ writers[t].staged = status /\ writers[t].on \in Proposals
  BY <1>1 DEF FileInv, CopyInv, CopyOf
<1>3. status' = status /\ version' \in {version, version + 1}
  BY <1>2 DEF Create, Persist
<1>4. FileMoves
  BY <1>3, LaterOrder DEF FileMoves, TypeOK
<1>5. EmptyAtFirst' /\ ToldHolds'
  BY <1>2, <1>3 DEF FileInv, EmptyAtFirst, ToldHolds, Create
<1>6. CASE Leave(t)
  <2>1. lock' = lock /\ UNCHANGED <<told, index, askers>>
    BY DEF Create
  <2>2. writers' \in [Writers -> Works] /\ LockInv' /\ CopyInv'
    BY <1>1, <1>6, <2>1, LeaveKeeps
  <2>3. TypeOK'
    BY <1>3, <2>1, <2>2 DEF TypeOK
  <2> QED BY <1>4, <1>5, <2>2, <2>3 DEF FileInv
<1>7. CASE version' # version /\ writers' = [writers EXCEPT ![t].at = "apply"]
  <2>1. [writers[t] EXCEPT !.at = "apply"] \in Works
    BY WorksTyped DEF TypeOK
  <2>2. TypeOK'
    BY <1>3, <1>7, <2>1 DEF TypeOK, Create
  <2>3. /\ writers'[t] = [writers[t] EXCEPT !.at = "apply"]
        /\ \A u \in Writers : u # t => writers'[u] = writers[u]
    BY <1>7 DEF TypeOK
  <2>4. writers'[t].at = "apply" /\ writers'[t].staged = status' /\ writers'[t].on \in Proposals
    BY <1>2, <1>3, <2>3 DEF TypeOK, Works
  <2>5. \A u \in Writers : u # t => ~Working(u)'
    BY <1>1, <2>3, WorksAlone DEF Working, At
  <2>6. LockInv'
    BY <1>1, <2>4, <2>5, WorksAlone DEF LockInv, Working, At, Create
  <2>7. version' # 0
    BY <1>2, <1>3, <1>7
  <2>8. CopyInv'
    <3> SUFFICES ASSUME NEW u \in Writers PROVE CopyOf(u)'
      BY DEF CopyInv
    <3>1. CASE u = t
      BY <2>4, <2>7, <3>1 DEF At, CopyOf
    <3>2. CASE u # t
      BY <2>5, <3>2 DEF Working, At, CopyOf
    <3> QED BY <3>1, <3>2
  <2> QED BY <1>4, <1>5, <2>2, <2>6, <2>8 DEF FileInv
<1> QED BY <1>4, <1>6, <1>7 DEF Create

LEMMA ApplyKeeps ==
  ASSUME IInv, NEW t \in Writers, Apply(t)
  PROVE  TypeOK' /\ FileInv'
<1> USE DEF IInv
<1> DEFINE w == writers[t]
<1>1. At(t, "apply") /\ Working(t)
  BY DEF Apply, At, Working
<1>2. version # 0 /\ w.staged = status /\ w.on \in Proposals /\ w \in Works
  BY <1>1 DEF FileInv, CopyInv, CopyOf, TypeOK
<1>3. UNCHANGED <<status, version, lock, index, askers>>
  BY DEF Apply
<1>4. FileMoves
  BY <1>3, StillMoves
<1>5. EmptyAtFirst'
  BY <1>3 DEF FileInv, EmptyAtFirst
<1>6. CASE Leave(t) /\ Tell(w.on, w.staged[w.on])
  <2>1. status[w.on] \in Statuses
    BY <1>2 DEF TypeOK
  <2>2. ToldHolds' /\ told' \in [Proposals -> Statuses]
    BY <1>2, <1>3, <1>4, <1>6, <2>1, TellHolds DEF FileInv
  <2> QED BY <1>1, <1>3, <1>5, <1>6, <2>2, LeaveKeeps DEF TypeOK, FileInv
<1>7. CASE Leave(t) /\ UNCHANGED told
  BY <1>1, <1>3, <1>4, <1>5, <1>7, ToldStays, LeaveKeeps DEF TypeOK, FileInv
<1>8. CASE /\ May(w.op, w.on, w.staged) /\ UNCHANGED told
           /\ writers' = [writers EXCEPT ![t].at = "persist",
                                         ![t].staged[w.on] = Wanted(w.op)]
  <2>1. w.op \in Ops /\ May(w.op, w.on, status)
    BY <1>2, <1>8 DEF Works
  <2>2. Wanted(w.op) \in Statuses
    BY <1>2, <2>1, MayIsLater DEF TypeOK
  <2> DEFINE r == [w EXCEPT !.at = "persist", !.staged[w.on] = Wanted(w.op)]
  <2>3. r \in Works
    BY <1>2, <2>2 DEF Works
  <2>4. /\ r.at = "persist" /\ r.op = w.op /\ r.on = w.on
        /\ r.staged = [status EXCEPT ![w.on] = Wanted(w.op)]
    BY <1>2 DEF Works
  <2>5. writers' = [writers EXCEPT ![t] = r]
    BY <1>8 DEF TypeOK
  <2> HIDE DEF r
  <2>6. writers'[t] = r /\ \A u \in Writers : u # t => writers'[u] = writers[u]
    BY <2>5, OneWriter
  <2>7. TypeOK'
    BY <1>3, <1>8, <2>3, <2>5 DEF TypeOK
  <2>8. \A u \in Writers : u # t => ~Working(u)'
    BY <1>1, <2>6, WorksAlone DEF Working, At
  <2>9. LockInv'
    BY <1>1, <1>3, <2>4, <2>6, <2>8, WorksAlone DEF LockInv, Working, At
  <2>10. May(r.op, r.on, status')
    BY <1>3, <2>1, <2>4
  <2>11. CopyInv'
    BY <1>2, <1>3, <2>4, <2>6, <2>8, <2>10 DEF CopyInv, CopyOf, Working, At
  <2> QED BY <1>3, <1>4, <1>5, <1>8, <2>7, <2>9, <2>11, ToldStays DEF FileInv
<1> QED BY <1>6, <1>7, <1>8 DEF Apply

LEMMA CommitKeeps ==
  ASSUME IInv, NEW t \in Writers, Commit(t)
  PROVE  TypeOK' /\ FileInv' /\ FileMoves
<1> USE DEF IInv
<1> DEFINE w == writers[t]
<1>1. At(t, "persist") /\ Working(t)
  BY DEF Commit, At, Working
<1>2. /\ version # 0 /\ w.on \in Proposals /\ w.op \in Ops
      /\ w.staged = [status EXCEPT ![w.on] = Wanted(w.op)]
      /\ May(w.op, w.on, status)
  BY <1>1 DEF FileInv, CopyInv, CopyOf, TypeOK, Works
<1>3. Wanted(w.op) \in Statuses /\ Wanted(w.op) \in Later(status[w.on])
  BY <1>2, MayIsLater DEF TypeOK
<1>4. lock' = lock /\ Leave(t) /\ UNCHANGED <<index, askers>>
  BY DEF Commit
<1>5. \/ status' = w.staged /\ version' = version + 1
      \/ UNCHANGED <<status, version>>
  BY DEF Commit, Persist
<1>6. status' \in [Proposals -> Statuses] /\ version' \in Nat /\ version' # 0
  BY <1>2, <1>3, <1>5 DEF TypeOK
<1>7. FileMoves
  <2>1. CASE UNCHANGED <<status, version>>
    BY <2>1, StillMoves
  <2>2. CASE status' = w.staged /\ version' = version + 1
    BY <1>2, <1>3, <2>2, LaterOrder DEF FileMoves, TypeOK
  <2> QED BY <1>5, <2>1, <2>2
<1>8. ToldHolds' /\ told' \in [Proposals -> Statuses]
  <2>1. CASE UNCHANGED told
    BY <1>7, <2>1, ToldStays DEF FileInv, TypeOK
  <2>2. CASE version' # version /\ Tell(w.on, Wanted(w.op))
    <3>1. status'[w.on] = Wanted(w.op)
      BY <1>2, <1>5, <2>2 DEF TypeOK
    <3> QED BY <1>2, <1>3, <1>7, <2>2, <3>1, TellHolds DEF FileInv
  <2> QED BY <2>1, <2>2 DEF Commit
<1>9. writers' \in [Writers -> Works] /\ LockInv' /\ CopyInv'
  BY <1>1, <1>4, LeaveKeeps
<1>10. EmptyAtFirst'
  BY <1>6 DEF EmptyAtFirst
<1>11. TypeOK'
  BY <1>4, <1>6, <1>8, <1>9 DEF TypeOK
<1> QED BY <1>7, <1>8, <1>9, <1>10, <1>11 DEF FileInv

\* A writer that comes to rest, or dies, gives the lock back if it has it.
LEMMA RestKeeps ==
  ASSUME IInv, NEW t \in Writers,
         writers' = [writers EXCEPT ![t] = Resting],
         lock' = IF lock = t THEN None ELSE lock,
         UNCHANGED <<status, version, told, index, askers>>
  PROVE  TypeOK' /\ FileInv'
<1> USE KnowledgeConstants DEF IInv
<1>1. Resting \in Works /\ Resting.at = "rest"
  BY WorksTyped, RestingIs DEF TypeOK
<1>2. writers'[t] = Resting /\ \A u \in Writers : u # t => writers'[u] = writers[u]
  BY OneWriter
<1>3. TypeOK'
  BY <1>1 DEF TypeOK
<1>4. ~Working(t)'
  BY <1>1, <1>2 DEF Working, At
<1>5. LockInv'
  BY <1>2, <1>4 DEF FileInv, LockInv, Working, At
<1>6. CopyInv'
  BY <1>2, <1>4 DEF FileInv, CopyInv, CopyOf, Working, At
<1>7. EmptyAtFirst' /\ ToldHolds'
  BY DEF FileInv, EmptyAtFirst, ToldHolds
<1> QED BY <1>3, <1>5, <1>6, <1>7 DEF FileInv

LEMMA CloseKeeps ==
  ASSUME IInv, NEW t \in Writers, Close(t)
  PROVE  TypeOK' /\ FileInv'
<1>1. lock = t
  BY WorksAlone DEF Close, Working, At
<1> QED BY <1>1, RestKeeps DEF Close

LEMMA KillKeeps ==
  ASSUME IInv, NEW t \in Writers, Kill(t)
  PROVE  TypeOK' /\ FileInv'
BY RestKeeps DEF Kill

-----------------------------------------------------------------------------
(* Askers. *)

\* While the file moves on, an answer of the past stays one.
LEMMA BetweenStays ==
  ASSUME TypeOK, FileMoves, NEW b \in [Vetoes -> Statuses], NEW rows,
         \A v \in Vetoes : status[v] \in Later(b[v]), Between(b, rows, status)
  PROVE  Between(b, rows, status')
<1> SUFFICES ASSUME NEW v \in Vetoes
    PROVE  /\ b[v] = "approved" /\ status'[v] = "approved" => v \in rows
           /\ v \in rows => b[v] # "revoked" /\ status'[v] \in {"approved", "revoked"}
  BY DEF Between
<1>1. b[v] \in Statuses /\ status[v] \in Statuses
  BY KnowledgeConstants DEF TypeOK
<1>2. status[v] \in Later(b[v]) /\ status'[v] \in Later(status[v])
  BY KnowledgeConstants DEF FileMoves
<1>3. /\ b[v] = "approved" /\ status[v] = "approved" => v \in rows
      /\ v \in rows => b[v] # "revoked" /\ status[v] \in {"approved", "revoked"}
  BY DEF Between
<1> QED BY <1>1, <1>2, <1>3, LaterIs, StatusesAre

\* An asker is not disturbed by what writers do.
LEMMA FileStepKeepsAskers ==
  ASSUME IInv, FileMoves, UNCHANGED <<index, askers>>
  PROVE  AskerInv'
<1> USE DEF IInv
<1>1. \A a \in Askers : askers[a].began \in [Vetoes -> Statuses]
  BY DEF TypeOK, Asks
<1>2. \A a \in Askers : \A v \in Vetoes : status[v] \in Later(askers[a].began[v])
  BY DEF AskerInv, BeganInv
<1>3. ASSUME NEW a \in Askers PROVE \A v \in Vetoes : status'[v] \in Later(askers[a].began[v])
  <2> TAKE v \in Vetoes
  <2>1. /\ status[v] \in Later(askers[a].began[v]) /\ status'[v] \in Later(status[v])
        /\ askers[a].began[v] \in Statuses /\ status[v] \in Statuses
    BY <1>1, <1>2, KnowledgeConstants DEF FileMoves, TypeOK
  <2>2. status'[v] \in Statuses
    BY <2>1, LaterOrder
  <2> QED BY <2>1, <2>2, LaterOrder
<1>4. ASSUME NEW a \in Askers, NEW rows, Between(askers[a].began, rows, status)
      PROVE  Between(askers[a].began, rows, status')
  BY <1>1, <1>2, <1>4, BetweenStays
<1>5. BeganInv'
  <2> SUFFICES ASSUME NEW a \in Askers, Asking(a)
      PROVE  /\ askers[a].signature \in 0 .. version'
             /\ askers[a].signature = version' =>
                  \A v \in Vetoes : askers[a].began[v] = status'[v]
             /\ askers[a].signature = 0 => \A v \in Vetoes : askers[a].began[v] = "none"
    BY <1>3 DEF BeganInv, Asking
  <2>1. /\ askers[a].signature \in 0 .. version
        /\ askers[a].signature = version => \A v \in Vetoes : askers[a].began[v] = status[v]
        /\ askers[a].signature = 0 => \A v \in Vetoes : askers[a].began[v] = "none"
    BY DEF AskerInv, BeganInv
  <2> QED BY <2>1 DEF FileMoves, TypeOK
<1>6. SameFile'
  BY DEF AskerInv, SameFile, Asking
<1>7. RowsInv'
  BY <1>4 DEF AskerInv, RowsInv
<1>8. IndexInv'
  <2>1. index.signature <= version' /\ index.signature \in Int
    BY DEF AskerInv, IndexInv, FileMoves, TypeOK
  <2>2. index.signature = version' => index.rows = InForce'
    BY <2>1 DEF AskerInv, IndexInv, FileMoves, TypeOK, InForce
  <2> QED BY <1>4, <2>1, <2>2 DEF AskerInv, IndexInv
<1> QED BY <1>5, <1>6, <1>7, <1>8 DEF AskerInv

\* Nor are writers by askers.
LEMMA AskStepKeepsFile ==
  ASSUME FileInv, UNCHANGED store
  PROVE  FileInv'
BY DEF FileInv, LockInv, CopyInv, CopyOf, Working, At, EmptyAtFirst, ToldHolds, store

\* Only the asker that takes the step changes.
LEMMA OneAsker ==
  ASSUME TypeOK, NEW a \in Askers, NEW r, askers' = [askers EXCEPT ![a] = r]
  PROVE  askers'[a] = r /\ \A b \in Askers : b # a => askers'[b] = askers[b]
BY DEF TypeOK

LEMMA StatKeeps ==
  ASSUME IInv, NEW a \in Askers, Stat(a)
  PROVE  TypeOK' /\ AskerInv'
<1> USE KnowledgeConstants DEF IInv
<1> DEFINE r == [at |-> "look", signature |-> version, rows |-> {},
                 began |-> [v \in Vetoes |-> status[v]]]
<1>1. UNCHANGED <<store, index>> /\ UNCHANGED <<status, version>>
  BY DEF Stat, store
<1>2. askers' = [askers EXCEPT ![a] = r]
  BY DEF Stat
<1>3. r \in Asks
  BY DEF TypeOK, Asks
<1>4. /\ r.at = "look" /\ r.signature = version /\ r.rows = {}
      /\ \A v \in Vetoes : r.began[v] = status[v]
  OBVIOUS
<1> HIDE DEF r
<1>5. askers'[a] = r /\ \A b \in Askers : b # a => askers'[b] = askers[b]
  BY <1>2, OneAsker
<1>6. TypeOK'
  BY <1>1, <1>2, <1>3 DEF TypeOK, store
<1>7. BeganInv'
  <2> SUFFICES ASSUME NEW b \in Askers
      PROVE  /\ \A v \in Vetoes : status[v] \in Later(askers'[b].began[v])
             /\ Asking(b)' =>
                  /\ askers'[b].signature \in 0 .. version
                  /\ askers'[b].signature = version =>
                       \A v \in Vetoes : askers'[b].began[v] = status[v]
                  /\ askers'[b].signature = 0 =>
                       \A v \in Vetoes : askers'[b].began[v] = "none"
    BY <1>1 DEF BeganInv, Asking
  <2>1. CASE b = a
    BY <1>4, <1>5, <2>1, LaterOrder DEF TypeOK, FileInv, EmptyAtFirst
  <2>2. CASE b # a
    BY <1>5, <2>2 DEF AskerInv, BeganInv, Asking
  <2> QED BY <2>1, <2>2
<1>8. SameFile'
  BY <1>4, <1>5 DEF AskerInv, SameFile, BeganInv, Asking
<1>9. RowsInv'
  BY <1>1, <1>4, <1>5 DEF AskerInv, RowsInv
<1>10. index.signature = version => Between(r.began, index.rows, status)
  <2> SUFFICES ASSUME index.signature = version PROVE Between(r.began, InForce, status)
    BY DEF AskerInv, IndexInv
  <2> QED BY <1>4 DEF Between, InForce
<1>11. IndexInv'
  BY <1>1, <1>4, <1>5, <1>10 DEF AskerInv, IndexInv, InForce
<1> QED BY <1>6, <1>7, <1>8, <1>9, <1>11 DEF AskerInv

\* An asker that goes on with the signature and the beginning it has, or that
\* asks no more.
LEMMA AskerMoves ==
  ASSUME IInv, NEW a \in Askers, NEW r \in Asks, UNCHANGED store,
         askers' = [askers EXCEPT ![a] = r],
         index' \in [signature : Int, rows : SUBSET Vetoes],
         \/ r.began = askers[a].began
         \/ \A v \in Vetoes : r.began[v] = "none",
         r.at # "look",
         r.at \in {"read", "keep"} =>
           /\ Asking(a) /\ r.signature = askers[a].signature
           /\ r.began = askers[a].began
  PROVE  TypeOK' /\ BeganInv' /\ SameFile'
<1> USE DEF IInv
<1>1. UNCHANGED <<status, version>>
  BY DEF store
<1>2. askers'[a] = r /\ \A b \in Askers : b # a => askers'[b] = askers[b]
  BY OneAsker
<1>3. TypeOK'
  BY DEF TypeOK, store
<1>4. Asking(a)' <=> r.at \in {"read", "keep"}
  BY <1>2 DEF Asking
<1>5. \A b \in Askers : b # a => (Asking(b)' <=> Asking(b))
  BY <1>2 DEF Asking
<1>6. \A v \in Vetoes : status[v] \in Later(r.began[v])
  <2>1. \A v \in Vetoes : status[v] \in Later(askers[a].began[v])
    BY DEF AskerInv, BeganInv
  <2>2. \A v \in Vetoes : status[v] \in Later("none")
    BY LaterIs, KnowledgeConstants DEF TypeOK
  <2> QED BY <2>1, <2>2
<1>7. BeganInv'
  <2> SUFFICES ASSUME NEW b \in Askers
      PROVE  /\ \A v \in Vetoes : status[v] \in Later(askers'[b].began[v])
             /\ Asking(b)' =>
                  /\ askers'[b].signature \in 0 .. version
                  /\ askers'[b].signature = version =>
                       \A v \in Vetoes : askers'[b].began[v] = status[v]
                  /\ askers'[b].signature = 0 =>
                       \A v \in Vetoes : askers'[b].began[v] = "none"
    BY <1>1 DEF BeganInv, Asking
  <2>1. CASE b = a
    BY <1>2, <1>4, <1>6, <2>1 DEF AskerInv, BeganInv
  <2>2. CASE b # a
    BY <1>2, <1>5, <2>2 DEF AskerInv, BeganInv
  <2> QED BY <2>1, <2>2
<1>8. SameFile'
  <2> SUFFICES ASSUME NEW b \in Askers, NEW c \in Askers, Asking(b)', Asking(c)',
                      askers'[b].signature = askers'[c].signature
      PROVE  \A v \in Vetoes : askers'[b].began[v] = askers'[c].began[v]
    BY DEF SameFile
  <2>1. Asking(b) /\ askers'[b].signature = askers[b].signature
        /\ askers'[b].began = askers[b].began
    BY <1>2, <1>4, <1>5
  <2>2. Asking(c) /\ askers'[c].signature = askers[c].signature
        /\ askers'[c].began = askers[c].began
    BY <1>2, <1>4, <1>5
  <2> QED BY <2>1, <2>2 DEF AskerInv, SameFile
<1> QED BY <1>3, <1>7, <1>8

\* Such an asker leaves an index it does not change as good as it was.
LEMMA AskerMovesAlone ==
  ASSUME IInv, NEW a \in Askers, NEW r \in Asks, UNCHANGED <<store, index>>,
         askers' = [askers EXCEPT ![a] = r],
         \/ r.began = askers[a].began
         \/ \A v \in Vetoes : r.began[v] = "none",
         r.at # "look",
         r.at \in {"read", "keep"} =>
           /\ Asking(a) /\ r.signature = askers[a].signature
           /\ r.began = askers[a].began,
         r.at \in {"keep", "answered"} => Between(r.began, r.rows, status)
  PROVE  TypeOK' /\ AskerInv'
<1> USE DEF IInv
<1>1. UNCHANGED <<status, version, index>> /\ UNCHANGED store
  BY DEF store
<1>2. index' \in [signature : Int, rows : SUBSET Vetoes]
  BY <1>1 DEF TypeOK
<1>3. askers'[a] = r /\ \A b \in Askers : b # a => askers'[b] = askers[b]
  BY OneAsker
<1>4. TypeOK' /\ BeganInv' /\ SameFile'
  BY <1>1, <1>2, AskerMoves
<1>5. RowsInv'
  BY <1>1, <1>3 DEF AskerInv, RowsInv
<1>6. IndexInv'
  BY <1>1, <1>3 DEF AskerInv, IndexInv, InForce
<1> QED BY <1>4, <1>5, <1>6 DEF AskerInv

LEMMA LookKeeps ==
  ASSUME IInv, NEW a \in Askers, Look(a)
  PROVE  TypeOK' /\ AskerInv'
<1> USE DEF IInv
<1> DEFINE q == askers[a]
<1>1. q.at = "look" /\ Asking(a) /\ q \in Asks /\ UNCHANGED <<store, index>>
  BY DEF Look, TypeOK, Asking
<1>2. q.rows = {} /\ (q.signature = 0 => \A v \in Vetoes : q.began[v] = "none")
  BY <1>1 DEF AskerInv, RowsInv, BeganInv
<1>3. CASE index.signature = q.signature
  <2> DEFINE r == [q EXCEPT !.at = "answered", !.signature = Unread, !.rows = index.rows]
  <2>1. r \in Asks /\ r.at = "answered" /\ r.began = q.began /\ r.rows = index.rows
    <3>1. Unread \in Int /\ index.rows \in SUBSET Vetoes
      BY DEF TypeOK, Unread
    <3>2. r \in Asks
      BY <1>1, <3>1 DEF Asks
    <3> QED BY <1>1, <3>2 DEF Asks
  <2>2. askers' = [askers EXCEPT ![a] = r]
    BY <1>3 DEF Look, TypeOK
  <2>3. Between(q.began, index.rows, status)
    BY <1>1, <1>3 DEF AskerInv, IndexInv
  <2> HIDE DEF r
  <2> QED BY <1>1, <2>1, <2>2, <2>3, AskerMovesAlone
<1>4. CASE index.signature # q.signature
  <2> DEFINE r == [q EXCEPT !.at = IF q.signature = 0 THEN "keep" ELSE "read"]
  <2>1. /\ r \in Asks /\ r.at = IF q.signature = 0 THEN "keep" ELSE "read"
        /\ r.began = q.began /\ r.rows = q.rows /\ r.signature = q.signature
    BY <1>1 DEF Asks
  <2>2. askers' = [askers EXCEPT ![a] = r]
    BY <1>4 DEF Look, TypeOK
  <2>3. q.signature = 0 => Between(q.began, q.rows, status)
    BY <1>2 DEF Between
  <2> HIDE DEF r
  <2>4. r.at \in {"read", "keep"} /\ (r.at = "keep" => q.signature = 0)
    BY <2>1
  <2> QED BY <1>1, <2>1, <2>2, <2>3, <2>4, AskerMovesAlone
<1> QED BY <1>3, <1>4

LEMMA NotAskingIs ==
  /\ NotAsking.at = "rest" /\ NotAsking \in Asks
  /\ \A v \in Vetoes : NotAsking.began[v] = "none"
BY StatusesAre DEF NotAsking, Asks, Unread

LEMMA ReadKeeps ==
  ASSUME IInv, NEW a \in Askers, Read(a)
  PROVE  TypeOK' /\ AskerInv'
<1> USE DEF IInv
<1> DEFINE q == askers[a]
<1>1. q.at = "read" /\ Asking(a) /\ q \in Asks /\ UNCHANGED <<store, index>>
  BY DEF Read, TypeOK, Asking
<1>2. CASE askers' = [askers EXCEPT ![a] = NotAsking]
  BY <1>1, <1>2, NotAskingIs, AskerMovesAlone
<1>3. CASE askers' = [askers EXCEPT ![a].at = "keep", ![a].rows = InForce]
  <2> DEFINE r == [q EXCEPT !.at = "keep", !.rows = InForce]
  <2>1. /\ r \in Asks /\ r.at = "keep"
        /\ r.began = q.began /\ r.rows = InForce /\ r.signature = q.signature
    BY <1>1 DEF Asks, InForce
  <2>2. askers' = [askers EXCEPT ![a] = r]
    BY <1>3 DEF TypeOK
  <2>3. Between(q.began, InForce, status)
    <3>1. \A v \in Vetoes : q.began[v] \in Statuses /\ status[v] \in Later(q.began[v])
      BY <1>1 DEF AskerInv, BeganInv, Asks
    <3> QED BY <3>1, LaterIs, StatusesAre DEF Between, InForce
  <2> HIDE DEF r
  <2> QED BY <1>1, <2>1, <2>2, <2>3, AskerMovesAlone
<1> QED BY <1>2, <1>3 DEF Read

\* What is kept answers everyone whose signature it is kept under: they began
\* with the same file.
LEMMA KeepKeeps ==
  ASSUME IInv, NEW a \in Askers, Keep(a)
  PROVE  TypeOK' /\ AskerInv'
<1> USE DEF IInv
<1> DEFINE q == askers[a]
           r == [q EXCEPT !.at = "answered", !.signature = Unread, !.rows = q.rows]
<1>1. q.at = "keep" /\ Asking(a) /\ q \in Asks /\ UNCHANGED store
  BY DEF Keep, TypeOK, Asking
<1>2. r \in Asks /\ r.at = "answered" /\ r.began = q.began /\ r.rows = q.rows
  <2>1. Unread \in Int /\ q.rows \in SUBSET Vetoes
    BY <1>1 DEF Asks, Unread
  <2>2. r \in Asks
    BY <1>1, <2>1 DEF Asks
  <2> QED BY <1>1, <2>2 DEF Asks
<1>3. askers' = [askers EXCEPT ![a] = r]
  <2>1. [q EXCEPT !.at = "answered", !.signature = Unread] = r
    BY <1>1 DEF Asks
  <2> QED BY <1>1, <2>1 DEF Keep, TypeOK
<1>4. index'.signature = q.signature /\ index'.rows = q.rows
      /\ index' \in [signature : Int, rows : SUBSET Vetoes]
  BY <1>1 DEF Keep, Asks
<1> HIDE DEF r
<1>5. TypeOK' /\ BeganInv' /\ SameFile'
  BY <1>1, <1>2, <1>3, <1>4, AskerMoves
<1>6. askers'[a] = r /\ \A b \in Askers : b # a => askers'[b] = askers[b]
  BY <1>3, OneAsker
<1>7. Between(q.began, q.rows, status) /\ UNCHANGED <<status, version>>
  BY <1>1 DEF AskerInv, RowsInv, store
<1>8. RowsInv'
  BY <1>2, <1>6, <1>7 DEF AskerInv, RowsInv
<1>9. IndexInv'
  <2>1. q.signature <= version
    BY <1>1 DEF AskerInv, BeganInv, TypeOK
  <2>2. q.signature = version => q.rows = InForce
    <3> SUFFICES ASSUME q.signature = version PROVE q.rows = InForce
      OBVIOUS
    <3>1. \A v \in Vetoes : q.began[v] = status[v]
      BY <1>1 DEF AskerInv, BeganInv
    <3>2. q.rows \subseteq Vetoes
      BY <1>1 DEF Asks
    <3> QED BY <1>7, <3>1, <3>2 DEF Between, InForce
  <2>3. ASSUME NEW b \in Askers, askers'[b].at = "look", askers'[b].signature = q.signature
        PROVE  Between(askers'[b].began, q.rows, status)
    <3>1. b # a /\ askers'[b] = askers[b] /\ Asking(b)
      BY <1>2, <1>6, <2>3 DEF Asking
    <3>2. \A v \in Vetoes : askers[b].began[v] = q.began[v]
      BY <1>1, <2>3, <3>1 DEF AskerInv, SameFile
    <3> QED BY <1>7, <3>1, <3>2 DEF Between
  <2> QED BY <1>4, <1>7, <2>1, <2>2, <2>3 DEF IndexInv, InForce
<1> QED BY <1>5, <1>8, <1>9 DEF AskerInv

LEMMA RestartKeeps ==
  ASSUME IInv, Restart
  PROVE  TypeOK' /\ AskerInv'
<1> USE DEF IInv
<1>1. /\ UNCHANGED <<status, version>> /\ UNCHANGED store
      /\ index' = NotRead /\ \A a \in Askers : askers'[a] = NotAsking
  BY DEF Restart, store
<1>2. NotRead.signature = Unread /\ NotRead \in [signature : Int, rows : SUBSET Vetoes]
  BY DEF NotRead, Unread
<1>3. TypeOK'
  BY <1>1, <1>2, NotAskingIs DEF TypeOK, Restart, store
<1>4. \A a \in Askers : ~Asking(a)'
  BY <1>1, NotAskingIs DEF Asking
<1>5. BeganInv'
  <2>1. \A v \in Vetoes : status[v] \in Later("none")
    BY LaterIs, KnowledgeConstants DEF TypeOK
  <2> QED BY <1>1, <1>4, <2>1, NotAskingIs DEF BeganInv
<1>6. SameFile' /\ RowsInv'
  BY <1>1, <1>4, NotAskingIs DEF SameFile, RowsInv, Asking
<1>7. IndexInv'
  <2>1. index'.signature = Unread /\ Unread < version'
    BY <1>1, <1>2 DEF TypeOK, Unread
  <2> QED BY <1>1, <1>4, <2>1, NotAskingIs DEF IndexInv, Asking, TypeOK, Unread
<1> QED BY <1>3, <1>5, <1>6, <1>7 DEF AskerInv

-----------------------------------------------------------------------------
(* The theorems. *)

LEMMA InitIInv == Init => IInv
<1> SUFFICES ASSUME Init PROVE IInv
  OBVIOUS
<1> USE KnowledgeConstants
<1>1. status = [p \in Proposals |-> "none"] /\ told = [p \in Proposals |-> "none"]
      /\ version = 0 /\ lock = None
  BY DEF Init, NoProposals
<1>2. \A t \in Writers : writers[t].at = "rest"
  BY RestingIs DEF Init
<1>3. Resting \in Works
  BY StatusesAre DEF Works, Resting, NoProposals, Ops
<1>4. NotRead.signature = Unread /\ NotRead \in [signature : Int, rows : SUBSET Vetoes]
  BY DEF NotRead, Unread
<1>5. TypeOK
  BY <1>1, <1>3, <1>4, NotAskingIs, StatusesAre DEF TypeOK, Init
<1>6. FileInv
  <2>1. LockInv /\ CopyInv
    BY <1>1, <1>2 DEF LockInv, CopyInv, CopyOf, Working, At
  <2>2. EmptyAtFirst /\ ToldHolds
    BY <1>1, LaterIs, StatusesAre DEF EmptyAtFirst, ToldHolds
  <2> QED BY <2>1, <2>2 DEF FileInv
<1>7. \A a \in Askers : askers[a] = NotAsking
  BY DEF Init
<1>8. \A a \in Askers : ~Asking(a)
  BY <1>7, NotAskingIs DEF Asking
<1>9. BeganInv
  BY <1>1, <1>7, <1>8, NotAskingIs, LaterIs, StatusesAre DEF BeganInv
<1>10. SameFile /\ RowsInv
  BY <1>7, <1>8, NotAskingIs DEF SameFile, RowsInv
<1>11. IndexInv
  <2>1. index.signature = Unread /\ Unread < version
    BY <1>1, <1>4 DEF Init, Unread
  <2> QED BY <1>1, <1>7, <2>1, NotAskingIs DEF IndexInv, Unread
<1> QED BY <1>5, <1>6, <1>9, <1>10, <1>11 DEF IInv, AskerInv

\* A step of a writer, and a stutter, keep the invariant and move the file
\* forward.
LEMMA WriterStep ==
  ASSUME IInv, NEW t \in Writers, Wait(t) \/ Opens(t) \/ Held(t) \/ Kill(t)
  PROVE  IInv'
<1>1. TypeOK /\ (UNCHANGED <<status, version>> => FileMoves)
  BY StillMoves DEF IInv
<1>2. TypeOK' /\ FileInv' /\ FileMoves /\ UNCHANGED <<index, askers>>
  <2>1. CASE Wait(t)
    BY <1>1, <2>1, WaitKeeps DEF Wait
  <2>2. CASE Opens(t)
    BY <1>1, <2>2, OpenKeeps DEF Opens, Open
  <2>3. CASE Create(t)
    BY <2>3, CreateKeeps DEF Create
  <2>4. CASE Apply(t)
    BY <1>1, <2>4, ApplyKeeps DEF Apply
  <2>5. CASE Commit(t)
    BY <2>5, CommitKeeps DEF Commit
  <2>6. CASE Close(t)
    BY <1>1, <2>6, CloseKeeps DEF Close
  <2>7. CASE Kill(t)
    BY <1>1, <2>7, KillKeeps DEF Kill
  <2> QED BY <2>1, <2>2, <2>3, <2>4, <2>5, <2>6, <2>7 DEF Held
<1> QED BY <1>2, FileStepKeepsAskers DEF IInv

LEMMA AskerStep ==
  ASSUME IInv, NEW a \in Askers, Stat(a) \/ Look(a) \/ Read(a) \/ Keep(a)
  PROVE  IInv'
<1>1. UNCHANGED store
  BY DEF Stat, Look, Read, Keep
<1>2. FileInv'
  BY <1>1, AskStepKeepsFile DEF IInv
<1>3. TypeOK' /\ AskerInv'
  BY StatKeeps, LookKeeps, ReadKeeps, KeepKeeps
<1> QED BY <1>2, <1>3 DEF IInv

LEMMA StepIInv == IInv /\ [Next]_vars => IInv'
<1> SUFFICES ASSUME IInv, [Next]_vars PROVE IInv'
  OBVIOUS
<1>1. ASSUME NEW t \in Writers, Wait(t) \/ Opens(t) \/ Held(t) \/ Kill(t) PROVE IInv'
  BY <1>1, WriterStep
<1>2. ASSUME NEW a \in Askers, Stat(a) \/ Look(a) \/ Read(a) \/ Keep(a) PROVE IInv'
  BY <1>2, AskerStep
<1>3. CASE Restart
  BY <1>3, RestartKeeps, AskStepKeepsFile DEF IInv, Restart
<1>4. CASE UNCHANGED vars
  <2>1. UNCHANGED store /\ UNCHANGED <<status, version, index, askers>>
    BY <1>4 DEF vars, store
  <2>2. FileInv' /\ TypeOK'
    BY <2>1, AskStepKeepsFile DEF IInv, TypeOK, store
  <2>3. AskerInv'
    BY <2>1, StillMoves, FileStepKeepsAskers DEF IInv
  <2> QED BY <2>2, <2>3 DEF IInv
<1> QED BY <1>1, <1>2, <1>3, <1>4 DEF Next

LEMMA KnowledgeInvariant == Spec => []IInv
BY InitIInv, StepIInv, PTL DEF Spec

\* Every variable of the store, of its writers and of the index keeps its type.
THEOREM TypeCorrect == Spec => []TypeOK
<1>1. IInv => TypeOK
  BY DEF IInv
<1> QED BY <1>1, KnowledgeInvariant, PTL

\* What propose, decide and revoke acknowledged is on file and stays, for any
\* number of writers that fail or die anywhere (_SnapshotConnection.commit).
THEOREM AcknowledgedHolds == Spec => []ToldHolds
<1>1. IInv => ToldHolds
  BY DEF IInv, FileInv
<1> QED BY <1>1, KnowledgeInvariant, PTL

\* A query's vetoes are those in force when it began and still in force when it
\* ends, and none that was revoked before (SourceExclusionIndex.for_source).
THEOREM QueriesSee == Spec => []NextCallSees
<1>1. IInv => NextCallSees
  BY DEF IInv, AskerInv, RowsInv, Between, NextCallSees
<1> QED BY <1>1, KnowledgeInvariant, PTL

\* What an operation makes of the file is what the review allows.
LEMMA MayFollows ==
  ASSUME NEW op \in Ops, NEW p \in Proposals, May(op, p, status),
         status' = [status EXCEPT ![p] = Wanted(op)]
  PROVE  Review!Next
<1>1. CASE op = "propose"
  BY <1>1, MayIs, WantedIs DEF Review!Next, Review!Propose, Full
<1>2. CASE op \in {"approve", "reject"}
  BY <1>2, MayIs, WantedIs DEF Review!Next, Review!Decide
<1>3. CASE op = "revoke"
  BY <1>3, MayIs, WantedIs DEF Review!Next, Review!Revoke
<1> QED BY <1>1, <1>2, <1>3 DEF Ops

\* The store implements the review: its only step that changes a decision is
\* the commit of a copy that was still of the file.
THEOREM StoreFollowsReview == Spec => FollowsReview
<1>1. Init => Review!Init
  BY DEF Init, NoProposals, Review!Init
<1>2. IInv /\ [Next]_vars => [Review!Next]_status
  <2> SUFFICES ASSUME IInv, [Next]_vars, status' # status PROVE Review!Next
    OBVIOUS
  <2>1. PICK t \in Writers : Create(t) \/ Commit(t)
    BY DEF Next, vars, store, Wait, Opens, Open, Held, Apply, Close, Kill,
           Stat, Look, Read, Keep, Restart
  <2>2. CASE Create(t)
    <3>1. writers[t].staged = status
      BY <2>2 DEF Create, IInv, FileInv, CopyInv, CopyOf, At
    <3> QED BY <2>2, <3>1 DEF Create, Persist
  <2>3. CASE Commit(t)
    <3> DEFINE w == writers[t]
    <3>1. /\ w.on \in Proposals /\ w.op \in Ops
          /\ w.staged = [status EXCEPT ![w.on] = Wanted(w.op)]
          /\ May(w.op, w.on, status)
      BY <2>3 DEF Commit, IInv, FileInv, CopyInv, CopyOf, At, TypeOK, Works
    <3>2. status' = w.staged
      BY <2>3 DEF Commit, Persist
    <3> QED BY <3>1, <3>2, MayFollows
  <2> QED BY <2>1, <2>2, <2>3
<1> QED BY <1>1, <1>2, KnowledgeInvariant, PTL DEF Spec, FollowsReview, Review!Spec
=============================================================================
