--------------------------- MODULE SourceKnowledge ---------------------------
(***************************************************************************)
(* pstb/source_knowledge.py: meanings of tables that people taught, kept in *)
(* one SQLite file a source.  A writer takes a lock file that the operating *)
(* system releases with its process, copies the file, changes the copy and  *)
(* puts it in place of the file; a reader takes no lock.  An approved       *)
(* meaning may be a veto: before a query, SourceExclusionIndex asks stat    *)
(* whether the file is the one it remembers the vetoes of, and reads it     *)
(* again otherwise.  The file is numbered, 0 where there is none; the number *)
(* stands for its device, inode, time and size, as if no two files had the  *)
(* same.                                                                    *)
(***************************************************************************)
EXTENDS Integers, FiniteSets

CONSTANTS
  Proposals,
  Vetoes,    \* those that exclude their table
  MaxProposals, MaxPending,
  Writers,   \* threads and processes that propose or decide
  Askers,    \* threads that are about to query
  None

ASSUME KnowledgeConstants ==
  /\ Vetoes \subseteq Proposals
  /\ None \notin Writers /\ None \notin Proposals

VARIABLES
  status,  \* the file: the last decision on each proposal
  version, \* which file it is
  lock,    \* who has the lock file
  writers, \* each writer: [at, op, on, staged]
  told,    \* ghost: by proposal, the last outcome a caller was told
  index,   \* _cache: [signature, rows]; signature Unread where there is none
  askers   \* each asker: [at, signature, rows, began], began a ghost

store == <<status, version, lock, writers, told>>
vars == <<store, index, askers>>

Review == INSTANCE ProposalReview

Statuses == Review!Statuses
Full(s) == Review!Full(s)
Ops == {"propose", "approve", "reject", "revoke"}

\* What may become of a proposal that was once s.
Later(s) ==
  CASE s = "none" -> Statuses
    [] s = "pending" -> Statuses \ {"none"}
    [] s = "approved" -> {"approved", "revoked"}
    [] OTHER -> {s}

Unread == -1 \* no signature
NoProposals == [p \in Proposals |-> "none"]
Resting == [at |-> "rest", op |-> "propose", on |-> None, staged |-> NoProposals]
NotAsking == [at |-> "rest", signature |-> Unread, rows |-> {},
              began |-> [v \in Vetoes |-> "none"]]
NotRead == [signature |-> Unread, rows |-> {}]

Works == \* what a writer may be at
  [at : {"rest", "lock", "create", "apply", "persist", "close"}, op : Ops,
   on : Proposals \cup {None}, staged : [Proposals -> Statuses]]
Asks ==
  [at : {"rest", "look", "read", "keep", "answered"}, signature : Int,
   rows : SUBSET Vetoes, began : [Vetoes -> Statuses]]

TypeOK ==
  /\ status \in [Proposals -> Statuses] /\ version \in Nat
  /\ lock \in Writers \cup {None}
  /\ writers \in [Writers -> Works]
  /\ told \in [Proposals -> Statuses]
  /\ index \in [signature : Int, rows : SUBSET Vetoes]
  /\ askers \in [Askers -> Asks]

Init ==
  /\ status = NoProposals /\ version = 0
  /\ lock = None /\ writers = [t \in Writers |-> Resting]
  /\ told = NoProposals
  /\ index = NotRead /\ askers = [a \in Askers |-> NotAsking]

-----------------------------------------------------------------------------
(* A writer: propose, decide, revoke. *)

Tell(p, s) == told' = [told EXCEPT ![p] = IF s \in Later(@) THEN s ELSE @]

\* What is left to do is to close.
Leave(t) == writers' = [writers EXCEPT ![t] = [Resting EXCEPT !.at = "close"]]

Wait(t) ==
  /\ writers[t].at = "rest"
  /\ writers' = [writers EXCEPT ![t].at = "lock"]
  /\ UNCHANGED <<status, version, lock, told, index, askers>>

Opened(op, p) ==
  [at |-> IF version = 0 THEN "create" ELSE "apply",
   op |-> op, on |-> p, staged |-> status]

\* mutant of Open: the lock file is not waited for
OpenUnlocked(t, op, p) ==
  /\ writers[t].at = "lock" /\ lock' = t
  /\ \/ writers' = [writers EXCEPT ![t] = Opened(op, p)]
     \/ Leave(t)
  /\ UNCHANGED <<status, version, told, index, askers>>

\* _connect(write=True): under the lock the file is copied, or cannot be: it is
\* unreadable, there is no room for the copy, the directory is another by now.
\* What the call is for is told here, where it begins to matter.
Open(t, op, p) ==
  /\ writers[t].at = "lock" /\ lock = None
  /\ lock' = t
  /\ \/ writers' = [writers EXCEPT ![t] = Opened(op, p)]
     \/ Leave(t)
  /\ UNCHANGED <<status, version, told, index, askers>>

\* The copy takes the place of the file, or not; commit() raises when it did
\* not, and may raise when it did (the directory cannot be synced, or is not
\* the one it was).
Persist(t) ==
  \/ status' = writers[t].staged /\ version' = version + 1
  \/ UNCHANGED <<status, version>>

\* The first writer makes an empty store and commits it by itself.
Create(t) ==
  /\ writers[t].at = "create" /\ Persist(t)
  /\ \/ version' # version /\ writers' = [writers EXCEPT ![t].at = "apply"]
     \/ Leave(t)
  /\ UNCHANGED <<lock, told, index, askers>>

Wanted(op) ==
  CASE op = "propose" -> "pending" [] op = "approve" -> "approved"
    [] op = "reject" -> "rejected" [] op = "revoke" -> "revoked"

\* What is proposed again, or decided the same way again, is answered as it is.
Repeats(op, s) == IF op = "propose" THEN s # "none" ELSE s = Wanted(op)

May(op, p, s) ==
  CASE op = "propose" -> s[p] = "none" /\ ~Full(s)
    [] op = "revoke" -> s[p] = "approved"
    [] OTHER -> s[p] = "pending"

\* The change is made in the copy, or refused; an approval also where the
\* catalog no longer has the table as it was proposed.
Apply(t) ==
  LET w == writers[t]
  IN /\ w.at = "apply"
     /\ \/ /\ Repeats(w.op, w.staged[w.on])
           /\ Tell(w.on, w.staged[w.on])
           /\ Leave(t)
        \/ /\ ~Repeats(w.op, w.staged[w.on]) /\ May(w.op, w.on, w.staged)
           /\ writers' = [writers EXCEPT ![t].at = "persist",
                                         ![t].staged[w.on] = Wanted(w.op)]
           /\ UNCHANGED told
        \/ /\ ~Repeats(w.op, w.staged[w.on])
           /\ ~May(w.op, w.on, w.staged) \/ w.op = "approve"
           /\ Leave(t) /\ UNCHANGED told
     /\ UNCHANGED <<status, version, lock, index, askers>>

\* mutant of Commit: what is in the copy is acknowledged
CommitStaged(t) ==
  /\ writers[t].at = "persist" /\ Persist(t)
  /\ Tell(writers[t].on, Wanted(writers[t].op))
  /\ Leave(t)
  /\ UNCHANGED <<lock, index, askers>>

\* commit(): the caller is told when the file was put in place, unless that
\* raised afterwards.
Commit(t) ==
  /\ writers[t].at = "persist" /\ Persist(t)
  /\ \/ /\ version' # version
        /\ Tell(writers[t].on, Wanted(writers[t].op))
     \/ UNCHANGED told
  /\ Leave(t)
  /\ UNCHANGED <<lock, index, askers>>

\* mutant of Close: the lock file goes only with the process
CloseKeepsLock(t) ==
  /\ writers[t].at = "close"
  /\ writers' = [writers EXCEPT ![t] = Resting]
  /\ UNCHANGED <<status, version, lock, told, index, askers>>

\* Whatever happened, close() gives the lock back.
Close(t) ==
  /\ writers[t].at = "close" /\ lock' = None
  /\ writers' = [writers EXCEPT ![t] = Resting]
  /\ UNCHANGED <<status, version, told, index, askers>>

\* A writer dies, and the operating system releases what it had.
Kill(t) ==
  /\ writers[t].at # "rest"
  /\ writers' = [writers EXCEPT ![t] = Resting]
  /\ lock' = IF lock = t THEN None ELSE lock
  /\ UNCHANGED <<status, version, told, index, askers>>

-----------------------------------------------------------------------------
(* An asker: SourceExclusionIndex.for_source. *)

InForce == {v \in Vetoes : status[v] = "approved"}

Stat(a) ==
  /\ askers[a].at \in {"rest", "answered"}
  /\ askers' = [askers EXCEPT ![a] =
       [at |-> "look", signature |-> version, rows |-> {},
        began |-> [v \in Vetoes |-> status[v]]]]
  /\ UNCHANGED <<store, index>>

\* What is remembered of this file is the answer; of no file there is none.
Look(a) ==
  /\ askers[a].at = "look"
  /\ askers' =
       IF index.signature = askers[a].signature
       THEN [askers EXCEPT ![a].at = "answered", ![a].signature = Unread,
                           ![a].rows = index.rows]
       ELSE [askers EXCEPT ![a].at = IF askers[a].signature = 0 THEN "keep" ELSE "read"]
  /\ UNCHANGED <<store, index>>

\* The file of this moment is read; a reader that raises stops the query.
Read(a) ==
  /\ askers[a].at = "read"
  /\ \/ askers' = [askers EXCEPT ![a].at = "keep", ![a].rows = InForce]
     \/ askers' = [askers EXCEPT ![a] = NotAsking]
  /\ UNCHANGED <<store, index>>

\* mutant of Keep: what was read is remembered for the file there is now
KeepAsOfNow(a) ==
  /\ askers[a].at = "keep"
  /\ index' = [signature |-> version, rows |-> askers[a].rows]
  /\ askers' = [askers EXCEPT ![a].at = "answered", ![a].signature = Unread]
  /\ UNCHANGED store

Keep(a) ==
  /\ askers[a].at = "keep"
  /\ index' = [signature |-> askers[a].signature, rows |-> askers[a].rows]
  /\ askers' = [askers EXCEPT ![a].at = "answered", ![a].signature = Unread]
  /\ UNCHANGED store

\* The process that has the index starts again.
Restart ==
  /\ index' = NotRead /\ askers' = [a \in Askers |-> NotAsking]
  /\ UNCHANGED store

-----------------------------------------------------------------------------
Opens(t) == \E op \in Ops, p \in Proposals : Open(t, op, p)
Held(t) == Create(t) \/ Apply(t) \/ Commit(t) \/ Close(t)

Next ==
  \/ \E t \in Writers :
       \/ Wait(t) \/ Opens(t) \/ Held(t) \/ Kill(t)
  \/ \E a \in Askers : Stat(a) \/ Look(a) \/ Read(a) \/ Keep(a)
  \/ Restart

\* A writer that has the lock goes on; those that wait are served in turn.
Fairness == \A t \in Writers : WF_vars(Held(t)) /\ SF_vars(Opens(t))

Spec == Init /\ [][Next]_vars /\ Fairness

-----------------------------------------------------------------------------
(* Properties. *)

\* "decisions do not move backward": whatever writers do at once, die in or
\* fail in, the file follows the review, within its limits.
FollowsReview == Review!Spec

\* What a caller was told is on file, and stays: nothing is acknowledged that
\* a failed write, a crash or another writer then loses.
ToldHolds == \A p \in Proposals : status[p] \in Later(told[p])

\* "makes an approval or revocation visible on the very next call": vetoes in
\* force from before the call to its end are in the answer, and one revoked
\* before the call, or never approved, is not.
NextCallSees ==
  \A a \in Askers : askers[a].at = "answered" =>
    \A v \in Vetoes :
      /\ askers[a].began[v] = "approved" /\ status[v] = "approved"
           => v \in askers[a].rows
      /\ v \in askers[a].rows
           => askers[a].began[v] # "revoked" /\ status[v] \in {"approved", "revoked"}

\* Nobody waits forever for the lock, whoever failed or died with it.
WritesEnd == \A t \in Writers : writers[t].at # "rest" ~> writers[t].at = "rest"
=============================================================================
