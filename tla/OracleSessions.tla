--------------------------- MODULE OracleSessions ---------------------------
(***************************************************************************)
(* pstb/db.py: Database on Oracle, shared by the threads of all chat       *)
(* channels.  A query gets the session pool (made on first use, under the  *)
(* lock), acquires a session from it, streams its rows into a sink and     *)
(* releases the session.  A thread whose session died discards the pool,   *)
(* whoever else is using it, and tries once more from the beginning; one   *)
(* whose password is refused sets a latch that keeps every later attempt   *)
(* away from the server.  Discarding takes no lock: reading _pool, setting *)
(* it to None and closing the pool are three steps.  query() is            *)
(* stream_query() with a list for a sink.                                  *)
(***************************************************************************)
EXTENDS Naturals, FiniteSets

CONSTANTS
  Thread,   \* threads that run queries
  Nobody,   \* nobody has the setup lock
  Pool,     \* identities of pools, used again once nobody knows the old one
  None,     \* no pool
  PoolMax,  \* db.pool_max
  Rows,     \* rows of every query's answer
  MaxDrops  \* bound: network drops or DBA kills

ASSUME SessionConstants ==
  /\ Nobody \notin Thread /\ None \notin Pool
  /\ PoolMax \in Nat \ {0} /\ Rows \in Nat /\ MaxDrops \in Nat

VARIABLES
  pool,     \* Database._pool
  latched,  \* Database._credentials_refused is set
  lock,     \* who has Database._lock
  open,     \* pools that were made and not closed
  sessions, \* live sessions of each pool, in use or idle
  valid,    \* the server accepts the password
  drops,
  pc,       \* where each thread is
  mine,     \* the pool its _oracle_pool() returned, or it is to discard
  alive,    \* the session it holds is connected
  attempt,  \* first or second
  cursor,   \* rows its cursor has left
  sink,     \* rows in its sink
  answer,   \* how its last query ended
  offers,   \* logons of this thread that the server refused, counted up to 2
  harm,     \* drops that hit this query's sessions, counted up to 2; a pool
            \* taken away by another thread counts for two
  died      \* the pool this query's first session died in

progress == <<mine, alive, attempt, cursor, sink, answer>>
trouble == <<harm, died>>
vars == <<pool, latched, lock, open, sessions, valid, drops, pc, progress,
          trouble, offers>>

TypeOK ==
  /\ pool \in Pool \cup {None}
  /\ latched \in BOOLEAN /\ valid \in BOOLEAN
  /\ lock \in Thread \cup {Nobody}
  /\ open \subseteq Pool
  /\ sessions \in [Pool -> 0..PoolMax]
  /\ drops \in 0..MaxDrops
  /\ pc \in [Thread -> {"idle", "look", "lock", "setup", "give", "latch",
                        "acquire", "execute", "fetch", "discard", "clear",
                        "close"}]
  /\ mine \in [Thread -> Pool \cup {None}]
  /\ alive \in [Thread -> BOOLEAN]
  /\ attempt \in [Thread -> 1..2]
  /\ cursor \in [Thread -> 0..Rows]
  /\ sink \in [Thread -> Nat]
  /\ answer \in [Thread -> {"none", "rows", "failed", "refused", "trouble"}]
  /\ offers \in [Thread -> 0..2]
  /\ harm \in [Thread -> 0..2]
  /\ died \in [Thread -> Pool \cup {None}]

Init ==
  /\ pool = None
  /\ latched = FALSE /\ valid \in BOOLEAN
  /\ lock = Nobody
  /\ open = {}
  /\ sessions = [p \in Pool |-> 0]
  /\ drops = 0
  /\ pc = [t \in Thread |-> "idle"]
  /\ mine = [t \in Thread |-> None]
  /\ alive = [t \in Thread |-> FALSE]
  /\ attempt = [t \in Thread |-> 1]
  /\ cursor = [t \in Thread |-> 0]
  /\ sink = [t \in Thread |-> 0]
  /\ answer = [t \in Thread |-> "none"]
  /\ offers = [t \in Thread |-> 0]
  /\ harm = [t \in Thread |-> 0]
  /\ died = [t \in Thread |-> None]

-----------------------------------------------------------------------------
Holding(t) == pc[t] \in {"execute", "fetch"}
Using(t) == pc[t] \in {"latch", "acquire", "execute", "fetch"}
Users(p) == {t \in Thread : Holding(t) /\ mine[t] = p}
Busy(p) == {t \in Users(p) : alive[t]}
Known(p) == p = pool \/ \E t \in Thread : mine[t] = p

\* A query ends: with its rows, because a session or its pool was gone, with
\* the latched refusal, or with an error of another kind.  What an unfinished
\* stream left in its sink is nobody's answer.
End(t, how) ==
  /\ pc' = [pc EXCEPT ![t] = "idle"]
  /\ mine' = [mine EXCEPT ![t] = None]
  /\ alive' = [alive EXCEPT ![t] = FALSE]
  /\ answer' = [answer EXCEPT ![t] = how]
  /\ cursor' = [cursor EXCEPT ![t] = 0]
  /\ attempt' = [attempt EXCEPT ![t] = 1]
  /\ sink' = IF how = "rows" THEN sink ELSE [sink EXCEPT ![t] = 0]
  /\ IF how = "failed"
     THEN UNCHANGED trouble
     ELSE /\ harm' = [harm EXCEPT ![t] = 0]
          /\ died' = [died EXCEPT ![t] = None]

Goto(t, where) ==
  /\ pc' = [pc EXCEPT ![t] = where]
  /\ UNCHANGED <<progress, trouble>>

\* query, stream_query
Ask(t) ==
  /\ pc[t] = "idle"
  /\ pc' = [pc EXCEPT ![t] = "look"]
  /\ attempt' = [attempt EXCEPT ![t] = 1]
  /\ sink' = [sink EXCEPT ![t] = 0]
  /\ answer' = [answer EXCEPT ![t] = "none"]
  /\ harm' = [harm EXCEPT ![t] = 0]
  /\ died' = [died EXCEPT ![t] = None]
  /\ UNCHANGED <<pool, latched, lock, open, sessions, valid, drops, mine,
                 alive, cursor, offers>>

\* _oracle_pool: is there a pool, ...
LookForPool(t) ==
  /\ pc[t] = "look"
  /\ \/ pool # None /\ Goto(t, "give")
     \/ pool = None /\ latched /\ End(t, "refused")
     \/ pool = None /\ ~latched /\ Goto(t, "lock")
  /\ UNCHANGED <<pool, latched, lock, open, sessions, valid, drops, offers>>

\* ... or is one to be made under the lock ...
TakeLock(t) ==
  /\ pc[t] = "lock"
  /\ lock = Nobody
  /\ lock' = t
  /\ Goto(t, "setup")
  /\ UNCHANGED <<pool, latched, open, sessions, valid, drops, offers>>

MakePool(p) ==
  /\ ~Known(p)
  /\ pool' = p
  /\ open' = open \cup {p}
  /\ sessions' = [sessions EXCEPT ![p] = 0]
  /\ died' = [t \in Thread |-> IF died[t] = p THEN None ELSE died[t]]

\* ... where pool and latch are looked at again.  create_pool does not log on.
SetUpPool(t) ==
  /\ pc[t] = "setup"
  /\ \/ /\ pool # None
        /\ Goto(t, "give")
        /\ UNCHANGED <<pool, lock, open, sessions>>
     \/ /\ pool = None /\ latched
        /\ lock' = Nobody
        /\ End(t, "refused")
        /\ UNCHANGED <<pool, open, sessions>>
     \/ /\ pool = None /\ ~latched
        /\ \E p \in Pool : MakePool(p)
        /\ pc' = [pc EXCEPT ![t] = "give"]
        /\ UNCHANGED <<lock, progress, harm>>
  /\ UNCHANGED <<latched, valid, drops, offers>>

\* Faulty: an error leaves the lock taken.
CreatePoolFailsKeepsLock(t) ==
  /\ pc[t] = "setup" /\ pool = None /\ ~latched
  /\ End(t, "trouble")
  /\ UNCHANGED <<pool, latched, lock, open, sessions, valid, drops, offers>>

\* create_pool, or the settings it is given, are at fault.
CreatePoolFails(t) ==
  /\ pc[t] = "setup" /\ pool = None /\ ~latched
  /\ lock' = Nobody
  /\ End(t, "trouble")
  /\ UNCHANGED <<pool, latched, open, sessions, valid, drops, offers>>

\* The attribute is read again to return it: a discard in between leaves None.
GivePool(t) ==
  /\ pc[t] = "give"
  /\ mine' = [mine EXCEPT ![t] = pool]
  /\ pc' = [pc EXCEPT ![t] = "latch"]
  /\ lock' = IF lock = t THEN Nobody ELSE lock
  /\ UNCHANGED <<pool, latched, open, sessions, valid, drops, alive, attempt,
                 cursor, sink, answer, trouble, offers>>

\* Faulty: the latch guards the making of pools only.
LookAtLatchNever(t) ==
  /\ pc[t] = "latch"
  /\ Goto(t, "acquire")
  /\ UNCHANGED <<pool, latched, lock, open, sessions, valid, drops, offers>>

\* _session: the latch guards the acquire too.
LookAtLatch(t) ==
  /\ pc[t] = "latch"
  /\ IF latched THEN End(t, "refused") ELSE Goto(t, "acquire")
  /\ UNCHANGED <<pool, latched, lock, open, sessions, valid, drops, offers>>

GiveSession(t) ==
  /\ pc' = [pc EXCEPT ![t] = "execute"]
  /\ alive' = [alive EXCEPT ![t] = TRUE]
  /\ UNCHANGED <<mine, attempt, cursor, sink, answer, trouble>>

\* pool.acquire(): an idle session, or a new one that has to log on; it waits
\* while all are in use and raises on a pool that was open, or is none.
Acquire(t) ==
  /\ pc[t] = "acquire"
  /\ LET p == mine[t] IN
     \/ /\ p \notin open
        /\ End(t, "failed")
        /\ UNCHANGED <<latched, sessions, offers>>
     \/ /\ p \in open
        /\ Cardinality(Busy(p)) < sessions[p]
        /\ GiveSession(t)
        /\ UNCHANGED <<latched, sessions, offers>>
     \/ /\ p \in open
        /\ Cardinality(Busy(p)) = sessions[p]
        /\ Cardinality(Users(p)) < PoolMax
        /\ \/ /\ valid
              /\ GiveSession(t)
              /\ sessions' = [sessions EXCEPT ![p] = @ + 1]
              /\ UNCHANGED <<latched, offers>>
           \/ /\ ~valid
              /\ latched' = TRUE
              /\ offers' = [offers EXCEPT ![t] = IF @ < 2 THEN @ + 1 ELSE @]
              /\ End(t, "refused")
              /\ UNCHANGED sessions
  /\ UNCHANGED <<pool, lock, open, valid, drops>>

\* An error that is neither a refused password nor a dead session: the server
\* cannot be reached, the statement is wrong or takes too long, the sink
\* cannot write.  The session goes back to its pool.
Trouble(t) ==
  /\ pc[t] = "acquire" \/ (Holding(t) /\ alive[t])
  /\ End(t, "trouble")
  /\ UNCHANGED <<pool, latched, lock, open, sessions, valid, drops, offers>>

\* Faulty: rows of the first attempt stay in the sink.
ExecuteAppending(t) ==
  /\ pc[t] = "execute" /\ alive[t]
  /\ pc' = [pc EXCEPT ![t] = "fetch"]
  /\ cursor' = [cursor EXCEPT ![t] = Rows]
  /\ UNCHANGED <<pool, latched, lock, open, sessions, valid, drops, mine,
                 alive, attempt, sink, answer, trouble, offers>>

\* cur.execute, and on_start: a file sink is truncated.
Execute(t) ==
  /\ pc[t] = "execute" /\ alive[t]
  /\ pc' = [pc EXCEPT ![t] = "fetch"]
  /\ cursor' = [cursor EXCEPT ![t] = Rows]
  /\ sink' = [sink EXCEPT ![t] = 0]
  /\ UNCHANGED <<pool, latched, lock, open, sessions, valid, drops, mine,
                 alive, attempt, answer, trouble, offers>>

\* One chunk; the end of the rows releases the session.
Fetch(t) ==
  /\ pc[t] = "fetch" /\ alive[t]
  /\ IF cursor[t] > 0
     THEN /\ cursor' = [cursor EXCEPT ![t] = @ - 1]
          /\ sink' = [sink EXCEPT ![t] = @ + 1]
          /\ UNCHANGED <<pc, mine, alive, attempt, answer, trouble>>
     ELSE End(t, "rows")
  /\ UNCHANGED <<pool, latched, lock, open, sessions, valid, drops, offers>>

\* Faulty: a dead session is an error like any other.
LostGivesUp(t) ==
  /\ Holding(t) /\ ~alive[t]
  /\ End(t, "failed")
  /\ UNCHANGED <<pool, latched, lock, open, sessions, valid, drops, offers>>

\* The session turns out to be dead: it is released, and the first attempt
\* goes on to discard the pool.
Lost(t) ==
  /\ Holding(t) /\ ~alive[t]
  /\ \/ /\ attempt[t] = 1
        /\ died' = [died EXCEPT ![t] = mine[t]]
        /\ pc' = [pc EXCEPT ![t] = "discard"]
        /\ UNCHANGED <<progress, harm>>
     \/ attempt[t] = 2 /\ End(t, "failed")
  /\ UNCHANGED <<pool, latched, lock, open, sessions, valid, drops, offers>>

\* _discard_session: whatever pool is current now ...
ReadPool(t) ==
  /\ pc[t] = "discard"
  /\ mine' = [mine EXCEPT ![t] = pool]
  /\ pc' = [pc EXCEPT ![t] = "clear"]
  /\ UNCHANGED <<pool, latched, lock, open, sessions, valid, drops, alive,
                 attempt, cursor, sink, answer, trouble, offers>>

\* Faulty: it is closed and stays the current one.
ClearPoolNever(t) ==
  /\ pc[t] = "clear"
  /\ Goto(t, "close")
  /\ UNCHANGED <<pool, latched, lock, open, sessions, valid, drops, offers>>

\* ... is forgotten ...
ClearPool(t) ==
  /\ pc[t] = "clear"
  /\ pool' = None
  /\ harm' = [u \in Thread |-> IF u # t /\ pc[u] = "give" THEN 2 ELSE harm[u]]
  /\ pc' = [pc EXCEPT ![t] = "close"]
  /\ UNCHANGED <<latched, lock, open, sessions, valid, drops, progress, harm,
                 died, offers>>

\* ... and closed by force, and the sessions of its users with it; then the
\* second attempt begins.
ClosePool(t) ==
  /\ pc[t] = "close"
  /\ LET p == mine[t]
         victims == {u \in Thread : Using(u) /\ mine[u] = p /\ p # None} IN
     /\ open' = open \ {p}
     /\ sessions' = [q \in Pool |-> IF q = p THEN 0 ELSE sessions[q]]
     /\ alive' = [u \in Thread |-> alive[u] /\ u \notin victims]
     /\ harm' = [u \in Thread |-> IF u \in victims THEN 2 ELSE harm[u]]
  /\ pc' = [pc EXCEPT ![t] = "look"]
  /\ mine' = [mine EXCEPT ![t] = None]
  /\ attempt' = [attempt EXCEPT ![t] = 2]
  /\ UNCHANGED <<pool, latched, lock, valid, drops, cursor, sink, answer,
                 offers, died>>

-----------------------------------------------------------------------------
(* The server *)

\* Some sessions in use die, and all idle ones, which are checked before they
\* are handed out.
Drop ==
  /\ drops < MaxDrops /\ \E p \in Pool : sessions[p] > 0
  /\ drops' = drops + 1
  /\ \E struck \in SUBSET {t \in Thread : Holding(t) /\ alive[t]} :
       /\ alive' = [t \in Thread |-> alive[t] /\ t \notin struck]
       /\ harm' = [t \in Thread |-> IF t \in struck /\ harm[t] < 2
                                    THEN harm[t] + 1 ELSE harm[t]]
       /\ sessions' = [p \in Pool |-> Cardinality(Busy(p) \ struck)]
  /\ UNCHANGED <<pool, latched, lock, open, valid, pc, mine, attempt, cursor,
                 sink, answer, offers, died>>

\* The password is rotated, expires, or is put right.
PasswordChanges ==
  /\ valid' = ~valid
  /\ UNCHANGED <<pool, latched, lock, open, sessions, drops, pc, progress,
                 trouble, offers>>

Run(t) ==
  \/ LookForPool(t) \/ TakeLock(t) \/ SetUpPool(t) \/ GivePool(t)
  \/ LookAtLatch(t) \/ Acquire(t) \/ Execute(t) \/ Fetch(t) \/ Lost(t)
  \/ ReadPool(t) \/ ClearPool(t) \/ ClosePool(t)

Next ==
  \/ \E t \in Thread : Ask(t) \/ Run(t) \/ CreatePoolFails(t) \/ Trouble(t)
  \/ Drop \/ PasswordChanges

Spec == Init /\ [][Next]_vars

\* A thread in a query runs on; waiting for the lock or for a session ends when
\* it is free time and again.
FairSpec == Spec /\ \A t \in Thread : SF_vars(Run(t))

-----------------------------------------------------------------------------
(* Properties *)

\* "Set once the database has REJECTED these credentials.  Every later
\* connection attempt is refused from here": no thread has a password refused
\* by the server twice, although several that were past the check when the
\* latch was set may each have it refused once.
RefusedOncePerThread == \A t \in Thread : offers[t] <= 1

\* Why: a thread that will still offer the password passed the check before
\* the latch was set and was not refused.
LatchInv ==
  \A t \in Thread : /\ offers[t] # 0 => latched
                    /\ pc[t] = "acquire" => offers[t] = 0

\* "on_start is called for each attempt so a file sink can truncate the
\* partial first attempt before replaying": a stream that succeeds, at its
\* first attempt or at its second, has written every row once.
StreamExact == \A t \in Thread : answer[t] = "rows" => sink[t] = Rows

\* "Drop it and try once on a fresh one": a query whose session died once is
\* answered, unless the password is refused, an error of another kind is
\* raised, or another query takes the pool away from under it.
FailsForCause ==
  \A t \in Thread : answer[t] = "failed" => harm[t] = 2

\* Although nothing is locked while a pool is discarded, and what is cleared
\* need not be what was read: the pool that queries are given is open, and the
\* second attempt never gets the pool in which the first one's session died.
RetryIsFresh ==
  /\ pool # None => pool \in open
  /\ \A t \in Thread :
       Using(t) /\ attempt[t] = 2 /\ died[t] # None => mine[t] # died[t]

\* A query comes back: nobody waits for ever for the lock or for a session,
\* although sessions die while they are held, pools are closed and pools
\* cannot be made.
QueryReturns == \A t \in Thread : pc[t] # "idle" ~> pc[t] = "idle"
=============================================================================
