----------------------- MODULE OracleSessions_proofs -----------------------
(***************************************************************************)
(* What OracleSessions promises for any number of threads, pools, rows and *)
(* drops.  Each invariant is inductive together with Typed, the types of   *)
(* all that a thread carries.                                              *)
(***************************************************************************)
EXTENDS OracleSessions, TLAPS

QueryTyped ==
  /\ pc \in [Thread -> {"idle", "look", "lock", "setup", "give", "latch",
                        "acquire", "execute", "fetch", "discard", "clear",
                        "close"}]
  /\ mine \in [Thread -> Pool \cup {None}]
  /\ alive \in [Thread -> BOOLEAN]
  /\ attempt \in [Thread -> 1..2]
  /\ cursor \in [Thread -> 0..Rows]
  /\ sink \in [Thread -> Nat]
  /\ answer \in [Thread -> {"none", "rows", "failed", "refused", "trouble"}]
  /\ harm \in [Thread -> 0..2]
  /\ died \in [Thread -> Pool \cup {None}]

Typed ==
  /\ QueryTyped
  /\ pool \in Pool \cup {None}
  /\ open \subseteq Pool
  /\ lock \in Thread \cup {Nobody}
  /\ offers \in [Thread -> 0..2]

\* The ways in which a thread moves on keep the types of its query.
LEMMA EndTyped ==
  ASSUME NEW t \in Thread, QueryTyped,
         NEW how \in {"rows", "failed", "refused", "trouble"}, End(t, how)
  PROVE  QueryTyped'
<1>1. CASE how = "failed"
  BY <1>1, SessionConstants DEF QueryTyped, End, trouble
<1>2. CASE how # "failed"
  BY <1>2, SessionConstants DEF QueryTyped, End, trouble
<1>3. QED
  BY <1>1, <1>2

LEMMA GotoTyped ==
  ASSUME NEW t \in Thread, QueryTyped,
         NEW where \in {"lock", "setup", "give", "acquire", "close"},
         Goto(t, where)
  PROVE  QueryTyped'
  BY DEF QueryTyped, Goto, progress, trouble

LEMMA GiveSessionTyped ==
  ASSUME NEW t \in Thread, QueryTyped, GiveSession(t)
  PROVE  QueryTyped'
  BY DEF QueryTyped, GiveSession, trouble

\* Every step keeps the types.
LEMMA TypedStep ==
  ASSUME Typed, [Next]_vars
  PROVE  Typed'
<1>1. CASE UNCHANGED vars
  BY <1>1 DEF Typed, QueryTyped, vars, progress, trouble
<1>2. ASSUME NEW t \in Thread, Ask(t) PROVE Typed'
  BY <1>2, SessionConstants DEF Typed, QueryTyped, Ask, progress, trouble
<1>3. ASSUME NEW t \in Thread, LookForPool(t) PROVE Typed'
  <2>1. QueryTyped'
    BY <1>3, EndTyped, GotoTyped DEF Typed, LookForPool
  <2>2. QED
    BY <1>3, <2>1 DEF Typed, LookForPool
<1>4. ASSUME NEW t \in Thread, TakeLock(t) PROVE Typed'
  BY <1>4, SessionConstants DEF Typed, QueryTyped, TakeLock, Goto, progress,
     trouble
<1>5. ASSUME NEW t \in Thread, SetUpPool(t) PROVE Typed'
  <2>1. CASE ~(pool = None /\ ~latched)
    <3>1. QueryTyped'
      BY <1>5, <2>1, EndTyped, GotoTyped DEF Typed, SetUpPool
    <3>2. UNCHANGED <<pool, open, offers>> /\ lock' \in {lock, Nobody}
      BY <1>5, <2>1 DEF SetUpPool
    <3>3. QED
      BY <3>1, <3>2 DEF Typed
  <2>2. CASE pool = None /\ ~latched
    <3>1. PICK p \in Pool :
            /\ MakePool(p)
            /\ pc' = [pc EXCEPT ![t] = "give"]
            /\ UNCHANGED <<progress, harm, lock, offers>>
      BY <1>5, <2>2, Zenon DEF SetUpPool
    <3>2. QueryTyped'
      BY <3>1 DEF Typed, QueryTyped, MakePool, progress
    <3>3. QED
      BY <3>1, <3>2 DEF Typed, MakePool
  <2>3. QED
    BY <2>1, <2>2
<1>6. ASSUME NEW t \in Thread, CreatePoolFails(t) PROVE Typed'
  <2>1. QueryTyped'
    BY <1>6, EndTyped DEF Typed, CreatePoolFails
  <2>2. QED
    BY <1>6, <2>1 DEF Typed, CreatePoolFails
<1>7. ASSUME NEW t \in Thread, GivePool(t) PROVE Typed'
  BY <1>7, SessionConstants DEF Typed, QueryTyped, GivePool, progress, trouble
<1>8. ASSUME NEW t \in Thread, LookAtLatch(t) PROVE Typed'
  <2>1. QueryTyped'
    BY <1>8, EndTyped, GotoTyped DEF Typed, LookAtLatch
  <2>2. QED
    BY <1>8, <2>1 DEF Typed, LookAtLatch
<1>9. ASSUME NEW t \in Thread, Acquire(t) PROVE Typed'
  <2>1. QueryTyped'
    BY <1>9, EndTyped, GiveSessionTyped DEF Typed, Acquire
  <2>2. offers' \in [Thread -> 0..2]
    BY <1>9 DEF Typed, Acquire
  <2>3. QED
    BY <1>9, <2>1, <2>2 DEF Typed, Acquire
<1>10. ASSUME NEW t \in Thread, Trouble(t) PROVE Typed'
  <2>1. QueryTyped'
    BY <1>10, EndTyped DEF Typed, Trouble
  <2>2. QED
    BY <1>10, <2>1 DEF Typed, Trouble
<1>11. ASSUME NEW t \in Thread, Execute(t) PROVE Typed'
  BY <1>11, SessionConstants DEF Typed, QueryTyped, Execute, progress, trouble
<1>12. ASSUME NEW t \in Thread, Fetch(t) PROVE Typed'
  <2>1. CASE cursor[t] > 0
    BY <1>12, <2>1, SessionConstants DEF Typed, QueryTyped, Fetch, trouble
  <2>2. CASE ~(cursor[t] > 0)
    <3>1. QueryTyped'
      BY <1>12, <2>2, EndTyped DEF Typed, Fetch
    <3>2. QED
      BY <1>12, <3>1 DEF Typed, Fetch
  <2>3. QED
    BY <2>1, <2>2
<1>13. ASSUME NEW t \in Thread, Lost(t) PROVE Typed'
  <2>1. CASE attempt[t] = 1
    BY <1>13, <2>1 DEF Typed, QueryTyped, Lost, progress
  <2>2. CASE attempt[t] # 1
    <3>1. QueryTyped'
      BY <1>13, <2>2, EndTyped DEF Typed, Lost
    <3>2. QED
      BY <1>13, <3>1 DEF Typed, Lost
  <2>3. QED
    BY <2>1, <2>2
<1>14. ASSUME NEW t \in Thread, ReadPool(t) PROVE Typed'
  BY <1>14, SessionConstants DEF Typed, QueryTyped, ReadPool, progress,
     trouble
<1>15. ASSUME NEW t \in Thread, ClearPool(t) PROVE Typed'
  BY <1>15, SessionConstants DEF Typed, QueryTyped, ClearPool, progress,
     trouble
<1>16. ASSUME NEW t \in Thread, ClosePool(t) PROVE Typed'
  BY <1>16, SessionConstants DEF Typed, QueryTyped, ClosePool, Using,
     progress, trouble
<1>17. CASE Drop
  BY <1>17, SessionConstants DEF Typed, QueryTyped, Drop, Holding, progress,
     trouble
<1>18. CASE PasswordChanges
  BY <1>18, SessionConstants DEF Typed, QueryTyped, PasswordChanges, progress,
     trouble
<1>19. QED
  BY <1>1, <1>2, <1>3, <1>4, <1>5, <1>6, <1>7, <1>8, <1>9, <1>10, <1>11,
     <1>12, <1>13, <1>14, <1>15, <1>16, <1>17, <1>18 DEF Next, Run

LEMMA TypedInit == Init => Typed
  BY SessionConstants DEF Init, Typed, QueryTyped

\* The latch: a thread that may still offer the password was never refused,
\* and a refusal is followed by the latch.
LEMMA LatchStep ==
  ASSUME Typed, LatchInv, [Next]_vars
  PROVE  LatchInv'
<1>1. CASE UNCHANGED vars
  BY <1>1 DEF Typed, QueryTyped, LatchInv, vars, progress, trouble
<1>2. ASSUME NEW t \in Thread, Ask(t) PROVE LatchInv'
  BY <1>2 DEF Typed, QueryTyped, LatchInv, Ask, progress, trouble
<1>3. ASSUME NEW t \in Thread, LookForPool(t) PROVE LatchInv'
  BY <1>3 DEF Typed, QueryTyped, LatchInv, LookForPool, End, Goto, progress,
     trouble
<1>4. ASSUME NEW t \in Thread, TakeLock(t) PROVE LatchInv'
  BY <1>4 DEF Typed, QueryTyped, LatchInv, TakeLock, Goto, progress, trouble
<1>5. ASSUME NEW t \in Thread, SetUpPool(t) PROVE LatchInv'
  BY <1>5 DEF Typed, QueryTyped, LatchInv, SetUpPool, End, Goto, MakePool,
     Known, progress, trouble
<1>6. ASSUME NEW t \in Thread, CreatePoolFails(t) PROVE LatchInv'
  BY <1>6 DEF Typed, QueryTyped, LatchInv, CreatePoolFails, End, progress,
     trouble
<1>7. ASSUME NEW t \in Thread, GivePool(t) PROVE LatchInv'
  BY <1>7 DEF Typed, QueryTyped, LatchInv, GivePool, progress, trouble
<1>8. ASSUME NEW t \in Thread, LookAtLatch(t) PROVE LatchInv'
  BY <1>8 DEF Typed, QueryTyped, LatchInv, LookAtLatch, End, Goto, progress,
     trouble
<1>9. ASSUME NEW t \in Thread, Acquire(t) PROVE LatchInv'
  BY <1>9 DEF Typed, QueryTyped, LatchInv, Acquire, End, GiveSession,
     progress, trouble
<1>10. ASSUME NEW t \in Thread, Trouble(t) PROVE LatchInv'
  BY <1>10 DEF Typed, QueryTyped, LatchInv, Trouble, End, Holding, progress,
     trouble
<1>11. ASSUME NEW t \in Thread, Execute(t) PROVE LatchInv'
  BY <1>11 DEF Typed, QueryTyped, LatchInv, Execute, progress, trouble
<1>12. ASSUME NEW t \in Thread, Fetch(t) PROVE LatchInv'
  BY <1>12 DEF Typed, QueryTyped, LatchInv, Fetch, End, progress, trouble
<1>13. ASSUME NEW t \in Thread, Lost(t) PROVE LatchInv'
  BY <1>13 DEF Typed, QueryTyped, LatchInv, Lost, End, Holding, progress,
     trouble
<1>14. ASSUME NEW t \in Thread, ReadPool(t) PROVE LatchInv'
  BY <1>14 DEF Typed, QueryTyped, LatchInv, ReadPool, progress, trouble
<1>15. ASSUME NEW t \in Thread, ClearPool(t) PROVE LatchInv'
  BY <1>15 DEF Typed, QueryTyped, LatchInv, ClearPool, progress, trouble
<1>16. ASSUME NEW t \in Thread, ClosePool(t) PROVE LatchInv'
  BY <1>16 DEF Typed, QueryTyped, LatchInv, ClosePool, Using, progress,
     trouble
<1>17. CASE Drop
  BY <1>17 DEF Typed, QueryTyped, LatchInv, Drop, Holding, progress, trouble
<1>18. CASE PasswordChanges
  BY <1>18 DEF Typed, QueryTyped, LatchInv, PasswordChanges, progress, trouble
<1>19. QED
  BY <1>1, <1>2, <1>3, <1>4, <1>5, <1>6, <1>7, <1>8, <1>9, <1>10, <1>11,
     <1>12, <1>13, <1>14, <1>15, <1>16, <1>17, <1>18 DEF Next, Run

\* _credentials_refused keeps a refused password away from the server: no
\* thread has it refused twice.
THEOREM RefusedOnce == Spec => []RefusedOncePerThread
<1> DEFINE Inv == /\ Typed /\ LatchInv
                  /\ RefusedOncePerThread
<1>1. Init => Inv
  BY TypedInit DEF Init, LatchInv, RefusedOncePerThread
<1>2. ASSUME Inv, [Next]_vars PROVE RefusedOncePerThread'
  <2>1. ASSUME NEW t \in Thread, Acquire(t) PROVE RefusedOncePerThread'
    BY <1>2, <2>1 DEF RefusedOncePerThread, LatchInv, Typed, QueryTyped,
       Acquire, End, GiveSession
  <2>2. ASSUME NEW t \in Thread, Ask(t) \/ (Run(t) /\ ~Acquire(t))
        PROVE  offers' = offers
    BY <2>2, Zenon DEF Run, Ask, LookForPool, TakeLock, SetUpPool, GivePool,
       LookAtLatch, Execute, Fetch, Lost, ReadPool, ClearPool, ClosePool
  <2>3. CASE \/ \E t \in Thread : CreatePoolFails(t) \/ Trouble(t)
             \/ Drop \/ PasswordChanges \/ UNCHANGED vars
    <3>1. offers' = offers
      BY <2>3, Zenon DEF CreatePoolFails, Trouble, Drop, PasswordChanges, vars
    <3>2. QED
      BY <1>2, <3>1 DEF RefusedOncePerThread
  <2>4. QED
    BY <1>2, <2>1, <2>2, <2>3 DEF RefusedOncePerThread, Next
<1>3. Inv /\ [Next]_vars => Inv'
  BY <1>2, TypedStep, LatchStep
<1>4. Inv => RefusedOncePerThread
  OBVIOUS
<1>5. QED
  BY <1>1, <1>3, <1>4, PTL DEF Spec

\* A query is answered only when it ends, and with all rows in the sink.
Exact ==
  \A t \in Thread : /\ pc[t] # "idle" => answer[t] = "none"
                    /\ answer[t] = "rows" => sink[t] = Rows
                    /\ pc[t] = "fetch" => sink[t] + cursor[t] = Rows

LEMMA ExactStep ==
  ASSUME Typed, Exact, [Next]_vars
  PROVE  Exact'
<1>1. CASE UNCHANGED vars
  BY <1>1 DEF Typed, QueryTyped, Exact, vars, progress, trouble
<1>2. ASSUME NEW t \in Thread, Ask(t) PROVE Exact'
  BY <1>2, SessionConstants DEF Typed, QueryTyped, Exact, Ask, progress,
     trouble
<1>3. ASSUME NEW t \in Thread, LookForPool(t) PROVE Exact'
  BY <1>3, SessionConstants DEF Typed, QueryTyped, Exact, LookForPool, End,
     Goto, progress, trouble
<1>4. ASSUME NEW t \in Thread, TakeLock(t) PROVE Exact'
  BY <1>4, SessionConstants DEF Typed, QueryTyped, Exact, TakeLock, Goto,
     progress, trouble
<1>5. ASSUME NEW t \in Thread, SetUpPool(t) PROVE Exact'
  BY <1>5, SessionConstants DEF Typed, QueryTyped, Exact, SetUpPool, End,
     Goto, MakePool, Known, progress, trouble
<1>6. ASSUME NEW t \in Thread, CreatePoolFails(t) PROVE Exact'
  BY <1>6, SessionConstants DEF Typed, QueryTyped, Exact, CreatePoolFails,
     End, progress, trouble
<1>7. ASSUME NEW t \in Thread, GivePool(t) PROVE Exact'
  BY <1>7, SessionConstants DEF Typed, QueryTyped, Exact, GivePool, progress,
     trouble
<1>8. ASSUME NEW t \in Thread, LookAtLatch(t) PROVE Exact'
  BY <1>8, SessionConstants DEF Typed, QueryTyped, Exact, LookAtLatch, End,
     Goto, progress, trouble
<1>9. ASSUME NEW t \in Thread, Acquire(t) PROVE Exact'
  BY <1>9, SessionConstants DEF Typed, QueryTyped, Exact, Acquire, End,
     GiveSession, progress, trouble
<1>10. ASSUME NEW t \in Thread, Trouble(t) PROVE Exact'
  BY <1>10, SessionConstants DEF Typed, QueryTyped, Exact, Trouble, End,
     Holding, progress, trouble
<1>11. ASSUME NEW t \in Thread, Execute(t) PROVE Exact'
  BY <1>11, SessionConstants DEF Typed, QueryTyped, Exact, Execute, progress,
     trouble
<1>12. ASSUME NEW t \in Thread, Fetch(t) PROVE Exact'
  BY <1>12, SessionConstants DEF Typed, QueryTyped, Exact, Fetch, End,
     progress, trouble
<1>13. ASSUME NEW t \in Thread, Lost(t) PROVE Exact'
  BY <1>13, SessionConstants DEF Typed, QueryTyped, Exact, Lost, End, Holding,
     progress, trouble
<1>14. ASSUME NEW t \in Thread, ReadPool(t) PROVE Exact'
  BY <1>14, SessionConstants DEF Typed, QueryTyped, Exact, ReadPool, progress,
     trouble
<1>15. ASSUME NEW t \in Thread, ClearPool(t) PROVE Exact'
  BY <1>15, SessionConstants DEF Typed, QueryTyped, Exact, ClearPool,
     progress, trouble
<1>16. ASSUME NEW t \in Thread, ClosePool(t) PROVE Exact'
  BY <1>16, SessionConstants DEF Typed, QueryTyped, Exact, ClosePool, Using,
     progress, trouble
<1>17. CASE Drop
  BY <1>17, SessionConstants DEF Typed, QueryTyped, Exact, Drop, Holding,
     progress, trouble
<1>18. CASE PasswordChanges
  BY <1>18, SessionConstants DEF Typed, QueryTyped, Exact, PasswordChanges,
     progress, trouble
<1>19. QED
  BY <1>1, <1>2, <1>3, <1>4, <1>5, <1>6, <1>7, <1>8, <1>9, <1>10, <1>11,
     <1>12, <1>13, <1>14, <1>15, <1>16, <1>17, <1>18 DEF Next, Run

\* A stream that succeeds has written every row once, whichever attempt it was.
THEOREM StreamsExact == Spec => []StreamExact
<1>1. Init => Typed /\ Exact
  BY TypedInit DEF Init, Exact
<1>2. Typed /\ Exact /\ [Next]_vars => (Typed /\ Exact)'
  BY TypedStep, ExactStep
<1>3. Exact => StreamExact
  BY DEF Exact, StreamExact
<1>4. QED
  BY <1>1, <1>2, <1>3, PTL DEF Spec

\* Why a retry is fresh: a pool that was cleared is never current again, so
\* neither what is about to be closed nor what a retry follows is.
Fresh ==
  /\ pool # None => pool \in open
  /\ \A t \in Thread :
       /\ pc[t] = "close" /\ mine[t] # None => mine[t] # pool
       /\ died[t] # None /\ (attempt[t] = 2 \/ pc[t] = "close") =>
            pool # died[t]
       /\ Using(t) /\ attempt[t] = 2 /\ died[t] # None => mine[t] # died[t]

LEMMA FreshStep ==
  ASSUME Typed, Fresh, [Next]_vars
  PROVE  Fresh'
<1>1. CASE UNCHANGED vars
  BY <1>1 DEF Typed, QueryTyped, Fresh, Using, vars, progress, trouble
<1>2. ASSUME NEW t \in Thread, Ask(t) PROVE Fresh'
  BY <1>2, SessionConstants DEF Typed, QueryTyped, Fresh, Using, Ask,
     progress, trouble
<1>3. ASSUME NEW t \in Thread, LookForPool(t) PROVE Fresh'
  BY <1>3, SessionConstants DEF Typed, QueryTyped, Fresh, Using, LookForPool,
     End, Goto, progress, trouble
<1>4. ASSUME NEW t \in Thread, TakeLock(t) PROVE Fresh'
  BY <1>4, SessionConstants DEF Typed, QueryTyped, Fresh, Using, TakeLock,
     Goto, progress, trouble
<1>5. ASSUME NEW t \in Thread, SetUpPool(t) PROVE Fresh'
  BY <1>5, SessionConstants DEF Typed, QueryTyped, Fresh, Using, SetUpPool,
     End, Goto, MakePool, Known, progress, trouble
<1>6. ASSUME NEW t \in Thread, CreatePoolFails(t) PROVE Fresh'
  BY <1>6, SessionConstants DEF Typed, QueryTyped, Fresh, Using,
     CreatePoolFails, End, progress, trouble
<1>7. ASSUME NEW t \in Thread, GivePool(t) PROVE Fresh'
  BY <1>7, SessionConstants DEF Typed, QueryTyped, Fresh, Using, GivePool,
     progress, trouble
<1>8. ASSUME NEW t \in Thread, LookAtLatch(t) PROVE Fresh'
  BY <1>8, SessionConstants DEF Typed, QueryTyped, Fresh, Using, LookAtLatch,
     End, Goto, progress, trouble
<1>9. ASSUME NEW t \in Thread, Acquire(t) PROVE Fresh'
  BY <1>9, SessionConstants DEF Typed, QueryTyped, Fresh, Using, Acquire, End,
     GiveSession, progress, trouble
<1>10. ASSUME NEW t \in Thread, Trouble(t) PROVE Fresh'
  BY <1>10, SessionConstants DEF Typed, QueryTyped, Fresh, Using, Trouble,
     End, Holding, progress, trouble
<1>11. ASSUME NEW t \in Thread, Execute(t) PROVE Fresh'
  BY <1>11, SessionConstants DEF Typed, QueryTyped, Fresh, Using, Execute,
     progress, trouble
<1>12. ASSUME NEW t \in Thread, Fetch(t) PROVE Fresh'
  BY <1>12, SessionConstants DEF Typed, QueryTyped, Fresh, Using, Fetch, End,
     progress, trouble
<1>13. ASSUME NEW t \in Thread, Lost(t) PROVE Fresh'
  BY <1>13, SessionConstants DEF Typed, QueryTyped, Fresh, Using, Lost, End,
     Holding, progress, trouble
<1>14. ASSUME NEW t \in Thread, ReadPool(t) PROVE Fresh'
  BY <1>14, SessionConstants DEF Typed, QueryTyped, Fresh, Using, ReadPool,
     progress, trouble
<1>15. ASSUME NEW t \in Thread, ClearPool(t) PROVE Fresh'
  BY <1>15, SessionConstants DEF Typed, QueryTyped, Fresh, Using, ClearPool,
     progress, trouble
<1>16. ASSUME NEW t \in Thread, ClosePool(t) PROVE Fresh'
  BY <1>16, SessionConstants DEF Typed, QueryTyped, Fresh, Using, ClosePool,
     progress, trouble
<1>17. CASE Drop
  BY <1>17, SessionConstants DEF Typed, QueryTyped, Fresh, Using, Drop,
     Holding, progress, trouble
<1>18. CASE PasswordChanges
  BY <1>18, SessionConstants DEF Typed, QueryTyped, Fresh, Using,
     PasswordChanges, progress, trouble
<1>19. QED
  BY <1>1, <1>2, <1>3, <1>4, <1>5, <1>6, <1>7, <1>8, <1>9, <1>10, <1>11,
     <1>12, <1>13, <1>14, <1>15, <1>16, <1>17, <1>18 DEF Next, Run

\* Discarding without the lock never hands out a closed pool, nor, for the
\* second attempt, the pool whose session died.
THEOREM FreshRetries == Spec => []RetryIsFresh
<1>1. Init => Typed /\ Fresh
  BY TypedInit, SessionConstants DEF Init, Fresh, Using
<1>2. Typed /\ Fresh /\ [Next]_vars => (Typed /\ Fresh)'
  BY TypedStep, FreshStep
<1>3. Fresh => RetryIsFresh
  BY DEF Fresh, RetryIsFresh
<1>4. QED
  BY <1>1, <1>2, <1>3, PTL DEF Spec

\* Why a query failed: each attempt that lost its session was hit by a drop of
\* its own, or another thread took the pool away, which is also the only way
\* in which its pool can be closed or missing.
Cause ==
  \A t \in Thread :
    /\ pc[t] # "idle" => harm[t] >= attempt[t] - 1
    /\ Holding(t) /\ ~alive[t] => harm[t] >= attempt[t]
    /\ pc[t] \in {"discard", "clear", "close"} => harm[t] >= 1
    /\ pc[t] = "give" /\ pool = None => harm[t] = 2
    /\ Using(t) /\ mine[t] \notin open => harm[t] = 2
    /\ answer[t] = "failed" => harm[t] = 2

LEMMA CauseStep ==
  ASSUME Typed, Fresh, Cause, [Next]_vars
  PROVE  Cause'
<1>1. CASE UNCHANGED vars
  BY <1>1 DEF Typed, QueryTyped, Cause, Using, Holding, vars, progress,
     trouble
<1>2. ASSUME NEW t \in Thread, Ask(t) PROVE Cause'
  BY <1>2, SessionConstants DEF Typed, QueryTyped, Cause, Using, Holding, Ask,
     progress, trouble
<1>3. ASSUME NEW t \in Thread, LookForPool(t) PROVE Cause'
  BY <1>3, SessionConstants DEF Typed, QueryTyped, Cause, Using, Holding,
     LookForPool, End, Goto, progress, trouble
<1>4. ASSUME NEW t \in Thread, TakeLock(t) PROVE Cause'
  BY <1>4, SessionConstants DEF Typed, QueryTyped, Cause, Using, Holding,
     TakeLock, Goto, progress, trouble
<1>5. ASSUME NEW t \in Thread, SetUpPool(t) PROVE Cause'
  BY <1>5, SessionConstants DEF Typed, QueryTyped, Cause, Using, Holding,
     SetUpPool, End, Goto, MakePool, Known, progress, trouble
<1>6. ASSUME NEW t \in Thread, CreatePoolFails(t) PROVE Cause'
  BY <1>6, SessionConstants DEF Typed, QueryTyped, Cause, Using, Holding,
     CreatePoolFails, End, progress, trouble
<1>7. ASSUME NEW t \in Thread, GivePool(t) PROVE Cause'
  BY <1>7, SessionConstants DEF Typed, QueryTyped, Fresh, Cause, Using,
     Holding, GivePool, progress, trouble
<1>8. ASSUME NEW t \in Thread, LookAtLatch(t) PROVE Cause'
  BY <1>8, SessionConstants DEF Typed, QueryTyped, Cause, Using, Holding,
     LookAtLatch, End, Goto, progress, trouble
<1>9. ASSUME NEW t \in Thread, Acquire(t) PROVE Cause'
  BY <1>9, SessionConstants DEF Typed, QueryTyped, Cause, Using, Holding,
     Acquire, End, GiveSession, progress, trouble
<1>10. ASSUME NEW t \in Thread, Trouble(t) PROVE Cause'
  BY <1>10, SessionConstants DEF Typed, QueryTyped, Cause, Using, Holding,
     Trouble, End, progress, trouble
<1>11. ASSUME NEW t \in Thread, Execute(t) PROVE Cause'
  BY <1>11, SessionConstants DEF Typed, QueryTyped, Cause, Using, Holding,
     Execute, progress, trouble
<1>12. ASSUME NEW t \in Thread, Fetch(t) PROVE Cause'
  BY <1>12, SessionConstants DEF Typed, QueryTyped, Cause, Using, Holding,
     Fetch, End, progress, trouble
<1>13. ASSUME NEW t \in Thread, Lost(t) PROVE Cause'
  BY <1>13, SessionConstants DEF Typed, QueryTyped, Cause, Using, Holding,
     Lost, End, progress, trouble
<1>14. ASSUME NEW t \in Thread, ReadPool(t) PROVE Cause'
  BY <1>14, SessionConstants DEF Typed, QueryTyped, Cause, Using, Holding,
     ReadPool, progress, trouble
<1>15. ASSUME NEW t \in Thread, ClearPool(t) PROVE Cause'
  BY <1>15, SessionConstants DEF Typed, QueryTyped, Cause, Using, Holding,
     ClearPool, progress, trouble
<1>16. ASSUME NEW t \in Thread, ClosePool(t) PROVE Cause'
  BY <1>16, SessionConstants DEF Typed, QueryTyped, Cause, Using, Holding,
     ClosePool, progress, trouble
<1>17. CASE Drop
  BY <1>17, SessionConstants DEF Typed, QueryTyped, Cause, Using, Holding,
     Drop, progress, trouble
<1>18. CASE PasswordChanges
  BY <1>18, SessionConstants DEF Typed, QueryTyped, Cause, Using, Holding,
     PasswordChanges, progress, trouble
<1>19. QED
  BY <1>1, <1>2, <1>3, <1>4, <1>5, <1>6, <1>7, <1>8, <1>9, <1>10, <1>11,
     <1>12, <1>13, <1>14, <1>15, <1>16, <1>17, <1>18 DEF Next, Run

\* A query whose session died once is answered, unless its password is
\* refused, an error of another kind is raised, or another query takes the
\* pool away from under it.
THEOREM FailureHasCause == Spec => []FailsForCause
<1>1. Init => Typed /\ Fresh /\ Cause
  BY TypedInit, SessionConstants DEF Init, Fresh, Cause, Using, Holding
<1>2. Typed /\ Fresh /\ Cause /\ [Next]_vars => (Typed /\ Fresh /\ Cause)'
  BY TypedStep, FreshStep, CauseStep
<1>3. Cause => FailsForCause
  BY DEF Cause, FailsForCause
<1>4. QED
  BY <1>1, <1>2, <1>3, PTL DEF Spec
=============================================================================
