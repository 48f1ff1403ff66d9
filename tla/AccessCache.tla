----------------------------- MODULE AccessCache -----------------------------
(***************************************************************************)
(* pstb/security.py, RowSecurity: what a person may see is read from the    *)
(* database and remembered for a while.  Lookups of one person overlap, may *)
(* be overtaken by an invalidation, and may end in any order; only the      *)
(* lookup that began last may fill the cache.  What the database grants is  *)
(* told by a version that goes up with every change.  A lookup reads the    *)
(* grants with one statement, or the person's classes and then the units of *)
(* those: its version is that of the first, the second is no older.         *)
(***************************************************************************)
EXTENDS Integers

CONSTANTS
  Users,
  Callers,     \* threads that may resolve a person's access at once
  Ttl,         \* ACCESS_TTL_SECONDS
  MaxTime, MaxGrants, MaxAttempts, MaxInvalidations  \* bounds of a run

ASSUME AccessConstants ==
  /\ Ttl \in Nat \ {0}
  /\ MaxTime \in Nat /\ MaxGrants \in Nat
  /\ MaxAttempts \in Nat /\ MaxInvalidations \in Nat

NoVersion == -1  \* no version: nothing cached, or nothing read

VARIABLES
  now,
  grants,     \* by user: the version the database holds
  since,      \* ghost: when it came to hold it
  cache,      \* _cache: [version, expires]
  cacheGeneration,
  sequence,   \* _access_attempt_sequence
  latest,     \* _latest_access_attempt, 0 where there is none
  calls,      \* by caller: its lookup
  newest,     \* ghost: the newest version ever cached
  floor       \* ghost: the version at the last invalidation

world == <<now, grants, since>>
accessVars ==
  <<world, cache, cacheGeneration, sequence, latest, calls, newest, floor>>

Empty == [version |-> NoVersion, expires |-> 0]

\* A lookup that nobody makes has attempt 0.
NoCall(u) ==
  [user |-> u, start |-> 0, generation |-> 0, attempt |-> 0, read |-> NoVersion]

Versions == {NoVersion} \cup Nat

AccessTypeOK ==
  /\ now \in Nat
  /\ grants \in [Users -> Nat] /\ since \in [Users -> Nat]
  /\ cache \in [Users -> [version : Versions, expires : Int]]
  /\ cacheGeneration \in Nat /\ sequence \in Nat
  /\ latest \in [Users -> Nat]
  /\ calls \in [Callers -> [user : Users, start : Nat, generation : Nat,
                            attempt : Nat, read : Versions]]
  /\ newest \in [Users -> Versions] /\ floor \in [Users -> Nat]

AccessInit ==
  /\ now = 0
  /\ grants = [u \in Users |-> 0] /\ since = [u \in Users |-> 0]
  /\ cache = [u \in Users |-> Empty]
  /\ cacheGeneration = 0 /\ sequence = 0
  /\ latest = [u \in Users |-> 0]
  /\ calls \in [Callers -> {NoCall(u) : u \in Users}]
  /\ newest = [u \in Users |-> NoVersion] /\ floor = [u \in Users |-> 0]

\* What access_for answers from the cache.
Remembered(u) == cache[u].version # NoVersion /\ now < cache[u].expires

-----------------------------------------------------------------------------
\* access_for without a hit, up to the query
Begin(c, u) ==
  /\ calls[c].attempt = 0 /\ ~Remembered(u) /\ sequence < MaxAttempts
  /\ sequence' = sequence + 1
  /\ latest' = [latest EXCEPT ![u] = sequence + 1]
  /\ calls' = [calls EXCEPT ![c] =
       [user |-> u, start |-> now, generation |-> cacheGeneration,
        attempt |-> sequence + 1, read |-> NoVersion]]
  /\ UNCHANGED <<world, cache, cacheGeneration, newest, floor>>

\* _resolve: the first query sees what is granted at this moment.
Read(c) ==
  /\ calls[c].attempt # 0 /\ calls[c].read = NoVersion
  /\ calls' = [calls EXCEPT ![c].read = grants[calls[c].user]]
  /\ UNCHANGED <<world, cache, cacheGeneration, sequence, latest, newest,
                 floor>>

\* mutant of MayPublish: any lookup of this generation fills the cache
MayPublishAny(c) == calls[c].generation = cacheGeneration

\* mutant of Until: it counts from the end of the lookup
UntilFromEnd(c) == now + Ttl

MayPublish(c) ==
  /\ calls[c].generation = cacheGeneration
  /\ latest[calls[c].user] = calls[c].attempt

Until(c) == calls[c].start + Ttl

\* Whoever began last takes itself off the register.
Settled(c) ==
  [latest EXCEPT ![calls[c].user] = IF @ = calls[c].attempt THEN 0 ELSE @]

\* The lookup ends with an answer.
Return(c) ==
  /\ calls[c].read # NoVersion
  /\ LET u == calls[c].user
         v == calls[c].read
     IN IF MayPublish(c)
        THEN /\ cache' = [cache EXCEPT ![u] = [version |-> v, expires |-> Until(c)]]
             /\ newest' = [newest EXCEPT ![u] = IF v > @ THEN v ELSE @]
        ELSE UNCHANGED <<cache, newest>>
  /\ latest' = Settled(c)
  /\ calls' = [calls EXCEPT ![c] = NoCall(@.user)]
  /\ UNCHANGED <<world, cacheGeneration, sequence, floor>>

\* It raises, or answers "unavailable", which is not cached.
Fail(c) ==
  /\ calls[c].attempt # 0
  /\ latest' = Settled(c)
  /\ calls' = [calls EXCEPT ![c] = NoCall(@.user)]
  /\ UNCHANGED <<world, cache, cacheGeneration, sequence, newest, floor>>

\* invalidate(oprid) for one person, invalidate() for all
Invalidate(who) ==
  /\ cacheGeneration < MaxInvalidations
  /\ cacheGeneration' = cacheGeneration + 1
  /\ latest' = [u \in Users |-> 0]
  /\ cache' = [u \in Users |-> IF u \in who THEN Empty ELSE cache[u]]
  /\ floor' = [u \in Users |-> IF u \in who THEN grants[u] ELSE floor[u]]
  /\ UNCHANGED <<world, sequence, calls, newest>>

\* external: an administrator changes what u is granted
Change(u) ==
  /\ grants[u] < MaxGrants
  /\ grants' = [grants EXCEPT ![u] = @ + 1]
  /\ since' = [since EXCEPT ![u] = now]
  /\ UNCHANGED <<now, cache, cacheGeneration, sequence, latest, calls, newest,
                 floor>>

Tick ==
  /\ now < MaxTime /\ now' = now + 1
  /\ UNCHANGED <<grants, since, cache, cacheGeneration, sequence, latest, calls,
                 newest, floor>>

AccessNext ==
  \/ \E c \in Callers :
       \/ \E u \in Users : Begin(c, u)
       \/ Read(c) \/ Return(c) \/ Fail(c)
  \/ \E u \in Users : Invalidate({u}) \/ Change(u)
  \/ Invalidate(Users)
  \/ Tick

AccessSpec == AccessInit /\ [][AccessNext]_accessVars

-----------------------------------------------------------------------------
(* Properties. *)

\* A change of what a person may see takes hold after at most Ttl, however
\* long the lookup took that read the version before it.
ChangeTakesHold ==
  \A u \in Users :
    Remembered(u) /\ now >= since[u] + Ttl => cache[u].version = grants[u]

\* The cache never goes back to an older version, in whatever order the
\* lookups of one person end.
NeverOlder ==
  \A u \in Users : cache[u].version # NoVersion => cache[u].version = newest[u]

\* What was read before an invalidation is never remembered after it.
InvalidationHolds ==
  \A u \in Users : cache[u].version # NoVersion => cache[u].version >= floor[u]
=============================================================================
