# Verification of pstb

TLA+ models of the stateful parts of `pstb`, the PeopleSoft trial-balance
agent, with the TLC configurations that check them and TLAPS proofs about
them. Everything is written from the source (`src/pstb/...`); docs, comments
and tests are quoted where a property says what they promise.

Contents: [the system](#the-system) · [the modules](#the-modules) · [the
runs](#the-runs) · [fairness](#fairness) · [what is proved](#what-is-proved) ·
[known divergences](#known-divergences) · [not modelled](#not-modelled) ·
[plan](#plan)

To run: `tlc -workers 2 -config X.cfg MCX.tla`, `tlapm X_proofs.tla`.

## The system

`pstb` answers accounting questions over a PeopleSoft database. A language
model picks tools; every figure comes from read-only queries. Most of the code
is query text and arithmetic on the rows that come back. What keeps state
between calls, and what makes it hard:

| component (source) | state | operations | interacts with | hard behaviour |
|---|---|---|---|---|
| workflow store (`workflows.py`) | a checkpoint file and a lock file per workflow | `start`, `run_next`, `review`, `get` | playbooks; CLI and screens in other processes | processes killed between two steps, stale locks, leases, two reviewers |
| ticker store (`ticker.py`) | SQLite rows, acknowledgments and events per source; an archive when the endpoint changes | `record_tick`, `record_ack`, `read_feed` | runner, feed screens, configuration reload | crash between archive and commit, reload during a tick, operators acknowledging what they saw earlier |
| ticker runner (`ticker.py`, `gui/app.py`) | loop state, one breaker per source | `start`, `_loop`, `_tick`, `status_for` | ticker store, configuration | sources failing one by one, refused credentials, switch-off in mid-pass, a broken store |
| database connections (`db.py`) | Oracle session pool, credential latch | `query`, `stream_query`, `_discard_session` | every thread of the program | pool discarded under other threads' queries, retries that replay half a stream, account lock-out |
| chat conversations (`gui/app.py`) | activity slots, provider registry with a lock per conversation, follow-ups | `/api/chat`, `/api/chat/reset`, `/api/activity` | agent turn, browser | several questions of one tab, abandoned turns, queue timeout, Clear against running turns, eviction |
| agent turn, Claude transcript (`client/chat.py`, `client/llm_claude.py`, `guards.py`) | transcript, budgets, evidence and payloads of a turn; payloads kept for later turns | `agent_turn`, `send_user`, `send_tool_results` | model provider, tools, conversations | calls left open when a turn stops, batches whose calls depend on one another, echoes that look like evidence, endless repairs |
| scope catalog (`gui/app.py`) | one cached catalog with a generation and a refresh flag; a file per database | request, forced rebuild, background refresh, boot prime, reload | engine, console | builds and refreshes that end out of order, reload during any of them, a write cut off |
| row-security cache (`security.py`) | grants by person, generation and attempt counters | `access_for`, `invalidate` | database | an older lookup that ends last, a slow one |
| batch exports (`batch_export.py`) | job table, files, worker pool, janitor | `submit`, `_run`, `status`, `file`, `cleanup`, `close` | engine, downloads | expiry at the moment of a download, shutdown, crash, a full queue |
| source knowledge (`source_knowledge.py`) | one SQLite file of proposals a source, a lock file; the vetoes a process remembers | `propose`, `decide`, `revoke`, `for_source` | metadata search, console, every query | writers in several processes, failed and half-reported writes, a file replaced between stat and read |
| site memory (`memory.py`) | facts in one file | propose, approve | console | two editors |
| metadata catalog and graphs (`metadata.py`, `graph.py`, `procgraph.py`, `entitygraph.py`) | derived SQLite artifacts replaced whole | build, look up | database | readers during a rebuild |
| question log (`qlog.py`) | append-only file, rotated, with indexes in memory | `log_turn`, `log_feedback`, `log_review` | agent turn | rotation between a turn and what is said of it |
| settings console (`gui/console.py`, `settings.py`) | `config.yaml`, `.env` | validate, write, reload | everything | reload under requests in flight |
| engine, AR, controls, playbooks, connectors, wiki | none, or a small cache | queries and arithmetic | database, HTTP services | boundaries of periods and buckets, partial results |

How a question flows: the browser posts to `/api/chat`; the handler claims the
tab's activity slot, gets a conversation from the registry, waits for its lock
and runs `agent_turn`, whose tool calls go through the shared MCP session to
the engine, and from there, past the vetoes of the source knowledge and the
grants of the person, through `Database.query` on some thread. Apart from that,
the ticker's loop runs checks through the same engine and databases, the
workflow store runs playbooks from any process, and a console reload swaps the
engine and the configuration under all of them: it is an action of
`TickerStore`, `TickerRunner` and `ScopeCatalog`.

What makes each correct:

- **Workflow store**: phases run in order, under one lease at a time, and a
  human decides between any two; a decision applies to what its user was
  shown; a superseded execution never overwrites a result.
- **Ticker store**: an acknowledgment silences one episode of one state; the
  feed never mixes databases; "worsened" compares like with like.
- **Runner**: a dead source stops being asked and says so; one dead source
  does not stop the others; an endpoint that refused the credentials is not
  offered them again while its source is not asked at another; off means off.
- **Connections**: no account is locked by the program, a retry duplicates
  nothing, queries fail only for a reason, and every query comes back.
- **Conversations**: one question at a time, nobody grounded on another's
  figures, Clear means clear, nobody waits forever.
- **Agent turn**: the provider never refuses the transcript, a text rests on
  this question's own evidence, only tools ground figures, every turn ends.
- **Scope catalog**: a catalog is of the database it stands for, one thread
  refreshes it, what was verified stays.
- **Row-security cache**: a changed grant takes hold in time, the cache never
  goes back.
- **Batch exports**: a file stays while it is downloaded and goes afterwards,
  jobs end, nothing is orphaned.
- **Source knowledge**: decisions never move backward, what was acknowledged
  stays, the next query sees it, nobody waits forever for the lock.

## The modules

### ReviewProtocol, WorkflowStore (`workflows.py`)

`ReviewProtocol` is what the store promises with no files in sight: an ordered
list of phases, numbered grants, a result only through the current grant, a
decision between two phases. `WorkflowStore` is the code: `pc` follows each
process through acquiring the lock file (`TakeLock`, `LockBusy`, `FindStale`,
`BreakLock`), reading the checkpoint, writing a claim, a result or a decision,
and unlinking. A playbook runs with no lock held. A process can be killed
anywhere; an unlink or a checkpoint write can raise. `token` stands for
`execution_token` and `lease_expires_at`, which the code sets and pops
together; time is two facts: a lock file is older than 120 seconds
(`lockStale`), a lease has run out (`expired`). Clocks only move these forward.
`Protocol == INSTANCE ReviewProtocol WITH ...` maps the checkpoint to the
protocol.

### TickerStore (`ticker.py`)

One action per step of a tick: resolve the engine, resolve the configuration,
measure, open the store (archive and start fresh on another endpoint), commit
rows and events, and per operator action: read the feed, acknowledge. The
differ (`_diff_one`) is one operator with the code's order of cases. Counts are
one metric, fingerprints are the fields they hash, the clock is readings that
differ. Any measurement may come without a period. A check that fails brings
nothing, or counts of its own (`FailingAnswers`: an integrity check that was
answered with an empty scope or with a status the ticker does not know).
`measured` and `since` are history: the last real measurement of a check, and
what happened to it since it was acknowledged.

### TickerRunner (`ticker.py`, `gui/app.py`)

The loop: a pass resolves the configuration once, runs each due segment under
its own breaker (`Health`), and reconciles the runner's state. Of the store the
model has which of a segment's two writes it takes, the tick and the event
(`Writes`); of the checks, whether all failed and whether one met refused
credentials (`Results`), so that passes mix failures, measurements and checks
that were cut. An endpoint's fingerprint is a number; `Fix` sets any other one,
an earlier one too, and a pass goes on with the one it resolved. Time is what has
passed since an extra's last tick, `Beat` at a time, and a cadence need not be a
multiple of it. `LimitsMayBreak` lets a reload adopt budgets out of bounds.
`notes`, `lost`, `refused` and `barren` are history: events written since the
breaker is new, a write refused as the source fell silent, the endpoint that
refused the credentials last, and fruitless passes in a row.

### OracleSessions (`db.py`)

Threads through `stream_query`: look for the pool, take the set-up lock, make
the pool, read it once more to return it, look at the latch, acquire, execute,
fetch, discard and retry. A discard is three steps without a lock, as in the
code: read the attribute (`ReadPool`), set it to None (`ClearPool`), close what
was read (`ClosePool`); in between another thread may make a pool, so that two
serve at once, and of two discards one may clear a pool that neither closes.
`CreatePoolFails` and `Trouble` are the errors that are neither a refused
password nor a lost session: of `create_pool`, `acquire`, `execute` and the
sink. Making a pool does not log on (the driver's thin mode starts with none or
few sessions, in the background); acquiring a session may. The pool library and
the network are external: sessions of a pool, drops of the network, password
changes. A pool that nobody refers to any more is forgotten. `harm` and `died`
are history: what hit a query, and the pool its first session died in. `query`
is `stream_query` into a list.

### Conversations (`gui/app.py`)

Questions through `/api/chat` and presses of Clear. The event loop runs a
handler between two awaits without interruption, and so does an action: `Join`
is `get_or_create` with its purge and eviction, the abandoned check and the
entry into the lock's queue. An asyncio lock that is released is not taken
until the woken waiter runs, so `Finish` and `Start` are two steps, and a
timeout may come between. A slot and a conversation are objects that outlive
their place in the table, so each is named by the question that made it; of a
slot the model has whether it is active. The key of a conversation has the
person only where row security yields one (`Key`, `NoAccess`). Of a running
turn the model has the payloads it leaves. How long a question runs is not
modelled: any running one may look abandoned. An entry may be past its TTL unless somebody waits for it (it was touched less
than `_QUEUE_WAIT` ago; 45 against 1800 seconds).

### ClaudeTranscript, AgentTurn (`client/llm_claude.py`, `client/chat.py`, `guards.py`)

`ClaudeTranscript` is the list of messages a provider replays, as operators:
what each `send_` appends, how open calls are closed before the next user
message, and what the API accepts. `AgentTurn` drives it: `BeginTurn`, the model's
answer (`Respond`, `Decline`, `RequestFails`), then round by round a nudge, a
batch (`RunDatabases`, then `RunWikis`) or the gates. The model answers as it
likes; a tool succeeds or fails and brings figures and, if it is a control,
domains; a call that is blocked before it runs (row security, a missing
reference, another source's scope) is one that fails. Every call that succeeds
leaves a payload with a number, as all tools of `server.py` return objects, which
get a `result_id`. A figure stands for any amount. `stage` is where the turn is,
`turnPayloads` and `priorPayloads` are what the number guard compares with, and
`evidence` holds the flags of the loop as a phase leaves them, its calls recorded
in the order of the batch (`Recorded`). `found` and `produced` are history: what
this turn's tools really brought, and every figure any tool of the conversation
ever returned. Calls of a phase overlap in the code, but all start before any is
recorded and they are recorded in order: a phase is one step. A technical
question is gated like a general one, so the run has only the latter. The
transcript is cut to its last `Window` messages: for TLC's sake, since the proofs
hold for every window.

### ScopeCatalog (`gui/app.py`)

Requests that serve, build or force a catalog, refresh threads, the boot's
thread, reloads, and restarts from the file on disk. `served` lists the
databases of this process's life, so that a build's captured generation says
which database it reads; what a build brings is its database and whether it
was verified. Threads are counted by the generation they captured. The file is
overwritten in place, so a crash or a failing write may leave one that cannot be
parsed. `readable` says whether the files can be read at the moment; one that
cannot is taken for none, by the boot and by the check that keeps a verified
file from being overwritten.

### AccessCache (`security.py`)

The lookups of `access_for`, from the miss to the end, with the database's
grant told by a version. `Read` is apart from `Begin` and `Return`, so a grant
may change, an invalidation may come and another lookup may overtake at any
moment. Time is a counter, because an entry lives from the *start* of its
lookup. Where row security goes by classes a lookup is two statements; the
version is then that of the first, which is the older one.

### BatchExports (`batch_export.py`)

The job table under its lock, the pool's queue, worker steps (`Start`,
`Produce`, `Rename`, `Ready`, `Fail`), requests and the janitor, which take
expired jobs out under the lock and delete files after it, `close()` in its two
steps, and a crash that leaves only files. Wherever the code deletes files and
swallows the error (`_delete`, `_remove_orphans`, the end of `_run`), `Unlink`
may leave any of them. Times are what is left of them; `held` and `refused` are
history: how long a file that was handed out was promised to stay, and which
files are there because deleting them failed.

### ProposalReview, SourceKnowledge (`source_knowledge.py`)

`ProposalReview` is the promise: a proposal is decided once, an approval may be
revoked, limits hold. `SourceKnowledge` is the code: a writer waits for the
lock file, opens (which copies the file, or fails: the file is unreadable,
there is no room for the copy, the directory was replaced), creates an empty
store if there is none, applies its change to the copy, persists the copy in
place of the file and closes. `Persist` may fail before or after the file was
replaced; a writer may be killed anywhere, and the operating system gives its
lock back. An asker is `SourceExclusionIndex.for_source`: stat, look at what is
remembered, read, remember. `told` is history: the last outcome a caller was
told. `Review == INSTANCE ProposalReview` maps the file's decisions to the
protocol's. The file's signature (device, inode, time, size) is a number, as if
no two files had the same.

MC modules add model values and small sets, and for the workflow store a
symmetry on processes and on scopes (sound there: nothing but the sets mentions
them, and the run checks no liveness).

## The runs

| run | configuration | bounds | shows |
|---|---|---|---|
| `workflow_safety` | `WorkflowStore.cfg` | 2 processes, 2 phases, 2 scopes, 3 claims, revision 7, 1 crash, I/O errors | one live execution, one scope, no lost update, decisions on what was shown, refinement of `ReviewProtocol` |
| `workflow_break_race` | `WorkflowBreakRace.cfg` | two callers may break the same stale lock | `NoConcurrentControl` is violated |
| `ticker_store` | `TickerStore.cfg` | 1 check, 2 endpoints, 3 counts, a known and an unknown period, failures with counts, 3 clock readings, 1 fault | acknowledgments cover one episode, the feed is of one endpoint, comparisons are of like with like |
| `runner_safety` | `RunnerSafety.cfg` | a default source and an extra, 2 endpoints each, trip at 2, a cadence of 3 at a beat of 2, 1 restart, any writes refused | dead databases trip, silence is disclosed once or its store refused, refused credentials are not asked again at the endpoint that refused them |
| `runner_turns` | `RunnerTurns.cfg` | the same with the extra's endpoint changing, budgets out of bounds, no restart | everyone gets turns, a fix is seen while the loop lives |
| `oracle_sessions` | `OracleSessions.cfg` | 2 threads, 2 pools of 1 session, 1 row, 2 drops | credentials refused once a thread, streams exact, retries on a fresh pool, failures have causes, every query returns |
| `conversations` | `Conversations.cfg` | 2 questions out of 4 kinds (three people in one tab, one of them not known to row security, and another tab), 1 Clear, registry and activity table of 1 | one question at a time, no other person's figures, fresh after Clear, nobody waits forever |
| `agent_turn` | `AgentTurn.cfg` | 2 questions of 6 kinds, 2 rounds, 1 nudge, batches of up to 2 calls, 1 figure, 1 strict domain, 2 payloads kept | no call stays open, a text rests on this turn's evidence, only tools ground figures, every turn ends |
| `scope_catalog` | `ScopeCatalog.cfg` | 2 databases, 2 requests, 1 reload in each life of the process, restarts also inside a write, failing writes and reads | a catalog is of its database, one refresh, a verified file stays, the refresh flag is cleared |
| `access_cache` | `AccessCache.cfg` | 2 people, 2 callers, cache time 2, clock 3, 1 change each, 3 lookups, 1 invalidation | a change takes hold in time, the cache never goes back |
| `batch_exports` | `BatchExports.cfg` | 2 jobs, 1 request and the janitor, 1 worker, queue of 2, expiry 2, hold 1, crashes, refused deletions | a file stays while it is downloaded, none is forgotten, every job ends, files go unless deleting them was refused |
| `source_knowledge` | `SourceKnowledge.cfg` | 2 proposals (a veto, a pointer), 2 writers, 1 asker, limits of 1 | acknowledged decisions stay, the next call sees them, refinement of `ProposalReview`, every writer comes back |

Each property of a passing run is broken by a bug planted in one definition
(`mutants` in `PROJECT.json`); the mutated forms stand beside the definitions
they mutate.

Why the bounds are enough to mean something. *Workflow store*: two processes
are enough for every race, because each step reads only the lock file and the
checkpoint; three claims allow a lapse, a takeover and a rerun in one
behaviour; seven revisions finish both phases, or rerun the first and run the
second. *Ticker store*: checks meet only in the file that is archived and
committed as a whole. An acknowledgment does not *expire* inside the bound of
the clock (the proofs hold for every `AckTtl`). *Runner*: two endpoints bring a
source from one to the other and back; a cadence that is no multiple of the
beat falls due between two passes. *Oracle*: two drops are the least that make
a retry fail; two pools are the least with which one serves while another is
closed. *Conversations*: two questions and a Clear queue on one conversation in
every order, and with tables of one entry each makes the other's be evicted;
the moment between a release and the woken question's next run cannot be used
by a third question in this instance. *Agent turn*: the second question meets
whatever the first one left (open calls, payloads, echoes of withheld
questions); a third adds no new kind of leftover. Two rounds and one nudge
reach each limit, and both in one turn. *Scope catalog*: a reload may change
the database or serve the same one again, under another generation, and every
restart allows another; the proofs cover any number. *Row security*: three
lookups are the least in which one is overtaken twice. *Exports*: with a hold
shorter than the expiry, and both above zero, every order of expiry, download
and deletion is there. *Source knowledge*: limits of one make the second
proposal meet a full store; the proofs cover the others.

`CHECK_DEADLOCK FALSE` is set where behaviours really end: all claims and
revisions used (workflow store), the clock at its bound (ticker store, row
security), all questions answered (conversations, agent turn).

## Fairness

- `TickerRunner`: weak fairness of the loop's own steps. It is one daemon
  thread that sleeps with a timeout; nothing else it waits for is modelled.
  Configuration changes, restarts and screens are not fair.
- `OracleSessions`: strong fairness of each thread's own steps. They are calls
  that return or raise, but for two waits, for the set-up lock and for a session:
  a thread that waits gets them if they are free again and again (the pool
  library queues its waiters; the lock is held for a moment). None of errors,
  drops and password changes.
- `Conversations`: timers fire (`GiveUp`, `ResetTimesOut`), the loop runs what
  it woke (`Start`, `ClearAnswers`). No fairness at all on tools, on the end of
  a turn, on scope lookups or on reset threads: the property is about turns
  that never end.
- `AgentTurn`: weak fairness of `Advance`, the turn's own steps and the
  provider's, whose calls have a time limit. Which answer comes is not fair.
- `ScopeCatalog`: a refresh thread ends, well or badly, since its queries have
  a time limit. Requests and reloads are not fair, nor is success.
- `BatchExports`: workers, threads that began, the janitor and the clock go
  on. Producers and deletions may always fail; nobody has to ask for
  anything.
- `SourceKnowledge`: whoever holds the lock goes on (weak), and a waiter gets
  the lock if it is free again and again (strong), because the kernel serves
  the waiters of `flock` in turn. The code waits without a deadline. An opening
  that fails counts as one.
- `WorkflowStore`, `TickerStore` and `AccessCache` are checked for safety only.
  Callers come when they like, and in the workflow store a lock that cannot be
  unlinked makes callers wait forever (below).

## What is proved

All for every value of the constants, under the assumptions named in the
modules (`ConstantsAssumption`, `TickerConstants`, `NoneAssumption`,
`SessionConstants`, `RunnerConstants`, `ConversationConstants`, `TurnConstants`,
`WindowAssumption`, `CatalogConstants`, `AccessConstants`, `ExportConstants`,
`KnowledgeConstants`); where a theorem needs more, its
`ASSUME` says so. The types are proved too: `TypeCorrect` of each module, and
`Typed` for what `OracleSessions` carries through a query.

**WorkflowStore_proofs.** Mutual exclusion (`OneHolder`); one live execution;
the revision argument. The inductive invariant is
`StoreInv == LockInv /\ WorkInv /\ SeenInv`. Mutual exclusion is not inductive:
whoever holds the lock file must also be known to hold a *young* one, and a
lock that is being broken to be old, or a breaker could remove a fresh lock
(`LockInv`; this is where "at most one caller breaks a stale lock at a time"
is assumed, `~ConcurrentBreak`). Given exclusion, what a process read is still
there when it writes, and tokens are never shared (`WorkInv`). A user's
checkpoint is never ahead of the file and equal to it while the numbers agree
(`SeenInv`), which is why comparing a number is enough. `OneScope`
(`ResultsShareScope`) needs to know under which scope the *running* phase was
claimed as well (`ScopeInv`): a result is written under the token's scope, and a
claim is refused unless that scope is the workflow's. The refinement of
`ReviewProtocol` (`StoreFollowsProtocol`, step by step: each action is a claim, a
finish, a decision, a lapse or a stutter of the protocol) needs the shape of the
phases (`PhaseInv`): what is still open are the phases past some number, only a
running phase has a token, and only a cancelled workflow a cancelled phase. The
summary status that the code stores beside the phases then agrees with them
(`SummaryAgrees`).

**TickerStore_proofs.** `AckInv`: an acknowledgment made before the verdict
moved carries an older `last_changed`, because a tick is dated after every row
in the store it opens. `EndpointInv` (needs `~TornContext`): the tick that has
the store open measures where it is configured. `BaselineInv`: a row whose
status is a verdict is the last measurement. From these:
`AckOneEpisode`, `FeedOfThisEndpoint`, `LikeWithLike`, whatever failures bring.

**TickerRunner_proofs.** Four arguments beside the types, each inductive with
them alone; the first three need no assumption on the environment. `SilenceInv`:
a dead source has said so once, or its store refused a write in the pass in
which it died (a write that is refused later, or before, is no excuse).
`BreakerInv`: a living breaker has counted at least as many passes as gave
nothing in a row, and fewer than `failure_trip`, through failing stores as well.
`RefusalInv`: a breaker is terminal, and of the endpoint that refused the
credentials, until another endpoint is asked; hence `RefusedNeverAskedAgain`,
also when the configuration goes to and fro (what a return to the first endpoint
does is divergence 11). `LoopInv` (`~LimitsMayBreak`): only a pass that found
every known source dead ends as "tripped", and by then it knows every watched
one (`OneSiloStopsNobody`).

**OracleSessions_proofs.** `LatchInv` (a thread that will offer the password has
not been refused yet) gives `RefusedOnce`; `Exact` (what a cursor has left and
what is in the sink make up the answer) `StreamsExact`. `Fresh`: the current
pool is open and is never one in which a session of a retry died, because what a
thread is about to close is not current any more, and a cleared pool never
becomes current again; hence `FreshRetries`. `Cause`, on top of it, accounts for
each attempt that lost its session, by a drop of its own or by a pool taken away
under it; hence `FailureHasCause`: an error of another kind ends a query as
"trouble", and one that ends as "failed" was hit twice.

**Chat_proofs, the conversations.** The inductive invariant `IInv` names, beside
the types: where a question can be in each state of its handler (`Places`); that
a conversation is named by the question that made it, so who holds one holds a
conversation that was made (`Made`), for its own person, session and scope
(`Owned`: every payload in it is of a question with the same request, hence
`HistoryOfOnePerson`); that a question waits just where it is queued (`Waits`),
nobody twice, and *no question stands behind a Clear* (`Queues`); that a
conversation with a Clear in its queue or under `provider.reset()` is found by
nobody any more (`Detachment`); and what a Clear has put behind it (`Cleared`).
`OneAtATime` by itself is not inductive: when the five seconds end while
`reset()` runs in its thread, the lock is released, and only the fact that the
Clear was the last in the queue of a conversation which is in no registry keeps
a question from taking it. The queue and the registry are sequences from which
members are removed in the middle: `SomebodysPlace` (of a finite set of numbers
each rank is somebody's) and `WithoutFacts` (what is left stands in the old
order, and nothing else is gone) carry those steps. The same invariant gives
`FreshAfterClear`.

**Chat_proofs, a question.** `TurnInv`. *Transcript*: each message answers the
calls of the one before, a request ends with the user, and while a batch is dealt
with the last message is the one that asked for it. Each way a message is
appended is a lemma (`WithUserAnswers`, `WithReplyAnswers`,
`WithResultsAnswers`), and cutting the transcript keeps it (`RecentAnswers`), so
`CallsAnswered` holds for every window, not because the model forgets. *Flags*:
a flag of the loop is up only if a tool of this turn that raises it succeeded,
no domain is covered without a database result, and a strict one only by its
control; whatever raises a flag also left a payload. That last fact joins the
two halves of `OnlyToolsGround`: a text on data or policy that passes the
evidence gates is one the number guard had something to compare with.
*Grounding*: everything a figure is compared with was returned by a tool.
`BookkeepFacts` shows that a phase keeps all of it, whichever calls it holds and
whatever they bring.

**Caches_proofs** holds the proofs of both caches. *Scope catalog*:
`CatalogOfItsDatabase` and `OneRefresh` become inductive once it is known that
every build and thread under way captured a generation this process has reached
(`Begun`): a thread of a generation to come would be counted by the next reload.
*Row security* (`AccessInv`): attempts are numbered and the last one of a person
is the one on the register (`Numbered`); a lookup that reads an old grant began
before the change (`ReadInTime`) and so does what it leaves in the cache
(`CachedInTime`); a lookup that may still publish and has read reads nothing
older than the cache (`LastReadsNewest`). From these `GrantChangeTakesHold`,
`CacheNeverOlder`, `CacheInvalidationHolds`.

**BatchExports_proofs.** The table, the queue and the workers agree on where a
job stands (`StagesAgree`, `QueueAgrees`), a thread between the lock and the
pool has a job in the table (`PendingAgrees`), a job that is being deleted is
out of the table (`DoomedGone`), a file that is held is in the table with time
left (`HeldInTime`), and what a deletion leaves is known to have been refused
(`UnlinkFacts`). From these `HandedOut`, `NoFileForgotten` (a file with neither
a job nor a thread that will delete it is one whose deletion the system
refused), and `WorkedOnStays`: the branches of `_run` for a missing job are
dead code.

**SourceKnowledge_proofs.** Writers past the lock have it, those whose opening
failed too (`LockInv`); the copy
of a writer is the file with at most its own change (`CopyInv`), because of the
lock; hence no step moves a decision backward (`FileMoves`), `AcknowledgedHolds`,
and the refinement `StoreFollowsReview`. For the vetoes: a file that is still
the one an asker saw holds the rows it read (`SameFile`, `IndexInv`), and rows
read later than the stat are of a moment between the call's beginning and now
(`Between`), which is why remembering them under the *earlier* signature is
harmless: it can only cause another read. Hence `QueriesSee`, for any number of
askers that share the index.

Only model-checked: liveness (all of it), which the prover does not do. Every
safety property that a passing run checks is also a theorem, the two refinements
among them. The run shows it on a small instance, with a bug that breaks it; the
theorem has no bounds, only the assumptions on the constants.

Stated or proved, and in no run: `TypeOK` of the modules, `MutualExclusion`,
`StoreInv`, `TickerInv`, `LatchInv`, `StatusAgrees`, `SwitchObeyed`,
`SupersededDiscarded`, `OneSiloDoesNotStopOthers`, and `InvalidationHolds`,
which nothing in the program relies on yet (`RowSecurity.invalidate` has no
callers).

## Known divergences

Shown by a run, with its counterexample:

1. **Two callers break one stale lock** (`workflow_break_race`,
   `workflows.py:106`): the second unlinks the first one's fresh lock.

Shown by TLC under the constant or for the property named, with no run of their
own:

2. *Ticker, an acknowledgment survives error A, error B, error A*
   (`ticker.py:596`): `AckNeverSurvivesChange` with two categories.
3. *Ticker, a failure with counts of its own overwrites those it should
   inherit* (`ticker.py:589`): a scope without ledger rows, or a status the
   ticker does not know, fails `FailureKeepsBaseline`.
4. *Ticker, a baseline reset that is never disclosed* (`ticker.py:490`):
   `ResetDisclosed` with a fault.
5. *Ticker, torn reload* (`gui/app.py:2453`): `_ticker_context` reads the
   engine and then the configuration without the reload's lock. With
   `TornContext = TRUE`, `FeedIsThisEndpoint` fails.
6. *Runner, budgets out of bounds* adopted by a reload trip the whole runner
   (`_fail`, `ticker.py:1558-1565`); with `LimitsMayBreak = TRUE`,
   `OneSiloDoesNotStopOthers` fails.
7. *Agent turn, buttons of a question that is not shown*
   (`gui/static/index.html:6030`): the page makes buttons of the last
   `ask_user` call, the turn shows the first (`client/chat.py:850`) or
   withholds it (`tests/test_clarification.py:193`: "a withheld question must
   not render its options"): `ButtonsMatchAnswer` fails.
8. *Agent turn, figures with nothing to compare to* (`guards.py:3131`): a
   general question's text that rests on no payload keeps its figures:
   `FiguresGrounded` fails.

Stated by a property, as an exception it makes:

9. *Runner, silence without an event*: a source whose store refuses the tick or
   the event in the pass in which it dies (refused credentials at once, or the
   last of `failure_trip` passes) ends without `runner_tripped` (`lost` in
   `SilenceDisclosed`).
10. *Runner, a dead database is retried as long as its passes mix errors with
    checks that were cut or vetoed* (`ticker.py:1351`): such a pass resets the
    breaker. `DeadDatabaseTrips` is about passes in which every check failed.
11. *Runner, refused credentials are offered again after a detour*: an endpoint
    set to another one and back earns its breaker and its `Database` anew
    (`ticker.py:1229-1233`, `gui/app.py:4457`), if a pass ran meanwhile. That is why
    `RefusedNotAskedAgain` speaks of the next endpoint that is asked.

Met while modelling:

12. *Ticker, a check that returns after retirement* is compared with what it
    showed before it went (`ticker.py:620-623`).
13. *Ticker store, a file without its tables* is never repaired
    (`ticker.py:460`).
14. *Runner, a fix after everything died* is not seen: the loop has ended
    (`ticker.py:1079-1083`). `FixSeenWhileAlive` says what does hold.
15. *Runner, the switch* is obeyed at the end of a pass, not inside it: the
    pass reads the configuration it captured (`ticker.py:1132-1135`).
16. *Runner, a status request for a source that is not watched* makes a
    breaker that then keeps the runner from reading "tripped".
17. *Workflow store, a lock that cannot be unlinked* makes every caller spin
    (`workflows.py:115`); the limit of workflows is counted outside any lock
    (`workflows.py:216`).
18. *Conversations, a ghost on the display* (`gui/app.py:893-904`): of three
    questions in one tab the second and third queue; the second gives up and
    its restore does nothing, since the third is shown; the third gives up and
    puts the *second's* slot back, still marked active. The running question
    stays hidden and nobody ends that slot. The same happens with two when the
    first ends while the second is giving up.
19. *Conversations, stale follow-ups* (`gui/app.py:4340`): a question that
    outlives a Clear stores its suggestions after the Clear removed them.
20. *Conversations, eviction in the hand-over* (`gui/app.py:763`): at the
    registry's limit a conversation that has just been released to a waiting
    question counts as unlocked and can be evicted; that question then runs on
    a conversation the next one will not find.
21. *Reload, the remembered last period* (`gui/app.py:959`, read at 1768) is
    not cleared with the other caches (4503), although the comment before them
    says "Left behind, they keep answering from the PREVIOUS database"; it
    answers for up to 900 seconds.
22. *Reload, what the new engine is not given* (`gui/app.py:69` against 4457):
    the record-exclusion resolver and the memory; the exclusion index keeps the
    configuration of the boot. The chat's MCP process is not restarted.
23. *Scope catalog, a thread that does not start* (`gui/app.py:1013-1050`)
    leaves `refreshing` set: no refresh until a reload.
24. *Batch exports, a file that cannot be deleted* (`batch_export.py:84-100`,
    181-186): the error is swallowed after the job left the table, so nobody
    knows the file until the next manager's clean-up, which swallows it too
    (`refused` in `NoOrphan` and `FilesGo`). And a job that is in the table but
    not yet in the pool, or in the pool's queue, when the service is closed stays
    "queued" for ever (`closed` in `EveryJobEnds`).
25. *Claude provider, one retry too few*: `_call` tries four times and strips
    one optional feature a time; with all four refused the request without any
    is never sent.
26. *Site memory* (`memory.py`): facts are read, changed and written back with
    no lock, through one temporary name: of two editors one loses.
27. *Question log, what is said of an answer outlives it* (`qlog.py:925-947`):
    whether a turn is still in the active file is asked before the append that
    may rotate it away, so a quality, feedback or review record can stand one
    file younger than its turn, which "now age together" denies; a later record
    of the turn repairs it. `log_turn` (`qlog.py:999-1004`) marks its turn as
    active after it released the lock under which it was written, so a rotation
    between the two has the same effect.
28. *Oracle, a discard takes whatever pool is current* (`db.py:800-803`): between
    its three steps another thread makes a pool and queries it. The discard
    closes that one under its users, who had lost no session (a cause that
    `FailsForCause` allows), or clears it without closing it: then two pools are
    open, and one of them until it is collected. A thread that is about to
    return the pool may return None (`GivePool`).
29. *Scope catalog, a verified file that cannot be read at the moment*
    (`gui/app.py:1003-1009`) is overwritten with an unverified catalog, and a write
    that fails leaves the file empty (`gui/app.py:992`): the exceptions in
    `DiskKeepsVerified`.

## Not modelled

`PROJECT.json` lists every component with its status. The map covers under a
tenth of the repository's lines, and no faithful model would cover much more of
them: `metadata.py`, `engine.py`, `ar.py`, `modules.py`, `server.py`,
`guards.py`, the connectors and the evaluation scripts are query text,
arithmetic on result rows, analysis of text, HTTP clients and offline builders.
They keep little or no state between calls, one call of theirs sees nothing of
another, and a model of them would be their transliteration. Who may call the
server and which rows a person may see are questions of security and outside
this project.

Of the modelled components: the other database backends of `db.py`; the routes
of `gui/app.py` that only read, and its MCP worker; the feed's history and
retention limits; of the agent turn the caveats that only append text, the
rewriting of arguments by references to earlier results, row security's
refusals and the question log; the adapters of the other model vendors, cache
markers and token limits; the cache of the security record, which follows the
protocol of `AccessCache`; of source knowledge the Windows path (the same
steps, with `os.replace` and a byte-range lock that gives up after a while),
the validation of fields, and the drafting of meanings (`meaning_draft.py`,
`meaning_worklist.py`); and the wording of every message.

## Plan

Done, in this order: workflow store, ticker store, ticker runner, Oracle
sessions, conversations, agent turn, scope catalog, row-security cache, batch
exports, source knowledge; proofs of the safety properties of all of them.

Proofs left: none of a property in a run, liveness aside. Worth proving beside
them: that a question takes at most `MaxRounds` requests (the safety half of
`EveryTurnEnds`), and that the queue of a conversation is served in order.

Models left, in order of what they could find: **QuestionLog** (rotation,
restarts and failed writes against feedback and review: feedback once, reviews
never backward, a restart reads what the process knew), **SiteMemory** (two
editors), the metadata catalog's rebuild against its readers, and **Amounts**
(roll-forward of periods and aging buckets as functions against their
definitions over bounded inputs).
