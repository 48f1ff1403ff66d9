----------------------------- MODULE TickerStore -----------------------------
(***************************************************************************)
(* pstb/ticker.py: TickerStore, the baselines of one source.  A tick       *)
(* measures the checks, opens the store under the writer's file lock       *)
(* (archiving it when it is bound to another endpoint), compares every     *)
(* outcome with the stored row and commits rows and events together.       *)
(* Operators read the feed without the lock and acknowledge, under it, the *)
(* state they were shown.  Counts are abstracted to one metric; history,   *)
(* the retention limits and the wording of events are left out.            *)
(***************************************************************************)
EXTENDS Naturals

CONSTANTS
  Check,        \* check ids
  Endpoint,     \* database endpoints the source may be configured to
  NoEndpoint,   \* a store whose meta rows were never written
  Count,        \* values of the metric
  Empty,        \* an outcome that carries no counts: {}
  Period,       \* accounting periods; 0 is "not known"
  Category,     \* error categories of a failed check
  Quiet,        \* the category of a check that did not fail: ""
  AckTtl,       \* ack_ttl_hours
  MaxTime,      \* bound: clock readings
  MaxFaults,    \* bound: crashes and failed writes
  TornContext,  \* may a reload come between the tick's reads of engine and cfg?
  None          \* no row, no ack, no measurement, not run

ASSUME TickerConstants ==
  /\ Count \subseteq Nat /\ 0 \in Count /\ Empty \notin Nat
  /\ Period \subseteq Nat \ {0}
  /\ NoEndpoint \notin Endpoint
  /\ Quiet \notin Category
  /\ AckTtl \in Nat /\ MaxTime \in Nat /\ MaxFaults \in Nat
  /\ TornContext \in BOOLEAN

VARIABLES
  endpoint,  \* the fingerprint of the source as configured now
  now,       \* the clock, in readings that differ
  kind,      \* the store file: absent, without tables, or complete
  bound,     \* the fingerprint in its meta table
  rows,      \* its outcomes table
  acks,      \* its acks table
  tick,      \* the tick under way
  shown,     \* the state each check had when the operator last read the feed
  faults,
  told,      \* the events the last committed tick inserted, by check
  disclosed, \* no archived baselines are waiting for their baseline_reset event
  measured,  \* the last real measurement recorded for each check
  since      \* what happened to each check after it was acknowledged

store == <<kind, bound, rows, acks>>
history == <<told, disclosed, measured, since>>
vars == <<endpoint, now, store, tick, shown, faults, history>>

Measured == {"passed", "exceptions_found", "checks_incomplete"}
Failed == {"error", "refused", "not_run"}
Comparisons == {"cleared", "worsened", "improved"}
Kinds == Comparisons \cup {"baseline", "scope_changed", "new_exceptions",
           "became_incomplete", "refused", "error", "budget_cut",
           "recovered", "no_longer_scheduled", "none"}

\* What _STATE_FP_FIELDS names: all of the row an operator is shown.
State == [status : Measured \cup Failed, count : Count \cup {Empty},
          period : Period \cup {0}, narrowed : BOOLEAN,
          category : Category \cup {Quiet}]

Row == [state : State, retired : BOOLEAN, changed : Nat]
Ack == [state : State, epoch : Nat, at : Nat]
Measurement == [state : State, of : Endpoint]

ASSUME NoneAssumption == None \notin State \cup Row \cup Ack \cup Measurement

\* What the reducers let a check report.  An unfinished measurement may have
\* no counts; only integrity checks name a period.
Measurements ==
  {s \in State : /\ s.status \in Measured
                 /\ s.category = Quiet
                 /\ s.status = "passed" => s.count = 0
                 /\ s.status = "exceptions_found" => s.count \in Count \ {0}}
Failures ==
  {s \in State : /\ s.status \in Failed
                 /\ s.category # Quiet
                 /\ s.count = Empty /\ s.period = 0 /\ ~s.narrowed}
\* An integrity check that answers, but for a scope without ledger rows or
\* with a status the ticker does not know, fails with counts of its own.
FailingAnswers ==
  {s \in State : /\ s.status \in {"not_run", "error"}
                 /\ s.category = Quiet
                 /\ s.count \in Count}
Outcomes == Measurements \cup Failures \cup FailingAnswers

TypeOK ==
  /\ endpoint \in Endpoint
  /\ now \in Nat
  /\ kind \in {"absent", "husk", "ready"}
  /\ bound \in Endpoint \cup {NoEndpoint}
  /\ rows \in [Check -> Row \cup {None}]
  /\ acks \in [Check -> Ack \cup {None}]
  /\ tick \in [pc : {"idle", "resolving", "measuring", "open"},
               at : Nat, db : Endpoint, conf : Endpoint, reset : BOOLEAN]
  /\ shown \in [Check -> State \cup {None}]
  /\ faults \in Nat
  /\ told \in [Check -> Kinds]
  /\ disclosed \in BOOLEAN
  /\ measured \in [Check -> Measurement \cup {None}]
  /\ since \in [Check -> SUBSET {"verdict", "state"}]

Init ==
  /\ endpoint \in Endpoint
  /\ now = 0
  /\ kind = "absent"
  /\ bound = NoEndpoint
  /\ rows = [c \in Check |-> None]
  /\ acks = [c \in Check |-> None]
  /\ tick = [pc |-> "idle", at |-> 0, db |-> endpoint, conf |-> endpoint,
             reset |-> FALSE]
  /\ shown = [c \in Check |-> None]
  /\ faults = 0
  /\ told = [c \in Check |-> "none"]
  /\ disclosed = TRUE
  /\ measured = [c \in Check |-> None]
  /\ since = [c \in Check |-> {}]

-----------------------------------------------------------------------------
(* Comparing an outcome with the stored row *)

Known(c) == rows[c] # None

\* A failure knows nothing about scope or magnitude and inherits both.
Inherit(c, s) ==
  IF ~Known(c) \/ s.status \notin Failed THEN s
  ELSE LET prev == rows[c].state IN
       [status   |-> s.status,
        count    |-> IF s.count = Empty THEN prev.count ELSE s.count,
        period   |-> IF s.period = 0 THEN prev.period ELSE s.period,
        narrowed |-> prev.narrowed,
        category |-> s.category]

\* The change that moves last_changed.
VerdictMoved(prev, s) ==
  \/ prev.status # s.status
  \/ prev.count # s.count
  \/ prev.narrowed # s.narrowed

KindOf == [exceptions_found |-> "new_exceptions",
           checks_incomplete |-> "became_incomplete", refused |-> "refused",
           error |-> "error", not_run |-> "budget_cut"]

StatusEvent(prev, s) ==
  IF s.status # "passed" THEN KindOf[s.status]
  ELSE IF prev.status = "exceptions_found" THEN "cleared" ELSE "recovered"

Compare(prev, s) ==
  IF prev.status # s.status THEN StatusEvent(prev, s)
  ELSE IF s.status # "exceptions_found" \/ s.count = prev.count THEN "none"
  ELSE IF s.count > prev.count THEN "worsened" ELSE "improved"

\* Faulty: numbers measured under different completeness are compared.
DiffAcrossScopes(c, s) ==
  IF ~Known(c) \/ rows[c].state.period # s.period THEN "baseline"
  ELSE Compare(rows[c].state, s)

\* _diff_one: a new period, or another completeness, is a new world; only
\* within one world is a status or a count compared.
Diff(c, s) ==
  IF ~Known(c) \/ rows[c].state.period # s.period THEN "baseline"
  ELSE IF rows[c].state.narrowed # s.narrowed THEN "scope_changed"
  ELSE Compare(rows[c].state, s)

\* The row an outcome leaves; first_seen and last_run are left out.
Upsert(c, s) ==
  [state |-> s, retired |-> FALSE,
   changed |-> IF ~Known(c) \/ VerdictMoved(rows[c].state, s)
               THEN tick.at ELSE rows[c].changed]

-----------------------------------------------------------------------------
(* A tick *)

Clock == now' = now + 1 /\ now < MaxTime

\* _tick resolves the engine, then the configuration; two ticks never carry
\* the same timestamp.
BeginTick ==
  /\ tick.pc = "idle"
  /\ Clock
  /\ tick' = [pc |-> "resolving", at |-> now', db |-> endpoint,
              conf |-> endpoint, reset |-> FALSE]
  /\ told' = [c \in Check |-> "none"]
  /\ UNCHANGED <<endpoint, store, shown, faults, disclosed, measured, since>>

Resolve ==
  /\ tick.pc = "resolving"
  /\ tick' = [tick EXCEPT !.pc = "measuring", !.conf = endpoint]
  /\ UNCHANGED <<endpoint, now, store, shown, faults, history>>

\* The store this tick's TickerStore object would accept.
\* Faulty: the fingerprint in the meta table is not compared.
MatchesAnything(fp) == kind = "ready" /\ bound # NoEndpoint
Matches(fp) == kind = "ready" /\ bound = fp

EmptyTables ==
  /\ rows' = [c \in Check |-> None]
  /\ acks' = [c \in Check |-> None]
  /\ measured' = [c \in Check |-> None]
  /\ since' = [c \in Check |-> {}]

\* _connect under the writer's lock.
OpenMatching ==
  /\ Matches(tick.conf)
  /\ tick' = [tick EXCEPT !.pc = "open"]
  /\ UNCHANGED <<store, measured, since, disclosed>>

\* A new file is created and committed before anything is compared, after
\* one bound elsewhere was renamed away.
OpenFresh ==
  /\ kind # "husk" /\ ~Matches(tick.conf)
  /\ kind' = "ready" /\ bound' = tick.conf
  /\ EmptyTables
  /\ disclosed' = (kind = "absent" /\ disclosed)
  /\ tick' = [tick EXCEPT !.pc = "open", !.reset = (kind = "ready")]

Open ==
  /\ tick.pc = "measuring"
  /\ OpenMatching \/ OpenFresh
  /\ UNCHANGED <<endpoint, now, shown, faults, told>>

\* A file without a meta table: the SELECT raises, in this tick and in every
\* later one.
OpenFails ==
  /\ tick.pc = "measuring"
  /\ kind = "husk"
  /\ tick' = [tick EXCEPT !.pc = "idle"]
  /\ UNCHANGED <<endpoint, now, store, shown, faults, history>>

\* The process dies between renaming the old file and committing the new
\* one's meta rows: no file, one without tables, or one bound to nothing.
CrashCreating ==
  /\ tick.pc = "measuring"
  /\ kind # "husk" /\ ~Matches(tick.conf)
  /\ faults < MaxFaults
  /\ faults' = faults + 1
  /\ kind' \in {"absent", "husk", "ready"} /\ bound' = NoEndpoint
  /\ EmptyTables
  /\ disclosed' = (kind = "absent" /\ disclosed)
  /\ tick' = [tick EXCEPT !.pc = "idle"]
  /\ UNCHANGED <<endpoint, now, shown, told>>

\* What an acknowledgment of state p must not outlive, once the state is q.
Moved(p, q) ==
  (IF /\ p.status = q.status /\ p.count = q.count
      /\ p.narrowed = q.narrowed
   THEN {} ELSE {"verdict"})
  \cup (IF p = q THEN {} ELSE {"state"})

\* _diff_and_write, for one check; it was not run when it is no longer
\* scheduled, for the runner reports an outcome for every planned check.
RowAfter(c, o) ==
  IF o # None THEN Upsert(c, Inherit(c, o))
  ELSE IF Known(c) THEN [rows[c] EXCEPT !.retired = TRUE] ELSE None

EventAfter(c, o) ==
  IF o # None THEN Diff(c, Inherit(c, o))
  ELSE IF Known(c) /\ ~rows[c].retired THEN "no_longer_scheduled" ELSE "none"

MeasuredAfter(c, o) ==
  IF o # None /\ o.status \in Measured THEN [state |-> o, of |-> tick.db]
  ELSE measured[c]

SinceAfter(c, o) ==
  IF o # None /\ Known(c)
  THEN since[c] \cup Moved(rows[c].state, Inherit(c, o)) ELSE since[c]

\* The rows, the events and the baseline_reset event are committed together.
Write ==
  /\ tick.pc = "open"
  /\ \E out \in [Check -> Outcomes \cup {None}] :
       /\ rows' = [c \in Check |-> RowAfter(c, out[c])]
       /\ told' = [c \in Check |-> EventAfter(c, out[c])]
       /\ measured' = [c \in Check |-> MeasuredAfter(c, out[c])]
       /\ since' = [c \in Check |-> SinceAfter(c, out[c])]
  /\ disclosed' = (disclosed \/ tick.reset)
  /\ tick' = [tick EXCEPT !.pc = "idle", !.reset = FALSE]
  /\ UNCHANGED <<endpoint, now, kind, bound, acks, shown, faults>>

\* The write raises, or the process dies before the commit: the transaction
\* rolls back and the TickerStore object is dropped with its reset_category.
Abort ==
  /\ tick.pc \in {"resolving", "measuring", "open"}
  /\ faults < MaxFaults
  /\ faults' = faults + 1
  /\ tick' = [tick EXCEPT !.pc = "idle", !.reset = FALSE]
  /\ UNCHANGED <<endpoint, now, store, shown, history>>

-----------------------------------------------------------------------------
(* Operators and the world *)

\* _connect_readonly: a reader refuses baselines of another endpoint.
Readable == Matches(endpoint)

\* read_feed, from an operator's screen.
ReadFeed ==
  /\ Readable
  /\ shown' = [c \in Check |-> IF Known(c) THEN rows[c].state ELSE None]
  /\ UNCHANGED <<endpoint, now, store, tick, faults, history>>

\* record_ack waits for the writer's lock.  Another endpoint, an unknown or
\* retired check, or a state that is not the current one is refused.
RecordAck(c) ==
  /\ tick.pc # "open"
  /\ Matches(endpoint)
  /\ Known(c) /\ ~rows[c].retired
  /\ shown[c] = rows[c].state
  /\ acks' = [acks EXCEPT ![c] = [state |-> rows[c].state,
                                  epoch |-> rows[c].changed, at |-> now]]
  /\ since' = [since EXCEPT ![c] = {}]
  /\ UNCHANGED <<endpoint, now, kind, bound, rows, tick, shown, faults, told,
                 disclosed, measured>>

ClearAck(c) ==
  /\ tick.pc # "open"
  /\ Matches(endpoint)
  /\ acks[c] # None
  /\ acks' = [acks EXCEPT ![c] = None]
  /\ UNCHANGED <<endpoint, now, kind, bound, rows, tick, shown, faults,
                 history>>

\* The console rewrites the source's configuration and reloads the process.
EndpointChanges ==
  /\ TornContext \/ tick.pc # "resolving"
  /\ endpoint' \in Endpoint \ {endpoint}
  /\ UNCHANGED <<now, store, tick, shown, faults, history>>

TimePasses ==
  /\ Clock
  /\ UNCHANGED <<endpoint, store, tick, shown, faults, history>>

Next ==
  \/ BeginTick \/ Resolve \/ Open \/ OpenFails \/ CrashCreating
  \/ Write \/ Abort
  \/ ReadFeed \/ EndpointChanges \/ TimePasses
  \/ \E c \in Check : RecordAck(c) \/ ClearAck(c)

Spec == Init /\ [][Next]_vars

-----------------------------------------------------------------------------
(* Properties *)

\* Faulty: the episode (last_changed) is not part of the ack.
AckedByState(c) ==
  /\ acks[c] # None /\ Known(c)
  /\ ~rows[c].retired
  /\ now - acks[c].at <= AckTtl
  /\ acks[c].state = rows[c].state

\* read_feed marks the row acknowledged: its light is switched off.
Acked(c) ==
  /\ acks[c] # None /\ Known(c)
  /\ ~rows[c].retired
  /\ now - acks[c].at <= AckTtl
  /\ acks[c].state = rows[c].state
  /\ acks[c].epoch = rows[c].changed

\* record_ack: "an ack may only apply to a state the operator's browser
\* actually showed them" and to that episode of it: while a row reads as
\* acknowledged, its status, counts and completeness have not moved since,
\* although they may have moved away and back under the ack.
AckCoversOneEpisode ==
  \A c \in Check : Readable /\ Acked(c) => "verdict" \notin since[c]

\* Why: an ack made before the verdict moved carries an older last_changed,
\* since the tick that moves it is dated after every row in the store.
AckInv ==
  /\ tick.at <= now
  /\ \A c \in Check :
       /\ Known(c) => rows[c].changed <= now
       /\ Known(c) /\ tick.pc # "idle" => rows[c].changed < tick.at
       /\ acks[c] # None =>
            /\ Known(c)
            /\ acks[c].epoch <= rows[c].changed
            /\ "verdict" \in since[c] => acks[c].epoch < rows[c].changed

\* Why: the tick that holds the store open is one whose engine and
\* configuration agree, and what it replaces was measured where it measures.
EndpointInv ==
  /\ tick.pc = "resolving" => tick.db = endpoint
  /\ tick.pc \in {"measuring", "open"} => tick.db = tick.conf
  /\ tick.pc = "open" => Matches(tick.conf)
  /\ \A c \in Check : measured[c] # None => measured[c].of = bound

\* Why: a row whose status is a verdict is the last measurement, and a check
\* without a row was not measured in this store.
BaselineInv ==
  \A c \in Check :
    /\ ~Known(c) => measured[c] = None
    /\ Known(c) /\ rows[c].state.status \in Measured =>
         measured[c] # None /\ measured[c].state = rows[c].state

\* The invariant the proofs rest on (EndpointInv needs ~TornContext).
TickerInv == AckInv /\ EndpointInv /\ BaselineInv

\* state_fingerprint: "Any change an operator should re-see -- worsen,
\* improve, status flip, scope flip, period roll, category flip -- moves this
\* value, so a stored ack bound to it can never survive the change."
AckNeverSurvivesChange ==
  \A c \in Check : Readable /\ Acked(c) => since[c] = {}

\* A readable feed shows measurements of the database the source is
\* configured to now, whichever reloads, archives and crashes went before.
FeedIsThisEndpoint ==
  \A c \in Check : Readable /\ Known(c) /\ measured[c] # None
                   => measured[c].of = endpoint

\* An event that says the data got better or worse compares two measurements
\* of one database, one period and one completeness, although failures,
\* refusals and crashed ticks may lie between them.
ComparedLikeWithLike ==
  [][\A c \in Check :
       told[c] = "none" /\ told'[c] \in Comparisons =>
         /\ measured[c] # None
         /\ measured[c].of = measured'[c].of
         /\ measured[c].state.period = measured'[c].state.period
         /\ measured[c].state.narrowed = measured'[c].state.narrowed]_vars

\* "A failure knows nothing about scope or magnitude; it must inherit both":
\* a failed check keeps showing the counts, the period and the completeness
\* that were last measured.  Not so: failing answers bring counts (README).
FailureKeepsBaseline ==
  \A c \in Check :
    Known(c) /\ measured[c] # None /\ rows[c].state.status \in Failed
    => /\ rows[c].state.count = measured[c].state.count
       /\ rows[c].state.period = measured[c].state.period
       /\ rows[c].state.narrowed = measured[c].state.narrowed

\* "A changed fingerprint archives the old file beside itself and starts
\* fresh, with a baseline_reset event -- disclosed, never silent": once a
\* tick has written the new store, the event is in it.
ResetDisclosed ==
  (\E c \in Check : Known(c)) => disclosed

=============================================================================
