---------------------------- MODULE TickerRunner ----------------------------
(***************************************************************************)
(* pstb/ticker.py: TickerRunner, the loop that paces the checks of several *)
(* sources and stops asking a source that keeps failing or has refused its *)
(* credentials.  A pass resolves the configuration once, runs the segment  *)
(* of the default source and those of the extra sources that are due, each *)
(* under its own breaker, and reconciles the runner's state.  The console  *)
(* swaps the configuration, back to an earlier one too, and screens ask    *)
(* for breaker states meanwhile.  The store is TickerStore's subject: here *)
(* each write into it returns or raises.                                   *)
(***************************************************************************)
EXTENDS Naturals

CONSTANTS
  Source,         \* configured sources
  Default,        \* the one whose checks are the top-level ticker keys
  Watched,        \* it and the extras opted in under ticker.sources
  FailureTrip,    \* limits.failure_trip
  Beat,           \* the loop's cadence, by which a pass follows the last
  Cadence,        \* an extra's cadence, in the same units
  Endpoints,      \* fingerprints of what a source may be configured to
  FirstEndpoint,
  Fixable,        \* bound: the sources whose endpoint is changed meanwhile
  MaxRestarts,    \* bound: process restarts
  LimitsMayBreak  \* may a reload adopt budgets out of bounds?

ASSUME RunnerConstants ==
  /\ Default \in Watched /\ Watched \subseteq Source
  /\ FailureTrip \in Nat \ {0}
  /\ Beat \in Nat \ {0} /\ Cadence \in Nat \ {0}
  /\ Endpoints \subseteq Nat \ {0} /\ FirstEndpoint \in Endpoints
  /\ Fixable \subseteq Source
  /\ MaxRestarts \in Nat /\ LimitsMayBreak \in BOOLEAN

Extras == Watched \ {Default}

VARIABLES
  config,    \* the process's configuration: enabled, budgets valid, endpoints
  loop,      \* the thread: "alive" or "ended"
  state,     \* TickerRunner.state
  failures,  \* TickerRunner.consecutive_failures
  health,    \* TickerRunner._health
  age,       \* time since an extra's last recorded tick, up to Cadence
  pass,      \* the pass under way: configuration it resolved, segments left
  restarts,
  notes,     \* runner_tripped events handed to its store since its breaker is new
  lost,      \* did its store refuse a write in the pass it fell silent in?
  refused,   \* the endpoint that refused the credentials when the source was
             \* last asked, or 0
  barren     \* passes in a row in which every check failed at this endpoint,
             \* counted up to one more than FailureTrip

ghosts == <<notes, lost, refused, barren>>
vars == <<config, loop, state, failures, health, age, pass, restarts, ghosts>>

Config == [enabled : BOOLEAN, limits : BOOLEAN, fp : [Source -> Endpoints]]

\* One source's breaker; fp 0 is "", the fingerprint of a source never ticked.
Health == [known : BOOLEAN, failures : Nat, terminal : BOOLEAN,
           tripped : BOOLEAN, fp : Nat]

TypeOK ==
  /\ config \in Config
  /\ loop \in {"alive", "ended"}
  /\ state \in {"idle", "running", "tripped", "stopped"}
  /\ failures \in Nat
  /\ health \in [Source -> Health]
  /\ age \in [Extras -> 0..Cadence]
  /\ pass \in [running : BOOLEAN, fp : [Source -> Endpoints \cup {0}],
               left : SUBSET Watched]
  /\ pass.running => pass.fp \in [Source -> Endpoints]
  /\ restarts \in Nat
  /\ notes \in [Source -> Nat]
  /\ lost \in [Source -> BOOLEAN]
  /\ refused \in [Source -> Nat]
  /\ barren \in [Source -> Nat]

NewHealth == [known |-> FALSE, failures |-> 0, terminal |-> FALSE,
              tripped |-> FALSE, fp |-> 0]
NoPass == [running |-> FALSE, fp |-> [s \in Source |-> 0], left |-> {}]

Init ==
  /\ config = [enabled |-> TRUE, limits |-> TRUE,
               fp |-> [s \in Source |-> FirstEndpoint]]
  /\ loop = "alive"
  /\ state = "idle"
  /\ failures = 0
  /\ health = [s \in Source |-> NewHealth]
  /\ age = [s \in Extras |-> Cadence]
  /\ pass = NoPass
  /\ restarts = 0
  /\ notes = [s \in Source |-> 0]
  /\ lost = [s \in Source |-> FALSE]
  /\ refused = [s \in Source |-> 0]
  /\ barren = [s \in Source |-> 0]

-----------------------------------------------------------------------------
(* One source's breaker *)

\* Faulty: only a trip silences a source.
DeadIfTripped(h) == h.tripped

Dead(h) == h.tripped \/ h.terminal

\* _tick_source: a changed endpoint earns a fresh breaker.
Renewed(h, fp) == h.fp # 0 /\ fp # h.fp

\* Faulty: the fingerprint is looked at after the breaker.
RefreshedIfAlive(h, fp) ==
  IF Dead(h) THEN [h EXCEPT !.known = TRUE]
  ELSE [h EXCEPT !.known = TRUE, !.fp = fp]

Refreshed(h, fp) ==
  IF Renewed(h, fp)
  THEN [NewHealth EXCEPT !.known = TRUE, !.fp = fp]
  ELSE [h EXCEPT !.known = TRUE, !.fp = fp]

\* What the checks of a segment came to: did they all end in an error, and did
\* one meet refused credentials?  The others measured something, or were cut by
\* the budget or vetoed.
Results == [failed : BOOLEAN, credentials : BOOLEAN]

Counted(h) == [h EXCEPT !.failures = @ + 1,
                        !.tripped = h.failures + 1 >= FailureTrip]

\* Faulty: only plumbing failures count.
AfterWriteCountsPlumbing(h, r) ==
  IF r.credentials THEN [h EXCEPT !.terminal = TRUE, !.tripped = TRUE]
  ELSE [h EXCEPT !.failures = 0]

\* Faulty: a terminal source is not tripped, so its event is missing.
AfterWriteQuiet(h, r) ==
  IF r.credentials THEN [h EXCEPT !.terminal = TRUE]
  ELSE IF r.failed THEN Counted(h) ELSE [h EXCEPT !.failures = 0]

\* The epilogue of _run_segment once record_tick returned; writing a refusal
\* of the credentials down does not reset the breaker.
AfterWrite(h, r) ==
  IF r.credentials THEN [h EXCEPT !.terminal = TRUE, !.tripped = TRUE]
  ELSE IF r.failed THEN Counted(h) ELSE [h EXCEPT !.failures = 0]

\* _seg_fail: the store did not open or record_tick raised, whatever the
\* checks said.
AfterFault(h, r) ==
  [Counted(h) EXCEPT !.terminal = r.credentials]

-----------------------------------------------------------------------------
(* A pass *)

\* Faulty: a due time between two passes is missed.
DueOnTheDot(s) == age[s] + Beat = Cadence

\* An extra is due when its store's last tick is a cadence old, or missing.
Due(s) == age[s] + Beat >= Cadence

Older(a) == IF a + Beat < Cadence THEN a + Beat ELSE Cadence

\* _tick, up to the first segment.  _due asks for the health of every extra.
BeginPass ==
  /\ loop = "alive" /\ ~pass.running
  /\ config.enabled /\ config.limits
  /\ pass' = [running |-> TRUE, fp |-> config.fp,
              left |-> {Default} \cup {s \in Extras : Due(s)}]
  /\ state' = "running"
  /\ health' = [s \in Source |->
                  IF s \in Extras
                  THEN [health[s] EXCEPT !.known = TRUE] ELSE health[s]]
  /\ age' = [s \in Extras |-> Older(age[s])]
  /\ UNCHANGED <<config, loop, failures, restarts, ghosts>>

\* _fail: budgets out of bounds count against the whole runner, on top of the
\* default source's failures that the last pass mirrored.
ResolveFails ==
  /\ loop = "alive" /\ ~pass.running
  /\ ~config.limits
  /\ failures' = failures + 1
  /\ IF failures + 1 >= 3 THEN state' = "tripped" /\ loop' = "ended"
     ELSE state' = "idle" /\ UNCHANGED loop
  /\ UNCHANGED <<config, health, age, pass, restarts, ghosts>>

\* A pass that finds the ticker switched off ends the loop.
StopWhenDisabled ==
  /\ loop = "alive" /\ ~pass.running
  /\ config.limits /\ ~config.enabled
  /\ state' = "stopped" /\ loop' = "ended"
  /\ UNCHANGED <<config, failures, health, age, pass, restarts, ghosts>>

Turn(s) ==
  /\ pass.running
  /\ s \in pass.left
  /\ s # Default => Default \notin pass.left

\* No writes and no questions while the source is dead.
SkipSource(s) ==
  /\ Turn(s)
  /\ Dead(Refreshed(health[s], pass.fp[s]))
  /\ health' = [health EXCEPT ![s] = Refreshed(@, pass.fp[s])]
  /\ pass' = [pass EXCEPT !.left = @ \ {s}]
  /\ UNCHANGED <<config, loop, state, failures, age, restarts, ghosts>>

\* What a store takes: the tick, and the runner_tripped event if one is
\* written.  _trip swallows an event that is refused.
Writes == {"tick", "event"}

\* The plan is run with results r and the breaker updated; the switch is read
\* from the configuration the pass resolved, which a reload leaves as it is.
Segment(s, r, taken) ==
  LET h == Refreshed(health[s], pass.fp[s])
      anew == Renewed(health[s], pass.fp[s])
  IN
  /\ pass' = [pass EXCEPT !.left = @ \ {s}]
  /\ health' = [health EXCEPT ![s] = IF "tick" \in taken THEN AfterWrite(h, r)
                                     ELSE AfterFault(h, r)]
  /\ age' = [e \in Extras |-> IF e = s /\ "tick" \in taken THEN 0 ELSE age[e]]
  /\ barren' = [barren EXCEPT ![s] = IF ~r.failed THEN 0
                                     ELSE IF anew THEN 1
                                     ELSE IF @ > FailureTrip THEN @ ELSE @ + 1]
  /\ refused' = [refused EXCEPT ![s] = IF r.credentials THEN pass.fp[s] ELSE 0]
  /\ notes' = [notes EXCEPT ![s] =
       (IF anew THEN 0 ELSE @)
       + (IF health'[s].tripped /\ ~h.tripped /\ "event" \in taken THEN 1 ELSE 0)]
  /\ lost' = [lost EXCEPT ![s] = Dead(health'[s]) /\ taken # Writes]
  /\ UNCHANGED <<config, loop, state, failures, restarts>>

RunSegment(s) ==
  /\ Turn(s)
  /\ ~Dead(Refreshed(health[s], pass.fp[s]))
  /\ \E r \in Results, taken \in SUBSET Writes : Segment(s, r, taken)

Known == {s \in Source : health[s].known}

\* _reconcile_state, and the loop's look at the state.
EndPass ==
  /\ pass.running /\ pass.left = {}
  /\ pass' = NoPass
  /\ failures' = health[Default].failures
  /\ IF \A s \in Known : Dead(health[s])
     THEN state' = "tripped" /\ loop' = "ended"
     ELSE state' = "idle" /\ UNCHANGED loop
  /\ UNCHANGED <<config, health, age, restarts, ghosts>>

-----------------------------------------------------------------------------
(* Around the loop *)

\* status_for: a screen asks for a source, watched or not, and the source is
\* known from then on.
StatusFor(s) ==
  /\ ~health[s].known
  /\ health' = [health EXCEPT ![s].known = TRUE]
  /\ UNCHANGED <<config, loop, state, failures, age, pass, restarts, ghosts>>

\* _console_reload swaps the configuration: an endpoint is corrected, or set
\* back to what it was, ...
Fix(s) ==
  /\ s \in Fixable
  /\ \E e \in Endpoints \ {config.fp[s]} : config' = [config EXCEPT !.fp[s] = e]
  /\ UNCHANGED <<loop, state, failures, health, age, pass, restarts, ghosts>>

\* ... the ticker is switched, or its budgets are edited.
Reconfigure ==
  /\ \/ config' = [config EXCEPT !.enabled = ~@]
     \/ LimitsMayBreak /\ config' = [config EXCEPT !.limits = ~@]
  /\ UNCHANGED <<loop, state, failures, health, age, pass, restarts, ghosts>>

\* The process is killed and started again: breakers are new, due times come
\* from the stores, where one that cannot be read, or was begun anew for another
\* endpoint, has no tick.  A ticker that is off, or has budgets out of bounds, is
\* not started.
Restart ==
  /\ restarts < MaxRestarts
  /\ restarts' = restarts + 1
  /\ loop' = IF config.enabled /\ config.limits THEN "alive" ELSE "ended"
  /\ state' = "idle"
  /\ failures' = 0
  /\ health' = [s \in Source |-> NewHealth]
  /\ pass' = NoPass
  /\ notes' = [s \in Source |-> 0]
  /\ lost' = [s \in Source |-> FALSE]
  /\ refused' = [s \in Source |-> 0]
  /\ barren' = [s \in Source |-> 0]
  /\ \E anew \in SUBSET Extras :
       age' = [s \in Extras |-> IF s \in anew THEN Cadence ELSE age[s]]
  /\ UNCHANGED config

Loop ==
  \/ BeginPass \/ ResolveFails \/ StopWhenDisabled \/ EndPass
  \/ \E s \in Watched : SkipSource(s) \/ RunSegment(s)

Next ==
  \/ Loop
  \/ \E s \in Source : StatusFor(s) \/ Fix(s)
  \/ Reconfigure \/ Restart

Spec == Init /\ [][Next]_vars

\* The thread wakes up from its timed wait and every query has a timeout.
FairSpec == Spec /\ WF_vars(Loop)

-----------------------------------------------------------------------------
(* Properties *)

\* "Every further attempt would bury the remedy under repetition, and
\* rebuilding connections against refused credentials is how a service
\* account gets locked": after an endpoint refused the credentials, the next
\* one its source is asked at is another one, however its store behaves.
RefusedNotAskedAgain ==
  [][\A s \in Watched : refused[s] = pass.fp[s] => ~RunSegment(s)]_vars

\* "A breaker that only counts plumbing failures lets a dead database be
\* retried forever": the passes in a row in which every check of a source
\* failed are never more than the breaker allows, whether the store took the
\* ticks or not.
DeadDatabaseTrips == \A s \in Watched : barren[s] <= FailureTrip

\* "Exactly one runner_tripped event at the transition, written into the
\* store the coming silence is about": a source says so at most once for each
\* time it falls silent, never without falling silent, and it is silent
\* without having said so only if its store refused a write in that pass.
SilenceDisclosed ==
  \A s \in Watched :
    /\ notes[s] <= 1
    /\ notes[s] = 1 => Dead(health[s])
    /\ Dead(health[s]) /\ notes[s] = 0 => lost[s]

\* _reconcile_state: "the runner itself reads "tripped" only when EVERY known
\* source is dead -- one silo's revoked grant must not stop the others from
\* ticking."
OneSiloDoesNotStopOthers ==
  state = "tripped" => \A s \in Watched : Dead(health[s])

\* "a loop that keeps querying after the operator turned it off is a loop the
\* operator cannot turn off".
SwitchObeyed == ~config.enabled ~> loop = "ended" \/ config.enabled

\* "ORA-01017 on extra A must not stop the default and B from ticking the
\* same pass and the next": every watched source keeps getting its turn while
\* the loop lives, whatever the others do.
EveryoneGetsTurns ==
  \A s \in Watched : []<>(s \in pass.left \/ loop = "ended")

Corrected(s) == Dead(health[s]) /\ config.fp[s] # health[s].fp

\* A corrected endpoint of a dead source is asked again as long as the loop
\* lives.
FixSeenWhileAlive ==
  \A s \in Watched : Corrected(s) ~> ~Dead(health[s]) \/ ~Corrected(s)
                                     \/ loop = "ended"

=============================================================================
