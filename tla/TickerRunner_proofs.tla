------------------------ MODULE TickerRunner_proofs ------------------------
(***************************************************************************)
(* Proofs about TickerRunner, for any sources, budgets and cadence, and any *)
(* number of configuration changes and restarts.                            *)
(***************************************************************************)
EXTENDS TickerRunner, TLAPS

\* A source that said it fell silent is dead; one that is dead has said so,
\* unless its store refused a write.
SilenceInv ==
  \A s \in Source :
    /\ notes[s] \in {0, 1}
    /\ notes[s] = 1 => Dead(health[s])
    /\ Dead(health[s]) /\ notes[s] = 0 => lost[s]

\* The breaker counts every pass that gave nothing, and trips in time.
BreakerInv ==
  \A s \in Source :
    /\ barren[s] <= FailureTrip
    /\ ~Dead(health[s]) => barren[s] <= health[s].failures /\ health[s].failures < FailureTrip

\* A breaker is terminal, and of the endpoint that refused the credentials, for
\* as long as no other endpoint is asked.
RefusalInv ==
  \A s \in Source :
    refused[s] # 0 => health[s].fp = refused[s] /\ health[s].terminal

\* The loop that has tripped is over; one that runs a pass is not, and knows
\* every watched source by the end of it.
LoopInv ==
  /\ config.limits
  /\ pass.running => loop = "alive" /\ state = "running"
  /\ state = "tripped" => loop = "ended" /\ \A s \in Watched : Dead(health[s])
  /\ pass.running =>
       \A s \in Watched : s # Default \/ Default \notin pass.left => health[s].known

\* A source is asked, with its guard: RunSegment is some Ran.
Ran(s, r, taken) ==
  /\ Turn(s) /\ ~Dead(Refreshed(health[s], pass.fp[s]))
  /\ Segment(s, r, taken)

-----------------------------------------------------------------------------
(* Types. *)

LEMMA NewHealthTyped == NewHealth \in Health /\ ~Dead(NewHealth)
BY DEF NewHealth, Health, Dead

LEMMA RefreshedTyped ==
  ASSUME NEW h \in Health, NEW fp \in Nat
  PROVE  /\ Refreshed(h, fp) \in Health
         /\ Refreshed(h, fp).fp = fp /\ Refreshed(h, fp).known
         /\ Renewed(h, fp) => /\ ~Dead(Refreshed(h, fp))
                              /\ Refreshed(h, fp).failures = 0
         /\ ~Renewed(h, fp) => /\ Refreshed(h, fp).failures = h.failures
                               /\ Refreshed(h, fp).terminal = h.terminal
                               /\ Refreshed(h, fp).tripped = h.tripped
BY DEF Refreshed, Renewed, NewHealth, Health, Dead

\* What a segment leaves of a living breaker.
LEMMA OutcomeTyped ==
  ASSUME NEW h \in Health, ~Dead(h), NEW r \in Results,
         NEW k \in {AfterWrite(h, r), AfterFault(h, r)}
  PROVE  /\ k \in Health /\ k.fp = h.fp /\ k.known = h.known
         /\ k.terminal = r.credentials
<1>1. h.terminal = FALSE /\ h.tripped = FALSE
  BY DEF Dead, Health
<1>2. r.credentials \in BOOLEAN
  BY DEF Results
<1>3. Counted(h) \in Health /\ Counted(h).fp = h.fp /\ Counted(h).known = h.known
      /\ Counted(h).terminal = FALSE
  <2> DEFINE b == h.failures + 1 >= FailureTrip
  <2>1. b \in BOOLEAN
    OBVIOUS
  <2>2. Counted(h) = [h EXCEPT !.failures = @ + 1, !.tripped = b]
    BY DEF Counted
  <2> HIDE DEF b
  <2>3. h.failures + 1 \in Nat
    BY DEF Health
  <2> DEFINE n == h.failures + 1
  <2> HIDE DEF n
  <2>4. Counted(h) = [h EXCEPT !.failures = n, !.tripped = b] /\ n \in Nat
    BY <2>2, <2>3 DEF n
  <2>5. Counted(h) \in Health
    BY <2>1, <2>4 DEF Health
  <2>6. /\ Counted(h).fp = h.fp /\ Counted(h).known = h.known
        /\ Counted(h).terminal = h.terminal
    BY <2>4 DEF Health
  <2> QED BY <1>1, <2>5, <2>6
<1>4. CASE k = AfterFault(h, r)
  BY <1>2, <1>3, <1>4 DEF AfterFault, Health
<1>5. CASE k = AfterWrite(h, r) /\ r.credentials
  BY <1>2, <1>5 DEF AfterWrite, Health
<1>6. CASE k = AfterWrite(h, r) /\ ~r.credentials
  <2>1. r.credentials = FALSE
    BY <1>2, <1>6
  <2>2. CASE r.failed
    BY <1>3, <1>6, <2>1, <2>2 DEF AfterWrite
  <2>3. CASE ~r.failed
    BY <1>1, <1>6, <2>1, <2>3 DEF AfterWrite, Health
  <2> QED BY <2>2, <2>3
<1> QED BY <1>2, <1>4, <1>5, <1>6

\* The breaker of a source that is asked, as the step leaves it.
LEMMA SegmentHealth ==
  ASSUME TypeOK, NEW s \in Watched, NEW r \in Results, NEW taken \in SUBSET Writes,
         Ran(s, r, taken),
         NEW h, h = Refreshed(health[s], pass.fp[s])
  PROVE  /\ s \in Source /\ health[s] \in Health /\ pass.fp[s] \in Nat \ {0}
         /\ h \in Health /\ ~Dead(h)
         /\ health'[s] = IF "tick" \in taken THEN AfterWrite(h, r) ELSE AfterFault(h, r)
         /\ health'[s] \in Health /\ health'[s].fp = pass.fp[s] /\ health'[s].known
         /\ health'[s].terminal = r.credentials
         /\ health' = [health EXCEPT ![s] = health'[s]]
<1>1. s \in Source /\ health[s] \in Health /\ pass.fp[s] \in Nat \ {0}
  BY RunnerConstants DEF TypeOK, Ran, Turn
<1>2. h \in Health /\ h.fp = pass.fp[s] /\ h.known
  BY <1>1, RefreshedTyped
<1>3. ~Dead(h)
  BY DEF Segment, Ran
<1> DEFINE k == IF "tick" \in taken THEN AfterWrite(h, r) ELSE AfterFault(h, r)
<1>4. health'[s] = k /\ health' = [health EXCEPT ![s] = k]
  BY <1>1 DEF TypeOK, Segment, Ran
<1>5. k \in {AfterWrite(h, r), AfterFault(h, r)}
  OBVIOUS
<1> HIDE DEF k
<1>6. k \in Health /\ k.fp = h.fp /\ k.known = h.known /\ k.terminal = r.credentials
  BY <1>2, <1>3, <1>5, OutcomeTyped
<1> QED BY <1>1, <1>2, <1>3, <1>4, <1>6 DEF k

\* Apart from segments, and from a process that starts anew, the steps leave
\* what was counted as it is, and a breaker at most learns that it is known and
\* which endpoint it is of.
Quiet ==
  /\ UNCHANGED <<notes, lost, refused, barren>>
  /\ \A s \in Source :
       /\ health'[s].failures = health[s].failures
       /\ health'[s].terminal = health[s].terminal
       /\ health'[s].tripped = health[s].tripped
       /\ health[s].known => health'[s].known

LEMMA KnownTyped ==
  ASSUME NEW h \in Health
  PROVE  LET k == [h EXCEPT !.known = TRUE]
         IN /\ k \in Health /\ k.failures = h.failures /\ k.terminal = h.terminal
            /\ k.tripped = h.tripped /\ k.known /\ k.fp = h.fp
BY DEF Health

\* A dead source is skipped only when its endpoint is the one its breaker is of.
LEMMA SkipHealth ==
  ASSUME TypeOK, NEW s \in Watched, SkipSource(s)
  PROVE  LET h == Refreshed(health[s], pass.fp[s])
         IN /\ s \in Source /\ health[s] \in Health /\ pass.fp[s] \in Nat \ {0}
            /\ health' = [health EXCEPT ![s] = h] /\ h \in Health
            /\ health'[s] = h /\ ~Renewed(health[s], pass.fp[s])
            /\ h.fp = pass.fp[s] /\ h.known /\ h.failures = health[s].failures
            /\ h.terminal = health[s].terminal /\ h.tripped = health[s].tripped
<1>1. s \in Source /\ health[s] \in Health /\ pass.fp[s] \in Nat \ {0}
  BY RunnerConstants DEF TypeOK, SkipSource, Turn
<1> DEFINE h == Refreshed(health[s], pass.fp[s])
<1>2. Dead(h) /\ health' = [health EXCEPT ![s] = h]
  BY DEF SkipSource
<1>3. health'[s] = h
  BY <1>1, <1>2 DEF TypeOK
<1> QED BY <1>1, <1>2, <1>3, RefreshedTyped

LEMMA TypeStep == TypeOK /\ [Next]_vars => TypeOK'
<1> SUFFICES ASSUME TypeOK, [Next]_vars PROVE TypeOK'
  OBVIOUS
<1> USE RunnerConstants
<1>1. CASE BeginPass
  <2>1. \A s \in Source : [health[s] EXCEPT !.known = TRUE] \in Health
    BY KnownTyped DEF TypeOK
  <2>2. health' \in [Source -> Health]
    BY <1>1, <2>1 DEF BeginPass, TypeOK
  <2>3. age' \in [Extras -> 0 .. Cadence]
    <3>1. \A a \in 0 .. Cadence : Older(a) \in 0 .. Cadence
      BY DEF Older
    <3> QED BY <1>1, <3>1 DEF BeginPass, TypeOK
  <2>4. /\ pass' \in [running : BOOLEAN, fp : [Source -> Endpoints \cup {0}],
                     left : SUBSET Watched]
        /\ pass'.fp \in [Source -> Endpoints]
    <3>1. config.fp \in [Source -> Endpoints]
      BY DEF TypeOK, Config
    <3>2. {Default} \cup {s \in Extras : Due(s)} \in SUBSET Watched
      BY DEF Extras
    <3> QED BY <1>1, <3>1, <3>2 DEF BeginPass
  <2> QED BY <1>1, <2>2, <2>3, <2>4 DEF BeginPass, TypeOK, ghosts
<1>2. CASE ResolveFails
  BY <1>2 DEF ResolveFails, TypeOK, ghosts
<1>3. CASE StopWhenDisabled
  BY <1>3 DEF StopWhenDisabled, TypeOK, ghosts
<1>4. CASE EndPass
  <2>1. health[Default].failures \in Nat
    BY DEF TypeOK, Health
  <2> QED BY <1>4, <2>1 DEF EndPass, NoPass, TypeOK, ghosts
<1>5. ASSUME NEW s \in Watched, SkipSource(s) PROVE TypeOK'
  <2>1. health' \in [Source -> Health]
    BY <1>5, SkipHealth DEF TypeOK
  <2> QED BY <1>5, <2>1 DEF SkipSource, TypeOK, ghosts
<1>6. ASSUME NEW s \in Watched, NEW r \in Results, NEW taken \in SUBSET Writes,
             Ran(s, r, taken)
      PROVE  TypeOK'
  <2>1. health' \in [Source -> Health] /\ s \in Source /\ pass.fp[s] \in Nat
    BY <1>6, SegmentHealth DEF TypeOK
  <2>2. notes' \in [Source -> Nat]
    BY <1>6 DEF Segment, Ran, TypeOK
  <2>3. barren' \in [Source -> Nat] /\ refused' \in [Source -> Nat]
    BY <1>6, <2>1 DEF Segment, Ran, TypeOK
  <2>4. age' \in [Extras -> 0 .. Cadence]
    BY <1>6 DEF Segment, Ran, TypeOK
  <2> QED BY <1>6, <2>1, <2>2, <2>3, <2>4 DEF Segment, Ran, TypeOK
<1>7. ASSUME NEW s \in Source, StatusFor(s) PROVE TypeOK'
  <2>1. [health[s] EXCEPT !.known = TRUE] \in Health
    BY KnownTyped DEF TypeOK
  <2> QED BY <1>7, <2>1 DEF StatusFor, TypeOK, ghosts
<1>8. ASSUME NEW s \in Source, Fix(s) PROVE TypeOK'
  BY <1>8 DEF Fix, TypeOK, Config, ghosts
<1>9. CASE Reconfigure
  BY <1>9 DEF Reconfigure, TypeOK, Config, ghosts
<1>10. CASE Restart
  BY <1>10, NewHealthTyped DEF Restart, TypeOK, NoPass, ghosts
<1>11. CASE UNCHANGED vars
  BY <1>11 DEF vars, TypeOK, ghosts
<1> QED BY <1>1, <1>2, <1>3, <1>4, <1>5, <1>6, <1>7, <1>8, <1>9, <1>10, <1>11
        DEF Next, Loop, RunSegment, Ran

LEMMA QuietSteps ==
  ASSUME TypeOK, [Next]_vars
  PROVE  \/ Quiet
         \/ Restart
         \/ \E s \in Watched, r \in Results, taken \in SUBSET Writes : Ran(s, r, taken)
<1>1. CASE BeginPass
  <2>1. \A s \in Source : health'[s] \in {health[s], [health[s] EXCEPT !.known = TRUE]}
    BY <1>1 DEF BeginPass
  <2> QED BY <1>1, <2>1, KnownTyped DEF BeginPass, Quiet, ghosts, TypeOK
<1>2. CASE ResolveFails \/ StopWhenDisabled \/ EndPass
  BY <1>2 DEF ResolveFails, StopWhenDisabled, EndPass, Quiet, ghosts
<1>3. ASSUME NEW s \in Watched, SkipSource(s) PROVE Quiet
  <2>1. \A u \in Source : u # s => health'[u] = health[u]
    BY <1>3, SkipHealth DEF TypeOK
  <2> QED BY <1>3, <2>1, SkipHealth DEF SkipSource, Quiet, ghosts
<1>4. ASSUME NEW s \in Source, StatusFor(s) PROVE Quiet
  <2>1. \A u \in Source : health'[u] \in {health[u], [health[u] EXCEPT !.known = TRUE]}
    BY <1>4 DEF StatusFor, TypeOK
  <2> QED BY <1>4, <2>1, KnownTyped DEF StatusFor, Quiet, ghosts, TypeOK
<1>5. ASSUME NEW s \in Source, Fix(s) PROVE Quiet
  BY <1>5 DEF Fix, Quiet, ghosts
<1>6. CASE Reconfigure \/ UNCHANGED vars
  BY <1>6 DEF Reconfigure, vars, Quiet, ghosts
<1> QED BY <1>1, <1>2, <1>3, <1>4, <1>5, <1>6 DEF Next, Loop, RunSegment, Ran

\* A new process has new breakers and nothing counted.
LEMMA RestartHealth ==
  ASSUME Restart, NEW s \in Source
  PROVE  /\ health'[s].fp = 0 /\ health'[s].failures = 0
         /\ health'[s].terminal = FALSE /\ health'[s].tripped = FALSE
         /\ notes'[s] = 0 /\ lost'[s] = FALSE /\ refused'[s] = 0 /\ barren'[s] = 0
BY DEF Restart, NewHealth

-----------------------------------------------------------------------------
(* What a segment does to its breaker, by what it came to. *)

LEMMA CountedIs ==
  ASSUME NEW h \in Health
  PROVE  /\ Counted(h).failures = h.failures + 1
         /\ Counted(h).tripped <=> h.failures + 1 >= FailureTrip
         /\ Counted(h).terminal = h.terminal
BY DEF Counted, Health

LEMMA WriteIs ==
  ASSUME NEW h \in Health, ~Dead(h), NEW r \in Results
  PROVE  /\ r.credentials => AfterWrite(h, r).tripped /\ AfterWrite(h, r).terminal
         /\ ~r.credentials /\ r.failed => AfterWrite(h, r) = Counted(h)
         /\ ~r.credentials /\ ~r.failed =>
              /\ AfterWrite(h, r).failures = 0
              /\ ~AfterWrite(h, r).tripped /\ ~AfterWrite(h, r).terminal
         /\ AfterFault(h, r).failures = Counted(h).failures
         /\ AfterFault(h, r).tripped = Counted(h).tripped
         /\ AfterFault(h, r).terminal = r.credentials
<1>1. ~h.tripped /\ ~h.terminal
  BY DEF Dead
<1>2. r.credentials => AfterWrite(h, r).tripped /\ AfterWrite(h, r).terminal
  BY DEF AfterWrite, Health
<1>3. ~r.credentials /\ r.failed => AfterWrite(h, r) = Counted(h)
  BY DEF AfterWrite
<1>4. ~r.credentials /\ ~r.failed => AfterWrite(h, r) = [h EXCEPT !.failures = 0]
  BY DEF AfterWrite
<1>5. [h EXCEPT !.failures = 0].failures = 0
      /\ [h EXCEPT !.failures = 0].tripped = h.tripped
      /\ [h EXCEPT !.failures = 0].terminal = h.terminal
  BY DEF Health
<1>6. /\ AfterFault(h, r).failures = Counted(h).failures
      /\ AfterFault(h, r).tripped = Counted(h).tripped
      /\ AfterFault(h, r).terminal = r.credentials
  BY DEF AfterFault, Counted, Health
<1> QED BY <1>1, <1>2, <1>3, <1>4, <1>5, <1>6

-----------------------------------------------------------------------------
(* The invariants. *)

\* A source that falls silent says so then, or its store refused a write.
LEMMA SilenceStep ==
  ASSUME TypeOK, SilenceInv, [Next]_vars
  PROVE  SilenceInv'
<1>1. CASE Quiet
  <2>1. \A s \in Source : Dead(health'[s]) <=> Dead(health[s])
    BY <1>1 DEF Quiet, Dead
  <2> QED BY <1>1, <2>1 DEF Quiet, SilenceInv
<1>2. CASE Restart
  <2>1. \A s \in Source : notes'[s] = 0 /\ ~Dead(health'[s])
    BY <1>2, NewHealthTyped DEF Restart
  <2> QED BY <2>1 DEF SilenceInv
<1>3. ASSUME NEW s \in Watched, NEW r \in Results, NEW taken \in SUBSET Writes,
             Ran(s, r, taken)
      PROVE  SilenceInv'
  <2> DEFINE h == Refreshed(health[s], pass.fp[s])
             k == health'[s]
             anew == Renewed(health[s], pass.fp[s])
  <2>1. /\ s \in Source /\ health[s] \in Health /\ pass.fp[s] \in Nat
        /\ h \in Health /\ ~Dead(h) /\ ~h.tripped
        /\ k = IF "tick" \in taken THEN AfterWrite(h, r) ELSE AfterFault(h, r)
        /\ health' = [health EXCEPT ![s] = k]
    BY <1>3, SegmentHealth DEF Dead
  <2>2. ~anew => notes[s] = 0
    BY <2>1, RefreshedTyped DEF SilenceInv, Dead
  <2>3. notes'[s] = (IF anew THEN 0 ELSE notes[s])
                    + (IF k.tripped /\ ~h.tripped /\ "event" \in taken THEN 1 ELSE 0)
    BY <1>3, <2>1 DEF Segment, Ran, TypeOK
  <2>4. notes'[s] = IF k.tripped /\ "event" \in taken THEN 1 ELSE 0
    BY <2>1, <2>2, <2>3
  <2>5. lost'[s] <=> Dead(k) /\ taken # Writes
    BY <1>3, <2>1 DEF Segment, Ran, TypeOK
  <2>6. "tick" \in taken /\ k.terminal => k.tripped
    <3>1. ~h.terminal
      BY <2>1 DEF Dead
    <3> QED BY <2>1, <3>1, WriteIs, CountedIs
  <2>7. taken = Writes <=> "tick" \in taken /\ "event" \in taken
    BY DEF Writes
  <2>8. /\ notes'[s] \in {0, 1}
        /\ notes'[s] = 1 => Dead(k)
        /\ Dead(k) /\ notes'[s] = 0 => lost'[s]
    BY <2>4, <2>5, <2>6, <2>7 DEF Dead
  <2>9. \A u \in Source : u # s => /\ health'[u] = health[u]
                                   /\ notes'[u] = notes[u] /\ lost'[u] = lost[u]
    BY <1>3, <2>1 DEF Segment, Ran, TypeOK
  <2> HIDE DEF k
  <2> QED BY <2>8, <2>9 DEF SilenceInv, Dead, k
<1> QED BY <1>1, <1>2, <1>3, QuietSteps

\* With whole plans, a breaker that lives has counted every fruitless pass.
LEMMA BreakerStep ==
  ASSUME TypeOK, BreakerInv, [Next]_vars
  PROVE  BreakerInv'
<1>1. CASE Quiet
  BY <1>1 DEF Quiet, BreakerInv, Dead
<1>2. CASE Restart
  <2>1. \A s \in Source : barren'[s] = 0 /\ health'[s].failures = 0
    BY <1>2, RestartHealth
  <2> QED BY <2>1, RunnerConstants DEF BreakerInv
<1>3. ASSUME NEW s \in Watched, NEW r \in Results, NEW taken \in SUBSET Writes,
             Ran(s, r, taken)
      PROVE  BreakerInv'
  <2> DEFINE h == Refreshed(health[s], pass.fp[s])
             k == health'[s]
             anew == Renewed(health[s], pass.fp[s])
             n == IF anew THEN 0 ELSE barren[s]
  <2>1. /\ s \in Source /\ health[s] \in Health /\ pass.fp[s] \in Nat
        /\ h \in Health /\ ~Dead(h)
        /\ k = IF "tick" \in taken THEN AfterWrite(h, r) ELSE AfterFault(h, r)
        /\ health' = [health EXCEPT ![s] = k] /\ k \in Health
    BY <1>3, SegmentHealth
  <2>2. n \in Nat /\ h.failures \in Nat /\ n <= h.failures /\ n < FailureTrip
        /\ h.failures < FailureTrip
    <3>1. barren[s] \in Nat /\ h.failures \in Nat
      BY <2>1 DEF TypeOK, Health
    <3>2. CASE anew
      <4>1. h.failures = 0
        BY <2>1, <3>2, RefreshedTyped
      <4>2. n = 0
        BY <3>2
      <4> QED BY <4>1, <4>2, RunnerConstants
    <3>3. CASE ~anew
      <4>1. h.failures = health[s].failures /\ ~Dead(health[s])
        BY <2>1, <3>3, RefreshedTyped DEF Dead
      <4>2. barren[s] <= health[s].failures /\ health[s].failures < FailureTrip
        BY <2>1, <4>1 DEF BreakerInv
      <4> QED BY <3>1, <3>3, <4>1, <4>2, RunnerConstants
    <3> QED BY <3>2, <3>3
  <2>3. barren'[s] = IF r.failed THEN n + 1 ELSE 0
    BY <1>3, <2>1, <2>2, RunnerConstants DEF Segment, Ran, TypeOK
  <2>5. ~Dead(k) /\ r.failed =>
          k.failures = h.failures + 1 /\ h.failures + 1 < FailureTrip
    BY <2>1, <2>2, WriteIs, CountedIs, RunnerConstants DEF Dead
  <2>6. ~Dead(k) /\ ~r.failed => k.failures < FailureTrip
    BY <2>1, <2>2, WriteIs, CountedIs, RunnerConstants DEF Dead
  <2>7. barren'[s] <= FailureTrip
    BY <2>2, <2>3, RunnerConstants
  <2>8. ~Dead(k) => barren'[s] <= k.failures /\ k.failures < FailureTrip
    BY <2>1, <2>2, <2>3, <2>5, <2>6 DEF Health
  <2>9. \A u \in Source : u # s => health'[u] = health[u] /\ barren'[u] = barren[u]
    BY <1>3, <2>1 DEF TypeOK, Segment, Ran
  <2> HIDE DEF k
  <2> QED BY <2>7, <2>8, <2>9 DEF BreakerInv, k
<1> QED BY <1>1, <1>2, <1>3, QuietSteps

\* A segment is run only against an endpoint that has not refused.
LEMMA AskedAnew ==
  ASSUME TypeOK, RefusalInv, NEW s \in Watched, NEW r \in Results,
         NEW taken \in SUBSET Writes, Ran(s, r, taken)
  PROVE  refused[s] # pass.fp[s]
<1> DEFINE h == Refreshed(health[s], pass.fp[s])
<1>1. /\ s \in Source /\ health[s] \in Health /\ pass.fp[s] \in Nat \ {0}
      /\ ~Dead(h)
  BY SegmentHealth
<1> SUFFICES ASSUME refused[s] = pass.fp[s] PROVE FALSE
  OBVIOUS
<1>3. health[s].fp = pass.fp[s] /\ health[s].terminal
  BY <1>1 DEF RefusalInv
<1>4. ~Renewed(health[s], pass.fp[s])
  BY <1>3 DEF Renewed
<1>5. h.terminal = health[s].terminal
  BY <1>1, <1>4, RefreshedTyped
<1> QED BY <1>1, <1>3, <1>5 DEF Dead

\* A breaker stays terminal as long as it is of the endpoint that refused.
LEMMA RefusalStep ==
  ASSUME TypeOK, RefusalInv, [Next]_vars
  PROVE  RefusalInv'
<1> DEFINE Same == /\ UNCHANGED refused
                   /\ \A s \in Source : health'[s].fp = health[s].fp
                                      /\ health'[s].terminal = health[s].terminal
<1>1. CASE Same
  BY <1>1 DEF RefusalInv
<1>2. CASE BeginPass
  <2>1. \A s \in Source : health'[s] \in {health[s], [health[s] EXCEPT !.known = TRUE]}
    BY <1>2 DEF BeginPass
  <2>2. Same
    BY <1>2, <2>1, KnownTyped DEF BeginPass, ghosts, TypeOK
  <2> QED BY <1>1, <2>2
<1>3. CASE ResolveFails \/ StopWhenDisabled \/ EndPass \/ Reconfigure \/ UNCHANGED vars
  <2>1. Same
    BY <1>3 DEF ResolveFails, StopWhenDisabled, EndPass, Reconfigure, vars, ghosts
  <2> QED BY <1>1, <2>1
<1>5. ASSUME NEW s \in Watched, SkipSource(s) PROVE RefusalInv'
  <2> DEFINE k == health'[s]
  <2>1. /\ s \in Source /\ health[s] \in Health
        /\ ~Renewed(health[s], pass.fp[s]) /\ k.fp = pass.fp[s]
        /\ k.terminal = health[s].terminal /\ health' = [health EXCEPT ![s] = k]
    BY <1>5, SkipHealth
  <2>2. refused' = refused
    BY <1>5 DEF SkipSource, ghosts
  <2>3. health[s].fp = 0 \/ k.fp = health[s].fp
    BY <2>1 DEF Renewed
  <2>4. \A u \in Source : u # s => health'[u] = health[u]
    BY <2>1 DEF TypeOK
  <2>5. refused[s] # 0 => k.fp = refused[s] /\ k.terminal
    BY <2>1, <2>3 DEF RefusalInv
  <2> HIDE DEF k
  <2> QED BY <2>2, <2>4, <2>5 DEF RefusalInv, k
<1>6. ASSUME NEW s \in Watched, NEW r \in Results, NEW taken \in SUBSET Writes,
             Ran(s, r, taken)
      PROVE  RefusalInv'
  <2> DEFINE k == health'[s]
  <2>1. /\ s \in Source /\ k.fp = pass.fp[s] /\ k.terminal = r.credentials
        /\ health' = [health EXCEPT ![s] = k]
    BY <1>6, SegmentHealth
  <2>2. refused' = [refused EXCEPT ![s] = IF r.credentials THEN pass.fp[s] ELSE 0]
    BY <1>6 DEF Segment, Ran
  <2>3. refused'[s] # 0 => k.fp = refused'[s] /\ k.terminal
    BY <2>1, <2>2 DEF TypeOK
  <2>4. \A u \in Source : u # s => health'[u] = health[u] /\ refused'[u] = refused[u]
    BY <2>1, <2>2 DEF TypeOK
  <2> HIDE DEF k
  <2> QED BY <2>3, <2>4 DEF RefusalInv, k
<1>7. ASSUME NEW s \in Source, StatusFor(s) PROVE RefusalInv'
  <2>1. \A u \in Source : health'[u] \in {health[u], [health[u] EXCEPT !.known = TRUE]}
    BY <1>7 DEF StatusFor, TypeOK
  <2>2. Same
    BY <1>7, <2>1, KnownTyped DEF StatusFor, ghosts, TypeOK
  <2> QED BY <1>1, <2>2
<1>8. ASSUME NEW s \in Source, Fix(s) PROVE RefusalInv'
  BY <1>8 DEF Fix, ghosts, RefusalInv
<1>10. CASE Restart
  BY <1>10, RestartHealth DEF RefusalInv
<1> HIDE DEF Same
<1> QED BY <1>2, <1>3, <1>5, <1>6, <1>7, <1>8, <1>10
        DEF Next, Loop, RunSegment, Ran

\* With budgets that stay valid, only a pass that found everything dead ends
\* the loop as tripped.
LEMMA LoopStep ==
  ASSUME ~LimitsMayBreak, TypeOK, LoopInv, [Next]_vars
  PROVE  LoopInv'
<1> USE RunnerConstants
<1>1. CASE BeginPass
  <2>1. state' = "running" /\ pass'.running /\ loop' = "alive" /\ config' = config
        /\ Default \in pass'.left
    BY <1>1 DEF BeginPass
  <2>2. \A s \in Watched : s # Default => health'[s].known
    BY <1>1, KnownTyped DEF BeginPass, TypeOK, Extras
  <2> QED BY <2>1, <2>2 DEF LoopInv
<1>2. CASE ResolveFails
  BY <1>2 DEF ResolveFails, LoopInv
<1>3. CASE StopWhenDisabled
  BY <1>3 DEF StopWhenDisabled, LoopInv
<1>4. CASE EndPass
  <2>1. UNCHANGED <<config, health>> /\ pass'.running = FALSE
        /\ pass.running /\ pass.left = {}
    BY <1>4 DEF EndPass, NoPass
  <2>2. \A s \in Watched : s \in Known
    BY <2>1 DEF LoopInv, Known
  <2>3. state' = "tripped" => loop' = "ended" /\ \A s \in Watched : Dead(health[s])
    BY <1>4, <2>2 DEF EndPass
  <2> QED BY <2>1, <2>3 DEF LoopInv
<1>5. ASSUME NEW s \in Watched, NEW k \in Health, k.known,
             health' = [health EXCEPT ![s] = k],
             Turn(s), pass' = [pass EXCEPT !.left = @ \ {s}],
             UNCHANGED <<config, loop, state>>
      PROVE  LoopInv'
  <2>1. pass.running /\ pass'.running = pass.running /\ pass'.left = pass.left \ {s}
    BY <1>5 DEF Turn, TypeOK
  <2>2. \A u \in Watched : health'[u] = IF u = s THEN k ELSE health[u]
    BY <1>5 DEF TypeOK
  <2>3. \A u \in Watched : u # Default \/ Default \notin pass'.left => health'[u].known
    BY <1>5, <2>1, <2>2 DEF LoopInv
  <2>4. config'.limits /\ loop' = "alive" /\ state' = "running"
    BY <1>5, <2>1 DEF LoopInv
  <2> QED BY <2>1, <2>3, <2>4 DEF LoopInv
<1>6. ASSUME NEW s \in Watched, SkipSource(s) PROVE LoopInv'
  <2>1. /\ health' = [health EXCEPT ![s] = health'[s]]
        /\ health'[s] \in Health /\ health'[s].known
    BY <1>6, SkipHealth
  <2> DEFINE k == health'[s]
  <2>2. k \in Health /\ k.known /\ health' = [health EXCEPT ![s] = k]
    BY <2>1
  <2> HIDE DEF k
  <2> QED BY <1>5, <1>6, <2>2 DEF SkipSource
<1>7. ASSUME NEW s \in Watched, NEW r \in Results, NEW taken \in SUBSET Writes,
             Ran(s, r, taken)
      PROVE  LoopInv'
  <2>1. health'[s] \in Health /\ health'[s].known
        /\ health' = [health EXCEPT ![s] = health'[s]]
    BY <1>7, SegmentHealth
  <2> DEFINE k == health'[s]
  <2>2. k \in Health /\ k.known /\ health' = [health EXCEPT ![s] = k]
    BY <2>1
  <2> HIDE DEF k
  <2> QED BY <1>5, <1>7, <2>2 DEF Segment, Ran
<1>8. ASSUME NEW s \in Source, StatusFor(s) PROVE LoopInv'
  <2>1. \A u \in Source : health'[u] \in {health[u], [health[u] EXCEPT !.known = TRUE]}
    BY <1>8 DEF StatusFor, TypeOK
  <2>2. UNCHANGED <<config, loop, state, pass>>
    BY <1>8 DEF StatusFor
  <2>3. \A u \in Source : /\ health[u].known => health'[u].known
                          /\ Dead(health[u]) => Dead(health'[u])
    <3> TAKE u \in Source
    <3>1. health[u] \in Health
      BY DEF TypeOK
    <3>2. CASE health'[u] = health[u]
      BY <3>2 DEF Dead
    <3>3. CASE health'[u] = [health[u] EXCEPT !.known = TRUE]
      BY <3>1, <3>3, KnownTyped DEF Dead
    <3> QED BY <2>1, <3>2, <3>3
  <2>4. \A u \in Watched : u \in Source
    OBVIOUS
  <2>5. state' = "tripped" => loop' = "ended" /\ \A u \in Watched : Dead(health'[u])
    BY <2>2, <2>3, <2>4 DEF LoopInv
  <2>6. pass'.running =>
          \A u \in Watched : u # Default \/ Default \notin pass'.left => health'[u].known
    BY <2>2, <2>3, <2>4 DEF LoopInv
  <2> QED BY <2>2, <2>5, <2>6 DEF LoopInv, Dead
<1>9. ASSUME NEW s \in Source, Fix(s) PROVE LoopInv'
  BY <1>9 DEF Fix, LoopInv, TypeOK, Config
<1>10. CASE Reconfigure
  BY <1>10 DEF Reconfigure, LoopInv, TypeOK, Config
<1>11. CASE Restart
  BY <1>11 DEF Restart, NoPass, LoopInv
<1>12. CASE UNCHANGED vars
  BY <1>12 DEF vars, LoopInv
<1> QED BY <1>1, <1>2, <1>3, <1>4, <1>6, <1>7, <1>8, <1>9, <1>10, <1>11, <1>12
        DEF Next, Loop, RunSegment, Ran

LEMMA InitHolds ==
  Init => TypeOK /\ SilenceInv /\ BreakerInv /\ RefusalInv /\ LoopInv
<1> SUFFICES ASSUME Init PROVE TypeOK /\ SilenceInv /\ BreakerInv /\ RefusalInv /\ LoopInv
  OBVIOUS
<1>1. TypeOK
  BY RunnerConstants, NewHealthTyped DEF Init, TypeOK, Config, NoPass
<1>2. SilenceInv
  <2>1. \A s \in Source : notes[s] = 0 /\ ~Dead(health[s])
    BY NewHealthTyped DEF Init
  <2>2. 0 # 1
    OBVIOUS
  <2> QED BY <2>1, <2>2, Zenon DEF SilenceInv
<1>3. \A s \in Source :
        /\ health[s].failures = 0 /\ health[s].fp = 0
        /\ barren[s] = 0 /\ refused[s] = 0
  BY DEF Init, NewHealth
<1>4. BreakerInv
  <2>1. 0 <= FailureTrip /\ 0 < FailureTrip /\ 0 <= 0
    BY RunnerConstants
  <2> QED BY <1>3, <2>1 DEF BreakerInv
<1>6. RefusalInv
  BY <1>3 DEF RefusalInv
<1>7. LoopInv
  BY DEF Init, LoopInv, NoPass
<1> QED BY <1>1, <1>2, <1>4, <1>6, <1>7

-----------------------------------------------------------------------------
(* The theorems. *)

\* The loop keeps its types, whatever the segments come to and however often
\* the configuration and the process change.
THEOREM TypeCorrect == Spec => []TypeOK
<1>1. Init => TypeOK
  BY InitHolds
<1> QED BY <1>1, TypeStep, PTL DEF Spec

\* ticker.py's _trip: a source says at most once that it fell silent, and is
\* silent without a word only if its store refused a write in that pass.
THEOREM SilenceIsDisclosed == Spec => []SilenceDisclosed
<1> DEFINE I == TypeOK /\ SilenceInv
<1>1. Init => I
  BY InitHolds
<1>2. I /\ [Next]_vars => I'
  BY TypeStep, SilenceStep
<1>3. I => SilenceDisclosed
  <2> SUFFICES ASSUME SilenceInv, NEW s \in Watched
               PROVE  /\ notes[s] <= 1
                      /\ notes[s] = 1 => Dead(health[s])
                      /\ Dead(health[s]) /\ notes[s] = 0 => lost[s]
      BY DEF SilenceDisclosed
  <2>1. s \in Source
    BY RunnerConstants
  <2>2. notes[s] \in {0, 1} => notes[s] <= 1
    OBVIOUS
  <2> QED BY <2>1, <2>2 DEF SilenceInv
<1> QED BY <1>1, <1>2, <1>3, PTL DEF Spec

\* _run_segment's epilogue: no source is asked in more passes in a row that
\* failed whole than failure_trip allows, whatever its store does meanwhile.
THEOREM DeadDatabasesTrip == Spec => []DeadDatabaseTrips
<1> DEFINE I == TypeOK /\ BreakerInv
<1>1. Init => I
  BY InitHolds
<1>2. I /\ [Next]_vars => I'
  BY TypeStep, BreakerStep
<1>3. I => DeadDatabaseTrips
  BY RunnerConstants DEF BreakerInv, DeadDatabaseTrips
<1> QED BY <1>1, <1>2, <1>3, PTL DEF Spec

\* _tick_source: after an endpoint refused the credentials, the next one its
\* source is asked at is another one, with failing stores too and however often
\* the configuration is changed.
THEOREM RefusedNeverAskedAgain == Spec => RefusedNotAskedAgain
<1> DEFINE I == TypeOK /\ RefusalInv
           A == \A s \in Watched : refused[s] = pass.fp[s] => ~RunSegment(s)
<1>1. Init => I
  BY InitHolds
<1>2. I /\ [Next]_vars => I'
  BY TypeStep, RefusalStep
<1>3. I => A
  BY AskedAnew DEF RunSegment, Ran
<1>4. I /\ [Next]_vars => [A]_vars
  BY <1>3
<1> QED BY <1>1, <1>2, <1>4, PTL DEF Spec, RefusedNotAskedAgain

\* _reconcile_state: while the budgets stay in bounds, the runner reads
\* "tripped" only when each watched source is dead.
THEOREM OneSiloStopsNobody ==
  ASSUME ~LimitsMayBreak
  PROVE  Spec => []OneSiloDoesNotStopOthers
<1> DEFINE I == TypeOK /\ LoopInv
<1>1. Init => I
  BY InitHolds
<1>2. I /\ [Next]_vars => I'
  BY TypeStep, LoopStep
<1>3. I => OneSiloDoesNotStopOthers
  BY DEF LoopInv, OneSiloDoesNotStopOthers
<1> QED BY <1>1, <1>2, <1>3, PTL DEF Spec
=============================================================================
