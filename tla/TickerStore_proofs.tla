------------------------- MODULE TickerStore_proofs -------------------------
(***************************************************************************)
(* Theorems about TickerStore, for every set of checks, endpoints, counts  *)
(* and periods and for every bound.                                        *)
(***************************************************************************)
EXTENDS TickerStore, TLAPS

USE DEF store, history

-----------------------------------------------------------------------------
(* The operators a write is built from *)

\* What a check reports has the type of what a row stores.
LEMMA OutcomeType == Outcomes \subseteq State
BY DEF Outcomes, Measurements, Failures, FailingAnswers

\* A row that exists has the type of a row.
LEMMA RowType == TypeOK => \A c \in Check : Known(c) => rows[c] \in Row
BY Zenon DEF TypeOK, Known

\* Inheriting completes an outcome from the stored row, never its status.
LEMMA InheritType ==
  ASSUME TypeOK, NEW c \in Check, NEW s \in State
  PROVE  /\ Inherit(c, s) \in State
         /\ Inherit(c, s).status = s.status
         /\ s.status \notin Failed => Inherit(c, s) = s
<1>1. CASE ~Known(c) \/ s.status \notin Failed
  BY <1>1 DEF Inherit
<1>2. CASE Known(c) /\ s.status \in Failed
  <2>1. rows[c].state \in State
    BY <1>2, RowType DEF Row
  <2>2. /\ rows[c].state.count \in Count \cup {Empty}
        /\ rows[c].state.period \in Period \cup {0}
        /\ rows[c].state.narrowed \in BOOLEAN
    BY <2>1 DEF State
  <2>3. /\ s.count \in Count \cup {Empty} /\ s.period \in Period \cup {0}
        /\ s.status \in Measured \cup Failed
        /\ s.category \in Category \cup {Quiet}
    BY DEF State
  <2> QED
    BY <1>2, <2>2, <2>3 DEF Inherit, State
<1> QED
  BY <1>1, <1>2

\* The row a write leaves is a row; a row whose verdict moved is dated by the
\* tick, any other keeps its date.
LEMMA UpsertType ==
  ASSUME TypeOK, NEW c \in Check, NEW s \in State
  PROVE  /\ Upsert(c, s) \in Row
         /\ Upsert(c, s).state = s
         /\ Upsert(c, s).changed =
              IF ~Known(c) \/ VerdictMoved(rows[c].state, s)
              THEN tick.at ELSE rows[c].changed
<1>1. tick.at \in Nat
  BY DEF TypeOK
<1>2. Known(c) => rows[c].changed \in Nat
  BY RowType DEF Row
<1> QED
  BY <1>1, <1>2 DEF Upsert, Row

\* Every comparison has an event kind the store accepts.
LEMMA DiffType ==
  ASSUME NEW c \in Check, NEW s \in State
  PROVE  Diff(c, s) \in Kinds
<1>1. s.status \in Measured \cup Failed
  BY DEF State
<1>2. s.status # "passed" => KindOf[s.status] \in Kinds
  BY <1>1 DEF KindOf, Kinds, Comparisons, Measured, Failed
<1>3. {"baseline", "scope_changed", "worsened", "improved", "none",
       "cleared", "recovered"} \subseteq Kinds
  BY DEF Kinds, Comparisons
<1> QED
  BY <1>2, <1>3 DEF Diff, Compare, StatusEvent

\* What a write leaves of one check.
LEMMA AfterType ==
  ASSUME TypeOK, NEW c \in Check, NEW o \in Outcomes \cup {None}
  PROVE  /\ RowAfter(c, o) \in Row \cup {None}
         /\ EventAfter(c, o) \in Kinds
         /\ MeasuredAfter(c, o) \in Measurement \cup {None}
         /\ SinceAfter(c, o) \in SUBSET {"verdict", "state"}
<1>1. o # None => o \in State
  BY OutcomeType
<1>2. o # None => Inherit(c, o) \in State
  BY <1>1, InheritType
<1>3. RowAfter(c, o) \in Row \cup {None}
  <2>1. CASE o # None
    BY <2>1, <1>2, UpsertType DEF RowAfter
  <2>2. CASE o = None /\ Known(c)
    <3>1. rows[c] \in Row
      BY <2>2, RowType
    <3> QED
      BY <2>2, <3>1 DEF RowAfter, Row
  <2> QED
    BY <2>1, <2>2 DEF RowAfter
<1>4. EventAfter(c, o) \in Kinds
  <2>1. {"no_longer_scheduled", "none"} \subseteq Kinds
    BY DEF Kinds
  <2> QED
    BY <1>2, <2>1, DiffType DEF EventAfter
<1>5. MeasuredAfter(c, o) \in Measurement \cup {None}
  BY <1>1 DEF MeasuredAfter, Measurement, TypeOK
<1>6. SinceAfter(c, o) \in SUBSET {"verdict", "state"}
  BY DEF SinceAfter, Moved, TypeOK
<1> QED
  BY <1>3, <1>4, <1>5, <1>6

-----------------------------------------------------------------------------
(* Types *)

Tick == [pc : {"idle", "resolving", "measuring", "open"},
         at : Nat, db : Endpoint, conf : Endpoint, reset : BOOLEAN]

LEMMA TypeInit == Init => TypeOK
<1> SUFFICES ASSUME Init PROVE TypeOK
  OBVIOUS
<1>1. tick \in Tick
  BY DEF Init, Tick
<1>2. "none" \in Kinds
  BY DEF Kinds
<1> QED
  BY <1>1, <1>2, Zenon DEF Init, TypeOK, Tick

LEMMA TypeWrite == TypeOK /\ Write => TypeOK'
<1> SUFFICES ASSUME TypeOK, Write PROVE TypeOK'
  OBVIOUS
<1>1. PICK out \in [Check -> Outcomes \cup {None}] :
        /\ rows' = [c \in Check |-> RowAfter(c, out[c])]
        /\ told' = [c \in Check |-> EventAfter(c, out[c])]
        /\ measured' = [c \in Check |-> MeasuredAfter(c, out[c])]
        /\ since' = [c \in Check |-> SinceAfter(c, out[c])]
  BY Zenon DEF Write
<1>2. \A c \in Check : out[c] \in Outcomes \cup {None}
  BY <1>1
<1>3. /\ rows' \in [Check -> Row \cup {None}]
      /\ told' \in [Check -> Kinds]
      /\ measured' \in [Check -> Measurement \cup {None}]
      /\ since' \in [Check -> SUBSET {"verdict", "state"}]
  BY <1>1, <1>2, AfterType
<1>4. tick' \in Tick
  BY DEF Write, TypeOK, Tick
<1>5. disclosed' \in BOOLEAN
  BY DEF Write
<1> QED
  BY <1>3, <1>4, <1>5, Zenon DEF Write, TypeOK, Tick

\* The recreated store's tables are empty.
LEMMA EmptyTablesType ==
  EmptyTables => /\ rows' \in [Check -> Row \cup {None}]
                 /\ acks' \in [Check -> Ack \cup {None}]
                 /\ measured' \in [Check -> Measurement \cup {None}]
                 /\ since' \in [Check -> SUBSET {"verdict", "state"}]
BY DEF EmptyTables

LEMMA TypeOpen == TypeOK /\ Open => TypeOK'
<1> SUFFICES ASSUME TypeOK, Open PROVE TypeOK'
  OBVIOUS
<1>1. tick' \in Tick
  BY DEF Open, OpenMatching, OpenFresh, TypeOK, Tick
<1>2. CASE OpenMatching
  BY <1>1, <1>2, Zenon DEF Open, OpenMatching, TypeOK, Tick
<1>3. CASE OpenFresh
  <2>1. /\ kind' \in {"absent", "husk", "ready"}
        /\ bound' \in Endpoint \cup {NoEndpoint}
        /\ disclosed' \in BOOLEAN
    BY <1>3 DEF OpenFresh, TypeOK
  <2>2. EmptyTables
    BY <1>3 DEF OpenFresh
  <2> QED
    BY <1>1, <2>1, <2>2, EmptyTablesType, Zenon DEF Open, TypeOK, Tick
<1> QED
  BY <1>2, <1>3 DEF Open

LEMMA TypeCrash == TypeOK /\ CrashCreating => TypeOK'
<1> SUFFICES ASSUME TypeOK, CrashCreating PROVE TypeOK'
  OBVIOUS
<1>1. tick' \in Tick
  BY DEF CrashCreating, TypeOK, Tick
<1>2. /\ kind' \in {"absent", "husk", "ready"}
      /\ bound' \in Endpoint \cup {NoEndpoint}
      /\ disclosed' \in BOOLEAN
      /\ faults' \in Nat
  BY DEF CrashCreating, TypeOK
<1>3. EmptyTables
  BY DEF CrashCreating
<1> QED
  BY <1>1, <1>2, <1>3, EmptyTablesType, Zenon DEF CrashCreating, TypeOK, Tick

LEMMA TypeAck ==
  ASSUME TypeOK, NEW c \in Check, RecordAck(c) \/ ClearAck(c)
  PROVE  TypeOK'
<1>1. CASE RecordAck(c)
  <2>1. rows[c] \in Row /\ now \in Nat
    BY <1>1, RowType DEF RecordAck, TypeOK
  <2>2. [state |-> rows[c].state, epoch |-> rows[c].changed, at |-> now]
          \in Ack
    BY <2>1 DEF Row, Ack
  <2>3. acks' \in [Check -> Ack \cup {None}]
    BY <1>1, <2>2 DEF RecordAck, TypeOK
  <2>4. since' \in [Check -> SUBSET {"verdict", "state"}]
    BY <1>1 DEF RecordAck, TypeOK
  <2> QED
    BY <1>1, <2>3, <2>4, Zenon DEF RecordAck, TypeOK
<1>2. CASE ClearAck(c)
  <2>1. acks' \in [Check -> Ack \cup {None}]
    BY <1>2 DEF ClearAck, TypeOK
  <2> QED
    BY <1>2, <2>1, Zenon DEF ClearAck, TypeOK
<1> QED
  BY <1>1, <1>2

\* The steps that touch the tick, the clock or the screen only.
LEMMA TypeOther ==
  ASSUME TypeOK,
         \/ BeginTick \/ Resolve \/ OpenFails \/ Abort \/ ReadFeed
         \/ EndpointChanges \/ TimePasses
  PROVE  TypeOK'
<1>1. CASE BeginTick
  <2>1. now' \in Nat /\ tick' \in Tick
    BY <1>1 DEF BeginTick, Clock, TypeOK, Tick
  <2>2. told' \in [Check -> Kinds]
    BY <1>1 DEF BeginTick, Kinds
  <2> QED
    BY <1>1, <2>1, <2>2, Zenon DEF BeginTick, TypeOK, Tick
<1>2. CASE Resolve
  <2>1. tick' \in Tick
    BY <1>2 DEF Resolve, TypeOK, Tick
  <2> QED
    BY <1>2, <2>1, Zenon DEF Resolve, TypeOK, Tick
<1>3. CASE OpenFails
  <2>1. tick' \in Tick
    BY <1>3 DEF OpenFails, TypeOK, Tick
  <2> QED
    BY <1>3, <2>1, Zenon DEF OpenFails, TypeOK, Tick
<1>4. CASE Abort
  <2>1. tick' \in Tick
    BY <1>4 DEF Abort, TypeOK, Tick
  <2>2. faults' \in Nat
    BY <1>4 DEF Abort, TypeOK
  <2> QED
    BY <1>4, <2>1, <2>2, Zenon DEF Abort, TypeOK, Tick
<1>5. CASE ReadFeed
  <2>1. \A c \in Check : Known(c) => rows[c].state \in State
    BY RowType DEF Row
  <2>2. shown' \in [Check -> State \cup {None}]
    BY <1>5, <2>1 DEF ReadFeed
  <2> QED
    BY <1>5, <2>2, Zenon DEF ReadFeed, TypeOK
<1>6. CASE EndpointChanges
  <2>1. endpoint' \in Endpoint
    BY <1>6 DEF EndpointChanges
  <2> QED
    BY <1>6, <2>1, Zenon DEF EndpointChanges, TypeOK
<1>7. CASE TimePasses
  <2>1. now' \in Nat
    BY <1>7 DEF TimePasses, Clock, TypeOK
  <2> QED
    BY <1>7, <2>1, Zenon DEF TimePasses, TypeOK
<1> QED
  BY <1>1, <1>2, <1>3, <1>4, <1>5, <1>6, <1>7

LEMMA TypeStep == TypeOK /\ [Next]_vars => TypeOK'
<1> SUFFICES ASSUME TypeOK, [Next]_vars PROVE TypeOK'
  OBVIOUS
<1>1. CASE UNCHANGED vars
  BY <1>1, Zenon DEF vars, TypeOK
<1>2. CASE Next
  BY <1>2, TypeWrite, TypeOpen, TypeCrash, TypeAck, TypeOther DEF Next
<1> QED
  BY <1>1, <1>2

\* Every variable keeps its type; in particular every event a tick inserts has
\* a kind of EVENT_KINDS.
THEOREM TypeCorrect == Spec => []TypeOK
<1> QED
  BY TypeInit, TypeStep, PTL DEF Spec

-----------------------------------------------------------------------------
(* An acknowledgment covers one episode *)

LEMMA AckInit == Init => AckInv
BY DEF Init, AckInv, Known

\* The rows after a write, and their dates.
LEMMA RowAfterDate ==
  ASSUME TypeOK, NEW c \in Check, NEW o \in Outcomes \cup {None},
         Known(c)
  PROVE  /\ RowAfter(c, o) # None
         /\ RowAfter(c, o).changed \in {tick.at, rows[c].changed}
         /\ "verdict" \in SinceAfter(c, o) /\ "verdict" \notin since[c]
            => RowAfter(c, o).changed = tick.at
<1>1. rows[c] \in Row
  BY RowType
<1>2. o # None => o \in State
  BY OutcomeType
<1>3. o # None => Inherit(c, o) \in State
  BY <1>2, InheritType
<1>4. None \notin Row
  BY NoneAssumption
<1>5. CASE o = None
  <2>1. /\ [rows[c] EXCEPT !.retired = TRUE] \in Row
        /\ [rows[c] EXCEPT !.retired = TRUE].changed = rows[c].changed
    BY <1>1 DEF Row
  <2> QED
    BY <1>4, <1>5, <2>1 DEF RowAfter, SinceAfter
<1>6. CASE o # None
  <2>1. /\ RowAfter(c, o) = Upsert(c, Inherit(c, o))
        /\ SinceAfter(c, o)
             = since[c] \cup Moved(rows[c].state, Inherit(c, o))
    BY <1>6 DEF RowAfter, SinceAfter
  <2>2. "verdict" \in Moved(rows[c].state, Inherit(c, o))
        => VerdictMoved(rows[c].state, Inherit(c, o))
    BY DEF Moved, VerdictMoved
  <2> QED
    BY <1>3, <1>4, <1>6, <2>1, <2>2, UpsertType
<1> QED
  BY <1>5, <1>6

LEMMA AckWrite == TypeOK /\ AckInv /\ Write => AckInv'
<1> SUFFICES ASSUME TypeOK, AckInv, Write PROVE AckInv'
  OBVIOUS
<1>1. PICK out \in [Check -> Outcomes \cup {None}] :
        /\ rows' = [c \in Check |-> RowAfter(c, out[c])]
        /\ told' = [c \in Check |-> EventAfter(c, out[c])]
        /\ measured' = [c \in Check |-> MeasuredAfter(c, out[c])]
        /\ since' = [c \in Check |-> SinceAfter(c, out[c])]
  BY Zenon DEF Write
<1>2. /\ tick'.pc = "idle" /\ tick'.at = tick.at /\ now' = now
      /\ acks' = acks
      /\ tick.pc # "idle" /\ tick.at \in Nat /\ now \in Nat
  BY DEF Write, TypeOK
<1>3. tick.at <= now
  BY DEF AckInv
<1>4. ASSUME NEW c \in Check, Known(c)'
      PROVE  rows'[c].changed <= now
  <2>1. rows'[c] = RowAfter(c, out[c]) /\ out[c] \in Outcomes \cup {None}
    BY <1>1
  <2>2. CASE Known(c)
    <3>1. rows[c].changed <= now
      BY <2>2 DEF AckInv
    <3> QED
      BY <1>3, <2>1, <2>2, <3>1, RowAfterDate
  <2>3. CASE ~Known(c)
    <3>1. out[c] # None
      BY <1>4, <2>1, <2>3 DEF RowAfter, Known
    <3>2. out[c] \in State
      BY <2>1, <3>1, OutcomeType
    <3>3. rows'[c].changed = tick.at
      BY <2>1, <2>3, <3>1, <3>2, InheritType, UpsertType DEF RowAfter
    <3> QED
      BY <1>3, <3>3
  <2> QED
    BY <2>2, <2>3
<1>5. ASSUME NEW c \in Check, acks'[c] # None
      PROVE  /\ Known(c)'
             /\ acks'[c].epoch <= rows'[c].changed
             /\ "verdict" \in since'[c]
                => acks'[c].epoch < rows'[c].changed
  <2>1. /\ rows'[c] = RowAfter(c, out[c])
        /\ since'[c] = SinceAfter(c, out[c])
        /\ out[c] \in Outcomes \cup {None}
    BY <1>1
  <2>2. /\ acks[c] # None
        /\ Known(c)
        /\ rows[c].changed < tick.at
        /\ acks[c].epoch <= rows[c].changed
        /\ "verdict" \in since[c] => acks[c].epoch < rows[c].changed
    BY <1>2, <1>5 DEF AckInv
  <2>3. acks[c].epoch \in Nat /\ rows[c].changed \in Nat
    BY <2>2, RowType DEF TypeOK, Ack, Row
  <2>4. acks[c].epoch < tick.at
    BY <1>2, <2>2, <2>3
  <2> QED
    BY <1>2, <2>1, <2>2, <2>3, <2>4, RowAfterDate DEF Known
<1> QED
  BY <1>2, <1>3, <1>4, <1>5 DEF AckInv

\* Every other step leaves the rows and the acks as they are, empties both, or
\* makes an ack of the row that is there.
LEMMA AckKept ==
  ASSUME TypeOK, AckInv, UNCHANGED <<rows, acks, since>>,
         now' \in Nat, now <= now', tick'.at <= now',
         \/ tick'.pc = "idle"
         \/ tick'.at = now' /\ now < now'
         \/ tick.pc # "idle" /\ tick'.at = tick.at
  PROVE  AckInv'
<1>1. \A c \in Check : Known(c)' <=> Known(c)
  BY DEF Known
<1>2. \A c \in Check : Known(c) => rows[c].changed \in Nat
  BY RowType DEF Row
<1>3. now \in Nat /\ tick.at \in Nat
  BY DEF TypeOK
<1>4. \A c \in Check : Known(c) => rows[c].changed <= now'
  BY <1>2, <1>3 DEF AckInv
<1>5. \A c \in Check : Known(c) /\ tick'.pc # "idle"
                       => rows[c].changed < tick'.at
  <2> SUFFICES ASSUME NEW c \in Check, Known(c), tick'.pc # "idle"
               PROVE  rows[c].changed < tick'.at
    OBVIOUS
  <2>1. CASE tick'.at = now' /\ now < now'
    <3>1. rows[c].changed <= now
      BY DEF AckInv
    <3> QED
      BY <1>2, <1>3, <2>1, <3>1
  <2>2. CASE tick.pc # "idle" /\ tick'.at = tick.at
    BY <2>2 DEF AckInv
  <2> QED
    BY <2>1, <2>2
<1> QED
  BY <1>1, <1>4, <1>5 DEF AckInv

LEMMA AckEmptied ==
  ASSUME TypeOK, AckInv, EmptyTables, now' = now, tick'.at = tick.at
  PROVE  AckInv'
BY DEF AckInv, EmptyTables, Known

LEMMA AckOpen == TypeOK /\ AckInv /\ (Open \/ CrashCreating) => AckInv'
<1> SUFFICES ASSUME TypeOK, AckInv, Open \/ CrashCreating PROVE AckInv'
  OBVIOUS
<1>1. now' = now /\ now \in Nat /\ tick'.at = tick.at /\ tick.pc # "idle"
  BY DEF Open, OpenMatching, OpenFresh, CrashCreating, TypeOK
<1>2. CASE OpenMatching
  <2>1. UNCHANGED <<rows, acks, since>>
    BY <1>2 DEF OpenMatching
  <2>2. tick'.at <= now'
    BY <1>1 DEF AckInv
  <2> QED
    BY <1>1, <2>1, <2>2, AckKept
<1>3. CASE EmptyTables
  BY <1>1, <1>3, AckEmptied
<1> QED
  BY <1>2, <1>3 DEF Open, OpenFresh, CrashCreating

LEMMA AckRecorded ==
  ASSUME TypeOK, AckInv, NEW c \in Check, RecordAck(c) \/ ClearAck(c)
  PROVE  AckInv'
<1>1. UNCHANGED <<rows, tick, now>> /\ \A d \in Check : Known(d)' <=> Known(d)
  BY DEF RecordAck, ClearAck, Known
<1>2. ASSUME NEW d \in Check, acks'[d] # None
      PROVE  /\ Known(d)
             /\ acks'[d].epoch <= rows[d].changed
             /\ "verdict" \in since'[d] => acks'[d].epoch < rows[d].changed
  <2>1. CASE RecordAck(c) /\ d = c
    <3>1. /\ acks'[d] = [state |-> rows[c].state, epoch |-> rows[c].changed,
                         at |-> now]
          /\ since'[d] = {}
          /\ Known(d)
      BY <2>1 DEF RecordAck, TypeOK
    <3>2. rows[d].changed \in Nat
      BY <3>1, RowType DEF Row
    <3> QED
      BY <2>1, <3>1, <3>2
  <2>2. CASE RecordAck(c) /\ d # c
    <3>1. acks'[d] = acks[d] /\ since'[d] = since[d]
      BY <2>2 DEF RecordAck, TypeOK
    <3> QED
      BY <1>2, <3>1 DEF AckInv
  <2>3. CASE ClearAck(c)
    <3>1. acks'[d] \in {acks[d], None} /\ since'[d] = since[d]
      BY <2>3 DEF ClearAck, TypeOK
    <3> QED
      BY <1>2, <3>1 DEF AckInv
  <2> QED
    BY <2>1, <2>2, <2>3
<1> QED
  BY <1>1, <1>2 DEF AckInv

LEMMA AckOther ==
  ASSUME TypeOK, AckInv,
         \/ BeginTick \/ Resolve \/ OpenFails \/ Abort \/ ReadFeed
         \/ EndpointChanges \/ TimePasses \/ UNCHANGED vars
  PROVE  AckInv'
<1>1. UNCHANGED <<rows, acks, since>>
  BY DEF BeginTick, Resolve, OpenFails, Abort, ReadFeed, EndpointChanges,
         TimePasses, vars
<1>2. now \in Nat /\ tick.at \in Nat /\ tick.at <= now
  BY DEF TypeOK, AckInv
<1>3. CASE BeginTick
  <2>1. now' = now + 1 /\ tick'.at = now'
    BY <1>3 DEF BeginTick, Clock
  <2> QED
    BY <1>1, <1>2, <2>1, AckKept
<1>4. CASE TimePasses
  <2>1. now' = now + 1 /\ tick' = tick
    BY <1>4 DEF TimePasses, Clock
  <2> QED
    BY <1>1, <1>2, <2>1, AckKept
<1>5. CASE Resolve \/ OpenFails \/ Abort
  <2>1. now' = now /\ tick'.at = tick.at /\ tick.pc # "idle"
    BY <1>5 DEF Resolve, OpenFails, Abort, TypeOK
  <2> QED
    BY <1>1, <1>2, <2>1, AckKept
<1>6. CASE ReadFeed \/ EndpointChanges \/ UNCHANGED vars
  <2>1. now' = now /\ tick' = tick
    BY <1>6 DEF ReadFeed, EndpointChanges, vars
  <2> QED
    BY <1>1, <1>2, <2>1, AckKept
<1> QED
  BY <1>3, <1>4, <1>5, <1>6

LEMMA AckStep == TypeOK /\ AckInv /\ [Next]_vars => AckInv'
BY AckWrite, AckOpen, AckRecorded, AckOther DEF Next

\* While a row reads as acknowledged, its status, counts and completeness have
\* not moved since the operator acknowledged it.
THEOREM AckOneEpisode == Spec => []AckCoversOneEpisode
<1>1. TypeOK /\ AckInv => AckCoversOneEpisode
  <2> SUFFICES ASSUME TypeOK, AckInv, NEW c \in Check, Acked(c)
               PROVE  "verdict" \notin since[c]
    BY DEF AckCoversOneEpisode
  <2>1. acks[c] # None /\ Known(c) /\ acks[c].epoch = rows[c].changed
    BY DEF Acked
  <2>2. rows[c].changed \in Nat
    BY <2>1, RowType DEF Row
  <2> QED
    BY <2>1, <2>2 DEF AckInv
<1> QED
  BY <1>1, TypeInit, TypeStep, AckInit, AckStep, PTL DEF Spec

-----------------------------------------------------------------------------
(* The baselines are this endpoint's *)

LEMMA EndpointInit == Init => EndpointInv
BY DEF Init, EndpointInv, Matches

LEMMA EndpointWrite == TypeOK /\ EndpointInv /\ Write => EndpointInv'
<1> SUFFICES ASSUME TypeOK, EndpointInv, Write PROVE EndpointInv'
  OBVIOUS
<1>1. PICK out \in [Check -> Outcomes \cup {None}] :
        measured' = [c \in Check |-> MeasuredAfter(c, out[c])]
  BY Zenon DEF Write
<1>2. /\ tick'.pc = "idle" /\ bound' = bound
      /\ tick.db = tick.conf /\ bound = tick.conf
  BY DEF Write, TypeOK, EndpointInv, Matches
<1>3. ASSUME NEW c \in Check, measured'[c] # None
      PROVE  measured'[c].of = bound'
  <2>1. measured'[c] = MeasuredAfter(c, out[c])
    BY <1>1
  <2> QED
    BY <1>2, <1>3, <2>1 DEF MeasuredAfter, EndpointInv
<1> QED
  BY <1>2, <1>3 DEF EndpointInv

LEMMA EndpointStep ==
  ASSUME ~TornContext
  PROVE  TypeOK /\ EndpointInv /\ [Next]_vars => EndpointInv'
<1> SUFFICES ASSUME TypeOK, EndpointInv, [Next]_vars PROVE EndpointInv'
  OBVIOUS
<1>1. CASE BeginTick \/ Resolve \/ OpenFails \/ Abort
  <2>1. UNCHANGED <<endpoint, kind, bound, measured>>
    BY <1>1 DEF BeginTick, Resolve, OpenFails, Abort
  <2>2. CASE BeginTick
    BY <2>1, <2>2 DEF BeginTick, EndpointInv
  <2>3. CASE Resolve
    BY <2>1, <2>3 DEF Resolve, EndpointInv, TypeOK
  <2>4. CASE OpenFails
    BY <2>1, <2>4 DEF OpenFails, EndpointInv, TypeOK
  <2>5. CASE Abort
    BY <2>1, <2>5 DEF Abort, EndpointInv, TypeOK
  <2> QED
    BY <1>1, <2>2, <2>3, <2>4, <2>5
<1>2. CASE Open
  BY <1>2 DEF Open, OpenMatching, OpenFresh, EmptyTables, EndpointInv,
              TypeOK, Matches
<1>3. CASE CrashCreating
  BY <1>3 DEF CrashCreating, EmptyTables, EndpointInv, TypeOK
<1>4. CASE Write
  BY <1>4, EndpointWrite
<1>5. CASE \/ ReadFeed \/ TimePasses \/ UNCHANGED vars
           \/ \E c \in Check : RecordAck(c) \/ ClearAck(c)
  BY <1>5 DEF ReadFeed, TimePasses, vars, RecordAck, ClearAck, EndpointInv,
              Matches
<1>6. CASE EndpointChanges
  BY <1>6 DEF EndpointChanges, EndpointInv, Matches
<1> QED
  BY <1>1, <1>2, <1>3, <1>4, <1>5, <1>6 DEF Next

\* A readable feed shows measurements of the configured database, provided a
\* tick sees one engine and its own configuration.
THEOREM FeedOfThisEndpoint ==
  ASSUME ~TornContext
  PROVE  Spec => []FeedIsThisEndpoint
<1>1. EndpointInv => FeedIsThisEndpoint
  BY DEF EndpointInv, FeedIsThisEndpoint, Readable, Matches
<1>2. TypeOK /\ EndpointInv /\ [Next]_vars => EndpointInv'
  BY EndpointStep
<1> QED
  BY <1>1, <1>2, TypeInit, TypeStep, EndpointInit, PTL DEF Spec

-----------------------------------------------------------------------------
(* What is compared, and what a failure keeps *)

LEMMA BaselineInit == Init => BaselineInv
BY DEF Init, BaselineInv, Known

LEMMA DisjointStatuses == Measured \cap Failed = {}
BY DEF Measured, Failed

\* A write keeps a row's verdict and the last measurement together.
LEMMA BaselineAfter ==
  ASSUME TypeOK, BaselineInv, NEW c \in Check,
         NEW o \in Outcomes \cup {None}
  PROVE  /\ RowAfter(c, o) = None => MeasuredAfter(c, o) = None
         /\ RowAfter(c, o) # None
            /\ RowAfter(c, o).state.status \in Measured
            => /\ MeasuredAfter(c, o) # None
               /\ MeasuredAfter(c, o).state = RowAfter(c, o).state
<1>1. None \notin Row /\ None \notin Measurement
  BY NoneAssumption
<1>2. CASE o = None
  <2>1. MeasuredAfter(c, o) = measured[c]
    BY <1>2 DEF MeasuredAfter
  <2>2. CASE Known(c)
    <3>1. /\ RowAfter(c, o) = [rows[c] EXCEPT !.retired = TRUE]
          /\ rows[c] \in Row
      BY <1>2, <2>2, RowType DEF RowAfter
    <3>2. RowAfter(c, o) \in Row /\ RowAfter(c, o).state = rows[c].state
      BY <3>1 DEF Row
    <3> QED
      BY <1>1, <2>1, <2>2, <3>2 DEF BaselineInv
  <2>3. CASE ~Known(c)
    BY <1>2, <2>1, <2>3 DEF RowAfter, BaselineInv
  <2> QED
    BY <2>2, <2>3
<1>3. CASE o # None
  <2>1. o \in State
    BY <1>3, OutcomeType
  <2>2. /\ RowAfter(c, o) \in Row
        /\ RowAfter(c, o).state = Inherit(c, o)
        /\ Inherit(c, o).status = o.status
        /\ o.status \notin Failed => Inherit(c, o) = o
    BY <1>3, <2>1, InheritType, UpsertType DEF RowAfter
  <2>3. CASE o.status \in Measured
    <3>1. MeasuredAfter(c, o) = [state |-> o, of |-> tick.db]
      BY <1>3, <2>3 DEF MeasuredAfter
    <3>2. MeasuredAfter(c, o) \in Measurement
      BY <2>1, <3>1 DEF Measurement, TypeOK
    <3> QED
      BY <1>1, <2>2, <2>3, <3>1, <3>2, DisjointStatuses
  <2>4. CASE o.status \notin Measured
    BY <1>1, <2>2, <2>4
  <2> QED
    BY <2>3, <2>4
<1> QED
  BY <1>2, <1>3

LEMMA BaselineStep == TypeOK /\ BaselineInv /\ [Next]_vars => BaselineInv'
<1> SUFFICES ASSUME TypeOK, BaselineInv, [Next]_vars PROVE BaselineInv'
  OBVIOUS
<1>1. CASE UNCHANGED <<rows, measured>>
  BY <1>1 DEF BaselineInv, Known
<1>2. CASE EmptyTables
  BY <1>2 DEF EmptyTables, BaselineInv, Known
<1>3. CASE Write
  <2>1. PICK out \in [Check -> Outcomes \cup {None}] :
          /\ rows' = [c \in Check |-> RowAfter(c, out[c])]
          /\ told' = [c \in Check |-> EventAfter(c, out[c])]
          /\ measured' = [c \in Check |-> MeasuredAfter(c, out[c])]
          /\ since' = [c \in Check |-> SinceAfter(c, out[c])]
    BY <1>3, Zenon DEF Write
  <2>2. \A c \in Check : /\ rows'[c] = RowAfter(c, out[c])
                         /\ measured'[c] = MeasuredAfter(c, out[c])
                         /\ out[c] \in Outcomes \cup {None}
    BY <2>1
  <2> QED
    BY <2>2, BaselineAfter DEF BaselineInv, Known
<1>4. CASE Next /\ ~Write
  <2>1. UNCHANGED <<rows, measured>> \/ EmptyTables
    BY <1>4 DEF Next, BeginTick, Resolve, Open, OpenMatching, OpenFresh,
                OpenFails, CrashCreating, Abort, ReadFeed, EndpointChanges,
                TimePasses, RecordAck, ClearAck
  <2> QED
    BY <1>1, <1>2, <2>1
<1> QED
  BY <1>1, <1>3, <1>4 DEF vars

\* An event that compares needs a stored verdict in the same world.
LEMMA ComparisonNeeds ==
  ASSUME NEW c \in Check, NEW s \in State, Diff(c, s) \in Comparisons
  PROVE  /\ Known(c)
         /\ rows[c].state.period = s.period
         /\ rows[c].state.narrowed = s.narrowed
         /\ rows[c].state.status \in Measured
         /\ s.status \in Measured
<1>1. /\ Known(c)
      /\ rows[c].state.period = s.period
      /\ rows[c].state.narrowed = s.narrowed
      /\ Diff(c, s) = Compare(rows[c].state, s)
  BY DEF Diff, Comparisons
<1>2. s.status \in Measured \cup Failed
  BY DEF State
<1>3. s.status # "passed" => KindOf[s.status] \notin Comparisons
  BY <1>2 DEF KindOf, Comparisons, Measured, Failed
<1>4. rows[c].state.status = "exceptions_found"
      /\ s.status \in {"passed", "exceptions_found"}
  BY <1>1, <1>3 DEF Compare, StatusEvent, Comparisons
<1> QED
  BY <1>1, <1>4 DEF Measured

LEMMA ComparedAfter ==
  ASSUME TypeOK, BaselineInv, EndpointInv, Write
  PROVE  \A c \in Check : told'[c] \in Comparisons =>
           /\ measured[c] # None
           /\ measured[c].of = measured'[c].of
           /\ measured[c].state.period = measured'[c].state.period
           /\ measured[c].state.narrowed = measured'[c].state.narrowed
<1>1. PICK out \in [Check -> Outcomes \cup {None}] :
        /\ rows' = [c \in Check |-> RowAfter(c, out[c])]
        /\ told' = [c \in Check |-> EventAfter(c, out[c])]
        /\ measured' = [c \in Check |-> MeasuredAfter(c, out[c])]
        /\ since' = [c \in Check |-> SinceAfter(c, out[c])]
  BY Zenon DEF Write
<1> SUFFICES ASSUME NEW c \in Check, told'[c] \in Comparisons
             PROVE  /\ measured[c] # None
                    /\ measured[c].of = measured'[c].of
                    /\ measured[c].state.period = measured'[c].state.period
                    /\ measured[c].state.narrowed
                         = measured'[c].state.narrowed
  OBVIOUS
<1> DEFINE o == out[c]
<1>2. /\ told'[c] = EventAfter(c, o)
      /\ measured'[c] = MeasuredAfter(c, o)
      /\ o \in Outcomes \cup {None}
  BY <1>1
<1>3. o # None /\ Diff(c, Inherit(c, o)) \in Comparisons
  BY <1>2 DEF EventAfter, Comparisons
<1>4. o \in State
  BY <1>2, <1>3, OutcomeType
<1>5. /\ Inherit(c, o) \in State
      /\ Inherit(c, o).status = o.status
      /\ o.status \notin Failed => Inherit(c, o) = o
  BY <1>4, InheritType
<1>6. /\ Known(c)
      /\ rows[c].state.period = Inherit(c, o).period
      /\ rows[c].state.narrowed = Inherit(c, o).narrowed
      /\ rows[c].state.status \in Measured
      /\ o.status \in Measured
  BY <1>3, <1>5, ComparisonNeeds
<1>7. Inherit(c, o) = o
  BY <1>5, <1>6, DisjointStatuses
<1>8. measured'[c] = [state |-> o, of |-> tick.db]
  BY <1>2, <1>3, <1>6 DEF MeasuredAfter
<1>9. measured[c] # None /\ measured[c].state = rows[c].state
  BY <1>6 DEF BaselineInv
<1>10. measured[c].of = tick.db
  BY <1>9 DEF Write, EndpointInv, Matches
<1> QED
  BY <1>6, <1>7, <1>8, <1>9, <1>10

\* An event that says better or worse compares two measurements of one
\* database, one period and one completeness.
THEOREM LikeWithLike ==
  ASSUME ~TornContext
  PROVE  Spec => ComparedLikeWithLike
<1> DEFINE Fair == \A c \in Check :
             told[c] = "none" /\ told'[c] \in Comparisons =>
               /\ measured[c] # None
               /\ measured[c].of = measured'[c].of
               /\ measured[c].state.period = measured'[c].state.period
               /\ measured[c].state.narrowed = measured'[c].state.narrowed
<1>1. TypeOK /\ EndpointInv /\ BaselineInv /\ [Next]_vars => [Fair]_vars
  <2> SUFFICES ASSUME TypeOK, EndpointInv, BaselineInv, Next
               PROVE  Fair
    BY DEF vars
  <2>1. CASE Write
    BY <2>1, ComparedAfter
  <2>2. CASE ~Write
    <3>1. told' = told \/ told' = [c \in Check |-> "none"]
      BY <2>2 DEF Next, BeginTick, Resolve, Open, OpenFails, CrashCreating,
                  Abort, ReadFeed, EndpointChanges, TimePasses, RecordAck,
                  ClearAck
    <3> QED
      BY <3>1 DEF Comparisons
  <2> QED
    BY <2>1, <2>2
<1>2. TypeOK /\ EndpointInv /\ [Next]_vars => EndpointInv'
  BY EndpointStep
<1> QED
  BY <1>1, <1>2, TypeInit, TypeStep, EndpointInit, BaselineInit, BaselineStep,
     PTL DEF Spec, ComparedLikeWithLike
=============================================================================
