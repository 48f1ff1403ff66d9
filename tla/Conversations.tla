---------------------------- MODULE Conversations ----------------------------
(***************************************************************************)
(* pstb/gui/app.py: the conversations behind /api/chat.  A question claims *)
(* its browser session's activity slot, finds or makes the conversation of *)
(* its session, scope and user in a bounded registry, and queues for that  *)
(* conversation's lock: it runs, is refused because the question before it *)
(* was abandoned, or gives up after the queue timeout.  Clear detaches a   *)
(* session's conversations and then resets each one, waiting 5 seconds.    *)
(* The event loop runs one handler at a time between awaits; a question    *)
(* that is woken holds the lock only when it runs again.  A conversation   *)
(* is named by the question that made it, and so is an activity slot.      *)
(***************************************************************************)
EXTENDS Naturals, Sequences, FiniteSets, SequencesExt

CONSTANTS
  Turns,         \* questions; every one is asked once
  Clears,        \* presses of Clear; every one happens once
  Requests,      \* what may be asked: [session, scope, user]
  NoAccess,      \* the user of a question asked while row security is off
  MaxEntries,    \* PSTB_CHAT_MAX_SESSIONS
  ActivityLimit, \* slots _activity holds before it forgets some
  ActivityKept,  \* slots it keeps then
  None

Sessions == {r.session : r \in Requests}
Names == UNION {{r.session, r.scope, r.user} : r \in Requests}
NoOne == Turns \cup {None}
Entries == [key : Seq(Names), conv : Turns]

ASSUME ConversationConstants ==
  /\ None \notin Turns \cup Clears /\ Turns \cap Clears = {}
  /\ Requests \subseteq [session : Names, scope : Names, user : Names]
  /\ MaxEntries \in Nat \ {0}
  /\ ActivityLimit \in Nat \ {0} /\ ActivityKept \in 1..ActivityLimit

VARIABLES
  pc,        \* where each question is
  req,       \* its session, scope and user
  display,   \* _activity: the question whose slot a session shows
  active,    \* slots of questions that have not ended
  displaced, \* the slot its claim displaced
  registry,  \* _entries, least recently touched first: [key, conv]
  conv,      \* the conversation a question got
  holder,    \* who holds a conversation's lock
  queue,     \* who waits for it, in order
  payloads,  \* questions whose results a conversation keeps
  prior,     \* those it had when the question began to run
  cpc,       \* where each Clear is
  csession,  \* the session it clears
  pending,   \* conversations it has not released yet
  resetting, \* conversations whose provider.reset() is in a thread
  followups, \* _suggestions: the question whose follow-ups a session has
  past,      \* ghost: questions whose conversation a Clear detached
  forgotten  \* ghost: past, when the question got its conversation

slots == <<display, active, displaced>>
locks == <<holder, queue>>
history == <<payloads, prior>>
clearing == <<cpc, csession, pending, resetting>>
ghosts == <<past, forgotten>>
vars == <<pc, req, slots, registry, conv, locks, history, clearing, followups,
          ghosts>>

TypeOK ==
  /\ pc \in [Turns -> {"new", "asked", "waiting", "running", "closing",
                       "refused", "done"}]
  /\ req \in [Turns -> Requests]
  /\ display \in [Sessions -> NoOne]
  /\ active \subseteq Turns
  /\ displaced \in [Turns -> NoOne]
  /\ registry \in Seq(Entries)
  /\ conv \in [Turns -> NoOne]
  /\ holder \in [Turns -> NoOne \cup Clears]
  /\ queue \in [Turns -> Seq(Turns \cup Clears)]
  /\ payloads \in [Turns -> SUBSET Turns] /\ prior \in [Turns -> SUBSET Turns]
  /\ cpc \in [Clears -> {"new", "clearing", "done"}]
  /\ csession \in [Clears -> Sessions]
  /\ pending \in [Clears -> SUBSET Turns]
  /\ resetting \subseteq Turns
  /\ followups \in [Sessions -> NoOne]
  /\ past \subseteq Turns /\ forgotten \in [Turns -> SUBSET Turns]

Init ==
  /\ pc = [t \in Turns |-> "new"]
  /\ req \in [Turns -> Requests]
  /\ display = [s \in Sessions |-> None]
  /\ active = {}
  /\ displaced = [t \in Turns |-> None]
  /\ registry = <<>>
  /\ conv = [t \in Turns |-> None]
  /\ holder = [t \in Turns |-> None] /\ queue = [t \in Turns |-> <<>>]
  /\ payloads = [t \in Turns |-> {}] /\ prior = [t \in Turns |-> {}]
  /\ cpc = [c \in Clears |-> "new"]
  /\ csession \in [Clears -> Sessions]
  /\ pending = [c \in Clears |-> {}]
  /\ resetting = {}
  /\ followups = [s \in Sessions |-> None]
  /\ past = {} /\ forgotten = [t \in Turns |-> {}]

Moves(t, from, to) == pc[t] = from /\ pc' = [pc EXCEPT ![t] = to]

-----------------------------------------------------------------------------
(* The activity slot.                                                       *)

Session(t) == req[t].session

\* Finished slots go first; which ones is their order in the dictionary.
Forget(shown, claimed) ==
  LET Used == {s \in Sessions : shown[s] # None}
      Ended == {s \in Used \ {claimed} : shown[s] \notin active}
  IN  IF Cardinality(Used) <= ActivityLimit THEN {{}}
      ELSE {E \in SUBSET (Used \ {claimed}) :
              /\ Cardinality(E) = Cardinality(Used) - ActivityKept
              /\ E \subseteq Ended \/ Ended \subseteq E}

\* _activity_begin
Claim(t) ==
  LET shown == [display EXCEPT ![Session(t)] = t]
  IN  /\ displaced' = [displaced EXCEPT ![t] = display[Session(t)]]
      /\ active' = active \cup {t}
      /\ \E E \in Forget(shown, Session(t)) :
           display' = [s \in Sessions |-> IF s \in E THEN None ELSE shown[s]]

Shows(t, shown) == shown[Session(t)] = t

\* _activity_restore, what the session shows after it
Restored(t) ==
  LET before == displaced[t]
  IN  IF before # None /\ Shows(t, display) /\ before \in active
      THEN [display EXCEPT ![Session(t)] = before] ELSE display

\* _activity_done: the slot is left alone when it is not this question's
Ended(t, shown) ==
  IF Shows(t, shown) THEN active \ {t} ELSE active

-----------------------------------------------------------------------------
(* The registry of conversations.                                           *)

\* Faulty: people who share a browser session share the conversation.
KeyAnyUser(t) == <<req[t].session, req[t].scope>>
\* _provider_key, and the signed-in user when row security names one.
Key(t) == IF req[t].user = NoAccess THEN <<req[t].session, req[t].scope>>
          ELSE <<req[t].session, req[t].scope, req[t].user>>

Locked(e) == holder[e] # None

\* What is left of the sequence r, in its order, without the members of gone.
Without(r, gone) ==
  LET Kept == {i \in DOMAIN r : r[i] \notin gone}
      Place(n) == CHOOSE i \in Kept : Cardinality({j \in Kept : j <= i}) = n
  IN  [n \in 1..Cardinality(Kept) |-> r[Place(n)]]

\* How many entries may be past the TTL (1800 s): none that a question waits
\* for, it touched its entry less than _QUEUE_WAIT (45 s) ago.
Expired == {n \in 0..Len(registry) : \A i \in 1..n : queue[registry[i].conv] = <<>>}

\* _purge
Purged(n) ==
  Without(registry, {r \in {registry[i] : i \in 1..n} : ~Locked(r.conv)})

\* Make room for one more: the least recently touched unlocked entries go.
Evicted(r) ==
  LET Free == {i \in DOMAIN r : ~Locked(r[i].conv)}
      Oldest(i) == Cardinality({j \in Free : j <= i}) <= Len(r) - MaxEntries + 1
  IN  Without(r, {r[i] : i \in {j \in Free : Oldest(j)}})

Entry(r, k) == {entry \in ToSet(r) : entry.key = k}

-----------------------------------------------------------------------------
(* A question.                                                              *)

\* POST /api/chat
Ask(t) ==
  /\ Moves(t, "new", "asked")
  /\ Claim(t)
  /\ UNCHANGED <<req, registry, conv, locks, history, clearing, followups, ghosts>>

\* The handler's finally; what it displaced was its own to know.
Returns(t) ==
  /\ active' = Ended(t, display)
  /\ displaced' = [displaced EXCEPT ![t] = None]

\* Answered or refused before it needs a conversation: a scope question, a
\* scope that does not validate, a grant, an answer engine that does not start.
AnswerEarly(t) ==
  /\ Moves(t, "asked", "done")
  /\ Returns(t)
  /\ UNCHANGED <<req, display, registry, conv, locks, history, clearing, followups,
                 ghosts>>

\* make_provider raised; what was evicted for the new entry stays evicted.
ProviderFails(t) ==
  /\ Moves(t, "asked", "done")
  /\ Returns(t)
  /\ \E n \in Expired :
       /\ Entry(Purged(n), Key(t)) = {}
       /\ registry' = Evicted(Purged(n))
  /\ UNCHANGED <<req, display, conv, locks, history, clearing, followups, ghosts>>

\* The question leaves without a turn and gives the display back.
Leave(t, from) ==
  /\ Moves(t, from, "refused")
  /\ display' = Restored(t)
  /\ active' = Ended(t, display')
  /\ displaced' = [displaced EXCEPT ![t] = None]

\* get_or_create, then the refusal behind a question that runs longer than
\* _ABANDONED_AFTER, which any running question may, or the start of the wait.
JoinConversation(t, e) ==
  /\ conv' = [conv EXCEPT ![t] = e]
  /\ \/ Locked(e) /\ Leave(t, "asked") /\ UNCHANGED <<queue, forgotten>>
     \/ /\ Moves(t, "asked", "waiting")
        /\ forgotten' = [forgotten EXCEPT ![t] = past]
        /\ queue' = [queue EXCEPT ![e] = Append(@, t)]
        /\ UNCHANGED slots

Join(t) ==
  /\ \E n \in Expired :
       LET r == Purged(n)
           found == Entry(r, Key(t))
           entry == IF found = {} THEN [key |-> Key(t), conv |-> t]
                    ELSE CHOOSE x \in found : TRUE
       IN  /\ registry' = Append(IF found = {} THEN Evicted(r) ELSE Without(r, found),
                                 entry)
           /\ JoinConversation(t, entry.conv)
  /\ UNCHANGED <<req, holder, history, clearing, followups, past>>

\* The lock is free and it is this question's turn for it.
Start(t) ==
  LET e == conv[t]
  IN  /\ Moves(t, "waiting", "running")
      /\ ~Locked(e) /\ Head(queue[e]) = t
      /\ holder' = [holder EXCEPT ![e] = t]
      /\ queue' = [queue EXCEPT ![e] = Tail(@)]
      /\ prior' = [prior EXCEPT ![t] = payloads[e]]
      /\ UNCHANGED <<req, slots, registry, conv, payloads, clearing,
                     followups, ghosts>>

\* Faulty: there is no timeout.
GiveUpNever(t) == FALSE

\* _QUEUE_WAIT has passed, possibly just after the lock was released.
GiveUp(t) ==
  /\ Leave(t, "waiting")
  /\ queue' = [queue EXCEPT ![conv[t]] = Without(@, {t})]
  /\ UNCHANGED <<req, registry, conv, holder, history, clearing,
                 followups, ghosts>>

\* tool_observer: the payload of a call that succeeded is kept.
ToolEnds(t) ==
  /\ pc[t] = "running"
  /\ payloads' = [payloads EXCEPT ![conv[t]] = @ \cup {t}]
  /\ UNCHANGED <<pc, req, slots, registry, conv, locks, prior, clearing,
                 followups, ghosts>>

\* agent_turn returned, and the follow-ups come next, or it raised.
Finish(t) ==
  /\ Moves(t, "running", "closing") \/ Moves(t, "running", "done")
  /\ Returns(t)
  /\ holder' = [holder EXCEPT ![conv[t]] = None]
  /\ prior' = [prior EXCEPT ![t] = {}]
  /\ forgotten' = [forgotten EXCEPT ![t] = {}]
  /\ UNCHANGED <<req, display, registry, conv, queue, payloads, clearing, followups,
                 past>>

Answer(t) ==
  /\ Moves(t, "closing", "done")
  /\ followups' = [followups EXCEPT ![Session(t)] = t]
  /\ UNCHANGED <<req, slots, registry, conv, locks, history, clearing, ghosts>>

-----------------------------------------------------------------------------
(* Clear: reset_session and the reset of the follow-ups.                    *)

OfSession(s) == {r \in ToSet(registry) : r.key[1] = s}

\* Faulty: a conversation in use is left where it is.
DetachedIdle(s) == {r \in OfSession(s) : ~Locked(r.conv)}
\* The entries a Clear detaches.
Detached(s) == OfSession(s)

Clear(c) ==
  LET s == csession[c]
      convs == {r.conv : r \in Detached(s)}
  IN  /\ cpc[c] = "new" /\ cpc' = [cpc EXCEPT ![c] = "clearing"]
      /\ registry' = Without(registry, Detached(s))
      /\ pending' = [pending EXCEPT ![c] = convs]
      /\ queue' = [e \in Turns |-> IF e \in convs THEN Append(queue[e], c)
                                   ELSE queue[e]]
      /\ past' = past \cup {t \in Turns : conv[t] # None /\ Session(t) = s}
      /\ UNCHANGED <<pc, req, slots, conv, holder, history, csession,
                     resetting, followups, forgotten>>

\* Faulty: the reset does not wait for the lock.
ResetAnyway(c, e) ==
  /\ e \in pending[c] /\ c \in ToSet(queue[e])
  /\ holder' = [holder EXCEPT ![e] = IF @ = None THEN c ELSE @]
  /\ queue' = [queue EXCEPT ![e] = Without(@, {c})]
  /\ resetting' = resetting \cup {e}
  /\ UNCHANGED <<pc, req, slots, registry, conv, history, cpc, csession,
                 pending, followups, ghosts>>
\* _release has the lock: provider.reset() runs in a thread of its own.
Reset(c, e) ==
  /\ e \in pending[c] /\ queue[e] # <<>> /\ Head(queue[e]) = c
  /\ ~Locked(e)
  /\ holder' = [holder EXCEPT ![e] = c]
  /\ queue' = [queue EXCEPT ![e] = Tail(@)]
  /\ resetting' = resetting \cup {e}
  /\ UNCHANGED <<pc, req, slots, registry, conv, history, cpc, csession,
                 pending, followups, ghosts>>

\* The thread is done; whoever waited for it, if anyone still does, goes on.
ResetEnds(e) ==
  /\ e \in resetting
  /\ resetting' = resetting \ {e}
  /\ holder' = [holder EXCEPT ![e] = IF @ \in Clears THEN None ELSE @]
  /\ pending' = [c \in Clears |-> IF holder[e] = c THEN pending[c] \ {e}
                                  ELSE pending[c]]
  /\ UNCHANGED <<pc, req, slots, registry, conv, queue, history, cpc,
                 csession, followups, ghosts>>

\* Five seconds: the wait, or the reset's caller, is cancelled.
ResetTimesOut(c, e) ==
  /\ e \in pending[c]
  /\ pending' = [pending EXCEPT ![c] = @ \ {e}]
  /\ queue' = [queue EXCEPT ![e] = Without(@, {c})]
  /\ holder' = [holder EXCEPT ![e] = IF @ = c THEN None ELSE @]
  /\ UNCHANGED <<pc, req, slots, registry, conv, history, cpc, csession,
                 resetting, followups, ghosts>>

ClearAnswers(c) ==
  /\ cpc[c] = "clearing" /\ pending[c] = {}
  /\ cpc' = [cpc EXCEPT ![c] = "done"]
  /\ followups' = [followups EXCEPT ![csession[c]] = None]
  /\ UNCHANGED <<pc, req, slots, registry, conv, locks, history, csession, pending,
                 resetting, ghosts>>

-----------------------------------------------------------------------------
ClearStep(c) ==
  \/ Clear(c) \/ ClearAnswers(c)
  \/ \E e \in Turns : Reset(c, e) \/ ResetTimesOut(c, e)

Next ==
  \/ \E t \in Turns :
       \/ Ask(t) \/ AnswerEarly(t) \/ ProviderFails(t) \/ Join(t) \/ Start(t)
       \/ GiveUp(t) \/ ToolEnds(t) \/ Finish(t)
       \/ Answer(t) \/ ResetEnds(t)
  \/ \E c \in Clears : ClearStep(c)

Spec == Init /\ [][Next]_vars

\* Timers fire and the loop resumes what it woke.  Nothing makes a running
\* question, a scope lookup or a reset thread end.
Fairness ==
  /\ \A t \in Turns : WF_vars(GiveUp(t)) /\ WF_vars(Start(t))
  /\ \A c \in Clears :
       /\ WF_vars(ClearAnswers(c))
       /\ \A e \in Turns : WF_vars(ResetTimesOut(c, e))

FairSpec == Spec /\ Fairness

-----------------------------------------------------------------------------
(* Properties.                                                              *)

\* A conversation has one question at a time, the holder of its lock, and
\* provider.reset() never changes its history under that question, not even
\* when the Clear that started it has stopped waiting.
OneAtATime ==
  \A e \in Turns :
    /\ \A t \in Turns : pc[t] = "running" /\ conv[t] = e => holder[e] = t
    /\ e \in resetting => holder[e] \notin Turns

\* What a question is grounded on was fetched by the same person, in the same
\* browser session and scope, whoever else signed in there; or, for a question
\* asked while row security is off, by one that was asked then too.
HistoryOfOnePerson ==
  \A t \in Turns : \A u \in prior[t] : req[u] = req[t]

\* Clear means clear: a question that gets its conversation after a Clear sees
\* no result of a question that had one before, not even of a question that is
\* still running on the detached conversation.
FreshAfterClear == \A t \in Turns : prior[t] \cap forgotten[t] = {}

\* Nobody waits forever behind a question, or a reset, that never ends:
\* neither a question in the queue nor a Clear.
NobodyWaitsForever ==
  /\ \A t \in Turns : pc[t] = "waiting" ~> pc[t] # "waiting"
  /\ \A c \in Clears : cpc[c] = "clearing" ~> cpc[c] = "done"

=============================================================================
