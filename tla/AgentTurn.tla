------------------------------ MODULE AgentTurn ------------------------------
(***************************************************************************)
(* pstb/client/chat.py, agent_turn: one question, asked of a language model *)
(* that may answer with text or with a batch of tool calls.  The turn runs  *)
(* the batch (databases first, the wiki after), records what each call      *)
(* proves, sends the results back, and does so at most MaxRounds times; a   *)
(* text without evidence is sent back with a nudge.  The gates then decide  *)
(* whether the text is shown, replaced or withheld.  Questions follow one   *)
(* another in one conversation, which keeps the last payloads to ground     *)
(* figures of later answers (pstb/gui/app.py).  The model answers as it     *)
(* likes; a figure stands for any amount, a domain for a kind of financial  *)
(* fact.  Calls of a phase overlap in the code, but all of them start       *)
(* before any is recorded and they are recorded in order: a phase is one    *)
(* step.                                                                    *)
(***************************************************************************)
EXTENDS ClaudeTranscript, FiniteSets

CONSTANTS
  Kinds,      \* questions: [intent, needs, scoped, silo]
  Figures,    \* amounts the model or a tool may state
  Domains,    \* kinds of financial fact
  Strict,     \* those that only their own control can establish
  Questions,  \* how many are asked in the conversation
  MaxRounds,  \* MAX_TOOL_ROUNDS
  MaxNudges,  \* MAX_NUDGES
  Batches,    \* the sequences of tool calls one response may hold
  PayloadsKept \* results the conversation keeps for later answers

Wikis == {"wiki_lookup", "wiki_search"}
Databases == {"control", "run_sql", "list_financial_scopes"}
Tools == Databases \cup Wikis \cup {"ask_user"}
\* evidence_intent; a technical question is gated like a general one
Intents == {"data", "policy", "mixed", "technical", "general"}

ASSUME TurnConstants ==
  /\ Kinds \subseteq [intent : Intents, needs : SUBSET Domains,
                       scoped : BOOLEAN, silo : BOOLEAN]
  /\ Strict \subseteq Domains
  /\ Batches \subseteq Seq(Tools) /\ <<>> \in Batches
  /\ MaxRounds \in Nat \ {0} /\ MaxNudges \in Nat /\ Questions \in Nat
  /\ PayloadsKept \in Nat \ {0}

\* What the model sends: its text may state figures, or promise a call (which
\* is read only when there is none).
Responses ==
  {r \in [figures : SUBSET Figures, promises : BOOLEAN, calls : Batches] :
     r.promises => r.calls = <<>>}

NoResponse == [figures |-> {}, promises |-> FALSE, calls |-> <<>>]

\* What a call brings back.  A failed one may list the columns there are.
Fails == [ok |-> FALSE, figures |-> {}, domains |-> {}, columns |-> FALSE]
Brings(domains) ==
  [ok : {TRUE}, figures : SUBSET Figures, domains : domains, columns : {FALSE}]

\* A tool of pstb/server.py always answers with an object: its result, or one
\* that says why it failed (_safe).
Outcomes(tool) ==
  {Fails}
    \cup (IF tool = "run_sql" THEN {[Fails EXCEPT !.columns = TRUE]} ELSE {})
    \cup Brings(IF tool = "control" THEN SUBSET Domains ELSE {{}})

VARIABLES
  stage,     \* idle, send (a request to the model is out), loop, wiki, gates
  asked,     \* questions asked so far
  question,  \* the kind of this one
  log,       \* the provider's transcript
  resp,      \* the model's response that is being dealt with
  rounds,    \* times round the loop
  nudges,
  evidence,  \* db_ok, policy_ok, policy_attempted, scope_blocked,
             \* sql_remedy_pending, covered_financial_domains
  turnPayloads,  \* this turn's results: [some, figures]
  kept,      \* the figures of each of the conversation's last payloads
  priorPayloads, \* figures in them when the turn began
  asks,      \* questions ask_user took, oldest first: [at, figures]
  answer,    \* what the user is shown: [kind, figures, options, buttons]
  found,     \* ghost: tools that succeeded in this turn and what they
             \* established
  produced   \* ghost: figures any tool of the conversation ever returned

turn == <<rounds, nudges, evidence, turnPayloads, asks>>
grounds == <<kept, priorPayloads>>
turnGhosts == <<found, produced>>
turnVars ==
  <<stage, asked, question, log, resp, turn, grounds, answer, turnGhosts>>

NoEvidence ==
  [db |-> FALSE, policy |-> FALSE, tried |-> FALSE, unscoped |-> FALSE,
   remedy |-> FALSE, covered |-> {}]
NoAnswer == [kind |-> "none", figures |-> {}, options |-> 0, buttons |-> 0]

TurnTypeOK ==
  /\ stage \in {"idle", "send", "loop", "wiki", "gates"}
  /\ asked \in 0..Questions /\ question \in Kinds
  /\ log \in Seq(Messages) /\ Len(log) <= Window
  /\ resp \in Responses
  /\ rounds \in 0..MaxRounds /\ nudges \in 0..MaxNudges
  /\ evidence \in [db : BOOLEAN, policy : BOOLEAN, tried : BOOLEAN,
                   unscoped : BOOLEAN, remedy : BOOLEAN,
                   covered : SUBSET (Domains \cup {"adhoc"})]
  /\ turnPayloads \in [some : BOOLEAN, figures : SUBSET Figures]
  /\ kept \in Seq(SUBSET Figures) /\ Len(kept) <= PayloadsKept
  /\ priorPayloads \subseteq Figures
  /\ asks \in Seq([at : Nat, figures : SUBSET Figures])
  /\ answer \in [kind : {"none", "text", "question", "withheld"},
                 figures : SUBSET Figures, options : Nat, buttons : Nat]
  /\ found \subseteq Tools \cup Domains /\ produced \subseteq Figures

TurnInit ==
  /\ stage = "idle" /\ asked = 0 /\ question \in Kinds
  /\ log = <<>> /\ resp = NoResponse
  /\ rounds = 0 /\ nudges = 0 /\ evidence = NoEvidence
  /\ turnPayloads = [some |-> FALSE, figures |-> {}]
  /\ kept = <<>> /\ priorPayloads = {} /\ asks = <<>>
  /\ answer = NoAnswer
  /\ found = {} /\ produced = {}

IntentIn(intents) == question.intent \in intents

-----------------------------------------------------------------------------
(* What a call proves. *)

\* mutant of Covers: ad-hoc SQL covers whatever the question needs
CoversAll(tool, o) ==
  IF tool = "run_sql" THEN question.needs \cup {"adhoc"} ELSE o.domains

\* The domains a success covers; ad-hoc SQL covers what was asked, short of
\* the domains that need a control of their own.
Covers(tool, o) ==
  CASE tool = "control" -> o.domains
    [] tool = "run_sql" -> IF question.needs = {} THEN {"adhoc"}
                           ELSE question.needs \ Strict
    [] OTHER -> {}

\* has_relevant_financial_evidence
Relevant ==
  IF question.needs # {} THEN question.needs \subseteq evidence.covered
  ELSE evidence.covered # {}

DataOk ==
  IF IntentIn({"data"}) /\ question.needs # {} THEN Relevant ELSE evidence.db

\* The GUI's question has no scope: only the wiki and the catalog may run.
Unscoped(tool) ==
  ~question.scoped /\ tool \notin Wikis \cup {"list_financial_scopes"}

\* run_call: what is refused before it reaches a tool.  Its other refusals (a
\* unit that is not granted, a lesson nobody taught, another scope, a dangling
\* reference, another source) may meet any call: they are calls that fail.
Blocked(tool) ==
  \/ Unscoped(tool)
  \/ tool \in Wikis /\ IntentIn({"data"})
  \/ tool \in Wikis /\ IntentIn({"mixed"}) /\ ~Relevant
  \/ question.silo /\ tool \notin {"run_sql", "ask_user"}

\* mutant of Grounds: the echo of a question joins the payloads
GroundsEcho(tool, o) == o.ok

\* A result joins the payloads that ground figures; a question does not.
Grounds(tool, o) == o.ok /\ tool # "ask_user"

-----------------------------------------------------------------------------
(* The model's side. *)

\* /api/chat and the head of agent_turn
BeginTurn(q) ==
  /\ stage = "idle" /\ asked < Questions
  /\ asked' = asked + 1 /\ question' = q /\ stage' = "send"
  /\ log' = WithUser(log) /\ resp' = NoResponse
  /\ rounds' = 0 /\ nudges' = 0 /\ evidence' = NoEvidence
  /\ turnPayloads' = [some |-> FALSE, figures |-> {}] /\ asks' = <<>>
  /\ priorPayloads' = UNION ToSet(kept)
  /\ answer' = NoAnswer /\ found' = {}
  /\ UNCHANGED <<kept, produced>>

\* external: an answer of the model, with text, calls or both
Respond(r) ==
  /\ stage = "send" /\ stage' = "loop"
  /\ resp' = r
  /\ log' = WithReply(log, TRUE, DOMAIN r.calls)
  /\ UNCHANGED <<asked, question, turn, grounds, answer, turnGhosts>>

\* external: the model refuses, perhaps after it began n calls, or writes
\* nothing at all (blocks is FALSE)
Decline(blocks, n) ==
  /\ stage = "send" /\ stage' = "loop"
  /\ resp' = NoResponse
  /\ log' = WithReply(log, blocks, 1..n)
  /\ UNCHANGED <<asked, question, turn, grounds, answer, turnGhosts>>

\* The request fails: the question ends in an error and is still in the log.
RequestFails ==
  /\ stage = "send" /\ stage' = "idle"
  /\ UNCHANGED <<asked, question, log, resp, turn, grounds, answer, turnGhosts>>

-----------------------------------------------------------------------------
(* The loop. *)

RoundsUsed ==
  /\ stage = "loop" /\ rounds = MaxRounds
  /\ stage' = "gates"
  /\ UNCHANGED <<asked, question, log, resp, turn, grounds, answer, turnGhosts>>

\* _evidence_nudge
Needed ==
  \/ IntentIn({"data"}) /\ ~DataOk
  \/ IntentIn({"mixed"}) /\ ~Relevant
  \/ /\ IntentIn({"policy", "mixed"}) /\ ~question.silo
     /\ ~evidence.policy /\ ~evidence.tried

NudgeDue == nudges < MaxNudges /\ (evidence.remedy \/ Needed \/ resp.promises)

\* mutant of Nudge: it costs neither a nudge nor a round
NudgeFree ==
  /\ stage = "loop" /\ rounds < MaxRounds /\ resp.calls = <<>> /\ NudgeDue
  /\ evidence' = [evidence EXCEPT !.remedy = FALSE]
  /\ log' = WithUser(log) /\ resp' = NoResponse /\ stage' = "send"
  /\ UNCHANGED <<asked, question, rounds, nudges, turnPayloads, asks,
                grounds, answer, turnGhosts>>

\* A text that may not stand is answered with a nudge; the one about columns
\* comes first and is given once.
Nudge ==
  /\ stage = "loop" /\ rounds < MaxRounds /\ resp.calls = <<>> /\ NudgeDue
  /\ nudges' = nudges + 1 /\ rounds' = rounds + 1
  /\ evidence' = [evidence EXCEPT !.remedy = FALSE]
  /\ log' = WithUser(log) /\ resp' = NoResponse /\ stage' = "send"
  /\ UNCHANGED <<asked, question, turnPayloads, asks, grounds, answer,
                turnGhosts>>

TextStands ==
  /\ stage = "loop" /\ rounds < MaxRounds /\ resp.calls = <<>> /\ ~NudgeDue
  /\ stage' = "gates"
  /\ UNCHANGED <<asked, question, log, resp, turn, grounds, answer, turnGhosts>>

\* What is known once the calls at these places came back with o, in the order
\* of the batch: a run_sql that failed and listed the columns there are is
\* remedied by the next one that succeeds.
Recorded(at, o) ==
  LET Got(tool) == {i \in at : resp.calls[i] = tool /\ o[i].ok}
  IN [evidence EXCEPT
        !.unscoped = @ \/ \E i \in at : Unscoped(resp.calls[i]),
        !.tried = @ \/ \E i \in at : resp.calls[i] = "wiki_lookup",
        !.policy = @ \/ Got("wiki_lookup") # {},
        !.db = @ \/ \E tool \in Databases : Got(tool) # {},
        !.covered = @ \cup UNION {Covers(resp.calls[i], o[i]) :
                                   i \in {j \in at : o[j].ok}},
        !.remedy = \/ @ /\ Got("run_sql") = {}
                   \/ \E i \in at : /\ o[i].columns
                                    /\ \A j \in Got("run_sql") : j < i]

\* The members of a set of places, in their order.
InOrder(places) ==
  [n \in 1..Cardinality(places) |->
     CHOOSE i \in places : Cardinality({j \in places : j <= i}) = n]

\* Calls at these places of the batch have come back; o gives their outcomes.
Bookkeep(at, o) ==
  LET good == {i \in at : Grounds(resp.calls[i], o[i])}
      taken == {i \in at : resp.calls[i] = "ask_user" /\ o[i].ok}
      brought == [n \in DOMAIN InOrder(good) |-> o[InOrder(good)[n]].figures]
  IN /\ evidence' = Recorded(at, o)
     /\ turnPayloads' =
          [some |-> turnPayloads.some \/ good # {},
           figures |-> turnPayloads.figures
                         \cup UNION {o[i].figures : i \in good}]
     /\ kept' = Newest(kept \o brought, PayloadsKept)
     /\ asks' = asks \o [n \in DOMAIN InOrder(taken) |->
                           [at |-> InOrder(taken)[n],
                            figures |-> o[InOrder(taken)[n]].figures]]
     /\ found' = found \cup {resp.calls[i] : i \in {j \in at : o[j].ok}}
                       \cup UNION {o[i].domains : i \in at}
     /\ produced' = produced \cup UNION {o[i].figures : i \in
                        {j \in at : resp.calls[j] # "ask_user"}}

\* Every choice of outcomes for the calls at these places.
OutcomesAt(at) ==
  {o \in [at -> UNION {Outcomes(t) : t \in Tools}] :
     \A i \in at : o[i] \in IF Blocked(resp.calls[i]) THEN {Fails}
                            ELSE Outcomes(resp.calls[i])}

WikiCalls == {i \in DOMAIN resp.calls : resp.calls[i] \in Wikis}

\* The calls that are not the wiki's run first.
RunDatabases ==
  /\ stage = "loop" /\ rounds < MaxRounds /\ resp.calls # <<>>
  /\ LET at == DOMAIN resp.calls \ WikiCalls
     IN \E o \in OutcomesAt(at) : Bookkeep(at, o)
  /\ stage' = "wiki"
  /\ UNCHANGED <<asked, question, log, resp, rounds, nudges, priorPayloads,
                answer>>

\* Then the wiki's.  A question to the user ends the turn with the calls
\* unanswered; otherwise the results go back to the model.
RunWikis ==
  /\ stage = "wiki"
  /\ \E o \in OutcomesAt(WikiCalls) : Bookkeep(WikiCalls, o)
  /\ IF asks # <<>>
     THEN stage' = "gates" /\ UNCHANGED <<log, resp, rounds>>
     ELSE /\ stage' = "send" /\ rounds' = rounds + 1
          /\ log' = WithResults(log, DOMAIN resp.calls) /\ resp' = NoResponse
  /\ UNCHANGED <<asked, question, nudges, priorPayloads, answer>>

-----------------------------------------------------------------------------
(* What the user is shown. *)

\* clarification_violation
Withheld(ask) ==
  ~(ask.figures \subseteq turnPayloads.figures \cup priorPayloads)

\* The evidence gates, for a turn that asked the user nothing.
Refused ==
  \/ evidence.unscoped
  \/ IntentIn({"mixed"}) /\ (~Relevant \/ ~evidence.policy)
  \/ IntentIn({"data"}) /\ ~DataOk
  \/ IntentIn({"policy"}) /\ ~evidence.policy

\* The number guard runs when a call succeeded: the result is an object, so it
\* carries at least the number of its result_id to compare with.
Invented ==
  IF turnPayloads.some
  THEN resp.figures \ (turnPayloads.figures \cup priorPayloads) ELSE {}

\* The page draws the buttons of the last question that was taken.
Buttons == IF asks = <<>> THEN 0 ELSE Last(asks).at

Gates ==
  /\ stage = "gates" /\ stage' = "idle" /\ resp' = NoResponse
  /\ answer' =
       IF asks # <<>>
       THEN IF Withheld(Head(asks))
            THEN [NoAnswer EXCEPT !.kind = "withheld", !.buttons = Buttons]
            ELSE [kind |-> "question", figures |-> Head(asks).figures,
                  options |-> Head(asks).at, buttons |-> Buttons]
       ELSE IF Refused \/ Invented # {}
            THEN [NoAnswer EXCEPT !.kind = "withheld"]
            ELSE [NoAnswer EXCEPT !.kind = "text", !.figures = resp.figures]
  /\ UNCHANGED <<asked, question, log, turn, grounds, turnGhosts>>

Advance ==
  \/ \E r \in Responses : Respond(r)
  \/ \E b \in Batches : Decline(TRUE, Len(b))
  \/ Decline(FALSE, 0)
  \/ RequestFails
  \/ RoundsUsed \/ Nudge \/ TextStands
  \/ RunDatabases \/ RunWikis
  \/ Gates

TurnNext == Advance \/ \E q \in Kinds : BeginTurn(q)

TurnSpec == TurnInit /\ [][TurnNext]_turnVars /\ WF_turnVars(Advance)

-----------------------------------------------------------------------------
(* Properties. *)

\* Every request to the model answers the calls the last one left open,
\* however the last turn or the last batch ended.
CallsAnswered == stage = "send" => Acceptable(log)

\* A text that is shown rests on what this question's own tools brought:
\* on a wiki passage for a policy, on a database result for a fact, and on
\* its control for a domain that nothing else can establish.
EvidenceOfThisTurn ==
  stage = "idle" /\ answer.kind = "text" =>
    /\ IntentIn({"policy", "mixed"}) => "wiki_lookup" \in found
    /\ IntentIn({"data", "mixed"}) => found \cap Databases # {}
    /\ IntentIn({"data", "mixed"}) => question.needs \cap Strict \subseteq found

\* A figure in a question to the user, or in the answer to one that asks for
\* data or policy, was returned by a tool of this conversation: the echo of a
\* question, shown or withheld, in this turn or an earlier one, never counts,
\* and the evidence gates leave the number guard something to compare.
OnlyToolsGround ==
  stage = "idle" /\ (\/ answer.kind = "question"
                    \/ IntentIn({"data", "policy", "mixed"}))
    => answer.figures \subseteq produced

\* The comment on the number guard: "Every figure in the answer must appear
\* in a tool payload from this turn; if one does not, the answer is refused
\* rather than shown" (payloads of the turns before are also accepted).
FiguresGrounded ==
  stage = "idle" /\ answer.kind = "text" =>
    answer.figures \subseteq turnPayloads.figures \cup priorPayloads

\* The buttons are the options of the question that is shown: of the first
\* that was taken, and of none when it is withheld.
ButtonsMatchAnswer == stage = "idle" => answer.buttons = answer.options

\* A question ends, whatever the model goes on answering.
EveryTurnEnds == stage = "send" ~> stage = "idle"
=============================================================================
