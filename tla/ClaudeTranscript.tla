-------------------------- MODULE ClaudeTranscript --------------------------
(***************************************************************************)
(* pstb/client/llm_claude.py: the transcript a Claude provider replays with *)
(* every request.  The API refuses a request whose transcript leaves a tool *)
(* call unanswered, so whatever made a turn stop with open calls (the round *)
(* limit, a question to the user, a refusal) has to be repaired before the  *)
(* next user message.  Of a message the model keeps its role, the calls it  *)
(* makes and the calls it answers, each named by its place in its message.  *)
(***************************************************************************)
EXTENDS Naturals, Sequences, SequencesExt

CONSTANT Window  \* how many of the last messages the model remembers

ASSUME WindowAssumption == Window \in Nat \ {0}

Messages ==
  [role : {"user", "assistant"}, calls : SUBSET Nat, results : SUBSET Nat]

Message(role, calls, results) ==
  [role |-> role, calls |-> calls, results |-> results]

\* The last few members of a sequence.
Newest(s, few) == SubSeq(s, IF Len(s) > few THEN Len(s) - few + 1 ELSE 1, Len(s))

Recent(t) == Newest(t, Window)

\* _open_tool_calls
Open(t) ==
  IF t # <<>> /\ Last(t).role = "assistant" THEN Last(t).calls ELSE {}

\* mutant of Closed: a dangling call is left open before a new message
ClosedNever(t) == t

\* _close_open_tool_calls
Closed(t) ==
  IF Open(t) = {} THEN t
  ELSE Append(t, Message("user", {}, Open(t)))

\* send_user, up to the request
WithUser(t) == Recent(Append(Closed(t), Message("user", {}, {})))

\* send_tool_results, up to the request
WithResults(t, results) == Recent(Append(t, Message("user", {}, results)))

\* _generate, once the answer is there; an answer of no blocks is not kept
WithReply(t, blocks, calls) ==
  IF blocks THEN Recent(Append(t, Message("assistant", calls, {}))) ELSE t

\* What the API asks of a request: it ends with the user, and the message
\* after one with calls answers those calls and nothing else.
Acceptable(t) ==
  /\ Last(t).role = "user"
  /\ \A i \in 1..(Len(t) - 1) :
       t[i].role = "assistant" => t[i + 1].results = t[i].calls
  /\ \A i \in 2..Len(t) :
       t[i].results # {} => t[i - 1].role = "assistant"
=============================================================================
