--------------------------- MODULE ReviewProtocol ---------------------------
(***************************************************************************)
(* What pstb/workflows.py promises of one controller workflow, with no     *)
(* lock file, no checkpoint file and no process in sight: an ordered list  *)
(* of phases; one grant at a time for the phase being worked on; a result  *)
(* enters only through the grant that is current; a human decision between *)
(* any two phases.  docs/AI_ORCHESTRATION.md:47-86 is the prose version.   *)
(* WorkflowStore refines this module.                                      *)
(***************************************************************************)
EXTENDS Naturals

CONSTANT NPhases   \* at least one

Phases == 1..NPhases

VARIABLES
  stage,    \* where each phase is
  grant,    \* the grant a running phase is held under, 0 for none
  outcome,  \* the grant whose result a phase shows its reviewer, 0 for none
  issued,   \* grants are numbered; the last number given out
  lapsed,   \* every grant up to this number has run out of time
  over      \* somebody cancelled the workflow

vars == <<stage, grant, outcome, issued, lapsed, over>>

Stages == {"pending", "running", "awaiting_review", "reviewed", "cancelled"}

TypeOK ==
  /\ stage \in [Phases -> Stages]
  /\ grant \in [Phases -> Nat]
  /\ outcome \in [Phases -> Nat]
  /\ issued \in Nat
  /\ lapsed \in Nat
  /\ over \in BOOLEAN

Init ==
  /\ stage = [i \in Phases |-> "pending"]
  /\ grant = [i \in Phases |-> 0]
  /\ outcome = [i \in Phases |-> 0]
  /\ issued = 0
  /\ lapsed = 0
  /\ over = FALSE

\* Every earlier phase has been read by a human: phase i is the current one.
Current(i) == \A j \in Phases : j < i => stage[j] = "reviewed"

\* A new grant on the current phase: the first one, one after a rerun, or one
\* that takes over from a grant that ran out of time.
Grant(i) ==
  /\ ~over
  /\ Current(i)
  /\ \/ stage[i] = "pending"
     \/ stage[i] = "running" /\ grant[i] <= lapsed
  /\ issued' = issued + 1
  /\ grant' = [grant EXCEPT ![i] = issued']
  /\ stage' = [stage EXCEPT ![i] = "running"]
  /\ UNCHANGED <<outcome, lapsed, over>>

\* The holder of the current grant, and nobody else, reports a result.
Report(i) ==
  /\ ~over
  /\ stage[i] = "running"
  /\ stage' = [stage EXCEPT ![i] = "awaiting_review"]
  /\ outcome' = [outcome EXCEPT ![i] = grant[i]]
  /\ grant' = [grant EXCEPT ![i] = 0]
  /\ UNCHANGED <<issued, lapsed, over>>

Accept(i) ==
  /\ ~over
  /\ stage[i] = "awaiting_review"
  /\ stage' = [stage EXCEPT ![i] = "reviewed"]
  /\ UNCHANGED <<grant, outcome, issued, lapsed, over>>

Rerun(i) ==
  /\ ~over
  /\ stage[i] = "awaiting_review"
  /\ stage' = [stage EXCEPT ![i] = "pending"]
  /\ outcome' = [outcome EXCEPT ![i] = 0]
  /\ UNCHANGED <<grant, issued, lapsed, over>>

\* Cancelling ends the workflow and closes the phase that is up, if one is;
\* cancelling again closes the one after it.
Closed(i) == stage[i] \in {"reviewed", "cancelled"}

Cancel ==
  /\ over' = TRUE
  /\ \/ \E i \in Phases :
          /\ ~Closed(i)
          /\ \A j \in Phases : j < i => Closed(j)
          /\ stage' = [stage EXCEPT ![i] = "cancelled"]
          /\ grant' = [grant EXCEPT ![i] = 0]
     \/ /\ \A i \in Phases : Closed(i)
        /\ UNCHANGED <<stage, grant>>
  /\ UNCHANGED <<outcome, issued, lapsed>>

Lapse ==
  /\ lapsed < issued
  /\ lapsed' = lapsed + 1
  /\ UNCHANGED <<stage, grant, outcome, issued, over>>

Next ==
  \/ \E i \in Phases : Grant(i) \/ Report(i) \/ Accept(i) \/ Rerun(i)
  \/ Cancel
  \/ Lapse

Spec == Init /\ [][Next]_vars
=============================================================================
