--------------------------- MODULE ProposalReview ---------------------------
(***************************************************************************)
(* What the review of learned meanings promises (pstb/source_knowledge.py), *)
(* with no files in sight: a proposal is decided once, an approved one may  *)
(* be revoked, "decisions do not move backward", none is lost, and neither  *)
(* the proposals nor those that wait for a reviewer pass their limits.      *)
(***************************************************************************)
EXTENDS Naturals, FiniteSets

CONSTANTS
  Proposals,    \* what may be proposed, by its content
  MaxProposals, \* MAX_PROPOSALS
  MaxPending    \* MAX_PENDING

VARIABLE status \* by proposal: its last decision

Statuses == {"none", "pending", "approved", "rejected", "revoked"}

Full(s) ==
  \/ Cardinality({p \in Proposals : s[p] # "none"}) >= MaxProposals
  \/ Cardinality({p \in Proposals : s[p] = "pending"}) >= MaxPending

Init == status = [p \in Proposals |-> "none"]

Propose(p) ==
  /\ status[p] = "none" /\ ~Full(status)
  /\ status' = [status EXCEPT ![p] = "pending"]

Decide(p) ==
  /\ status[p] = "pending"
  /\ status' \in {[status EXCEPT ![p] = s] : s \in {"approved", "rejected"}}

Revoke(p) ==
  /\ status[p] = "approved"
  /\ status' = [status EXCEPT ![p] = "revoked"]

Next == \E p \in Proposals : Propose(p) \/ Decide(p) \/ Revoke(p)

Spec == Init /\ [][Next]_status
=============================================================================
