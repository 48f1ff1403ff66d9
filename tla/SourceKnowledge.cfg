SPECIFICATION Spec
CONSTANTS
  veto = veto
  pointer = pointer
  w1 = w1
  w2 = w2
  a1 = a1
  a2 = a2
  None = None
  Proposals = {veto, pointer}
  Vetoes = {veto}
  Writers = {w1, w2}
  Askers = {a1}
  MaxProposals = 1
  MaxPending = 1
INVARIANTS ToldHolds NextCallSees
PROPERTIES FollowsReview WritesEnd
