SPECIFICATION TurnSpec
CONSTANTS
  Kinds <- MCKinds
  Figures = {f1}
  Domains = {"netting"}
  Strict = {"netting"}
  Questions = 2
  MaxRounds = 2
  MaxNudges = 1
  Batches <- MCBatches
  PayloadsKept = 2
  Window = 3
INVARIANTS CallsAnswered EvidenceOfThisTurn OnlyToolsGround
PROPERTY EveryTurnEnds
CHECK_DEADLOCK FALSE
