SPECIFICATION Spec
CONSTANTS
  ProbAbove <- MCProbAbove
  Slots <- Places
  Chains <- Tabled
  Unconstrained = FALSE
  Worlds <- Stories
INVARIANTS
  MaxLossIsWorst
  ReplaysAgree
  ExpiryAgrees
  BracketNotLater
  GateShown
  GradeMatchesBook
  ReplaysKeep
CHECK_DEADLOCK FALSE
