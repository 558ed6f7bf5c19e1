SPECIFICATION FairSpec
CONSTANTS
  Decisions <- DecisionIds
  Casts <- Everyone
  MaxDay = 2
  PendingLimit = 3
  RegradeLimit = 1
  FetchLimit = 3
  ObservationOnly <- NoBucket
  MinDecisive = 2
  MinPerRegime = 1
  BrierMax = 5000
  SpearmanMin = 15
  SpearmanMinN = 3
  FlowMinN = 3
  Bootstrap <- BootstrapAgrees
INVARIANTS
  ResolvedIffGraded
  RerunsAddNothing
  TwoQuestions
  AuthorizedOnEvidence
PROPERTIES
  GradeNeverWorsens
  
CHECK_DEADLOCK FALSE
