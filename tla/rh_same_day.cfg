SPECIFICATION Spec
CONSTANTS
  Contracts <- MCContracts
  Histories <- SameDayHistory
  Days <- MCDays
  Price <- MCPrice
  ProbAbove <- NoProb
  MaxCrashes = 1
PROPERTY RerunsChangeNothing
CHECK_DEADLOCK FALSE
