SPECIFICATION FairSpec
CONSTANTS
  Contracts <- MCContracts
  Histories <- MCHistories
  Days <- MCDays
  Price <- MCPrice
  ProbAbove <- NoProb
  MaxCrashes = 1
INVARIANTS
  BooksFollowBroker
  BookedAtCash
PROPERTIES
  RerunsChangeNothing
  FlatGetsClosed
CHECK_DEADLOCK FALSE
