SPECIFICATION FairSpec
CONSTANTS
  Universe <- Symbols
  Trades <- TradeIds
  Setups <- Deployments
  WatchMax = 1
  CandMax = 1
  ListLimit = 1
  Cap = 3
  Instants <- Moments

  
PROPERTIES
  ProtectedServed
  
  
  
