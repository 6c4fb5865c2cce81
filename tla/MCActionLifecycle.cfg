SPECIFICATION FairSpec
CONSTANTS
  Creators = {c1}
  Supernodes = {s1, s2}
  Prices = {4, 13, 33}
  MinPrice = 5
  RewardBps = 2000
  FoundationNum = 1
  FoundationDen = 10
  MaxInt64 = 20
  ExpirationDuration = 1
  InitialFunds = 46
  MaxActions = 2
  MaxTime = 2
INVARIANTS
  
  IndexesExact
PROPERTIES
  
  PaidOutByClosing
  EventuallyClosed
