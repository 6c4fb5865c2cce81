SPECIFICATION Spec
CONSTANTS
  v1 = v1
  v2 = v2
  a1 = a1
  a2 = a2
  None = None
  Validators = {v1, v2}
  Accounts = {a1, a2}
  MinStake = 2
  MaxStake = 2
  AccountStake <- MCAccountStake
  Distance <- MCDistance
  TopN = 1
  MaxHeight = 2
  MaxHistory = 3
INVARIANT AccountIndexExact

  
  
