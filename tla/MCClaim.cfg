CONSTANTS
  o1 = o1
  o2 = o2
  o3 = o3
  OldAddrs = {o1, o2, o3}
  Dests = {d1, d2}
  Module = module
  Outside = outside
  Csvs <- MCCsvs
  GenesisParams <- MCGenesisParams
  GovParams <- MCGovParams
  OutsideCoins = 1
  Chosen = {1, 5}
  Second = 2
  Month = 1
  MaxStep = 2
  MaxTime = 8
SPECIFICATION Spec
INVARIANTS
  Solvent
  PaidOnce
  DelayedLocked

  
