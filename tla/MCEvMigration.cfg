CONSTANTS
  v1 = v1
  v2 = v2
  d = d
  n1 = n1
  n2 = n2
  n3 = n3
  Legacy <- LegacyAddrs
  New <- NewAddrs
  Operators <- ValOperators
  VestingAccounts <- Vesting
  Stakes <- StartStakes
  EarlyStakers <- NoEarlyStaker
  Grants <- StartGrants
  HasCommission = FALSE
  CrossAccounts = FALSE
  MaxPerBlock = 2
  MaxRecords = 3
  MaxEntries = 2
  MaxOps = 3
SYMMETRY Destinations
SPECIFICATION Spec
INVARIANTS LinksFollow ScheduleKept EntriesComplete ValidatorsIndexed SharesConserved
PROPERTIES CoinsConserved LeavesNothing  WithdrawAlive
