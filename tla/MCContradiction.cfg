\* Three supernodes take turns in probing the fourth, within one window.
SPECIFICATION Spec
CONSTANTS
  Nodes = {1, 2, 3, 4}
  Accounts <- MCAccounts4
  Tickets = {t1}
  Hashes <- MCHashes
  None = None
  Reporters = {1, 2, 3}
  Stoppable = {}
  Rechecks = {}
  Proofs <- MCProofs
  Rank <- MCRankInTurn
  Params <- MCWindow3
  MaxResults = 1
  KeepEpochs = 3
  Window = 3
  MaxEpoch = 3
PROPERTY ContradictionCaught
CHECK_DEADLOCK FALSE
