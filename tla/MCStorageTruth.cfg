\* One supernode probes another and a third may recheck what it reports; the
\* probed one may also be stopped and started.  Two epochs are kept and facts
\* are pruned at the end of the third.  The bound on epochs ends every
\* behaviour, hence CHECK_DEADLOCK FALSE.
SPECIFICATION Spec
CONSTANTS
  Nodes = {1, 2, 3}
  Accounts <- MCAccounts
  Tickets = {t1}
  Hashes <- MCHashes
  None = None
  Reporters = {2}
  Stoppable <- MCStoppable
  Rechecks = {"PASS", "CONFIRMED_FAIL"}
  Proofs <- MCProofs
  Rank <- MCRank
  Params <- MCParams
  MaxResults = 2
  KeepEpochs = 2
  Window = 2
  MaxEpoch = 3
INVARIANTS
  AssignmentSound
  
PROPERTIES
  
  
  WindowsKept
CHECK_DEADLOCK FALSE
