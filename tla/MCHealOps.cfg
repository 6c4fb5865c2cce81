\* Five supernodes, so that without the one that failed there are a healer and
\* three verifiers; one ticket, healed up to three times.  The bound on epochs
\* ends every behaviour, hence CHECK_DEADLOCK FALSE.
CONSTANTS
  Nodes = {n1, n2, n3, n4, n5}
  Tickets = {t1}
  Hashes = {h1, h2}
  HealThreshold = 50
  MaxPerEpoch = 1
  VerifierCount = 3
  DeadlineEpochs = 1
  ProbationEpochs = 1
  KeepEpochs = 1
  MaxScore = 60
  ReportScores = {0, 50}
  MaxEpoch = 4
  MaxOps = 3
SPECIFICATION Spec
SYMMETRY Symmetry
INVARIANTS
  ClosedByMajority
  IndexesExact
  ActivePointerExact
PROPERTIES
  ClosedIsFinal
  CooldownKept
CHECK_DEADLOCK FALSE
