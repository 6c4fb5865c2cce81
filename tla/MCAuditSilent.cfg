\* A supernode whose storage-truth marker outlives its postponement.
SPECIFICATION RecoverySpec
CONSTANTS
  Nodes = {n1}
  ConsecutiveEpochs = 2
  ThresholdPercent = 100
  Kinds = {}
  EvidencesPerEpoch <- MCEvidencesPerEpoch
  EvidenceEpochs <- MCEvidenceEpochs
  EvidenceLookback = 1
  RecoveryEpochs = 1
  MaxTotalBad = 1
  StorageTruthMode = TRUE
  MaxEvidences = 0
  Disks = {"low"}
  Ports = {"open", "closed"}
PROPERTY SilentNodesPostponed
