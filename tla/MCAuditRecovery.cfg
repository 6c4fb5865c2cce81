\* Two supernodes that observe each other, one kind of evidence and one-epoch
\* streaks; longer streaks and windows are the matter of the proofs.
SPECIFICATION RecoverySpec
CONSTANTS
  Nodes = {n1, n2}
  ConsecutiveEpochs = 1
  ThresholdPercent = 100
  Kinds = {"SignatureFailure"}
  EvidencesPerEpoch <- MCEvidencesPerEpoch
  EvidenceEpochs <- MCEvidenceEpochs
  EvidenceLookback = 1
  RecoveryEpochs = 1
  MaxTotalBad = 1
  StorageTruthMode = FALSE
  MaxEvidences = 1
  Disks = {"full"}
  Ports = {"open", "closed"}
 
PROPERTIES
  
  AuditFollowsStateMachine
  
