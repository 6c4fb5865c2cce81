-------------------------- MODULE AuditEnforcement --------------------------
(***************************************************************************)
(* The epoch cycle of x/audit: supernodes submit one report per epoch, the *)
(* action module records finalization evidence, operators start and stop   *)
(* nodes, and the EndBlocker of the last block postpones and recovers      *)
(* nodes (EnforceEpochEnd) before the BeginBlocker of the next block       *)
(* anchors the sets of probers and targets of the new epoch.               *)
(*                                                                         *)
(* History is kept relative to the running epoch: past[k] and bad[k] are   *)
(* what was stored k epochs ago, as far back as the rules look, which      *)
(* Params.Validate keeps inside the pruning window.  An observation covers *)
(* all required ports at once.  The storage-truth score is left open: at   *)
(* each epoch end it may order a postponement, allow a recovery or neither *)
(* (governance can turn its enforcement on and off between epochs).        *)
(***************************************************************************)
EXTENDS Integers, FiniteSets, FiniteSetsExt

CONSTANTS
  Nodes,                 \* supernodes, identified with their accounts
  ConsecutiveEpochs,     \* consecutive_epochs_to_postpone
  ThresholdPercent,      \* peer_port_postpone_threshold_percent
  Kinds,                 \* evidence types of action finalization
  EvidencesPerEpoch,     \* [Kinds -> count that makes an epoch bad]
  EvidenceEpochs,        \* [Kinds -> consecutive bad epochs to postpone]
  EvidenceLookback,      \* epochs whose evidence counts some rule reads
  RecoveryEpochs,        \* action_finalization_recovery_epochs
  MaxTotalBad,           \* action_finalization_recovery_max_total_bad_evidences
  StorageTruthMode,      \* are peers assigned by the storage-truth rule?
  MaxEvidences,          \* bound: evidences of a kind per node and epoch
  Disks, Ports           \* what reports may say: see below

SupernodeStates == {"Active", "Disabled", "Stopped", "Postponed", "StorageFull"}
Reasons    == {"none", "storage_truth", "action_finalization",
               "missing_reports", "host_requirements", "peer_ports"}
Verdicts   == {"none", "postpone", "clear"}

NotMarked == -1

(* A disk usage is unknown (zero), at most the limit, or above it; a port  *)
(* is open, closed or unknown, and "none" where nothing was observed.      *)
ASSUME AuditAssumption ==
  /\ ConsecutiveEpochs \in Nat \ {0}
  /\ ThresholdPercent \in 1..100
  /\ EvidencesPerEpoch \in [Kinds -> Nat \ {0}]
  /\ EvidenceEpochs \in [Kinds -> Nat \ {0}]
  /\ RecoveryEpochs \in Nat \ {0} /\ MaxTotalBad \in Nat \ {0}
  /\ EvidenceLookback \in Nat /\ RecoveryEpochs <= EvidenceLookback
  /\ \A k \in Kinds : EvidenceEpochs[k] <= EvidenceLookback
  /\ MaxEvidences \in Nat /\ StorageTruthMode \in BOOLEAN
  /\ Disks \subseteq {"unknown", "low", "full"}
  /\ Ports \subseteq {"open", "closed", "unknown"}
  /\ IsFiniteSet(Kinds) /\ IsFiniteSet(Nodes)

Observations == [Nodes -> Ports \cup {"none"}]
NothingSeen  == [t \in Nodes |-> "none"]

Report   == [sent : BOOLEAN, host : {"ok", "bad"},
             disk : {"unknown", "low", "full"}, obs : Observations]
NoReport == [sent |-> FALSE, host |-> "ok", disk |-> "unknown", obs |-> NothingSeen]

(* What a later epoch end reads of a stored report.                        *)
PastReport == [sent : BOOLEAN, obs : Observations]
Digest(r)  == [sent |-> r.sent, obs |-> r.obs]

PastEpochs     == 1..(ConsecutiveEpochs - 1)
EvidenceWindow == 0..(EvidenceLookback - 1)
NoEvidence     == [v \in Nodes |-> [k \in Kinds |-> 0]]

VARIABLES
  state,     \* last state record of each supernode, "None" if unregistered
  reason,    \* its Reason: why it is Postponed
  since,     \* epochs since then, up to RecoveryEpochs
  epoch,     \* epoch ID, up to ConsecutiveEpochs - 1
  active,    \* EpochAnchor.ActiveSupernodeAccounts: the probers
  targets,   \* EpochAnchor.TargetSupernodeAccounts
  report,    \* reports of the running epoch
  past,      \* digests of the reports of the last epochs
  bad,       \* evidence counts of this and the last epochs
  afMark,    \* epochs since the action-finalization marker was set
  stMark     \* is the storage-truth marker set?

auditVars == <<state, reason, since, epoch, active, targets, report, past, bad,
          afMark, stMark>>

InitAudit ==
  /\ state = [v \in Nodes |-> "None"]
  /\ reason = [v \in Nodes |-> "none"]
  /\ since = [v \in Nodes |-> 0]
  /\ epoch = 0
  /\ active = {} /\ targets = {}
  /\ report = [v \in Nodes |-> NoReport]
  /\ past = [k \in PastEpochs |-> [v \in Nodes |-> Digest(NoReport)]]
  /\ bad = [k \in EvidenceWindow |-> NoEvidence]
  /\ afMark = [v \in Nodes |-> NotMarked]
  /\ stMark = [v \in Nodes |-> FALSE]
-----------------------------------------------------------------------------
(* x/supernode: operators and staking hooks.                               *)

Enter(v, s) ==
  /\ state' = [state EXCEPT ![v] = s]
  /\ reason' = [reason EXCEPT ![v] = "none"]
  /\ since' = [since EXCEPT ![v] = 0]

Register(v)   == state[v] \in {"None", "Disabled"} /\ Enter(v, "Active")
Start(v)      == state[v] = "Stopped" /\ Enter(v, "Active")
Stop(v)       == state[v] \in {"Active", "Postponed", "StorageFull"} /\ Enter(v, "Stopped")
Deregister(v) == state[v] \notin {"None", "Disabled"} /\ Enter(v, "Disabled")

SupernodeStep(v) ==
  /\ Register(v) \/ Start(v) \/ Stop(v) \/ Deregister(v)
  /\ UNCHANGED <<epoch, active, targets, report, past, bad, afMark, stMark>>

(* recordFinalizationEvidence of x/action: evidence counts per epoch.      *)
CreateEvidence(v, k) ==
  /\ bad[0][v][k] < MaxEvidences
  /\ bad' = [bad EXCEPT ![0][v][k] = @ + 1]
  /\ UNCHANGED <<state, reason, since, epoch, active, targets, report, past,
                 afMark, stMark>>

(* The targets computeAuditPeerTargetsForReporter can assign to v, over    *)
(* all seeds: probers only, never v itself, and with the storage-truth     *)
(* rule nothing at all for the only prober.                                *)
Assignable(v) ==
  IF v \notin active \/ (StorageTruthMode /\ Cardinality(active) <= 1)
  THEN {} ELSE targets \ {v}

(* A report carries observations of assigned targets, not always of all.   *)
Allowed(v, obs) == \A t \in Nodes : obs[t] # "none" => t \in Assignable(v)

(* Mutant: the state of the reporter is not looked at.                     *)
FullAfterReport(v, disk) == IF disk = "full" THEN "StorageFull" ELSE state[v]

(* SetReport moves the reporter in or out of StorageFull.                  *)
StateAfterReport(v, disk) ==
  IF disk = "full" /\ state[v] = "Active" THEN "StorageFull"
  ELSE IF disk = "low" /\ state[v] = "StorageFull" THEN "Active"
  ELSE state[v]

SubmitEpochReport(v, host, disk, obs) ==
  /\ state[v] # "None"
  /\ Allowed(v, obs)
  /\ ~report[v].sent
  /\ report' = [report EXCEPT ![v] =
       [sent |-> TRUE, host |-> host, disk |-> disk, obs |-> obs]]
  /\ state' = [state EXCEPT ![v] = StateAfterReport(v, disk)]
  /\ UNCHANGED <<reason, since, epoch, active, targets, past, bad, afMark, stMark>>
-----------------------------------------------------------------------------
(* The rules of an epoch end.                                              *)

Sent(v, k) == IF k = 0 THEN report[v].sent ELSE past[k][v].sent
Seen(p, v, k) == IF k = 0 THEN report[p].obs[v] ELSE past[k][p].obs[v]

EnoughHistory == epoch + 1 >= ConsecutiveEpochs

missingReportsForConsecutiveEpochs(v) ==
  EnoughHistory /\ \A k \in 0..(ConsecutiveEpochs - 1) : ~Sent(v, k)

peerReporters(v, k) == {p \in Nodes : Seen(p, v, k) # "none"}

peersReportClosed(v, k) ==
  LET peers == peerReporters(v, k)
  IN  /\ peers # {}
      /\ Cardinality({p \in peers : Seen(p, v, k) = "closed"}) * 100
           >= ThresholdPercent * Cardinality(peers)

peerPortsClosed(v) ==
  EnoughHistory /\ \A k \in 0..(ConsecutiveEpochs - 1) : peersReportClosed(v, k)

evidenceMeetsThreshold(v) ==
  \E t \in Kinds : \A k \in 0..(EvidenceEpochs[t] - 1) :
    bad[k][v][t] >= EvidencesPerEpoch[t]

selfHostViolatesMinimums(v) == report[v].sent /\ report[v].host = "bad"

(* shouldPostponeAtEpochEnd, with the first reason that applies.           *)
postponeReason(v) ==
  IF evidenceMeetsThreshold(v) THEN "action_finalization"
  ELSE IF missingReportsForConsecutiveEpochs(v) THEN "missing_reports"
  ELSE IF selfHostViolatesMinimums(v) THEN "host_requirements"
  ELSE IF peerPortsClosed(v) THEN "peer_ports"
  ELSE "none"

(* What the first loop decides about v, which was Active when the epoch    *)
(* ended.  A node with the storage-truth marker gets no other check.       *)
PostponedFor(v, verdict) ==
  IF state[v] # "Active" THEN "none"
  ELSE IF verdict[v] = "postpone" THEN "storage_truth"
  ELSE IF stMark[v] THEN "none"
  ELSE postponeReason(v)

selfHostCompliant(v) == report[v].sent /\ report[v].host = "ok"

totalBad(v) ==
  MapThenSumSet(LAMBDA e : bad[e[1]][v][e[2]], (0..(RecoveryEpochs - 1)) \X Kinds)

recoversFromEvidence(v, age) == age >= RecoveryEpochs /\ totalBad(v) < MaxTotalBad

(* Mutant: recovery needs a prober even where there is none.               *)
peersMustAllow(v) == \E p \in peerReporters(v, 0) : report[p].obs[v] = "open"

(* No prober was anchored, or one of them saw the node open.               *)
peersAllowRecovery(v) ==
  active = {} \/ \E p \in peerReporters(v, 0) : report[p].obs[v] = "open"

recoversFromReports(v) == selfHostCompliant(v) /\ peersAllowRecovery(v)

(* Mutant: a good report recovers from any postponement.                   *)
shouldRecoverOnReports(v, verdict) == recoversFromReports(v)

shouldRecoverAtEpochEnd(v, verdict) ==
  IF stMark[v] THEN verdict[v] = "clear"
  ELSE IF afMark[v] # NotMarked THEN recoversFromEvidence(v, afMark[v])
  ELSE recoversFromReports(v)

Recovers(v, verdict) ==
  state[v] = "Postponed" /\ shouldRecoverAtEpochEnd(v, verdict)

(* recoverSupernodeFromPostponed reads the disk of the same epoch's report.*)
RecoveryTarget(v) ==
  IF report[v].sent /\ report[v].disk = "full" THEN "StorageFull" ELSE "Active"

StateAfterEpoch(v, verdict) ==
  IF PostponedFor(v, verdict) # "none" THEN "Postponed"
  ELSE IF Recovers(v, verdict) THEN RecoveryTarget(v)
  ELSE state[v]

Older(age) == IF age < RecoveryEpochs THEN age + 1 ELSE age

(* Mutant: a marker that is not cleared when its node turns out to be      *)
(* Active.                                                                 *)
AfMarkKept(v, verdict) ==
  IF PostponedFor(v, verdict) = "action_finalization" THEN 1
  ELSE IF Recovers(v, verdict) \/ afMark[v] = NotMarked THEN NotMarked
  ELSE Older(afMark[v])

(* The markers the two loops leave, as seen from the next epoch.  The      *)
(* action-finalization marker of an Active node is cleared first, unless   *)
(* the storage-truth marker makes the loop skip the node.                  *)
AfMarkAfterEpoch(v, verdict) ==
  IF PostponedFor(v, verdict) = "action_finalization" THEN 1
  ELSE IF \/ Recovers(v, verdict)
          \/ PostponedFor(v, verdict) = "storage_truth"
          \/ state[v] = "Active" /\ ~stMark[v]
          \/ afMark[v] = NotMarked
       THEN NotMarked
  ELSE Older(afMark[v])

StMarkAfterEpoch(v, verdict) ==
  /\ stMark[v] \/ PostponedFor(v, verdict) = "storage_truth"
  /\ ~Recovers(v, verdict)

EnforceEpochEnd(verdict) ==
  /\ state' = [v \in Nodes |-> StateAfterEpoch(v, verdict)]
  /\ reason' = [v \in Nodes |->
       IF PostponedFor(v, verdict) # "none" THEN PostponedFor(v, verdict)
       ELSE IF Recovers(v, verdict) THEN "none" ELSE reason[v]]
  /\ since' = [v \in Nodes |->
       IF StateAfterEpoch(v, verdict) # "Postponed" THEN 0
       ELSE IF state[v] # "Postponed" THEN 1 ELSE Older(since[v])]
  /\ afMark' = [v \in Nodes |-> AfMarkAfterEpoch(v, verdict)]
  /\ stMark' = [v \in Nodes |-> StMarkAfterEpoch(v, verdict)]

(* CreateEpochAnchorIfNeeded, in the first block of the new epoch.         *)
AnchorEpoch ==
  /\ active' = {v \in Nodes : state'[v] \in {"Active", "StorageFull"}}
  /\ targets' = {v \in Nodes : state'[v] \in {"Active", "StorageFull", "Postponed"}}

(* The new epoch starts without reports and evidence; what was current     *)
(* moves back by one and what no rule reads any more is forgotten.         *)
ShiftHistory ==
  /\ epoch' = IF epoch < ConsecutiveEpochs - 1 THEN epoch + 1 ELSE epoch
  /\ report' = [v \in Nodes |-> NoReport]
  /\ past' = [k \in PastEpochs |->
       IF k = 1 THEN [v \in Nodes |-> Digest(report[v])] ELSE past[k - 1]]
  /\ bad' = [k \in EvidenceWindow |-> IF k = 0 THEN NoEvidence ELSE bad[k - 1]]

EndEpoch(verdict) == EnforceEpochEnd(verdict) /\ AnchorEpoch /\ ShiftHistory
-----------------------------------------------------------------------------
NextAudit ==
  \/ \E v \in Nodes : SupernodeStep(v)
  \/ \E v \in Nodes, k \in Kinds : CreateEvidence(v, k)
  \/ \E v \in Nodes, host \in {"ok", "bad"}, disk \in Disks, obs \in Observations :
       SubmitEpochReport(v, host, disk, obs)
  \/ \E verdict \in [Nodes -> Verdicts] : EndEpoch(verdict)

SpecAudit == InitAudit /\ [][NextAudit]_auditVars
-----------------------------------------------------------------------------
AuditTypeOK ==
  /\ state \in [Nodes -> SupernodeStates \cup {"None"}]
  /\ reason \in [Nodes -> Reasons]
  /\ since \in [Nodes -> 0..RecoveryEpochs]
  /\ epoch \in 0..(ConsecutiveEpochs - 1)
  /\ active \subseteq Nodes /\ targets \subseteq Nodes
  /\ report \in [Nodes -> Report]
  /\ past \in [PastEpochs -> [Nodes -> PastReport]]
  /\ bad \in [EvidenceWindow -> [Nodes -> [Kinds -> Nat]]]
  /\ afMark \in [Nodes -> {NotMarked} \cup 1..RecoveryEpochs]
  /\ stMark \in [Nodes -> BOOLEAN]

(* The markers that choose the recovery rule agree with the reason in the  *)
(* state record of a Postponed node, through every way in and out of       *)
(* Postponed (EnforceEpochEnd clears and sets them apart from the record). *)
MarkersMatchReason ==
  \A v \in Nodes : state[v] = "Postponed" =>
    /\ reason[v] # "none"
    /\ stMark[v] <=> reason[v] = "storage_truth"
    /\ afMark[v] = IF reason[v] = "action_finalization" THEN since[v]
                                                        ELSE NotMarked

(* Whoever leaves Postponed for Active or StorageFull satisfies the        *)
(* recovery rule of the reason it was postponed for, not that of another   *)
(* one (shouldRecoverAtEpochEnd chooses by the markers alone).             *)
RecoveryFitsReason ==
  [][\A v \in Nodes :
       (state[v] = "Postponed" /\ state'[v] \in {"Active", "StorageFull"}) =>
         CASE reason[v] = "action_finalization" -> recoversFromEvidence(v, since[v])
           [] reason[v] = "storage_truth"       ->
                \E verdict \in [Nodes -> Verdicts] :
                  verdict[v] = "clear" /\ EndEpoch(verdict)
           [] OTHER                             -> recoversFromReports(v)]_auditVars

AuditLife == INSTANCE SupernodeStateMachine WITH Nodes <- Nodes, life <- state

(* An epoch end moves every node along at most one edge of the state       *)
(* diagram: none is postponed and recovered, or recovered out of Stopped   *)
(* or Disabled, in the same EndBlocker.                                    *)
AuditFollowsStateMachine == AuditLife!Spec

(* x/audit/v1/POSTPONEMENT_RULES.md, "Missing reports": "If an `ACTIVE`    *)
(* supernode fails to submit any report for                                *)
(* `consecutive_epochs_to_postpone` consecutive epochs, it is set to       *)
(* `POSTPONED`."  Stated of every epoch end: the one step that anchors a   *)
(* new epoch.                                                              *)
SilentNodesPostponed ==
  [][\A v \in Nodes, verdict \in [Nodes -> Verdicts] :
       (EndEpoch(verdict) /\ state[v] = "Active"
          /\ missingReportsForConsecutiveEpochs(v)) =>
         state'[v] = "Postponed"]_auditVars
=============================================================================
