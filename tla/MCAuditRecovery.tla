--------------------------- MODULE MCAuditRecovery ---------------------------
(* AuditEnforcement with an environment that misbehaves in every way for   *)
(* as long as it likes and then settles: from some point on operators and  *)
(* evidence are quiet, every supernode that is expected to report does so, *)
(* healthy and with all targets open, before the epoch ends, and no        *)
(* storage-truth score stands against anyone.                              *)
EXTENDS AuditEnforcement

MCEvidencesPerEpoch == [k \in Kinds |-> 1]
MCEvidenceEpochs == [k \in Kinds |-> 1]

VARIABLE settled

(* Up to four targets, the default parameters assign every other target to *)
(* every prober: min_probe_targets_per_epoch is 3.                         *)
SeesAllOpen(v) == [t \in Nodes |-> IF t \in Assignable(v) THEN "open" ELSE "none"]

AllReported == \A v \in targets : report[v].sent

Settle == ~settled /\ settled' = TRUE /\ UNCHANGED auditVars

SettledStep ==
  /\ settled
  /\ \/ \E v \in Nodes, disk \in Disks :
          SubmitEpochReport(v, "ok", disk, SeesAllOpen(v))
     \/ AllReported /\ EndEpoch([v \in Nodes |-> "clear"])
  /\ UNCHANGED settled

RecoveryInit == InitAudit /\ settled = FALSE
RecoveryNext == (~settled /\ NextAudit /\ UNCHANGED settled) \/ Settle \/ SettledStep

(* Blocks keep coming and the nodes keep reporting.                        *)
RecoverySpec ==
  /\ RecoveryInit /\ [][RecoveryNext]_<<auditVars, settled>>
  /\ WF_<<auditVars, settled>>(SettledStep)

(* No state the misbehaviour can leave behind is a trap: once everyone     *)
(* behaves, every postponed supernode recovers and nobody is postponed     *)
(* again.  The comment in shouldRecoverAtEpochEnd is about the one state   *)
(* that would be a trap, all nodes Postponed and nobody left to probe.     *)
EveryoneRecovers == <>settled => <>[](\A v \in Nodes : state[v] # "Postponed")
=============================================================================
