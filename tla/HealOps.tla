------------------------------- MODULE HealOps -------------------------------
(***************************************************************************)
(* Self-healing in x/audit: the epoch end schedules heal operations for    *)
(* deteriorated tickets, the assigned healer claims completion, assigned   *)
(* verifiers vote, a majority closes the operation, and a later epoch end  *)
(* expires what nobody closed and prunes what is old.                      *)
(*                                                                         *)
(* Reports are another component: here a storage-proof result leaves any   *)
(* score of ReportScores on its ticket, and failures may add the evidence  *)
(* that makes it heal-eligible.  The order of candidates of equal score is *)
(* left open, and so is the node the hash of ticket and epoch selects.     *)
(***************************************************************************)
EXTENDS Integers, FiniteSets, FiniteSetsExt, Functions

CONSTANTS
  Nodes,             \* supernode accounts
  Tickets,
  Hashes,            \* manifest and verification hashes
  HealThreshold,     \* storage_truth_ticket_deterioration_heal_threshold
  MaxPerEpoch,       \* storage_truth_max_self_heal_ops_per_epoch
  VerifierCount,     \* storage_truth_heal_verifier_count
  DeadlineEpochs,    \* storage_truth_heal_deadline_epochs
  ProbationEpochs,   \* storage_truth_probation_epochs
  KeepEpochs,        \* keep_last_epoch_entries
  MaxScore,          \* where additions to a score saturate
  ReportScores,      \* bound: the scores results leave on a ticket
  MaxEpoch,          \* bound: the last epoch
  MaxOps             \* bound: heal operations ever scheduled

FailedHealPenalty == 15
VerifiedFloor     == 8

None          == "none"
OpIds         == 1..MaxOps
OpenStatuses  == {"Scheduled", "HealerReported"}
FinalStatuses == {"Verified", "Failed", "Expired"}

(* WithDefaults and Params.Validate exclude zeros.                         *)
ASSUME ConstantsAssumption ==
  /\ HealThreshold \in Nat \ {0} /\ MaxPerEpoch \in Nat \ {0}
  /\ VerifierCount \in Nat \ {0} /\ DeadlineEpochs \in Nat \ {0}
  /\ ProbationEpochs \in Nat \ {0} /\ KeepEpochs \in Nat \ {0}
  /\ MaxScore \in Nat /\ MaxScore >= FailedHealPenalty
  /\ ReportScores \subseteq 0..MaxScore
  /\ MaxEpoch \in Nat /\ MaxOps \in Nat
  /\ IsFiniteSet(Nodes) /\ IsFiniteSet(Tickets)
  /\ None \notin Nodes /\ None \notin Tickets /\ None \notin Hashes

(* TicketDeteriorationState.  evidence is the eligibility predicate over   *)
(* distinct holders, index failures and repeated failures.                 *)
Ticket   == [found : BOOLEAN, score : 0..MaxScore, probation : Nat, active : Nat,
             evidence : BOOLEAN, lastTarget : Nodes \cup {None}, updated : Nat]
NoTicket == [found |-> FALSE, score |-> 0, probation |-> 0, active |-> 0,
             evidence |-> FALSE, lastTarget |-> None, updated |-> 0]

HealOp == [status : OpenStatuses \cup FinalStatuses \cup {None},
           ticket : Tickets \cup {None}, healer : Nodes \cup {None},
           verifiers : SUBSET Nodes, scheduled : Nat, deadline : Nat,
           hash : Hashes \cup {None}]
NoOp   == [status |-> None, ticket |-> None, healer |-> None, verifiers |-> {},
           scheduled |-> 0, deadline |-> 0, hash |-> None]
NoVote == [n \in Nodes |-> None]

VARIABLES
  epoch,
  tickets,      \* deterioration states
  ops,          \* heal operations, NoOp where none is stored
  nextId,       \* NextHealOpID
  votes,        \* HealOpVerification records of each operation
  statusIdx,    \* HealOpByStatusIndex: pairs <<status, id>>
  ticketIdx,    \* HealOpByTicketIndex: pairs <<ticket, id>>
  failedHeals   \* failed-heal markers: <<healer, epoch, ticket>>

vars == <<epoch, tickets, ops, nextId, votes, statusIdx, ticketIdx, failedHeals>>

Init ==
  /\ epoch = 0
  /\ tickets = [t \in Tickets |-> NoTicket]
  /\ ops = [id \in OpIds |-> NoOp]
  /\ nextId = 1
  /\ votes = [id \in OpIds |-> NoVote]
  /\ statusIdx = {} /\ ticketIdx = {} /\ failedHeals = {}

Open(id)  == ops[id].status \in OpenStatuses
Final(id) == ops[id].status \in FinalStatuses
-----------------------------------------------------------------------------
(* applyTicketDeteriorationDelta: what a storage-proof result leaves on    *)
(* its ticket, created with a zero score by a first pass.  A pass leaves   *)
(* the evidence alone, a failure may add to it or begin a new count.       *)
ReportResult(t, n, score, evidence) ==
  /\ tickets' = [tickets EXCEPT ![t] =
       [@ EXCEPT !.found = TRUE, !.score = score, !.lastTarget = n, !.updated = epoch,
                 !.evidence = evidence]]
  /\ UNCHANGED <<epoch, ops, nextId, votes, statusIdx, ticketIdx, failedHeals>>

(* SetHealOp for the operations of a set, whose new records rec gives.     *)
Stored(rec, ids) == [id \in OpIds |-> IF id \in ids THEN rec[id] ELSE ops[id]]

StatusIdxAfter(rec, ids) ==
  {e \in statusIdx : e[2] \notin ids} \cup {<<rec[id].status, id>> : id \in ids}

SetStatus(id, status, hash) ==
  LET rec == [i \in {id} |-> [ops[i] EXCEPT !.status = status, !.hash = hash]]
  IN  /\ ops' = Stored(rec, {id})
      /\ statusIdx' = StatusIdxAfter(rec, {id})
      /\ ticketIdx' = ticketIdx

(* Mutant: a claim after the verification failed.                          *)
ClaimableAgain(id) == ops[id].status \in {"Scheduled", "Failed"}

(* The status IN_PROGRESS, also accepted, is never stored.                 *)
Claimable(id) == ops[id].status = "Scheduled"

ClaimHealComplete(id, n, hash) ==
  /\ Claimable(id)
  /\ ops[id].healer = n
  /\ ops[id].verifiers # {}
  /\ SetStatus(id, "HealerReported", hash)
  /\ UNCHANGED <<epoch, tickets, nextId, votes, failedHeals>>
-----------------------------------------------------------------------------
Saturated(score) == IF score > MaxScore THEN MaxScore ELSE score

(* Mutants: no cooldown, and the pointer to the operation kept.            *)
AfterFailedHealHot(tk, id) ==
  [tk EXCEPT !.score = Saturated(@ + FailedHealPenalty),
             !.active = IF @ = id THEN 0 ELSE @]
AfterFailedHealKept(tk, id) ==
  [tk EXCEPT !.score = Saturated(@ + FailedHealPenalty),
             !.probation = IF @ < epoch + ProbationEpochs THEN epoch + ProbationEpochs ELSE @]

(* A failed or expired operation: penalty, cooldown, pointer cleared.      *)
AfterFailedHeal(tk, id) ==
  [tk EXCEPT !.score = Saturated(@ + FailedHealPenalty),
             !.probation = IF @ < epoch + ProbationEpochs THEN epoch + ProbationEpochs ELSE @,
             !.active = IF @ = id THEN 0 ELSE @]

AfterVerifiedHeal(tk, id) ==
  [tk EXCEPT !.score = IF @ \div 4 < VerifiedFloor THEN VerifiedFloor ELSE @ \div 4,
             !.probation = epoch + ProbationEpochs,
             !.evidence = FALSE,
             !.active = IF @ = id THEN 0 ELSE @]

Marker(id) == <<ops[id].healer, epoch, ops[id].ticket>>

finalizeHealOp(id, verified, hash) ==
  LET t == ops[id].ticket
  IN  /\ SetStatus(id, IF verified THEN "Verified" ELSE "Failed", hash)
      /\ tickets' = [tickets EXCEPT ![t] =
           IF ~@.found THEN @
           ELSE IF verified THEN AfterVerifiedHeal(@, id) ELSE AfterFailedHeal(@, id)]
      /\ failedHeals' = failedHeals \cup
           (IF tickets[t].found /\ ~verified THEN {Marker(id)} ELSE {})

Count(vs, id, v) == Cardinality({n \in ops[id].verifiers : vs[id][n] = v})

(* Mutant: half of the verifiers are enough.                               *)
MajorityOfHalf(id) == (Cardinality(ops[id].verifiers) + 1) \div 2

Majority(id) == Cardinality(ops[id].verifiers) \div 2 + 1

(* A positive vote commits to the hash the healer reported.                *)
SubmitHealVerification(id, n, v, hash) ==
  LET vs == [votes EXCEPT ![id][n] = v]
  IN  /\ ops[id].status = "HealerReported"
      /\ n \in ops[id].verifiers
      /\ votes[id][n] = None
      /\ v = "yes" => hash = ops[id].hash
      /\ votes' = vs
      /\ \/ /\ Count(vs, id, "no") >= Majority(id)
            /\ finalizeHealOp(id, FALSE, hash)
         \/ /\ Count(vs, id, "no") < Majority(id)
            /\ Count(vs, id, "yes") >= Majority(id)
            /\ finalizeHealOp(id, TRUE, hash)
         \/ /\ Count(vs, id, "no") < Majority(id)
            /\ Count(vs, id, "yes") < Majority(id)
            /\ UNCHANGED <<tickets, ops, statusIdx, ticketIdx, failedHeals>>
      /\ UNCHANGED <<epoch, nextId>>
-----------------------------------------------------------------------------
(* The epoch end: expire, schedule, prune, in one EndBlocker.              *)

Overdue == {id \in OpIds : Open(id) /\ ops[id].deadline <= epoch}

(* A ticket has one open operation at most (ActivePointerExact).           *)
TicketsExpired ==
  [t \in Tickets |->
     IF tickets[t].found /\ \E id \in Overdue : ops[id].ticket = t
     THEN AfterFailedHeal(tickets[t], CHOOSE id \in Overdue : ops[id].ticket = t)
     ELSE tickets[t]]

StillOpen == {id \in OpIds : Open(id)} \ Overdue

Deteriorated(tk) == tk.found /\ tk.score >= HealThreshold /\ tk.probation <= epoch

Candidate(t, tk) ==
  /\ Deteriorated(tk)
  /\ tk.active \notin StillOpen
  /\ \A id \in StillOpen : ops[id].ticket # t
  /\ tk.evidence

(* assignStorageTruthHealParticipants: the healer at the hashed position   *)
(* of the eligible accounts, the verifiers at the positions after it.      *)
HealParticipants(list, idx, n) ==
  [healer    |-> list[idx],
   verifiers |-> {list[(idx + i) % n] : i \in 1..Min({VerifierCount, n - 1})}]

(* The order of the accounts is theirs, so any order may be the sorted one. *)
Assignments ==
  [E \in SUBSET Nodes |->
     LET n == Cardinality(E)
     IN  {HealParticipants(list, idx, n) :
            list \in Bijection(0..(n - 1), E), idx \in 0..(n - 1)}]

(* Active accounts that are neither postponed nor suspect, without the     *)
(* node that failed last; one alone would have no verifier.                *)
EligibleHealers(tk, pool) == pool \ {tk.lastTarget}

Schedulable(pool) ==
  {t \in Tickets : /\ Candidate(t, TicketsExpired[t])
                   /\ Cardinality(EligibleHealers(tickets[t], pool)) >= 2}

(* A plan gives the scheduled tickets their operations: as many as the     *)
(* limit (and the bound MaxOps) allows, higher scores first.               *)
Plans(pool) ==
  LET all  == Schedulable(pool)
      size == Min({MaxPerEpoch, Cardinality(all), MaxOps + 1 - nextId})
      better(c, d) == TicketsExpired[c].score > TicketsExpired[d].score
  IN  UNION {
        {plan \in [S -> nextId..(nextId + size - 1)] :
           /\ \A c, d \in S : plan[c] = plan[d] => c = d
           /\ \A c, d \in S : better(c, d) => plan[c] < plan[d]} :
        S \in {S \in kSubset(size, all) :
                 \A c \in S, d \in all \ S : ~better(d, c)}}

NewOp(t, who) ==
  [status |-> "Scheduled", ticket |-> t, healer |-> who.healer,
   verifiers |-> who.verifiers, scheduled |-> epoch,
   deadline |-> epoch + DeadlineEpochs, hash |-> None]

OpsScheduled(plan, team) ==
  [id \in OpIds |->
     IF \E t \in DOMAIN plan : plan[t] = id
     THEN LET t == CHOOSE t \in DOMAIN plan : plan[t] = id IN NewOp(t, team[t])
     ELSE IF id \in Overdue THEN [ops[id] EXCEPT !.status = "Expired"] ELSE ops[id]]

(* A pointer to an operation that is not open any more is cleared.         *)
TicketsScheduled(plan) ==
  [t \in Tickets |->
     LET tk == TicketsExpired[t]
     IN  [tk EXCEPT !.active =
            IF t \in DOMAIN plan THEN plan[t]
            ELSE IF Deteriorated(tk) /\ @ \notin StillOpen THEN 0 ELSE @]]

(* pruneTerminalHealOps and pruneInactiveTicketDeteriorationStates.        *)
Old(op) == op.status \in FinalStatuses /\ op.scheduled + KeepEpochs < epoch

Inert(tk) ==
  epoch > KeepEpochs /\ tk.updated < epoch - KeepEpochs /\ tk.score = 0 /\ tk.active = 0

(* Mutant: votes of a pruned operation stay behind.                        *)
VotesKept(newOps) == votes

VotesPruned(newOps) == [id \in OpIds |-> IF Old(newOps[id]) THEN NoVote ELSE votes[id]]

KeptMarkers(ms) == {m \in ms : m[2] + KeepEpochs >= epoch + 1}

EndEpoch(plan, team) ==
  LET newOps == OpsScheduled(plan, team)
      newTks == TicketsScheduled(plan)
      fails  == {Marker(id) : id \in {i \in Overdue : tickets[ops[i].ticket].found}}
      touched == Overdue \cup {plan[t] : t \in DOMAIN plan}
      pruned == {id \in OpIds : Old(newOps[id])}
  IN  /\ epoch < MaxEpoch
      /\ ops' = [id \in OpIds |-> IF id \in pruned THEN NoOp ELSE newOps[id]]
      /\ tickets' = [t \in Tickets |-> IF Inert(newTks[t]) THEN NoTicket ELSE newTks[t]]
      /\ nextId' = nextId + Cardinality(DOMAIN plan)
      /\ votes' = VotesPruned(newOps)
      /\ statusIdx' = {e \in StatusIdxAfter(newOps, touched) : e[2] \notin pruned}
      /\ ticketIdx' = {e \in ticketIdx : e[2] \notin pruned}
                        \cup {<<t, plan[t]>> : t \in DOMAIN plan}
      /\ failedHeals' = KeptMarkers(failedHeals \cup fails)
      /\ epoch' = epoch + 1
-----------------------------------------------------------------------------
Next ==
  \/ \E t \in Tickets, n \in Nodes, s \in ReportScores, evidence \in BOOLEAN :
       ReportResult(t, n, s, evidence)
  \/ \E id \in OpIds, n \in Nodes, hash \in Hashes : ClaimHealComplete(id, n, hash)
  \/ \E id \in OpIds, n \in Nodes, v \in {"yes", "no"}, hash \in Hashes :
       SubmitHealVerification(id, n, v, hash)
  \/ \E pool \in SUBSET Nodes : \E plan \in Plans(pool) :
       LET who(t) == Assignments[EligibleHealers(tickets[t], pool)]
       IN  \E team \in [DOMAIN plan -> UNION {who(t) : t \in DOMAIN plan}] :
             /\ \A t \in DOMAIN plan : team[t] \in who(t)
             /\ EndEpoch(plan, team)

Spec == Init /\ [][Next]_vars
-----------------------------------------------------------------------------
TypeOK ==
  /\ epoch \in 0..MaxEpoch
  /\ tickets \in [Tickets -> Ticket]
  /\ ops \in [OpIds -> HealOp]
  /\ nextId \in 1..(MaxOps + 1)
  /\ votes \in [OpIds -> [Nodes -> {None, "yes", "no"}]]
  /\ statusIdx \subseteq (OpenStatuses \cup FinalStatuses) \X OpIds
  /\ ticketIdx \subseteq Tickets \X OpIds
  /\ failedHeals \subseteq Nodes \X Nat \X Tickets

(* The pointer of a ticket names its one open operation, and every open    *)
(* operation is named by its ticket, which pruning keeps until it closes:  *)
(* the branch of the scheduler that repairs stale pointers is never taken. *)
ActivePointerExact ==
  /\ \A id \in OpIds : Open(id) =>
       tickets[ops[id].ticket].found /\ tickets[ops[id].ticket].active = id
  /\ \A t \in Tickets : tickets[t].active # 0 =>
       /\ tickets[t].active \in OpIds
       /\ Open(tickets[t].active) /\ ops[tickets[t].active].ticket = t

(* An operation is closed by the first majority of its verifiers and by    *)
(* nothing else: an open or expired one never had a majority, a closed one *)
(* has the majority its status names (finalizeHealOp counts on each vote). *)
ClosedByMajority ==
  \A id \in OpIds :
    LET yes == Count(votes, id, "yes") * 2 > Cardinality(ops[id].verifiers)
        no  == Count(votes, id, "no") * 2 > Cardinality(ops[id].verifiers)
    IN  /\ (yes <=> ops[id].status = "Verified")
        /\ (no <=> ops[id].status = "Failed")
        /\ \A n \in Nodes : votes[id][n] # None =>
             n \in ops[id].verifiers /\ ops[id].status # "Scheduled"

(* A healer never verifies its own work, and no operation is scheduled     *)
(* that nobody could verify: assignStorageTruthHealParticipants wraps      *)
(* around a list whose length varies with postponements and suspicion.     *)
VerifiersIndependent ==
  \A id \in OpIds : ops[id].status # None =>
    ops[id].healer \notin ops[id].verifiers /\ ops[id].verifiers # {}

(* The two indexes and the vote records agree with the stored operations,  *)
(* after every status change and after pruning.                            *)
IndexesExact ==
  /\ statusIdx = {<<ops[id].status, id>> : id \in {i \in OpIds : ops[i].status # None}}
  /\ ticketIdx = {<<ops[id].ticket, id>> : id \in {i \in OpIds : ops[i].status # None}}
  /\ \A id \in OpIds : ops[id].status = None => votes[id] = NoVote

(* No operation is open after its deadline epoch, whoever is silent.       *)
DeadlineKept == \A id \in OpIds : Open(id) => epoch <= ops[id].deadline

(* As long as a failed or expired operation is stored, so is the marker    *)
(* that counts against its healer: pruning drops markers no earlier.       *)
FailedHealRecorded ==
  \A id \in OpIds : ops[id].status \in {"Failed", "Expired"} =>
    \E m \in failedHeals : m[1] = ops[id].healer /\ m[3] = ops[id].ticket

(* A closed operation keeps its record until it is pruned, and no ID is    *)
(* used twice.                                                             *)
ClosedIsFinal ==
  [][\A id \in OpIds :
       /\ Final(id) => ops'[id] \in {ops[id], NoOp}
       /\ id < nextId /\ ops[id] = NoOp => ops'[id] = NoOp]_vars

(* After a failed or expired heal, a ticket is not scheduled again before  *)
(* its cooldown is over, whatever reports and prunings come in between.    *)
CooldownKept ==
  [][\A t \in Tickets :
       (tickets'[t].active \notin {0, tickets[t].active}) =>
         \A m \in failedHeals : m[3] = t => m[2] + ProbationEpochs <= epoch]_vars
==============================================================================
