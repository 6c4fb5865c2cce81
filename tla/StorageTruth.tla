---------------------------- MODULE StorageTruth ----------------------------
(***************************************************************************)
(* The storage-truth rules of x/audit, on top of the facts: results raise  *)
(* and lower the suspicion of their target, the penalty of their reporter  *)
(* and the deterioration of their ticket; who may probe whom follows from  *)
(* an epoch's anchor and from the penalties; and an epoch end postpones    *)
(* the suspects and recovers those that have shown clean passes since.     *)
(*                                                                         *)
(* The enforcement mode is SOFT.  Other reasons to postpone are the matter *)
(* of AuditEnforcement, failed heals that of HealOps; a supernode is never *)
(* StorageFull here.  Rows keep the fields that some rule reads.           *)
(***************************************************************************)
EXTENDS StorageFacts, FiniteSetsExt, Functions

CONSTANTS
  Accounts,   \* Nodes in the order of their account names
  Rank,       \* storageTruthAssignmentHash: a number for <<epoch, account, account or None>>
  Params,     \* the storage-truth parameters, see below
  Stoppable   \* bound: <<epoch, node>> where operators stop and start their supernodes

ASSUME AccountsAssumption ==
  /\ Accounts \in [1..Len(Accounts) -> Nodes] /\ Len(Accounts) \in Nat
  /\ Range(Accounts) = Nodes
  /\ \A i, j \in DOMAIN Accounts : Accounts[i] = Accounts[j] => i = j

ASSUME HashesAssumption ==
  /\ \A e \in 0..MaxEpoch, c \in Nodes, t \in Nodes \cup {None} : Rank[<<e, c, t>>] \in Nat
  /\ \A e \in 0..MaxEpoch, v \in Nodes, i \in 0..MaxResults : <<e, v, i>> \in Hashes

(* What Params.Validate asks of the bands, and of the other parameters.    *)
ASSUME BandsAssumption ==
  /\ Params.watch \in Nat /\ Params.postpone \in Nat /\ Params.strong \in Nat
  /\ Params.passes \in Nat /\ Params.strongPasses \in Nat
  /\ 0 < Params.watch /\ Params.watch <= Params.postpone /\ Params.postpone < Params.strong
  /\ 0 < Params.passes /\ Params.passes <= Params.strongPasses

ASSUME ScoresAssumption ==
  /\ Params.divisor \in Nat \ {0} /\ Params.nodeDecay \in 1..1000
  /\ Params.reporterDecay \in 1..1000 /\ Params.ticketDecay \in 1..1000

ASSUME ParamsAssumption ==
  /\ 0 < Params.ineligible /\ 0 < Params.duration
  /\ \A w \in {Params.pattern, Params.classA, Params.classB, Params.oldClassA,
               Params.contradiction, Params.divergence} : w \in 1..Window
  /\ Params.minReports > 0
  /\ Params.cleanEpoch > 0      \* cleanPassesRequired, 5 in the code

VARIABLES
  life,     \* state of every supernode
  anchor,   \* the epoch's anchor: active and target supernodes
  node,     \* NodeSuspicionState
  rep,      \* ReporterReliabilityState
  tick,     \* TicketDeteriorationState
  mark,     \* storage-truth postponement marker, and whether it is the strong one
  clean     \* history: the band of the postponement, clean passes since

vars == <<factVars, life, anchor, node, rep, tick, mark, clean>>

NoNode     == [found |-> FALSE, score |-> 0, updated |-> 0, passes |-> 0, atPostpone |-> 0,
               lastPass |-> 0, lastA |-> 0, lastIndex |-> 0, start |-> 0, aWin |-> 0, bWin |-> 0]
NoReporter == [found |-> FALSE, score |-> 0, updated |-> 0, until |-> 0]
NoTicket   == [found |-> FALSE, score |-> 0, updated |-> 0, failed |-> 0,
               target |-> None, reporter |-> None, class |-> "NO_TICKET"]

Anchor(l) == [active  |-> {n \in Nodes : l[n] = "Active"},
              targets |-> {n \in Nodes : l[n] \in {"Active", "Postponed"}}]

Init ==
  /\ InitFacts
  /\ life = [n \in Nodes |-> "Active"] /\ anchor = Anchor(life)
  /\ node = [n \in Nodes |-> NoNode] /\ rep = [n \in Nodes |-> NoReporter]
  /\ tick = [t \in Tickets |-> NoTicket]
  /\ mark = [n \in Nodes |-> "no"]
  /\ clean = [n \in Nodes |-> [band |-> "no", passes |-> 0]]
-----------------------------------------------------------------------------
epochDelta(e, last) == IF e <= last THEN 0 ELSE e - last

(* floor(score * factor / 1000), once for every epoch passed. *)
Decayed(score, factor) ==
  LET f[i \in 0..50] == IF i = 0 THEN score ELSE (f[i - 1] * factor) \div 1000
  IN  f

decayTowardZero(score, factor, epochs) == Decayed(score, factor)[Min({epochs, 50})]

Positive(x) == Max({x, 0})

NodeScore(row)     == decayTowardZero(row.score, Params.nodeDecay, epochDelta(epoch, row.updated))
ReporterScore(row) == decayTowardZero(row.score, Params.reporterDecay, epochDelta(epoch, row.updated))
TicketScore(row)   == decayTowardZero(row.score, Params.ticketDecay, epochDelta(epoch, row.updated))

(* storageTruthScoreDeltasForResult *)
NodeDelta(p) ==
  CASE p.class = "PASS"           -> IF p.bucket = "RECENT" THEN -3 ELSE -2
    [] p.class = "HASH_MISMATCH"  -> IF p.artifact = "INDEX" THEN 26 ELSE 18
    [] p.class = "TIMEOUT"        -> 7
    [] p.class = "QUORUM_FAIL"    -> 4
    [] p.class = "CONFIRMED_FAIL" -> 15
    [] OTHER                      -> 0

ReporterDelta(p) ==
  CASE p.class = "HASH_MISMATCH"  -> 1
    [] p.class = "CONFIRMED_FAIL" -> 3
    [] OTHER                      -> 0

TicketDelta(p) ==
  CASE p.class = "PASS"           -> IF p.bucket = "OLD" THEN -3 ELSE -2
    [] p.class = "HASH_MISMATCH"  -> IF p.artifact = "INDEX" THEN 12 ELSE 5
    [] p.class = "TIMEOUT"        -> 3
    [] p.class = "CONFIRMED_FAIL" -> 8
    [] OTHER                      -> 0

isClassA(class) == class \in {"HASH_MISMATCH", "CONFIRMED_FAIL"}
-----------------------------------------------------------------------------
(* The rows after a delta.  A row without a history is not created for     *)
(* nothing, but an existing one is brought to the current epoch.           *)
NodeAfter(row, p, delta) ==
  LET stale == isFailure(p.class) /\ epochDelta(epoch, row.start) >= Params.pattern
  IN  IF ~row.found /\ delta = 0 THEN row
      ELSE [found      |-> TRUE,
            score      |-> Positive(NodeScore(row) + delta),
            updated    |-> epoch,
            passes     |-> IF p.class = "PASS" THEN row.passes + 1
                           ELSE IF isClassA(p.class) THEN 0 ELSE row.passes,
            atPostpone |-> row.atPostpone,
            lastPass   |-> IF p.class = "PASS" THEN epoch ELSE row.lastPass,
            lastA      |-> IF isClassA(p.class) THEN epoch ELSE row.lastA,
            lastIndex  |-> IF isFailure(p.class) /\ p.artifact = "INDEX" THEN epoch
                           ELSE row.lastIndex,
            start      |-> IF stale THEN epoch ELSE row.start,
            aWin       |-> (IF stale THEN 0 ELSE row.aWin) + (IF isClassA(p.class) THEN 1 ELSE 0),
            bWin       |-> (IF stale THEN 0 ELSE row.bWin) + (IF p.class = "TIMEOUT" THEN 1 ELSE 0)]

ReporterAfter(row, delta, contradicted) ==
  LET next == Positive(ReporterScore(row) + delta)
  IN  IF ~row.found /\ delta = 0 /\ ~contradicted THEN row
      ELSE [found |-> TRUE, score |-> next, updated |-> epoch,
            until |-> IF next >= Params.ineligible THEN epoch + Params.duration ELSE 0]

(* A pass on another holder than the one that failed counts 3 more.        *)
TicketAfter(row, v, r, delta) ==
  LET other == /\ r.proof.class = "PASS" /\ row.found /\ isFailure(row.class)
               /\ row.target \notin {None, r.target}
  IN  IF ~row.found /\ delta = 0 THEN row
      ELSE [found    |-> TRUE,
            score    |-> Positive(TicketScore(row) + delta - (IF other THEN 3 ELSE 0)),
            updated  |-> epoch,
            failed   |-> IF isFailure(r.proof.class) THEN epoch ELSE row.failed,
            target   |-> r.target, reporter |-> v, class |-> r.proof.class]
-----------------------------------------------------------------------------
(* storageTruthBookkeepingForResult, in a state s of the rows and facts    *)
(* that the earlier results of the report have left.                       *)
Failures(facts, n, w) == {f \in facts : f.target = n /\ f.epoch >= windowStart(epoch, w)}
TicketsOf(facts)      == {f.ticket : f \in facts}

repeatedFailureEscalationBonus(count) ==
  CASE count <= 1 -> 0 [] count = 2 -> 10 [] OTHER -> 15

NodeBonus(facts, r) ==
  LET recent == Failures(facts, r.target, Params.pattern)
  IN  repeatedFailureEscalationBonus(Cardinality(TicketsOf(recent) \cup {r.ticket}))
        + (IF {"RECENT", "OLD"} \subseteq {f.bucket : f \in recent} \cup {r.proof.bucket}
           THEN 12 ELSE 0)

TicketBonus(row, r) ==
  IF row.found /\ epoch # row.failed /\ row.target # None
  THEN IF row.target # r.target THEN 10 ELSE 6
  ELSE 0

Same(f, r) == /\ f.target = r.target /\ f.ticket = r.ticket /\ f.class = "PASS"
              /\ f.epoch >= windowStart(epoch, Params.contradiction)

(* hasStorageTruthContradictionConfirmation *)
Confirmed(s, v, r) ==
  \/ \E f \in s.rrs : Same(f, r) /\ f.reporter # v
  \/ \E h \in DOMAIN s.tbe : Same(s.tbe[h], r) /\ s.tbe[h].bucket = "RECHECK"

Contradicts(s, v, r) ==
  LET row == s.tick[r.ticket]
  IN  /\ r.proof.class = "PASS" /\ row.found /\ row.target = r.target
      /\ isFailure(row.class)
      /\ Confirmed(s, v, r)

reporterTrustMultiplier(score) == Max({50, 100 - score})

Scaled(delta, p, score) ==
  IF p.class = "HASH_MISMATCH" THEN (delta * reporterTrustMultiplier(score)) \div 100 ELSE delta

(* History: a pass counts towards recovery until the next class A failure. *)
CleanAfter(row, class) ==
  IF row.band = "no" THEN row
  ELSE IF class = "PASS" THEN [row EXCEPT !.passes = Min({@ + 1, Params.strongPasses})]
  ELSE IF isClassA(class) THEN [row EXCEPT !.passes = 0] ELSE row

(* One turn of the loop in applyStorageTruthScores.  Results of the        *)
(* RECHECK bucket bypass the bookkeeping.                                  *)
ApplyResult(v, s, r) ==
  LET p       == r.proof
      booked  == p.bucket # "RECHECK"
      failed  == booked /\ isFailure(p.class)
      trust   == IF booked THEN ReporterScore(s.rep[v]) ELSE 0
      overturns == booked /\ r.ticket # None /\ Contradicts(s, v, r)
      blamed  == IF overturns THEN {s.tick[r.ticket].reporter} \ {v, None} ELSE {}
      nDelta  == Scaled(NodeDelta(p), p, trust) + (IF failed THEN NodeBonus(s.nf, r) ELSE 0)
      tDelta  == Scaled(TicketDelta(p), p, trust)
                   + (IF failed THEN TicketBonus(s.tick[r.ticket], r) ELSE 0)
  IN  [node |-> [s.node EXCEPT ![r.target] = NodeAfter(@, p, nDelta)],
       rep  |-> [n \in Nodes |->
                   IF n = v THEN ReporterAfter(s.rep[n], ReporterDelta(p), overturns)
                   ELSE IF n \in blamed THEN ReporterAfter(s.rep[n], 12, TRUE)
                   ELSE s.rep[n]],
       tick |-> IF r.ticket = None THEN s.tick
                ELSE [s.tick EXCEPT ![r.ticket] = TicketAfter(@, v, r, tDelta)],
       nf   |-> IF isFailure(p.class)
                THEN Put(s.nf, {NodeFailure(v, epoch, r.target, r.ticket, p)}) ELSE s.nf,
       rrs  |-> IF booked /\ r.ticket # None
                THEN Put(s.rrs, {ReporterResult(v, epoch, r)}) ELSE s.rrs,
       tbe  |-> s.tbe,
       clean |-> [s.clean EXCEPT ![r.target] = CleanAfter(@, p.class)]]

(* The states that the results of a report lead to, one after the other.   *)
ScoreStates(v, rs) ==
  LET s[i \in 0..Len(rs)] ==
        IF i = 0 THEN [node |-> node, rep |-> rep, tick |-> tick, nf |-> nf, rrs |-> rrsTT,
                       tbe |-> tbe', clean |-> clean]
        ELSE ApplyResult(v, s[i - 1], rs[i])
  IN  s

applyStorageTruthScores(v, rs) == ScoreStates(v, rs)[Len(rs)]
-----------------------------------------------------------------------------
(* storageTruthEligibleChallengers: read from the live penalties.          *)
Eligible ==
  {n \in anchor.active :
     rep[n].found => /\ ReporterScore(rep[n]) < Params.ineligible
                     /\ rep[n].until = 0 \/ rep[n].until < epoch}

storageTruthChallengeTargetCount(n) ==
  Min({n, Max({1, (n + Params.divisor - 1) \div Params.divisor})})

(* The count targets with the lowest hashes. *)
Selected(targets, count) ==
  {t \in targets :
     Cardinality({u \in targets : Rank[<<epoch, u, None>>] < Rank[<<epoch, t, None>>]}) < count}

Best(c, targets) ==
  CHOOSE t \in targets : \A u \in targets : Rank[<<epoch, c, t>>] <= Rank[<<epoch, c, u>>]

Give(given, c, t) == [x \in DOMAIN given \cup {c} |-> IF x = c THEN t ELSE given[x]]

(* Mutant: the fallback takes up a target that has a challenger.           *)
AssignTwice(c, given, targets, count) ==
  LET chosen == Selected(targets, count) \ (Range(given) \cup {c})
      free   == IF chosen # {} THEN chosen ELSE targets \ {c}
  IN  IF Cardinality(DOMAIN given) >= count \/ free = {} THEN given
      ELSE Give(given, c, Best(c, free))

(* One turn of the loop over challengers: a selected target nobody has     *)
(* yet, else any target nobody has yet, and never the challenger itself.   *)
Assign(c, given, targets, count) ==
  LET left   == targets \ (Range(given) \cup {c})
      chosen == Selected(targets, count) \cap left
      free   == IF chosen # {} THEN chosen ELSE left
  IN  IF Cardinality(DOMAIN given) >= count \/ free = {} THEN given
      ELSE Give(given, c, Best(c, free))

(* What the loop has given out after the challengers among the first i     *)
(* accounts.                                                               *)
Givens(active, targets, count) ==
  LET given[i \in 0..Len(Accounts)] ==
        IF i = 0 THEN <<>>
        ELSE IF Accounts[i] \in active THEN Assign(Accounts[i], given[i - 1], targets, count)
        ELSE given[i - 1]
  IN  given

(* computeStorageTruthTargetsForReporter, for all challengers at once: a   *)
(* partial function from challengers to targets.                           *)
Assignment(active, targets) ==
  LET count == Min({storageTruthChallengeTargetCount(Cardinality(active)), Cardinality(targets)})
  IN  IF Cardinality(active) <= 1 THEN <<>>
      ELSE Givens(active, targets, count)[Len(Accounts)]

AllowedTargets(v) ==
  LET given == Assignment(Eligible, anchor.targets)
  IN  IF v \in DOMAIN given THEN {given[v]} ELSE {}
-----------------------------------------------------------------------------
(* observed: does the report observe all that is assigned to the reporter? *)
SubmitEpochReport(v, rs, observed) ==
  LET s       == applyStorageTruthScores(v, rs)
      allowed == AllowedTargets(v)
  IN  /\ RecordReport(v, rs)
      /\ \A i \in DOMAIN rs : rs[i].target \in allowed
      /\ ~observed => allowed # {}
      /\ node' = s.node /\ tick' = s.tick
      /\ rep' = IF observed THEN s.rep ELSE [s.rep EXCEPT ![v] = ReporterAfter(@, 8, FALSE)]
      /\ clean' = s.clean
      /\ UNCHANGED <<life, anchor, mark>>

(* A recheck that passes overturns the original report, one that confirms  *)
(* the failure credits it.                                                 *)
SubmitStorageRecheckEvidence(c, h, g, class) ==
  /\ RecordRecheck(c, h, g, class)
  /\ LET r == [target |-> spt[h].target, ticket |-> spt[h].ticket, proof |-> RecheckProof(class)]
         s == applyStorageTruthScores(c, <<r>>)
     IN  /\ node' = s.node /\ tick' = s.tick
         /\ rep' = [s.rep EXCEPT ![spt[h].reporter] =
                      CASE class = "PASS"           -> ReporterAfter(@, 25, TRUE)
                        [] class = "CONFIRMED_FAIL" -> ReporterAfter(@, -3, FALSE)
                        [] OTHER                    -> @]
         /\ clean' = s.clean
  /\ UNCHANGED <<life, anchor, mark>>
-----------------------------------------------------------------------------
(* storageTruthPostponePredicatesMet, and the counters in the row where no *)
(* fact is left.                                                           *)
PostponePredicates(n) ==
  LET inA == Failures(nf, n, Params.classA)
      old == {f \in Failures(nf, n, Params.oldClassA) : f.bucket = "OLD" /\ isClassA(f.class)}
  IN  \/ /\ \E f \in inA : f.bucket = "RECENT" /\ isClassA(f.class)
         /\ Cardinality(inA) >= 2
      \/ inA = {} /\ node[n].aWin >= 1 /\ node[n].aWin + node[n].bWin >= 2
      \/ Cardinality({f \in Failures(nf, n, Params.classB) : f.class = "TIMEOUT"}) >= 4
      \/ Cardinality(TicketsOf(old)) >= 2

StrongPredicates(n) ==
  LET inA == Failures(nf, n, Params.classA)
      faults == TicketsOf({f \in inA : isClassA(f.class)})
  IN  \/ Cardinality(faults) >= 2
      \/ faults = {} /\ node[n].aWin >= 2
      \/ \E f \in inA : f.artifact = "INDEX"
      \/ node[n].lastIndex > 0 /\ epochDelta(epoch, node[n].lastIndex) < Params.classA

(* The band in which applyStorageTruthBandAtEpochEnd postpones a node.     *)
PostponeBand(n) ==
  LET score == NodeScore(node[n])
  IN  CASE score >= Params.strong   -> IF StrongPredicates(n) THEN "strong" ELSE "no"
        [] score >= Params.postpone -> IF PostponePredicates(n) THEN "normal" ELSE "no"
        [] OTHER                    -> "no"

RequiredPasses(m) == IF m = "strong" THEN Params.strongPasses ELSE Params.passes

shouldRecoverFromStorageTruthPostponement(n) ==
  node[n].found =>
    /\ NodeScore(node[n]) < Params.watch
    /\ node[n].passes - node[n].atPostpone >= RequiredPasses(mark[n])
    /\ node[n].lastA # 0 => node[n].lastPass > node[n].lastA

PostponedNow == {n \in Nodes : life[n] = "Active" /\ PostponeBand(n) # "no"}

(* A postponed node without a marker recovers by a rule of                 *)
(* AuditEnforcement; other is the set of those that do.                    *)
RecoveredNow(other) ==
  {n \in Nodes : /\ life[n] = "Postponed"
                 /\ IF mark[n] = "no" THEN n \in other
                    ELSE shouldRecoverFromStorageTruthPostponement(n)}

Snapshot(n) == [node[n] EXCEPT !.atPostpone = node[n].passes]

(* EnforceEpochEnd.  The strong marker of an earlier postponement stays.   *)
EnforceEpochEnd(other) ==
  /\ life' = [n \in Nodes |-> CASE n \in PostponedNow -> "Postponed"
                                [] n \in RecoveredNow(other) -> "Active"
                                [] OTHER -> life[n]]
  /\ mark' = [n \in Nodes |-> CASE n \in PostponedNow /\ mark[n] # "strong" -> PostponeBand(n)
                                [] n \in RecoveredNow(other) -> "no"
                                [] OTHER -> mark[n]]
  /\ clean' = [n \in Nodes |-> CASE n \in PostponedNow -> [band |-> PostponeBand(n), passes |-> 0]
                                 [] n \in RecoveredNow(other) -> [band |-> "no", passes |-> 0]
                                 [] OTHER -> clean[n]]
  /\ node' = [n \in Nodes |-> IF n \in PostponedNow THEN Snapshot(n) ELSE node[n]]
-----------------------------------------------------------------------------
(* storageTruthReporterDivergenceStats *)
StatsOf(v) ==
  LET results == {f \in rrs : f.reporter = v /\ f.epoch >= windowStart(epoch, Params.divergence)}
      bad     == {f \in results : isFailure(f.class)}
  IN  [total |-> Cardinality(results), negative |-> Cardinality(bad),
       confirmed |-> Cardinality({f \in bad : f.verdict = "confirmed"})]

LowerRate(a, b) == a.negative * b.total < b.negative * a.total

(* The element in the middle of the sorted list, the upper one of two.     *)
Median(V) ==
  CHOOSE m \in V :
    LET below == {v \in V : LowerRate(StatsOf(v), StatsOf(m))}
        above == {v \in V : LowerRate(StatsOf(m), StatsOf(v))}
        mid   == Cardinality(V) \div 2
    IN  Cardinality(below) <= mid /\ mid < Cardinality(V) - Cardinality(above)

(* ApplyReporterDivergenceAtEpochEnd: more than twice the median rate of   *)
(* failures, less than half of them confirmed.                             *)
Diverging ==
  LET V == {v \in Nodes : rep[v].found /\ StatsOf(v).total >= Params.minReports}
  IN  {v \in V : LET s == StatsOf(v) m == StatsOf(Median(V))
                 IN  /\ s.negative * m.total > 2 * m.negative * s.total
                     /\ s.confirmed * 2 < s.negative}

(* ApplyReporterCleanEpochRecoveryAtEpochEnd *)
CleanEpoch(v) ==
  LET results == {f \in rrs : f.reporter = v /\ f.epoch = epoch}
  IN  /\ rep[v].found \/ <<epoch, v>> \in rrsE
      /\ Cardinality({f \in results : f.class = "PASS"}) >= Params.cleanEpoch
      /\ ~\E f \in results : isFailure(f.class) /\ f.verdict = "contradicted"

ReporterAtEpochEnd(v) ==
  LET row == IF v \in Diverging THEN ReporterAfter(rep[v], 8, FALSE) ELSE rep[v]
  IN  IF CleanEpoch(v) THEN ReporterAfter(row, -4, FALSE) ELSE row

(* pruneInactiveTicketDeteriorationStates *)
InertTicket(t) == /\ epoch > KeepEpochs /\ tick[t].updated < epoch - KeepEpochs
                  /\ tick[t].score = 0

(* The last block of an epoch and the anchor of the next one.              *)
EndBlocker(other) ==
  /\ EnforceEpochEnd(other)
  /\ rep' = [v \in Nodes |-> ReporterAtEpochEnd(v)]
  /\ PruneOldEpochs
  /\ tick' = [t \in Tickets |-> IF InertTicket(t) THEN NoTicket ELSE tick[t]]
  /\ anchor' = Anchor(life')
-----------------------------------------------------------------------------
(* Mutant: the export does not say which markers are strong ones.          *)
RestartForgetsStrong ==
  /\ RestartFromGenesis
  /\ \A n \in Nodes : mark[n] # "no" => life[n] = "Postponed"
  /\ mark' = [n \in Nodes |-> IF mark[n] = "no" THEN "no" ELSE "normal"]
  /\ UNCHANGED <<life, anchor, node, rep, tick, clean>>

(* A restart from the chain's export: rows and markers are kept, but a     *)
(* marker of a node that is not Postponed makes the import fail.           *)
Restart ==
  /\ RestartFromGenesis
  /\ \A n \in Nodes : mark[n] # "no" => life[n] = "Postponed"
  /\ UNCHANGED <<life, anchor, node, rep, tick, mark, clean>>

(* StopSupernode and StartSupernode: the audit state is not told.  The     *)
(* history of a postponement ends with it.                                 *)
Stop(n) ==
  /\ life[n] \in {"Active", "Postponed"}
  /\ life' = [life EXCEPT ![n] = "Stopped"]
  /\ clean' = [clean EXCEPT ![n] = [band |-> "no", passes |-> 0]]
  /\ UNCHANGED <<factVars, anchor, node, rep, tick, mark>>

Start(n) ==
  /\ life[n] = "Stopped"
  /\ life' = [life EXCEPT ![n] = "Active"]
  /\ UNCHANGED <<factVars, anchor, node, rep, tick, mark, clean>>
-----------------------------------------------------------------------------
(* Every report and every recheck names its transcripts by hashes of its   *)
(* own; clashes are the matter of StorageFacts.  Two bounds: the last      *)
(* epoch only starts, and who leaves out observations sends no results.    *)
HashOf(v, i) == <<epoch, v, i>>

ReportsOf(v) ==
  LET bare == {r \in [target : AllowedTargets(v), ticket : Tickets \cup {None}, proof : Proofs] :
                 r.ticket = None <=> r.proof.class = "NO_TICKET"}
  IN  {rs \in {[i \in DOMAIN bs |-> [target |-> bs[i].target, ticket |-> bs[i].ticket,
                                     proof |-> bs[i].proof, hash |-> HashOf(v, i)]] :
                bs \in UNION {[1..n -> bare] : n \in 0..MaxResults}} : NoDuplicates(rs)}

Next ==
  \/ /\ epoch < MaxEpoch
     /\ \/ \E v \in Reporters : \E rs \in ReportsOf(v) :
             SubmitEpochReport(v, rs, TRUE) \/ (rs = <<>> /\ SubmitEpochReport(v, rs, FALSE))
        \/ \E c \in Nodes, h \in Stored, class \in Rechecks :
             SubmitStorageRecheckEvidence(c, h, HashOf(c, 0), class)
  \/ \E other \in SUBSET {n \in Nodes : life[n] = "Postponed" /\ mark[n] = "no"} :
       EndBlocker(other)
  \/ Restart
  \/ \E n \in Nodes : <<epoch, n>> \in Stoppable /\ (Stop(n) \/ Start(n))

Spec == Init /\ [][Next]_vars
-----------------------------------------------------------------------------
(* A supernode postponed for suspicion returns only after the clean passes *)
(* its band asks for, all of them after the postponement and after its     *)
(* last class A failure: whatever passes it had collected before, whatever *)
(* marker an earlier postponement left, and over a restart.                *)
RecoveryEarned ==
  [][\A n \in Nodes :
       life[n] = "Postponed" /\ life'[n] = "Active" /\ clean[n].band # "no" =>
         clean[n].passes >= RequiredPasses(clean[n].band)]_vars

(* Whoever is eligible, no challenger gets itself, no target has two       *)
(* challengers, and of the targets to be probed at most one goes without:  *)
(* the greedy loop can end with a challenger for whom only itself is left. *)
AssignmentSound ==
  \A active \in SUBSET anchor.active :
    LET given == Assignment(active, anchor.targets)
        count == storageTruthChallengeTargetCount(Cardinality(active))
    IN  /\ DOMAIN given \subseteq active /\ Range(given) \subseteq anchor.targets
        /\ \A c, d \in DOMAIN given : given[c] # c /\ (given[c] = given[d] => c = d)
        /\ Cardinality(active) > 1 => Cardinality(DOMAIN given) >= count - 1

(* What LEP-6 says of contradictions: a failure that two other reporters   *)
(* answer with clean passes on the same target and ticket within the next  *)
(* epochs costs its reporter 12 points when the second pass arrives.       *)
ContradictionCaught ==
  [][\A f, p \in rrs, q \in rrs' \ rrs :
       /\ isFailure(f.class) /\ p.class = "PASS" /\ q.class = "PASS"
       /\ SameEntry(f, p) /\ SameEntry(f, q)
       /\ Cardinality({f.reporter, p.reporter, q.reporter}) = 3
       /\ f.epoch < p.epoch /\ p.epoch < q.epoch
       /\ q.epoch < f.epoch + Params.contradiction
       => rep'[f.reporter].score > ReporterScore(rep[f.reporter])]_vars
=============================================================================
