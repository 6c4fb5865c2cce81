---------------------------- MODULE StorageFacts ----------------------------
(***************************************************************************)
(* The storage-truth facts of x/audit: reports bring storage-proof results *)
(* whose transcripts other supernodes may recheck, and both leave facts    *)
(* that the scoring and enforcement rules look up over windows of epochs.  *)
(* Facts are stored under primary keys with copies under secondary ones,   *)
(* pruned at epoch ends and carried over a restart from exported genesis.  *)
(*                                                                         *)
(* A transcript hash stands for its transcript: two stored transcripts of  *)
(* reports never share one.  Enforcement is on (SHADOW, SOFT or FULL), all *)
(* nodes stay registered, and who is assigned to whom is left open here.   *)
(***************************************************************************)
EXTENDS Integers, Sequences, FiniteSets

CONSTANTS
  Nodes,        \* supernode accounts
  Tickets,
  Hashes,       \* transcript hashes
  None,         \* the empty string
  Reporters,    \* bound: the supernodes that send reports
  Proofs,       \* bound: what a result may say, of Proof below
  Rechecks,     \* bound: the classes a recheck may have, of RecheckClasses
  MaxResults,   \* max_storage_proof_results_per_report
  KeepEpochs,   \* keep_last_epoch_entries
  Window,       \* the longest window a rule looks back over
  MaxEpoch      \* bound: the last epoch

FailureClasses  == {"HASH_MISMATCH", "TIMEOUT", "QUORUM_FAIL", "INVALID", "CONFIRMED_FAIL"}
EligibleClasses == {"HASH_MISMATCH", "TIMEOUT", "QUORUM_FAIL", "INVALID"}
RecheckClasses  == {"PASS"} \cup FailureClasses
Classes         == {"NO_TICKET"} \cup RecheckClasses
Buckets         == {"RECENT", "OLD", "PROBATION", "RECHECK"}
Artifacts       == {"INDEX", "SYMBOL", "UNSPECIFIED"}

(* What validateStorageProofResults accepts of one result, its target and  *)
(* its hash apart.                                                         *)
Proof == {p \in [class : Classes, bucket : Buckets, artifact : Artifacts] :
            /\ p.class = "NO_TICKET" <=> p.artifact = "UNSPECIFIED"
            /\ p.class = "NO_TICKET" => p.bucket \in {"RECENT", "OLD"}
            /\ p.class = "CONFIRMED_FAIL" => p.bucket = "RECHECK"}

(* Params.Validate keeps every look-back window inside KeepEpochs.         *)
ASSUME FactsAssumption ==
  /\ Reporters \subseteq Nodes /\ Proofs \subseteq Proof /\ Rechecks \subseteq RecheckClasses
  /\ MaxResults \in Nat /\ MaxEpoch \in Nat
  /\ Window \in Nat \ {0} /\ KeepEpochs \in Nat /\ Window <= KeepEpochs
  /\ None \notin Nodes /\ None \notin Tickets /\ None \notin Hashes

Verdicts   == {"none", "confirmed", "contradicted"}
Transcript == [epoch : Nat, reporter : Nodes, target : Nodes, ticket : Tickets \cup {None},
               class : Classes, bucket : Buckets, verdict : Verdicts,
               recheck : Hashes \cup {None}, challenged : Hashes \cup {None}]
Result     == {r \in [target : Nodes, ticket : Tickets \cup {None}, proof : Proofs, hash : Hashes] :
                 r.ticket = None <=> r.proof.class = "NO_TICKET"}

VARIABLES
  epoch,
  anchors,     \* epochs with a stored EpochAnchor
  sent,        \* stored reports: <<epoch, reporter>>
  spt,         \* st/spt: transcripts by hash, a partial function
  tbe,         \* st/spt-tbe: their copies by target, bucket, epoch and hash
  nf,          \* st/nf: node failures
  rrs,         \* st/rrs: results by reporter, epoch, ticket and target
  rrsTT,       \* st/rrs-tt: their copies by target
  rrsE,        \* st/rrs-e: <<epoch, reporter>> with a result
  rce          \* st/rce: recheck evidence, <<epoch, ticket, creator>>

factVars == <<epoch, anchors, sent, spt, tbe, nf, rrs, rrsTT, rrsE, rce>>

InitFacts ==
  /\ epoch = 0 /\ anchors = {0} /\ sent = {}
  /\ spt = <<>> /\ tbe = <<>>
  /\ nf = {} /\ rrs = {} /\ rrsTT = {} /\ rrsE = {} /\ rce = {}

isFailure(class) == class \in FailureClasses
Stored == DOMAIN spt

windowStart(e, w) == IF e + 1 <= w THEN 0 ELSE e - w + 1
-----------------------------------------------------------------------------
(* A store write replaces what was stored under the same key.  The keys of *)
(* failures and of results have the same parts.                            *)
SameKey(a, b) == /\ a.epoch = b.epoch /\ a.reporter = b.reporter
                 /\ a.target = b.target /\ a.ticket = b.ticket

Put(facts, new) == {f \in facts : \A n \in new : ~SameKey(f, n)} \cup new

PutTranscripts(store, new) ==
  [h \in DOMAIN store \cup DOMAIN new |-> IF h \in DOMAIN new THEN new[h] ELSE store[h]]

NodeFailure(v, e, target, ticket, proof) ==
  [epoch |-> e, reporter |-> v, target |-> target, ticket |-> ticket,
   class |-> proof.class, bucket |-> proof.bucket, artifact |-> proof.artifact]

ReporterResult(v, e, r) ==
  [epoch |-> e, reporter |-> v, target |-> r.target, ticket |-> r.ticket,
   class |-> r.proof.class, verdict |-> "none"]

SameEntry(r, s) == r.target = s.target /\ r.ticket = s.ticket

(* Of the results of a report under one key the last one stays.            *)
Latest(rs, I) == {i \in I : \A j \in I : j > i => ~SameEntry(rs[i], rs[j])}

FailuresOf(v, rs) ==
  {NodeFailure(v, epoch, rs[i].target, rs[i].ticket, rs[i].proof) :
     i \in Latest(rs, {j \in DOMAIN rs : isFailure(rs[j].proof.class)})}

(* Results of the RECHECK bucket and without a ticket are not kept.        *)
ResultsOf(v, rs) ==
  {ReporterResult(v, epoch, rs[i]) :
     i \in Latest(rs, {j \in DOMAIN rs : rs[j].proof.bucket # "RECHECK"
                                        /\ rs[j].ticket # None})}

(* indexStorageProofTranscripts *)
TranscriptsOf(v, rs) ==
  [h \in {rs[i].hash : i \in DOMAIN rs} |->
     LET r == rs[CHOOSE i \in DOMAIN rs : rs[i].hash = h]
     IN  [epoch |-> epoch, reporter |-> v, target |-> r.target, ticket |-> r.ticket,
          class |-> r.proof.class, bucket |-> r.proof.bucket, verdict |-> "none",
          recheck |-> None, challenged |-> None]]

(* hasObservedEligibleTicketForTargetBucketInWindow, which denies that the *)
(* target has no ticket.  (The window of the RECENT bucket has parameters  *)
(* of its own.)                                                            *)
SeenTicket(target, bucket) ==
  \E h \in DOMAIN tbe : /\ tbe[h].target = target /\ tbe[h].bucket = bucket
                        /\ tbe[h].epoch >= windowStart(epoch, Window)
                        /\ tbe[h].ticket # None

ValidResult(v, r) ==
  /\ r.target # v
  /\ r.ticket = None => ~SeenTicket(r.target, r.proof.bucket)

(* SubmitEpochReport, as far as it concerns facts.                         *)
RecordReport(v, rs) ==
  /\ epoch \in anchors
  /\ <<epoch, v>> \notin sent
  /\ \A i \in DOMAIN rs : ValidResult(v, rs[i]) /\ rs[i].hash \notin Stored
  /\ sent' = sent \cup {<<epoch, v>>}
  /\ spt' = PutTranscripts(spt, TranscriptsOf(v, rs))
  /\ tbe' = PutTranscripts(tbe, TranscriptsOf(v, rs))
  /\ nf' = Put(nf, FailuresOf(v, rs))
  /\ rrs' = Put(rrs, ResultsOf(v, rs))
  /\ rrsTT' = Put(rrsTT, ResultsOf(v, rs))
  /\ rrsE' = rrsE \cup (IF ResultsOf(v, rs) = {} THEN {} ELSE {<<epoch, v>>})
  /\ UNCHANGED <<epoch, anchors, rce>>
-----------------------------------------------------------------------------
recheckEligible(t) == t.challenged = None /\ t.class \in EligibleClasses

(* linkStorageTruthRecheckTranscript: the challenged transcript is linked  *)
(* to one recheck, and the hash of a recheck belongs to one request.       *)
Links(c, h, g) ==
  /\ spt[h].recheck \in {None, g}
  /\ g \in Stored => spt[g].challenged = h /\ spt[g].reporter = c

(* Mutant: the record of a recheck has the epoch of its submission.        *)
RecheckTranscriptNow(c, h, class) ==
  [epoch |-> epoch, reporter |-> c, target |-> spt[h].target,
   ticket |-> spt[h].ticket, class |-> class, bucket |-> "RECHECK", verdict |-> "none",
   recheck |-> None, challenged |-> h]

(* It has the epoch of the transcript it is about.                         *)
RecheckTranscript(c, h, class) ==
  [epoch |-> spt[h].epoch, reporter |-> c, target |-> spt[h].target,
   ticket |-> spt[h].ticket, class |-> class, bucket |-> "RECHECK", verdict |-> "none",
   recheck |-> None, challenged |-> h]

VerdictOf(class) == CASE class = "PASS"           -> "contradicted"
                      [] class = "CONFIRMED_FAIL" -> "confirmed"
                      [] OTHER                    -> "none"

(* markStorageTruthReporterResultRecheck *)
Marked(facts, t, verdict) ==
  IF verdict = "none" THEN facts
  ELSE {IF SameKey(f, t) THEN [f EXCEPT !.verdict = verdict] ELSE f : f \in facts}

LinkedTranscripts(c, h, g, class) ==
  LET t == [spt[h] EXCEPT !.recheck = g, !.verdict = VerdictOf(class)]
      g0 == IF g \in Stored THEN spt[g] ELSE RecheckTranscript(c, h, class)
  IN  [k \in {h, g} |-> IF k = h THEN t ELSE g0]

(* The synthetic result that carries the outcome to the scores.            *)
RecheckProof(class) == [class |-> class, bucket |-> "RECHECK", artifact |-> "UNSPECIFIED"]

(* SubmitStorageRecheckEvidence, as far as it concerns facts.              *)
RecordRecheck(c, h, g, class) ==
  /\ h \in Stored
  /\ spt[h].epoch \in anchors
  /\ c \notin {spt[h].target, spt[h].reporter}
  /\ recheckEligible(spt[h])
  /\ <<spt[h].epoch, spt[h].ticket, c>> \notin rce
  /\ Links(c, h, g)
  /\ rce' = rce \cup {<<spt[h].epoch, spt[h].ticket, c>>}
  /\ spt' = PutTranscripts(spt, LinkedTranscripts(c, h, g, class))
  /\ tbe' = PutTranscripts(tbe, LinkedTranscripts(c, h, g, class))
  /\ nf' = IF isFailure(class)
           THEN Put(nf, {NodeFailure(c, epoch, spt[h].target, spt[h].ticket,
                                     RecheckProof(class))})
           ELSE nf
  /\ rrs' = Marked(rrs, spt[h], VerdictOf(class))
  /\ rrsTT' = Marked(rrsTT, spt[h], VerdictOf(class))
  /\ UNCHANGED <<epoch, anchors, sent, rrsE>>
-----------------------------------------------------------------------------
(* Mutant: the bound moves on by two epochs too many.                      *)
minKeepEarly == IF epoch + 3 > KeepEpochs THEN epoch + 3 - KeepEpochs ELSE 0

minKeepEpochID == IF epoch + 1 > KeepEpochs THEN epoch + 1 - KeepEpochs ELSE 0

KeptFacts(facts) == {f \in facts : f.epoch >= minKeepEpochID}
KeptPairs(pairs) == {p \in pairs : p[1] >= minKeepEpochID}
KeptTranscripts(store) ==
  [h \in {g \in DOMAIN store : store[g].epoch >= minKeepEpochID} |-> store[h]]

(* PruneOldEpochs in the EndBlocker of the last block of an epoch, and the *)
(* anchor that the BeginBlocker of the next block stores.                  *)
PruneOldEpochs ==
  /\ epoch < MaxEpoch
  /\ epoch' = epoch + 1
  /\ anchors' = {e \in anchors : e >= minKeepEpochID} \cup {epoch + 1}
  /\ sent' = KeptPairs(sent)
  /\ spt' = KeptTranscripts(spt) /\ tbe' = KeptTranscripts(tbe)
  /\ nf' = KeptFacts(nf)
  /\ rrs' = KeptFacts(rrs) /\ rrsTT' = KeptFacts(rrsTT)
  /\ rrsE' = KeptPairs(rrsE)
  /\ rce' = {e \in rce : e[1] >= minKeepEpochID}

(* Mutant: the import decodes a transcript and encodes it anew, without    *)
(* the fields it does not know.                                            *)
RestartReencoded ==
  /\ anchors # {} /\ anchors' = {}
  /\ spt' = [h \in Stored |-> [spt[h] EXCEPT !.verdict = "none"]]
  /\ tbe' = spt'
  /\ rrsTT' = rrs /\ rrsE' = {<<f.epoch, f.reporter>> : f \in rrs}
  /\ UNCHANGED <<epoch, sent, nf, rrs, rce>>

(* A restart from the chain's own export: ExportGenesis covers the primary *)
(* facts, InitGenesis writes them with their copies.  Anchors are neither  *)
(* exported nor created before the next epoch starts.                      *)
RestartFromGenesis ==
  /\ anchors # {} /\ anchors' = {}
  /\ tbe' = spt
  /\ rrsTT' = rrs
  /\ rrsE' = {<<f.epoch, f.reporter>> : f \in rrs}
  /\ UNCHANGED <<epoch, sent, spt, nf, rrs, rce>>
-----------------------------------------------------------------------------
(* One transcript per hash, and one result per descriptor.  The artifact's *)
(* ordinal, left out here, can tell apart two results on a ticket, but not *)
(* two without one.                                                        *)
NoDuplicates(rs) ==
  \A i, j \in DOMAIN rs : i # j =>
    /\ rs[i].hash # rs[j].hash
    /\ rs[i].ticket = None /\ SameEntry(rs[i], rs[j]) => rs[i].proof # rs[j].proof

Reports == {rs \in UNION {[1..n -> Result] : n \in 0..MaxResults} : NoDuplicates(rs)}

NextFacts ==
  \/ \E v \in Reporters, rs \in Reports : RecordReport(v, rs)
  \/ \E c \in Nodes, h, g \in Hashes, class \in Rechecks : RecordRecheck(c, h, g, class)
  \/ PruneOldEpochs
  \/ RestartFromGenesis

SpecFacts == InitFacts /\ [][NextFacts]_factVars
-----------------------------------------------------------------------------
(* Every secondary index holds exactly the copies of the primary facts,    *)
(* whatever reports and rechecks wrote, whatever epoch ends removed by     *)
(* parsing keys here and decoding records there, and after a restart.  The *)
(* contradiction and assignment rules read the copies only.                *)
FactIndexesExact ==
  /\ tbe = spt
  /\ rrsTT = rrs
  /\ rrsE = {<<f.epoch, f.reporter>> : f \in rrs}

(* A recheck is the word of a third party and stays attached to what it is *)
(* about: the link of a challenged transcript leads to a stored record of  *)
(* a supernode other than its reporter and its target, that record leads   *)
(* back, and its evidence key is still there to refuse a second one.       *)
RecheckWitnessed ==
  /\ \A h \in Stored : spt[h].recheck # None =>
       /\ spt[h].recheck \in Stored
       /\ spt[spt[h].recheck].challenged = h
       /\ spt[spt[h].recheck].reporter \notin {spt[h].reporter, spt[h].target}
       /\ <<spt[h].epoch, spt[h].ticket, spt[spt[h].recheck].reporter>> \in rce
  /\ \A g \in Stored : spt[g].challenged # None =>
       spt[g].challenged \in Stored /\ spt[spt[g].challenged].recheck = g

(* As long as a transcript is stored, its verdict and the recheck it comes *)
(* from are final: no later recheck, of the same or another supernode,     *)
(* overturns a confirmation or the other way round.                        *)
VerdictFinal ==
  [][\A h \in Stored \cap DOMAIN spt' : spt[h].recheck # None =>
       spt'[h].recheck = spt[h].recheck /\ spt'[h].verdict = spt[h].verdict]_factVars

(* Nothing a rule may still look up is lost: a fact inside the longest     *)
(* window of the coming epoch survives every step (keep_last_epoch_entries *)
(* is checked against the windows in Params.Validate).                     *)
WindowsKept ==
  [][LET start == windowStart(epoch', Window)
     IN  /\ \A f \in nf : f.epoch >= start => \E g \in nf' : SameKey(f, g)
         /\ \A f \in rrs : f.epoch >= start => \E g \in rrs' : SameKey(f, g)
         /\ \A h \in Stored : spt[h].epoch >= start => h \in DOMAIN spt']_factVars
=============================================================================
