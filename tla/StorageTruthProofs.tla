------------------------- MODULE StorageTruthProofs -------------------------
(***************************************************************************)
(* Proofs about what x/audit records of storage proofs and what follows    *)
(* from it: StorageFacts and StorageTruth, for every set of nodes, tickets *)
(* and hashes, every order of the accounts and every assignment hash, and  *)
(* for all parameters that Params.Validate lets through.                   *)
(***************************************************************************)
EXTENDS StorageTruth, SumFacts

-----------------------------------------------------------------------------
ResultRec == [epoch : Nat, reporter : Nodes, target : Nodes, ticket : Tickets \cup {None},
              class : Classes, verdict : Verdicts]

TypeFacts ==
  /\ epoch \in Nat
  /\ DOMAIN spt \subseteq Hashes
  /\ \A h \in DOMAIN spt : spt[h] \in Transcript
  /\ rrs \subseteq ResultRec
  /\ \A f \in nf : f.epoch \in Nat

(* A challenged transcript and its recheck name each other and are of one  *)
(* epoch, so that they are pruned together, and with the evidence key.     *)
Paired ==
  /\ \A h \in DOMAIN spt : spt[h].recheck # None =>
       /\ spt[h].recheck \in DOMAIN spt
       /\ spt[spt[h].recheck].challenged = h
       /\ spt[spt[h].recheck].epoch = spt[h].epoch
       /\ spt[spt[h].recheck].reporter \notin {spt[h].reporter, spt[h].target}
       /\ <<spt[h].epoch, spt[h].ticket, spt[spt[h].recheck].reporter>> \in rce
  /\ \A g \in DOMAIN spt : spt[g].challenged # None =>
       /\ spt[g].challenged \in DOMAIN spt
       /\ spt[spt[g].challenged].recheck = g

FactsInv == TypeFacts /\ FactIndexesExact /\ Paired
-----------------------------------------------------------------------------
(* The record of a result that nobody has rechecked.                       *)
Bare(v, w, t, class, bucket) ==
  [epoch |-> epoch, reporter |-> v, target |-> w, ticket |-> t, class |-> class,
   bucket |-> bucket, verdict |-> "none", recheck |-> None, challenged |-> None]

(* What is put into the transcripts of a report: each of them new, and     *)
(* neither a recheck nor rechecked.                                        *)
LEMMA NewTranscripts ==
  ASSUME epoch \in Nat, NEW v \in Nodes, NEW rs \in Reports
  PROVE  /\ DOMAIN TranscriptsOf(v, rs) = {rs[i].hash : i \in DOMAIN rs}
         /\ DOMAIN TranscriptsOf(v, rs) \subseteq Hashes
         /\ \A h \in DOMAIN TranscriptsOf(v, rs) :
              /\ TranscriptsOf(v, rs)[h] \in Transcript
              /\ TranscriptsOf(v, rs)[h].recheck = None
              /\ TranscriptsOf(v, rs)[h].challenged = None
<1>1. PICK n \in 0..MaxResults : rs \in [1..n -> Result]
  BY DEF Reports
<1>2. \A i \in DOMAIN rs : rs[i] \in Result
  BY <1>1
<1>3. DOMAIN TranscriptsOf(v, rs) = {rs[i].hash : i \in DOMAIN rs}
  BY Zenon DEF TranscriptsOf
<1>4. {rs[i].hash : i \in DOMAIN rs} \subseteq Hashes
  BY <1>2 DEF Result
<1>5. ASSUME NEW h \in {rs[i].hash : i \in DOMAIN rs}
      PROVE  /\ TranscriptsOf(v, rs)[h] \in Transcript
             /\ TranscriptsOf(v, rs)[h].recheck = None
             /\ TranscriptsOf(v, rs)[h].challenged = None
  <2> DEFINE r == rs[CHOOSE i \in DOMAIN rs : rs[i].hash = h]
  <2>1. r \in Result
    BY <1>2
  <2>2. /\ r.target \in Nodes /\ r.ticket \in Tickets \cup {None}
        /\ r.proof.class \in Classes /\ r.proof.bucket \in Buckets
    BY <2>1, FactsAssumption DEF Result, Proof
  <2>3. TranscriptsOf(v, rs)[h] = Bare(v, r.target, r.ticket, r.proof.class, r.proof.bucket)
    BY Zenon DEF TranscriptsOf, Bare
  <2> HIDE DEF r
  <2> QED
    BY <2>2, <2>3 DEF Bare, Transcript, Verdicts
<1> QED
  BY Zenon, <1>3, <1>4, <1>5

(* The results that a report adds are of its epoch and its reporter.       *)
LEMMA NewResults ==
  ASSUME epoch \in Nat, NEW v \in Nodes, NEW rs \in Reports
  PROVE  /\ ResultsOf(v, rs) \subseteq ResultRec
         /\ \A f \in ResultsOf(v, rs) : f.epoch = epoch /\ f.reporter = v
<1>1. PICK n \in 0..MaxResults : rs \in [1..n -> Result]
  BY DEF Reports
<1>2. SUFFICES ASSUME NEW f \in ResultsOf(v, rs)
               PROVE  f \in ResultRec /\ f.epoch = epoch /\ f.reporter = v
  BY Zenon
<1>3. PICK i \in DOMAIN rs : f = ReporterResult(v, epoch, rs[i])
  BY Zenon DEF ResultsOf, Latest
<1>4. rs[i] \in Result
  BY <1>1
<1>5. /\ rs[i].target \in Nodes /\ rs[i].ticket \in Tickets \cup {None}
      /\ rs[i].proof.class \in Classes
  BY <1>4, FactsAssumption DEF Result, Proof
<1> QED
  BY <1>3, <1>5 DEF ReporterResult, ResultRec, Verdicts

(* A recheck that is accepted has a hash of its own, and the transcript it *)
(* is about has not been rechecked: the evidence key refuses a repetition. *)
LEMMA FreshRecheck ==
  ASSUME FactsInv, NEW c \in Nodes, NEW h \in Hashes, NEW g \in Hashes, NEW class \in Rechecks,
         RecordRecheck(c, h, g, class)
  PROVE  /\ h \in DOMAIN spt /\ g \notin DOMAIN spt /\ spt[h].recheck = None
         /\ spt[h].challenged = None
         /\ c \notin {spt[h].target, spt[h].reporter}
<1>1. /\ h \in DOMAIN spt /\ spt[h].challenged = None
      /\ c \notin {spt[h].target, spt[h].reporter}
      /\ <<spt[h].epoch, spt[h].ticket, c>> \notin rce
      /\ spt[h].recheck \in {None, g}
      /\ g \in DOMAIN spt => spt[g].challenged = h /\ spt[g].reporter = c
  BY Zenon DEF RecordRecheck, Stored, recheckEligible, Links
<1>2. h # None /\ g # None
  BY FactsAssumption
<1>3. spt[h].recheck # g
  <2> SUFFICES ASSUME spt[h].recheck = g PROVE FALSE
    OBVIOUS
  <2>1. g \in DOMAIN spt /\ <<spt[h].epoch, spt[h].ticket, spt[g].reporter>> \in rce
    BY <1>1, <1>2, Zenon DEF FactsInv, Paired
  <2> QED
    BY <1>1, <2>1, Zenon
<1>4. g \notin DOMAIN spt
  <2> SUFFICES ASSUME g \in DOMAIN spt PROVE FALSE
    OBVIOUS
  <2>1. spt[g].challenged # None
    BY <1>1, <1>2
  <2>2. spt[h].recheck = g
    BY <1>1, <2>1, Zenon DEF FactsInv, Paired
  <2> QED
    BY <1>3, <2>2
<1> QED
  BY Zenon, <1>1, <1>3, <1>4
-----------------------------------------------------------------------------
(* The fields of the record of a recheck.                                  *)
LEMMA RecheckFields ==
  ASSUME NEW c, NEW h, NEW class
  PROVE  LET r == RecheckTranscript(c, h, class)
         IN  r.recheck = None /\ r.challenged = h /\ r.epoch = spt[h].epoch /\ r.reporter = c
BY DEF RecheckTranscript

Rechecked(h, g, class) == [spt[h] EXCEPT !.recheck = g, !.verdict = VerdictOf(class)]
PairsOf(facts) == {<<f.epoch, f.reporter>> : f \in facts}

(* The transcripts after a recheck, entry by entry.                        *)
LEMMA RecheckedTranscripts ==
  ASSUME FactsInv, NEW c \in Nodes, NEW h \in Hashes, NEW g \in Hashes, NEW class \in Rechecks,
         RecordRecheck(c, h, g, class)
  PROVE  /\ h # g
         /\ DOMAIN spt' = DOMAIN spt \cup {g}
         /\ spt'[h] = Rechecked(h, g, class)
         /\ spt'[g] = RecheckTranscript(c, h, class)
         /\ \A k \in DOMAIN spt \ {h} : spt'[k] = spt[k]
<1>1. h \in DOMAIN spt /\ g \notin DOMAIN spt
  BY FreshRecheck
<1>2. spt' = PutTranscripts(spt, LinkedTranscripts(c, h, g, class))
  BY Zenon DEF RecordRecheck
<1>3. LinkedTranscripts(c, h, g, class) =
        [k \in {h, g} |-> IF k = h THEN [spt[h] EXCEPT !.recheck = g, !.verdict = VerdictOf(class)]
                          ELSE RecheckTranscript(c, h, class)]
  BY <1>1, Zenon DEF LinkedTranscripts, Stored
<1> QED
  BY <1>1, <1>2, <1>3 DEF PutTranscripts, Rechecked

(* The transcripts after a report, entry by entry.                         *)
LEMMA ReportedTranscripts ==
  ASSUME FactsInv, NEW v \in Nodes, NEW rs \in Reports, RecordReport(v, rs)
  PROVE  /\ DOMAIN spt' = DOMAIN spt \cup DOMAIN TranscriptsOf(v, rs)
         /\ \A k \in DOMAIN spt : k \notin DOMAIN TranscriptsOf(v, rs) /\ spt'[k] = spt[k]
         /\ \A k \in DOMAIN TranscriptsOf(v, rs) : spt'[k] = TranscriptsOf(v, rs)[k]
<1>1. spt' = PutTranscripts(spt, TranscriptsOf(v, rs))
  BY Zenon DEF RecordReport
<1>2. \A k \in DOMAIN TranscriptsOf(v, rs) : k \notin DOMAIN spt
  <2>1. DOMAIN TranscriptsOf(v, rs) = {rs[i].hash : i \in DOMAIN rs}
    BY NewTranscripts, Zenon DEF FactsInv, TypeFacts
  <2>2. \A i \in DOMAIN rs : rs[i].hash \notin DOMAIN spt
    BY Zenon DEF RecordReport, Stored
  <2> QED
    BY <2>1, <2>2, Zenon
<1> HIDE DEF TranscriptsOf
<1> QED
  BY <1>1, <1>2 DEF PutTranscripts

(* Pruning removes old transcripts and changes none of the others.         *)
LEMMA KeptFunction ==
  ASSUME NEW store
  PROVE  /\ DOMAIN KeptTranscripts(store) = {h \in DOMAIN store : store[h].epoch >= minKeepEpochID}
         /\ \A h \in DOMAIN KeptTranscripts(store) : KeptTranscripts(store)[h] = store[h]
BY DEF KeptTranscripts
-----------------------------------------------------------------------------
(* Every step of the facts keeps the types.                                *)
LEMMA TypesKept ==
  ASSUME FactsInv, [NextFacts]_factVars
  PROVE  TypeFacts'
<1>1. ASSUME NEW v \in Nodes, NEW rs \in Reports, RecordReport(v, rs)
      PROVE  TypeFacts'
  <2>1. epoch' \in Nat
    BY <1>1 DEF RecordReport, FactsInv, TypeFacts
  <2>2. DOMAIN spt' \subseteq Hashes /\ \A h \in DOMAIN spt' : spt'[h] \in Transcript
    <3>1. /\ DOMAIN TranscriptsOf(v, rs) \subseteq Hashes
          /\ \A h \in DOMAIN TranscriptsOf(v, rs) : TranscriptsOf(v, rs)[h] \in Transcript
      BY NewTranscripts, Zenon DEF FactsInv, TypeFacts
    <3>2. /\ DOMAIN spt' = DOMAIN spt \cup DOMAIN TranscriptsOf(v, rs)
          /\ \A k \in DOMAIN spt : spt'[k] = spt[k]
          /\ \A k \in DOMAIN TranscriptsOf(v, rs) : spt'[k] = TranscriptsOf(v, rs)[k]
      BY <1>1, ReportedTranscripts, Zenon
    <3>3. DOMAIN spt \subseteq Hashes /\ \A h \in DOMAIN spt : spt[h] \in Transcript
      BY Zenon DEF FactsInv, TypeFacts
    <3> HIDE DEF TranscriptsOf, Transcript
    <3> QED
      BY Zenon, <3>1, <3>2, <3>3
  <2>3. rrs' \subseteq ResultRec
    BY <1>1, NewResults, Zenon DEF RecordReport, Put, FactsInv, TypeFacts
  <2>4. \A f \in nf' : f.epoch \in Nat
    <3>1. \A f \in FailuresOf(v, rs) : f.epoch = epoch
      <4> TAKE f \in FailuresOf(v, rs)
      <4>1. PICK i : f = NodeFailure(v, epoch, rs[i].target, rs[i].ticket, rs[i].proof)
        BY Zenon DEF FailuresOf
      <4> QED
        BY <4>1 DEF NodeFailure
    <3>2. \A f \in nf' : f \in nf \/ f \in FailuresOf(v, rs)
      BY <1>1, Zenon DEF RecordReport, Put
    <3> QED
      BY <3>1, <3>2 DEF FactsInv, TypeFacts
  <2> QED
    BY <2>1, <2>2, <2>3, <2>4 DEF TypeFacts
<1>2. ASSUME NEW c \in Nodes, NEW h \in Hashes, NEW g \in Hashes, NEW class \in Rechecks,
             RecordRecheck(c, h, g, class)
      PROVE  TypeFacts'
  <2>1. epoch' \in Nat
    BY Zenon, <1>2 DEF RecordRecheck, FactsInv, TypeFacts
  <2>2. spt[h] \in Transcript /\ class \in Classes /\ VerdictOf(class) \in Verdicts
    BY <1>2, FreshRecheck, FactsAssumption DEF FactsInv, TypeFacts, RecheckClasses, Classes, VerdictOf, Verdicts
  <2>3. /\ DOMAIN spt' = DOMAIN spt \cup {g}
        /\ spt'[h] = Rechecked(h, g, class)
        /\ spt'[g] = RecheckTranscript(c, h, class)
        /\ \A k \in DOMAIN spt \ {h} : spt'[k] = spt[k]
    BY <1>2, RecheckedTranscripts, Zenon
  <2>4. Rechecked(h, g, class) \in Transcript
    BY Zenon, <2>2 DEF Transcript, Rechecked
  <2>5. RecheckTranscript(c, h, class) \in Transcript
    BY Zenon, <2>2 DEF Transcript, RecheckTranscript, Buckets, Verdicts
  <2>8. \A f \in nf' : f.epoch \in Nat
    <3> DEFINE new == NodeFailure(c, epoch, spt[h].target, spt[h].ticket, RecheckProof(class))
    <3>1. nf' = nf \/ nf' = Put(nf, {new})
      BY Zenon, <1>2 DEF RecordRecheck
    <3>2. \A f \in nf' : f \in nf \/ f = new
      BY Zenon, <3>1 DEF Put
    <3>3. new.epoch = epoch
      BY DEF NodeFailure
    <3> QED BY Zenon, <3>2, <3>3 DEF FactsInv, TypeFacts
  <2>7. DOMAIN spt' \subseteq Hashes /\ \A k \in DOMAIN spt' : spt'[k] \in Transcript
    <3>1. DOMAIN spt \subseteq Hashes /\ \A k \in DOMAIN spt : spt[k] \in Transcript
      BY Zenon DEF FactsInv, TypeFacts
    <3>2. spt'[h] \in Transcript /\ spt'[g] \in Transcript
      BY <2>3, <2>4, <2>5, Zenon
    <3> QED
      BY <2>3, <3>1, <3>2, Zenon
  <2>6. rrs' \subseteq ResultRec
    BY <1>2, <2>2 DEF RecordRecheck, Marked, ResultRec, FactsInv, TypeFacts
  <2> QED
    BY <2>1, <2>6, <2>7, <2>8 DEF TypeFacts
<1>3. CASE PruneOldEpochs
  <2>1. epoch' \in Nat /\ rrs' \subseteq ResultRec /\ \A f \in nf' : f.epoch \in Nat
    BY <1>3 DEF PruneOldEpochs, KeptFacts, FactsInv, TypeFacts
  <2>2. DOMAIN spt' \subseteq Hashes /\ \A h \in DOMAIN spt' : spt'[h] \in Transcript
    BY <1>3, KeptFunction, Zenon DEF PruneOldEpochs, FactsInv, TypeFacts
  <2> QED
    BY <2>1, <2>2 DEF TypeFacts
<1>4. CASE RestartFromGenesis
  BY <1>4 DEF RestartFromGenesis, FactsInv, TypeFacts
<1>5. CASE UNCHANGED factVars
  BY <1>5 DEF factVars, FactsInv, TypeFacts
<1> QED
  BY <1>1, <1>2, <1>3, <1>4, <1>5, FactsAssumption, Zenon DEF NextFacts

(* The <<epoch, reporter>> pairs of the results, whatever is replaced.     *)
LEMMA PairsOfPut ==
  ASSUME NEW R, NEW N
  PROVE  PairsOf(Put(R, N)) = PairsOf(R) \cup PairsOf(N)
<1>1. ASSUME NEW f \in R
      PROVE  \E k \in Put(R, N) : k.epoch = f.epoch /\ k.reporter = f.reporter
  <2>1. CASE \E n \in N : SameKey(f, n)
    BY <2>1, Zenon DEF Put, SameKey
  <2>2. CASE ~\E n \in N : SameKey(f, n)
    BY <2>2, Zenon DEF Put
  <2> QED
    BY <2>1, <2>2
<1>2. \A f \in Put(R, N) : f \in R \/ f \in N
  BY DEF Put
<1>3. N \subseteq Put(R, N)
  BY DEF Put
<1> HIDE DEF Put
<1> QED
  BY <1>1, <1>2, <1>3 DEF PairsOf

(* The verdict of a recheck changes no <<epoch, reporter>> pair.           *)
LEMMA PairsOfMarked ==
  ASSUME NEW R \in SUBSET ResultRec, NEW t, NEW verdict
  PROVE  PairsOf(Marked(R, t, verdict)) =
           PairsOf(R)
<1> DEFINE M(f) == IF SameKey(f, t) THEN [f EXCEPT !.verdict = verdict] ELSE f
<1>1. \A f \in R : M(f).epoch = f.epoch /\ M(f).reporter = f.reporter
  BY DEF ResultRec
<1>2. Marked(R, t, verdict) = R \/ Marked(R, t, verdict) = {M(f) : f \in R}
  BY Zenon DEF Marked
<1> HIDE DEF M
<1> QED
  BY <1>1, <1>2 DEF PairsOf

(* Every step writes the copies along with the facts.                      *)
LEMMA IndexesKept ==
  ASSUME FactsInv, [NextFacts]_factVars
  PROVE  FactIndexesExact'
<1>1. ASSUME NEW v \in Nodes, NEW rs \in Reports, RecordReport(v, rs)
      PROVE  FactIndexesExact'
  <2>1. tbe' = spt' /\ rrsTT' = rrs'
    BY <1>1, Zenon DEF RecordReport, FactsInv, FactIndexesExact
  <2>2. rrsE' = PairsOf(rrs')
    <3>1. \A f \in ResultsOf(v, rs) : f.epoch = epoch /\ f.reporter = v
      BY NewResults, Zenon DEF FactsInv, TypeFacts
    <3>2. PairsOf(Put(rrs, ResultsOf(v, rs))) = PairsOf(rrs) \cup PairsOf(ResultsOf(v, rs))
      BY PairsOfPut, Zenon
    <3> HIDE DEF ResultsOf
    <3>3. PairsOf(ResultsOf(v, rs)) = IF ResultsOf(v, rs) = {} THEN {} ELSE {<<epoch, v>>}
      BY <3>1 DEF PairsOf
    <3> QED
      BY <1>1, <3>2, <3>3, Zenon DEF RecordReport, FactsInv, FactIndexesExact, PairsOf
  <2> QED
    BY <2>1, <2>2 DEF FactIndexesExact, PairsOf
<1>2. ASSUME NEW c \in Nodes, NEW h \in Hashes, NEW g \in Hashes, NEW class \in Rechecks,
             RecordRecheck(c, h, g, class)
      PROVE  FactIndexesExact'
  <2>1. tbe' = spt' /\ rrsTT' = rrs'
    BY <1>2, Zenon DEF RecordRecheck, FactsInv, FactIndexesExact
  <2>2. rrsE' = PairsOf(rrs')
    <3>1. PairsOf(Marked(rrs, spt[h], VerdictOf(class))) =
            PairsOf(rrs)
      BY PairsOfMarked, Zenon DEF FactsInv, TypeFacts
    <3> QED
      BY <1>2, <3>1, Zenon DEF RecordRecheck, FactsInv, FactIndexesExact, PairsOf
  <2> QED
    BY <2>1, <2>2 DEF FactIndexesExact, PairsOf
<1>3. CASE PruneOldEpochs
  <2>1. tbe' = spt' /\ rrsTT' = rrs'
    BY <1>3, Zenon DEF PruneOldEpochs, FactsInv, FactIndexesExact
  <2>2. rrsE' = PairsOf(rrs')
    <3>1. rrsE' = KeptPairs(rrsE) /\ rrs' = KeptFacts(rrs)
      BY <1>3, Zenon DEF PruneOldEpochs
    <3>2. rrsE = PairsOf(rrs)
      BY DEF FactsInv, FactIndexesExact, PairsOf
    <3> QED
      BY <3>1, <3>2 DEF KeptPairs, KeptFacts, PairsOf
  <2> QED
    BY <2>1, <2>2 DEF FactIndexesExact, PairsOf
<1>4. CASE RestartFromGenesis
  BY <1>4, Zenon DEF RestartFromGenesis, FactIndexesExact
<1>5. CASE UNCHANGED factVars
  BY <1>5, Zenon DEF factVars, FactsInv, FactIndexesExact
<1> QED
  BY <1>1, <1>2, <1>3, <1>4, <1>5, FactsAssumption, Zenon DEF NextFacts
-----------------------------------------------------------------------------
(* One entry of Paired, so that a step can be checked hash by hash.        *)
LinkHolds(s, r, h) ==
  s[h].recheck # None =>
    /\ s[h].recheck \in DOMAIN s
    /\ s[s[h].recheck].challenged = h
    /\ s[s[h].recheck].epoch = s[h].epoch
    /\ s[s[h].recheck].reporter \notin {s[h].reporter, s[h].target}
    /\ <<s[h].epoch, s[h].ticket, s[s[h].recheck].reporter>> \in r

BackHolds(s, g) ==
  s[g].challenged # None =>
    s[g].challenged \in DOMAIN s /\ s[s[g].challenged].recheck = g

(* Paired says the same of every transcript by itself.                     *)
LEMMA PairedByEntry ==
  /\ Paired <=> /\ \A h \in DOMAIN spt : LinkHolds(spt, rce, h)
                /\ \A g \in DOMAIN spt : BackHolds(spt, g)
  /\ Paired' <=> /\ \A h \in DOMAIN spt' : LinkHolds(spt', rce', h)
                 /\ \A g \in DOMAIN spt' : BackHolds(spt', g)
BY Zenon DEF Paired, LinkHolds, BackHolds

(* A report adds transcripts that are neither linked nor link to one.      *)
LEMMA ReportKeepsPairs ==
  ASSUME FactsInv, NEW v \in Nodes, NEW rs \in Reports, RecordReport(v, rs)
  PROVE  Paired'
<1>1. /\ DOMAIN spt' = DOMAIN spt \cup DOMAIN TranscriptsOf(v, rs)
      /\ \A k \in DOMAIN spt : spt'[k] = spt[k]
      /\ \A k \in DOMAIN TranscriptsOf(v, rs) : spt'[k] = TranscriptsOf(v, rs)[k]
  BY ReportedTranscripts, Zenon
<1>2. \A k \in DOMAIN TranscriptsOf(v, rs) : /\ TranscriptsOf(v, rs)[k].recheck = None
                                             /\ TranscriptsOf(v, rs)[k].challenged = None
  BY NewTranscripts, Zenon DEF FactsInv, TypeFacts
<1>3. rce' = rce
  BY DEF RecordReport
<1>4. \A k \in DOMAIN spt : LinkHolds(spt, rce, k) /\ BackHolds(spt, k)
  BY PairedByEntry, Zenon DEF FactsInv
<1>5. ASSUME NEW k \in DOMAIN spt'
      PROVE  LinkHolds(spt', rce', k) /\ BackHolds(spt', k)
  <2>1. CASE k \in DOMAIN spt
    <3>1. spt'[k] = spt[k] /\ LinkHolds(spt, rce, k) /\ BackHolds(spt, k)
      BY <1>1, <1>4, <2>1, Zenon
    <3>2. \A j \in DOMAIN spt : j \in DOMAIN spt' /\ spt'[j] = spt[j]
      BY <1>1, Zenon
    <3>3. LinkHolds(spt', rce', k)
      BY Zenon, <1>3, <3>1, <3>2 DEF LinkHolds
    <3>4. BackHolds(spt', k)
      BY Zenon, <3>1, <3>2 DEF BackHolds
    <3> QED
      BY <3>3, <3>4
  <2>2. CASE k \in DOMAIN TranscriptsOf(v, rs)
    BY <1>1, <1>2, <2>2, Zenon DEF LinkHolds, BackHolds
  <2> QED
    BY <1>1, <2>1, <2>2, Zenon
<1> QED
  BY <1>5, PairedByEntry, Zenon

(* A recheck joins two transcripts that had no link before.                *)
LEMMA RecheckKeepsPairs ==
  ASSUME FactsInv, NEW c \in Nodes, NEW h \in Hashes, NEW g \in Hashes, NEW class \in Rechecks,
         RecordRecheck(c, h, g, class)
  PROVE  Paired'
<1>1. /\ h # g
      /\ DOMAIN spt' = DOMAIN spt \cup {g}
      /\ spt'[h] = Rechecked(h, g, class)
      /\ spt'[g] = RecheckTranscript(c, h, class)
      /\ \A k \in DOMAIN spt \ {h} : spt'[k] = spt[k]
  BY RecheckedTranscripts, Zenon
<1>2. /\ h \in DOMAIN spt /\ g \notin DOMAIN spt /\ spt[h].recheck = None
      /\ spt[h].challenged = None
      /\ c \notin {spt[h].target, spt[h].reporter}
  BY FreshRecheck, Zenon
<1>3. rce' = rce \cup {<<spt[h].epoch, spt[h].ticket, c>>}
  BY Zenon DEF RecordRecheck
<1>4. \A k \in DOMAIN spt : LinkHolds(spt, rce, k) /\ BackHolds(spt, k)
  BY PairedByEntry, Zenon DEF FactsInv
<1>5. h # None /\ g # None
  BY FactsAssumption
<1>6. /\ spt'[h].recheck = g /\ spt'[h].challenged = None
      /\ spt'[h].epoch = spt[h].epoch /\ spt'[h].ticket = spt[h].ticket
      /\ spt'[h].reporter = spt[h].reporter /\ spt'[h].target = spt[h].target
  <2>1. spt[h] \in Transcript
    BY <1>2 DEF FactsInv, TypeFacts
  <2> QED
    BY <1>1, <1>2, <2>1 DEF Rechecked, Transcript
<1>7. /\ spt'[g].recheck = None /\ spt'[g].challenged = h
      /\ spt'[g].epoch = spt[h].epoch /\ spt'[g].reporter = c
  <2> DEFINE r == RecheckTranscript(c, h, class)
  <2>1. r.recheck = None /\ r.challenged = h /\ r.epoch = spt[h].epoch /\ r.reporter = c
    BY RecheckFields
  <2>2. spt'[g] = r
    BY Zenon, <1>1
  <2> HIDE DEF r
  <2> QED BY Zenon, <2>1, <2>2
<1>8. LinkHolds(spt', rce', h) /\ BackHolds(spt', h)
  BY Zenon, <1>1, <1>2, <1>3, <1>6, <1>7 DEF LinkHolds, BackHolds
<1>9. LinkHolds(spt', rce', g) /\ BackHolds(spt', g)
  BY Zenon, <1>1, <1>2, <1>6, <1>7 DEF LinkHolds, BackHolds
<1>10. ASSUME NEW k \in DOMAIN spt, k # h
       PROVE  LinkHolds(spt', rce', k) /\ BackHolds(spt', k)
  <2>1. spt'[k] = spt[k] /\ LinkHolds(spt, rce, k) /\ BackHolds(spt, k)
    BY Zenon, <1>1, <1>4, <1>10
  <2>6. k # None
    BY <1>10, FactsAssumption DEF FactsInv, TypeFacts
  <2>2. spt[k].recheck # None => spt[k].recheck # h
    BY <1>2, <2>1, <2>6, Zenon DEF LinkHolds
  <2>3. spt[k].challenged # None => spt[k].challenged # h
    BY Zenon, <1>2, <2>1, <2>6 DEF BackHolds
  <2>4. LinkHolds(spt', rce', k)
    BY Zenon, <1>1, <1>3, <2>1, <2>2 DEF LinkHolds
  <2>5. BackHolds(spt', k)
    BY Zenon, <1>1, <2>1, <2>3 DEF BackHolds
  <2> QED
    BY <2>4, <2>5
<1> QED
  BY <1>1, <1>8, <1>9, <1>10, PairedByEntry, Zenon

(* Linked transcripts and their evidence key are of one epoch.             *)
LEMMA PruningKeepsPairs ==
  ASSUME FactsInv, PruneOldEpochs
  PROVE  Paired'
<1>1. /\ DOMAIN spt' = {k \in DOMAIN spt : spt[k].epoch >= minKeepEpochID}
      /\ \A k \in DOMAIN spt' : spt'[k] = spt[k]
  BY KeptFunction, Zenon DEF PruneOldEpochs
<1>2. rce' = {e \in rce : e[1] >= minKeepEpochID}
  BY DEF PruneOldEpochs
<1>3. \A k \in DOMAIN spt : LinkHolds(spt, rce, k) /\ BackHolds(spt, k)
  BY PairedByEntry, Zenon DEF FactsInv
<1>4. ASSUME NEW k \in DOMAIN spt'
      PROVE  LinkHolds(spt', rce', k) /\ BackHolds(spt', k)
  <2> HIDE DEF minKeepEpochID
  <2>1. /\ k \in DOMAIN spt /\ spt[k].epoch >= minKeepEpochID /\ spt'[k] = spt[k]
        /\ LinkHolds(spt, rce, k) /\ BackHolds(spt, k)
    BY <1>1, <1>3, <1>4
  <2>2. LinkHolds(spt', rce', k)
    BY Zenon, <1>1, <1>2, <2>1 DEF LinkHolds
  <2>3. spt[k].challenged # None => spt[spt[k].challenged].epoch = spt[k].epoch
    <3> HAVE spt[k].challenged # None
    <3>1. /\ spt[k].challenged \in DOMAIN spt /\ spt[spt[k].challenged].recheck = k
          /\ LinkHolds(spt, rce, spt[k].challenged)
      BY <1>3, <2>1 DEF BackHolds
    <3>2. k # None
      BY <2>1, FactsAssumption DEF FactsInv, TypeFacts
    <3> QED
      BY <3>1, <3>2, Zenon DEF LinkHolds
  <2>4. BackHolds(spt', k)
    BY <1>1, <2>1, <2>3 DEF BackHolds
  <2> QED
    BY <2>2, <2>4
<1> QED
  BY <1>4, PairedByEntry, Zenon

(* Types, exact copies and recheck pairs are kept together.                *)
LEMMA FactsInductive ==
  FactsInv /\ [NextFacts]_factVars => FactsInv'
<1> SUFFICES ASSUME FactsInv, [NextFacts]_factVars PROVE Paired'
  BY TypesKept, IndexesKept, Zenon DEF FactsInv
<1>1. ASSUME NEW v \in Reporters, NEW rs \in Reports, RecordReport(v, rs)
      PROVE  Paired'
  BY <1>1, ReportKeepsPairs, FactsAssumption
<1>2. ASSUME NEW c \in Nodes, NEW h \in Hashes, NEW g \in Hashes, NEW class \in Rechecks,
             RecordRecheck(c, h, g, class)
      PROVE  Paired'
  BY <1>2, RecheckKeepsPairs
<1>3. CASE PruneOldEpochs
  BY <1>3, PruningKeepsPairs
<1>4. CASE RestartFromGenesis
  BY <1>4, Zenon DEF RestartFromGenesis, FactsInv, Paired
<1>5. CASE UNCHANGED factVars
  BY <1>5, Zenon DEF factVars, FactsInv, Paired
<1> QED
  BY <1>1, <1>2, <1>3, <1>4, <1>5, Zenon DEF NextFacts
-----------------------------------------------------------------------------
(* The strengthening of the properties below that every step of the facts  *)
(* keeps: types, exact copies, and recheck pairs of one epoch.             *)
THEOREM FactsInvariance == SpecFacts => []FactsInv
<1>1. InitFacts => FactsInv
  BY FactsAssumption DEF InitFacts, FactsInv, TypeFacts, FactIndexesExact, Paired
<1> QED
  BY <1>1, FactsInductive, PTL DEF SpecFacts

(* The secondary indexes of the storage-truth facts, which the rules read, *)
(* are the exact copies of the primary facts in every reachable state.     *)
THEOREM FactIndexesCorrect == SpecFacts => []FactIndexesExact
<1>1. FactsInv => FactIndexesExact
  BY Zenon DEF FactsInv
<1> QED
  BY <1>1, FactsInvariance, PTL

(* A recheck stays linked to the transcript it is about, from both sides,  *)
(* is of a third party, and keeps its evidence key, across pruning.        *)
THEOREM RechecksCorrect == SpecFacts => []RecheckWitnessed
<1>1. FactsInv => RecheckWitnessed
  BY Zenon DEF FactsInv, Paired, RecheckWitnessed, Stored
<1> QED
  BY <1>1, FactsInvariance, PTL

(* The verdict of a recheck is never replaced while the transcript it is   *)
(* about is stored: SubmitStorageRecheckEvidence refuses the second one.   *)
THEOREM VerdictsCorrect == SpecFacts => VerdictFinal
<1> DEFINE A == \A h \in Stored \cap DOMAIN spt' : spt[h].recheck # None =>
                  spt'[h].recheck = spt[h].recheck /\ spt'[h].verdict = spt[h].verdict
<1>1. FactsInv /\ [NextFacts]_factVars => [A]_factVars
  <2> SUFFICES ASSUME FactsInv, NextFacts,
                      NEW k \in DOMAIN spt, k \in DOMAIN spt', spt[k].recheck # None
               PROVE  spt'[k].recheck = spt[k].recheck /\ spt'[k].verdict = spt[k].verdict
    BY Zenon DEF Stored
  <2>1. ASSUME NEW v \in Reporters, NEW rs \in Reports, RecordReport(v, rs)
        PROVE  spt'[k] = spt[k]
    <3>1. v \in Nodes
      BY FactsAssumption
    <3> QED
      BY <2>1, <3>1, ReportedTranscripts, Zenon
  <2>2. ASSUME NEW c \in Nodes, NEW h \in Hashes, NEW g \in Hashes, NEW class \in Rechecks,
               RecordRecheck(c, h, g, class)
        PROVE  spt'[k] = spt[k]
    <3>1. k # h
      BY <2>2, FreshRecheck, Zenon
    <3>2. \A j \in DOMAIN spt \ {h} : spt'[j] = spt[j]
      BY <2>2, RecheckedTranscripts, Zenon
    <3> QED
      BY <3>1, <3>2
  <2>3. ASSUME PruneOldEpochs PROVE spt'[k] = spt[k]
    BY <2>3, KeptFunction, Zenon DEF PruneOldEpochs
  <2>4. ASSUME RestartFromGenesis PROVE spt'[k] = spt[k]
    BY <2>4 DEF RestartFromGenesis
  <2> QED
    BY <2>1, <2>2, <2>3, <2>4, Zenon DEF NextFacts
<1> QED
  BY <1>1, FactsInvariance, PTL DEF SpecFacts, VerdictFinal

(* No step removes a fact that a window of the coming epoch still covers,  *)
(* for every KeepEpochs and Window that Params.Validate lets through.      *)
THEOREM WindowsCorrect == SpecFacts => WindowsKept
<1> DEFINE start == windowStart(epoch', Window)
           A == /\ \A f \in nf : f.epoch >= start => \E g \in nf' : SameKey(f, g)
                /\ \A f \in rrs : f.epoch >= start => \E g \in rrs' : SameKey(f, g)
                /\ \A h \in Stored : spt[h].epoch >= start => h \in DOMAIN spt'
<1>1. ASSUME NEW F, NEW N, NEW f \in F
      PROVE  \E g \in Put(F, N) : SameKey(f, g)
  <2>1. CASE \E n \in N : SameKey(f, n)
    BY <2>1, Zenon DEF Put
  <2>2. CASE ~\E n \in N : SameKey(f, n)
    BY <2>2, Zenon DEF Put, SameKey
  <2> QED
    BY <2>1, <2>2
<1>2. FactsInv /\ [NextFacts]_factVars => [A]_factVars
  <2> SUFFICES ASSUME FactsInv, NextFacts PROVE A
    BY Zenon
  <2>1. ASSUME NEW v \in Reporters, NEW rs \in Reports, RecordReport(v, rs)
        PROVE  A
    <3>1. DOMAIN spt \subseteq DOMAIN spt'
      BY Zenon, <2>1, ReportedTranscripts, FactsAssumption
    <3>2. nf' = Put(nf, FailuresOf(v, rs)) /\ rrs' = Put(rrs, ResultsOf(v, rs))
      BY <2>1, Zenon DEF RecordReport
    <3> QED
      BY <1>1, <3>1, <3>2, Zenon DEF Stored
  <2>2. ASSUME NEW c \in Nodes, NEW h \in Hashes, NEW g \in Hashes, NEW class \in Rechecks,
               RecordRecheck(c, h, g, class)
        PROVE  A
    <3>1. DOMAIN spt \subseteq DOMAIN spt'
      BY Zenon, <2>2, RecheckedTranscripts
    <3>2. \A f \in nf : \E k \in nf' : SameKey(f, k)
      <4> DEFINE n == NodeFailure(c, epoch, spt[h].target, spt[h].ticket, RecheckProof(class))
      <4>1. nf' = nf \/ nf' = Put(nf, {n})
        BY <2>2, Zenon DEF RecordRecheck
      <4> HIDE DEF n
      <4> QED
        BY <1>1, <4>1 DEF SameKey
    <3>3. \A f \in rrs : \E k \in rrs' : SameKey(f, k)
      <4>1. rrs' = Marked(rrs, spt[h], VerdictOf(class))
        BY <2>2, Zenon DEF RecordRecheck
      <4>2. rrs \subseteq ResultRec
        BY DEF FactsInv, TypeFacts
      <4> DEFINE M(f) == IF SameKey(f, spt[h]) THEN [f EXCEPT !.verdict = VerdictOf(class)] ELSE f
      <4>3. \A f \in rrs : SameKey(f, M(f))
        BY <4>2 DEF SameKey, ResultRec
      <4>4. rrs' = rrs \/ rrs' = {M(f) : f \in rrs}
        BY <4>1, Zenon DEF Marked
      <4> HIDE DEF M
      <4>5. \A f : SameKey(f, f)
        BY Zenon DEF SameKey
      <4> QED
        BY <4>3, <4>4, <4>5, Zenon
    <3> QED
      BY <3>1, <3>2, <3>3, Zenon DEF Stored
  <2>3. ASSUME PruneOldEpochs PROVE A
    <3>1. start >= minKeepEpochID /\ start \in Nat /\ minKeepEpochID \in Nat
      BY <2>3, FactsAssumption DEF PruneOldEpochs, windowStart, minKeepEpochID, FactsInv, TypeFacts
    <3> HIDE DEF start
    <3>2. \A f \in nf \cup rrs : f.epoch \in Nat
      BY DEF FactsInv, TypeFacts, ResultRec
    <3>3. \A h \in DOMAIN spt : spt[h].epoch \in Nat
      BY DEF FactsInv, TypeFacts, Transcript
    <3>4. \A f \in nf : f.epoch >= start => f \in nf'
      BY <2>3, <3>1, <3>2 DEF PruneOldEpochs, KeptFacts
    <3>5. \A f \in rrs : f.epoch >= start => f \in rrs'
      BY <2>3, <3>1, <3>2 DEF PruneOldEpochs, KeptFacts
    <3>6. \A h \in DOMAIN spt : spt[h].epoch >= start => h \in DOMAIN spt'
      <4>1. DOMAIN spt' = {h \in DOMAIN spt : spt[h].epoch >= minKeepEpochID}
        BY <2>3, KeptFunction, Zenon DEF PruneOldEpochs
      <4> QED
        BY <3>1, <3>3, <4>1
    <3> QED
      BY <3>4, <3>5, <3>6, Zenon DEF SameKey, Stored
  <2>4. ASSUME RestartFromGenesis PROVE A
    BY <2>4, Zenon DEF RestartFromGenesis, SameKey, Stored
  <2> QED
    BY <2>1, <2>2, <2>3, <2>4, Zenon DEF NextFacts
<1> QED
  BY <1>2, FactsInvariance, PTL DEF SpecFacts, WindowsKept
-----------------------------------------------------------------------------
(* The lower of two numbers.                                               *)
LEMMA MinOfTwo ==
  ASSUME NEW a \in Int, NEW b \in Int
  PROVE  /\ Min({a, b}) \in {a, b} /\ Min({a, b}) <= a /\ Min({a, b}) <= b
<1>1. \E m \in {a, b} : \A x \in {a, b} : m <= x
  OBVIOUS
<1>2. /\ Min({a, b}) \in {a, b}
      /\ \A x \in {a, b} : Min({a, b}) <= x
  BY <1>1, Zenon DEF Min
<1> QED BY <1>2

-----------------------------------------------------------------------------
(* A score of zero stays zero, however many epochs pass.                   *)
Decays(f, n, score, factor) ==
  f = [i \in 0..n |-> IF i = 0 THEN score ELSE (f[i - 1] * factor) \div 1000]

(* Every epoch's turn of the loop keeps it zero.                           *)
LEMMA ZeroDecays ==
  ASSUME NEW factor \in Nat, NEW n \in 0..50
  PROVE  Decayed(0, factor)[n] = 0
<1>1. Decays([i \in 0..50 |-> 0], 50, 0, factor)
  <2>1. (0 * factor) \div 1000 = 0
    OBVIOUS
  <2>2. \A i \in 0..50 : i # 0 => i - 1 \in 0..50
    OBVIOUS
  <2> QED BY <2>1, <2>2 DEF Decays
<1> DEFINE f == Decayed(0, factor)
<1>2. Decays(f, 50, 0, factor)
  BY <1>1, Zenon DEF Decayed, Decays
<1> DEFINE G == {i \in Nat : i \in 0..50 => f[i] = 0}
<1> HIDE DEF f
<1>3. 0 \in G
  BY <1>2 DEF Decays
<1>4. ASSUME NEW i \in Nat, i \in G PROVE i + 1 \in G
  <2>1. CASE i + 1 \in 0..50
    <3>1. f[i + 1] = (f[(i + 1) - 1] * factor) \div 1000
      BY <1>2, <2>1 DEF Decays
    <3>2. (i + 1) - 1 = i /\ f[i] = 0
      BY <1>4, <2>1
    <3> QED BY <3>1, <3>2
  <2> QED BY <2>1
<1>5. \A i \in Nat : i \in G
  <2> HIDE DEF G
  <2> QED BY <1>3, <1>4, NatSetInduction
<1> QED BY <1>5 DEF f
-----------------------------------------------------------------------------
(* The rows that recovery reads: the counters of a supernode, and the      *)
(* history of its postponement.                                            *)
Bands    == {"no", "normal", "strong"}
CleanRow == [band : Bands, passes : Nat]

RowFields == {"found", "score", "updated", "passes", "atPostpone"}

RowOK(row) ==
  /\ RowFields \subseteq DOMAIN row
  /\ row.passes \in Nat /\ row.atPostpone \in Nat
  /\ row.found \/ (row.score = 0 /\ row.updated = 0)

(* The passes that the code counts since the postponement are clean ones,  *)
(* up to the number that even the strong band asks for.                    *)
Backed(row, c) ==
  c.band # "no" =>
    /\ row.found
    /\ c.passes >= Params.strongPasses \/ row.passes - row.atPostpone <= c.passes

(* One result keeps its target's counters and its history together.        *)
LEMMA RowsAfter ==
  ASSUME NEW row, NEW c \in CleanRow, RowOK(row), Backed(row, c), NEW p, NEW delta
  PROVE  LET row1 == NodeAfter(row, p, delta)
             c1   == CleanAfter(c, p.class)
         IN  /\ c1 \in CleanRow /\ c1.band = c.band
             /\ RowOK(row1) /\ Backed(row1, c1)
<1> DEFINE row1 == NodeAfter(row, p, delta)
           c1   == CleanAfter(c, p.class)
<1>1. /\ Params.strongPasses \in Nat
      /\ c.band \in Bands /\ c.passes \in Nat
  BY BandsAssumption DEF CleanRow
<1>2. Min({c.passes + 1, Params.strongPasses}) \in {c.passes + 1, Params.strongPasses}
  <2>1. c.passes + 1 \in Int /\ Params.strongPasses \in Int
    BY <1>1
  <2> QED BY Zenon, <2>1, MinOfTwo
<1>3. /\ c1 \in CleanRow /\ c1.band = c.band
      /\ c.band = "no" => c1 = c
      /\ c.band # "no" => c1.passes = IF p.class = "PASS" THEN Min({c.passes + 1, Params.strongPasses})
                                      ELSE IF isClassA(p.class) THEN 0 ELSE c.passes
  BY <1>1, <1>2 DEF CleanAfter, CleanRow
<1>4. \/ row1 = row /\ ~row.found
      \/ /\ row1.found = TRUE /\ row1.atPostpone = row.atPostpone
         /\ row1.passes = IF p.class = "PASS" THEN row.passes + 1
                          ELSE IF isClassA(p.class) THEN 0 ELSE row.passes
  BY DEF NodeAfter
<1>5. row1 = row \/ RowFields \subseteq DOMAIN row1
  BY DEF NodeAfter, RowFields
<1> HIDE DEF row1, c1
<1>6. RowOK(row1)
  <2>1. 0 \in Nat /\ row.passes + 1 \in Nat
    BY DEF RowOK
  <2>2. CASE row1 = row
    BY Zenon, <2>2
  <2>3. CASE row1 # row
    <3>1. /\ RowFields \subseteq DOMAIN row1
          /\ row1.found = TRUE /\ row1.atPostpone = row.atPostpone
          /\ row1.passes = IF p.class = "PASS" THEN row.passes + 1
                           ELSE IF isClassA(p.class) THEN 0 ELSE row.passes
      BY Zenon, <1>4, <1>5, <2>3
    <3>2. row1.passes \in {row.passes + 1, 0, row.passes}
      BY Zenon, <3>1
    <3>3. row.passes \in Nat /\ row.atPostpone \in Nat
      BY Zenon DEF RowOK
    <3>4. row1.passes \in Nat /\ row1.atPostpone \in Nat
      BY <2>1, <3>1, <3>2, <3>3
    <3>5. row1.found
      BY <3>1
    <3> QED BY Zenon, <3>1, <3>4, <3>5 DEF RowOK
  <2> QED BY Zenon, <2>2, <2>3
<1>7. Backed(row1, c1)
  <2> SUFFICES ASSUME c1.band # "no" 
               PROVE  /\ row1.found
                      /\ c1.passes >= Params.strongPasses \/ row1.passes - row1.atPostpone <= c1.passes
    BY Zenon DEF Backed
  <2>1. /\ row.found
        /\ c.passes >= Params.strongPasses \/ row.passes - row.atPostpone <= c.passes
    BY Zenon, <1>3 DEF Backed
  <2>2. row1.found
    BY Zenon, <1>4, <2>1
  <2>3. p.class = "PASS" => ~isClassA(p.class)
    BY DEF isClassA
  <2>4. row.passes \in Nat /\ row.atPostpone \in Nat
    BY Zenon DEF RowOK
  <2>5. CASE p.class = "PASS"
    <3>1. row1.passes = row.passes + 1 /\ row1.atPostpone = row.atPostpone
          /\ c1.passes = Min({c.passes + 1, Params.strongPasses})
      BY Zenon, <1>3, <1>4, <2>1, <2>5
    <3> QED BY <1>1, <1>2, <2>1, <2>2, <2>4, <3>1
  <2>6. CASE p.class # "PASS" /\ isClassA(p.class)
    <3>1. row1.passes = 0 /\ row1.atPostpone = row.atPostpone /\ c1.passes = 0
      BY Zenon, <1>3, <1>4, <2>1, <2>6
    <3> QED BY <2>2, <2>4, <3>1
  <2>7. CASE p.class # "PASS" /\ ~isClassA(p.class)
    BY Zenon, <1>3, <1>4, <2>1, <2>2, <2>7
  <2> QED BY Zenon, <2>5, <2>6, <2>7
<1> QED BY Zenon, <1>3, <1>6, <1>7 DEF row1, c1

(* What a state of the loop over the results keeps.                        *)
Sound(s) ==
  /\ DOMAIN s.node = Nodes /\ s.clean \in [Nodes -> CleanRow]
  /\ \A n \in Nodes : /\ RowOK(s.node[n]) /\ Backed(s.node[n], s.clean[n])
                      /\ s.clean[n].band = clean[n].band

(* Applying one result keeps it, whatever the result says.                 *)
LEMMA ResultSound ==
  ASSUME NEW s, Sound(s), NEW v, NEW r, r.target \in Nodes
  PROVE  Sound(ApplyResult(v, s, r))
<1> DEFINE s1 == ApplyResult(v, s, r)
           n  == r.target
<1>1. PICK d : s1.node = [s.node EXCEPT ![n] = NodeAfter(s.node[n], r.proof, d)]
  BY DEF ApplyResult
<1>2. s1.clean = [s.clean EXCEPT ![n] = CleanAfter(s.clean[n], r.proof.class)]
  BY DEF ApplyResult
<1> HIDE DEF s1
<1>3. /\ CleanAfter(s.clean[n], r.proof.class) \in CleanRow
      /\ CleanAfter(s.clean[n], r.proof.class).band = clean[n].band
      /\ RowOK(NodeAfter(s.node[n], r.proof, d))
      /\ Backed(NodeAfter(s.node[n], r.proof, d), CleanAfter(s.clean[n], r.proof.class))
  <2>1. /\ s.clean[n] \in CleanRow /\ RowOK(s.node[n]) /\ Backed(s.node[n], s.clean[n])
        /\ s.clean[n].band = clean[n].band
    BY Zenon DEF Sound
  <2> QED BY Zenon, <2>1, RowsAfter
<1>4. DOMAIN s1.node = Nodes /\ s1.clean \in [Nodes -> CleanRow]
  BY Zenon, <1>1, <1>2, <1>3 DEF Sound
<1>5. ASSUME NEW m \in Nodes
      PROVE  /\ RowOK(s1.node[m]) /\ Backed(s1.node[m], s1.clean[m])
             /\ s1.clean[m].band = clean[m].band
  <2>0. DOMAIN s.node = Nodes /\ DOMAIN s.clean = Nodes
    BY Zenon DEF Sound
  <2>1. CASE m = n
    BY Zenon, <1>1, <1>2, <1>3, <2>0, <2>1
  <2>2. CASE m # n
    <3>1. s1.node[m] = s.node[m] /\ s1.clean[m] = s.clean[m]
      BY Zenon, <1>1, <1>2, <2>0, <2>2
    <3> QED BY Zenon, <3>1 DEF Sound
  <2> QED BY Zenon, <2>1, <2>2
<1> QED BY Zenon, <1>4, <1>5 DEF Sound, s1

(* The states of the loop: the rows before it, then one result at a time.  *)
StartState == [node |-> node, rep |-> rep, tick |-> tick, nf |-> nf, rrs |-> rrsTT,
               tbe |-> tbe', clean |-> clean]

IsScores(f, n, v, rs) ==
  f = [i \in 0..n |-> IF i = 0 THEN StartState ELSE ApplyResult(v, f[i - 1], rs[i])]

(* ScoreStates is that sequence of states.                                 *)
LEMMA ScoresExist ==
  ASSUME NEW v, NEW rs, Len(rs) \in Nat
  PROVE  IsScores(ScoreStates(v, rs), Len(rs), v, rs)
<1> DEFINE G == {n \in Nat : \E f : IsScores(f, n, v, rs)}
<1>1. 0 \in G
  <2>1. IsScores([i \in 0..0 |-> StartState], 0, v, rs)
    BY DEF IsScores
  <2> QED BY <2>1
<1>2. ASSUME NEW n \in Nat, n \in G PROVE n + 1 \in G
  <2>1. PICK f : IsScores(f, n, v, rs)
    BY <1>2
  <2> DEFINE g == [i \in 0..(n + 1) |-> IF i = n + 1 THEN ApplyResult(v, f[n], rs[n + 1]) ELSE f[i]]
  <2>2. \A i \in 0..(n + 1) : i # n + 1 => i \in 0..n
    OBVIOUS
  <2>3. \A i \in 0..(n + 1) : i # 0 => i - 1 \in 0..n /\ i - 1 \in 0..(n + 1) /\ i - 1 # n + 1
    OBVIOUS
  <2>4. (n + 1) - 1 = n /\ 0 # n + 1 /\ 0 \in 0..n
    OBVIOUS
  <2>5. \A i \in 0..(n + 1) : g[i] = IF i = 0 THEN StartState ELSE ApplyResult(v, g[i - 1], rs[i])
    <3>1. g[0] = StartState
      BY <2>1, <2>4 DEF IsScores
    <3>2. ASSUME NEW i \in 0..(n + 1), i # 0, i # n + 1
          PROVE  g[i] = ApplyResult(v, g[i - 1], rs[i])
      <4>1. g[i] = f[i] /\ g[i - 1] = f[i - 1]
        BY Zenon, <2>3, <3>2
      <4>2. f[i] = ApplyResult(v, f[i - 1], rs[i])
        BY Zenon, <2>1, <2>2, <3>2 DEF IsScores
      <4> QED BY Zenon, <4>1, <4>2
    <3>3. n + 1 \in 0..(n + 1) /\ g[n + 1] = ApplyResult(v, g[(n + 1) - 1], rs[n + 1])
      BY <2>3, <2>4
    <3> HIDE DEF g
    <3> QED BY Zenon, <3>1, <3>2, <3>3
  <2>6. IsScores(g, n + 1, v, rs)
    BY Zenon, <2>5 DEF IsScores
  <2>7. n + 1 \in Nat
    OBVIOUS
  <2> HIDE DEF g
  <2> QED BY Zenon, <2>6, <2>7
<1>3. \A n \in Nat : n \in G
  <2> HIDE DEF G
  <2> QED BY <1>1, <1>2, NatSetInduction
<1>4. \E f : IsScores(f, Len(rs), v, rs)
  BY <1>3
<1> QED BY <1>4, Zenon DEF IsScores, ScoreStates, StartState

(* The results of a report keep counters and histories together.           *)
LEMMA ScoresSound ==
  ASSUME NEW v, NEW rs, Len(rs) \in Nat,
         \A i \in 1..Len(rs) : rs[i].target \in Nodes,
         DOMAIN node = Nodes, clean \in [Nodes -> CleanRow],
         \A n \in Nodes : RowOK(node[n]) /\ Backed(node[n], clean[n])
  PROVE  Sound(applyStorageTruthScores(v, rs))
<1> DEFINE f == ScoreStates(v, rs)
           N == Len(rs)
           G == {i \in Nat : i \in 0..N => Sound(f[i])}
<1>1. IsScores(f, N, v, rs)
  BY Zenon, ScoresExist
<1> HIDE DEF f
<1>2. 0 \in G
  <2>1. f[0] = StartState
    BY <1>1 DEF IsScores
  <2>2. StartState.node = node /\ StartState.clean = clean
    BY DEF StartState
  <2> QED BY Zenon, <2>1, <2>2 DEF Sound
<1>3. ASSUME NEW i \in Nat, i \in G PROVE i + 1 \in G
  <2> SUFFICES ASSUME i + 1 \in 0..N PROVE Sound(f[i + 1])
    OBVIOUS
  <2>1. i \in 0..N /\ i + 1 \in 1..N /\ i + 1 # 0 /\ (i + 1) - 1 = i
    OBVIOUS
  <2>2. f[i + 1] = ApplyResult(v, f[i], rs[i + 1])
    BY Zenon, <1>1, <2>1 DEF IsScores
  <2>3. Sound(f[i]) /\ rs[i + 1].target \in Nodes
    BY <1>3, <2>1
  <2> QED BY Zenon, <2>2, <2>3, ResultSound
<1>4. \A i \in Nat : i \in G
  <2> HIDE DEF G
  <2> QED BY <1>2, <1>3, NatSetInduction
<1>5. N \in 0..N
  OBVIOUS
<1> QED BY Zenon, <1>4, <1>5 DEF f, applyStorageTruthScores

-----------------------------------------------------------------------------
(* Of a set of targets one has the lowest hash.                            *)
LEMMA LeastRank ==
  ASSUME NEW S, S # {}, NEW f, \A t \in S : f[t] \in Nat
  PROVE  \E t \in S : \A u \in S : f[t] <= f[u]
<1> DEFINE R == {f[t] : t \in S}
<1>1. R \subseteq Nat /\ R # {}
  OBVIOUS
<1>2. IsWellFoundedOn(OpToRel(<, Nat), Nat)
  BY Zenon, NatLessThanWellFounded
<1>3. PICK m \in R : \A k \in R : ~(<<k, m>> \in OpToRel(<, Nat))
  <2> HIDE DEF R
  <2> QED BY Zenon, <1>1, <1>2, WFMin
<1>4. \A k \in R : m <= k
  <2> SUFFICES ASSUME NEW k \in R, k < m PROVE FALSE
    BY <1>1
  <2>1. <<k, m>> \in OpToRel(<, Nat)
    BY <1>1 DEF OpToRel
  <2> QED BY Zenon, <1>3, <2>1
<1> QED BY Zenon, <1>3, <1>4

(* So the challenger's choice among them is one of them.                   *)
LEMMA BestIsOne ==
  ASSUME epoch \in 0..MaxEpoch, NEW c \in Nodes, NEW S, S \subseteq Nodes, S # {}
  PROVE  Best(c, S) \in S
<1> DEFINE f == [t \in S |-> Rank[<<epoch, c, t>>]]
<1>1. \A t \in S : f[t] \in Nat
  BY Zenon, HashesAssumption
<1>2. \E t \in S : \A u \in S : f[t] <= f[u]
  <2> HIDE DEF f
  <2> QED BY Zenon, <1>1, LeastRank
<1>3. \E t \in S : \A u \in S : Rank[<<epoch, c, t>>] <= Rank[<<epoch, c, u>>]
  BY Zenon, <1>2
<1> QED BY Zenon, <1>3 DEF Best

(* There are finitely many supernodes.                                     *)
LEMMA FiniteNodes == IsFiniteSet(Nodes)
<1>1. IsFiniteSet(1..Len(Accounts))
  <2>1. 1 \in Int /\ Len(Accounts) \in Int
    BY AccountsAssumption
  <2> QED BY Zenon, <2>1, FS_Interval
<1>2. Accounts \in Surjection(1..Len(Accounts), Nodes)
  BY AccountsAssumption DEF Surjection, Range
<1> QED BY Zenon, <1>1, <1>2, FS_Surjection

(* What the loop has given out after i accounts: targets to challengers    *)
(* among them, none to itself, each target once; and unless all but one of *)
(* the targets to be probed are given out, no challenger went without.     *)
Firsts(i) == {Accounts[j] : j \in 1..i}

GivenOK(g, active, targets, count, i) ==
  /\ g \in [DOMAIN g -> targets]
  /\ DOMAIN g \subseteq active \cap Firsts(i)
  /\ \A c \in DOMAIN g : g[c] # c
  /\ \A c, d \in DOMAIN g : g[c] = g[d] => c = d
  /\ Cardinality(DOMAIN g) >= count - 1 \/ DOMAIN g = active \cap Firsts(i)

(* As many targets as challengers are given out.                           *)
LEMMA GivenCount ==
  ASSUME NEW targets, NEW g, g \in [DOMAIN g -> targets], DOMAIN g \subseteq Nodes
  PROVE  /\ IsFiniteSet(DOMAIN g) /\ Cardinality(DOMAIN g) \in Nat
         /\ IsFiniteSet(Range(g)) /\ Cardinality(Range(g)) \in Nat
         /\ Cardinality(Range(g)) <= Cardinality(DOMAIN g)
<1>1. IsFiniteSet(DOMAIN g) /\ Cardinality(DOMAIN g) \in Nat
  BY Zenon, FiniteNodes, FS_Subset, FS_CardinalityType
<1>2. g \in Surjection(DOMAIN g, Range(g))
  BY DEF Surjection, Range
<1>3. IsFiniteSet(Range(g)) /\ Cardinality(Range(g)) <= Cardinality(DOMAIN g)
  BY Zenon, <1>1, <1>2, FS_Surjection
<1> QED BY Zenon, <1>1, <1>3, FS_CardinalityType

(* The account after the first i is not among them.                        *)
LEMMA NextAccount ==
  ASSUME NEW i \in Nat, i + 1 \in 1..Len(Accounts)
  PROVE  /\ Accounts[i + 1] \in Nodes /\ Accounts[i + 1] \notin Firsts(i)
         /\ Firsts(i + 1) = Firsts(i) \cup {Accounts[i + 1]}
<1>1. /\ DOMAIN Accounts = 1..Len(Accounts) /\ Accounts[i + 1] \in Nodes /\ Len(Accounts) \in Nat
      /\ \A j, k \in DOMAIN Accounts : Accounts[j] = Accounts[k] => j = k
  BY AccountsAssumption
<1>2. \A j \in 1..i : j \in DOMAIN Accounts /\ j # i + 1
  BY <1>1
<1>3. 1..(i + 1) = (1..i) \cup {i + 1}
  OBVIOUS
<1>4. Accounts[i + 1] \notin Firsts(i)
  BY Zenon, <1>1, <1>2 DEF Firsts
<1>5. Firsts(i + 1) = Firsts(i) \cup {Accounts[i + 1]}
  BY <1>3, Zenon DEF Firsts
<1> QED BY Zenon, <1>1, <1>4, <1>5

(* A challenger goes without a target only when all but one of those to be *)
(* probed are given out.                                                   *)
LEMMA NothingLeft ==
  ASSUME NEW targets, targets \subseteq Nodes, NEW c \in Nodes, NEW g, g \in [DOMAIN g -> targets],
         DOMAIN g \subseteq Nodes, NEW count \in Nat, count <= Cardinality(targets),
         targets \ (Range(g) \cup {c}) = {}
  PROVE  Cardinality(DOMAIN g) >= count - 1
<1>1. /\ IsFiniteSet(Range(g)) /\ Cardinality(Range(g)) \in Nat /\ Cardinality(DOMAIN g) \in Nat
      /\ Cardinality(Range(g)) <= Cardinality(DOMAIN g)
  BY Zenon, GivenCount
<1>2. /\ IsFiniteSet(Range(g) \cup {c})
      /\ Cardinality(Range(g) \cup {c}) = Cardinality(Range(g))
           \/ Cardinality(Range(g) \cup {c}) = Cardinality(Range(g)) + 1
  BY Zenon, <1>1, FS_AddElement
<1>3. targets \in SUBSET (Range(g) \cup {c})
  BY Zenon
<1>4. Cardinality(targets) <= Cardinality(Range(g) \cup {c})
  BY Zenon, <1>2, <1>3, FS_Subset
<1>5. Cardinality(targets) \in Nat
  BY Zenon, FiniteNodes, FS_Subset, FS_CardinalityType
<1> QED BY <1>1, <1>2, <1>4, <1>5

(* One turn of the loop.                                                   *)
LEMMA AssignStep ==
  ASSUME epoch \in 0..MaxEpoch, NEW active, active \subseteq Nodes, NEW targets, targets \subseteq Nodes,
         NEW count \in Nat, count <= Cardinality(targets),
         NEW i \in Nat, i + 1 \in 1..Len(Accounts), NEW g, GivenOK(g, active, targets, count, i),
         Accounts[i + 1] \in active
  PROVE  GivenOK(Assign(Accounts[i + 1], g, targets, count), active, targets, count, i + 1)
<1> DEFINE c      == Accounts[i + 1]
           left   == targets \ (Range(g) \cup {c})
           chosen == Selected(targets, count) \cap left
           free   == IF chosen # {} THEN chosen ELSE left
           g1     == Assign(c, g, targets, count)
<1>1. /\ c \in Nodes /\ c \notin Firsts(i) /\ Firsts(i + 1) = Firsts(i) \cup {c}
  BY Zenon, NextAccount
<1>2. /\ g \in [DOMAIN g -> targets] /\ DOMAIN g \subseteq active \cap Firsts(i)
      /\ \A x \in DOMAIN g : g[x] # x
      /\ \A x, y \in DOMAIN g : g[x] = g[y] => x = y
      /\ Cardinality(DOMAIN g) >= count - 1 \/ DOMAIN g = active \cap Firsts(i)
  BY Zenon DEF GivenOK
<1>3. DOMAIN g \subseteq Nodes /\ c \notin DOMAIN g /\ c \in active
  BY Zenon, <1>1, <1>2
<1>4. IsFiniteSet(DOMAIN g) /\ Cardinality(DOMAIN g) \in Nat
  BY Zenon, <1>2, <1>3, GivenCount
<1>5. CASE Cardinality(DOMAIN g) >= count \/ free = {}
  <2>1. g1 = g
    BY Zenon, <1>5 DEF Assign
  <2>2. Cardinality(DOMAIN g) >= count - 1
    <3>1. CASE Cardinality(DOMAIN g) >= count
      BY <1>4, <3>1
    <3>2. CASE free = {}
      <4>1. left = {}
        BY Zenon, <3>2
      <4> QED BY Zenon, <1>1, <1>2, <1>3, <4>1, NothingLeft
    <3> QED BY Zenon, <1>5, <3>1, <3>2
  <2>3. DOMAIN g \subseteq active \cap Firsts(i + 1)
    BY Zenon, <1>1, <1>2
  <2> HIDE DEF g1, c
  <2>4. GivenOK(g1, active, targets, count, i + 1)
    BY Zenon, <1>2, <2>1, <2>2, <2>3 DEF GivenOK
  <2> QED BY Zenon, <2>4 DEF g1, c
<1>6. CASE ~(Cardinality(DOMAIN g) >= count) /\ free # {}
  <2> DEFINE t == Best(c, free)
  <2>1. g1 = Give(g, c, t)
    BY Zenon, <1>6 DEF Assign
  <2>2. free \subseteq left /\ free \subseteq Nodes
    BY Zenon
  <2>3. t \in left
    <3>1. t \in free
      <4> HIDE DEF free, c
      <4> QED BY Zenon, <1>1, <1>6, <2>2, BestIsOne
    <3> QED BY Zenon, <2>2, <3>1
  <2> HIDE DEF t, free, c
  <2>4. t \in targets /\ t # c /\ \A x \in DOMAIN g : g[x] # t
    BY Zenon, <2>3 DEF Range
  <2>5. /\ DOMAIN g1 = DOMAIN g \cup {c} /\ g1[c] = t
        /\ \A x \in DOMAIN g : g1[x] = g[x]
        /\ g1 \in [DOMAIN g1 -> targets]
    BY <1>2, <1>3, <2>1, <2>4 DEF Give
  <2> HIDE DEF g1
  <2>6. DOMAIN g1 \subseteq active \cap Firsts(i + 1)
    BY Zenon, <1>1, <1>2, <1>3, <2>5
  <2>7. \A x \in DOMAIN g1 : g1[x] # x
    BY Zenon, <1>2, <2>4, <2>5
  <2>8. \A x, y \in DOMAIN g1 : g1[x] = g1[y] => x = y
    BY Zenon, <1>2, <2>4, <2>5
  <2>9. Cardinality(DOMAIN g1) >= count - 1 \/ DOMAIN g1 = active \cap Firsts(i + 1)
    <3>1. CASE Cardinality(DOMAIN g) >= count - 1
      <4>1. Cardinality(DOMAIN g1) = Cardinality(DOMAIN g) + 1
        BY Zenon, <1>3, <1>4, <2>5, FS_AddElement
      <4> QED BY <1>4, <3>1, <4>1
    <3>2. CASE DOMAIN g = active \cap Firsts(i)
      BY Zenon, <1>1, <1>3, <2>5, <3>2
    <3> QED BY Zenon, <1>2, <3>1, <3>2
  <2>10. GivenOK(g1, active, targets, count, i + 1)
    BY Zenon, <2>5, <2>6, <2>7, <2>8, <2>9 DEF GivenOK
  <2> QED BY Zenon, <2>10 DEF g1, c
<1> QED BY Zenon, <1>5, <1>6

(* The loop over the accounts, turn by turn.                               *)
Turn(active, targets, count, g, i) ==
  IF Accounts[i] \in active THEN Assign(Accounts[i], g, targets, count) ELSE g

IsGivens(f, n, active, targets, count) ==
  f = [i \in 0..n |-> IF i = 0 THEN <<>> ELSE Turn(active, targets, count, f[i - 1], i)]

(* Givens is that sequence of assignments.                                 *)
LEMMA GivensExist ==
  ASSUME NEW active, NEW targets, NEW count
  PROVE  IsGivens(Givens(active, targets, count), Len(Accounts), active, targets, count)
<1> DEFINE Is(f, n) == IsGivens(f, n, active, targets, count)
           T(g, i)  == Turn(active, targets, count, g, i)
           G == {n \in Nat : \E f : Is(f, n)}
<1>1. 0 \in G
  <2>1. Is([i \in 0..0 |-> <<>>], 0)
    BY DEF IsGivens
  <2> QED BY <2>1
<1>2. ASSUME NEW n \in Nat, n \in G PROVE n + 1 \in G
  <2>1. PICK f : Is(f, n)
    BY <1>2
  <2> DEFINE g == [i \in 0..(n + 1) |-> IF i = n + 1 THEN T(f[n], n + 1) ELSE f[i]]
  <2>2. \A i \in 0..(n + 1) : i # n + 1 => i \in 0..n
    OBVIOUS
  <2>3. \A i \in 0..(n + 1) : i # 0 => i - 1 \in 0..n /\ i - 1 \in 0..(n + 1) /\ i - 1 # n + 1
    OBVIOUS
  <2>4. (n + 1) - 1 = n /\ 0 # n + 1 /\ 0 \in 0..n /\ 0 \in 0..(n + 1) /\ n + 1 \in 0..(n + 1)
        /\ n \in 0..(n + 1) /\ n # n + 1
    OBVIOUS
  <2> HIDE DEF T
  <2>5. \A i \in 0..(n + 1) : g[i] = IF i = 0 THEN <<>> ELSE T(g[i - 1], i)
    <3>1. g[0] = <<>>
      BY Zenon, <2>1, <2>4 DEF IsGivens
    <3>2. ASSUME NEW i \in 0..(n + 1), i # 0, i # n + 1
          PROVE  g[i] = T(g[i - 1], i)
      <4>1. g[i] = f[i] /\ g[i - 1] = f[i - 1]
        BY Zenon, <2>3, <3>2
      <4>2. f[i] = T(f[i - 1], i)
        BY Zenon, <2>1, <2>2, <3>2 DEF IsGivens, T
      <4> QED BY Zenon, <4>1, <4>2
    <3>3. g[n + 1] = T(g[(n + 1) - 1], n + 1)
      BY Zenon, <2>4
    <3> HIDE DEF g
    <3> QED BY Zenon, <3>1, <3>2, <3>3
  <2>6. Is(g, n + 1)
    BY Zenon, <2>5 DEF IsGivens, T
  <2>7. n + 1 \in Nat
    OBVIOUS
  <2> HIDE DEF g, Is
  <2> QED BY Zenon, <2>6, <2>7
<1>3. \A n \in Nat : n \in G
  <2> HIDE DEF G
  <2> QED BY <1>1, <1>2, NatSetInduction
<1>4. \E f : Is(f, Len(Accounts))
  <2>1. Len(Accounts) \in Nat
    BY Zenon, AccountsAssumption
  <2> QED BY Zenon, <1>3, <2>1
<1> QED BY Zenon, <1>4 DEF IsGivens, Givens, Turn

(* The loop gives out targets as GivenOK says.                             *)
LEMMA GivensSound ==
  ASSUME epoch \in 0..MaxEpoch, NEW active, active \subseteq Nodes, NEW targets, targets \subseteq Nodes,
         NEW count \in Nat, count <= Cardinality(targets)
  PROVE  GivenOK(Givens(active, targets, count)[Len(Accounts)], active, targets, count, Len(Accounts))
<1> DEFINE f == Givens(active, targets, count)
           N == Len(Accounts)
           G == {i \in Nat : i \in 0..N => GivenOK(f[i], active, targets, count, i)}
<1>0. N \in Nat /\ N \in 0..N
  BY AccountsAssumption
<1>1. IsGivens(f, N, active, targets, count)
  BY Zenon, GivensExist
<1> HIDE DEF f
<1>2. 0 \in G
  <2>1. f[0] = <<>>
    BY <1>0, <1>1 DEF IsGivens
  <2>2. DOMAIN <<>> = {} /\ <<>> \in [{} -> targets] /\ Firsts(0) = {}
    BY DEF Firsts
  <2>3. GivenOK(<<>>, active, targets, count, 0)
    BY Zenon, <2>2 DEF GivenOK
  <2> QED BY Zenon, <2>1, <2>3
<1>3. ASSUME NEW i \in Nat, i \in G PROVE i + 1 \in G
  <2> SUFFICES ASSUME i + 1 \in 0..N PROVE GivenOK(f[i + 1], active, targets, count, i + 1)
    OBVIOUS
  <2>1. i \in 0..N /\ i + 1 \in 1..N /\ i + 1 # 0 /\ (i + 1) - 1 = i
    BY <1>0
  <2>2. f[i + 1] = Turn(active, targets, count, f[i], i + 1)
    BY Zenon, <1>1, <2>1 DEF IsGivens
  <2>3. GivenOK(f[i], active, targets, count, i)
    BY Zenon, <1>3, <2>1
  <2>4. CASE Accounts[i + 1] \in active
    BY Zenon, <2>1, <2>2, <2>3, <2>4, AssignStep DEF Turn
  <2>5. CASE Accounts[i + 1] \notin active
    <3>1. f[i + 1] = f[i]
      BY Zenon, <2>2, <2>5 DEF Turn
    <3>2. active \cap Firsts(i + 1) = active \cap Firsts(i)
      BY Zenon, <2>1, <2>5, NextAccount
    <3> QED BY Zenon, <2>3, <3>1, <3>2 DEF GivenOK
  <2> QED BY Zenon, <2>4, <2>5
<1>4. \A i \in Nat : i \in G
  <2> HIDE DEF G
  <2> QED BY <1>2, <1>3, NatSetInduction
<1> QED BY Zenon, <1>0, <1>4 DEF f

(* The number of targets to be probed is at most that of the challengers.  *)
LEMMA TargetCount ==
  ASSUME NEW n \in Nat
  PROVE  storageTruthChallengeTargetCount(n) \in Nat /\ storageTruthChallengeTargetCount(n) <= n
<1> DEFINE q == (n + Params.divisor - 1) \div Params.divisor
           m == Max({1, q})
<1>1. q \in Int
  BY ScoresAssumption
<1> HIDE DEF q
<1>2. m \in Int /\ m >= 1
  <2>1. \E x \in {1, q} : \A y \in {1, q} : x >= y
    BY <1>1
  <2>2. m \in {1, q} /\ \A y \in {1, q} : m >= y
    BY Zenon, <2>1 DEF Max
  <2> QED BY <1>1, <2>2
<1> HIDE DEF m
<1>3. Min({n, m}) \in {n, m} /\ Min({n, m}) <= n
  BY <1>2, MinOfTwo
<1> QED BY <1>2, <1>3 DEF storageTruthChallengeTargetCount, m, q

(* What AssignmentSound says of one set of challengers.                    *)
LEMMA AssignmentIsSound ==
  ASSUME epoch \in 0..MaxEpoch, NEW targets, targets \subseteq Nodes, NEW active, active \subseteq targets
  PROVE  LET given == Assignment(active, targets)
             count == storageTruthChallengeTargetCount(Cardinality(active))
         IN  /\ DOMAIN given \subseteq active /\ Range(given) \subseteq targets
             /\ \A c, d \in DOMAIN given : given[c] # c /\ (given[c] = given[d] => c = d)
             /\ Cardinality(active) > 1 => Cardinality(DOMAIN given) >= count - 1
<1> DEFINE given == Assignment(active, targets)
           n     == Cardinality(active)
           count == storageTruthChallengeTargetCount(n)
           k     == Min({count, Cardinality(targets)})
           last  == Givens(active, targets, k)[Len(Accounts)]
<1>1. /\ active \subseteq Nodes /\ n \in Nat
      /\ Cardinality(targets) \in Nat /\ n <= Cardinality(targets)
  <2>1. IsFiniteSet(targets)
    BY Zenon, FiniteNodes, FS_Subset
  <2> QED BY Zenon, <2>1, FS_Subset, FS_CardinalityType
<1>2. count \in Nat /\ count <= n
  BY Zenon, <1>1, TargetCount
<1> HIDE DEF n, count
<1>3. k = count /\ k <= Cardinality(targets)
  <2>1. count \in Int /\ Cardinality(targets) \in Int
    BY <1>1, <1>2
  <2>2. k \in {count, Cardinality(targets)} /\ k <= count /\ k <= Cardinality(targets)
    BY Zenon, <2>1, MinOfTwo
  <2> HIDE DEF k
  <2> QED BY <1>1, <1>2, <2>2
<1>4. given = IF n <= 1 THEN <<>> ELSE last
  BY Zenon DEF Assignment, n, count
<1> HIDE DEF k, given
<1>5. CASE n <= 1
  <2>1. given = <<>> /\ DOMAIN <<>> = {} /\ ~(n > 1)
    BY <1>1, <1>4, <1>5
  <2> QED BY Zenon, <2>1 DEF given, n, Range
<1>6. CASE ~(n <= 1)
  <2>1. k \in Nat
    BY Zenon, <1>2, <1>3
  <2>2. GivenOK(last, active, targets, k, Len(Accounts))
    BY Zenon, <1>1, <1>3, <2>1, GivensSound
  <2> HIDE DEF last
  <2>3. given = last
    BY Zenon, <1>4, <1>6
  <2>4. Firsts(Len(Accounts)) = Nodes
    BY Zenon, AccountsAssumption DEF Firsts, Range
  <2>5. /\ given \in [DOMAIN given -> targets] /\ DOMAIN given \subseteq active
        /\ \A c \in DOMAIN given : given[c] # c
        /\ \A c, d \in DOMAIN given : given[c] = given[d] => c = d
        /\ Cardinality(DOMAIN given) >= k - 1 \/ DOMAIN given = active
    BY Zenon, <1>1, <2>2, <2>3, <2>4 DEF GivenOK
  <2>6. Cardinality(DOMAIN given) >= count - 1
    <3>1. CASE Cardinality(DOMAIN given) >= k - 1
      BY Zenon, <1>3, <3>1
    <3>2. CASE DOMAIN given = active
      BY <1>1, <1>2, <3>2 DEF n
    <3> QED BY Zenon, <2>5, <3>1, <3>2
  <2>7. Range(given) \subseteq targets
    BY Zenon, <2>5 DEF Range
  <2> QED BY Zenon, <2>5, <2>6, <2>7 DEF given, n, count
<1> QED BY Zenon, <1>5, <1>6

-----------------------------------------------------------------------------
(* What every step of the storage-truth rules keeps.  Of a supernode that  *)
(* is postponed for suspicion, its marker asks for as many passes as the   *)
(* band of its last postponement at least: a strong marker outlives the    *)
(* postponement it was set for.                                            *)
Earned(n) ==
  /\ RowOK(node[n]) /\ Backed(node[n], clean[n])
  /\ clean[n].band # "no" =>
       mark[n] # "no" /\ RequiredPasses(mark[n]) >= RequiredPasses(clean[n].band)

RowsInv ==
  /\ DOMAIN life = Nodes /\ DOMAIN node = Nodes
  /\ clean \in [Nodes -> CleanRow] /\ mark \in [Nodes -> Bands]
  /\ \A n \in Nodes : Earned(n)

EpochInv ==
  /\ epoch \in 0..MaxEpoch
  /\ anchor.active \subseteq anchor.targets /\ anchor.targets \subseteq Nodes

TruthInv == FactsInv /\ EpochInv /\ RowsInv

(* An anchor's active supernodes are among its targets.                    *)
LEMMA AnchorSets ==
  ASSUME NEW l
  PROVE  Anchor(l).active \subseteq Anchor(l).targets /\ Anchor(l).targets \subseteq Nodes
<1>1. /\ Anchor(l).active = {n \in Nodes : l[n] = "Active"}
      /\ Anchor(l).targets = {n \in Nodes : l[n] \in {"Active", "Postponed"}}
  BY DEF Anchor
<1> QED BY Zenon, <1>1

(* Only supernodes are assigned, to whomever.                              *)
LEMMA AllowedAreNodes ==
  ASSUME EpochInv, NEW v
  PROVE  AllowedTargets(v) \subseteq Nodes
<1> DEFINE given == Assignment(Eligible, anchor.targets)
<1>1. Eligible \subseteq anchor.targets
  BY Zenon DEF Eligible, EpochInv
<1>2. Range(given) \subseteq anchor.targets
  BY Zenon, <1>1, AssignmentIsSound DEF EpochInv
<1>3. \A c \in DOMAIN given : given[c] \in anchor.targets
  BY Zenon, <1>2 DEF Range
<1> QED BY Zenon, <1>3 DEF AllowedTargets, EpochInv

(* A report on the assigned targets is a report of StorageFacts.           *)
LEMMA ReportsAreReports ==
  ASSUME EpochInv, NEW v \in Reporters, NEW rs \in ReportsOf(v)
  PROVE  /\ rs \in Reports /\ Len(rs) \in Nat
         /\ \A i \in 1..Len(rs) : rs[i].target \in Nodes
<1> DEFINE bare == {r \in [target : AllowedTargets(v), ticket : Tickets \cup {None}, proof : Proofs] :
                      r.ticket = None <=> r.proof.class = "NO_TICKET"}
           Entry(b, i) == [target |-> b.target, ticket |-> b.ticket,
                           proof |-> b.proof, hash |-> HashOf(v, i)]
<1>1. /\ NoDuplicates(rs)
      /\ \E bs \in UNION {[1..n -> bare] : n \in 0..MaxResults} :
           rs = [i \in DOMAIN bs |-> Entry(bs[i], i)]
  BY Zenon DEF ReportsOf
<1>2. PICK n \in 0..MaxResults :
        \E bs \in [1..n -> bare] : rs = [i \in DOMAIN bs |-> Entry(bs[i], i)]
  BY Zenon, <1>1
<1> PICK bs \in [1..n -> bare] : rs = [i \in DOMAIN bs |-> Entry(bs[i], i)]
  BY Zenon, <1>2
<1>3. ASSUME NEW b \in bare, NEW i \in 1..n PROVE Entry(b, i) \in Result
  <2>1. /\ b.target \in Nodes /\ b.ticket \in Tickets \cup {None} /\ b.proof \in Proofs
        /\ b.ticket = None <=> b.proof.class = "NO_TICKET"
    <3>1. AllowedTargets(v) \subseteq Nodes
      BY Zenon, AllowedAreNodes
    <3> QED BY <3>1
  <2>2. epoch \in 0..MaxEpoch /\ v \in Nodes /\ i \in 0..MaxResults
    BY FactsAssumption DEF EpochInv
  <2>3. HashOf(v, i) \in Hashes
    BY Zenon, <2>2, HashesAssumption DEF HashOf
  <2> HIDE DEF bare
  <2> QED BY <2>1, <2>3 DEF Result
<1> HIDE DEF bare, Entry
<1>4. rs \in [1..n -> Result]
  <2>1. DOMAIN bs = 1..n /\ \A i \in 1..n : bs[i] \in bare
    OBVIOUS
  <2>2. rs = [i \in 1..n |-> Entry(bs[i], i)]
    BY Zenon, <2>1
  <2> QED BY Zenon, <1>3, <2>1, <2>2
<1>5. Len(rs) = n /\ n \in Nat
  BY <1>4
<1>6. \A r \in Result : r.target \in Nodes
  BY DEF Result
<1>7. rs \in Reports
  BY Zenon, <1>1, <1>4 DEF Reports
<1> QED BY Zenon, <1>4, <1>5, <1>6, <1>7

(* The scores of a report keep counters, histories and markers together.   *)
LEMMA SoundKeepsRows ==
  ASSUME RowsInv, NEW s, Sound(s), node' = s.node, clean' = s.clean, UNCHANGED <<life, mark>>
  PROVE  RowsInv'
<1>1. /\ DOMAIN life' = Nodes /\ DOMAIN node' = Nodes
      /\ clean' \in [Nodes -> CleanRow] /\ mark' \in [Nodes -> Bands]
  BY Zenon DEF RowsInv, Sound
<1>2. ASSUME NEW n \in Nodes PROVE Earned(n)'
  <2>1. /\ RowOK(node[n]') /\ Backed(node[n]', clean[n]')
        /\ clean[n]'.band = clean[n].band /\ mark[n]' = mark[n]
    BY Zenon DEF Sound
  <2>2. Earned(n)
    BY Zenon DEF RowsInv
  <2>3. clean[n]'.band # "no" =>
          mark[n]' # "no" /\ RequiredPasses(mark[n]') >= RequiredPasses(clean[n]'.band)
    BY Zenon, <2>1, <2>2 DEF Earned
  <2>4. RowOK(node[n])' /\ Backed(node[n], clean[n])'
    BY Zenon, <2>1 DEF RowOK, Backed
  <2> QED BY Zenon, <2>3, <2>4 DEF Earned, RequiredPasses
<1> QED BY Zenon, <1>1, <1>2 DEF RowsInv

(* A report is one of StorageFacts, and keeps what recovery relies on.     *)
LEMMA ReportKeepsRows ==
  ASSUME TruthInv, NEW v \in Reporters, NEW rs \in ReportsOf(v), NEW observed,
         SubmitEpochReport(v, rs, observed)
  PROVE  NextFacts /\ EpochInv' /\ RowsInv'
<1>1. /\ rs \in Reports /\ Len(rs) \in Nat /\ \A i \in 1..Len(rs) : rs[i].target \in Nodes
  BY Zenon, ReportsAreReports DEF TruthInv
<1>2. RecordReport(v, rs)
  BY Zenon DEF SubmitEpochReport
<1>3. NextFacts
  BY Zenon, <1>1, <1>2 DEF NextFacts
<1>4. epoch' = epoch /\ anchor' = anchor
  BY Zenon, <1>2 DEF RecordReport, SubmitEpochReport
<1>5. EpochInv'
  BY Zenon, <1>4 DEF EpochInv, TruthInv
<1> DEFINE s == applyStorageTruthScores(v, rs)
<1>6. node' = s.node /\ clean' = s.clean /\ UNCHANGED <<life, mark>>
  BY Zenon DEF SubmitEpochReport
<1>7. Sound(s)
  BY Zenon, <1>1, ScoresSound DEF TruthInv, RowsInv, Earned
<1> HIDE DEF s
<1>8. RowsInv'
  BY Zenon, <1>6, <1>7, SoundKeepsRows DEF TruthInv
<1> QED BY Zenon, <1>3, <1>5, <1>8

(* So is a recheck, which has one result.                                  *)
LEMMA RecheckKeepsRows ==
  ASSUME TruthInv, NEW c \in Nodes, NEW h \in Stored, NEW class \in Rechecks,
         SubmitStorageRecheckEvidence(c, h, HashOf(c, 0), class)
  PROVE  NextFacts /\ EpochInv' /\ RowsInv'
<1>1. h \in Hashes /\ spt[h].target \in Nodes
  BY DEF TruthInv, FactsInv, TypeFacts, Stored, Transcript
<1>2. HashOf(c, 0) \in Hashes
  <2>1. 0 \in 0..MaxResults
    BY FactsAssumption
  <2> QED BY Zenon, <2>1, HashesAssumption DEF HashOf, TruthInv, EpochInv
<1>3. RecordRecheck(c, h, HashOf(c, 0), class)
  BY Zenon DEF SubmitStorageRecheckEvidence
<1>4. NextFacts
  BY Zenon, <1>1, <1>2, <1>3 DEF NextFacts
<1>5. epoch' = epoch /\ anchor' = anchor
  BY Zenon, <1>3 DEF RecordRecheck, SubmitStorageRecheckEvidence
<1>6. EpochInv'
  BY Zenon, <1>5 DEF EpochInv, TruthInv
<1> DEFINE r == [target |-> spt[h].target, ticket |-> spt[h].ticket, proof |-> RecheckProof(class)]
           s == applyStorageTruthScores(c, <<r>>)
<1>7. node' = s.node /\ clean' = s.clean /\ UNCHANGED <<life, mark>>
  BY Zenon DEF SubmitStorageRecheckEvidence
<1>8. r.target \in Nodes
  BY <1>1
<1> HIDE DEF r
<1>9. Len(<<r>>) \in Nat /\ \A i \in 1..Len(<<r>>) : <<r>>[i].target \in Nodes
  BY <1>8
<1>10. Sound(s)
  BY Zenon, <1>9, ScoresSound DEF TruthInv, RowsInv, Earned
<1> HIDE DEF s
<1>11. RowsInv'
  BY Zenon, <1>7, <1>10, SoundKeepsRows DEF TruthInv
<1> QED BY Zenon, <1>4, <1>6, <1>11

(* A supernode without a row has no score.                                 *)
LEMMA NoRowNoScore ==
  ASSUME epoch \in Nat, NEW row, row.score = 0, row.updated = 0
  PROVE  NodeScore(row) = 0
<1> DEFINE d == epochDelta(epoch, row.updated)
<1>1. d \in Nat
  BY DEF epochDelta
<1> HIDE DEF d
<1>2. d \in Int /\ 50 \in Int
  BY <1>1
<1>3. Min({d, 50}) \in {d, 50} /\ Min({d, 50}) <= 50
  BY Zenon, <1>2, MinOfTwo
<1>4. Min({d, 50}) \in 0..50
  BY <1>1, <1>3
<1>5. Params.nodeDecay \in Nat
  <2>1. Params.nodeDecay \in 1..1000
    BY Zenon, ScoresAssumption
  <2> QED BY <2>1
<1>6. Decayed(0, Params.nodeDecay)[Min({d, 50})] = 0
  BY Zenon, <1>4, <1>5, ZeroDecays
<1> QED BY Zenon, <1>6 DEF NodeScore, decayTowardZero, d

(* Who is postponed for suspicion has a row, and a band of its own.        *)
LEMMA PostponedHasRow ==
  ASSUME epoch \in Nat, NEW n \in PostponedNow, RowOK(node[n])
  PROVE  /\ node[n].found /\ PostponeBand(n) \in {"normal", "strong"}
         /\ life[n] = "Active"
<1>1. PostponeBand(n) # "no" /\ life[n] = "Active"
  BY Zenon DEF PostponedNow
<1> DEFINE score == NodeScore(node[n])
<1>2. /\ PostponeBand(n) \in {"normal", "strong"}
      /\ score >= Params.strong \/ score >= Params.postpone
  <2>1. CASE score >= Params.strong
    BY <1>1, <2>1 DEF PostponeBand
  <2>2. CASE ~(score >= Params.strong) /\ score >= Params.postpone
    BY <1>1, <2>2 DEF PostponeBand
  <2>3. CASE ~(score >= Params.strong) /\ ~(score >= Params.postpone)
    BY <1>1, <2>3 DEF PostponeBand
  <2> QED BY Zenon, <2>1, <2>2, <2>3
<1>3. ~node[n].found => score = 0
  BY Zenon, NoRowNoScore DEF RowOK
<1> HIDE DEF score
<1>4. score # 0
  BY <1>2, BandsAssumption
<1> QED BY Zenon, <1>1, <1>2, <1>3, <1>4

(* The strong band asks for at least as many passes as any other.          *)
LEMMA StrongAsksMost ==
  ASSUME NEW b
  PROVE  /\ RequiredPasses(b) \in Nat
         /\ Params.strongPasses >= RequiredPasses(b)
         /\ RequiredPasses("strong") = Params.strongPasses
BY BandsAssumption DEF RequiredPasses

(* An epoch end keeps what recovery relies on: postponing notes the passes *)
(* there are, recovering forgets the marker with the history.              *)
LEMMA EpochEndKeepsRows ==
  ASSUME TruthInv, NEW other, EnforceEpochEnd(other)
  PROVE  RowsInv'
<1> DEFINE P == PostponedNow
           R == RecoveredNow(other)
           zero(b) == [band |-> b, passes |-> 0]
<1>1. /\ life' = [n \in Nodes |-> CASE n \in P -> "Postponed" [] n \in R -> "Active"
                                    [] OTHER -> life[n]]
      /\ mark' = [n \in Nodes |-> CASE n \in P /\ mark[n] # "strong" -> PostponeBand(n)
                                    [] n \in R -> "no" [] OTHER -> mark[n]]
      /\ clean' = [n \in Nodes |-> CASE n \in P -> zero(PostponeBand(n)) [] n \in R -> zero("no")
                                     [] OTHER -> clean[n]]
      /\ node' = [n \in Nodes |-> IF n \in P THEN Snapshot(n) ELSE node[n]]
  BY Zenon DEF EnforceEpochEnd
<1>2. \A b \in Bands : zero(b) \in CleanRow /\ zero(b).band = b /\ zero(b).passes = 0
  BY DEF CleanRow
<1>3. "no" \in Bands /\ "normal" \in Bands /\ "strong" \in Bands
  BY DEF Bands
<1>4. \A n \in Nodes : n \in R => life[n] = "Postponed"
  BY Zenon DEF RecoveredNow
<1>5. \A n \in Nodes : Earned(n) /\ RowOK(node[n]) /\ clean[n] \in CleanRow /\ mark[n] \in Bands
  BY Zenon DEF TruthInv, RowsInv, Earned
<1>6. epoch \in Nat
  BY DEF TruthInv, EpochInv
<1> HIDE DEF P, R, zero
<1>7. ASSUME NEW n \in Nodes
      PROVE  clean[n]' \in CleanRow /\ mark[n]' \in Bands /\ Earned(n)'
  <2>1. CASE n \in P
    <3>1. /\ node[n].found /\ PostponeBand(n) \in {"normal", "strong"}
          /\ life[n] = "Active"
      BY Zenon, <1>5, <1>6, <2>1, PostponedHasRow DEF P
    <3>2. n \notin R
      <4>1. "Active" # "Postponed"
        OBVIOUS
      <4> QED BY Zenon, <1>4, <3>1, <4>1
    <3> DEFINE b == PostponeBand(n)
    <3>3. /\ clean[n]' = zero(b) /\ node[n]' = Snapshot(n)
          /\ mark[n]' = IF mark[n] # "strong" THEN b ELSE "strong"
      BY Zenon, <1>1, <2>1, <3>2
    <3>4. b \in Bands /\ b # "no" /\ mark[n]' \in {b, "strong"}
      BY <1>3, <3>1, <3>3
    <3>5. /\ Snapshot(n).found = node[n].found /\ Snapshot(n).passes = node[n].passes
          /\ Snapshot(n).atPostpone = node[n].passes
          /\ RowFields \subseteq DOMAIN Snapshot(n) /\ node[n].passes \in Nat
      BY <1>5 DEF Snapshot, RowOK, RowFields
    <3> HIDE DEF b
    <3>6. RowOK(node[n])'
      BY Zenon, <3>1, <3>3, <3>5 DEF RowOK
    <3>7. Backed(node[n], clean[n])'
      <4>1. node[n]'.passes - node[n]'.atPostpone = 0
        BY <3>3, <3>5
      <4>2. clean[n]'.passes = 0
        BY Zenon, <1>2, <3>3, <3>4
      <4>3. 0 <= 0
        OBVIOUS
      <4> QED BY Zenon, <3>1, <3>3, <3>5, <4>1, <4>2, <4>3 DEF Backed
    <3>8. mark[n]' # "no" /\ RequiredPasses(mark[n]') >= RequiredPasses(clean[n]'.band)
      <4>1. clean[n]'.band = b
        BY Zenon, <1>2, <3>3, <3>4
      <4>2. CASE mark[n]' = b
        <5>1. RequiredPasses(b) >= RequiredPasses(b)
          BY StrongAsksMost
        <5> QED BY Zenon, <3>4, <4>1, <4>2, <5>1
      <4>3. CASE mark[n]' = "strong"
        <5>1. "strong" # "no" 
          OBVIOUS
        <5> QED BY Zenon, <4>1, <4>3, <5>1, StrongAsksMost
      <4> QED BY Zenon, <3>4, <4>2, <4>3
    <3>9. clean[n]' \in CleanRow /\ mark[n]' \in Bands
      BY Zenon, <1>2, <1>3, <3>3, <3>4
    <3> QED BY Zenon, <3>6, <3>7, <3>8, <3>9 DEF Earned, RequiredPasses
  <2>2. CASE n \notin P /\ n \in R
    <3>1. clean[n]' = zero("no") /\ node[n]' = node[n] /\ mark[n]' = "no"
      BY Zenon, <1>1, <2>2
    <3>2. clean[n]'.band = "no" /\ clean[n]' \in CleanRow
      BY Zenon, <1>2, <1>3, <3>1
    <3>3. RowOK(node[n])' /\ Backed(node[n], clean[n])'
      BY Zenon, <1>5, <3>1, <3>2 DEF RowOK, Backed
    <3> QED BY Zenon, <1>3, <3>1, <3>2, <3>3 DEF Earned
  <2>3. CASE n \notin P /\ n \notin R
    <3>1. clean[n]' = clean[n] /\ node[n]' = node[n] /\ mark[n]' = mark[n]
      BY Zenon, <1>1, <2>3
    <3> QED BY Zenon, <1>5, <3>1 DEF Earned, RowOK, Backed, RequiredPasses
  <2> QED BY Zenon, <2>1, <2>2, <2>3
<1>8. /\ DOMAIN life' = Nodes /\ DOMAIN node' = Nodes
      /\ clean' \in [Nodes -> CleanRow] /\ mark' \in [Nodes -> Bands]
  <2>1. DOMAIN life' = Nodes /\ DOMAIN node' = Nodes /\ DOMAIN clean' = Nodes /\ DOMAIN mark' = Nodes
    BY Zenon, <1>1
  <2> DEFINE M(n) == CASE n \in P /\ mark[n] # "strong" -> PostponeBand(n)
                       [] n \in R -> "no" [] OTHER -> mark[n]
             C(n) == CASE n \in P -> zero(PostponeBand(n)) [] n \in R -> zero("no")
                       [] OTHER -> clean[n]
  <2>2. clean' = [n \in Nodes |-> C(n)] /\ mark' = [n \in Nodes |-> M(n)]
    BY Zenon, <1>1
  <2> HIDE DEF M, C
  <2>3. \A n \in Nodes : C(n) \in CleanRow /\ M(n) \in Bands
    BY Zenon, <1>7, <2>2
  <2> QED BY Zenon, <2>1, <2>2, <2>3
<1> QED BY Zenon, <1>7, <1>8 DEF RowsInv

(* Every step of the rules keeps the invariant and is a step of            *)
(* StorageFacts, or none.                                                  *)
LEMMA TruthStep ==
  ASSUME TruthInv, [Next]_vars
  PROVE  [NextFacts]_factVars /\ EpochInv' /\ RowsInv'
<1>1. ASSUME NEW v \in Reporters, NEW rs \in ReportsOf(v), NEW observed,
             SubmitEpochReport(v, rs, observed)
      PROVE  NextFacts /\ EpochInv' /\ RowsInv'
  BY Zenon, <1>1, ReportKeepsRows
<1>2. ASSUME NEW c \in Nodes, NEW h \in Stored, NEW class \in Rechecks,
             SubmitStorageRecheckEvidence(c, h, HashOf(c, 0), class)
      PROVE  NextFacts /\ EpochInv' /\ RowsInv'
  BY Zenon, <1>2, RecheckKeepsRows
<1>3. ASSUME NEW other, EndBlocker(other)
      PROVE  NextFacts /\ EpochInv' /\ RowsInv'
  <2>1. /\ PruneOldEpochs /\ EnforceEpochEnd(other)
        /\ anchor' = Anchor(life') /\ epoch < MaxEpoch /\ epoch' = epoch + 1
    BY Zenon, <1>3 DEF EndBlocker, PruneOldEpochs
  <2>2. epoch' \in 0..MaxEpoch
    BY <2>1, FactsAssumption DEF TruthInv, EpochInv
  <2>3. EpochInv'
    BY Zenon, <2>1, <2>2, AnchorSets DEF EpochInv
  <2> QED BY Zenon, <2>1, <2>3, EpochEndKeepsRows DEF NextFacts
<1>4. ASSUME Restart
      PROVE  NextFacts /\ EpochInv' /\ RowsInv'
  <2>1. /\ RestartFromGenesis /\ epoch' = epoch
        /\ UNCHANGED <<life, anchor, node, mark, clean>>
    BY Zenon, <1>4 DEF Restart, RestartFromGenesis
  <2>2. EpochInv' /\ RowsInv'
    BY Zenon, <2>1 DEF TruthInv, EpochInv, RowsInv, Earned, RowOK, Backed, RequiredPasses
  <2> QED BY Zenon, <2>1, <2>2 DEF NextFacts
<1>5. ASSUME NEW n \in Nodes, Stop(n)
      PROVE  UNCHANGED factVars /\ EpochInv' /\ RowsInv'
  <2> DEFINE zero == [band |-> "no", passes |-> 0]
  <2>1. /\ UNCHANGED factVars /\ UNCHANGED <<anchor, node, mark>>
        /\ life' = [life EXCEPT ![n] = "Stopped"] /\ clean' = [clean EXCEPT ![n] = zero]
    BY Zenon, <1>5 DEF Stop
  <2>2. epoch' = epoch
    BY Zenon, <2>1 DEF factVars
  <2>3. EpochInv'
    BY Zenon, <2>1, <2>2 DEF TruthInv, EpochInv
  <2>4. zero \in CleanRow /\ zero.band = "no"
    BY DEF CleanRow, Bands
  <2> HIDE DEF zero
  <2>5. /\ DOMAIN life' = Nodes /\ DOMAIN node' = Nodes
        /\ clean' \in [Nodes -> CleanRow] /\ mark' \in [Nodes -> Bands]
    BY Zenon, <2>1, <2>4 DEF TruthInv, RowsInv
  <2>6. ASSUME NEW m \in Nodes PROVE Earned(m)'
    <3>1. node[m]' = node[m] /\ mark[m]' = mark[m] /\ clean[m]' \in {clean[m], zero}
      BY Zenon, <2>1 DEF TruthInv, RowsInv
    <3>2. Earned(m)
      BY Zenon DEF TruthInv, RowsInv
    <3> QED BY Zenon, <2>4, <3>1, <3>2 DEF Earned, RowOK, Backed, RequiredPasses
  <2> QED BY Zenon, <2>1, <2>3, <2>5, <2>6 DEF RowsInv
<1>6. ASSUME NEW n \in Nodes, Start(n)
      PROVE  UNCHANGED factVars /\ EpochInv' /\ RowsInv'
  <2>1. /\ UNCHANGED factVars /\ UNCHANGED <<anchor, node, mark, clean>>
        /\ life' = [life EXCEPT ![n] = "Active"] 
    BY Zenon, <1>6 DEF Start
  <2>2. epoch' = epoch
    BY Zenon, <2>1 DEF factVars
  <2>3. DOMAIN life' = Nodes
    BY Zenon, <2>1 DEF TruthInv, RowsInv
  <2> QED
    BY Zenon, <2>1, <2>2, <2>3
       DEF TruthInv, EpochInv, RowsInv, Earned, RowOK, Backed, RequiredPasses
<1>7. ASSUME UNCHANGED vars
      PROVE  UNCHANGED factVars /\ EpochInv' /\ RowsInv'
  <2>1. UNCHANGED factVars /\ UNCHANGED <<life, anchor, node, mark, clean>>
    BY Zenon, <1>7 DEF vars
  <2>2. epoch' = epoch
    BY Zenon, <2>1 DEF factVars
  <2> QED
    BY Zenon, <2>1, <2>2
       DEF TruthInv, EpochInv, RowsInv, Earned, RowOK, Backed, RequiredPasses
<1> QED BY Zenon, <1>1, <1>2, <1>3, <1>4, <1>5, <1>6, <1>7 DEF Next

-----------------------------------------------------------------------------
(* Every reachable state of the storage-truth rules has facts of the right *)
(* types with exact copies and recheck pairs, an anchor of supernodes, and *)
(* counters that back what recovery asks for.                              *)
THEOREM TruthInvariance == Spec => []TruthInv
<1>1. Init => TruthInv
  <2> SUFFICES ASSUME Init PROVE TruthInv
    OBVIOUS
  <2>1. FactsInv
    BY FactsAssumption DEF Init, InitFacts, FactsInv, TypeFacts, FactIndexesExact, Paired
  <2>2. epoch \in 0..MaxEpoch
    BY FactsAssumption DEF Init, InitFacts
  <2>3. EpochInv
    BY Zenon, <2>2, AnchorSets DEF Init, EpochInv
  <2> DEFINE zero == [band |-> "no", passes |-> 0]
  <2>4. zero \in CleanRow /\ zero.band = "no" /\ "no" \in Bands
    BY DEF CleanRow, Bands
  <2>5. RowOK(NoNode)
    BY DEF RowOK, NoNode, RowFields
  <2> HIDE DEF zero
  <2>6. /\ life = [n \in Nodes |-> "Active"] /\ node = [n \in Nodes |-> NoNode]
        /\ mark = [n \in Nodes |-> "no"] /\ clean = [n \in Nodes |-> zero]
    BY Zenon DEF Init, zero
  <2>7. RowsInv
    BY Zenon, <2>4, <2>5, <2>6 DEF RowsInv, Earned, Backed
  <2> QED BY Zenon, <2>1, <2>3, <2>7 DEF TruthInv
<1>2. TruthInv /\ [Next]_vars => TruthInv'
  BY Zenon, TruthStep, FactsInductive DEF TruthInv
<1> QED BY <1>1, <1>2, PTL DEF Spec

(* The rules of x/audit keep to what StorageFacts says of the facts: the   *)
(* assignments, scores and postponements only restrict and follow what is  *)
(* recorded, so that all that holds of SpecFacts holds of them.            *)
THEOREM FactsImplemented == Spec => SpecFacts
<1>1. Init => InitFacts
  BY Zenon DEF Init
<1>2. TruthInv /\ [Next]_vars => [NextFacts]_factVars
  BY Zenon, TruthStep
<1> QED BY <1>1, <1>2, TruthInvariance, PTL DEF Spec, SpecFacts

(* So rechecks stay witnessed, verdicts final and windows complete under   *)
(* the storage-truth rules, for all parameters.                            *)
THEOREM FactsUnderRules == Spec => []RecheckWitnessed /\ VerdictFinal /\ WindowsKept
BY FactsImplemented, RechecksCorrect, VerdictsCorrect, WindowsCorrect, PTL

(* Whatever set of the active supernodes is eligible, the assignment of    *)
(* computeStorageTruthTargetsForReporter gives no challenger itself, no    *)
(* target to two, and at most one target fewer than are to be probed.      *)
THEOREM AssignmentCorrect == Spec => []AssignmentSound
<1>1. TruthInv => AssignmentSound
  <2> SUFFICES ASSUME TruthInv, NEW active \in SUBSET anchor.active
               PROVE  LET given == Assignment(active, anchor.targets)
                          count == storageTruthChallengeTargetCount(Cardinality(active))
                      IN  /\ DOMAIN given \subseteq active /\ Range(given) \subseteq anchor.targets
                          /\ \A c, d \in DOMAIN given : given[c] # c /\ (given[c] = given[d] => c = d)
                          /\ Cardinality(active) > 1 => Cardinality(DOMAIN given) >= count - 1
    BY Zenon DEF AssignmentSound
  <2>1. /\ epoch \in 0..MaxEpoch /\ anchor.targets \subseteq Nodes /\ active \subseteq anchor.targets
    BY Zenon DEF TruthInv, EpochInv
  <2> QED BY Zenon, <2>1, AssignmentIsSound
<1> QED BY <1>1, TruthInvariance, PTL

(* A supernode postponed for suspicion becomes active again only after the *)
(* clean passes that the band of its postponement asks for, whatever marks *)
(* and counters it brought along, over epoch ends, stops and restarts.     *)
THEOREM RecoveryCorrect == Spec => RecoveryEarned
<1> DEFINE A == \A n \in Nodes :
                  life[n] = "Postponed" /\ life'[n] = "Active" /\ clean[n].band # "no" =>
                    clean[n].passes >= RequiredPasses(clean[n].band)
<1>1. TruthInv /\ [Next]_vars => [A]_vars
  <2> SUFFICES ASSUME TruthInv, Next, NEW n \in Nodes,
                      life[n] = "Postponed", life'[n] = "Active", clean[n].band # "no"
               PROVE  clean[n].passes >= RequiredPasses(clean[n].band)
    BY Zenon
  <2>0. "Postponed" # "Active" /\ "Postponed" # "Stopped" /\ "Active" # "Stopped"
    OBVIOUS
  <2>1. DOMAIN life = Nodes /\ Earned(n) /\ clean[n] \in CleanRow
    BY Zenon DEF TruthInv, RowsInv
  <2>2. \E other : EndBlocker(other)
    <3>1. life' # life
      BY Zenon, <2>0
    <3>2. ASSUME NEW m \in Nodes, Stop(m) PROVE FALSE
      BY Zenon, <2>0, <2>1, <3>2 DEF Stop
    <3>3. ASSUME NEW m \in Nodes, Start(m) PROVE FALSE
      BY Zenon, <2>0, <2>1, <3>3 DEF Start
    <3> QED
      BY Zenon, <3>1, <3>2, <3>3
         DEF Next, SubmitEpochReport, SubmitStorageRecheckEvidence, Restart
  <2>3. PICK other : EndBlocker(other)
    BY Zenon, <2>2
  <2>4. n \notin PostponedNow
    BY Zenon, <2>0 DEF PostponedNow
  <2>5. n \in RecoveredNow(other)
    BY Zenon, <2>0, <2>3, <2>4 DEF EndBlocker, EnforceEpochEnd
  <2>6. /\ mark[n] # "no" /\ RequiredPasses(mark[n]) >= RequiredPasses(clean[n].band)
        /\ node[n].found /\ node[n].passes \in Nat /\ node[n].atPostpone \in Nat
        /\ \/ clean[n].passes >= Params.strongPasses
           \/ node[n].passes - node[n].atPostpone <= clean[n].passes
    BY Zenon, <2>1 DEF Earned, RowOK, Backed
  <2>7. node[n].passes - node[n].atPostpone >= RequiredPasses(mark[n])
    BY Zenon, <2>5, <2>6 DEF RecoveredNow, shouldRecoverFromStorageTruthPostponement
  <2>8. /\ RequiredPasses(mark[n]) \in Nat /\ RequiredPasses(clean[n].band) \in Nat
        /\ Params.strongPasses >= RequiredPasses(clean[n].band)
    BY Zenon, StrongAsksMost
  <2>9. clean[n].passes \in Nat /\ Params.strongPasses \in Nat
    BY <2>1, BandsAssumption DEF CleanRow
  <2> QED BY <2>6, <2>7, <2>8, <2>9
<1> QED BY <1>1, TruthInvariance, PTL DEF Spec, RecoveryEarned
=============================================================================
