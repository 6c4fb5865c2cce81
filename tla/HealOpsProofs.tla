---------------------------- MODULE HealOpsProofs ----------------------------
(***************************************************************************)
(* Proofs about HealOps, for every set of nodes and tickets, every number  *)
(* of verifiers and every length of deadline, cooldown and retention.      *)
(***************************************************************************)
EXTENDS HealOps, FiniteSetTheorems, TLAPS

-----------------------------------------------------------------------------
(* The inductive invariant, and the proof that the work of an epoch end     *)
(* (expiry, scheduling, pruning) preserves it.                             *)

(* Identifiers from nextId on are unused, and an unused record is empty.   *)
Fresh ==
  /\ \A id \in OpIds : id >= nextId => ops[id] = NoOp
  /\ \A id \in OpIds : ops[id].status = None => ops[id] = NoOp
  /\ \A id \in OpIds : ops[id].status # None =>
       ops[id].ticket \in Tickets /\ ops[id].healer \in Nodes

(* A marker is remembered by its ticket: the cooldown it started, and a    *)
(* score or an update that keeps the ticket from being pruned before it.   *)
Remembered ==
  \A m \in failedHeals :
    /\ m[2] <= epoch
    /\ tickets[m[3]].found
    /\ tickets[m[3]].score > 0 \/ tickets[m[3]].updated >= m[2]
    /\ tickets[m[3]].probation >= m[2] + ProbationEpochs

(* A failure is marked later than its operation was scheduled, so pruning  *)
(* by the later epoch keeps the marker at least as long.                   *)
Marked ==
  /\ \A id \in OpIds : Open(id) => ops[id].scheduled < epoch
  /\ \A id \in OpIds : ops[id].status \in {"Failed", "Expired"} =>
       \E m \in failedHeals : /\ m[1] = ops[id].healer /\ m[3] = ops[id].ticket
                              /\ m[2] > ops[id].scheduled

IInv ==
  /\ TypeOK /\ Fresh /\ ActivePointerExact /\ VerifiersIndependent /\ DeadlineKept
  /\ Remembered /\ Marked
-----------------------------------------------------------------------------
(* No record is an open operation.                                         *)
LEMMA NoOpNotOpen == NoOp.status \notin OpenStatuses
BY DEF NoOp, OpenStatuses, None

(* A cooldown and the time a marker is kept have a length.                 *)
LEMMA ProbationLasts == ProbationEpochs \in Nat \ {0} /\ KeepEpochs \in Nat \ {0}
BY Zenon, ConstantsAssumption

(* The smaller of two or three numbers is one of them and below the others. *)
LEMMA MinOfTwo ==
  ASSUME NEW a \in Int, NEW b \in Int
  PROVE  Min({a, b}) \in {a, b} /\ Min({a, b}) <= a /\ Min({a, b}) <= b
<1>1. \E x \in {a, b} : \A y \in {a, b} : x =< y
  OBVIOUS
<1> QED BY <1>1 DEF Min

(* The least of three numbers is at most each of them, and is one of them. *)
LEMMA MinOfThree ==
  ASSUME NEW a \in Int, NEW b \in Int, NEW c \in Int
  PROVE  /\ Min({a, b, c}) \in {a, b, c}
         /\ Min({a, b, c}) <= a /\ Min({a, b, c}) <= b /\ Min({a, b, c}) <= c
<1>1. \E x \in {a, b, c} : \A y \in {a, b, c} : x =< y
  OBVIOUS
<1> QED BY <1>1 DEF Min

(* A position wrapped around by less than the length is another position.  *)
LEMMA OtherPosition ==
  ASSUME NEW n \in Nat \ {0}, NEW a \in 0..(n - 1), NEW i \in 1..(n - 1)
  PROVE  (a + i) % n \in 0..(n - 1) /\ (a + i) % n # a
<1> DEFINE b == a + i
<1>1. b \in Nat /\ b < 2 * n /\ b # a /\ b - n # a
  OBVIOUS
<1> HIDE DEF b
<1>2. CASE b < n
  <2>1. b % n = b
    BY <1>1, <1>2
  <2> QED BY <2>1, <1>1, <1>2 DEF b
<1>3. CASE b >= n
  <2>1. b % n = b - n
    BY <1>1, <1>3
  <2> QED BY <2>1, <1>1, <1>3 DEF b
<1> QED BY <1>1, <1>2, <1>3

(* assignStorageTruthHealParticipants among at least two accounts gives a  *)
(* healer and at least one verifier, who is another account.               *)
LEMMA TeamFacts ==
  ASSUME NEW E \in SUBSET Nodes, Cardinality(E) >= 2, NEW who \in Assignments[E]
  PROVE  /\ who.healer \in Nodes /\ who.verifiers \in SUBSET Nodes
         /\ who.verifiers # {} /\ who.healer \notin who.verifiers
<1> DEFINE n  == Cardinality(E)
           vc == Min({VerifierCount, n - 1})
<1>1. n \in Nat /\ n >= 2
  BY FS_Subset, FS_CardinalityType, ConstantsAssumption
<1>2. PICK list \in Bijection(0..(n - 1), E), idx \in 0..(n - 1) :
        who = HealParticipants(list, idx, n)
  BY DEF Assignments
<1>3. who.healer = list[idx] /\ who.verifiers = {list[(idx + i) % n] : i \in 1..vc}
  BY <1>2 DEF HealParticipants
<1> HIDE DEF n
<1>4. /\ list \in [0..(n - 1) -> E]
      /\ \A a, b \in 0..(n - 1) : list[a] = list[b] => a = b
  BY <1>2 DEF Bijection, Injection, IsInjective
<1>5. vc \in Nat /\ vc >= 1 /\ vc <= n - 1
  <2>1. VerifierCount \in Nat /\ VerifierCount >= 1 /\ n - 1 \in Nat /\ n - 1 >= 1
    BY <1>1, ConstantsAssumption
  <2>2. VerifierCount \in Int /\ n - 1 \in Int
    BY <2>1
  <2>3. vc \in {VerifierCount, n - 1} /\ vc <= n - 1
    BY <2>2, MinOfTwo, Zenon
  <2> HIDE DEF vc
  <2> QED BY <2>1, <2>3
<1> HIDE DEF vc
<1>6. \A i \in 1..vc : (idx + i) % n \in 0..(n - 1) /\ (idx + i) % n # idx
  BY <1>1, <1>2, <1>5, OtherPosition
<1>7. 1 \in 1..vc
  BY <1>5
<1>8. who.verifiers # {}
  BY Zenon, <1>3, <1>7
<1>9. who.healer \notin who.verifiers
  BY <1>2, <1>3, <1>4, <1>6
<1>10. who.healer \in Nodes
  BY <1>2, <1>3, <1>4
<1>11. \A v \in who.verifiers : v \in Nodes
  BY <1>3, <1>4, <1>6
<1> QED BY <1>8, <1>9, <1>10, <1>11
-----------------------------------------------------------------------------
(* What scheduling relies on: fresh and distinct identifiers for tickets   *)
(* that are candidates after expiry, each with a team of its own.          *)
GoodPlan(plan, team) ==
  /\ DOMAIN plan \subseteq Tickets
  /\ Cardinality(DOMAIN plan) \in Nat
  /\ nextId + Cardinality(DOMAIN plan) <= MaxOps + 1
  /\ \A t \in DOMAIN plan :
       /\ plan[t] \in OpIds /\ plan[t] >= nextId
       /\ plan[t] < nextId + Cardinality(DOMAIN plan)
       /\ Candidate(t, TicketsExpired[t])
       /\ team[t].healer \in Nodes /\ team[t].verifiers \in SUBSET Nodes
       /\ team[t].verifiers # {} /\ team[t].healer \notin team[t].verifiers
  /\ \A c, d \in DOMAIN plan : plan[c] = plan[d] => c = d

(* The scheduling step takes such plans only.                              *)
LEMMA PlanFacts ==
  ASSUME TypeOK, NEW pool \in SUBSET Nodes, NEW plan \in Plans(pool), NEW team,
         \A t \in DOMAIN plan : team[t] \in Assignments[EligibleHealers(tickets[t], pool)]
  PROVE  GoodPlan(plan, team)
<1> DEFINE all  == Schedulable(pool)
           size == Min({MaxPerEpoch, Cardinality(all), MaxOps + 1 - nextId})
           better(c, d) == TicketsExpired[c].score > TicketsExpired[d].score
<1>1. PICK S \in kSubset(size, all) :
        /\ plan \in [S -> nextId..(nextId + size - 1)]
        /\ \A c, d \in S : plan[c] = plan[d] => c = d
  BY Zenon DEF Plans
<1>2. S \subseteq all /\ Cardinality(S) = size /\ DOMAIN plan = S
  BY <1>1 DEF kSubset
<1>3. all \subseteq Tickets
  BY DEF Schedulable
<1>4. Cardinality(all) \in Nat /\ size \in Nat /\ size <= MaxOps + 1 - nextId
  <2>1. Cardinality(all) \in Nat
    BY <1>3, FS_Subset, FS_CardinalityType, ConstantsAssumption
  <2> HIDE DEF all
  <2>2. /\ MaxPerEpoch \in Nat /\ MaxOps + 1 - nextId \in Nat
        /\ MaxPerEpoch \in Int /\ MaxOps + 1 - nextId \in Int /\ Cardinality(all) \in Int
    BY <2>1, ConstantsAssumption DEF TypeOK
  <2>3. /\ size \in {MaxPerEpoch, Cardinality(all), MaxOps + 1 - nextId}
        /\ size <= MaxOps + 1 - nextId
    BY <2>2, MinOfThree, Zenon
  <2> HIDE DEF size
  <2> QED BY <2>1, <2>2, <2>3
<1>5. ASSUME NEW t \in S
      PROVE  /\ Candidate(t, TicketsExpired[t])
             /\ team[t].healer \in Nodes /\ team[t].verifiers \in SUBSET Nodes
             /\ team[t].verifiers # {} /\ team[t].healer \notin team[t].verifiers
  <2>1. /\ Candidate(t, TicketsExpired[t])
        /\ Cardinality(EligibleHealers(tickets[t], pool)) >= 2
    BY <1>2, <1>5 DEF Schedulable
  <2>2. EligibleHealers(tickets[t], pool) \in SUBSET Nodes
    BY DEF EligibleHealers
  <2>3. team[t] \in Assignments[EligibleHealers(tickets[t], pool)]
    BY <1>2
  <2> QED BY <2>1, <2>2, <2>3, TeamFacts
<1> HIDE DEF all, size
<1>6. \A t \in S : plan[t] \in OpIds /\ plan[t] >= nextId /\ plan[t] < nextId + size
  BY <1>1, <1>4, ConstantsAssumption DEF OpIds, TypeOK
<1>7. nextId + size <= MaxOps + 1
  BY <1>4, ConstantsAssumption DEF TypeOK
<1> QED BY <1>1, <1>2, <1>3, <1>4, <1>5, <1>6, <1>7 DEF GoodPlan

(* What expiry and scheduling store under every identifier.                *)
LEMMA OpMoves ==
  ASSUME TypeOK, Fresh, NEW plan, NEW team, GoodPlan(plan, team)
  PROVE  /\ \A t \in DOMAIN plan :
              /\ OpsScheduled(plan, team)[plan[t]] = NewOp(t, team[t])
              /\ ops[plan[t]] = NoOp /\ plan[t] \notin Overdue
         /\ \A id \in OpIds : (\A t \in DOMAIN plan : plan[t] # id) =>
              OpsScheduled(plan, team)[id] =
                IF id \in Overdue THEN [ops[id] EXCEPT !.status = "Expired"] ELSE ops[id]
         /\ OpsScheduled(plan, team) \in [OpIds -> HealOp]
<1>1. ASSUME NEW t \in DOMAIN plan
      PROVE  /\ OpsScheduled(plan, team)[plan[t]] = NewOp(t, team[t])
             /\ ops[plan[t]] = NoOp /\ plan[t] \notin Overdue
  <2>1. plan[t] \in OpIds /\ ops[plan[t]] = NoOp
    BY DEF GoodPlan, Fresh
  <2>2. t = CHOOSE c \in DOMAIN plan : plan[c] = plan[t]
    BY DEF GoodPlan
  <2>3. plan[t] \notin Overdue
    BY <2>1 DEF Overdue, Open, NoOp, OpenStatuses, None
  <2> QED BY Zenon, <2>1, <2>2, <2>3 DEF OpsScheduled
<1>2. ASSUME NEW id \in OpIds, \A t \in DOMAIN plan : plan[t] # id
      PROVE  OpsScheduled(plan, team)[id] =
               IF id \in Overdue THEN [ops[id] EXCEPT !.status = "Expired"] ELSE ops[id]
  BY <1>2 DEF OpsScheduled
<1>3. ASSUME NEW id \in OpIds PROVE OpsScheduled(plan, team)[id] \in HealOp
  <2>1. CASE \E t \in DOMAIN plan : plan[t] = id
    <3>1. PICK t \in DOMAIN plan : plan[t] = id
      BY <2>1
    <3>2. /\ t \in Tickets /\ team[t].healer \in Nodes /\ team[t].verifiers \in SUBSET Nodes
          /\ epoch \in Nat /\ epoch + DeadlineEpochs \in Nat
      BY ConstantsAssumption DEF GoodPlan, TypeOK
    <3>3. NewOp(t, team[t]) \in HealOp
      BY <3>2 DEF NewOp, HealOp, OpenStatuses
    <3> QED BY <3>1, <3>3, <1>1
  <2>2. CASE \A t \in DOMAIN plan : plan[t] # id
    <3>1. ops[id] \in HealOp /\ "Expired" \in FinalStatuses
      BY DEF TypeOK, FinalStatuses
    <3>2. [ops[id] EXCEPT !.status = "Expired"] \in HealOp
      BY <3>1 DEF HealOp
    <3> QED BY <3>1, <3>2, <1>2, <2>2
  <2> QED BY <2>1, <2>2
<1>4. OpsScheduled(plan, team) \in [OpIds -> HealOp]
  BY <1>3 DEF OpsScheduled
<1> QED BY <1>1, <1>2, <1>4

(* A failed or expired operation leaves a positive score and a cooldown.   *)
LEMMA AfterFailedFacts ==
  ASSUME NEW tk \in Ticket, NEW id, epoch \in Nat
  PROVE  LET ntk == AfterFailedHeal(tk, id)
         IN  /\ ntk \in Ticket
             /\ ntk.found = tk.found /\ ntk.updated = tk.updated
             /\ ntk.lastTarget = tk.lastTarget /\ ntk.evidence = tk.evidence
             /\ ntk.score > 0 /\ ntk.score \in Nat
             /\ ntk.probation >= tk.probation /\ ntk.probation >= epoch + ProbationEpochs
             /\ ntk.active = (IF tk.active = id THEN 0 ELSE tk.active)
<1> DEFINE s == Saturated(tk.score + FailedHealPenalty)
           p == IF tk.probation < epoch + ProbationEpochs THEN epoch + ProbationEpochs
                                                          ELSE tk.probation
           a == IF tk.active = id THEN 0 ELSE tk.active
<1>1. s \in 0..MaxScore /\ s > 0 /\ s \in Nat
  BY ConstantsAssumption DEF Ticket, Saturated, FailedHealPenalty
<1>2. p \in Nat /\ p >= tk.probation /\ p >= epoch + ProbationEpochs
  BY ConstantsAssumption DEF Ticket
<1>3. a \in Nat
  BY DEF Ticket
<1>4. AfterFailedHeal(tk, id) = [tk EXCEPT !.score = s, !.probation = p, !.active = a]
  BY DEF AfterFailedHeal
<1> HIDE DEF s, p, a
<1>5. /\ AfterFailedHeal(tk, id) \in Ticket
      /\ AfterFailedHeal(tk, id).score = s /\ AfterFailedHeal(tk, id).probation = p
      /\ AfterFailedHeal(tk, id).active = a
      /\ AfterFailedHeal(tk, id).found = tk.found
      /\ AfterFailedHeal(tk, id).updated = tk.updated
      /\ AfterFailedHeal(tk, id).lastTarget = tk.lastTarget
      /\ AfterFailedHeal(tk, id).evidence = tk.evidence
  BY Zenon, <1>1, <1>2, <1>3, <1>4 DEF Ticket
<1> QED BY <1>1, <1>2, <1>5 DEF a

(* The three things an epoch end does to a ticket before pruning: its      *)
(* operation expires, it gets a new one, or nothing.                       *)
LEMMA TicketMoves ==
  ASSUME TypeOK, Fresh, ActivePointerExact, NEW plan, NEW team, GoodPlan(plan, team),
         NEW t \in Tickets
  PROVE  LET ntk == TicketsScheduled(plan)[t]
         IN  /\ ntk \in Ticket
             /\ \/ /\ t \notin DOMAIN plan
                   /\ tickets[t].active \in Overdue /\ ops[tickets[t].active].ticket = t
                   /\ ntk.found /\ ntk.active = 0 /\ ntk.updated = tickets[t].updated
                   /\ ntk.score > 0 /\ ntk.probation >= tickets[t].probation
                   /\ ntk.probation >= epoch + ProbationEpochs
                \/ /\ t \in DOMAIN plan
                   /\ tickets[t].active = 0 /\ ntk.active = plan[t]
                   /\ ntk.found /\ ntk.updated = tickets[t].updated
                   /\ ntk.score > 0 /\ ntk.score = tickets[t].score
                   /\ ntk.probation = tickets[t].probation /\ ntk.probation <= epoch
                \/ /\ t \notin DOMAIN plan
                   /\ tickets[t].active \notin Overdue
                   /\ ntk = tickets[t]
<1> DEFINE tk  == TicketsExpired[t]
           ntk == TicketsScheduled(plan)[t]
           act == IF t \in DOMAIN plan THEN plan[t]
                  ELSE IF Deteriorated(tk) /\ tk.active \notin StillOpen THEN 0 ELSE tk.active
<1>1. tickets[t] \in Ticket /\ epoch \in Nat
  BY DEF TypeOK
<1>2. ntk = [tk EXCEPT !.active = act]
  BY DEF TicketsScheduled
<1>3. t \in DOMAIN plan => /\ plan[t] \in Nat /\ Candidate(t, tk)
  BY DEF GoodPlan, OpIds
<1>4. CASE \E id \in Overdue : ops[id].ticket = t
  <2>1. /\ \A id \in Overdue : ops[id].ticket = t =>
             tickets[t].active = id /\ tickets[t].found
        /\ (CHOOSE id \in Overdue : ops[id].ticket = t) \in Overdue
        /\ ops[CHOOSE id \in Overdue : ops[id].ticket = t].ticket = t
    BY <1>4 DEF Overdue, ActivePointerExact
  <2>2. tk = AfterFailedHeal(tickets[t], tickets[t].active)
    BY <1>4, <2>1 DEF TicketsExpired
  <2>3. /\ tk \in Ticket /\ tk.found /\ tk.updated = tickets[t].updated
        /\ tk.score > 0 /\ tk.probation >= tickets[t].probation
        /\ tk.probation >= epoch + ProbationEpochs /\ tk.active = 0
    BY <1>1, <2>1, <2>2, AfterFailedFacts
  <2>4. t \notin DOMAIN plan
    BY <1>1, <1>3, <2>3, ConstantsAssumption DEF Candidate, Deteriorated, Ticket
  <2>5. act = 0
    BY <2>3, <2>4
  <2> HIDE DEF tk, act, ntk
  <2>6. ntk = [tk EXCEPT !.active = 0]
    BY <1>2, <2>5
  <2>7. /\ ntk \in Ticket /\ ntk.found /\ ntk.updated = tk.updated /\ ntk.active = 0
        /\ ntk.score = tk.score /\ ntk.probation = tk.probation
    BY <2>3, <2>6 DEF Ticket
  <2> QED BY <2>1, <2>3, <2>4, <2>7 DEF ntk
<1>5. CASE ~ \E id \in Overdue : ops[id].ticket = t
  <2>1. tk = tickets[t]
    BY <1>5 DEF TicketsExpired
  <2>2. tickets[t].active # 0 => tickets[t].active \in StillOpen
    BY <1>5 DEF ActivePointerExact, StillOpen, Overdue
  <2>3. tickets[t].active \notin Overdue
    <3>1. 0 \notin Overdue
      BY DEF Overdue, OpIds
    <3> QED BY <3>1, <2>2 DEF StillOpen
  <2>4. CASE t \in DOMAIN plan
    <3>1. tickets[t].active = 0
      BY <1>3, <2>1, <2>2, <2>4 DEF Candidate
    <3>2. tk.found /\ tk.score >= HealThreshold /\ tk.probation <= epoch
      BY <1>3, <2>4 DEF Candidate, Deteriorated
    <3> HIDE DEF tk, ntk
    <3>3. ntk = [tk EXCEPT !.active = plan[t]]
      BY <1>2, <2>4
    <3>4. /\ ntk \in Ticket /\ ntk.found = tk.found /\ ntk.updated = tk.updated
          /\ ntk.active = plan[t] /\ ntk.score = tk.score /\ ntk.probation = tk.probation
      BY <1>1, <1>3, <2>1, <2>4, <3>3 DEF Ticket
    <3>5. tk.score > 0
      BY <1>1, <2>1, <3>2, ConstantsAssumption DEF Ticket
    <3> QED BY <2>1, <2>4, <3>1, <3>2, <3>4, <3>5 DEF ntk
  <2>5. CASE t \notin DOMAIN plan
    <3>1. act = tk.active
      BY <2>1, <2>2, <2>5
    <3> HIDE DEF tk, act, ntk
    <3>2. ntk = tk
      BY <1>1, <1>2, <2>1, <3>1 DEF Ticket
    <3> QED BY <1>1, <2>1, <2>3, <2>5, <3>2 DEF ntk
  <2> QED BY <2>4, <2>5
<1> QED BY <1>4, <1>5

(* What an epoch end, pruning included, leaves under an identifier.        *)
LEMMA OpAfter ==
  ASSUME TypeOK, Fresh, NEW plan, NEW team, GoodPlan(plan, team), EndEpoch(plan, team),
         NEW id \in OpIds
  PROVE  \/ /\ ops'[id] = NoOp /\ ~(id \in StillOpen)
            /\ \A t \in DOMAIN plan : plan[t] # id
         \/ \E t \in DOMAIN plan :
              plan[t] = id /\ ops'[id] = NewOp(t, team[t]) /\ ops[id] = NoOp
         \/ /\ id \in Overdue /\ ops'[id] = [ops[id] EXCEPT !.status = "Expired"]
            /\ ops[id].scheduled + KeepEpochs >= epoch
            /\ \A t \in DOMAIN plan : plan[t] # id
         \/ /\ id \notin Overdue /\ ops'[id] = ops[id]
            /\ ops[id].status \in FinalStatuses => ops[id].scheduled + KeepEpochs >= epoch
            /\ \A t \in DOMAIN plan : plan[t] # id
<1> DEFINE nop == OpsScheduled(plan, team)[id]
<1>1. ops'[id] = IF Old(nop) THEN NoOp ELSE nop
  BY DEF EndEpoch
<1>2. ops[id] \in HealOp /\ epoch \in Nat
  BY DEF TypeOK
<1>3. CASE \E t \in DOMAIN plan : plan[t] = id
  <2>1. PICK t \in DOMAIN plan : plan[t] = id
    BY <1>3
  <2>2. nop = NewOp(t, team[t]) /\ ops[id] = NoOp
    BY <2>1, OpMoves
  <2>3. ~Old(nop)
    BY <2>2 DEF Old, NewOp, FinalStatuses
  <2> QED BY <1>1, <2>1, <2>2, <2>3
<1>4. CASE \A t \in DOMAIN plan : plan[t] # id
  <2>1. nop = IF id \in Overdue THEN [ops[id] EXCEPT !.status = "Expired"] ELSE ops[id]
    BY <1>4, OpMoves
  <2>2. CASE id \in Overdue
    <3>1. nop.status = "Expired" /\ nop.scheduled = ops[id].scheduled
      BY <1>2, <2>1, <2>2 DEF HealOp
    <3>2. ~Old(nop) => ops[id].scheduled + KeepEpochs >= epoch
      BY <1>2, <3>1, ConstantsAssumption DEF Old, FinalStatuses, HealOp
    <3> QED BY <1>1, <1>4, <2>1, <2>2, <3>2 DEF StillOpen
  <2>3. CASE id \notin Overdue
    <3>1. Old(ops[id]) => ~(id \in StillOpen)
      BY DEF Old, StillOpen, Open, OpenStatuses, FinalStatuses
    <3>2. ~Old(ops[id]) /\ ops[id].status \in FinalStatuses =>
            ops[id].scheduled + KeepEpochs >= epoch
      BY <1>2, ConstantsAssumption DEF Old, HealOp
    <3> QED BY <1>1, <1>4, <2>1, <2>3, <3>1, <3>2
  <2> QED BY <2>2, <2>3
<1> QED BY <1>3, <1>4

(* A scheduled operation is stored, not pruned in the same epoch end.      *)
LEMMA NewStored ==
  ASSUME TypeOK, Fresh, NEW plan, NEW team, GoodPlan(plan, team), EndEpoch(plan, team),
         NEW t \in DOMAIN plan
  PROVE  ops'[plan[t]] = NewOp(t, team[t])
<1>1. plan[t] \in OpIds /\ OpsScheduled(plan, team)[plan[t]] = NewOp(t, team[t])
  BY OpMoves DEF GoodPlan
<1>2. ~Old(NewOp(t, team[t]))
  BY DEF Old, NewOp, FinalStatuses
<1> QED BY <1>1, <1>2 DEF EndEpoch

(* The epoch end keeps types and fresh identifiers.                        *)
LEMMA EndEpochType ==
  ASSUME IInv, NEW plan, NEW team, GoodPlan(plan, team), EndEpoch(plan, team)
  PROVE  TypeOK' /\ Fresh'
<1> USE DEF IInv
<1>1. epoch \in Nat /\ epoch' \in 0..MaxEpoch /\ epoch' = epoch + 1
  BY ConstantsAssumption DEF TypeOK, EndEpoch
<1>2. tickets' \in [Tickets -> Ticket]
  <2>1. NoTicket \in Ticket
    BY ConstantsAssumption DEF NoTicket, Ticket
  <2>2. \A t \in Tickets : TicketsScheduled(plan)[t] \in Ticket
    BY TicketMoves
  <2> QED BY <2>1, <2>2 DEF EndEpoch
<1>3. NoOp \in HealOp
  BY DEF NoOp, HealOp
<1>4. ops' \in [OpIds -> HealOp]
  BY SMTT(60), <1>3, OpMoves DEF EndEpoch
<1>5. nextId' \in 1..(MaxOps + 1) /\ nextId' = nextId + Cardinality(DOMAIN plan)
      /\ nextId' >= nextId
  BY SMTT(60), ConstantsAssumption DEF EndEpoch, GoodPlan, TypeOK
<1>6. votes' \in [OpIds -> [Nodes -> {None, "yes", "no"}]]
  <2>1. NoVote \in [Nodes -> {None, "yes", "no"}]
    BY DEF NoVote
  <2> QED BY <2>1 DEF EndEpoch, VotesPruned, TypeOK
<1>7. statusIdx' \subseteq (OpenStatuses \cup FinalStatuses) \X OpIds
  <2> DEFINE touched == Overdue \cup {plan[t] : t \in DOMAIN plan}
  <2>1. ASSUME NEW id \in touched
        PROVE  id \in OpIds /\ OpsScheduled(plan, team)[id].status \in OpenStatuses \cup FinalStatuses
    <3>1. CASE \E t \in DOMAIN plan : plan[t] = id
      <4>1. PICK t \in DOMAIN plan : plan[t] = id
        BY <3>1
      <4>2. id \in OpIds /\ OpsScheduled(plan, team)[id] = NewOp(t, team[t])
        BY <4>1, OpMoves DEF GoodPlan
      <4> QED BY <4>2 DEF NewOp, OpenStatuses
    <3>2. CASE ~ \E t \in DOMAIN plan : plan[t] = id
      <4>1. id \in Overdue /\ id \in OpIds
        BY <3>2, <2>1 DEF Overdue
      <4>2. OpsScheduled(plan, team)[id] = [ops[id] EXCEPT !.status = "Expired"]
        BY <4>1, <3>2, OpMoves
      <4> QED BY <4>1, <4>2 DEF FinalStatuses, TypeOK, HealOp
    <3> QED BY <3>1, <3>2
  <2>2. statusIdx' \subseteq StatusIdxAfter(OpsScheduled(plan, team), touched)
    BY SMTT(60) DEF EndEpoch
  <2> HIDE DEF touched
  <2> QED BY <2>1, <2>2 DEF StatusIdxAfter, TypeOK
<1>8. ticketIdx' \subseteq Tickets \X OpIds
  <2>1. ticketIdx' \subseteq ticketIdx \cup {<<t, plan[t]>> : t \in DOMAIN plan}
    BY Zenon DEF EndEpoch
  <2>2. ticketIdx \subseteq Tickets \X OpIds
    BY Zenon DEF TypeOK
  <2>3. \A t \in DOMAIN plan : t \in Tickets /\ plan[t] \in OpIds
    BY Zenon DEF GoodPlan
  <2>4. \A t \in DOMAIN plan : <<t, plan[t]>> \in Tickets \X OpIds
    BY Zenon, <2>3
  <2> QED BY Zenon, <2>1, <2>2, <2>4
<1>9. failedHeals' \subseteq Nodes \X Nat \X Tickets
  <2>1. ASSUME NEW id \in Overdue PROVE Marker(id) \in Nodes \X Nat \X Tickets
    <3>1. ops[id].status # None /\ id \in OpIds
      BY DEF Overdue, Open, OpenStatuses, None
    <3> QED BY <3>1, <1>1 DEF Marker, Fresh
  <2> QED BY <2>1 DEF EndEpoch, KeptMarkers, TypeOK
<1>10. Fresh'
  <2>1. ASSUME NEW id \in OpIds
        PROVE  /\ id >= nextId' => ops'[id] = NoOp
               /\ ops'[id].status = None => ops'[id] = NoOp
               /\ ops'[id].status # None => ops'[id].ticket \in Tickets /\ ops'[id].healer \in Nodes
    <3>1. ops[id] \in HealOp /\ id \in Int /\ nextId \in Int /\ nextId' \in Int
      BY <1>5 DEF TypeOK, OpIds
    <3>2. CASE ops'[id] = NoOp
      BY <3>2 DEF NoOp
    <3>3. CASE \E t \in DOMAIN plan : plan[t] = id /\ ops'[id] = NewOp(t, team[t])
      <4>1. PICK t \in DOMAIN plan : plan[t] = id /\ ops'[id] = NewOp(t, team[t])
        BY <3>3
      <4>2. t \in Tickets /\ team[t].healer \in Nodes /\ id < nextId'
        BY <4>1, <1>5 DEF GoodPlan
      <4>3. /\ ops'[id].status = "Scheduled" /\ ops'[id].ticket = t
            /\ ops'[id].healer = team[t].healer
        BY <4>1 DEF NewOp
      <4> QED BY <4>2, <4>3, <3>1 DEF None
    <3>4. CASE id \in Overdue /\ ops'[id] = [ops[id] EXCEPT !.status = "Expired"]
      <4>1. ops[id].status \in OpenStatuses
        BY <3>4 DEF Overdue, Open
      <4>2. ops[id].status # None /\ ops[id] # NoOp
        BY <4>1 DEF OpenStatuses, None, NoOp
      <4>3. ops'[id].status = "Expired" /\ ops'[id].ticket = ops[id].ticket
            /\ ops'[id].healer = ops[id].healer
        BY <3>1, <3>4 DEF HealOp
      <4> QED BY <4>2, <4>3, <3>1, <1>5 DEF Fresh, None
    <3>5. CASE ops'[id] = ops[id]
      BY <3>5, <3>1, <1>5 DEF Fresh
    <3> QED BY <3>2, <3>3, <3>4, <3>5, OpAfter
  <2> QED BY <2>1 DEF Fresh
<1> QED BY <1>1, <1>2, <1>4, <1>5, <1>6, <1>7, <1>8, <1>9, <1>10 DEF TypeOK

(* The epoch end keeps pointers exact, through expiry, scheduling, pruning. *)
LEMMA EndEpochPointer ==
  ASSUME IInv, NEW plan, NEW team, GoodPlan(plan, team), EndEpoch(plan, team)
  PROVE  ActivePointerExact'
<1> USE DEF IInv
<1>1. \A t \in Tickets :
        tickets'[t] = IF Inert(TicketsScheduled(plan)[t]) THEN NoTicket ELSE TicketsScheduled(plan)[t]
  BY DEF EndEpoch
<1>2. ASSUME NEW id \in OpIds, ops'[id].status \in OpenStatuses
      PROVE  /\ ops'[id].ticket \in Tickets /\ tickets'[ops'[id].ticket].found
             /\ tickets'[ops'[id].ticket].active = id
  <2>1. id # 0
    BY DEF OpIds
  <2>2. CASE \E t \in DOMAIN plan : plan[t] = id /\ ops'[id] = NewOp(t, team[t])
    <3>1. PICK t \in DOMAIN plan : plan[t] = id /\ ops'[id] = NewOp(t, team[t])
      BY <2>2
    <3>2. t \in Tickets /\ ops'[id].ticket = t
      BY SMTT(60), <3>1 DEF GoodPlan, NewOp
    <3>3. TicketsScheduled(plan)[t].active = id /\ TicketsScheduled(plan)[t].found
      BY SMTT(60), <3>1, <3>2, TicketMoves
    <3> QED BY <1>1, <2>1, <3>2, <3>3 DEF Inert
  <2>3. CASE id \notin Overdue /\ ops'[id] = ops[id]
    <3> DEFINE t == ops[id].ticket
    <3>1. /\ Open(id) /\ t \in Tickets /\ tickets[t].found /\ tickets[t].active = id
      BY <1>2, <2>3 DEF Open, ActivePointerExact, Fresh, OpenStatuses, None
    <3> HIDE DEF t
    <3>2. TicketsScheduled(plan)[t] = tickets[t]
      BY SMTT(60), <2>1, <2>3, <3>1, TicketMoves
    <3> QED BY <1>1, <2>1, <2>3, <3>1, <3>2 DEF Inert, t
  <2>4. ops'[id] # NoOp
    BY Zenon, <1>2, NoOpNotOpen
  <2>5. ~(id \in Overdue /\ ops'[id] = [ops[id] EXCEPT !.status = "Expired"])
    BY <1>2 DEF OpenStatuses, TypeOK, HealOp
  <2> QED BY <2>2, <2>3, <2>4, <2>5, OpAfter
<1>3. ASSUME NEW t \in Tickets, tickets'[t].active # 0
      PROVE  /\ tickets'[t].active \in OpIds
             /\ ops'[tickets'[t].active].status \in OpenStatuses
             /\ ops'[tickets'[t].active].ticket = t
  <2> DEFINE a == TicketsScheduled(plan)[t].active
  <2>1. tickets'[t] = TicketsScheduled(plan)[t] /\ a # 0 /\ tickets'[t].active = a
    BY <1>1, <1>3 DEF NoTicket
  <2>2. CASE t \in DOMAIN plan
    <3>1. a = plan[t] /\ a \in OpIds
      BY Zenon, <2>2, TicketMoves DEF GoodPlan
    <3>2. ops[a] = NoOp
      BY <2>2, <3>1, OpMoves
    <3>3. ops'[plan[t]] = NewOp(t, team[t])
      BY <2>2, NewStored
    <3> QED BY SMTT(60), <2>1, <3>1, <3>3 DEF NewOp, OpenStatuses
  <2>3. CASE t \notin DOMAIN plan
    <3>1. a = tickets[t].active /\ a \notin Overdue
      BY <2>1, <2>3, TicketMoves
    <3>2. a \in OpIds /\ Open(a) /\ ops[a].ticket = t
      BY <2>1, <3>1 DEF ActivePointerExact
    <3>3. a \in StillOpen
      BY <3>1, <3>2 DEF StillOpen
    <3>4. ops[a] # NoOp
      BY <3>2 DEF NoOp, Open, OpenStatuses, None
    <3>5. PICK id \in OpIds : id = a
      BY <3>2
    <3>6. ops'[id] = ops[id]
      BY Zenon, <3>1, <3>3, <3>4, <3>5, OpAfter
    <3> QED BY <2>1, <3>2, <3>5, <3>6 DEF Open
  <2> QED BY <2>2, <2>3
<1> QED BY <1>2, <1>3 DEF ActivePointerExact, Open

(* The epoch end keeps teams, deadlines, cooldowns and markers.            *)
LEMMA EndEpochRest ==
  ASSUME IInv, NEW plan, NEW team, GoodPlan(plan, team), EndEpoch(plan, team)
  PROVE  VerifiersIndependent' /\ DeadlineKept' /\ Remembered' /\ Marked'
<1> USE DEF IInv
<1>1. epoch \in Nat /\ epoch' = epoch + 1
  BY DEF TypeOK, EndEpoch
<1>2. ASSUME NEW id \in OpIds
      PROVE  /\ ops'[id].status # None =>
                  ops'[id].healer \notin ops'[id].verifiers /\ ops'[id].verifiers # {}
             /\ ops'[id].status \in OpenStatuses =>
                  epoch' <= ops'[id].deadline /\ ops'[id].scheduled < epoch'
  <2>1. ops[id] \in HealOp
    BY SMTT(60) DEF TypeOK
  <2>2. CASE ops'[id] = NoOp
    <3> HIDE DEF IInv
    <3> QED BY <2>2 DEF NoOp, OpenStatuses, None
  <2>3. CASE \E t \in DOMAIN plan : plan[t] = id /\ ops'[id] = NewOp(t, team[t])
    <3>1. PICK t \in DOMAIN plan : plan[t] = id /\ ops'[id] = NewOp(t, team[t])
      BY <2>3
    <3>2. /\ ops'[id].healer = team[t].healer /\ ops'[id].verifiers = team[t].verifiers
          /\ ops'[id].scheduled = epoch /\ ops'[id].deadline = epoch + DeadlineEpochs
      BY <3>1 DEF NewOp
    <3>3. team[t].verifiers # {} /\ team[t].healer \notin team[t].verifiers
      BY Zenon, <3>1 DEF GoodPlan
    <3>4. DeadlineEpochs \in Nat \ {0}
      BY Zenon, ConstantsAssumption
    <3> HIDE DEF IInv
    <3> QED BY <1>1, <3>2, <3>3, <3>4
  <2>4. CASE id \in Overdue /\ ops'[id] = [ops[id] EXCEPT !.status = "Expired"]
    <3>1. /\ ops'[id].status = "Expired" /\ ops'[id].healer = ops[id].healer
          /\ ops'[id].verifiers = ops[id].verifiers
      BY <2>1, <2>4 DEF HealOp
    <3>2. ops[id].status # None
      BY <2>4 DEF Overdue, Open, OpenStatuses, None
    <3> QED BY <3>1, <3>2 DEF VerifiersIndependent, OpenStatuses
  <2>5. CASE id \notin Overdue /\ ops'[id] = ops[id]
    <3>1. ops[id].status \in OpenStatuses =>
            ops[id].deadline > epoch /\ ops[id].scheduled < epoch
      BY SMTT(60), <1>1, <2>1, <2>5 DEF Overdue, Open, Marked, HealOp
    <3> QED BY SMTT(60), <1>1, <2>1, <2>5, <3>1 DEF VerifiersIndependent, HealOp
  <2> QED BY <2>2, <2>3, <2>4, <2>5, OpAfter
<1> DEFINE fails == {Marker(id) : id \in {i \in Overdue : tickets[ops[i].ticket].found}}
<1>3. failedHeals' = KeptMarkers(failedHeals \cup fails)
  BY Zenon DEF EndEpoch
<1>4. ASSUME NEW id \in Overdue PROVE Marker(id) \in fails
  BY DEF Overdue, ActivePointerExact
<1>5. ASSUME NEW m \in failedHeals'
      PROVE  /\ m[2] <= epoch'
             /\ tickets'[m[3]].found
             /\ tickets'[m[3]].score > 0 \/ tickets'[m[3]].updated >= m[2]
             /\ tickets'[m[3]].probation >= m[2] + ProbationEpochs
  <2> DEFINE t == m[3]
             ntk == TicketsScheduled(plan)[t]
  <2>1. m[2] + KeepEpochs >= epoch + 1 /\ m \in failedHeals \cup fails
    BY <1>3 DEF KeptMarkers
  <2>2. /\ t \in Tickets /\ m[2] \in Nat /\ m[2] <= epoch
        /\ ntk \in Ticket /\ ntk.found
        /\ ntk.score > 0 \/ ntk.updated >= m[2]
        /\ ntk.probation >= m[2] + ProbationEpochs
    <3>1. CASE m \in failedHeals
      <4>1. /\ t \in Tickets /\ m[2] \in Nat /\ m[2] <= epoch /\ tickets[t].found
            /\ tickets[t].score > 0 \/ tickets[t].updated >= m[2]
            /\ tickets[t].probation >= m[2] + ProbationEpochs
            /\ tickets[t] \in Ticket
        BY <3>1 DEF Remembered, TypeOK
      <4> HIDE DEF t
      <4>2. ntk \in Ticket
        BY SMTT(60), <4>1, TicketMoves
      <4>3. /\ ntk.found /\ (ntk.score > 0 \/ ntk = tickets[t])
            /\ ntk.probation >= tickets[t].probation
        BY <4>1, <4>2, TicketMoves DEF Ticket
      <4> HIDE DEF ntk
      <4> QED BY <4>1, <4>2, <4>3, ConstantsAssumption DEF Ticket
    <3>2. CASE m \in fails
      <4>1. PICK id \in Overdue : m = Marker(id)
        BY <3>2
      <4>2. id \in OpIds /\ Open(id) /\ ops[id].status # None
        BY DEF Overdue, Open, OpenStatuses, None
      <4>3. t = ops[id].ticket /\ m[2] = epoch /\ t \in Tickets /\ tickets[t].active = id
        BY <4>1, <4>2 DEF Marker, Fresh, ActivePointerExact
      <4>4. id # 0
        BY <4>2 DEF OpIds
      <4> HIDE DEF t
      <4>5. /\ ntk \in Ticket /\ ntk.found /\ ntk.score > 0
            /\ ntk.probation >= epoch + ProbationEpochs
        BY SMTT(60), <4>1, <4>3, <4>4, TicketMoves
      <4> QED BY <1>1, <4>3, <4>5
    <3> QED BY <2>1, <3>1, <3>2
  <2> HIDE DEF ntk
  <2>3. ~Inert(ntk)
    <3> HIDE DEF IInv
    <3> QED BY <1>1, <2>1, <2>2, ProbationLasts DEF Inert, Ticket
  <2>4. tickets'[t] = ntk
    BY <2>2, <2>3, Zenon DEF EndEpoch, ntk
  <2> QED BY <1>1, <2>2, <2>4
<1>6. ASSUME NEW id \in OpIds, ops'[id].status \in {"Failed", "Expired"}
      PROVE  \E m \in failedHeals' : /\ m[1] = ops'[id].healer /\ m[3] = ops'[id].ticket
                                     /\ m[2] > ops'[id].scheduled
  <2>1. ops[id] \in HealOp
    BY DEF TypeOK
  <2>2. CASE id \in Overdue /\ ops'[id] = [ops[id] EXCEPT !.status = "Expired"]
             /\ ops[id].scheduled + KeepEpochs >= epoch
    <3>1. /\ ops'[id].healer = ops[id].healer /\ ops'[id].ticket = ops[id].ticket
          /\ ops'[id].scheduled = ops[id].scheduled
      BY <2>1, <2>2 DEF HealOp
    <3>2. ops[id].scheduled < epoch
      BY <2>2 DEF Marked, Overdue
    <3>3. Marker(id)[2] = epoch /\ Marker(id)[1] = ops[id].healer /\ Marker(id)[3] = ops[id].ticket
      BY DEF Marker
    <3>4. epoch + KeepEpochs >= epoch + 1
      BY <1>1, ConstantsAssumption
    <3>5. Marker(id) \in failedHeals'
      BY <1>3, <1>4, <2>2, <3>3, <3>4 DEF KeptMarkers
    <3> QED BY <3>1, <3>2, <3>3, <3>5
  <2>3. CASE ops'[id] = ops[id]
             /\ (ops[id].status \in FinalStatuses => ops[id].scheduled + KeepEpochs >= epoch)
    <3>1. PICK m \in failedHeals : /\ m[1] = ops[id].healer /\ m[3] = ops[id].ticket
                                   /\ m[2] > ops[id].scheduled
      BY <1>6, <2>3 DEF Marked
    <3>2. m[2] \in Nat
      BY DEF TypeOK
    <3>3. m[2] + KeepEpochs >= epoch + 1
      BY <1>1, <1>6, <2>1, <2>3, <3>1, <3>2, ConstantsAssumption DEF HealOp, FinalStatuses
    <3>4. m \in failedHeals'
      BY <1>3, <3>3 DEF KeptMarkers
    <3> QED BY <2>3, <3>1, <3>4
  <2>4. ops'[id] # NoOp /\ \A t \in DOMAIN plan : ops'[id] # NewOp(t, team[t])
    <3>1. NoOp.status = "none" /\ \A t \in DOMAIN plan : NewOp(t, team[t]).status = "Scheduled"
      BY DEF NoOp, NewOp, None
    <3> QED BY <1>6, <3>1
  <2> QED BY SMTT(60), <2>2, <2>3, <2>4, OpAfter
<1> QED BY SMTT(60), <1>2, <1>5, <1>6 DEF VerifiersIndependent, DeadlineKept, Remembered, Marked, Open

-----------------------------------------------------------------------------

(* A status change rewrites one record and leaves its assignment alone.    *)
LEMMA SetStatusFacts ==
  ASSUME TypeOK, NEW id \in OpIds, NEW status \in OpenStatuses \cup FinalStatuses,
         NEW hash \in Hashes, SetStatus(id, status, hash)
  PROVE  /\ ops' \in [OpIds -> HealOp]
         /\ ops'[id].status = status /\ ops'[id].ticket = ops[id].ticket
         /\ ops'[id].healer = ops[id].healer /\ ops'[id].verifiers = ops[id].verifiers
         /\ ops'[id].scheduled = ops[id].scheduled /\ ops'[id].deadline = ops[id].deadline
         /\ \A i \in OpIds : i # id => ops'[i] = ops[i]
         /\ statusIdx' = {e \in statusIdx : e[2] # id} \cup {<<status, id>>}
         /\ ticketIdx' = ticketIdx
<1> DEFINE rec == [ops[id] EXCEPT !.status = status, !.hash = hash]
<1>1. ops[id] \in HealOp
  BY DEF TypeOK
<1>2. /\ rec \in HealOp /\ rec.status = status /\ rec.ticket = ops[id].ticket
      /\ rec.healer = ops[id].healer /\ rec.verifiers = ops[id].verifiers
      /\ rec.scheduled = ops[id].scheduled /\ rec.deadline = ops[id].deadline
  BY Zenon, <1>1 DEF HealOp
<1>3. ops' = [i \in OpIds |-> IF i = id THEN rec ELSE ops[i]]
  BY Zenon DEF SetStatus, Stored
<1>4. statusIdx' = {e \in statusIdx : e[2] # id} \cup {<<rec.status, id>>} /\ ticketIdx' = ticketIdx
  BY DEF SetStatus, StatusIdxAfter
<1> HIDE DEF rec
<1> QED BY <1>2, <1>3, <1>4 DEF TypeOK

(* A result on a ticket keeps the invariant: it changes neither pointer    *)
(* nor cooldown.                                                           *)
LEMMA ReportIInv ==
  ASSUME IInv, NEW t \in Tickets, NEW n \in Nodes, NEW s \in ReportScores,
         NEW evidence \in BOOLEAN, ReportResult(t, n, s, evidence)
  PROVE  IInv'
<1> USE DEF IInv
<1> DEFINE ntk == [tickets[t] EXCEPT !.found = TRUE, !.score = s, !.lastTarget = n,
                                     !.updated = epoch, !.evidence = evidence]
<1>1. UNCHANGED <<epoch, ops, nextId, votes, statusIdx, ticketIdx, failedHeals>>
  BY DEF ReportResult
<1>2. tickets[t] \in Ticket /\ epoch \in Nat /\ s \in 0..MaxScore
  BY ConstantsAssumption DEF TypeOK, Ticket
<1>3. tickets' = [tickets EXCEPT ![t] = ntk]
  BY DEF ReportResult
<1>4. /\ ntk \in Ticket /\ ntk.found /\ ntk.updated = epoch
      /\ ntk.probation = tickets[t].probation /\ ntk.active = tickets[t].active
  BY Zenon, <1>2 DEF Ticket
<1> HIDE DEF ntk
<1>5. /\ tickets' \in [Tickets -> Ticket] /\ tickets'[t] = ntk
      /\ \A c \in Tickets : c # t => tickets'[c] = tickets[c]
  BY <1>3, <1>4 DEF TypeOK
<1>6. TypeOK' /\ Fresh' /\ VerifiersIndependent' /\ DeadlineKept' /\ Marked'
  BY <1>1, <1>5 DEF TypeOK, Fresh, VerifiersIndependent, DeadlineKept, Marked, Open
<1>7. ActivePointerExact'
  <2>1. \A c \in Tickets : /\ tickets'[c].active = tickets[c].active
                           /\ tickets[c].found => tickets'[c].found
    BY <1>4, <1>5
  <2>2. \A id \in OpIds : Open(id) => ops[id].ticket \in Tickets
    BY DEF Open, OpenStatuses, Fresh, None
  <2> QED BY <1>1, <2>1, <2>2 DEF ActivePointerExact, Open
<1>8. Remembered'
  <2>1. ASSUME NEW m \in failedHeals
        PROVE  /\ tickets'[m[3]].found
               /\ tickets'[m[3]].score > 0 \/ tickets'[m[3]].updated >= m[2]
               /\ tickets'[m[3]].probation >= m[2] + ProbationEpochs
    <3>1. m[3] \in Tickets /\ m[2] \in Nat /\ m[2] <= epoch
      BY DEF TypeOK, Remembered
    <3>2. CASE m[3] = t
      BY <1>2, <1>4, <1>5, <3>1, <3>2 DEF Remembered
    <3>3. CASE m[3] # t
      BY <1>5, <3>1, <3>3 DEF Remembered
    <3> QED BY <3>2, <3>3
  <2> QED BY <1>1, <2>1 DEF Remembered
<1> QED BY <1>6, <1>7, <1>8

(* The healer's claim keeps the invariant.                                 *)
LEMMA ClaimIInv ==
  ASSUME IInv, NEW id \in OpIds, NEW n \in Nodes, NEW hash \in Hashes,
         ClaimHealComplete(id, n, hash)
  PROVE  IInv'
<1> USE DEF IInv
<1>1. UNCHANGED <<epoch, tickets, nextId, votes, failedHeals>> /\ ops[id].status = "Scheduled"
  BY DEF ClaimHealComplete, Claimable
<1>2. /\ ops' \in [OpIds -> HealOp]
      /\ ops'[id].status = "HealerReported" /\ ops'[id].ticket = ops[id].ticket
      /\ ops'[id].healer = ops[id].healer /\ ops'[id].verifiers = ops[id].verifiers
      /\ ops'[id].scheduled = ops[id].scheduled /\ ops'[id].deadline = ops[id].deadline
      /\ \A i \in OpIds : i # id => ops'[i] = ops[i]
      /\ statusIdx' = {e \in statusIdx : e[2] # id} \cup {<<"HealerReported", id>>}
      /\ ticketIdx' = ticketIdx
  <2>1. SetStatus(id, "HealerReported", hash) /\ "HealerReported" \in OpenStatuses \cup FinalStatuses
    BY DEF ClaimHealComplete, OpenStatuses
  <2> QED BY <2>1, SetStatusFacts
<1>3. Open(id) /\ Open(id)'
  BY <1>1, <1>2 DEF Open, OpenStatuses
<1>4. \A i \in OpIds : (Open(i)' <=> Open(i)) /\ ops'[i].ticket = ops[i].ticket
        /\ (ops'[i].status # None <=> ops[i].status # None)
        /\ (ops'[i].status \in {"Failed", "Expired"} <=> ops[i].status \in {"Failed", "Expired"})
        /\ ops'[i].healer = ops[i].healer /\ ops'[i].verifiers = ops[i].verifiers
        /\ ops'[i].scheduled = ops[i].scheduled /\ ops'[i].deadline = ops[i].deadline
  BY <1>1, <1>2, <1>3 DEF Open, None
<1>5. TypeOK'
  BY <1>1, <1>2 DEF TypeOK, OpenStatuses
<1>6. Fresh'
  <2>1. ops[id] # NoOp /\ ops'[id].status # None
    BY <1>1, <1>2 DEF NoOp, None
  <2> QED BY Zenon, <1>1, <1>2, <1>4, <2>1 DEF Fresh
<1>7. ActivePointerExact'
  <2>1. ActivePointerExact /\ tickets' = tickets
    BY Zenon, <1>1
  <2>2. \A i \in OpIds : (Open(i)' <=> Open(i)) /\ ops'[i].ticket = ops[i].ticket
    BY Zenon, <1>4
  <2> HIDE DEF IInv
  <2> QED BY ZenonT(60), <2>1, <2>2 DEF ActivePointerExact
<1>8. VerifiersIndependent' /\ DeadlineKept'
  <2>1. VerifiersIndependent /\ DeadlineKept /\ epoch' = epoch
    BY Zenon, <1>1
  <2> HIDE DEF IInv
  <2> QED BY ZenonT(60), <1>4, <2>1 DEF VerifiersIndependent, DeadlineKept
<1>9. Marked' /\ Remembered'
  <2>1. Marked /\ Remembered /\ UNCHANGED <<epoch, tickets, failedHeals>>
    BY Zenon, <1>1
  <2> HIDE DEF IInv
  <2>2. Remembered'
    BY Zenon, <2>1 DEF Remembered
  <2>3. Marked'
    BY ZenonT(60), <1>4, <2>1 DEF Marked
  <2> QED BY Zenon, <2>2, <2>3
<1> QED BY Zenon, <1>5, <1>6, <1>7, <1>8, <1>9

(* A verified heal leaves a positive score and the cooldown of probation.  *)
LEMMA AfterVerifiedFacts ==
  ASSUME NEW tk \in Ticket, NEW id, epoch \in Nat
  PROVE  LET ntk == AfterVerifiedHeal(tk, id)
         IN  /\ ntk \in Ticket
             /\ ntk.found = tk.found /\ ntk.score > 0
             /\ ntk.probation >= epoch + ProbationEpochs
             /\ ntk.active = (IF tk.active = id THEN 0 ELSE tk.active)
<1> DEFINE q == tk.score \div 4
           s == IF q < VerifiedFloor THEN VerifiedFloor ELSE q
           p == epoch + ProbationEpochs
           a == IF tk.active = id THEN 0 ELSE tk.active
<1>1. s \in 0..MaxScore /\ s > 0
  <2>1. tk.score \in Nat /\ tk.score <= MaxScore
    BY DEF Ticket
  <2>2. q \in Nat /\ q <= tk.score
    BY <2>1
  <2> HIDE DEF q
  <2> QED BY <2>1, <2>2, ConstantsAssumption DEF VerifiedFloor, FailedHealPenalty
<1>2. p \in Nat /\ a \in Nat
  BY ConstantsAssumption DEF Ticket
<1>3. AfterVerifiedHeal(tk, id) = [tk EXCEPT !.score = s, !.probation = p, !.evidence = FALSE,
                                             !.active = a]
  BY DEF AfterVerifiedHeal
<1> HIDE DEF s, p, a
<1>4. /\ AfterVerifiedHeal(tk, id) \in Ticket
      /\ AfterVerifiedHeal(tk, id).score = s /\ AfterVerifiedHeal(tk, id).probation = p
      /\ AfterVerifiedHeal(tk, id).active = a
      /\ AfterVerifiedHeal(tk, id).found = tk.found
  BY Zenon, <1>1, <1>2, <1>3 DEF Ticket
<1>5. p >= epoch + ProbationEpochs
  BY <1>2 DEF p
<1> QED BY Zenon, <1>1, <1>4, <1>5 DEF a

(* Closing by a majority keeps the invariant: the pointer is cleared, and  *)
(* either outcome starts a cooldown no older marker outlasts.              *)
LEMMA FinalizeIInv ==
  ASSUME IInv, NEW id \in OpIds, NEW verified \in BOOLEAN, NEW hash \in Hashes,
         ops[id].status = "HealerReported", finalizeHealOp(id, verified, hash),
         votes' \in [OpIds -> [Nodes -> {None, "yes", "no"}]], UNCHANGED <<epoch, nextId>>
  PROVE  IInv'
<1> USE DEF IInv
<1> DEFINE t      == ops[id].ticket
           status == IF verified THEN "Verified" ELSE "Failed"
           ntk    == IF verified THEN AfterVerifiedHeal(tickets[t], id)
                                 ELSE AfterFailedHeal(tickets[t], id)
<1>1. Open(id) /\ t \in Tickets /\ tickets[t].found /\ tickets[t].active = id
  BY DEF Open, OpenStatuses, None, Fresh, ActivePointerExact
<1>2. status \in {"Verified", "Failed"} /\ status \in OpenStatuses \cup FinalStatuses
  BY DEF FinalStatuses
<1>3. /\ ops' \in [OpIds -> HealOp]
      /\ ops'[id].status = status /\ ops'[id].ticket = ops[id].ticket
      /\ ops'[id].healer = ops[id].healer /\ ops'[id].verifiers = ops[id].verifiers
      /\ ops'[id].scheduled = ops[id].scheduled /\ ops'[id].deadline = ops[id].deadline
      /\ \A i \in OpIds : i # id => ops'[i] = ops[i]
      /\ statusIdx' = {e \in statusIdx : e[2] # id} \cup {<<status, id>>}
      /\ ticketIdx' = ticketIdx
  <2>1. SetStatus(id, status, hash)
    BY DEF finalizeHealOp
  <2> QED BY Zenon, <1>2, <2>1, SetStatusFacts
<1>4. tickets[t] \in Ticket /\ epoch \in Nat
  BY <1>1 DEF TypeOK
<1>5. /\ ntk \in Ticket /\ ntk.found /\ ntk.score > 0 /\ ntk.active = 0
      /\ ntk.probation >= epoch + ProbationEpochs
  <2>1. CASE verified
    <3> DEFINE n == AfterVerifiedHeal(tickets[t], id)
    <3>1. /\ n \in Ticket /\ n.found = tickets[t].found /\ n.score > 0
          /\ n.probation >= epoch + ProbationEpochs
          /\ n.active = (IF tickets[t].active = id THEN 0 ELSE tickets[t].active)
      BY ZenonT(60), <1>4, AfterVerifiedFacts
    <3>2. ntk = n
      BY Zenon, <2>1
    <3> HIDE DEF n, ntk, IInv
    <3> QED BY Zenon, <1>1, <3>1, <3>2
  <2>2. CASE ~verified
    <3> DEFINE n == AfterFailedHeal(tickets[t], id)
    <3>1. /\ n \in Ticket /\ n.found = tickets[t].found /\ n.score > 0
          /\ n.probation >= epoch + ProbationEpochs
          /\ n.active = (IF tickets[t].active = id THEN 0 ELSE tickets[t].active)
      BY ZenonT(60), <1>4, AfterFailedFacts
    <3>2. ntk = n
      BY Zenon, <2>2
    <3> HIDE DEF n, ntk, IInv
    <3> QED BY Zenon, <1>1, <3>1, <3>2
  <2> QED BY Zenon, <2>1, <2>2
<1>6. tickets' = [tickets EXCEPT ![t] = ntk]
  BY <1>1 DEF finalizeHealOp
<1>7. failedHeals' = failedHeals \cup (IF verified THEN {} ELSE {Marker(id)})
  BY <1>1 DEF finalizeHealOp
<1> HIDE DEF ntk, t
<1>8. /\ tickets' \in [Tickets -> Ticket] /\ tickets'[t] = ntk
      /\ \A c \in Tickets : c # t => tickets'[c] = tickets[c]
  BY <1>1, <1>5, <1>6 DEF TypeOK
<1>9. Marker(id) \in Nodes \X Nat \X Tickets /\ Marker(id) = <<ops[id].healer, epoch, t>>
  BY <1>1, <1>4 DEF Marker, Fresh, Open, OpenStatuses, None, t
<1>10. TypeOK'
  <2>1. failedHeals' \subseteq Nodes \X Nat \X Tickets
    BY Zenon, <1>7, <1>9 DEF TypeOK
  <2>2. statusIdx' \subseteq (OpenStatuses \cup FinalStatuses) \X OpIds
    <3>1. <<status, id>> \in (OpenStatuses \cup FinalStatuses) \X OpIds
      BY Zenon, <1>2
    <3> QED BY Zenon, <1>3, <3>1 DEF TypeOK
  <2> QED BY Zenon, <1>3, <1>8, <2>1, <2>2 DEF TypeOK
<1>11. Fresh' /\ VerifiersIndependent'
  <2>1. ops[id] # NoOp /\ ops[id].status # None /\ ops'[id].status # None
    BY <1>2, <1>3 DEF NoOp, None
  <2> QED BY <1>3, <2>1 DEF Fresh, VerifiersIndependent
<1>12. \A i \in OpIds : Open(i)' <=> (Open(i) /\ i # id)
  BY <1>2, <1>3 DEF Open, OpenStatuses
<1>13. ActivePointerExact'
  <2>1. ASSUME NEW i \in OpIds, Open(i)'
        PROVE  tickets'[ops'[i].ticket].found /\ tickets'[ops'[i].ticket].active = i
    <3>1. i # id /\ Open(i) /\ ops'[i] = ops[i]
      BY Zenon, <1>3, <1>12, <2>1
    <3>2. ops[i].ticket \in Tickets /\ ops[i].ticket # t
      BY <1>1, <3>1 DEF ActivePointerExact, Fresh, Open, OpenStatuses, None
    <3>3. tickets[ops[i].ticket].found /\ tickets[ops[i].ticket].active = i
      BY Zenon, <3>1 DEF ActivePointerExact
    <3>4. tickets'[ops[i].ticket] = tickets[ops[i].ticket]
      BY Zenon, <1>8, <3>2
    <3> HIDE DEF IInv
    <3> QED BY Zenon, <3>1, <3>3, <3>4
  <2>2. ASSUME NEW c \in Tickets, tickets'[c].active # 0
        PROVE  /\ tickets'[c].active \in OpIds
               /\ ops'[tickets'[c].active].status \in OpenStatuses
               /\ ops'[tickets'[c].active].ticket = c
    <3>1. c # t /\ tickets'[c] = tickets[c]
      BY <1>5, <1>8, <2>2
    <3>2. /\ tickets[c].active \in OpIds /\ Open(tickets[c].active)
          /\ ops[tickets[c].active].ticket = c
      BY <2>2, <3>1 DEF ActivePointerExact
    <3>3. tickets[c].active # id
      BY <1>1, <3>1, <3>2 DEF t
    <3> QED BY Zenon, <1>3, <3>1, <3>2, <3>3 DEF Open
  <2> QED BY Zenon, <2>1, <2>2 DEF ActivePointerExact, Open
<1>14. DeadlineKept'
  BY Zenon, <1>3, <1>12 DEF DeadlineKept
<1>15. Remembered'
  <2>1. ASSUME NEW m \in failedHeals'
        PROVE  /\ m[2] <= epoch'
               /\ tickets'[m[3]].found
               /\ tickets'[m[3]].score > 0 \/ tickets'[m[3]].updated >= m[2]
               /\ tickets'[m[3]].probation >= m[2] + ProbationEpochs
    <3>1. m[3] \in Tickets /\ m[2] \in Nat /\ m[2] <= epoch
      BY <1>4, <1>7, <1>9 DEF Remembered, TypeOK
    <3>2. CASE m[3] = t
      BY <1>4, <1>5, <1>8, <3>1, <3>2, ConstantsAssumption DEF Ticket
    <3>3. CASE m[3] # t
      <4>1. m \in failedHeals
        <5> HIDE DEF IInv
        <5>1. Marker(id)[3] = t
          BY <1>9
        <5> QED BY Zenon, <1>7, <3>3, <5>1
      <4> QED BY Zenon, <1>8, <3>1, <3>3, <4>1 DEF Remembered
    <3> QED BY <3>2, <3>3
  <2> QED BY Zenon, <2>1 DEF Remembered
<1>16. Marked'
  <2>1. \A i \in OpIds : Open(i)' => ops'[i].scheduled < epoch'
    BY Zenon, <1>3, <1>12 DEF Marked
  <2>2. ASSUME NEW i \in OpIds, ops'[i].status \in {"Failed", "Expired"}
        PROVE  \E m \in failedHeals' : /\ m[1] = ops'[i].healer /\ m[3] = ops'[i].ticket
                                       /\ m[2] > ops'[i].scheduled
    <3>1. CASE i = id
      <4>1. ~verified
        BY Zenon, <1>3, <2>2, <3>1
      <4>2. Marker(id) \in failedHeals'
        BY Zenon, <1>7, <4>1
      <4>3. ops[id].scheduled < epoch
        BY Zenon, <1>1 DEF Marked
      <4>4. ops[id].scheduled \in Nat /\ epoch \in Nat
        BY Zenon, <1>4 DEF TypeOK, HealOp
      <4>5. Marker(id) = <<ops[id].healer, epoch, t>>
        BY Zenon, <1>9
      <4>6. /\ ops'[id].healer = ops[id].healer /\ ops'[id].ticket = t
            /\ ops'[id].scheduled = ops[id].scheduled
        BY Zenon, <1>3 DEF t
      <4> HIDE DEF IInv
      <4>7. Marker(id)[1] = ops[id].healer /\ Marker(id)[2] = epoch /\ Marker(id)[3] = t
        BY <4>5
      <4>8. epoch > ops[id].scheduled
        BY <4>3, <4>4
      <4> QED BY Zenon, <3>1, <4>2, <4>6, <4>7, <4>8
    <3>2. CASE i # id
      <4>1. ops'[i] = ops[i] /\ failedHeals \subseteq failedHeals'
        BY Zenon, <1>3, <1>7, <3>2
      <4>2. Marked
        BY Zenon
      <4> HIDE DEF IInv
      <4> QED BY Zenon, <2>2, <4>1, <4>2 DEF Marked
    <3> QED BY Zenon, <3>1, <3>2
  <2> QED BY Zenon, <2>1, <2>2 DEF Marked
<1> QED BY <1>10, <1>11, <1>13, <1>14, <1>15, <1>16

(* A verifier's vote keeps the invariant, whether it closes or not.        *)
LEMMA VoteIInv ==
  ASSUME IInv, NEW id \in OpIds, NEW n \in Nodes, NEW v \in {"yes", "no"}, NEW hash \in Hashes,
         SubmitHealVerification(id, n, v, hash)
  PROVE  IInv'
<1>1. votes' \in [OpIds -> [Nodes -> {None, "yes", "no"}]]
  BY Zenon DEF SubmitHealVerification, IInv, TypeOK
<1>2. CASE finalizeHealOp(id, FALSE, hash)
  BY Zenon, <1>1, <1>2, FinalizeIInv DEF SubmitHealVerification
<1>3. CASE finalizeHealOp(id, TRUE, hash)
  BY Zenon, <1>1, <1>3, FinalizeIInv DEF SubmitHealVerification
<1>4. CASE UNCHANGED <<tickets, ops, statusIdx, ticketIdx, failedHeals>>
  <2>1. UNCHANGED <<epoch, nextId, tickets, ops, statusIdx, ticketIdx, failedHeals>>
    BY <1>4 DEF SubmitHealVerification
  <2> QED BY Zenon, <1>1, <2>1 DEF IInv, TypeOK, Fresh, ActivePointerExact, VerifiersIndependent,
                            DeadlineKept, Remembered, Marked, Open
<1> QED BY <1>2, <1>3, <1>4, Zenon DEF SubmitHealVerification

(* No ticket, operation or marker is stored at genesis.                    *)
LEMMA InitIInv == Init => IInv
<1> SUFFICES ASSUME Init PROVE IInv
  OBVIOUS
<1>1. NoTicket \in Ticket /\ NoTicket.active = 0
  BY ConstantsAssumption DEF NoTicket, Ticket
<1>2. NoOp \in HealOp /\ NoOp.status = None
  BY DEF NoOp, HealOp
<1>3. NoVote \in [Nodes -> {None, "yes", "no"}]
  BY DEF NoVote
<1>4. TypeOK
  BY <1>1, <1>2, <1>3, ConstantsAssumption DEF Init, TypeOK
<1>5. \A id \in OpIds : ops[id] = NoOp /\ ops[id].status = None
  BY <1>2 DEF Init
<1>6. Fresh /\ VerifiersIndependent
  BY <1>5 DEF Fresh, VerifiersIndependent
<1>7. \A id \in OpIds : ~Open(id) /\ ops[id].status \notin {"Failed", "Expired"}
  BY <1>5 DEF Open, OpenStatuses, None
<1>8. ActivePointerExact /\ DeadlineKept /\ Remembered /\ Marked
  BY <1>1, <1>7 DEF Init, ActivePointerExact, DeadlineKept, Remembered, Marked
<1> QED BY <1>4, <1>6, <1>8 DEF IInv

(* The invariant is inductive: one case per message and the epoch end.     *)
LEMMA NextIInv == IInv /\ [Next]_vars => IInv'
<1> SUFFICES ASSUME IInv, [Next]_vars PROVE IInv'
  OBVIOUS
<1>1. CASE \E t \in Tickets, n \in Nodes, s \in ReportScores, evidence \in BOOLEAN :
             ReportResult(t, n, s, evidence)
  BY <1>1, ReportIInv
<1>2. CASE \E id \in OpIds, n \in Nodes, hash \in Hashes : ClaimHealComplete(id, n, hash)
  BY <1>2, ClaimIInv
<1>3. CASE \E id \in OpIds, n \in Nodes, v \in {"yes", "no"}, hash \in Hashes :
             SubmitHealVerification(id, n, v, hash)
  BY <1>3, VoteIInv
<1>4. CASE \E plan, team : GoodPlan(plan, team) /\ EndEpoch(plan, team)
  BY <1>4, EndEpochType, EndEpochPointer, EndEpochRest DEF IInv
<1>5. CASE UNCHANGED vars
  BY Zenon, <1>5 DEF vars, IInv, TypeOK, Fresh, ActivePointerExact, VerifiersIndependent,
              DeadlineKept, Remembered, Marked, Open
<1> QED BY Zenon, <1>1, <1>2, <1>3, <1>4, <1>5, PlanFacts DEF Next, IInv

(* The inductive invariant holds of every behaviour.                       *)
THEOREM Invariance == Spec => []IInv
BY InitIInv, NextIInv, PTL DEF Spec

(* Every reachable state is well typed.                                    *)
THEOREM TypeCorrect == Spec => []TypeOK
BY Invariance, PTL DEF IInv

(* Pointers of tickets and open operations name each other: no ticket is   *)
(* healed twice at a time, none is blocked by an operation that is gone.   *)
THEOREM PointersCorrect == Spec => []ActivePointerExact
BY Invariance, PTL DEF IInv

(* No healer is among its verifiers, and none works without any.           *)
THEOREM VerifiersCorrect == Spec => []VerifiersIndependent
BY Invariance, PTL DEF IInv

(* No operation is open after its deadline.                                *)
THEOREM DeadlineCorrect == Spec => []DeadlineKept
BY Invariance, PTL DEF IInv

(* A stored failure has its marker, for every retention window.            *)
THEOREM FailuresCorrect == Spec => []FailedHealRecorded
<1>1. IInv => FailedHealRecorded
  BY DEF IInv, Marked, FailedHealRecorded
<1> QED BY <1>1, Invariance, PTL

(* Scheduling a ticket respects every cooldown its markers stand for.      *)
LEMMA CooldownStep ==
  ASSUME IInv, [Next]_vars, NEW t \in Tickets,
         tickets'[t].active \notin {0, tickets[t].active},
         NEW m \in failedHeals, m[3] = t
  PROVE  m[2] + ProbationEpochs <= epoch
<1> USE DEF IInv
<1>1. CASE \E c \in Tickets, n \in Nodes, s \in ReportScores, evidence \in BOOLEAN :
             ReportResult(c, n, s, evidence)
  BY <1>1 DEF ReportResult, TypeOK, Ticket
<1>2. CASE \E id \in OpIds, n \in Nodes, hash \in Hashes : ClaimHealComplete(id, n, hash)
  BY Zenon, <1>2 DEF ClaimHealComplete
<1>3. CASE \E id \in OpIds, n \in Nodes, v \in {"yes", "no"}, hash \in Hashes :
             SubmitHealVerification(id, n, v, hash)
  <2>0. PICK id \in OpIds, n \in Nodes, v \in {"yes", "no"}, hash \in Hashes :
          SubmitHealVerification(id, n, v, hash)
    BY Zenon, <1>3
  <2>1. \/ tickets' = tickets
        \/ finalizeHealOp(id, FALSE, hash)
        \/ finalizeHealOp(id, TRUE, hash)
    BY Zenon, <2>0 DEF SubmitHealVerification
  <2>2. tickets[t] \in Ticket /\ epoch \in Nat
    BY DEF TypeOK
  <2>3. /\ AfterVerifiedHeal(tickets[t], id).active \in {0, tickets[t].active}
        /\ AfterFailedHeal(tickets[t], id).active \in {0, tickets[t].active}
    BY <2>2, AfterVerifiedFacts, AfterFailedFacts
  <2>4. tickets'[t] \in {tickets[t], AfterVerifiedHeal(tickets[t], id),
                         AfterFailedHeal(tickets[t], id)}
    BY Zenon, <2>1 DEF finalizeHealOp, TypeOK
  <2> QED BY Zenon, <2>3, <2>4
<1>4. CASE \E plan, team : GoodPlan(plan, team) /\ EndEpoch(plan, team)
  <2>1. PICK plan, team : GoodPlan(plan, team) /\ EndEpoch(plan, team)
    BY Zenon, <1>4
  <2>2. tickets'[t] \in {NoTicket, TicketsScheduled(plan)[t]} /\ NoTicket.active = 0
    <3>1. tickets' = [c \in Tickets |-> IF Inert(TicketsScheduled(plan)[c]) THEN NoTicket
                                        ELSE TicketsScheduled(plan)[c]]
      BY Zenon, <2>1 DEF EndEpoch
    <3> HIDE DEF IInv
    <3>2. NoTicket.active = 0
      BY Zenon DEF NoTicket
    <3> QED BY Zenon, <3>1, <3>2
  <2>3. t \in DOMAIN plan /\ tickets[t].probation <= epoch
    <3> DEFINE ntk == TicketsScheduled(plan)[t]
    <3>1. \/ ntk.active = 0
          \/ /\ t \in DOMAIN plan /\ ntk.probation = tickets[t].probation
             /\ ntk.probation <= epoch
          \/ ntk = tickets[t]
      BY Zenon, <2>1, TicketMoves
    <3> HIDE DEF IInv, ntk
    <3>2. tickets'[t] = NoTicket \/ tickets'[t] = ntk
      BY Zenon, <2>2 DEF ntk
    <3> QED BY Zenon, <2>2, <3>1, <3>2
  <2>4. tickets[t].probation >= m[2] + ProbationEpochs /\ m[2] \in Nat
    BY Zenon DEF Remembered, TypeOK
  <2>5. tickets[t].probation \in Nat /\ epoch \in Nat
    <3>1. tickets[t] \in Ticket /\ epoch \in 0..MaxEpoch
      BY Zenon DEF TypeOK
    <3> HIDE DEF IInv
    <3> QED BY <3>1 DEF Ticket
  <2> HIDE DEF IInv
  <2> QED BY <2>3, <2>4, <2>5, ProbationLasts
<1>5. CASE UNCHANGED vars
  BY <1>5 DEF vars
<1> QED BY Zenon, <1>1, <1>2, <1>3, <1>4, <1>5, PlanFacts DEF Next

(* A failed or expired heal is not retried before its cooldown is over.    *)
THEOREM CooldownCorrect == Spec => CooldownKept
<1> DEFINE A == \A t \in Tickets : (tickets'[t].active \notin {0, tickets[t].active}) =>
                   \A m \in failedHeals : m[3] = t => m[2] + ProbationEpochs <= epoch
<1>1. IInv /\ [Next]_vars => [A]_vars
  BY CooldownStep
<1>2. Spec => [][A]_vars
  BY <1>1, Invariance, PTL DEF Spec
<1> QED BY <1>2 DEF CooldownKept

(* A closed record changes only by being pruned, an identifier is used once. *)
LEMMA FinalStep ==
  ASSUME IInv, [Next]_vars, NEW id \in OpIds
  PROVE  /\ Final(id) => ops'[id] \in {ops[id], NoOp}
         /\ id < nextId /\ ops[id] = NoOp => ops'[id] = NoOp
<1> USE DEF IInv
<1>0. NoOp.status = "none"
  BY DEF NoOp, None
<1>1. CASE ops' = ops
  BY <1>1
<1>2. CASE \E i \in OpIds, n \in Nodes, hash \in Hashes : ClaimHealComplete(i, n, hash)
  <2>1. PICK i \in OpIds : /\ ops[i].status = "Scheduled"
                           /\ \A j \in OpIds : j # i => ops'[j] = ops[j]
    BY <1>2, Zenon DEF ClaimHealComplete, Claimable, SetStatus, Stored
  <2> QED BY <1>0, <2>1 DEF Final, FinalStatuses
<1>3. CASE \E i \in OpIds, n \in Nodes, v \in {"yes", "no"}, hash \in Hashes :
             SubmitHealVerification(i, n, v, hash)
  <2>1. PICK i \in OpIds, n \in Nodes, v \in {"yes", "no"}, hash \in Hashes :
          SubmitHealVerification(i, n, v, hash)
    BY <1>3
  <2>2. /\ ops[i].status = "HealerReported"
        /\ \/ ops' = ops
           \/ finalizeHealOp(i, FALSE, hash)
           \/ finalizeHealOp(i, TRUE, hash)
    BY Zenon, <2>1 DEF SubmitHealVerification
  <2>3. id # i => ops'[id] = ops[id]
    BY <2>2, Zenon DEF finalizeHealOp, SetStatus, Stored
  <2> QED BY <1>0, <2>2, <2>3 DEF Final, FinalStatuses
<1>4. CASE \E plan, team : GoodPlan(plan, team) /\ EndEpoch(plan, team)
  <2>1. PICK plan, team : GoodPlan(plan, team) /\ EndEpoch(plan, team)
    BY <1>4
  <2>2. CASE ops'[id] = NoOp \/ ops'[id] = ops[id]
    BY <2>2
  <2>3. CASE \E t \in DOMAIN plan : plan[t] = id /\ ops[id] = NoOp
    <3>1. id >= nextId /\ id \in Int /\ nextId \in Int
      <4>1. id \in OpIds /\ id >= nextId
        BY Zenon, <2>1, <2>3 DEF GoodPlan
      <4>2. nextId \in 1..(MaxOps + 1)
        BY Zenon DEF TypeOK
      <4> QED BY <4>1, <4>2 DEF OpIds
    <3> QED BY <1>0, <2>3, <3>1 DEF Final, FinalStatuses
  <2>4. CASE id \in Overdue
    BY <1>0, <2>4 DEF Overdue, Open, OpenStatuses, Final, FinalStatuses
  <2> QED BY Zenon, <2>1, <2>2, <2>3, <2>4, OpAfter
<1> QED BY <1>1, <1>2, <1>3, <1>4, PlanFacts, Zenon DEF Next, vars, ReportResult

(* A late vote or claim never changes a closed operation.                  *)
THEOREM FinalCorrect == Spec => ClosedIsFinal
<1> DEFINE A == \A id \in OpIds :
                  /\ Final(id) => ops'[id] \in {ops[id], NoOp}
                  /\ id < nextId /\ ops[id] = NoOp => ops'[id] = NoOp
<1>1. IInv /\ [Next]_vars => [A]_vars
  BY FinalStep
<1>2. Spec => [][A]_vars
  BY <1>1, Invariance, PTL DEF Spec
<1> QED BY <1>2 DEF ClosedIsFinal
-----------------------------------------------------------------------------
(* IndexesExact and ClosedByMajority, one identifier at a time.            *)
IndexedAt(id) ==
  /\ \A s \in OpenStatuses \cup FinalStatuses :
       <<s, id>> \in statusIdx <=> ops[id].status = s
  /\ \A t \in Tickets :
       <<t, id>> \in ticketIdx <=> (ops[id].status # None /\ ops[id].ticket = t)
  /\ ops[id].status = None => votes[id] = NoVote

Votes(id, v) == {n \in ops[id].verifiers : votes[id][n] = v}

DecidedAt(id) ==
  /\ (Cardinality(Votes(id, "yes")) * 2 > Cardinality(ops[id].verifiers))
       <=> ops[id].status = "Verified"
  /\ (Cardinality(Votes(id, "no")) * 2 > Cardinality(ops[id].verifiers))
       <=> ops[id].status = "Failed"
  /\ \A n \in Nodes : votes[id][n] # None =>
       n \in ops[id].verifiers /\ ops[id].status # "Scheduled"

(* The indexes are exact if and only if they are at every identifier.      *)
LEMMA IndexedEverywhere ==
  ASSUME TypeOK, Fresh
  PROVE  IndexesExact <=> \A id \in OpIds : IndexedAt(id)
<1> DEFINE used == {i \in OpIds : ops[i].status # None}
           all  == OpenStatuses \cup FinalStatuses
<1>1. \A id \in used : ops[id].status \in all /\ ops[id].ticket \in Tickets
  BY DEF TypeOK, Fresh, HealOp, None
<1>2. None \notin all
  BY DEF OpenStatuses, FinalStatuses, None
<1>3. ASSUME IndexesExact, NEW id \in OpIds PROVE IndexedAt(id)
  <2>1. statusIdx = {<<ops[i].status, i>> : i \in used}
        /\ ticketIdx = {<<ops[i].ticket, i>> : i \in used}
    BY <1>3 DEF IndexesExact
  <2>2. \A s \in all : <<s, id>> \in statusIdx <=> ops[id].status = s
    BY <1>2, <2>1
  <2>3. \A t \in Tickets : <<t, id>> \in ticketIdx <=> (id \in used /\ ops[id].ticket = t)
    BY <2>1
  <2> QED BY <1>3, <2>2, <2>3 DEF IndexedAt, IndexesExact
<1>4. ASSUME \A id \in OpIds : IndexedAt(id) PROVE IndexesExact
  <2>1. statusIdx = {<<ops[i].status, i>> : i \in used}
    <3>1. ASSUME NEW e \in statusIdx PROVE \E i \in used : e = <<ops[i].status, i>>
      <4>1. PICK s \in all, i \in OpIds : e = <<s, i>>
        BY DEF TypeOK
      <4> QED BY <1>2, <1>4, <4>1 DEF IndexedAt
    <3>2. \A i \in used : <<ops[i].status, i>> \in statusIdx
      BY <1>1, <1>4 DEF IndexedAt
    <3> QED BY <3>1, <3>2
  <2>2. ticketIdx = {<<ops[i].ticket, i>> : i \in used}
    <3>1. ASSUME NEW e \in ticketIdx PROVE \E i \in used : e = <<ops[i].ticket, i>>
      <4>1. PICK t \in Tickets, i \in OpIds : e = <<t, i>>
        BY DEF TypeOK
      <4> QED BY <1>4, <4>1 DEF IndexedAt
    <3>2. \A i \in used : <<ops[i].ticket, i>> \in ticketIdx
      BY <1>1, <1>4 DEF IndexedAt
    <3> QED BY <3>1, <3>2
  <2> QED BY <1>4, <2>1, <2>2 DEF IndexesExact, IndexedAt
<1> QED BY <1>3, <1>4

(* A count of votes is a natural number, nought where nobody voted.        *)
LEMMA VoteCounts ==
  ASSUME TypeOK, NEW id \in OpIds
  PROVE  /\ Cardinality(ops[id].verifiers) \in Nat
         /\ \A v \in {"yes", "no"} : /\ IsFiniteSet(Votes(id, v))
                                     /\ Cardinality(Votes(id, v)) \in Nat
         /\ (\A n \in Nodes : votes[id][n] = None) =>
              \A v \in {"yes", "no"} : Cardinality(Votes(id, v)) = 0
<1>1. ops[id].verifiers \subseteq Nodes /\ IsFiniteSet(ops[id].verifiers)
  BY FS_Subset, ConstantsAssumption DEF TypeOK, HealOp
<1>2. \A v \in {"yes", "no"} : Votes(id, v) \subseteq ops[id].verifiers
  BY DEF Votes
<1>3. \A v \in {"yes", "no"} : IsFiniteSet(Votes(id, v))
  BY <1>1, <1>2, FS_Subset
<1>4. (\A n \in Nodes : votes[id][n] = None) => \A v \in {"yes", "no"} : Votes(id, v) = {}
  BY <1>1 DEF Votes, None
<1> QED BY <1>1, <1>3, <1>4, FS_CardinalityType, FS_EmptySet

(* A record keeps its place in the indexes and its outcome as long as      *)
(* neither they nor its votes are touched.                                 *)
LEMMA UntouchedAt ==
  ASSUME TypeOK, NEW id \in OpIds, IndexedAt(id), DecidedAt(id),
         ops'[id] = ops[id], votes'[id] = votes[id],
         \A s \in OpenStatuses \cup FinalStatuses : <<s, id>> \in statusIdx' <=> <<s, id>> \in statusIdx,
         \A t \in Tickets : <<t, id>> \in ticketIdx' <=> <<t, id>> \in ticketIdx
  PROVE  IndexedAt(id)' /\ DecidedAt(id)'
<1>1. IndexedAt(id)'
  BY DEF IndexedAt
<1>2. Votes(id, "yes")' = Votes(id, "yes") /\ Votes(id, "no")' = Votes(id, "no")
  BY DEF Votes
<1> QED BY <1>1, <1>2 DEF DecidedAt

(* A status change moves the record in one index and not in the other.     *)
LEMMA StatusIndexed ==
  ASSUME TypeOK, \A i \in OpIds : IndexedAt(i), NEW id \in OpIds,
         NEW status \in OpenStatuses \cup FinalStatuses, NEW hash \in Hashes,
         SetStatus(id, status, hash), ops[id].status # None,
         \A i \in OpIds : i # id => votes'[i] = votes[i]
  PROVE  /\ \A i \in OpIds : IndexedAt(i)'
         /\ ops'[id].status = status /\ ops'[id].verifiers = ops[id].verifiers
         /\ (\A i \in OpIds : i # id => DecidedAt(i)) => \A i \in OpIds : i # id => DecidedAt(i)'
<1>1. /\ ops'[id].status = status /\ ops'[id].ticket = ops[id].ticket
      /\ ops'[id].verifiers = ops[id].verifiers
      /\ \A i \in OpIds : i # id => ops'[i] = ops[i]
      /\ statusIdx' = {e \in statusIdx : e[2] # id} \cup {<<status, id>>}
      /\ ticketIdx' = ticketIdx
  BY SetStatusFacts
<1>2. status # None
  BY DEF OpenStatuses, FinalStatuses, None
<1>3. IndexedAt(id)'
  BY Zenon, <1>1, <1>2 DEF IndexedAt
<1>4. \A i \in OpIds : i # id =>
        /\ \A s \in OpenStatuses \cup FinalStatuses : <<s, i>> \in statusIdx' <=> <<s, i>> \in statusIdx
        /\ \A t \in Tickets : <<t, i>> \in ticketIdx' <=> <<t, i>> \in ticketIdx
  BY Zenon, <1>1
<1>5. \A i \in OpIds : i # id => IndexedAt(i)'
  BY <1>1, <1>4 DEF IndexedAt
<1>6. ASSUME NEW i \in OpIds, i # id, DecidedAt(i) PROVE DecidedAt(i)'
  BY Zenon, <1>1, <1>4, <1>6, UntouchedAt
<1> QED BY <1>1, <1>3, <1>5, <1>6

(* The healer's claim moves the record to another status, without a vote.  *)
LEMMA ClaimRecords ==
  ASSUME TypeOK, \A i \in OpIds : IndexedAt(i) /\ DecidedAt(i),
         NEW id \in OpIds, NEW n \in Nodes, NEW hash \in Hashes, ClaimHealComplete(id, n, hash)
  PROVE  \A i \in OpIds : IndexedAt(i)' /\ DecidedAt(i)'
<1>1. /\ ops[id].status = "Scheduled" /\ votes' = votes
      /\ SetStatus(id, "HealerReported", hash)
      /\ ops[id].status # None /\ "HealerReported" \in OpenStatuses \cup FinalStatuses
  BY Zenon DEF ClaimHealComplete, Claimable, None, OpenStatuses
<1>2. /\ \A i \in OpIds : IndexedAt(i)'
      /\ ops'[id].status = "HealerReported" /\ ops'[id].verifiers = ops[id].verifiers
      /\ \A i \in OpIds : i # id => DecidedAt(i)'
  BY Zenon, <1>1, StatusIndexed
<1>3. DecidedAt(id)'
  <2>1. Votes(id, "yes")' = Votes(id, "yes") /\ Votes(id, "no")' = Votes(id, "no")
    BY Zenon, <1>1, <1>2 DEF Votes
  <2>2. DecidedAt(id)
    OBVIOUS
  <2> QED BY Zenon, <1>1, <1>2, <2>1, <2>2 DEF DecidedAt
<1> QED BY <1>2, <1>3

(* One vote counts on its own side only, and on a record that was open:    *)
(* the majority found is the first one, and the status names it.           *)
LEMMA VoteRecords ==
  ASSUME TypeOK, \A i \in OpIds : IndexedAt(i) /\ DecidedAt(i),
         NEW id \in OpIds, NEW n \in Nodes, NEW v \in {"yes", "no"}, NEW hash \in Hashes,
         SubmitHealVerification(id, n, v, hash)
  PROVE  \A i \in OpIds : IndexedAt(i)' /\ DecidedAt(i)'
<1> DEFINE vs  == [votes EXCEPT ![id][n] = v]
           yes == Cardinality({m \in ops[id].verifiers : vs[id][m] = "yes"})
           no  == Cardinality({m \in ops[id].verifiers : vs[id][m] = "no"})
           c   == Cardinality(ops[id].verifiers)
<1>1. /\ ops[id].status = "HealerReported" /\ n \in ops[id].verifiers
      /\ votes[id][n] = None /\ votes' = vs
      /\ ops[id].verifiers \subseteq Nodes
  BY Zenon DEF SubmitHealVerification, TypeOK, HealOp
<1>2. /\ \A i \in OpIds : i # id => vs[i] = votes[i]
      /\ vs[id][n] = v
      /\ \A m \in Nodes : m # n => vs[id][m] = votes[id][m]
      /\ vs \in [OpIds -> [Nodes -> {None, "yes", "no"}]]
  BY DEF TypeOK
<1>3. \/ no >= c \div 2 + 1 /\ finalizeHealOp(id, FALSE, hash)
      \/ no < c \div 2 + 1 /\ yes >= c \div 2 + 1 /\ finalizeHealOp(id, TRUE, hash)
      \/ no < c \div 2 + 1 /\ yes < c \div 2 + 1 /\ UNCHANGED <<ops, statusIdx, ticketIdx>>
  BY Zenon DEF SubmitHealVerification, Count, Majority
<1> HIDE DEF vs
<1>4. /\ v = "yes" => {m \in ops[id].verifiers : vs[id][m] = "no"} = Votes(id, "no")
      /\ v = "no" => {m \in ops[id].verifiers : vs[id][m] = "yes"} = Votes(id, "yes")
  BY Zenon, <1>1, <1>2 DEF Votes, None
<1>5. c \in Nat /\ yes \in Nat /\ no \in Nat
  <2>1. IsFiniteSet(ops[id].verifiers)
    BY Zenon, <1>1, FS_Subset, ConstantsAssumption
  <2> QED BY Zenon, <2>1, FS_Subset, FS_CardinalityType
<1>6. /\ v = "yes" => ~(no * 2 > c)
      /\ v = "no" => ~(yes * 2 > c)
  <2>1. /\ ~(Cardinality(Votes(id, "yes")) * 2 > c)
        /\ ~(Cardinality(Votes(id, "no")) * 2 > c)
    BY <1>1 DEF DecidedAt
  <2> QED BY Zenon, <1>4, <2>1
<1> HIDE DEF yes, no, c
<1>7. /\ no >= c \div 2 + 1 <=> no * 2 > c
      /\ yes >= c \div 2 + 1 <=> yes * 2 > c
      /\ ~(yes * 2 > c /\ no * 2 > c)
  BY <1>5, <1>6
<1>8. ASSUME ops'[id].verifiers = ops[id].verifiers,
             ops'[id].status = IF no * 2 > c THEN "Failed"
                               ELSE IF yes * 2 > c THEN "Verified" ELSE "HealerReported"
      PROVE  DecidedAt(id)'
  <2>1. Cardinality(Votes(id, "yes"))' = yes /\ Cardinality(Votes(id, "no"))' = no
    BY Zenon, <1>1, <1>8 DEF Votes, yes, no
  <2>2. Cardinality(ops[id].verifiers)' = c
    BY Zenon, <1>8 DEF c
  <2>3. \A m \in Nodes : votes'[id][m] # None =>
          m \in ops'[id].verifiers /\ ops'[id].status # "Scheduled"
    <3>1. \A m \in Nodes : votes[id][m] # None => m \in ops[id].verifiers
      BY DEF DecidedAt
    <3> QED BY Zenon, <1>1, <1>2, <1>8, <3>1
  <2> QED BY Zenon, <1>7, <1>8, <2>1, <2>2, <2>3 DEF DecidedAt
<1>9. ASSUME NEW verified \in BOOLEAN, finalizeHealOp(id, verified, hash),
             verified <=> ~(no * 2 > c), verified => yes * 2 > c
      PROVE  \A i \in OpIds : IndexedAt(i)' /\ DecidedAt(i)'
  <2> DEFINE status == IF verified THEN "Verified" ELSE "Failed"
  <2>1. /\ SetStatus(id, status, hash) /\ status \in OpenStatuses \cup FinalStatuses
        /\ ops[id].status # None
    BY <1>1, <1>9 DEF finalizeHealOp, FinalStatuses, None
  <2>2. /\ \A i \in OpIds : IndexedAt(i)'
        /\ ops'[id].status = status /\ ops'[id].verifiers = ops[id].verifiers
        /\ \A i \in OpIds : i # id => DecidedAt(i)'
    BY Zenon, <1>1, <1>2, <2>1, StatusIndexed
  <2>3. status = IF no * 2 > c THEN "Failed"
                 ELSE IF yes * 2 > c THEN "Verified" ELSE "HealerReported"
    BY <1>9
  <2> HIDE DEF status
  <2>4. DecidedAt(id)'
    BY <1>8, <2>2, <2>3
  <2> QED BY <2>2, <2>4
<1>10. CASE ~(no * 2 > c) /\ ~(yes * 2 > c) /\ UNCHANGED <<ops, statusIdx, ticketIdx>>
  <2>1. \A i \in OpIds : i # id => IndexedAt(i)' /\ DecidedAt(i)'
    BY Zenon, <1>1, <1>2, <1>10, UntouchedAt
  <2>2. IndexedAt(id)'
    BY Zenon, <1>1, <1>10 DEF IndexedAt, None
  <2> QED BY <1>1, <1>8, <1>10, <2>1, <2>2
<1>11. CASE no * 2 > c /\ finalizeHealOp(id, FALSE, hash)
  BY <1>9, <1>11, Zenon
<1>12. CASE ~(no * 2 > c) /\ yes * 2 > c /\ finalizeHealOp(id, TRUE, hash)
  BY <1>9, <1>12, Zenon
<1>13. ~(no < c \div 2 + 1 /\ no * 2 > c) /\ ~(yes < c \div 2 + 1 /\ yes * 2 > c)
  BY <1>5
<1> QED BY <1>3, <1>7, <1>10, <1>11, <1>12, <1>13, Zenon

(* The epoch end writes the new, the expired and the pruned records to     *)
(* both indexes and drops the votes with the record.                       *)
LEMMA EpochRecords ==
  ASSUME TypeOK, Fresh, \A i \in OpIds : IndexedAt(i) /\ DecidedAt(i),
         NEW plan, NEW team, GoodPlan(plan, team), EndEpoch(plan, team), TypeOK', NEW id \in OpIds
  PROVE  IndexedAt(id)' /\ DecidedAt(id)'
<1> DEFINE newOps  == OpsScheduled(plan, team)
           touched == Overdue \cup {plan[t] : t \in DOMAIN plan}
           pruned  == {i \in OpIds : Old(newOps[i])}
<1>0. IndexedAt(id) /\ DecidedAt(id) /\ ops[id] \in HealOp /\ id \in Nat
  BY DEF TypeOK, OpIds
<1>1. /\ ops'[id] = IF id \in pruned THEN NoOp ELSE newOps[id]
      /\ votes'[id] = IF id \in pruned THEN NoVote ELSE votes[id]
      /\ statusIdx' = {e \in StatusIdxAfter(newOps, touched) : e[2] \notin pruned}
      /\ ticketIdx' = {e \in ticketIdx : e[2] \notin pruned} \cup {<<t, plan[t]>> : t \in DOMAIN plan}
  BY Zenon DEF EndEpoch, VotesPruned
<1>2. \A s \in OpenStatuses \cup FinalStatuses : <<s, id>> \in statusIdx' <=>
        /\ id \notin pruned
        /\ (id \notin touched /\ <<s, id>> \in statusIdx) \/ (id \in touched /\ s = newOps[id].status)
  BY <1>1, Zenon DEF StatusIdxAfter
<1>3. \A t \in Tickets : <<t, id>> \in ticketIdx' <=>
        \/ id \notin pruned /\ <<t, id>> \in ticketIdx
        \/ t \in DOMAIN plan /\ plan[t] = id
  BY <1>1
<1>4. \A t \in DOMAIN plan : /\ newOps[plan[t]] = NewOp(t, team[t]) /\ t \in Tickets
                             /\ ops[plan[t]] = NoOp /\ plan[t] \notin Overdue
                             /\ plan[t] \notin pruned
  <2>1. \A t \in DOMAIN plan : ~Old(NewOp(t, team[t]))
    BY Zenon DEF Old, NewOp, FinalStatuses
  <2>2. \A t \in DOMAIN plan : /\ newOps[plan[t]] = NewOp(t, team[t]) /\ t \in Tickets
                               /\ ops[plan[t]] = NoOp /\ plan[t] \notin Overdue
    <3>1. \A t \in DOMAIN plan : t \in Tickets
      BY Zenon DEF GoodPlan
    <3> QED BY <3>1, OpMoves
  <2> HIDE DEF newOps
  <2> QED BY Zenon, <2>1, <2>2
<1>5. (\A t \in DOMAIN plan : plan[t] # id) =>
        newOps[id] = IF id \in Overdue THEN [ops[id] EXCEPT !.status = "Expired"] ELSE ops[id]
  BY OpMoves
<1>6. /\ NoOp.status = None /\ NoOp.verifiers = {}
      /\ None \notin OpenStatuses \cup FinalStatuses /\ \A n \in Nodes : NoVote[n] = None
  BY DEF NoOp, NoVote, OpenStatuses, FinalStatuses, None
<1> HIDE DEF newOps, touched, pruned
<1>7. ASSUME \A n \in Nodes : votes'[id][n] = None,
             ops'[id].status \notin {"Verified", "Failed"}
      PROVE  DecidedAt(id)'
  <2>1. ops'[id].verifiers \subseteq Nodes
    BY Zenon DEF TypeOK, HealOp
  <2>2. Votes(id, "yes")' = {} /\ Votes(id, "no")' = {}
    BY Zenon, <1>7, <2>1 DEF Votes, None
  <2>3. Cardinality(ops'[id].verifiers) \in Nat
    BY Zenon, <2>1, FS_Subset, FS_CardinalityType, ConstantsAssumption
  <2>4. Cardinality(Votes(id, "yes"))' = 0 /\ Cardinality(Votes(id, "no"))' = 0
    BY <2>2, FS_EmptySet
  <2> QED BY <1>7, <2>3, <2>4 DEF DecidedAt
<1>8. CASE id \in pruned
  <2>1. ops'[id] = NoOp /\ votes'[id] = NoVote /\ \A t \in DOMAIN plan : plan[t] # id
    BY Zenon, <1>1, <1>4, <1>8
  <2>2. IndexedAt(id)'
    BY <1>2, <1>3, <1>6, <1>8, <2>1 DEF IndexedAt
  <2>3. ops'[id].status \notin {"Verified", "Failed"}
    BY Zenon, <1>6, <2>1 DEF None
  <2> QED BY Zenon, <1>6, <1>7, <2>1, <2>2, <2>3
<1>9. CASE \E t \in DOMAIN plan : plan[t] = id
  <2>1. PICK t \in DOMAIN plan : plan[t] = id
    BY <1>9
  <2>2. /\ ops'[id] = NewOp(t, team[t]) /\ votes'[id] = votes[id] /\ id \in touched
        /\ newOps[id] = NewOp(t, team[t]) /\ ops[id] = NoOp /\ id \notin pruned /\ t \in Tickets
    BY Zenon, <1>1, <1>4, <2>1 DEF touched
  <2>3. NewOp(t, team[t]).status = "Scheduled" /\ NewOp(t, team[t]).ticket = t
    BY Zenon DEF NewOp
  <2>4. votes[id] = NoVote /\ \A c \in Tickets : <<c, id>> \notin ticketIdx
    BY <1>0, <1>6, <2>2 DEF IndexedAt
  <2>5. \A c \in Tickets : <<c, id>> \in ticketIdx' <=> c = t
    BY <1>3, <2>1, <2>4 DEF GoodPlan
  <2>6. \A s \in OpenStatuses \cup FinalStatuses : <<s, id>> \in statusIdx' <=> s = "Scheduled"
    BY Zenon, <1>2, <2>2, <2>3
  <2>7. IndexedAt(id)'
    BY Zenon, <2>2, <2>3, <2>5, <2>6 DEF IndexedAt, None
  <2> QED BY Zenon, <1>6, <1>7, <2>2, <2>3, <2>4, <2>7
<1>10. CASE id \notin pruned /\ id \in Overdue /\ \A t \in DOMAIN plan : plan[t] # id
  <2>1. /\ ops'[id] = [ops[id] EXCEPT !.status = "Expired"] /\ votes'[id] = votes[id]
        /\ newOps[id] = ops'[id] /\ id \in touched
    BY <1>1, <1>5, <1>10 DEF touched
  <2>2. /\ ops'[id].status = "Expired" /\ ops'[id].ticket = ops[id].ticket
        /\ ops'[id].verifiers = ops[id].verifiers
        /\ ops[id].status \in {"Scheduled", "HealerReported"} /\ ops[id].status # None
    BY <1>0, <1>10, <2>1 DEF HealOp, Overdue, Open, OpenStatuses, None
  <2>3. IndexedAt(id)'
    BY <1>0, <1>2, <1>3, <1>10, <2>1, <2>2 DEF IndexedAt, None
  <2>4. Votes(id, "yes")' = Votes(id, "yes") /\ Votes(id, "no")' = Votes(id, "no")
    BY <2>1, <2>2 DEF Votes
  <2>5. DecidedAt(id)'
    BY <1>0, <2>1, <2>2, <2>4 DEF DecidedAt
  <2> QED BY <2>3, <2>5
<1>11. CASE id \notin pruned /\ id \notin Overdue /\ \A t \in DOMAIN plan : plan[t] # id
  <2>1. ops'[id] = ops[id] /\ votes'[id] = votes[id] /\ id \notin touched
    BY <1>1, <1>5, <1>11 DEF touched
  <2> QED BY Zenon, <1>0, <1>2, <1>3, <1>11, <2>1, UntouchedAt
<1> QED BY <1>8, <1>9, <1>10, <1>11

(* IInv with exact records is inductive.                                   *)
RecordInv == IInv /\ \A id \in OpIds : IndexedAt(id) /\ DecidedAt(id)

(* At genesis there is no operation, vote or index entry to match.         *)
LEMMA InitRecords == Init => RecordInv
<1> SUFFICES ASSUME Init PROVE RecordInv
  OBVIOUS
<1>1. IInv
  BY InitIInv
<1>2. ASSUME NEW id \in OpIds PROVE IndexedAt(id) /\ DecidedAt(id)
  <2>1. /\ ops[id] = NoOp /\ votes[id] = NoVote /\ statusIdx = {} /\ ticketIdx = {}
        /\ NoOp.status = None /\ \A n \in Nodes : NoVote[n] = None
    BY DEF Init, NoOp, NoVote
  <2>2. None \notin OpenStatuses \cup FinalStatuses
    BY DEF OpenStatuses, FinalStatuses, None
  <2>3. IndexedAt(id)
    BY <2>1, <2>2 DEF IndexedAt
  <2>4. /\ Cardinality(Votes(id, "yes")) = 0 /\ Cardinality(Votes(id, "no")) = 0
        /\ Cardinality(ops[id].verifiers) \in Nat
    BY <1>1, <2>1, VoteCounts DEF IInv
  <2> QED BY <2>1, <2>3, <2>4 DEF DecidedAt, None
<1> QED BY <1>1, <1>2 DEF RecordInv

(* Every message and every epoch end keeps the indexes and the tally of    *)
(* every operation exact.                                                  *)
LEMMA NextRecords == RecordInv /\ [Next]_vars => RecordInv'
<1> SUFFICES ASSUME RecordInv, [Next]_vars PROVE RecordInv'
  OBVIOUS
<1>0. IInv /\ IInv' /\ TypeOK /\ Fresh /\ TypeOK' /\ \A i \in OpIds : IndexedAt(i) /\ DecidedAt(i)
  BY NextIInv DEF RecordInv, IInv
<1>1. CASE UNCHANGED <<ops, votes, statusIdx, ticketIdx>>
  <2>1. \A i \in OpIds : IndexedAt(i)' /\ DecidedAt(i)'
    BY <1>0, <1>1, UntouchedAt
  <2> QED BY <1>0, <2>1 DEF RecordInv
<1>2. CASE \E id \in OpIds, n \in Nodes, hash \in Hashes : ClaimHealComplete(id, n, hash)
  BY <1>0, <1>2, ClaimRecords DEF RecordInv
<1>3. CASE \E id \in OpIds, n \in Nodes, v \in {"yes", "no"}, hash \in Hashes :
             SubmitHealVerification(id, n, v, hash)
  BY <1>0, <1>3, VoteRecords DEF RecordInv
<1>4. CASE \E plan, team : GoodPlan(plan, team) /\ EndEpoch(plan, team)
  BY <1>0, <1>4, EpochRecords DEF RecordInv
<1> QED BY <1>0, <1>1, <1>2, <1>3, <1>4, PlanFacts, Zenon DEF Next, vars, ReportResult

(* The status index, the ticket index and the vote records describe the    *)
(* stored operations exactly, through status changes, expiry and pruning.  *)
THEOREM IndexesCorrect == Spec => []IndexesExact
<1>1. RecordInv => IndexesExact
  BY IndexedEverywhere DEF RecordInv, IInv
<1> QED BY <1>1, InitRecords, NextRecords, PTL DEF Spec

(* An operation is verified or failed if and only if a majority of its     *)
(* verifiers said so; one that expired never had either majority.          *)
THEOREM MajorityCorrect == Spec => []ClosedByMajority
<1>1. RecordInv => ClosedByMajority
  BY DEF RecordInv, DecidedAt, ClosedByMajority, Count, Votes
<1> QED BY <1>1, InitRecords, NextRecords, PTL DEF Spec
==============================================================================
