----------------------------- MODULE NodeProofs -----------------------------
(***************************************************************************)
(* Proofs about the states of supernodes and about the broadcaster that    *)
(* every node runs.                                                        *)
(*                                                                         *)
(* SupernodeRegistry, for every set of validators, accounts and heights:   *)
(* every step that touches the registry is one SetSuperNode that keeps a   *)
(* history or appends a record of the current height to it (StepShape),    *)
(* and everything else follows from what one such write does.              *)
(*                                                                         *)
(* AuditEnforcement, for every set of nodes, every length of the streaks   *)
(* and windows, and whatever the storage-truth score orders.               *)
(*                                                                         *)
(* EvmBroadcast, for any number of goroutines and transactions and any     *)
(* queue size: the reservations of the dispatcher are exactly the          *)
(* transactions in flight.                                                 *)
(***************************************************************************)
EXTENDS SupernodeRegistry, AuditEnforcement, EvmBroadcast, TLAPS

(* The inductive invariant: the three together are inductive, because the  *)
(* index decides which account a write may use and the heights of a        *)
(* history are bounded by the current height it is extended with.          *)
IInv == TypeOK /\ AccountIndexExact /\ HistorySorted

(* One write of the record of v: the history kept or extended.             *)
Saves(v) ==
  \E a \in Accounts :
    \/ Registered(v) /\ SetSuperNode(v, a, states[v])
    \/ \E s \in NodeStates : SetSuperNode(v, a, Appended(v, s))

(* A step leaves the registry alone or saves one record in its own block.  *)
Shape ==
  /\ stake' \in [Validators -> 0..MaxStake]
  /\ status' \in [Validators -> Statuses]
  /\ \/ height' = height /\ \E v \in Validators : Saves(v)
     \/ UNCHANGED registry /\ height' \in {height, height + 1} \cap (1..MaxHeight)

(* A registered node has an account, so a transition of it is a save.      *)
LEMMA TransitionSaves ==
  ASSUME IInv, NEW v \in Validators, NEW s \in NodeStates, Registered(v),
         Transition(v, s)
  PROVE  Saves(v)
BY DEF IInv, TypeOK, AccountIndexExact, Transition, Saves

(* Messages of operators have the shape: each saves the record of one node *)
(* once.                                                                   *)
LEMMA OperatorShape ==
  ASSUME IInv, NEW v \in Validators, Operator(v)
  PROVE  Shape
<1> USE DEF Shape
<1>0. stake \in [Validators -> 0..MaxStake] /\ status \in [Validators -> Statuses]
  BY DEF IInv, TypeOK
<1>1. ASSUME NEW a \in Accounts, RegisterSupernode(v, a) PROVE Shape
  <2>1. CASE ~Registered(v) /\ SetSuperNode(v, a, Appended(v, "Active"))
    <3>1. Saves(v) BY <2>1 DEF Saves, NodeStates
    <3> QED BY <1>0, <1>1, <3>1 DEF RegisterSupernode
  <2>2. CASE Current(v) = "Disabled" /\ Transition(v, "Active")
    <3>1. Registered(v) BY <2>2 DEF Current
    <3>2. Saves(v) BY <2>2, <3>1, TransitionSaves DEF NodeStates
    <3> QED BY <1>0, <1>1, <3>2 DEF RegisterSupernode
  <2> QED BY <1>1, <2>1, <2>2 DEF RegisterSupernode
<1>2. ASSUME NEW a \in Accounts, UpdateSupernode(v, a) PROVE Shape
  <2>1. Saves(v) BY <1>2 DEF UpdateSupernode, Saves
  <2> QED BY <1>0, <1>2, <2>1 DEF UpdateSupernode
<1>3. CASE DeregisterSupernode(v)
  <2>0. Registered(v) BY <1>3 DEF DeregisterSupernode
  <2>1. CASE Current(v) = "Disabled"
    <3>1. account[v] \in Accounts BY <2>0 DEF IInv, TypeOK, AccountIndexExact
    <3>2. Saves(v) BY <1>3, <2>0, <2>1, <3>1 DEF DeregisterSupernode, Saves
    <3> QED BY <1>0, <1>3, <3>2 DEF DeregisterSupernode
  <2>2. CASE Current(v) # "Disabled"
    <3>1. Saves(v)
      BY <1>3, <2>0, <2>2, TransitionSaves DEF DeregisterSupernode, NodeStates
    <3> QED BY <1>0, <1>3, <3>1 DEF DeregisterSupernode
  <2> QED BY <2>1, <2>2
<1>4. CASE StartSupernode(v)
  <2>1. Registered(v) BY <1>4 DEF StartSupernode, Current
  <2>2. Saves(v) BY <1>4, <2>1, TransitionSaves DEF StartSupernode, NodeStates
  <2> QED BY <1>0, <1>4, <2>2 DEF StartSupernode
<1>5. CASE StopSupernode(v)
  <2>2. Saves(v) BY <1>5, TransitionSaves DEF StopSupernode, NodeStates
  <2> QED BY <1>0, <1>5, <2>2 DEF StopSupernode
<1> QED BY <1>1, <1>2, <1>3, <1>4, <1>5 DEF Operator

(* A hook either leaves the registry alone or saves the node it is for.    *)
LEMMA HookSaves ==
  ASSUME IInv, NEW v \in Validators,
         \/ SetSuperNodeActive(v) \/ SetSuperNodeStopped(v)
         \/ FollowEligibility(v)
  PROVE  UNCHANGED registry \/ Saves(v)
<1>1. CASE SetSuperNodeActive(v)
  <2>1. Current(v) = "Stopped" => Registered(v) BY DEF Current
  <2> QED BY <1>1, <2>1, TransitionSaves DEF SetSuperNodeActive, NodeStates
<1>2. CASE SetSuperNodeStopped(v)
  <2>1. Current(v) = "Active" => Registered(v) BY DEF Current
  <2> QED BY <1>2, <2>1, TransitionSaves DEF SetSuperNodeStopped, NodeStates
<1> QED BY <1>1, <1>2 DEF FollowEligibility

(* Staking operations and their hooks have the shape.                      *)
LEMMA StakingShape ==
  ASSUME IInv, NEW v \in Validators, Staking(v)
  PROVE  Shape
<1>0. /\ stake \in [Validators -> 0..MaxStake]
      /\ status \in [Validators -> Statuses]
      /\ height \in 1..MaxHeight /\ MaxStake \in Nat
  BY ConstantsAssumption DEF IInv, TypeOK
<1>1. stake' \in [Validators -> 0..MaxStake]
  BY <1>0 DEF Staking, AfterValidatorBonded, AfterValidatorBeginUnbonding,
     AfterDelegationModified, AfterValidatorRemoved, Jail, Unjail,
     RemoveSelfDelegation
<1>2. status' \in [Validators -> Statuses]
  BY <1>0 DEF Staking, AfterValidatorBonded, AfterValidatorBeginUnbonding,
     AfterDelegationModified, AfterValidatorRemoved, Jail, Unjail,
     RemoveSelfDelegation, Statuses
<1>3. height' = height
  BY DEF Staking, AfterValidatorBonded, AfterValidatorBeginUnbonding,
     AfterDelegationModified, AfterValidatorRemoved, Jail, Unjail,
     RemoveSelfDelegation
<1>4. \/ UNCHANGED registry
      \/ SetSuperNodeActive(v) \/ SetSuperNodeStopped(v) \/ FollowEligibility(v)
  BY DEF Staking, AfterValidatorBonded, AfterValidatorBeginUnbonding,
     AfterDelegationModified, AfterValidatorRemoved, Jail, Unjail,
     RemoveSelfDelegation, registry
<1>5. UNCHANGED registry \/ Saves(v) BY <1>4, HookSaves
<1> QED BY <1>0, <1>1, <1>2, <1>3, <1>5 DEF Shape

(* Transitions ordered by the audit module have the shape.                 *)
LEMMA AuditShape ==
  ASSUME IInv, NEW v \in Validators, Audit(v)
  PROVE  Shape
<1>1. /\ stake' \in [Validators -> 0..MaxStake]
      /\ status' \in [Validators -> Statuses] /\ height' = height
  BY DEF IInv, TypeOK, Audit, SetSuperNodePostponed,
     RecoverSuperNodeFromPostponed, ReportStorage
<1>2. PICK s \in NodeStates : Registered(v) /\ Transition(v, s)
  BY DEF Audit, SetSuperNodePostponed, RecoverSuperNodeFromPostponed,
     ReportStorage, NodeStates, Current
<1>3. Saves(v) BY <1>2, TransitionSaves
<1> QED BY <1>1, <1>3 DEF Shape

(* Every step has the shape.                                               *)
LEMMA StepShape ==
  ASSUME IInv, Next
  PROVE  Shape
<1>1. CASE NextBlock
  BY <1>1, ConstantsAssumption DEF NextBlock, Shape, registry, IInv, TypeOK
<1> QED BY <1>1, OperatorShape, StakingShape, AuditShape DEF Next

(* What a save does to the histories: the one of v is kept, or is extended *)
(* by one record of the current height; the others are kept.               *)
LEMMA SavedHistory ==
  ASSUME IInv, NEW v \in Validators, Saves(v)
  PROVE  /\ states' \in [Validators -> Seq(HistoryRecord)]
         /\ \A w \in Validators \ {v} : states'[w] = states[w]
         /\ states'[v] # <<>>
         /\ \/ states'[v] = states[v]
            \/ /\ Len(states'[v]) = Len(states[v]) + 1
               /\ \A i \in 1..Len(states[v]) : states'[v][i] = states[v][i]
               /\ states'[v][Len(states'[v])].height = height
<1>0. states \in [Validators -> Seq(HistoryRecord)] /\ height \in 1..MaxHeight
  BY DEF IInv, TypeOK
<1>1. CASE Registered(v) /\ states' = [states EXCEPT ![v] = states[v]]
  BY <1>0, <1>1 DEF Registered
<1>2. ASSUME NEW s \in NodeStates,
             states' = [states EXCEPT ![v] = Appended(v, s)]
      PROVE  /\ states' \in [Validators -> Seq(HistoryRecord)]
             /\ \A w \in Validators \ {v} : states'[w] = states[w]
             /\ states'[v] # <<>>
             /\ Len(states'[v]) = Len(states[v]) + 1
             /\ \A i \in 1..Len(states[v]) : states'[v][i] = states[v][i]
             /\ states'[v][Len(states'[v])].height = height
  <2> DEFINE r == [state |-> s, height |-> height]
  <2>1. r \in HistoryRecord /\ r.height = height
    BY <1>0, <1>2 DEF HistoryRecord
  <2>2. states'[v] = Append(states[v], r) BY <1>0, <1>2 DEF Appended
  <2> HIDE DEF r
  <2>3. states[v] \in Seq(HistoryRecord) BY <1>0
  <2>4. /\ Append(states[v], r) \in Seq(HistoryRecord)
        /\ Len(Append(states[v], r)) = Len(states[v]) + 1
        /\ \A i \in 1..Len(states[v]) : Append(states[v], r)[i] = states[v][i]
        /\ Append(states[v], r)[Len(states[v]) + 1] = r
        /\ Append(states[v], r) # <<>>
    BY <2>1, <2>3
  <2> QED BY Zenon, <1>0, <1>2, <2>1, <2>2, <2>4
<1> QED BY <1>1, <1>2 DEF Saves, SetSuperNode, IndexAfter

(* A save keeps the index the inverse of the records: the account it       *)
(* writes was free or already the node's own, and the one it replaces is   *)
(* dropped.                                                                *)
LEMMA SaveKeepsIndex ==
  ASSUME IInv, NEW v \in Validators, Saves(v)
  PROVE  /\ account' \in [Validators -> Accounts \cup {None}]
         /\ accountIdx' \in [Accounts -> Validators \cup {None}]
         /\ AccountIndexExact'
<1>0. /\ account \in [Validators -> Accounts \cup {None}]
      /\ accountIdx \in [Accounts -> Validators \cup {None}]
      /\ AccountIndexExact
  BY DEF IInv, TypeOK
<1>1. PICK a \in Accounts :
        /\ accountIdx[a] \in {None, v}
        /\ account' = [account EXCEPT ![v] = a]
        /\ accountIdx' = [b \in Accounts |->
             IF b = a THEN v ELSE IF b = account[v] THEN None ELSE accountIdx[b]]
  BY DEF Saves, SetSuperNode, IndexAfter
<1>2. account' \in [Validators -> Accounts \cup {None}] BY <1>0, <1>1
<1>3. accountIdx' \in [Accounts -> Validators \cup {None}] BY <1>0, <1>1
<1>4. ASSUME NEW w \in Validators PROVE Registered(w)' <=> account'[w] # None
  <2>1. CASE w = v
    <3>1. states'[v] # <<>> BY SavedHistory
    <3>2. account'[v] # None BY <1>0, <1>1, ConstantsAssumption
    <3> QED BY <2>1, <3>1, <3>2 DEF Registered
  <2>2. CASE w # v
    <3>1. states'[w] = states[w] BY <2>2, SavedHistory
    <3>2. account'[w] = account[w] BY <1>0, <1>1, <2>2
    <3> QED BY <1>0, <3>1, <3>2 DEF AccountIndexExact, Registered
  <2> QED BY <2>1, <2>2
<1>5. ASSUME NEW w \in Validators, NEW b \in Accounts
      PROVE  account'[w] = b <=> accountIdx'[b] = w
  BY <1>0, <1>1, ConstantsAssumption DEF AccountIndexExact
<1> QED BY <1>2, <1>3, <1>4, <1>5 DEF AccountIndexExact

(* The heights of a history are heights.                                   *)
LEMMA RecordHeights ==
  ASSUME IInv, NEW v \in Validators, NEW i \in 1..Len(states[v])
  PROVE  states[v][i].height \in 1..MaxHeight /\ states[v][i].height \in Nat
<1>1. states[v] \in Seq(HistoryRecord) BY DEF IInv, TypeOK
<1>2. states[v][i] \in HistoryRecord BY <1>1
<1> QED BY <1>2 DEF HistoryRecord

(* A record of the current height goes last, so histories stay sorted.     *)
LEMMA SaveKeepsSorted ==
  ASSUME IInv, NEW v \in Validators, Saves(v), height' = height
  PROVE  HistorySorted'
<1>0. /\ states \in [Validators -> Seq(HistoryRecord)] /\ height \in 1..MaxHeight
      /\ HistorySorted
  BY DEF IInv, TypeOK
<1>1. SUFFICES ASSUME NEW w \in Validators
               PROVE  /\ \A i \in 1..Len(states'[w]) : states'[w][i].height <= height
                      /\ \A i, j \in 1..Len(states'[w]) :
                           i <= j => states'[w][i].height <= states'[w][j].height
  BY DEF HistorySorted
<1>2. CASE states'[w] = states[w] BY <1>0, <1>2 DEF HistorySorted
<1>3. CASE /\ Len(states'[w]) = Len(states[w]) + 1
           /\ \A i \in 1..Len(states[w]) : states'[w][i] = states[w][i]
           /\ states'[w][Len(states'[w])].height = height
  <2>1. /\ \A i \in 1..Len(states[w]) : states[w][i].height <= height
        /\ \A i, j \in 1..Len(states[w]) :
             i <= j => states[w][i].height <= states[w][j].height
    BY Zenon, <1>0 DEF HistorySorted
  <2>2. Len(states[w]) \in Nat /\ height \in Nat BY <1>0
  <2> DEFINE n == Len(states[w])
  <2>3. \A i \in 1..n : states[w][i].height \in Nat BY RecordHeights
  <2>4. /\ Len(states'[w]) = n + 1 /\ states'[w][n + 1].height = height
        /\ \A i \in 1..n : states'[w][i].height = states[w][i].height
    BY <1>3
  <2> HIDE DEF n
  <2>5. \A i \in 1..(n + 1) : i \in 1..n \/ i = n + 1 BY <2>2 DEF n
  <2>6. ASSUME NEW i \in 1..(n + 1) PROVE states'[w][i].height <= height
    <3>1. CASE i \in 1..n
      <4>1. states'[w][i].height = states[w][i].height
        BY <2>4, <3>1
      <4>2. states[w][i].height <= height
        BY <2>1, <3>1 DEF n
      <4> QED
        BY <4>1, <4>2
    <3>2. CASE i = n + 1
      BY <2>2, <2>4, <3>2
    <3> QED
      BY <2>5, <3>1, <3>2
  <2>7. ASSUME NEW i \in 1..(n + 1), NEW j \in 1..(n + 1), i <= j
        PROVE  states'[w][i].height <= states'[w][j].height
    <3>1. CASE j = n + 1 BY <2>4, <2>6, <3>1
    <3>2. CASE j \in 1..n
      <4>1. i \in 1..n BY <2>2, <2>7, <3>2 DEF n
      <4> QED BY <2>1, <2>4, <2>7, <3>2, <4>1 DEF n
    <3> QED BY <2>5, <3>1, <3>2
  <2> QED BY <2>4, <2>6, <2>7
<1> QED BY <1>2, <1>3, SavedHistory

(* The empty registry satisfies the invariant.                             *)
LEMMA InitIInv == Init => IInv
BY ConstantsAssumption
   DEF Init, IInv, TypeOK, AccountIndexExact, HistorySorted, Registered, Statuses

(* Every step preserves the invariant, by its shape.                       *)
LEMMA NextIInv == IInv /\ [Next]_vars => IInv'
<1> SUFFICES ASSUME IInv, [Next]_vars PROVE IInv'
  OBVIOUS
<1>1. CASE UNCHANGED vars
  BY <1>1 DEF vars, IInv, TypeOK, AccountIndexExact, HistorySorted, Registered
<1>2. CASE Next
  <2>1. Shape BY <1>2, StepShape
  <2>2. CASE height' = height /\ \E v \in Validators : Saves(v)
    <3>1. PICK v \in Validators : Saves(v) BY <2>2
    <3>2. TypeOK'
      BY Zenon, <2>1, <2>2, <3>1, SavedHistory, SaveKeepsIndex DEF Shape, TypeOK, IInv
    <3> QED BY <2>2, <3>1, <3>2, SaveKeepsIndex, SaveKeepsSorted DEF IInv
  <2>3. CASE UNCHANGED registry /\ height' \in {height, height + 1} \cap (1..MaxHeight)
    <3>1. TypeOK' BY <2>1, <2>3 DEF Shape, TypeOK, IInv, registry
    <3>2. AccountIndexExact'
      BY <2>3 DEF IInv, AccountIndexExact, Registered, registry
    <3>3. ASSUME NEW v \in Validators, NEW i \in 1..Len(states[v])
          PROVE  states[v][i].height <= height'
      <4>1. states[v][i].height \in 1..MaxHeight /\ height \in 1..MaxHeight
        BY RecordHeights DEF IInv, TypeOK
      <4>2. states[v][i].height <= height BY DEF IInv, HistorySorted
      <4> QED BY <2>3, <4>1, <4>2
    <3>4. HistorySorted' BY <2>3, <3>3 DEF IInv, HistorySorted, registry
    <3> QED BY <3>1, <3>2, <3>4 DEF IInv
  <2> QED BY <2>1, <2>2, <2>3 DEF Shape
<1> QED BY <1>1, <1>2

(* Every reachable state of the registry satisfies the invariant.          *)
THEOREM Invariance == Spec => []IInv
BY InitIInv, NextIInv, PTL DEF Spec

(* Records, index and histories of x/supernode keep their types under all  *)
(* messages, hooks and audit transitions.                                  *)
THEOREM TypeCorrect == Spec => []TypeOK
<1>1. IInv => TypeOK BY DEF IInv
<1> QED BY <1>1, Invariance, PTL

(* The account index is exact in every reachable state (SetSuperNode).     *)
THEOREM IndexCorrect == Spec => []AccountIndexExact
<1>1. IInv => AccountIndexExact BY DEF IInv
<1> QED BY <1>1, Invariance, PTL

(* What DetermineStateAtBlock assumes of a history always holds.           *)
THEOREM SortedCorrect == Spec => []HistorySorted
<1>1. IInv => HistorySorted BY DEF IInv
<1> QED BY <1>1, Invariance, PTL
-----------------------------------------------------------------------------
(* A record appended in the current block does not change what the history *)
(* says about an earlier height.                                           *)
LEMMA PastStateKept ==
  ASSUME IInv, NEW v \in Validators, Saves(v),
         NEW h \in 1..(height - 1), NEW w \in Validators, NEW s
  PROVE  StateAtBlock(states'[w], h, s) <=> StateAtBlock(states[w], h, s)
<1>1. CASE states'[w] = states[w] BY <1>1
<1>2. CASE /\ Len(states'[w]) = Len(states[w]) + 1
           /\ \A i \in 1..Len(states[w]) : states'[w][i] = states[w][i]
           /\ states'[w][Len(states'[w])].height = height
  <2> DEFINE n == Len(states[w])
             old == states[w]
             new == states'[w]
  <2>1. /\ n \in Nat /\ height \in Nat /\ h \in Nat /\ h < height
        /\ Len(old) = n /\ Len(new) = n + 1
        /\ \A i \in 1..n : new[i] = old[i]
        /\ new[n + 1].height = height
    BY <1>2 DEF IInv, TypeOK
  <2> HIDE DEF n, old, new
  <2>2. ASSUME StateAtBlock(new, h, s) PROVE StateAtBlock(old, h, s)
    <3>1. PICK i \in 1..(n + 1) : /\ new[i].height <= h
                                  /\ i < n + 1 => new[i + 1].height > h
                                  /\ new[i].state = s
      BY <2>1, <2>2 DEF StateAtBlock
    <3>2. i \in 1..n BY <2>1, <3>1
    <3>3. i < n => (i + 1 \in 1..n /\ i < n + 1) BY <2>1, <3>2
    <3> QED BY <2>1, <3>1, <3>2, <3>3 DEF StateAtBlock
  <2>3. ASSUME StateAtBlock(old, h, s) PROVE StateAtBlock(new, h, s)
    <3>1. PICK i \in 1..n : /\ old[i].height <= h
                            /\ i < n => old[i + 1].height > h
                            /\ old[i].state = s
      BY <2>1, <2>3 DEF StateAtBlock
    <3>2. new[i + 1].height > h
      <4>1. CASE i < n
        <5>1. i + 1 \in 1..n BY <2>1, <4>1
        <5> QED BY <2>1, <3>1, <4>1, <5>1
      <4>2. CASE i = n BY <2>1, <4>2
      <4> QED BY <2>1, <4>1, <4>2
    <3>3. i \in 1..(n + 1) /\ new[i] = old[i] BY <2>1
    <3> QED BY <2>1, <3>1, <3>2, <3>3 DEF StateAtBlock
  <2> QED BY <2>2, <2>3 DEF old, new
<1> QED BY <1>1, <1>2, SavedHistory

(* The top list of a past height is fixed: no later message, hook or audit *)
(* decision changes who may finalize an action registered at that height.  *)
THEOREM PastSelection == Spec => PastSelectionFixed
<1>1. ASSUME IInv, [Next]_vars, NEW h \in 1..(height - 1)
      PROVE  TopSuperNodes(h)' = TopSuperNodes(h)
  <2>1. ASSUME NEW w \in Validators
        PROVE  StateAtBlock(states'[w], h, "Active")
                 <=> StateAtBlock(states[w], h, "Active")
    <3>1. CASE UNCHANGED states BY <3>1
    <3>2. CASE \E v \in Validators : Saves(v) BY <1>1, <3>2, PastStateKept
    <3> QED BY <1>1, <3>1, <3>2, StepShape DEF vars, Shape, registry
  <2>2. ActiveAt(h)' = ActiveAt(h) BY <2>1 DEF ActiveAt
  <2> QED BY <2>2 DEF TopSuperNodes
<1>2. IInv /\ [Next]_vars =>
        [\A h \in 1..(height - 1) : TopSuperNodes(h)' = TopSuperNodes(h)]_vars
  BY <1>1
<1> QED BY <1>2, Invariance, PTL DEF Spec, PastSelectionFixed
-----------------------------------------------------------------------------
(* After a transition the node is in the state appended, the others stay.  *)
LEMMA CurrentAfter ==
  ASSUME IInv, NEW v \in Validators, NEW s, NEW a,
         SetSuperNode(v, a, Appended(v, s))
  PROVE  /\ Current(v)' = s
         /\ \A w \in Validators \ {v} : Current(w)' = Current(w)
<1>0. states \in [Validators -> Seq(HistoryRecord)] BY DEF IInv, TypeOK
<1>1. states' = [states EXCEPT ![v] = Append(states[v], [state |-> s, height |-> height])]
  BY DEF SetSuperNode, Appended
<1> DEFINE r == [state |-> s, height |-> height]
<1>2. states[v] \in Seq(HistoryRecord) /\ Len(states[v]) \in Nat BY <1>0
<1>3. r.state = s OBVIOUS
<1>4. states'[v] = Append(states[v], r) BY <1>0, <1>1
<1> HIDE DEF r
<1>5. /\ Len(states'[v]) = Len(states[v]) + 1 /\ states'[v] # <<>>
      /\ states'[v][Len(states[v]) + 1] = r
  BY <1>2, <1>4
<1>6. Current(v)' = s BY <1>3, <1>5 DEF Current, Registered
<1>7. ASSUME NEW w \in Validators \ {v} PROVE Current(w)' = Current(w)
  BY <1>0, <1>1 DEF Current, Registered
<1> QED BY <1>6, <1>7

(* Writing a record with its history unchanged changes no state.           *)
LEMMA CurrentKept ==
  ASSUME IInv, UNCHANGED states \/ \E v \in Validators : \E a : SetSuperNode(v, a, states[v])
  PROVE  \A w \in Validators : Current(w)' = Current(w)
<1>1. states' = states BY DEF IInv, TypeOK, SetSuperNode
<1> QED BY <1>1 DEF Current, Registered

(* Node v moves from one state to another and every other node stays.      *)
Moves(v, from, to) ==
  /\ Current(v) = from /\ Current(v)' = to
  /\ \A w \in Validators \ {v} : Current(w)' = Current(w)

Stays == \A w \in Validators : Current(w)' = Current(w)

(* The only step that leaves Disabled is the re-registration of a node     *)
(* whose validator is up and eligible.                                     *)
Reregisters(v) ==
  status[v] = "up" /\ Eligible(stake[v], account[v]) /\ Moves(v, "Disabled", "Active")

(* Each step changes nothing, moves one node along an edge that does not   *)
(* start at Disabled, or re-registers one.                                 *)
StepEffect ==
  \/ Stays
  \/ \E v \in Validators : \E e \in Life!Edges :
       e[1] # "Disabled" /\ Moves(v, e[1], e[2])
  \/ \E v \in Validators : Reregisters(v)

(* A successful move changes the state of its node alone.                  *)
LEMMA MoveEffect ==
  ASSUME NEW v \in Validators, NEW from, NEW to, Moves(v, from, to),
         <<from, to>> \in Life!Edges, from # "Disabled"
  PROVE  StepEffect
<1> DEFINE e == <<from, to>>
<1>1. e \in Life!Edges /\ e[1] # "Disabled" /\ Moves(v, e[1], e[2]) OBVIOUS
<1> HIDE DEF e
<1> QED BY <1>1 DEF StepEffect

(* A keeper transition takes its node from one of the states it accepts to *)
(* the state it is for.                                                    *)
LEMMA TransitionEffect ==
  ASSUME IInv, NEW v \in Validators, NEW s, Transition(v, s),
         <<Current(v), s>> \in Life!Edges, Current(v) # "Disabled"
  PROVE  StepEffect
<1>1. Moves(v, Current(v), s) BY CurrentAfter DEF Transition, Moves
<1> QED BY <1>1, MoveEffect

(* A registered node is in one of the five states.                         *)
LEMMA CurrentType ==
  ASSUME IInv, NEW v \in Validators
  PROVE  /\ Registered(v) => Current(v) \in NodeStates
         /\ ~Registered(v) => Current(v) = "None"
<1>1. CASE Registered(v)
  <2> DEFINE n == Len(states[v])
  <2>1. states[v] \in Seq(HistoryRecord) /\ states[v] # <<>>
    BY <1>1 DEF IInv, TypeOK, Registered
  <2>2. n \in Nat /\ n # 0 BY <2>1
  <2>3. states[v][n] \in HistoryRecord BY <2>1, <2>2
  <2>4. states[v][n].state \in NodeStates BY <2>3 DEF HistoryRecord
  <2> QED BY <1>1, <2>4 DEF Current
<1> QED BY <1>1 DEF Current

(* The same after a step.                                                  *)
LEMMA CurrentTypeNext ==
  IInv' => \A v \in Validators : Current(v)' \in NodeStates \cup {"None"}
<1>1. IInv => \A v \in Validators : Current(v) \in NodeStates \cup {"None"}
  BY CurrentType
<1>2. (IInv => \A v \in Validators : Current(v) \in NodeStates \cup {"None"})'
  BY <1>1, PTL
<1> QED BY <1>2

(* What the messages of operators do to the states of the nodes.           *)
LEMMA OperatorEffect ==
  ASSUME IInv, NEW v \in Validators, Operator(v)
  PROVE  StepEffect
<1> USE DEF Life!Edges, Life!NodeStates, Life!Unregistered, NodeStates
<1>1. ASSUME NEW a \in Accounts, RegisterSupernode(v, a) PROVE StepEffect
  <2>1. CASE ~Registered(v) /\ SetSuperNode(v, a, Appended(v, "Active"))
    <3>1. Moves(v, "None", "Active")
      BY <2>1, CurrentAfter, CurrentType DEF Moves
    <3> QED BY <3>1, MoveEffect
  <2>2. CASE /\ Current(v) = "Disabled" /\ Transition(v, "Active")
             /\ Eligible(stake[v], account[v]) /\ status[v] = "up"
    <3>1. Moves(v, "Disabled", "Active")
      BY <2>2, CurrentAfter DEF Transition, Moves
    <3> QED BY <2>2, <3>1 DEF StepEffect, Reregisters
  <2> QED BY <1>1, <2>1, <2>2 DEF RegisterSupernode
<1>2. ASSUME NEW a \in Accounts, UpdateSupernode(v, a) PROVE StepEffect
  BY Zenon, <1>2, CurrentKept DEF UpdateSupernode, StepEffect, Stays
<1>3. CASE DeregisterSupernode(v)
  <2>1. CASE Current(v) = "Disabled"
    BY <1>3, <2>1, CurrentKept DEF DeregisterSupernode, StepEffect, Stays
  <2>2. CASE Current(v) # "Disabled"
    BY <1>3, <2>2, CurrentType, TransitionEffect DEF DeregisterSupernode
  <2> QED BY <2>1, <2>2
<1>4. CASE StartSupernode(v) BY <1>4, TransitionEffect DEF StartSupernode
<1>5. CASE StopSupernode(v)
  BY Zenon, <1>5, CurrentType, TransitionEffect DEF StopSupernode
<1> QED BY <1>1, <1>2, <1>3, <1>4, <1>5 DEF Operator

(* What the staking hooks do to the states of the nodes.                   *)
LEMMA StakingEffect ==
  ASSUME IInv, NEW v \in Validators, Staking(v)
  PROVE  StepEffect
<1> USE DEF Life!Edges, Life!NodeStates, Life!Unregistered, NodeStates
<1>1. CASE UNCHANGED registry
  BY Zenon, <1>1, CurrentKept DEF registry, StepEffect, Stays
<1>2. CASE SetSuperNodeActive(v)
  BY <1>1, <1>2, TransitionEffect DEF SetSuperNodeActive
<1>3. CASE SetSuperNodeStopped(v)
  BY <1>1, <1>3, TransitionEffect DEF SetSuperNodeStopped
<1>4. CASE FollowEligibility(v)
  BY <1>1, <1>2, <1>3, <1>4 DEF FollowEligibility
<1> QED
  BY <1>1, <1>2, <1>3, <1>4
  DEF Staking, AfterValidatorBonded, AfterValidatorBeginUnbonding,
     AfterDelegationModified, AfterValidatorRemoved, Jail, Unjail,
     RemoveSelfDelegation, registry

(* What the audit module does to the states of the nodes.                  *)
LEMMA AuditEffect ==
  ASSUME IInv, NEW v \in Validators, Audit(v)
  PROVE  StepEffect
<1> USE DEF Life!Edges, Life!NodeStates, Life!Unregistered, NodeStates
<1>1. CASE SetSuperNodePostponed(v)
  BY <1>1, TransitionEffect DEF SetSuperNodePostponed
<1>2. ASSUME NEW t \in {"Active", "StorageFull"}, RecoverSuperNodeFromPostponed(v, t)
      PROVE  StepEffect
  BY <1>2, TransitionEffect DEF RecoverSuperNodeFromPostponed
<1>3. ASSUME NEW full \in BOOLEAN, ReportStorage(v, full) PROVE StepEffect
  BY <1>3, TransitionEffect DEF ReportStorage
<1> QED BY <1>1, <1>2, <1>3 DEF Audit

(* Every step of the registry has one of the three effects.                *)
LEMMA NextEffect == IInv /\ [Next]_vars => StepEffect
<1> SUFFICES ASSUME IInv, [Next]_vars PROVE StepEffect
  OBVIOUS
<1>1. CASE UNCHANGED states BY <1>1, CurrentKept DEF StepEffect, Stays
<1>2. CASE \E v \in Validators : Operator(v) \/ Staking(v) \/ Audit(v)
  BY <1>2, OperatorEffect, StakingEffect, AuditEffect
<1> QED BY <1>1, <1>2 DEF Next, NextBlock, vars

(* Hooks and audit decisions never revive a deregistered supernode.        *)
THEOREM DisabledIsTerminal == Spec => DisabledNeedsReregistration
<1> DEFINE Left == \A v \in Validators :
       (Current(v) = "Disabled" /\ Current(v)' # "Disabled") =>
         /\ Current(v)' = "Active"
         /\ status[v] = "up" /\ Eligible(stake[v], account[v])
<1>1. ASSUME StepEffect PROVE Left
  <2>1. CASE Stays BY <2>1 DEF Stays
  <2>2. CASE \E v \in Validators : \E e \in Life!Edges :
               e[1] # "Disabled" /\ Moves(v, e[1], e[2])
    BY <2>2 DEF Moves
  <2>3. CASE \E v \in Validators : Reregisters(v)
    BY <2>3 DEF Reregisters, Moves
  <2> QED BY <1>1, <2>1, <2>2, <2>3 DEF StepEffect
<1>2. IInv /\ [Next]_vars => [Left]_vars BY <1>1, NextEffect
<1> HIDE DEF Left
<1>3. Spec => [][Left]_vars BY <1>2, Invariance, PTL DEF Spec
<1> QED BY <1>3 DEF DisabledNeedsReregistration, Left

(* The registry implements the state diagram of SupernodeStateMachine.     *)
THEOREM Refinement == Spec => FollowsStateMachine
<1> DEFINE life == [v \in Validators |-> Current(v)]
<1>1. Init => Life!Init
  BY DEF Init, Life!Init, Life!Unregistered, Current, Registered
<1>2. ASSUME IInv, StepEffect, IInv' PROVE [Life!Next]_life
  <2>1. \A v \in Validators : Current(v)' \in NodeStates \cup {"None"}
    BY <1>2, CurrentTypeNext
  <2>2. ASSUME NEW v \in Validators, Current(v)' # Current(v)
        PROVE  <<Current(v), Current(v)'>> \in Life!Edges
    <3>1. CASE Stays BY <2>2, <3>1 DEF Stays
    <3>2. ASSUME NEW w \in Validators, NEW e \in Life!Edges, Moves(w, e[1], e[2])
          PROVE  <<Current(v), Current(v)'>> \in Life!Edges
      <4>1. w = v BY <2>2, <3>2 DEF Moves
      <4>2. Current(v) = e[1] /\ Current(v)' = e[2] BY <3>2, <4>1 DEF Moves
      <4>3. e = <<e[1], e[2]>>
        BY DEF Life!Edges, Life!NodeStates, Life!Unregistered
      <4> QED BY <4>2, <4>3
    <3>3. ASSUME NEW w \in Validators, Reregisters(w)
          PROVE  <<Current(v), Current(v)'>> \in Life!Edges
      BY <2>2, <3>3 DEF Reregisters, Moves, Life!Edges
    <3> QED BY <1>2, <3>1, <3>2, <3>3 DEF StepEffect
  <2> QED BY <2>1, <2>2 DEF Life!Next, Life!NodeStates, NodeStates, Life!Unregistered
<1>3. IInv /\ IInv' /\ [Next]_vars => [Life!Next]_life BY <1>2, NextEffect
<1> HIDE DEF life
<1> QED BY <1>1, <1>3, Invariance, PTL DEF Spec, FollowsStateMachine, Life!Spec, life

-----------------------------------------------------------------------------
(* The inductive invariant: the markers are compared with the time since   *)
(* the postponement, which type correctness keeps apart from NotMarked.    *)
AuditInv == AuditTypeOK /\ MarkersMatchReason

(* Only Active nodes are postponed, only Postponed ones recover, so one    *)
(* epoch end never does both to a node.                                    *)
LEMMA VerdictFacts ==
  ASSUME NEW v \in Nodes, NEW verdict \in [Nodes -> Verdicts]
  PROVE  /\ PostponedFor(v, verdict) \in Reasons
         /\ PostponedFor(v, verdict) # "none" => state[v] = "Active"
         /\ stMark[v] => PostponedFor(v, verdict) \in {"none", "storage_truth"}
         /\ Recovers(v, verdict) => state[v] = "Postponed"
<1>1. postponeReason(v) \in Reasons \ {"storage_truth"}
  BY DEF postponeReason, Reasons
<1> QED
  BY <1>1 DEF PostponedFor, Recovers, Reasons

(* What an epoch end does to the state of a node.                          *)
LEMMA EpochMoves ==
  ASSUME NEW v \in Nodes, NEW verdict \in [Nodes -> Verdicts],
         EnforceEpochEnd(verdict)
  PROVE  \/ /\ state[v] = "Active" /\ state'[v] = "Postponed"
            /\ PostponedFor(v, verdict) # "none"
         \/ /\ state[v] = "Postponed" /\ state'[v] \in {"Active", "StorageFull"}
            /\ Recovers(v, verdict) /\ PostponedFor(v, verdict) = "none"
         \/ /\ state'[v] = state[v]
            /\ ~Recovers(v, verdict) /\ PostponedFor(v, verdict) = "none"
<1>1. state'[v] = StateAfterEpoch(v, verdict)
  BY DEF EnforceEpochEnd
<1>2. RecoveryTarget(v) \in {"Active", "StorageFull"}
  BY DEF RecoveryTarget
<1> QED
  BY Zenon, <1>1, <1>2, VerdictFacts DEF StateAfterEpoch

(* Report and evidence stores of a new epoch are well typed.               *)
LEMMA ShiftType ==
  ASSUME AuditTypeOK, ShiftHistory
  PROVE  /\ epoch' \in 0..(ConsecutiveEpochs - 1)
         /\ report' \in [Nodes -> Report]
         /\ past' \in [PastEpochs -> [Nodes -> PastReport]]
         /\ bad' \in [EvidenceWindow -> [Nodes -> [Kinds -> Nat]]]
<1>1. epoch' \in 0..(ConsecutiveEpochs - 1)
  <2>1. epoch \in 0..(ConsecutiveEpochs - 1) /\ ConsecutiveEpochs \in Nat \ {0}
    BY AuditAssumption DEF AuditTypeOK
  <2>2. epoch' = IF epoch < ConsecutiveEpochs - 1 THEN epoch + 1 ELSE epoch
    BY Zenon DEF ShiftHistory
  <2> QED BY <2>1, <2>2
<1>2. NothingSeen \in Observations
  BY DEF NothingSeen, Observations
<1>3. report' \in [Nodes -> Report]
  <2>1. NoReport \in Report
    BY <1>2 DEF NoReport, Report
  <2> QED BY Zenon, <2>1 DEF ShiftHistory
<1>4. past' \in [PastEpochs -> [Nodes -> PastReport]]
  <2>1. \A v \in Nodes : Digest(report[v]) \in PastReport
    <3>1. \A v \in Nodes : report[v] \in Report
      BY DEF AuditTypeOK
    <3> QED BY <3>1 DEF Digest, PastReport, Report
  <2>2. \A k \in PastEpochs : k # 1 => k - 1 \in PastEpochs
    BY AuditAssumption DEF PastEpochs
  <2>3. \A k \in PastEpochs : k # 1 => past[k - 1] \in [Nodes -> PastReport]
    BY <2>2 DEF AuditTypeOK
  <2>4. [v \in Nodes |-> Digest(report[v])] \in [Nodes -> PastReport]
    BY <2>1
  <2>5. past' = [k \in PastEpochs |->
           IF k = 1 THEN [v \in Nodes |-> Digest(report[v])] ELSE past[k - 1]]
    BY DEF ShiftHistory
  <2> QED BY <2>3, <2>4, <2>5
<1>5. bad' \in [EvidenceWindow -> [Nodes -> [Kinds -> Nat]]]
  <2>1. NoEvidence \in [Nodes -> [Kinds -> Nat]]
    BY DEF NoEvidence
  <2>2. \A k \in EvidenceWindow : k # 0 => k - 1 \in EvidenceWindow
    BY AuditAssumption DEF EvidenceWindow
  <2>3. \A k \in EvidenceWindow : k # 0 => bad[k - 1] \in [Nodes -> [Kinds -> Nat]]
    BY <2>2 DEF AuditTypeOK
  <2>4. bad' = [k \in EvidenceWindow |-> IF k = 0 THEN NoEvidence ELSE bad[k - 1]]
    BY DEF ShiftHistory
  <2> QED BY <2>1, <2>3, <2>4
<1> QED BY <1>1, <1>3, <1>4, <1>5
-----------------------------------------------------------------------------
(* An epoch counter that stops at RecoveryEpochs stays in its range.       *)
LEMMA OlderType ==
  ASSUME NEW age \in 0..RecoveryEpochs
  PROVE  Older(age) \in 1..RecoveryEpochs
BY AuditAssumption DEF Older

(* The records an epoch end writes are well typed.                         *)
LEMMA EnforceType ==
  ASSUME AuditTypeOK, NEW verdict \in [Nodes -> Verdicts], EnforceEpochEnd(verdict)
  PROVE  /\ state' \in [Nodes -> SupernodeStates \cup {"None"}]
         /\ reason' \in [Nodes -> Reasons]
         /\ since' \in [Nodes -> 0..RecoveryEpochs]
         /\ afMark' \in [Nodes -> {NotMarked} \cup 1..RecoveryEpochs]
         /\ stMark' \in [Nodes -> BOOLEAN]
<1>0. 1 \in 1..RecoveryEpochs /\ 0 \in 0..RecoveryEpochs
      /\ 1..RecoveryEpochs \subseteq 0..RecoveryEpochs
  BY AuditAssumption
<1>1. state' \in [Nodes -> SupernodeStates \cup {"None"}]
  <2>1. \A v \in Nodes : StateAfterEpoch(v, verdict) \in SupernodeStates \cup {"None"}
    BY DEF AuditTypeOK, StateAfterEpoch, RecoveryTarget, SupernodeStates
  <2> QED BY Zenon, <2>1 DEF EnforceEpochEnd
<1>2. reason' \in [Nodes -> Reasons]
  <2>1. "none" \in Reasons
    BY DEF Reasons
  <2> QED BY <2>1, VerdictFacts DEF EnforceEpochEnd, AuditTypeOK
<1>3. since' \in [Nodes -> 0..RecoveryEpochs]
  <2>1. \A v \in Nodes : Older(since[v]) \in 1..RecoveryEpochs
    BY OlderType DEF AuditTypeOK
  <2> QED BY Zenon, <2>1, <1>0 DEF EnforceEpochEnd
<1>4. afMark' \in [Nodes -> {NotMarked} \cup 1..RecoveryEpochs]
  <2>1. \A v \in Nodes : afMark[v] # NotMarked => afMark[v] \in 0..RecoveryEpochs
    BY <1>0 DEF AuditTypeOK
  <2>2. \A v \in Nodes : afMark[v] # NotMarked => Older(afMark[v]) \in 1..RecoveryEpochs
    BY <2>1, OlderType
  <2>3. \A v \in Nodes : AfMarkAfterEpoch(v, verdict) \in {NotMarked} \cup 1..RecoveryEpochs
    BY <2>2, <1>0 DEF AfMarkAfterEpoch
  <2> QED BY Zenon, <2>3 DEF EnforceEpochEnd
<1>5. stMark' \in [Nodes -> BOOLEAN]
  <2>1. \A v \in Nodes : StMarkAfterEpoch(v, verdict) \in BOOLEAN
    BY DEF StMarkAfterEpoch
  <2> QED BY <2>1 DEF EnforceEpochEnd
<1> QED BY <1>1, <1>2, <1>3, <1>4, <1>5

(* The three ways through an epoch end keep the markers and the reason in  *)
(* step: a postponement writes all of them, a recovery leaves Postponed,   *)
(* and otherwise both ages grow alike.                                     *)
LEMMA EnforceMarkers ==
  ASSUME AuditInv, NEW verdict \in [Nodes -> Verdicts], EnforceEpochEnd(verdict)
  PROVE  MarkersMatchReason'
<1> SUFFICES ASSUME NEW v \in Nodes, state'[v] = "Postponed"
             PROVE  /\ reason'[v] # "none"
                    /\ stMark'[v] <=> reason'[v] = "storage_truth"
                    /\ afMark'[v] = IF reason'[v] = "action_finalization"
                                    THEN since'[v] ELSE NotMarked
  BY Zenon DEF MarkersMatchReason
<1> DEFINE p == PostponedFor(v, verdict)
<1>1. /\ StateAfterEpoch(v, verdict) = "Postponed"
      /\ reason'[v] = IF p # "none" THEN p
                      ELSE IF Recovers(v, verdict) THEN "none" ELSE reason[v]
      /\ since'[v] = IF state[v] # "Postponed" THEN 1 ELSE Older(since[v])
      /\ afMark'[v] = AfMarkAfterEpoch(v, verdict)
      /\ stMark'[v] = StMarkAfterEpoch(v, verdict)
  BY Zenon DEF EnforceEpochEnd
<1>2. CASE state[v] = "Active" /\ p # "none"
  <2>1. p \in Reasons /\ (stMark[v] => p = "storage_truth")
    BY <1>2, VerdictFacts
  <2>2. ~Recovers(v, verdict)
    BY <1>2, VerdictFacts
  <2>3. stMark'[v] <=> p = "storage_truth"
    BY Zenon, <2>1, <2>2, <1>1 DEF StMarkAfterEpoch
  <2>4. afMark'[v] = IF p = "action_finalization" THEN 1 ELSE NotMarked
    BY Zenon, <2>1, <1>1, <1>2 DEF AfMarkAfterEpoch
  <2> QED BY Zenon, <2>3, <2>4, <1>1, <1>2
<1>3. CASE state[v] = "Postponed" /\ ~Recovers(v, verdict) /\ p = "none"
  <2>1. /\ reason[v] # "none"
        /\ stMark[v] <=> reason[v] = "storage_truth"
        /\ afMark[v] = IF reason[v] = "action_finalization" THEN since[v] ELSE NotMarked
    BY Zenon, <1>3 DEF AuditInv, MarkersMatchReason
  <2>2. reason'[v] = reason[v] /\ since'[v] = Older(since[v])
    BY Zenon, <1>1, <1>3
  <2>3. stMark'[v] <=> stMark[v]
    BY Zenon, <1>1, <1>3 DEF StMarkAfterEpoch
  <2>4. afMark'[v] = IF afMark[v] = NotMarked THEN NotMarked ELSE Older(afMark[v])
    BY Zenon, <1>1, <1>3 DEF AfMarkAfterEpoch
  <2>5. since[v] # NotMarked
    BY AuditAssumption DEF AuditInv, AuditTypeOK, NotMarked
  <2> QED BY Zenon, <2>1, <2>2, <2>3, <2>4, <2>5
<1>4. \/ state[v] = "Active" /\ p # "none"
      \/ state[v] = "Postponed" /\ ~Recovers(v, verdict) /\ p = "none"
  BY Zenon, EpochMoves
<1> QED BY Zenon, <1>2, <1>3, <1>4
-----------------------------------------------------------------------------
(* The genesis state satisfies the invariant.                              *)
LEMMA InitAuditInv == InitAudit => AuditInv
<1> SUFFICES ASSUME InitAudit PROVE AuditInv
  OBVIOUS
<1>1. NothingSeen \in Observations
  BY DEF NothingSeen, Observations
<1>2. NoReport \in Report /\ Digest(NoReport) \in PastReport
  BY <1>1 DEF NoReport, Report, Digest, PastReport
<1>3. NoEvidence \in [Nodes -> [Kinds -> Nat]]
  BY DEF NoEvidence
<1>4. 0 \in 0..(ConsecutiveEpochs - 1) /\ 0 \in 0..RecoveryEpochs
  BY AuditAssumption
<1>5. /\ state \in [Nodes -> SupernodeStates \cup {"None"}]
      /\ reason \in [Nodes -> Reasons]
      /\ afMark \in [Nodes -> {NotMarked} \cup 1..RecoveryEpochs]
      /\ stMark \in [Nodes -> BOOLEAN]
  BY DEF InitAudit, Reasons
<1>6. /\ since \in [Nodes -> 0..RecoveryEpochs] /\ epoch \in 0..(ConsecutiveEpochs - 1)
      /\ active \subseteq Nodes /\ targets \subseteq Nodes
      /\ report \in [Nodes -> Report]
  BY <1>2, <1>4 DEF InitAudit
<1>7. /\ past \in [PastEpochs -> [Nodes -> PastReport]]
      /\ bad \in [EvidenceWindow -> [Nodes -> [Kinds -> Nat]]]
  BY <1>2, <1>3 DEF InitAudit
<1>8. MarkersMatchReason
  BY DEF InitAudit, MarkersMatchReason
<1> QED BY <1>5, <1>6, <1>7, <1>8 DEF AuditInv, AuditTypeOK

(* Operators and staking hooks take nodes out of Postponed, never into it. *)
LEMMA SupernodeAuditInv ==
  ASSUME AuditInv, NEW v \in Nodes, SupernodeStep(v)
  PROVE  AuditInv'
<1>1. PICK s \in {"Active", "Stopped", "Disabled"} : Enter(v, s)
  BY DEF SupernodeStep, Register, Start, Stop, Deregister
<1>2. UNCHANGED <<epoch, active, targets, report, past, bad, afMark, stMark>>
  BY DEF SupernodeStep
<1>3. 0 \in 0..RecoveryEpochs /\ "none" \in Reasons /\ s \in SupernodeStates
  BY AuditAssumption DEF Reasons, SupernodeStates
<1>4. AuditTypeOK'
  BY <1>1, <1>2, <1>3 DEF AuditInv, AuditTypeOK, Enter, PastReport
<1>5. MarkersMatchReason'
  <2>1. \A w \in Nodes : state'[w] = "Postponed" =>
          /\ state[w] = "Postponed"
          /\ reason'[w] = reason[w] /\ since'[w] = since[w]
    BY <1>1 DEF Enter, AuditInv, AuditTypeOK
  <2> QED BY <1>2, <2>1 DEF AuditInv, MarkersMatchReason
<1> QED BY <1>4, <1>5 DEF AuditInv

(* Evidence changes the counts of the running epoch alone.                 *)
LEMMA EvidenceAuditInv ==
  ASSUME AuditInv, NEW v \in Nodes, NEW k \in Kinds, CreateEvidence(v, k)
  PROVE  AuditInv'
<1>1. 0 \in EvidenceWindow
  BY AuditAssumption DEF EvidenceWindow
<1>2. bad' \in [EvidenceWindow -> [Nodes -> [Kinds -> Nat]]]
  <2>1. bad[0] \in [Nodes -> [Kinds -> Nat]] /\ bad[0][v] \in [Kinds -> Nat]
    BY <1>1 DEF AuditInv, AuditTypeOK
  <2>2. [bad[0] EXCEPT ![v][k] = @ + 1] \in [Nodes -> [Kinds -> Nat]]
    <3>1. bad[0][v][k] + 1 \in Nat
      <4>1. \A x \in Nat : x + 1 \in Nat
        OBVIOUS
      <4> QED BY Zenon, <2>1, <4>1
    <3>2. [bad[0][v] EXCEPT ![k] = bad[0][v][k] + 1] \in [Kinds -> Nat]
      BY Zenon, <2>1, <3>1
    <3> QED BY Zenon, <2>1, <3>2
  <2>3. bad' = [bad EXCEPT ![0] = [bad[0] EXCEPT ![v][k] = @ + 1]]
    BY Zenon DEF CreateEvidence
  <2> QED BY Zenon, <2>2, <2>3 DEF AuditInv, AuditTypeOK
<1>3. UNCHANGED <<state, reason, since, epoch, active, targets, report, past,
                  afMark, stMark>>
  BY DEF CreateEvidence
<1> QED BY <1>2, <1>3 DEF AuditInv, AuditTypeOK, MarkersMatchReason

(* A report moves its sender between Active and StorageFull at most.       *)
LEMMA ReportAuditInv ==
  ASSUME AuditInv, NEW v \in Nodes, NEW host \in {"ok", "bad"}, NEW disk \in Disks,
         NEW obs \in Observations, SubmitEpochReport(v, host, disk, obs)
  PROVE  AuditInv'
<1>1. UNCHANGED <<reason, since, epoch, active, targets, past, bad, afMark, stMark>>
  BY DEF SubmitEpochReport
<1>2. /\ StateAfterReport(v, disk) \in SupernodeStates \cup {"None"}
      /\ StateAfterReport(v, disk) = "Postponed" => state[v] = "Postponed"
  BY DEF StateAfterReport, AuditInv, AuditTypeOK, SupernodeStates
<1>3. state' = [state EXCEPT ![v] = StateAfterReport(v, disk)]
  BY DEF SubmitEpochReport
<1>4. report' \in [Nodes -> Report]
  <2>1. [sent |-> TRUE, host |-> host, disk |-> disk, obs |-> obs] \in Report
    BY AuditAssumption DEF Report
  <2> QED BY <2>1 DEF SubmitEpochReport, AuditInv, AuditTypeOK
<1>5. AuditTypeOK'
  BY Zenon, <1>1, <1>2, <1>3, <1>4 DEF AuditInv, AuditTypeOK
<1>6. \A w \in Nodes : state'[w] = "Postponed" => state[w] = "Postponed"
  BY <1>2, <1>3 DEF AuditInv, AuditTypeOK
<1> QED BY <1>1, <1>5, <1>6 DEF AuditInv, MarkersMatchReason

(* Every step preserves the invariant.                                     *)
LEMMA NextAuditInv == AuditInv /\ [NextAudit]_auditVars => AuditInv'
<1> SUFFICES ASSUME AuditInv, [NextAudit]_auditVars PROVE AuditInv'
  OBVIOUS
<1>1. ASSUME NEW verdict \in [Nodes -> Verdicts], EndEpoch(verdict) PROVE AuditInv'
  <2>1. active' \subseteq Nodes /\ targets' \subseteq Nodes
    BY <1>1 DEF EndEpoch, AnchorEpoch
  <2> QED
    BY Zenon, <1>1, <2>1, EnforceType, EnforceMarkers, ShiftType DEF EndEpoch, AuditInv, AuditTypeOK
<1>2. CASE UNCHANGED auditVars
  BY Zenon, <1>2 DEF auditVars, AuditInv, AuditTypeOK, MarkersMatchReason
<1> QED
  BY <1>1, <1>2, SupernodeAuditInv, EvidenceAuditInv, ReportAuditInv DEF NextAudit

(* Every reachable state satisfies the inductive invariant.                *)
THEOREM AuditInvariance == SpecAudit => []AuditInv
BY InitAuditInv, NextAuditInv, PTL DEF SpecAudit

(* The stored records of x/audit and the states it writes to x/supernode   *)
(* keep their types, through every epoch end, report and evidence.         *)
THEOREM AuditTypeCorrect == SpecAudit => []AuditTypeOK
<1>1. AuditInv => AuditTypeOK
  BY DEF AuditInv
<1> QED BY <1>1, AuditInvariance, PTL

(* EnforceEpochEnd keeps the recovery markers of a Postponed node in step  *)
(* with the reason of its state record, for every number of nodes and      *)
(* every setting of the audit parameters.                                  *)
THEOREM MarkersCorrect == SpecAudit => []MarkersMatchReason
<1>1. AuditInv => MarkersMatchReason
  BY DEF AuditInv
<1> QED BY <1>1, AuditInvariance, PTL
-----------------------------------------------------------------------------
(* Only an epoch end takes a node from Postponed to Active or StorageFull. *)
LEMMA OnlyEpochEndRecovers ==
  ASSUME AuditTypeOK, NextAudit, NEW v \in Nodes,
         state[v] = "Postponed", state'[v] \in {"Active", "StorageFull"}
  PROVE  \E verdict \in [Nodes -> Verdicts] : EndEpoch(verdict)
<1>1. ASSUME NEW w \in Nodes, SupernodeStep(w) PROVE FALSE
  BY <1>1 DEF SupernodeStep, Register, Start, Stop, Deregister, Enter, AuditTypeOK
<1>2. ASSUME NEW w \in Nodes, NEW k \in Kinds, CreateEvidence(w, k) PROVE FALSE
  BY <1>2 DEF CreateEvidence
<1>3. ASSUME NEW w \in Nodes, NEW host \in {"ok", "bad"}, NEW disk \in Disks,
             NEW obs \in Observations, SubmitEpochReport(w, host, disk, obs)
      PROVE  FALSE
  BY Zenon, <1>3 DEF SubmitEpochReport, StateAfterReport, AuditTypeOK
<1> QED BY Zenon, <1>1, <1>2, <1>3 DEF NextAudit

(* shouldRecoverAtEpochEnd chooses the recovery rule by the markers; since *)
(* they agree with the reason of the postponement, the node satisfies the  *)
(* rule of that reason and no node recovers by the rule of another.        *)
THEOREM RecoveryCorrect == SpecAudit => RecoveryFitsReason
<1> DEFINE Fits(v) ==
      CASE reason[v] = "action_finalization" -> recoversFromEvidence(v, since[v])
        [] reason[v] = "storage_truth"       ->
             \E verdict \in [Nodes -> Verdicts] :
               verdict[v] = "clear" /\ EndEpoch(verdict)
        [] OTHER                             -> recoversFromReports(v)
<1> DEFINE Step == \A v \in Nodes :
      (state[v] = "Postponed" /\ state'[v] \in {"Active", "StorageFull"}) => Fits(v)
<1>1. AuditInv /\ [NextAudit]_auditVars => [Step]_auditVars
  <2> SUFFICES ASSUME AuditInv, NextAudit, NEW v \in Nodes,
                      state[v] = "Postponed", state'[v] \in {"Active", "StorageFull"}
               PROVE  Fits(v)
    BY DEF auditVars
  <2>1. PICK verdict \in [Nodes -> Verdicts] : EndEpoch(verdict)
    BY OnlyEpochEndRecovers DEF AuditInv
  <2>2. Recovers(v, verdict)
    BY Zenon, <2>1, EpochMoves DEF EndEpoch
  <2>3. /\ stMark[v] <=> reason[v] = "storage_truth"
        /\ afMark[v] = IF reason[v] = "action_finalization" THEN since[v] ELSE NotMarked
    BY Zenon DEF AuditInv, MarkersMatchReason
  <2>4. since[v] # NotMarked
    BY AuditAssumption DEF AuditInv, AuditTypeOK, NotMarked
  <2>5. shouldRecoverAtEpochEnd(v, verdict)
    BY <2>2 DEF Recovers
  <2>6. CASE reason[v] = "action_finalization"
    BY <2>3, <2>4, <2>5, <2>6 DEF shouldRecoverAtEpochEnd
  <2>7. CASE reason[v] = "storage_truth"
    BY <2>1, <2>3, <2>5, <2>7 DEF shouldRecoverAtEpochEnd
  <2>8. CASE reason[v] \notin {"action_finalization", "storage_truth"}
    BY <2>3, <2>5, <2>8 DEF shouldRecoverAtEpochEnd
  <2> QED BY <2>6, <2>7, <2>8
<1> QED BY <1>1, AuditInvariance, PTL DEF SpecAudit, RecoveryFitsReason

(* Each step of the epoch cycle moves every node along one edge of the     *)
(* diagram of SupernodeStateMachine, or leaves it where it is.             *)
LEMMA EdgeStep ==
  ASSUME AuditTypeOK, NextAudit, NEW v \in Nodes, state'[v] # state[v]
  PROVE  <<state[v], state'[v]>> \in AuditLife!Edges
<1>0. /\ state[v] \in SupernodeStates \cup {"None"}
      /\ state \in [Nodes -> SupernodeStates \cup {"None"}]
  BY DEF AuditTypeOK
<1>1. ASSUME NEW w \in Nodes, SupernodeStep(w)
      PROVE  <<state[v], state'[v]>> \in AuditLife!Edges
  <2>1. \/ state[v] \in {"None", "Disabled", "Stopped"} /\ state'[v] = "Active"
        \/ state[v] \in {"Active", "Postponed", "StorageFull"} /\ state'[v] = "Stopped"
        \/ state[v] \notin {"None", "Disabled"} /\ state'[v] = "Disabled"
    BY <1>0, <1>1 DEF SupernodeStep, Register, Start, Stop, Deregister, Enter
  <2> QED
    BY <1>0, <2>1 DEF AuditLife!Edges, AuditLife!NodeStates, AuditLife!Unregistered,
                      SupernodeStates
<1>2. ASSUME NEW w \in Nodes, NEW k \in Kinds, CreateEvidence(w, k) PROVE FALSE
  BY <1>2 DEF CreateEvidence
<1>3. ASSUME NEW w \in Nodes, NEW host \in {"ok", "bad"}, NEW disk \in Disks,
             NEW obs \in Observations, SubmitEpochReport(w, host, disk, obs)
      PROVE  <<state[v], state'[v]>> \in AuditLife!Edges
  <2>1. \/ state[v] = "Active" /\ state'[v] = "StorageFull"
        \/ state[v] = "StorageFull" /\ state'[v] = "Active"
    BY Zenon, <1>0, <1>3 DEF SubmitEpochReport, StateAfterReport
  <2> QED BY <2>1 DEF AuditLife!Edges
<1>4. ASSUME NEW verdict \in [Nodes -> Verdicts], EndEpoch(verdict)
      PROVE  <<state[v], state'[v]>> \in AuditLife!Edges
  BY Zenon, <1>4, EpochMoves DEF EndEpoch, AuditLife!Edges
<1> QED BY Zenon, <1>1, <1>2, <1>3, <1>4 DEF NextAudit

(* The epoch cycle implements the promise x/supernode makes about states:  *)
(* an epoch end neither postpones and recovers a node in one pass nor      *)
(* brings a Stopped or Disabled one back.                                  *)
THEOREM AuditRefinement == SpecAudit => AuditFollowsStateMachine
<1>1. InitAudit => AuditLife!Init
  BY DEF InitAudit, AuditLife!Init, AuditLife!Unregistered
<1>2. AuditInv /\ AuditInv' /\ [NextAudit]_auditVars => [AuditLife!Next]_state
  <2> SUFFICES ASSUME AuditInv, AuditInv', NextAudit PROVE AuditLife!Next
    BY DEF auditVars
  <2>1. state' \in [Nodes -> AuditLife!NodeStates \cup {AuditLife!Unregistered}]
    BY DEF AuditInv, AuditTypeOK, SupernodeStates, AuditLife!NodeStates, AuditLife!Unregistered
  <2> QED BY <2>1, EdgeStep DEF AuditInv, AuditLife!Next
<1> QED
  BY <1>1, <1>2, AuditInvariance, PTL DEF SpecAudit, AuditFollowsStateMachine, AuditLife!Spec
-----------------------------------------------------------------------------
(* The worker holds a batch only while it processes one.                   *)
IdleWorkerEmpty == worker \in {"select", "exited"} => batch = <<>>

BroadcastInv == BroadcastTypeOK /\ ReservationsExact /\ IdleWorkerEmpty

-----------------------------------------------------------------------------
(* Sequences of transactions.                                              *)

(* The elements of the tail of a queue are those after its head.           *)
LEMMA TailElements ==
  ASSUME NEW S, NEW q \in Seq(S), q # <<>>
  PROVE  /\ Tail(q) \in Seq(S) /\ Head(q) \in S
         /\ DOMAIN Tail(q) = 1..(Len(q) - 1) /\ DOMAIN q = 1..Len(q) /\ Len(q) >= 1
         /\ \A i \in DOMAIN Tail(q) : Tail(q)[i] = q[i + 1] /\ i + 1 \in DOMAIN q
         /\ Head(q) = q[1]
  OBVIOUS

(* Appending adds one element at the end.                                  *)
LEMMA AppendElements ==
  ASSUME NEW S, NEW q \in Seq(S), NEW e \in S
  PROVE  /\ Append(q, e) \in Seq(S)
         /\ DOMAIN Append(q, e) = 1..(Len(q) + 1) /\ DOMAIN q = 1..Len(q) /\ Len(q) \in Nat
         /\ \A i \in DOMAIN q : Append(q, e)[i] = q[i] /\ i \in DOMAIN Append(q, e)
         /\ Append(q, e)[Len(q) + 1] = e
  OBVIOUS

(* What a batch holds.                                                     *)
LEMMA RangeMember ==
  ASSUME NEW s, NEW h
  PROVE  h \in Range(s) <=> \E i \in DOMAIN s : s[i] = h
  BY DEF Range

(* The empty batch holds nothing.                                          *)
LEMMA EmptyBatch ==
  /\ Range(<<>>) = {} /\ Distinct(<<>>) /\ <<>> \in Seq(TxHashes)
  /\ \A s : Disjoint(s, <<>>) /\ Disjoint(<<>>, s)
<1>1. DOMAIN <<>> = {} /\ <<>> \in Seq(TxHashes)
  OBVIOUS
<1> QED BY Zenon, <1>1 DEF Range, Distinct, Disjoint

(* The batch after a new hash is appended.                                 *)
LEMMA AppendBatch ==
  ASSUME NEW s \in Seq(TxHashes), NEW h \in TxHashes, h \notin Range(s), Distinct(s)
  PROVE  /\ Append(s, h) \in Seq(TxHashes) /\ Distinct(Append(s, h))
         /\ Range(Append(s, h)) = Range(s) \cup {h}
<1>1. /\ Append(s, h) \in Seq(TxHashes) /\ Len(s) \in Nat
      /\ DOMAIN Append(s, h) = 1..(Len(s) + 1) /\ DOMAIN s = 1..Len(s)
      /\ \A i \in DOMAIN s : Append(s, h)[i] = s[i]
      /\ Append(s, h)[Len(s) + 1] = h
  OBVIOUS
<1>2. \A i \in DOMAIN s : s[i] # h
  BY RangeMember
<1>3. Distinct(Append(s, h))
  BY <1>1, <1>2 DEF Distinct
<1>4. \A i \in DOMAIN s : s[i] \in Range(Append(s, h))
  <2>1. \A i \in DOMAIN s : i \in DOMAIN Append(s, h) BY <1>1
  <2>. QED BY <1>1, <2>1 DEF Range
<1>5. h \in Range(Append(s, h))
  <2>1. Len(s) + 1 \in DOMAIN Append(s, h) BY <1>1
  <2>. QED BY <1>1, <2>1 DEF Range
<1>6. \A i \in DOMAIN Append(s, h) : Append(s, h)[i] \in Range(s) \cup {h}
  <2>1. \A i \in DOMAIN Append(s, h) : i \in DOMAIN s \/ i = Len(s) + 1 BY <1>1
  <2>. QED BY <1>1, <2>1 DEF Range
<1>7. Range(Append(s, h)) = Range(s) \cup {h}
  BY <1>4, <1>5, <1>6 DEF Range
<1>. QED BY <1>1, <1>3, <1>7

(* Promotions are sequences of transactions.                               *)
LEMMA BatchesAreSeqs == Batches \subseteq Seq(TxHashes)
  BY DEF Batches

-----------------------------------------------------------------------------
(* Every step keeps the variables in their types.                          *)
LEMMA TypeStep == BroadcastTypeOK /\ NextBroadcast => BroadcastTypeOK'
<1>. SUFFICES ASSUME BroadcastTypeOK, NextBroadcast PROVE BroadcastTypeOK'
  OBVIOUS
<1>. USE BroadcastAssumption DEF threadVars, workerVars, appVars, Goto
<1>1. ASSUME NEW c \in Callers, NEW b \in Batches, Insert(c, b) \/ Reset(c, b)
      PROVE  BroadcastTypeOK'
  <2>1. c \in Threads /\ b \in Seq(TxHashes) BY BatchesAreSeqs DEF Threads
  <2>. QED BY ZenonT(60), <1>1, <2>1 DEF BroadcastTypeOK, Insert, Reset
<1>2. ASSUME NEW t \in Threads, Call(t) \/ Lock(t) \/ Unlock(t) \/ Return(t)
                                \/ NilDispatcher(t)
      PROVE  BroadcastTypeOK'
  <2>1. <<>> \in Seq(TxHashes) OBVIOUS
  <2>2. CASE Call(t) \/ NilDispatcher(t)
    BY ZenonT(60), <2>1, <2>2 DEF BroadcastTypeOK, Call, NilDispatcher
  <2>3. CASE Lock(t) \/ Unlock(t) \/ Return(t)
    BY ZenonT(60), <2>1, <2>3 DEF BroadcastTypeOK, Lock, Unlock, Return
  <2>. QED BY Zenon, <1>2, <2>2, <2>3
<1>3. ASSUME NEW t \in Threads, SyncTx(t) PROVE BroadcastTypeOK'
  <2>1. Tail(txs[t]) \in Seq(TxHashes) BY <1>3 DEF BroadcastTypeOK, SyncTx
  <2>. QED BY <1>3, <2>1 DEF BroadcastTypeOK, SyncTx
<1>4. ASSUME NEW t \in Threads, Dedupe(t) PROVE BroadcastTypeOK'
  <2>1. Head(txs[t]) \in TxHashes /\ Tail(txs[t]) \in Seq(TxHashes)
    BY <1>4 DEF BroadcastTypeOK, Dedupe
  <2>2. Append(filtered[t], Head(txs[t])) \in Seq(TxHashes) BY <2>1 DEF BroadcastTypeOK
  <2>3. txs' \in [Threads -> Seq(TxHashes)] BY <1>4, <2>1 DEF BroadcastTypeOK, Dedupe
  <2>4. filtered' \in [Threads -> Seq(TxHashes)] BY <1>4, <2>2 DEF BroadcastTypeOK, Dedupe
  <2>5. pending' \subseteq TxHashes BY <1>4, <2>1 DEF BroadcastTypeOK, Dedupe
  <2>. QED BY Zenon, <1>4, <2>3, <2>4, <2>5 DEF BroadcastTypeOK, Dedupe
<1>5. ASSUME NEW t \in Threads, Push(t) \/ ReleaseFull(t) PROVE BroadcastTypeOK'
  <2>1. filtered[t] \in Seq(TxHashes) /\ <<>> \in Seq(TxHashes) BY DEF BroadcastTypeOK
  <2>2. queue' \in Seq(Seq(TxHashes))
    <3>1. Append(queue, filtered[t]) \in Seq(Seq(TxHashes)) BY <2>1 DEF BroadcastTypeOK
    <3>. QED BY Zenon, <1>5, <3>1 DEF BroadcastTypeOK, Push, ReleaseFull
  <2>3. filtered' \in [Threads -> Seq(TxHashes)]
    BY Zenon, <1>5, <2>1 DEF BroadcastTypeOK, Push, ReleaseFull
  <2>. QED BY Zenon, <1>5, <2>2, <2>3 DEF BroadcastTypeOK, Push, ReleaseFull
<1>6. ASSUME NEW b \in Batches \cup {<<>>}, CheckTx(b) PROVE BroadcastTypeOK'
  <2>1. Worker \in Threads /\ b \in Seq(TxHashes)
    <3>1. b \in Batches => b \in Seq(TxHashes) BY BatchesAreSeqs
    <3>2. <<>> \in Seq(TxHashes) OBVIOUS
    <3>. QED BY <3>1, <3>2, Zenon DEF Threads
  <2>2. left' \in Seq(TxHashes)
    <3>1. left \in Seq(TxHashes) /\ left # <<>> /\ left' = Tail(left)
      BY <1>6 DEF BroadcastTypeOK, CheckTx
    <3>. QED BY <3>1
  <2>3. CASE b = <<>> BY <1>6, <2>2, <2>3 DEF BroadcastTypeOK, CheckTx
  <2>4. CASE b # <<>>
    <3>1. /\ mempoolMtx' = Worker /\ pc' = [pc EXCEPT ![Worker] = "call"]
          /\ txs' = [txs EXCEPT ![Worker] = b]
      BY <1>6, <2>4 DEF CheckTx
    <3>. QED BY <1>6, <2>1, <2>2, <3>1 DEF BroadcastTypeOK, CheckTx
  <2>. QED BY <2>3, <2>4
<1>7. ASSUME Receive \/ SubmitFails \/ Panic \/ Finish \/ Exit PROVE BroadcastTypeOK'
  <2>1. CASE Receive
    <3>1. Head(queue) \in Seq(TxHashes) /\ Tail(queue) \in Seq(Seq(TxHashes))
      BY <2>1 DEF BroadcastTypeOK, Receive
    <3>. QED BY Zenon, <2>1, <3>1 DEF BroadcastTypeOK, Receive
  <2>2. CASE SubmitFails BY <2>2 DEF BroadcastTypeOK, SubmitFails
  <2>3. CASE Panic \/ Exit BY <2>3 DEF BroadcastTypeOK, Panic, Exit
  <2>4. CASE Finish BY <2>4 DEF BroadcastTypeOK, Finish
  <2>. QED BY <1>7, <2>1, <2>2, <2>3, <2>4
<1>8. ASSUME RegisterTxService \/ Close \/ StopReturns PROVE BroadcastTypeOK'
  BY Zenon, <1>8 DEF BroadcastTypeOK, RegisterTxService, Close, StopReturns
<1>. QED
  BY <1>1, <1>2, <1>3, <1>4, <1>5, <1>6, <1>7, <1>8
     DEF NextBroadcast, Mempool, Run, Submit, Thread, Enqueueing

-----------------------------------------------------------------------------
(* The reservations depend on four variables only.                         *)
LEMMA ReservationsFrame ==
  ReservationsExact /\ UNCHANGED <<pending, queue, filtered, batch>>
    => ReservationsExact'
<1>. SUFFICES ASSUME ReservationsExact, pending' = pending, queue' = queue,
                     filtered' = filtered, batch' = batch
              PROVE  ReservationsExact'
  OBVIOUS
<1>. QED BY Zenon DEF ReservationsExact

(* The loop of enqueue reserves a hash nobody holds.                       *)
LEMMA DedupeStep ==
  ASSUME BroadcastInv, NEW t \in Threads, Dedupe(t)
  PROVE  ReservationsExact'
<1>. DEFINE h == Head(txs[t])
<1>0. h \in TxHashes /\ filtered[t] \in Seq(TxHashes) /\ queue' = queue /\ batch' = batch
  BY DEF BroadcastInv, BroadcastTypeOK, Dedupe, workerVars
<1>1. CASE h \in pending
  BY Zenon, <1>0, <1>1, ReservationsFrame DEF Dedupe, BroadcastInv
<1>2. CASE h \notin pending
  <2>1. /\ pending' = pending \cup {h}
        /\ filtered' = [filtered EXCEPT ![t] = Append(@, h)]
    BY Zenon, <1>2 DEF Dedupe
  <2>2. /\ h \notin Range(batch) /\ \A u \in Threads : h \notin Range(filtered[u])
        /\ \A i \in DOMAIN queue : h \notin Range(queue[i])
    BY Zenon, <1>0, <1>2 DEF BroadcastInv, ReservationsExact
  <2>3. Distinct(filtered[t]) BY Zenon DEF BroadcastInv, ReservationsExact
  <2>4. /\ Distinct(filtered'[t]) /\ Range(filtered'[t]) = Range(filtered[t]) \cup {h}
        /\ \A u \in Threads \ {t} : filtered'[u] = filtered[u]
    BY <1>0, <2>1, <2>2, <2>3, AppendBatch DEF BroadcastInv, BroadcastTypeOK
  <2>. HIDE DEF h
  <2>5. \A x \in TxHashes :
          x \in pending' <=> \/ \E u \in Threads : x \in Range(filtered'[u])
                             \/ \E i \in DOMAIN queue : x \in Range(queue[i])
                             \/ x \in Range(batch)
    BY Zenon, <2>1, <2>4 DEF BroadcastInv, ReservationsExact
  <2>6. \A u \in Threads :
          /\ Distinct(filtered'[u]) /\ Disjoint(filtered'[u], batch)
          /\ \A i \in DOMAIN queue : Disjoint(filtered'[u], queue[i])
    <3>1. \A u \in Threads :
            /\ Distinct(filtered[u]) /\ Disjoint(filtered[u], batch)
            /\ \A i \in DOMAIN queue : Disjoint(filtered[u], queue[i])
      BY Zenon DEF BroadcastInv, ReservationsExact
    <3>2. /\ Disjoint(filtered'[t], batch)
          /\ \A i \in DOMAIN queue : Disjoint(filtered'[t], queue[i])
      BY Zenon, <2>2, <2>4, <3>1 DEF Disjoint
    <3> QED BY Zenon, <2>4, <3>1, <3>2
  <2>7. \A u \in Threads : \A v \in Threads \ {u} :
          Disjoint(filtered'[u], filtered'[v])
    <3>1. \A u \in Threads : \A v \in Threads \ {u} : Disjoint(filtered[u], filtered[v])
      BY Zenon DEF BroadcastInv, ReservationsExact
    <3>2. \A u \in Threads \ {t} :
            Disjoint(filtered'[u], filtered'[t]) /\ Disjoint(filtered'[t], filtered'[u])
      BY Zenon, <2>2, <2>4, <3>1 DEF Disjoint
    <3>3. ASSUME NEW u \in Threads, NEW v \in Threads, v # u
          PROVE  Disjoint(filtered'[u], filtered'[v])
      <4>1. CASE u = t
        BY Zenon, <3>2, <3>3, <4>1
      <4>2. CASE v = t
        BY Zenon, <3>2, <3>3, <4>2
      <4>3. CASE u # t /\ v # t
        <5>1. filtered'[u] = filtered[u] /\ filtered'[v] = filtered[v]
          BY Zenon, <2>4, <4>3
        <5>2. Disjoint(filtered[u], filtered[v])
          BY Zenon, <3>1, <3>3
        <5> QED BY Zenon, <5>1, <5>2 DEF Disjoint
      <4> QED BY Zenon, <4>1, <4>2, <4>3
    <3> QED BY Zenon, <3>3
  <2>. QED BY Zenon, <1>0, <2>5, <2>6, <2>7 DEF BroadcastInv, ReservationsExact
<1>. QED BY <1>1, <1>2

(* A batch moves into the queue, or its call keeps it.                     *)
LEMMA PushStep ==
  ASSUME BroadcastInv, NEW t \in Threads, Push(t)
  PROVE  ReservationsExact'
<1>1. CASE UNCHANGED <<queue, filtered>>
  BY <1>1, ReservationsFrame DEF Push, workerVars, BroadcastInv
<1>2. CASE queue' = Append(queue, filtered[t]) /\ filtered' = [filtered EXCEPT ![t] = <<>>]
  <2>. DEFINE n == Len(queue) + 1
  <2>1. /\ DOMAIN queue' = DOMAIN queue \cup {n} /\ n \notin DOMAIN queue
        /\ \A i \in DOMAIN queue : queue'[i] = queue[i]
        /\ queue'[n] = filtered[t]
    <3>1. queue \in Seq(Seq(TxHashes)) /\ filtered[t] \in Seq(TxHashes)
      BY DEF BroadcastInv, BroadcastTypeOK
    <3>2. /\ DOMAIN queue' = 1..(Len(queue) + 1) /\ DOMAIN queue = 1..Len(queue)
          /\ Len(queue) \in Nat
          /\ \A i \in DOMAIN queue : queue'[i] = queue[i]
          /\ queue'[n] = filtered[t]
      <4>. DEFINE q == Append(queue, filtered[t])
      <4>1. /\ DOMAIN q = 1..(Len(queue) + 1)
            /\ DOMAIN queue = 1..Len(queue) /\ Len(queue) \in Nat
            /\ \A i \in DOMAIN queue : q[i] = queue[i]
            /\ q[Len(queue) + 1] = filtered[t]
        BY <3>1, AppendElements
      <4>2. queue' = q
        BY Zenon, <1>2
      <4>. HIDE DEF q
      <4>. QED BY <4>1, <4>2
    <3>. QED BY <3>2
  <2>. HIDE DEF n
  <2>2. /\ filtered'[t] = <<>> /\ \A u \in Threads \ {t} : filtered'[u] = filtered[u]
        /\ pending' = pending /\ batch' = batch
    BY <1>2 DEF BroadcastInv, BroadcastTypeOK, Push, workerVars
  <2>3. \A x \in TxHashes :
          x \in pending' <=> \/ \E u \in Threads : x \in Range(filtered'[u])
                             \/ \E i \in DOMAIN queue' : x \in Range(queue'[i])
                             \/ x \in Range(batch')
    BY <2>1, <2>2, EmptyBatch, Zenon DEF BroadcastInv, ReservationsExact
  <2>4. \A i \in DOMAIN queue' : Distinct(queue'[i]) /\ Disjoint(queue'[i], batch')
    BY Zenon, <2>1, <2>2 DEF BroadcastInv, ReservationsExact
  <2>5. \A i, j \in DOMAIN queue' : i # j => Disjoint(queue'[i], queue'[j])
    <3>1. /\ \A i, j \in DOMAIN queue : i # j => Disjoint(queue[i], queue[j])
          /\ \A i \in DOMAIN queue : Disjoint(filtered[t], queue[i])
      BY Zenon DEF BroadcastInv, ReservationsExact
    <3>2. \A i \in DOMAIN queue : Disjoint(queue[i], filtered[t])
      BY Zenon, <3>1 DEF Disjoint
    <3> QED BY Zenon, <2>1, <3>1, <3>2
  <2>6. \A u \in Threads : Distinct(filtered'[u]) /\ Disjoint(filtered'[u], batch')
    BY Zenon, <2>2, EmptyBatch DEF BroadcastInv, ReservationsExact
  <2>7. \A u \in Threads : \A i \in DOMAIN queue' : Disjoint(filtered'[u], queue'[i])
    BY Zenon, <2>1, <2>2, EmptyBatch DEF BroadcastInv, ReservationsExact
  <2>8. \A u \in Threads : \A v \in Threads \ {u} : Disjoint(filtered'[u], filtered'[v])
    BY Zenon, <2>2, EmptyBatch DEF BroadcastInv, ReservationsExact
  <2>. QED BY Zenon, <2>2, <2>3, <2>4, <2>5, <2>6, <2>7, <2>8 DEF BroadcastInv, ReservationsExact
<1>. QED BY Zenon, <1>1, <1>2 DEF Push

(* A call that found the queue full gives up what it reserved.             *)
LEMMA ReleaseFullStep ==
  ASSUME BroadcastInv, NEW t \in Threads, ReleaseFull(t)
  PROVE  ReservationsExact'
<1>1. /\ filtered'[t] = <<>> /\ \A u \in Threads \ {t} : filtered'[u] = filtered[u]
      /\ pending' = pending \ Range(filtered[t]) /\ batch' = batch /\ queue' = queue
  BY DEF BroadcastInv, BroadcastTypeOK, ReleaseFull, workerVars
<1>2. \A x \in TxHashes :
        x \in pending' <=> \/ \E u \in Threads : x \in Range(filtered'[u])
                           \/ \E i \in DOMAIN queue : x \in Range(queue[i])
                           \/ x \in Range(batch)
  BY Zenon, <1>1, EmptyBatch DEF BroadcastInv, ReservationsExact, Disjoint
<1>3. \A u \in Threads :
        /\ Distinct(filtered'[u]) /\ Disjoint(filtered'[u], batch)
        /\ \A i \in DOMAIN queue : Disjoint(filtered'[u], queue[i])
        /\ \A v \in Threads \ {u} : Disjoint(filtered'[u], filtered'[v])
  BY Zenon, <1>1, EmptyBatch DEF BroadcastInv, ReservationsExact
<1>. QED BY Zenon, <1>1, <1>2, <1>3 DEF BroadcastInv, ReservationsExact

(* The worker takes the first batch of the queue.                          *)
LEMMA ReceiveStep ==
  ASSUME BroadcastInv, Receive
  PROVE  ReservationsExact'
<1>1. /\ batch = <<>> /\ batch' = queue[1] /\ queue' = Tail(queue)
      /\ pending' = pending /\ filtered' = filtered
  BY DEF BroadcastInv, BroadcastTypeOK, IdleWorkerEmpty, Receive, threadVars
<1>2. /\ 1 \in DOMAIN queue
      /\ \A i \in DOMAIN queue' : i + 1 \in DOMAIN queue /\ i + 1 # 1 /\ queue'[i] = queue[i + 1]
      /\ \A i \in DOMAIN queue : i # 1 => \E j \in DOMAIN queue' : i = j + 1
      /\ \A i, j \in DOMAIN queue' : i # j => i + 1 # j + 1
  <2>1. queue \in Seq(Seq(TxHashes)) /\ queue # <<>> BY DEF BroadcastInv, BroadcastTypeOK, Receive
  <2>2. /\ DOMAIN queue' = 1..(Len(queue) - 1) /\ DOMAIN queue = 1..Len(queue)
        /\ Len(queue) >= 1 /\ Len(queue) \in Nat
        /\ \A i \in DOMAIN queue' : queue'[i] = queue[i + 1] /\ i + 1 \in DOMAIN queue
    BY <1>1, <2>1
  <2>3. \A i \in DOMAIN queue : i # 1 => i - 1 \in DOMAIN queue' /\ i = (i - 1) + 1
    BY <2>2
  <2>. QED BY <2>2, <2>3
<1>3. \A x \in TxHashes :
        x \in pending <=> \/ \E u \in Threads : x \in Range(filtered[u])
                          \/ \E i \in DOMAIN queue' : x \in Range(queue'[i])
                          \/ x \in Range(batch')
  <2>1. \A x : (\E i \in DOMAIN queue : x \in Range(queue[i]))
                <=> (\E i \in DOMAIN queue' : x \in Range(queue'[i])) \/ x \in Range(batch')
    BY <1>1, <1>2
  <2>. QED BY Zenon, <1>1, <2>1, EmptyBatch DEF BroadcastInv, ReservationsExact
<1>4. Distinct(batch')
  BY Zenon, <1>1, <1>2 DEF BroadcastInv, ReservationsExact
<1>5. \A i \in DOMAIN queue' : Distinct(queue'[i]) /\ Disjoint(queue'[i], batch')
  BY Zenon, <1>1, <1>2 DEF BroadcastInv, ReservationsExact
<1>6. \A i, j \in DOMAIN queue' : i # j => Disjoint(queue'[i], queue'[j])
  BY Zenon, <1>2 DEF BroadcastInv, ReservationsExact
<1>7. \A u \in Threads :
        /\ Distinct(filtered[u]) /\ Disjoint(filtered[u], batch')
        /\ \A i \in DOMAIN queue' : Disjoint(filtered[u], queue'[i])
        /\ \A v \in Threads \ {u} : Disjoint(filtered[u], filtered[v])
  BY Zenon, <1>1, <1>2 DEF BroadcastInv, ReservationsExact
<1>. QED BY Zenon, <1>1, <1>3, <1>4, <1>5, <1>6, <1>7 DEF ReservationsExact

(* The worker releases the batch it held, and nothing else.                *)
LEMMA FinishStep ==
  ASSUME BroadcastInv, Finish
  PROVE  ReservationsExact'
<1>1. /\ batch' = <<>> /\ pending' = pending \ Range(batch)
      /\ queue' = queue /\ filtered' = filtered
  BY DEF Finish, threadVars
<1>2. \A x \in TxHashes :
        x \in pending' <=> \/ \E u \in Threads : x \in Range(filtered[u])
                           \/ \E i \in DOMAIN queue : x \in Range(queue[i])
                           \/ x \in Range(<<>>)
  BY Zenon, <1>1, EmptyBatch DEF BroadcastInv, ReservationsExact, Disjoint
<1>. QED BY Zenon, <1>1, <1>2, EmptyBatch DEF BroadcastInv, ReservationsExact

-----------------------------------------------------------------------------
(* The dispatcher starts empty and every step of the mempool, the worker   *)
(* and the application keeps the reservations exact.                       *)
THEOREM BroadcastInvariance == SpecBroadcast => []BroadcastInv
<1>1. InitBroadcast => BroadcastInv
  <2>. SUFFICES ASSUME InitBroadcast PROVE BroadcastInv
    OBVIOUS
  <2>1. BroadcastTypeOK
    <3>1. <<>> \in Seq(TxHashes) /\ <<>> \in Seq(Seq(TxHashes)) OBVIOUS
    <3>2. /\ pc \in [Threads -> {"idle"}]
          /\ txs \in [Threads -> Seq(TxHashes)] /\ filtered \in [Threads -> Seq(TxHashes)]
      BY <3>1 DEF InitBroadcast
    <3>3. pc \in [Threads -> {"idle", "call", "checked", "dedupe", "push", "full",
                              "return", "sync", "crashed"}]
      BY <3>2
    <3>. QED BY Zenon, <3>1, <3>2, <3>3 DEF InitBroadcast, BroadcastTypeOK
  <2>2. DOMAIN queue = {} /\ batch = <<>> /\ \A t \in Threads : filtered[t] = <<>>
    BY DEF InitBroadcast
  <2>3. ReservationsExact
    BY <2>2, EmptyBatch DEF InitBroadcast, ReservationsExact
  <2>. QED BY <2>1, <2>2, <2>3 DEF BroadcastInv, IdleWorkerEmpty
<1>2. BroadcastInv /\ [NextBroadcast]_broadcastVars => BroadcastInv'
  <2>. SUFFICES ASSUME BroadcastInv, [NextBroadcast]_broadcastVars PROVE BroadcastInv'
    OBVIOUS
  <2>1. CASE UNCHANGED broadcastVars
    <3>1. BroadcastTypeOK' BY <2>1 DEF BroadcastInv, BroadcastTypeOK, broadcastVars
    <3>. QED BY <2>1, <3>1, ReservationsFrame DEF BroadcastInv, IdleWorkerEmpty, broadcastVars
  <2>2. CASE NextBroadcast
    <3>1. BroadcastTypeOK' BY <2>2, TypeStep DEF BroadcastInv
    <3>2. IdleWorkerEmpty'
      BY Zenon, <2>2 DEF BroadcastInv, IdleWorkerEmpty, NextBroadcast, Mempool, Run, Submit, Thread,
            Enqueueing, Insert, Reset, Return, Call, SyncTx, NilDispatcher, Lock,
            Dedupe, Unlock, Push, ReleaseFull, Receive, SubmitFails, CheckTx, Panic,
            Finish, Exit, RegisterTxService, Close, StopReturns, workerVars
    <3>3. ReservationsExact'
      <4>1. CASE \E t \in Threads : Dedupe(t) BY <4>1, DedupeStep
      <4>2. CASE \E t \in Threads : Push(t) BY <4>2, PushStep
      <4>3. CASE \E t \in Threads : ReleaseFull(t) BY <4>3, ReleaseFullStep
      <4>4. CASE Receive BY <4>4, ReceiveStep
      <4>5. CASE Finish BY <4>5, FinishStep
      <4>6. CASE UNCHANGED <<pending, queue, filtered, batch>>
        BY <4>6, ReservationsFrame DEF BroadcastInv
      <4>. QED
        BY Zenon, <2>2, <4>1, <4>2, <4>3, <4>4, <4>5, <4>6
           DEF NextBroadcast, Mempool, Run, Submit, Thread, Enqueueing, Insert, Reset, Return,
               Call, SyncTx, NilDispatcher, Lock, Unlock, SubmitFails, CheckTx, Panic,
               Exit, RegisterTxService, Close, StopReturns, workerVars, threadVars
    <3>. QED BY <3>1, <3>2, <3>3 DEF BroadcastInv
  <2>. QED BY <2>1, <2>2
<1>. QED BY <1>1, <1>2, PTL DEF SpecBroadcast

(* enqueue, run and releasePending keep a reservation for exactly the      *)
(* transactions in flight, whatever the interleaving and the queue size.   *)
THEOREM ReservationsCorrect == SpecBroadcast => []ReservationsExact
<1>1. BroadcastInv => ReservationsExact BY DEF BroadcastInv
<1>. QED BY <1>1, BroadcastInvariance, PTL
==============================================================================
