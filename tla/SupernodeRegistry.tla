-------------------------- MODULE SupernodeRegistry --------------------------
(***************************************************************************)
(* The x/supernode registry: one record per validator with its append-only *)
(* state history, the index from supernode accounts to validators, the     *)
(* messages of operators, the hooks of x/staking and the transitions the   *)
(* audit module asks for.  GetTopSuperNodesForBlock reads the histories to *)
(* rank the supernodes that were active at an earlier height.              *)
(*                                                                         *)
(* A handler that returns an error changes nothing and is not a step.      *)
(* x/staking is external: its actions change a validator and then call the *)
(* hooks this module registers, where the SDK calls them.                  *)
(***************************************************************************)
EXTENDS Integers, Sequences, FiniteSets

CONSTANTS
  Validators,
  Accounts,       \* supernode accounts
  None,           \* no account, no validator
  MinStake,       \* Params.MinimumStakeForSn
  MaxStake,       \* bound: largest self-delegation of a validator
  AccountStake,   \* what each supernode account has delegated to its validator
  Distance,       \* Distance[h][v]: XOR distance of v to the hash of height h
  TopN,           \* supernodes a top-N query returns
  MaxHeight,      \* bound: last block
  MaxHistory      \* bound: records in a state history

NodeStates == {"Active", "Disabled", "Stopped", "Postponed", "StorageFull"}

(* A validator is up, jailed, or not in x/staking at all.                  *)
Statuses == {"up", "jailed", "gone"}

(* Distances of different validators differ: the XOR with a hash of the    *)
(* height is injective, and ties of hashes are broken by address.          *)
ASSUME ConstantsAssumption ==
  /\ None \notin Accounts \cup Validators
  /\ MinStake \in Nat /\ MaxStake \in Nat \ {0}
  /\ AccountStake \in [Accounts -> Nat]
  /\ MaxHeight \in Nat \ {0} /\ MaxHistory \in Nat /\ TopN \in Nat
  /\ Distance \in [1..MaxHeight -> [Validators -> Nat]]

VARIABLES
  account,      \* SupernodeAccount of each record, None if not registered
  states,       \* States of each record, empty if not registered
  accountIdx,   \* SuperNodeByAccountKey: account -> validator
  stake,        \* self-delegated tokens, 0 if there is no self-delegation
  status,       \* the validator in x/staking
  height

registry == <<account, states, accountIdx>>
staking  == <<stake, status>>
vars     == <<account, states, accountIdx, stake, status, height>>

Registered(v) == states[v] # <<>>
Current(v)    == IF Registered(v) THEN states[v][Len(states[v])].state ELSE "None"

Init ==
  /\ account = [v \in Validators |-> None]
  /\ states = [v \in Validators |-> <<>>]
  /\ accountIdx = [a \in Accounts |-> None]
  /\ stake = [v \in Validators |-> MaxStake]
  /\ status = [v \in Validators |-> "up"]
  /\ height = 1
-----------------------------------------------------------------------------
(* Mutant: the entry of a replaced account stays.                          *)
IndexKeepingReplaced(v, a) ==
  [b \in Accounts |-> IF b = a THEN v ELSE accountIdx[b]]

(* The index with the entry of the replaced account dropped and the new    *)
(* one written.                                                            *)
IndexAfter(v, a) ==
  [b \in Accounts |->
     IF b = a THEN v ELSE IF b = account[v] THEN None ELSE accountIdx[b]]

(* SetSuperNode: refuse an account that another validator holds, write the *)
(* record and its index entry.                                             *)
SetSuperNode(v, a, history) ==
  /\ accountIdx[a] \in {None, v}
  /\ Len(history) <= MaxHistory
  /\ account' = [account EXCEPT ![v] = a]
  /\ states' = [states EXCEPT ![v] = history]
  /\ accountIdx' = IndexAfter(v, a)

(* Mutant: a record that replaces the last one.                            *)
ReplacedLast(v, s) == Append(SubSeq(states[v], 1, Len(states[v]) - 1),
                             [state |-> s, height |-> height])

Appended(v, s) == Append(states[v], [state |-> s, height |-> height])

(* Every transition of a registered node appends one record.               *)
Transition(v, s) == SetSuperNode(v, account[v], Appended(v, s))

(* CheckValidatorSupernodeEligibility: the self-delegation, which must     *)
(* exist, and what the supernode account delegated reach the minimum.      *)
Eligible(self, a) == self > 0 /\ self + AccountStake[a] >= MinStake
-----------------------------------------------------------------------------
(* Messages of the validator's operator.                                   *)

RegisterSupernode(v, a) ==
  /\ status[v] = "up"
  /\ \/ /\ ~Registered(v)
        /\ Eligible(stake[v], a)
        /\ SetSuperNode(v, a, Appended(v, "Active"))
     \/ /\ Current(v) = "Disabled"      \* the message's account is ignored
        /\ Eligible(stake[v], account[v])
        /\ Transition(v, "Active")
  /\ UNCHANGED <<stake, status, height>>

DeregisterSupernode(v) ==
  /\ Registered(v)
  /\ IF Current(v) = "Disabled" THEN SetSuperNode(v, account[v], states[v])
                                ELSE Transition(v, "Disabled")
  /\ UNCHANGED <<stake, status, height>>

StartSupernode(v) ==
  /\ Current(v) = "Stopped"
  /\ Transition(v, "Active")
  /\ UNCHANGED <<stake, status, height>>

StopSupernode(v) ==
  /\ Registered(v)
  /\ Current(v) \notin {"Stopped", "Disabled"}
  /\ Transition(v, "Stopped")
  /\ UNCHANGED <<stake, status, height>>

UpdateSupernode(v, a) ==
  /\ Registered(v)
  /\ SetSuperNode(v, a, states[v])
  /\ UNCHANGED <<stake, status, height>>
-----------------------------------------------------------------------------
(* The hooks run after x/staking has changed the validator, so they read   *)
(* the primed stake and status.  None of them touches a node that is       *)
(* neither Active nor Stopped, and none fires when a validator is slashed  *)
(* or jailed or when a delegation is removed altogether.                   *)

IsEligibleAndNotJailedValidator(v) ==
  status'[v] = "up" /\ Eligible(stake'[v], account[v])

SetSuperNodeActive(v) ==
  IF Current(v) = "Stopped" THEN Transition(v, "Active") ELSE UNCHANGED registry

SetSuperNodeStopped(v) ==
  IF Current(v) = "Active" THEN Transition(v, "Stopped") ELSE UNCHANGED registry

(* The body AfterValidatorBonded and AfterDelegationModified share.        *)
FollowEligibility(v) ==
  IF ~Registered(v) THEN UNCHANGED registry
  ELSE IF IsEligibleAndNotJailedValidator(v) THEN SetSuperNodeActive(v)
  ELSE SetSuperNodeStopped(v)

AfterValidatorBonded(v) ==
  /\ status[v] = "up"
  /\ UNCHANGED <<stake, status, height>>
  /\ FollowEligibility(v)

AfterValidatorBeginUnbonding(v) ==
  /\ status[v] # "gone"
  /\ UNCHANGED <<stake, status, height>>
  /\ Registered(v)
  /\ ~IsEligibleAndNotJailedValidator(v)
  /\ SetSuperNodeStopped(v)

(* A self-delegation or a partial undelegation; creating the validator     *)
(* anew delegates too.                                                     *)
AfterDelegationModified(v, s) ==
  /\ stake' = [stake EXCEPT ![v] = s]
  /\ status' = [status EXCEPT ![v] = IF @ = "gone" THEN "up" ELSE @]
  /\ UNCHANGED height
  /\ FollowEligibility(v)

AfterValidatorRemoved(v) ==
  /\ status[v] = "jailed" /\ stake[v] = 0
  /\ status' = [status EXCEPT ![v] = "gone"]
  /\ UNCHANGED <<stake, height>>
  /\ SetSuperNodeStopped(v)

(* What x/staking and x/slashing do without calling a hook that acts.      *)
Jail(v, s) ==
  /\ status[v] = "up" /\ s <= stake[v]
  /\ status' = [status EXCEPT ![v] = "jailed"]
  /\ stake' = [stake EXCEPT ![v] = s]
  /\ UNCHANGED <<account, states, accountIdx, height>>

Unjail(v) ==
  /\ status[v] = "jailed" /\ stake[v] > 0
  /\ status' = [status EXCEPT ![v] = "up"]
  /\ UNCHANGED <<account, states, accountIdx, stake, height>>

RemoveSelfDelegation(v) ==
  /\ stake[v] > 0
  /\ stake' = [stake EXCEPT ![v] = 0]
  /\ status' = [status EXCEPT ![v] = "jailed"]
  /\ UNCHANGED <<account, states, accountIdx, height>>
-----------------------------------------------------------------------------
(* Transitions of the audit module, under its callers' guards.             *)

(* Mutant: a node in any state is postponed.                               *)
PostponeAnyState(v) ==
  /\ Registered(v)
  /\ Transition(v, "Postponed")
  /\ UNCHANGED <<stake, status, height>>

SetSuperNodePostponed(v) ==
  /\ Current(v) = "Active"
  /\ Transition(v, "Postponed")
  /\ UNCHANGED <<stake, status, height>>

RecoverSuperNodeFromPostponed(v, target) ==
  /\ Current(v) = "Postponed"
  /\ Transition(v, target)
  /\ UNCHANGED <<stake, status, height>>

(* SetReport: a host report above or not above the disk limit.             *)
ReportStorage(v, full) ==
  /\ \/ full /\ Current(v) = "Active" /\ Transition(v, "StorageFull")
     \/ ~full /\ Current(v) = "StorageFull" /\ Transition(v, "Active")
  /\ UNCHANGED <<stake, status, height>>

NextBlock ==
  /\ height < MaxHeight
  /\ height' = height + 1
  /\ UNCHANGED <<account, states, accountIdx, stake, status>>
-----------------------------------------------------------------------------
Operator(v) ==
  \/ \E a \in Accounts : RegisterSupernode(v, a) \/ UpdateSupernode(v, a)
  \/ DeregisterSupernode(v)
  \/ StartSupernode(v)
  \/ StopSupernode(v)

Staking(v) ==
  \/ AfterValidatorBonded(v)
  \/ AfterValidatorBeginUnbonding(v)
  \/ \E s \in 1..MaxStake : AfterDelegationModified(v, s) \/ Jail(v, s)
  \/ AfterValidatorRemoved(v)
  \/ Unjail(v)
  \/ RemoveSelfDelegation(v)

Audit(v) ==
  \/ SetSuperNodePostponed(v)
  \/ \E target \in {"Active", "StorageFull"} :
       RecoverSuperNodeFromPostponed(v, target)
  \/ \E full \in BOOLEAN : ReportStorage(v, full)

Next == NextBlock \/ \E v \in Validators : Operator(v) \/ Staking(v) \/ Audit(v)

Spec == Init /\ [][Next]_vars
-----------------------------------------------------------------------------
(* GetTopSuperNodesForBlock.                                               *)

(* DetermineStateAtBlock finds the last record at or below h: on a sorted  *)
(* history, the one whose successor, if any, lies above h.                 *)
StateAtBlock(history, h, s) ==
  \E i \in 1..Len(history) :
    /\ history[i].height <= h
    /\ i < Len(history) => history[i + 1].height > h
    /\ history[i].state = s

ActiveAt(h) == {v \in Validators : StateAtBlock(states[v], h, "Active")}

(* RankSuperNodesByDistance: fewer than TopN active nodes are closer.      *)
TopSuperNodes(h) ==
  {v \in ActiveAt(h) :
     Cardinality({w \in ActiveAt(h) : Distance[h][w] < Distance[h][v]}) < TopN}
-----------------------------------------------------------------------------
HistoryRecord == [state : NodeStates, height : 1..MaxHeight]

TypeOK ==
  /\ account \in [Validators -> Accounts \cup {None}]
  /\ states \in [Validators -> Seq(HistoryRecord)]
  /\ accountIdx \in [Accounts -> Validators \cup {None}]
  /\ stake \in [Validators -> 0..MaxStake]
  /\ status \in [Validators -> Statuses]
  /\ height \in 1..MaxHeight

(* The account index is exactly the inverse of the records: it finds every *)
(* registered supernode by its account and nothing else, so no account     *)
(* ever serves two validators (SetSuperNode maintains it on every write,   *)
(* through account changes and account reuse).                             *)
AccountIndexExact ==
  /\ \A v \in Validators : Registered(v) <=> account[v] # None
  /\ \A v \in Validators, a \in Accounts : account[v] = a <=> accountIdx[a] = v

(* The invariant DetermineStateAtBlock states and its binary search needs: *)
(* heights never decrease along a history, and none is in the future.      *)
HistorySorted ==
  \A v \in Validators :
    /\ \A i \in 1..Len(states[v]) : states[v][i].height <= height
    /\ \A i, j \in 1..Len(states[v]) :
         i <= j => states[v][i].height <= states[v][j].height

(* The supernodes a past block selects never change, whatever registers,   *)
(* stops or is postponed later: x/action finalizes against the top list of *)
(* the height an action was registered at.                                 *)
PastSelectionFixed ==
  [][\A h \in 1..(height - 1) : TopSuperNodes(h)' = TopSuperNodes(h)]_vars

(* Hooks and audit never revive a deregistered supernode: Disabled is left *)
(* only to Active, by a validator that is up and still eligible.           *)
DisabledNeedsReregistration ==
  [][\A v \in Validators :
       (Current(v) = "Disabled" /\ Current(v)' # "Disabled") =>
         /\ Current(v)' = "Active"
         /\ status[v] = "up" /\ Eligible(stake[v], account[v])]_vars

Life == INSTANCE SupernodeStateMachine
          WITH Nodes <- Validators, life <- [v \in Validators |-> Current(v)]

(* Every step moves each supernode along at most one edge of the state     *)
(* diagram of SupernodeStateMachine.                                       *)
FollowsStateMachine == Life!Spec
=============================================================================
