--------------------------- MODULE ActionLifecycle ---------------------------
(***************************************************************************)
(* The x/action module: registration, finalization, approval and expiry of *)
(* actions, the fee each of them holds in the module account, and the      *)
(* secondary indexes the expiry sweep reads.                               *)
(*                                                                         *)
(* A transaction is atomic: a handler that returns an error or panics is a *)
(* step that changes nothing and is not an action here.  The EndBlocker    *)
(* sweep is a loop, one step per visited action; no transaction runs       *)
(* between its steps.                                                      *)
(***************************************************************************)
EXTENDS Integers, FiniteSets, Functions

CONSTANTS
  Creators,            \* accounts that request actions
  Supernodes,          \* supernode accounts that finalize them
  Prices,              \* price amounts a request may carry
  MinPrice,            \* BaseActionFee + FeePerKbyte
  RewardBps,           \* reward-distribution share of a fee, in 1/10000
  FoundationNum,       \* FoundationFeeShare is FoundationNum / FoundationDen
  FoundationDen,
  MaxInt64,            \* largest amount math.Int.Int64() does not panic on
  ExpirationDuration,  \* minimum life of an action, in seconds
  InitialFunds,        \* genesis balance of every creator
  MaxActions,          \* bound: actions ever registered
  MaxTime              \* bound: last block time, in seconds

ActionAccount == "action"
RewardPool    == "supernode"
CommunityPool == "distribution"
Modules       == {ActionAccount, RewardPool, CommunityPool}
Accounts      == Creators \cup Supernodes \cup Modules

BpsDen == 10000   \* basis points in a whole

(* The accounts of users are not module accounts, and the fee parameters   *)
(* satisfy what Params.Validate of the two modules enforces.               *)
ASSUME ConstantsAssumption ==
  /\ (Creators \cup Supernodes) \cap Modules = {}
  /\ Prices \subseteq Nat
  /\ MinPrice \in Nat
  /\ RewardBps \in 0..BpsDen
  /\ FoundationDen \in Nat \ {0}
  /\ FoundationNum \in 0..FoundationDen
  /\ MaxInt64 \in Nat
  /\ ExpirationDuration \in Nat
  /\ InitialFunds \in Nat
  /\ MaxActions \in Nat
  /\ MaxTime \in Nat

Types      == {"Sense", "Cascade"}
States     == {"Pending", "Processing", "Done", "Approved", "Expired"}
OpenStates == {"Pending", "Processing"}

(* Metadata is kept only as far as the handlers tell it apart: as          *)
(* registered, merged with the finalization data, or empty.                *)
Metas == {"registered", "finalized", "empty"}

EvidenceTypes == {"SignatureFailure", "NotInTop10", "ActionExpired"}

VARIABLES
  count,     \* ActionCountKey: the last action ID given out
  actions,   \* the primary store: [1..count -> Action]
  stateIdx,  \* Action/state/: the IDs filed under each state
  snIdx,     \* Action/supernode/: the IDs filed under each supernode
  bank,      \* balances in the fee denomination
  tickets,   \* actions whose artifact counts x/audit has stored
  evidence,  \* <<type, action, subject>> triples recorded in x/audit
  now,       \* block time
  phase,     \* "txs": transactions run; "sweep": the EndBlocker runs
  todo       \* IDs the running sweep has still to visit

vars == <<count, actions, stateIdx, snIdx, bank, tickets, evidence, now,
          phase, todo>>

Action == [creator : Creators, type : Types, price : Nat, state : States,
           expiry : Nat, meta : Metas, supernodes : SUBSET Supernodes]

Open(id) == actions[id].state \in OpenStates

Init ==
  /\ count = 0
  /\ actions = [id \in 1..0 |-> 0]
  /\ stateIdx = [s \in States |-> {}]
  /\ snIdx = [n \in Supernodes |-> {}]
  /\ bank = [a \in Accounts |-> IF a \in Creators THEN InitialFunds ELSE 0]
  /\ tickets = {}
  /\ evidence = {}
  /\ now = 0
  /\ phase = "txs"
  /\ todo = {}

(* A bank send; the callers guard it with the balance of the sender.       *)
Send(b, from, to, amt) ==
  [b EXCEPT ![from] = @ - amt, ![to] = @ + amt]

(* Mutant: the entry under the previous key stays.                         *)
RefiledTwice(ids, id, before, after) == IF after THEN ids \cup {id} ELSE ids

(* The IDs under an index key that id was filed under before, or is after. *)
Refiled(ids, id, before, after) ==
  IF after THEN ids \cup {id} ELSE IF before THEN ids \ {id} ELSE ids

(* SetAction: the primary record and its index entries.  The entry under   *)
(* the previous state and under supernodes no longer listed is deleted.    *)
SetAction(id, rec) ==
  /\ actions' = [i \in 1..count' |-> IF i = id THEN rec ELSE actions[i]]
  /\ stateIdx' = [s \in States |->
       Refiled(stateIdx[s], id, id \in 1..count /\ actions[id].state = s,
               s = rec.state)]
  /\ snIdx' = [n \in Supernodes |->
       Refiled(snIdx[n], id, id \in 1..count /\ n \in actions[id].supernodes,
               n \in rec.supernodes)]

-----------------------------------------------------------------------------
HasFunds(c, price) == bank[c] > 0 /\ bank[c] >= price

(* MsgRequestAction: an expiration in the request must lie in the future   *)
(* and leave at least ExpirationDuration; RegisterAction checks the price  *)
(* and the creator's funds, takes the next ID and escrows the price.       *)
RequestAction(c, type, price, expiry) ==
  /\ phase = "txs"
  /\ count < MaxActions
  /\ expiry > now /\ expiry >= now + ExpirationDuration
  /\ price >= MinPrice
  /\ HasFunds(c, price)
  /\ count' = count + 1
  /\ SetAction(count + 1,
       [creator |-> c, type |-> type, price |-> price, state |-> "Pending",
        expiry |-> expiry, meta |-> "registered", supernodes |-> {}])
  /\ bank' = Send(bank, c, ActionAccount, price)
  /\ UNCHANGED <<tickets, evidence, now, phase, todo>>

(* The split DistributeFees makes of a fee.                                *)
RewardShare(fee) == (fee * RewardBps) \div BpsDen
FoundationShare(fee) ==
  ((fee - RewardShare(fee)) * FoundationNum) \div FoundationDen

(* Mutant: the foundation's share is paid but not deducted.                *)
SharePlusFoundation(fee) == fee - RewardShare(fee)

SupernodesShare(fee) == fee - RewardShare(fee) - FoundationShare(fee)

(* Mutant: the finalizer is counted twice.                                 *)
PerSupernodeAndFinalizer(rest, n) ==
  IF rest \div (n + 1) = 0 /\ rest > 0 THEN 1 ELSE rest \div (n + 1)

(* What each of the n distinct supernodes gets: at least 1 when there is   *)
(* anything to divide.                                                     *)
PerSupernode(rest, n) ==
  IF rest \div n = 0 /\ rest > 0 THEN 1 ELSE rest \div n

(* DistributeFees returns an error, or panics in Int64(), and with it the  *)
(* finalization is rolled back, unless this holds.                         *)
CanDistribute(b, fee) ==
  /\ b[ActionAccount] >= RewardShare(fee) + FoundationShare(fee)
  /\ SupernodesShare(fee) <= MaxInt64

(* The balances after DistributeFees.  A send to a supernode that fails is *)
(* only logged: its part stays in the module account.                      *)
DistributeFees(b, fee, sns) ==
  LET b1 == Send(b, ActionAccount, RewardPool, RewardShare(fee))
      b2 == Send(b1, ActionAccount, CommunityPool, FoundationShare(fee))
      part == PerSupernode(SupernodesShare(fee), Cardinality(sns))
      total == part * Cardinality(sns)
  IN  IF b2[ActionAccount] < total
      THEN b2
      ELSE [a \in Accounts |->
              IF a \in sns THEN b2[a] + part
              ELSE IF a = ActionAccount THEN b2[a] - total ELSE b2[a]]

(* GetUpdatedMetadata: the Cascade handler merges the finalization data    *)
(* into the registered metadata, the Sense handler returns nothing.        *)
GetUpdatedMetadata(type) == IF type = "Cascade" THEN "finalized" ELSE "empty"

(* MsgFinalizeAction accepted: the sender is one of the top-10 supernodes  *)
(* of the action's block and the type's handler accepts its metadata.      *)
(* Whom the ranking holds is the answer of a query and left open here.     *)
FinalizeAction(id, sn) ==
  LET a == actions[id]
      done == [a EXCEPT !.state = "Done",
                        !.meta = GetUpdatedMetadata(a.type),
                        !.supernodes = @ \cup {sn}]
  IN  /\ phase = "txs"
      /\ Open(id)
      /\ sn \notin a.supernodes
      /\ a.price > 0 => CanDistribute(bank, a.price)
      /\ count' = count
      /\ SetAction(id, done)
      /\ tickets' = IF a.type = "Cascade" THEN tickets \cup {id} ELSE tickets
      /\ bank' = IF a.price = 0 THEN bank
                 ELSE DistributeFees(bank, a.price, done.supernodes)
      /\ UNCHANGED <<evidence, now, phase, todo>>

(* MsgFinalizeAction on a Cascade action rejected without an error: the    *)
(* transaction succeeds and commits evidence against its sender.  (A Sense *)
(* finalization, or other invalid Cascade metadata, is an error.)          *)
RejectFinalization(id, sn, kind) ==
  /\ phase = "txs"
  /\ Open(id)
  /\ actions[id].type = "Cascade"
  /\ sn \notin actions[id].supernodes
  /\ kind \in {"SignatureFailure", "NotInTop10"}
  /\ evidence' = evidence \cup {<<kind, id, sn>>}
  /\ UNCHANGED <<count, actions, stateIdx, snIdx, bank, tickets, now, phase,
                 todo>>

(* Mutant: the state of the action is not checked.                         *)
ApproveAnyState(id, c) ==
  /\ phase = "txs"
  /\ actions[id].creator = c
  /\ count' = count
  /\ SetAction(id, [actions[id] EXCEPT !.state = "Approved"])
  /\ UNCHANGED <<bank, tickets, evidence, now, phase, todo>>

(* MsgApproveAction: only the creator, only once the action is Done.       *)
ApproveAction(id, c) ==
  /\ phase = "txs"
  /\ actions[id].state = "Done"
  /\ actions[id].creator = c
  /\ count' = count
  /\ SetAction(id, [actions[id] EXCEPT !.state = "Approved"])
  /\ UNCHANGED <<bank, tickets, evidence, now, phase, todo>>

-----------------------------------------------------------------------------
(* Mutant: only actions in processing are visited.                         *)
CheckProcessingOnly ==
  /\ phase = "txs"
  /\ phase' = "sweep"
  /\ todo' = stateIdx["Processing"]
  /\ UNCHANGED <<count, actions, stateIdx, snIdx, bank, tickets, evidence, now>>

(* EndBlocker: CheckExpiration walks the index of the pending and then of  *)
(* the processing actions.                                                 *)
CheckExpiration ==
  /\ phase = "txs"
  /\ phase' = "sweep"
  /\ todo' = UNION {stateIdx[s] : s \in OpenStates}
  /\ UNCHANGED <<count, actions, stateIdx, snIdx, bank, tickets, evidence, now>>

Expired(id) == actions[id].expiry # 0 /\ actions[id].expiry <= now

(* One visit of the sweep.  An expired action is refunded and closed, and  *)
(* evidence is recorded against every supernode in the ranking (top) of    *)
(* the action's block; if the refund fails it is left for the next block.  *)
ProcessExpired(id, top) ==
  LET a == actions[id]
      refundable == a.price = 0 \/ bank[ActionAccount] >= a.price
  IN  /\ phase = "sweep"
      /\ id \in todo
      /\ todo' = todo \ {id}
      /\ IF Expired(id) /\ refundable
         THEN /\ count' = count
              /\ bank' = Send(bank, ActionAccount, a.creator, a.price)
              /\ SetAction(id, [a EXCEPT !.state = "Expired"])
              /\ evidence' =
                   evidence \cup {<<"ActionExpired", id, n>> : n \in top}
         ELSE UNCHANGED <<count, actions, stateIdx, snIdx, bank, evidence>>
      /\ UNCHANGED <<tickets, now, phase>>

(* The block is committed and the next one starts d seconds later; blocks  *)
(* less than a second apart may share a Unix time.                         *)
NextBlock(d) ==
  /\ phase = "sweep"
  /\ todo = {}
  /\ now + d <= MaxTime
  /\ phase' = "txs"
  /\ now' = now + d
  /\ UNCHANGED <<count, actions, stateIdx, snIdx, bank, tickets, evidence, todo>>

Tx ==
  \/ \E c \in Creators, type \in Types, price \in Prices,
        expiry \in now..MaxTime : RequestAction(c, type, price, expiry)
  \/ \E id \in 1..count, sn \in Supernodes : FinalizeAction(id, sn)
  \/ \E id \in 1..count, sn \in Supernodes, kind \in EvidenceTypes :
        RejectFinalization(id, sn, kind)
  \/ \E id \in 1..count, c \in Creators : ApproveAction(id, c)

EndBlock ==
  \/ CheckExpiration
  \/ \E id \in todo, top \in SUBSET Supernodes : ProcessExpired(id, top)

Next ==
  \/ Tx
  \/ EndBlock
  \/ \E d \in 0..1 : NextBlock(d)

Spec == Init /\ [][Next]_vars

(* Consensus keeps producing blocks and their time keeps growing.          *)
Fairness ==
  /\ WF_vars(EndBlock)
  /\ WF_vars(\E d \in 0..1 : NextBlock(d))
  /\ SF_vars(NextBlock(1))

FairSpec == Spec /\ Fairness

-----------------------------------------------------------------------------
TypeOK ==
  /\ count \in 0..MaxActions
  /\ actions \in [1..count -> Action]
  /\ stateIdx \in [States -> SUBSET (1..count)]
  /\ snIdx \in [Supernodes -> SUBSET (1..count)]
  /\ bank \in [Accounts -> Nat]
  /\ tickets \subseteq 1..count
  /\ evidence \subseteq EvidenceTypes \X (1..count) \X Supernodes
  /\ now \in 0..MaxTime
  /\ phase \in {"txs", "sweep"}
  /\ todo \subseteq 1..count

(* The module account holds exactly the prices of the actions that are     *)
(* still open: RegisterAction, DistributeFees and the refund neither       *)
(* strand a remainder nor pay one action out of another's escrow.          *)
EscrowExact ==
  bank[ActionAccount] =
    SumFunctionOnSet([id \in 1..count |-> actions[id].price],
                     {id \in 1..count : Open(id)})

(* The module account always holds enough to refund any action that can    *)
(* still expire, whatever was finalized or refunded before: the refund in  *)
(* processExpiredActionsInState never fails for lack of funds.             *)
EscrowSolvent ==
  \A id \in 1..count : Open(id) => bank[ActionAccount] >= actions[id].price

(* The indexes SetAction maintains say exactly what the primary store      *)
(* says.  CheckExpiration reaches actions only through the state index: an *)
(* entry lost is an action that never expires, a stale one is a second     *)
(* refund.                                                                 *)
IndexesExact ==
  /\ \A s \in States : stateIdx[s] = {id \in 1..count : actions[id].state = s}
  /\ \A n \in Supernodes :
       snIdx[n] = {id \in 1..count : n \in actions[id].supernodes}

(* An action that can still be finalized has no supernode yet and keeps    *)
(* the metadata it was registered with; a finalized one has exactly one    *)
(* supernode, so DistributeFees always divides by one; x/audit knows the   *)
(* artifact counts of exactly the finalized Cascade actions; supernodes    *)
(* are blamed for the expiry of expired actions only.                      *)
LifecycleConsistent ==
  /\ \A id \in 1..count :
       LET a == actions[id] IN
       /\ a.state \in OpenStates \cup {"Expired"} =>
            a.supernodes = {} /\ a.meta = "registered"
       /\ a.state \in {"Done", "Approved"} =>
            \E n \in Supernodes : a.supernodes = {n}
       /\ id \in tickets <=>
            a.type = "Cascade" /\ a.state \in {"Done", "Approved"}
  /\ \A e \in evidence :
       e[1] = "ActionExpired" => actions[e[2]].state = "Expired"

(* A closed action stays closed: once finalized it is at most approved,    *)
(* once approved or expired it never changes again, and what was agreed at *)
(* registration (creator, type, price, expiry) never changes at all.       *)
ClosedStaysClosed ==
  [][\A id \in 1..count :
       LET a == actions[id]
           b == actions'[id]
       IN  /\ a.state \in {"Approved", "Expired"} => b = a
           /\ a.state = "Done" => b \in {a, [a EXCEPT !.state = "Approved"]}
           /\ <<b.creator, b.type, b.price, b.expiry>> =
                <<a.creator, a.type, a.price, a.expiry>>]_vars

(* Funds leave the module account only with the action they were paid for: *)
(* in a step that lowers its balance exactly one action closes, and the    *)
(* balance falls by exactly that action's price.                           *)
PaidOutByClosing ==
  [][bank'[ActionAccount] < bank[ActionAccount] =>
       \E id \in 1..count :
         /\ Open(id) /\ ~Open(id)'
         /\ bank[ActionAccount] - bank'[ActionAccount] = actions[id].price
         /\ \A j \in (1..count) \ {id} : actions'[j] = actions[j]]_vars

(* No action stays open for ever, so (ClosedStaysClosed) each one is       *)
(* eventually finalized or expired: the EndBlocker sweep closes whatever   *)
(* the supernodes leave open.                                              *)
EventuallyClosed ==
  \A id \in 1..MaxActions : []<>(id \in 1..count => ~Open(id))
=============================================================================
