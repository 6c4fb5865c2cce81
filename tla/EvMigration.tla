----------------------------- MODULE EvMigration -----------------------------
(***************************************************************************)
(* x/evmigration: a legacy account, or a validator with its operator, is   *)
(* moved to an address of the new key type, with everything keyed by the   *)
(* old address: stake and unbonding stake, rewards, coins, vesting, grants,*)
(* fee allowances, actions and supernode records.  Every holder migrates   *)
(* in its own transaction, so an address met in one migration may or may   *)
(* not have been migrated before.                                          *)
(*                                                                         *)
(* Proofs are abstracted: the legacy side must derive from a Cosmos key,   *)
(* the new side from an Ethereum key, so an address is never both.  Each   *)
(* delegation is one share; rewards and commission are one coin each.      *)
(* Staking, distribution and bank are external: the part of them that the  *)
(* migrations read and write.                                              *)
(***************************************************************************)
EXTENDS Integers, FiniteSets, Functions

CONSTANTS
  Legacy, New,      \* addresses of Cosmos keys and of Ethereum keys
  Operators,        \* legacy addresses that operate a validator
  VestingAccounts,  \* addresses that have a vesting schedule at the start
  Stakes,           \* delegations at the start
  EarlyStakers,     \* new addresses used before anything is migrated to them
  Grants,           \* authz grants, fee allowances and actions at the start
  HasCommission,    \* do validators earn commission?
  CrossAccounts,    \* may an operator be another validator's supernode account?
  MaxPerBlock,      \* max_migrations_per_block
  MaxRecords,       \* max_validator_delegations
  MaxEntries,       \* bound: unbondings and redelegations ever started
  MaxOps            \* bound: operations of other modules

None == "none"
Base == "base"
Addr == Legacy \cup New

ASSUME AddressAssumption ==
  /\ IsFiniteSet(Legacy) /\ IsFiniteSet(New) /\ Legacy \cap New = {}
  /\ None \notin Addr /\ Base \notin Addr
  /\ Operators \subseteq Legacy
  /\ VestingAccounts \subseteq Addr
  /\ EarlyStakers \subseteq New
  /\ Stakes \subseteq Legacy \X Operators
  /\ Grants \subseteq Legacy \X Legacy
  /\ MaxEntries \in Nat

(* An unbonding entry (dst is None) or a redelegation entry.  The id is    *)
(* its UnbondingId; entries mature in the order of their ids.              *)
Entry == [del : Addr, src : Addr, dst : Addr \cup {None}, id : 1..MaxEntries]

VARIABLES
  open,        \* migration is enabled and its window has not ended
  blockCount,  \* BlockMigrationCounter at this height
  records,     \* MigrationRecords: legacy address -> new address
  byNew,       \* MigrationRecordByNewAddress
  accounts,    \* no account, a base account, or the schedule it vests by
  bank,        \* balances
  validators,  \* status of the validator record of each operator
  jailed,      \* operators whose validator is jailed
  cons,        \* consensus key in the validator record
  byCons,      \* ValidatorByConsAddr
  power,       \* operators in the power index
  lastPower,   \* operators with a LastValidatorPower
  unbonding,   \* operators in the unbonding-validator queue
  tokens,      \* shares the validator has issued
  delegations, \* pairs <<delegator, operator>>, one share each
  entries,     \* unbonding and redelegation entries
  completions, \* the entries the completion queues name
  byId,        \* the entries the UnbondingID indexes name
  lastId,      \* last UnbondingId given
  rewards,     \* delegations with a reward to withdraw
  commission,  \* operators with commission to withdraw
  withdraw,    \* withdraw address of each delegator
  supernodes,  \* supernode account of each operator's supernode
  metrics,     \* operators whose supernode has a metrics row
  grants, allowances, actions,  \* <<granter, grantee>>, <<creator, supernode>>
  ops

ledger  == <<records, byNew, blockCount>>
holding == <<accounts, bank>>
valset  == <<validators, jailed, cons, byCons, power, lastPower, unbonding>>
staked  == <<tokens, delegations, entries, completions, byId, lastId>>
distr   == <<rewards, commission, withdraw>>
nodes   == <<supernodes, metrics>>
links   == <<grants, allowances, actions>>
vars    == <<open, ledger, holding, valset, staked, distr, nodes, links, ops>>

Init ==
  /\ open = TRUE
  /\ blockCount = 0
  /\ records = [a \in Addr |-> None]
  /\ byNew = [a \in Addr |-> None]
  /\ accounts = [a \in Addr |-> IF a \in VestingAccounts THEN a
                                ELSE IF a \in Legacy THEN Base ELSE None]
  /\ bank = [a \in Addr |-> 0]
  /\ validators = [a \in Addr |-> IF a \in Operators THEN "Bonded" ELSE None]
  /\ jailed = {}
  /\ cons = [a \in Addr |-> IF a \in Operators THEN a ELSE None]
  /\ byCons = [k \in Operators |-> k]
  /\ power = Operators /\ lastPower = Operators /\ unbonding = {}
  /\ tokens = [a \in Addr |-> Cardinality({p \in Stakes : p[2] = a})]
  /\ delegations = Stakes
  /\ entries = {} /\ completions = {} /\ byId = {} /\ lastId = 0
  /\ rewards = {} /\ commission = {}
  /\ withdraw = [a \in Addr |-> a]
  /\ supernodes = [a \in Addr |-> None] /\ metrics = {}
  /\ grants = Grants /\ allowances = Grants /\ actions = Grants
  /\ ops = 0
-----------------------------------------------------------------------------
(* The rest of the chain between migrations, at most MaxOps operations.    *)
Op == ops < MaxOps /\ ops' = ops + 1

Dead(a) == records[a] # None

(* A new address acts once it has been migrated to, early stakers before   *)
(* that too.  A legacy key still signs after its migration if its account  *)
(* comes into being again.                                                 *)
Acts(a) == accounts[a] # None /\ (a \in Legacy \cup EarlyStakers \/ byNew[a] # None)

(* The reward of each delegation of P goes to the payee of its delegator.  *)
Credit(b, P, payee) ==
  [a \in Addr |-> b[a] + Cardinality({p \in P : payee[p[1]] = a})]

Fund(a) ==
  /\ Op
  /\ bank' = [bank EXCEPT ![a] = @ + 1]
  /\ accounts' = [accounts EXCEPT ![a] = IF @ = None THEN Base ELSE @]
  /\ UNCHANGED <<open, ledger, valset, staked, distr, nodes, links>>

Delegate(d, v) ==
  /\ Op /\ Acts(d)
  /\ validators[v] # None /\ <<d, v>> \notin delegations
  /\ delegations' = delegations \cup {<<d, v>>}
  /\ tokens' = [tokens EXCEPT ![v] = @ + 1]
  /\ UNCHANGED <<open, ledger, holding, valset, entries, completions, byId, lastId,
                 distr, nodes, links>>

(* Undelegation (w is None) or redelegation from v to w; operators keep    *)
(* their self-delegation.  The SDK withdraws the reward on the way.        *)
Undelegate(d, v, w) ==
  LET e == [del |-> d, src |-> v, dst |-> w, id |-> lastId + 1]
  IN  /\ Op /\ Acts(d) /\ lastId < MaxEntries
      /\ d # v /\ w # v /\ <<d, v>> \in delegations
      /\ w # None => /\ validators[w] # None /\ <<d, w>> \notin delegations
                     /\ \A x \in entries : ~(x.del = d /\ x.dst = v)
      /\ entries' = entries \cup {e}
      /\ completions' = completions \cup {e}
      /\ byId' = byId \cup {e}
      /\ lastId' = lastId + 1
      /\ delegations' = (delegations \ {<<d, v>>})
                          \cup (IF w = None THEN {} ELSE {<<d, w>>})
      /\ tokens' = [a \in Addr |-> IF a = v THEN tokens[a] - 1
                                   ELSE IF a = w THEN tokens[a] + 1 ELSE tokens[a]]
      /\ bank' = Credit(bank, rewards \cap {<<d, v>>}, withdraw)
      /\ rewards' = rewards \ {<<d, v>>}
      /\ UNCHANGED <<open, ledger, accounts, valset, commission, withdraw, nodes, links>>

(* The staking EndBlocker dequeues the items of one completion time.  An   *)
(* item whose delegation is no longer found is skipped.                    *)
Mature(i) ==
  LET done == {e \in entries \cap completions : e.id = i}
  IN  /\ Op
      /\ \E q \in completions : q.id = i
      /\ \A q \in completions : i <= q.id
      /\ completions' = {q \in completions : q.id # i}
      /\ entries' = entries \ done
      /\ byId' = byId \ done
      /\ bank' = [a \in Addr |-> bank[a] + Cardinality({e \in done : e.dst = None /\ e.del = a})]
      /\ UNCHANGED <<open, ledger, accounts, valset, tokens, delegations, lastId,
                     distr, nodes, links>>

Allocate(v) ==
  /\ Op /\ validators[v] = "Bonded"
  /\ rewards' = rewards \cup {p \in delegations : p[2] = v}
  /\ commission' = IF HasCommission THEN commission \cup {v} ELSE commission
  /\ UNCHANGED <<open, ledger, holding, valset, staked, withdraw, nodes, links>>

SetWithdrawAddr(d, a) ==
  /\ Op /\ Acts(d) /\ withdraw[d] # a
  /\ withdraw' = [withdraw EXCEPT ![d] = a]
  /\ UNCHANGED <<open, ledger, holding, valset, staked, rewards, commission, nodes, links>>

(* Registration of a supernode, or a change of its account, by operator v. *)
RegisterSupernode(v, a) ==
  /\ Op /\ Acts(v) /\ validators[v] # None
  /\ \A w \in Addr : supernodes[w] # a
  /\ CrossAccounts \/ a = v \/ validators[a] = None
  /\ supernodes' = [supernodes EXCEPT ![v] = a]
  /\ UNCHANGED <<open, ledger, holding, valset, staked, distr, metrics, links>>

ReportMetrics(v) ==
  /\ Op /\ supernodes[v] # None /\ v \notin metrics
  /\ metrics' = metrics \cup {v}
  /\ UNCHANGED <<open, ledger, holding, valset, staked, distr, supernodes, links>>

Jail(v) ==
  /\ Op /\ validators[v] # None /\ v \notin jailed
  /\ jailed' = jailed \cup {v}
  /\ power' = power \ {v}
  /\ UNCHANGED <<open, ledger, holding, validators, cons, byCons, lastPower, unbonding,
                 staked, distr, nodes, links>>

Unjail(v) ==
  /\ Op /\ v \in jailed
  /\ jailed' = jailed \ {v}
  /\ power' = power \cup {v}
  /\ UNCHANGED <<open, ledger, holding, validators, cons, byCons, lastPower, unbonding,
                 staked, distr, nodes, links>>

(* Status changes of the staking EndBlocker.                               *)
ChangeStatus(v) ==
  /\ Op
  /\ \/ /\ validators[v] = "Bonded"
        /\ validators' = [validators EXCEPT ![v] = "Unbonding"]
        /\ unbonding' = unbonding \cup {v}
        /\ lastPower' = lastPower \ {v}
     \/ /\ v \in unbonding /\ validators[v] = "Unbonding"
        /\ validators' = [validators EXCEPT ![v] = "Unbonded"]
        /\ unbonding' = unbonding \ {v}
        /\ UNCHANGED lastPower
     \/ /\ v \in power /\ validators[v] \in {"Unbonding", "Unbonded"}
        /\ validators' = [validators EXCEPT ![v] = "Bonded"]
        /\ unbonding' = unbonding \ {v}
        /\ lastPower' = lastPower \cup {v}
  /\ UNCHANGED <<open, ledger, holding, jailed, cons, byCons, power, staked, distr,
                 nodes, links>>

(* The counter is kept per height.                                         *)
NextBlock ==
  /\ blockCount' = 0
  /\ UNCHANGED <<open, records, byNew, holding, valset, staked, distr, nodes, links, ops>>

(* Governance disables or enables migration, or its end time passes.       *)
UpdateParams ==
  /\ Op
  /\ open' = ~open
  /\ UNCHANGED <<ledger, holding, valset, staked, distr, nodes, links>>
-----------------------------------------------------------------------------
(* Steps of the two migrations of legacy address l to new address n.       *)
Moved(a, l, n) == IF a = l THEN n ELSE a

WithinWindow == open /\ blockCount < MaxPerBlock

PreChecks(l, n) ==
  /\ WithinWindow
  /\ l # n
  /\ ~Dead(l) /\ ~Dead(n)
  /\ byNew[n] = None
  /\ accounts[l] # None

(* VerifyMigrationProof for the two sides.                                 *)
ProofsVerify(l, n) == l \in Legacy /\ n \in New

(* Mutant: the withdraw address is taken as it stands.                     *)
AnyPayee(d) == withdraw[d]

(* Where a migration lets the rewards of delegator d go: to d itself when  *)
(* its withdraw address has been migrated away.                            *)
SafePayee(d) == IF withdraw[d] # d /\ Dead(withdraw[d]) THEN d ELSE withdraw[d]
SafePayees   == [d \in Addr |-> SafePayee(d)]

(* Mutant: the record of the withdraw address is not followed.             *)
NotFollowed(l, n) == Moved(withdraw[l], l, n)

(* The withdraw address n gets, and the row that stays behind at l.        *)
ResolvedWithdraw(l, n) ==
  LET w == withdraw[l]
  IN  IF w = l THEN n ELSE IF Dead(w) THEN records[w] ELSE w
MigrateWithdraw(l, n) ==
  [withdraw EXCEPT ![l] = IF SafePayee(l) = l THEN l ELSE @,
                   ![n] = ResolvedWithdraw(l, n)]

(* SetUnbondingDelegation and SetRedelegation replace what is stored under *)
(* the new key, the queues keep the items of the old keys.                 *)
Key(e) == <<e.del, e.src, e.dst>>
RekeyEntries(E, M, N) == {e \in E \ M : \A x \in N : Key(e) # Key(x)} \cup N

(* Mutant: the queues are not told of the new keys.                        *)
QueueKept(Q, N) == Q

RekeyQueue(Q, N) == Q \cup N
RekeyById(B, N) == {b \in B : \A x \in N : b.id # x.id} \cup N

(* MigrateStaking, on delegations D and entries E, queue Q, index B.       *)
OfDelegator(E, l) == {e \in E : e.del = l}
DelegatorMoved(e, l, n) == [e EXCEPT !.del = Moved(@, l, n)]
MigrateStaking(D, E, Q, B, l, n) ==
  LET M == OfDelegator(E, l)
      N == {DelegatorMoved(e, l, n) : e \in M}
  IN  /\ delegations' = {<<Moved(p[1], l, n), p[2]>> : p \in D}
      /\ entries' = RekeyEntries(E, M, N)
      /\ completions' = RekeyQueue(Q, N)
      /\ byId' = RekeyById(B, N)
      /\ UNCHANGED lastId

(* Mutant: an account of any kind is accepted.                             *)
AnyDestination(n) == n \in New

(* The destination of MigrateAuth is fresh or a plain base account; the    *)
(* vesting schedule is re-applied once the coins have moved.               *)
DestinationFits(n) == accounts[n] \in {None, Base}
MigrateAuth(l, n) ==
  /\ DestinationFits(n)
  /\ accounts' = [accounts EXCEPT ![l] = None, ![n] = accounts[l]]

(* Mutant: what the destination held is lost.                              *)
BalanceOverwritten(b, l, n) == [b EXCEPT ![l] = 0, ![n] = b[l]]

MigrateBank(b, l, n) == [b EXCEPT ![l] = 0, ![n] = @ + b[l]]

(* Mutant: only the granter or creator is moved.                           *)
FirstOnly(S, l, n) == {<<Moved(p[1], l, n), p[2]>> : p \in S}

RekeyPairs(S, l, n) == {<<Moved(p[1], l, n), Moved(p[2], l, n)>> : p \in S}
MigrateAuthz(l, n)    == grants' = RekeyPairs(grants, l, n)
MigrateFeegrant(l, n) == allowances' = RekeyPairs(allowances, l, n)
MigrateActions(l, n)  == actions' = RekeyPairs(actions, l, n)

(* Mutant: the supernode record is not updated.                            *)
SupernodeForgotten(l, n) == UNCHANGED supernodes

(* SetSuperNode refuses an account that another supernode has.             *)
MigrateSupernode(l, n) ==
  IF \E v \in Addr : supernodes[v] = l
  THEN /\ \A v \in Addr : supernodes[v] # n
       /\ supernodes' = [v \in Addr |-> Moved(supernodes[v], l, n)]
  ELSE UNCHANGED supernodes

FinalizeMigration(l, n) ==
  /\ records' = [records EXCEPT ![l] = n]
  /\ byNew' = [byNew EXCEPT ![n] = l]
  /\ blockCount' = blockCount + 1

(* The rows of n that a delegation of l replaces lose their old reward.    *)
Replaced(D, l, n) == {<<n, p[2]>> : p \in {q \in D : q[1] = l}}

ClaimLegacyAccount(l, n) ==
  LET own == {p \in rewards : p[1] = l}
  IN  /\ PreChecks(l, n)
      /\ validators[l] = None
      /\ ProofsVerify(l, n)
      /\ rewards' = rewards \ (own \cup Replaced(delegations, l, n))
      /\ MigrateStaking(delegations, entries, completions, byId, l, n)
      /\ withdraw' = MigrateWithdraw(l, n)
      /\ MigrateAuth(l, n)
      /\ bank' = MigrateBank(Credit(bank, own, SafePayees), l, n)
      /\ MigrateAuthz(l, n)
      /\ MigrateFeegrant(l, n)
      /\ MigrateSupernode(l, n)
      /\ MigrateActions(l, n)
      /\ FinalizeMigration(l, n)
      /\ UNCHANGED <<open, valset, tokens, commission, metrics, ops>>

(* MigrateValidator refuses a jailed or unbonding validator, and one with  *)
(* more delegation, unbonding and redelegation records than it may re-key. *)
OfValidator(E, v) == {e \in E : v \in {e.src, e.dst}}
(* Mutant: unbonding validators are moved too.                             *)
UnbondingToo(l, n) == validators[l] # None /\ l \notin jailed /\ validators[n] = None

ValidatorFits(l, n) ==
  /\ validators[l] # None /\ l \notin jailed
  /\ validators[l] # "Unbonding"
  /\ validators[n] = None
  /\ Cardinality({p \in delegations : p[2] = l})
       + Cardinality({Key(e) : e \in OfValidator(entries, l)}) <= MaxRecords

(* V1: commission goes to the withdraw address as it stands, the rewards   *)
(* of every delegator to the safe payee.                                   *)
PayCommission(b, v) ==
  IF v \in commission THEN [b EXCEPT ![withdraw[v]] = @ + 1] ELSE b

(* V2, and V8, which deletes the old row of the validator.                 *)
SetRow(f, l, n) == [f EXCEPT ![n] = f[l]]
DeleteValidatorRecordNoHooks(f, l, empty) == [f EXCEPT ![l] = empty]
MigrateValidatorRecord(l, n) ==
  /\ validators' = DeleteValidatorRecordNoHooks(SetRow(validators, l, n), l, None)
  /\ cons' = DeleteValidatorRecordNoHooks(SetRow(cons, l, n), l, None)
  /\ tokens' = DeleteValidatorRecordNoHooks(SetRow(tokens, l, n), l, 0)
  /\ power' = (power \ {l}) \cup {n}
  /\ lastPower' = {Moved(v, l, n) : v \in lastPower}
  /\ byCons' = [byCons EXCEPT ![cons[l]] = n]
  /\ UNCHANGED <<jailed, unbonding>>

(* V3, on the commission that V1 left.                                     *)
MigrateValidatorDistribution(C, l, n) == commission' = {Moved(v, l, n) : v \in C}

(* V4 *)
ValidatorMoved(e, l, n) == [e EXCEPT !.src = Moved(@, l, n), !.dst = Moved(@, l, n)]
(* Mutant: only the operator's own delegation is re-keyed.                 *)
SelfDelegationOnly(D, l, n) == {IF p = <<l, l>> THEN <<l, n>> ELSE p : p \in D}

RekeyValidator(D, l, n) == {<<p[1], Moved(p[2], l, n)>> : p \in D}

(* V5: the account changes only if it is the operator's own.               *)
MigrateValidatorSupernode(l, n) ==
  IF supernodes[l] = None THEN UNCHANGED nodes
  ELSE LET a == Moved(supernodes[l], l, n)
       IN  /\ \A v \in Addr \ {l} : supernodes[v] # a
           /\ supernodes' = [supernodes EXCEPT ![l] = None, ![n] = a]
           /\ metrics' = {Moved(v, l, n) : v \in metrics}

MigrateValidator(l, n) ==
  LET paid == {p \in rewards : l \in {p[1], p[2]}}
      M    == OfValidator(entries, l)
      N    == {ValidatorMoved(e, l, n) : e \in M}
      D    == RekeyValidator(delegations, l, n)
  IN  /\ PreChecks(l, n)
      /\ ValidatorFits(l, n)
      /\ ProofsVerify(l, n)
      /\ bank' = MigrateBank(Credit(PayCommission(bank, l), paid, SafePayees), l, n)
      /\ MigrateValidatorRecord(l, n)
      /\ MigrateValidatorDistribution(commission \ {l}, l, n)
      /\ MigrateStaking(D, RekeyEntries(entries, M, N), RekeyQueue(completions, N),
                        RekeyById(byId, N), l, n)
      /\ MigrateValidatorSupernode(l, n)
      /\ MigrateActions(l, n)
      /\ rewards' = rewards \ (paid \cup Replaced(D, l, n))
      /\ withdraw' = MigrateWithdraw(l, n)
      /\ MigrateAuth(l, n)
      /\ MigrateAuthz(l, n)
      /\ MigrateFeegrant(l, n)
      /\ FinalizeMigration(l, n)
      /\ UNCHANGED <<open, ops>>

Next ==
  \/ NextBlock
  \/ UpdateParams
  \/ \E a \in Addr : Fund(a) \/ Allocate(a) \/ ReportMetrics(a)
                    \/ Jail(a) \/ Unjail(a) \/ ChangeStatus(a)
  \/ \E d \in Addr, v \in Addr : Delegate(d, v) \/ SetWithdrawAddr(d, v)
                               \/ RegisterSupernode(v, d)
  \/ \E d \in Addr, v \in Addr, w \in Addr \cup {None} : Undelegate(d, v, w)
  \/ \E i \in 1..MaxEntries : Mature(i)
  \/ \E l \in Addr, n \in Addr : ClaimLegacyAccount(l, n) \/ MigrateValidator(l, n)

Spec == Init /\ [][Next]_vars
-----------------------------------------------------------------------------
Current(a) == IF records[a] = None THEN a ELSE records[a]

(* MigrationRecords and MigrationRecordByNewAddress, written one after the *)
(* other by finalizeMigration, stay inverse to each other: nobody is moved *)
(* twice and no destination is shared.                                     *)
RecordsInverse == \A l \in Addr, n \in Addr : records[l] = n <=> byNew[n] = l

(* Whatever the order in which the two sides migrate, every authz grant,   *)
(* fee allowance and action of the start is held by the present addresses  *)
(* of both its parties, and there is no other.                             *)
LinksFollow ==
  LET moved == {<<Current(p[1]), Current(p[2])>> : p \in Grants}
  IN  grants = moved /\ allowances = moved /\ actions = moved

(* A vesting schedule is always that of the present address of the account *)
(* it was given to: MigrateAuth never writes over one.                     *)
ScheduleKept == \A a \in VestingAccounts : accounts[Current(a)] = a

(* Every unbonding and redelegation entry is named by a completion queue   *)
(* and by its UnbondingID index under its present keys, so that it         *)
(* completes in time.                                                      *)
EntriesComplete == entries \subseteq completions /\ byId = entries

(* The power index, LastValidatorPower, the unbonding-validator queue and  *)
(* ValidatorByConsAddr name exactly the validator records there are: no    *)
(* EndBlocker looks up an operator that has been moved away.               *)
ValidatorsIndexed ==
  /\ power = {v \in Addr : validators[v] # None} \ jailed
  /\ lastPower = {v \in Addr : validators[v] = "Bonded"}
  /\ unbonding = {v \in Addr : validators[v] = "Unbonding"}
  /\ \A v \in Addr : validators[v] # None => byCons[cons[v]] = v

(* A validator has issued the shares its delegations hold.                 *)
SharesConserved ==
  \A v \in Addr : tokens[v] = Cardinality({p \in delegations : p[2] = v})

Wealth == SumFunctionOnSet(bank, Addr) + Cardinality(rewards) + Cardinality(commission)

(* A migration pays out and moves coins, it neither makes nor loses any.   *)
CoinsConserved == [][records' # records => Wealth' = Wealth]_vars

(* A migration leaves nothing at the address it moves away from: no coins, *)
(* account, stake, reward, validator, supernode, grant or action, neither  *)
(* of its own nor where others name it.                                    *)
NothingAt(l) ==
  /\ bank[l] = 0 /\ accounts[l] = None
  /\ validators[l] = None /\ tokens[l] = 0 /\ cons[l] = None
  /\ l \notin power \cup lastPower \cup unbonding \cup commission \cup metrics
  /\ \A k \in Operators : byCons[k] # l
  /\ \A p \in delegations \cup rewards \cup grants \cup allowances \cup actions : l \notin {p[1], p[2]}
  /\ \A e \in entries \cup byId : l \notin {e.del, e.src, e.dst}
  /\ supernodes[l] = None /\ \A v \in Addr : supernodes[v] # l
LeavesNothing == [][\A l \in Addr : records'[l] # records[l] => NothingAt(l)']_vars

(* A migration pays an address that was migrated before at most what that  *)
(* address earns itself: rewards of others whose withdraw address it is    *)
(* do not land there.                                                      *)
DeadNotPaid ==
  [][records' # records =>
       \A a \in Addr : Dead(a) =>
         bank'[a] <= bank[a] + Cardinality({p \in rewards : p[1] = a})]_vars

(* The withdraw address a migrated delegator ends up with has not itself   *)
(* been migrated away.                                                     *)
WithdrawAlive ==
  [][\A l \in Addr : records'[l] # records[l] =>
       records'[withdraw'[records'[l]]] = None]_vars
==============================================================================
