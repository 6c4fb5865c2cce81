-------------------------- MODULE EvMigrationProofs --------------------------
(***************************************************************************)
(* Proofs about EvMigration for any sets of addresses, operators, vesting  *)
(* accounts, early stakers and grants, and any number of other operations. *)
(***************************************************************************)
EXTENDS EvMigration, SumFacts

(* The types of the ledger and of the accounts.                            *)
KeyTypes ==
  /\ records \in [Addr -> New \cup {None}]
  /\ byNew \in [Addr -> Legacy \cup {None}]
  /\ accounts \in [Addr -> VestingAccounts \cup {None, Base}]

(* The types of the validator rows: only validators are jailed, and each   *)
(* has a consensus key.                                                    *)
RowTypes ==
  /\ validators \in [Addr -> {None, "Bonded", "Unbonding", "Unbonded"}]
  /\ cons \in [Addr -> Operators \cup {None}]
  /\ byCons \in [Operators -> Addr]
  /\ jailed \subseteq {v \in Addr : validators[v] # None}
  /\ \A v \in Addr : validators[v] # None => cons[v] \in Operators

(* A delegation whose delegator or validator is rekeyed is a delegation.   *)
LEMMA RekeyedPair ==
  ASSUME NEW p \in Addr \X Addr, NEW l \in Addr, NEW n \in Addr
  PROVE  /\ <<Moved(p[1], l, n), p[2]>> \in Addr \X Addr
         /\ <<p[1], Moved(p[2], l, n)>> \in Addr \X Addr
<1>1. p[1] \in Addr /\ p[2] \in Addr
  OBVIOUS
<1>2. \A a \in Addr : Moved(a, l, n) \in Addr
  BY Zenon DEF Moved
<1> QED BY <1>1, <1>2

(* What both migrations do to the ledger, the accounts and the links.      *)
Migrates(l, n) ==
  /\ l \in Legacy /\ n \in New
  /\ records[l] = None /\ byNew[n] = None
  /\ records' = [records EXCEPT ![l] = n]
  /\ byNew' = [byNew EXCEPT ![n] = l]
  /\ accounts[n] \in {None, Base}
  /\ accounts' = [accounts EXCEPT ![l] = None, ![n] = accounts[l]]
  /\ grants' = RekeyPairs(grants, l, n)
  /\ allowances' = RekeyPairs(allowances, l, n)
  /\ actions' = RekeyPairs(actions, l, n)

(* What every other step does to them: an account may come into being.     *)
Rests ==
  /\ UNCHANGED <<records, byNew, grants, allowances, actions>>
  /\ \/ UNCHANGED accounts
     \/ \E a \in Addr : accounts' = [accounts EXCEPT ![a] = IF @ = None THEN Base ELSE @]

(* Both handlers have all the effects that Migrates lists.                 *)
LEMMA MigrationSteps ==
  ASSUME NEW l \in Addr, NEW n \in Addr,
         ClaimLegacyAccount(l, n) \/ MigrateValidator(l, n)
  PROVE  Migrates(l, n)
<1>1. CASE ClaimLegacyAccount(l, n)
  BY <1>1 DEF ClaimLegacyAccount, Migrates, PreChecks, ProofsVerify, Dead, FinalizeMigration,
     MigrateAuth, DestinationFits, MigrateAuthz, MigrateFeegrant, MigrateActions
<1>2. CASE MigrateValidator(l, n)
  BY <1>2 DEF MigrateValidator, Migrates, PreChecks, ProofsVerify, Dead, FinalizeMigration,
     MigrateAuth, DestinationFits, MigrateAuthz, MigrateFeegrant, MigrateActions
<1> QED
  BY <1>1, <1>2

(* A step is a migration or leaves the ledger and the links alone.         *)
LEMMA StepCases ==
  ASSUME [Next]_vars
  PROVE  Rests \/ \E l \in Addr, n \in Addr : Migrates(l, n)
<1>1. CASE NextBlock
  BY <1>1 DEF NextBlock, Rests, holding, links
<1>2. CASE UpdateParams
  BY <1>2 DEF UpdateParams, Rests, ledger, holding, links
<1>3. ASSUME NEW a \in Addr, Fund(a)
      PROVE  Rests
  BY Zenon, <1>3 DEF Fund, Rests, ledger, links
<1>4. ASSUME NEW a \in Addr, Allocate(a) \/ ReportMetrics(a) \/ Jail(a) \/ Unjail(a)
      PROVE  Rests
  BY <1>4 DEF Allocate, ReportMetrics, Jail, Unjail, Rests, ledger, holding, links
<1>5. ASSUME NEW a \in Addr, ChangeStatus(a)
      PROVE  Rests
  BY <1>5 DEF ChangeStatus, Rests, ledger, holding, links
<1>6. ASSUME NEW d \in Addr, NEW v \in Addr,
             Delegate(d, v) \/ SetWithdrawAddr(d, v) \/ RegisterSupernode(v, d)
      PROVE  Rests
  BY <1>6 DEF Delegate, SetWithdrawAddr, RegisterSupernode, Rests, ledger, holding, links
<1>7. ASSUME NEW d \in Addr, NEW v \in Addr, NEW w \in Addr \cup {None}, Undelegate(d, v, w)
      PROVE  Rests
  BY <1>7 DEF Undelegate, Rests, ledger, links
<1>8. ASSUME NEW i \in 1..MaxEntries, Mature(i)
      PROVE  Rests
  BY <1>8 DEF Mature, Rests, ledger, links
<1>9. CASE UNCHANGED vars
  BY <1>9 DEF vars, Rests, ledger, holding, links
<1> QED
  BY <1>1, <1>2, <1>3, <1>4, <1>5, <1>6, <1>7, <1>8, <1>9, MigrationSteps DEF Next
-----------------------------------------------------------------------------
(* Ledger: the two maps of migration records.                              *)
LEMMA LedgerStep ==
  ASSUME RecordsInverse, KeyTypes, NEW l \in Addr, NEW n \in Addr, Migrates(l, n)
  PROVE  RecordsInverse'
<1>1. \A m \in Addr : records[l] # m
  BY AddressAssumption DEF Migrates, Addr
<1>2. \A k \in Addr : byNew[n] # k
  BY AddressAssumption DEF Migrates, Addr
<1>3. \A k \in Addr, m \in Addr : records'[k] = m <=> byNew'[m] = k
  <2> TAKE k \in Addr, m \in Addr
  <2>1. records[k] = m <=> byNew[m] = k
    BY DEF RecordsInverse
  <2>2. records'[k] = (IF k = l THEN n ELSE records[k])
    BY DEF Migrates, KeyTypes
  <2>3. byNew'[m] = (IF m = n THEN l ELSE byNew[m])
    BY DEF Migrates, KeyTypes
  <2>4. k # l => records[k] # n
    BY <1>2 DEF RecordsInverse
  <2>5. m # n => byNew[m] # l
    BY <1>1 DEF RecordsInverse
  <2> QED
    BY <2>1, <2>2, <2>3, <2>4, <2>5
<1> QED
  BY <1>3 DEF RecordsInverse

(* Links: a migration moves the present address of everybody by Moved.     *)
LEMMA CurrentMoves ==
  ASSUME KeyTypes, NEW l \in Addr, NEW n \in Addr, Migrates(l, n), NEW a \in Legacy
  PROVE  Current(a)' = Moved(Current(a), l, n)
<1>1. a \in Addr /\ a # None /\ n # None
  BY AddressAssumption DEF Addr
<1>2. records'[a] = (IF a = l THEN n ELSE records[a])
  BY <1>1 DEF Migrates, KeyTypes
<1>3. records[a] # None => records[a] \in New
  BY <1>1 DEF KeyTypes
<1>4. records[a] # None => records[a] # l
  BY <1>3, AddressAssumption DEF Migrates
<1> QED
  BY <1>1, <1>2, <1>4 DEF Current, Moved, Migrates

(* RekeyPairs takes the links to the present addresses after the step.     *)
LEMMA LinksStep ==
  ASSUME LinksFollow, KeyTypes, NEW l \in Addr, NEW n \in Addr, Migrates(l, n)
  PROVE  LinksFollow'
<1> DEFINE moved == {<<Current(p[1]), Current(p[2])>> : p \in Grants}
           next == {<<Current(p[1])', Current(p[2])'>> : p \in Grants}
<1>1. \A p \in Grants : p[1] \in Legacy /\ p[2] \in Legacy
  BY AddressAssumption
<1>2. \A p \in Grants : /\ Current(p[1])' = Moved(Current(p[1]), l, n)
                        /\ Current(p[2])' = Moved(Current(p[2]), l, n)
  BY <1>1, CurrentMoves
<1>3. \A p \in Grants : \A q : q = <<Current(p[1]), Current(p[2])>> =>
        <<Moved(q[1], l, n), Moved(q[2], l, n)>> = <<Current(p[1])', Current(p[2])'>>
  BY <1>2
<1>4. RekeyPairs(moved, l, n) = next
  <2>1. \A q \in moved : <<Moved(q[1], l, n), Moved(q[2], l, n)>> \in next
    BY <1>3
  <2>2. \A p \in Grants : \E q \in moved :
          <<Current(p[1])', Current(p[2])'>> = <<Moved(q[1], l, n), Moved(q[2], l, n)>>
    BY Zenon, <1>3
  <2>3. RekeyPairs(moved, l, n) \subseteq next
    BY <2>1, Zenon DEF RekeyPairs
  <2>4. next \subseteq RekeyPairs(moved, l, n)
    BY <2>2, Zenon DEF RekeyPairs
  <2> QED
    BY <2>3, <2>4
<1>5. grants' = next /\ allowances' = next /\ actions' = next
  BY <1>4 DEF LinksFollow, Migrates
<1> QED
  BY <1>5 DEF LinksFollow

(* Accounts: the destination has no schedule that could be written over.   *)
LEMMA ScheduleStep ==
  ASSUME ScheduleKept, KeyTypes, NEW l \in Addr, NEW n \in Addr, Migrates(l, n)
  PROVE  ScheduleKept'
<1> SUFFICES ASSUME NEW a \in VestingAccounts
             PROVE  accounts'[Current(a)'] = a
  BY DEF ScheduleKept
<1>1. a \in Addr /\ a # None /\ a # Base /\ n # None /\ l # n
  BY AddressAssumption DEF Addr, Migrates
<1>2. accounts[Current(a)] = a
  BY DEF ScheduleKept
<1>3. records'[a] = (IF a = l THEN n ELSE records[a])
  BY <1>1 DEF Migrates, KeyTypes
<1>4. accounts'[l] = None /\ accounts'[n] = accounts[l]
  BY <1>1 DEF Migrates, KeyTypes
<1>5. CASE a = l
  BY <1>1, <1>2, <1>3, <1>4, <1>5 DEF Current, Migrates
<1>6. CASE a # l
  <2>1. Current(a)' = Current(a)
    BY <1>3, <1>6 DEF Current
  <2>2. Current(a) \in Addr /\ Current(a) # l
    BY <1>1, <1>6, AddressAssumption DEF Current, KeyTypes, Addr, Migrates
  <2>3. Current(a) # n
    BY <1>1, <1>2 DEF Migrates
  <2>4. accounts'[Current(a)] = accounts[Current(a)]
    BY <2>2, <2>3 DEF Migrates, KeyTypes
  <2> QED
    BY <1>2, <2>1, <2>4
<1> QED
  BY <1>5, <1>6

(* Every step keeps the types of the ledger and of the accounts.           *)
LEMMA KeyTypesStep ==
  ASSUME KeyTypes, [Next]_vars
  PROVE  KeyTypes'
<1>1. CASE Rests
  BY <1>1 DEF Rests, KeyTypes
<1>2. ASSUME NEW l \in Addr, NEW n \in Addr, Migrates(l, n)
      PROVE  KeyTypes'
  BY <1>2 DEF Migrates, KeyTypes
<1> QED
  BY <1>1, <1>2, StepCases

(* The inductive invariant of ledger, links and accounts.                  *)
MigrationInv == KeyTypes /\ RecordsInverse /\ LinksFollow /\ ScheduleKept

(* Before the first migration everybody is at its own address.             *)
LEMMA MigrationInvInit == Init => MigrationInv
<1> SUFFICES ASSUME Init PROVE MigrationInv
  OBVIOUS
<1>1. KeyTypes /\ \A a \in Addr : records[a] = None /\ byNew[a] = None
  BY AddressAssumption DEF Init, KeyTypes
<1>2. RecordsInverse
  BY <1>1, AddressAssumption DEF RecordsInverse
<1>3. \A a \in Addr : Current(a) = a
  BY <1>1 DEF Current
<1>4. \A p \in Grants : p[1] \in Addr /\ p[2] \in Addr /\ p = <<p[1], p[2]>>
  BY AddressAssumption DEF Addr
<1>5. Grants = {<<Current(p[1]), Current(p[2])>> : p \in Grants}
  <2>1. \A p \in Grants : p = <<Current(p[1]), Current(p[2])>>
    BY <1>3, <1>4
  <2> QED
    BY <2>1, Zenon
<1>6. LinksFollow
  BY <1>5 DEF LinksFollow, Init
<1>7. ScheduleKept
  BY <1>3, AddressAssumption DEF ScheduleKept, Init
<1> QED
  BY <1>1, <1>2, <1>6, <1>7 DEF MigrationInv

(* Every step keeps the invariant of ledger, links and accounts.           *)
LEMMA MigrationInvStep == MigrationInv /\ [Next]_vars => MigrationInv'
<1> SUFFICES ASSUME MigrationInv, [Next]_vars PROVE MigrationInv'
  OBVIOUS
<1>1. KeyTypes'
  BY KeyTypesStep DEF MigrationInv
<1>2. CASE Rests
  <2>1. RecordsInverse' /\ \A a : Current(a)' = Current(a)
    BY <1>2 DEF MigrationInv, Rests, RecordsInverse, Current
  <2>2. LinksFollow'
    BY <1>2 DEF MigrationInv, Rests, LinksFollow, Current
  <2>3. ScheduleKept'
    <3> SUFFICES ASSUME NEW v \in VestingAccounts
                 PROVE  accounts'[Current(v)] = v
      BY <2>1 DEF ScheduleKept
    <3>1. v \in Addr /\ v # None /\ accounts[Current(v)] = v
      BY AddressAssumption DEF MigrationInv, ScheduleKept
    <3>2. Current(v) \in Addr
      BY <3>1 DEF Current, MigrationInv, KeyTypes, Addr
    <3> QED
      BY <1>2, <3>1, <3>2 DEF Rests, MigrationInv, KeyTypes
  <2> QED
    BY <1>1, <2>1, <2>2, <2>3 DEF MigrationInv
<1>3. ASSUME NEW l \in Addr, NEW n \in Addr, Migrates(l, n)
      PROVE  MigrationInv'
  BY <1>1, <1>3, LedgerStep, LinksStep, ScheduleStep DEF MigrationInv
<1> QED
  BY <1>2, <1>3, StepCases

(* MigrationRecords and MigrationRecordByNewAddress are inverse to each    *)
(* other in every reachable state: finalizeMigration runs only after       *)
(* preChecks found neither address used.                                   *)
THEOREM RecordsAreInverse == Spec => []RecordsInverse
<1> QED
  BY MigrationInvInit, MigrationInvStep, PTL DEF Spec, MigrationInv

(* MigrateAuthz, MigrateFeegrant and MigrateActions, each re-keying the    *)
(* side of one migrating address, together keep every link between the     *)
(* present addresses of its two parties, in any order of the migrations.   *)
THEOREM LinksAlwaysFollow == Spec => []LinksFollow
<1> QED
  BY MigrationInvInit, MigrationInvStep, PTL DEF Spec, MigrationInv

(* MigrateAuth and FinalizeVestingAccount carry every vesting schedule to  *)
(* the present address of its account and replace none.                    *)
THEOREM SchedulesKept == Spec => []ScheduleKept
<1> QED
  BY MigrationInvInit, MigrationInvStep, PTL DEF Spec, MigrationInv
-----------------------------------------------------------------------------
(* Validators: the rows, the indexes and the queue.                        *)
RowInv == RowTypes /\ ValidatorsIndexed

(* Only status changes and MigrateValidator touch the validator rows.      *)
LEMMA ValsetCases ==
  ASSUME [Next]_vars
  PROVE  \/ UNCHANGED valset
         \/ \E v \in Addr : Jail(v) \/ Unjail(v) \/ ChangeStatus(v)
         \/ \E l \in Addr, n \in Addr : MigrateValidator(l, n)
<1>1. NextBlock \/ UpdateParams \/ UNCHANGED vars => UNCHANGED valset
  BY DEF NextBlock, UpdateParams, vars
<1>2. \A a \in Addr : Fund(a) \/ Allocate(a) \/ ReportMetrics(a) => UNCHANGED valset
  BY DEF Fund, Allocate, ReportMetrics
<1>3. \A d \in Addr, v \in Addr :
        Delegate(d, v) \/ SetWithdrawAddr(d, v) \/ RegisterSupernode(v, d) => UNCHANGED valset
  BY DEF Delegate, SetWithdrawAddr, RegisterSupernode
<1>4. \A d \in Addr, v \in Addr, w \in Addr \cup {None} : Undelegate(d, v, w) => UNCHANGED valset
  BY DEF Undelegate
<1>5. \A i \in 1..MaxEntries : Mature(i) => UNCHANGED valset
  BY DEF Mature
<1>6. \A l \in Addr, n \in Addr : ClaimLegacyAccount(l, n) => UNCHANGED valset
  BY Zenon DEF ClaimLegacyAccount
<1> QED
  BY <1>1, <1>2, <1>3, <1>4, <1>5, <1>6 DEF Next

(* The validators of the start are bonded and indexed.                     *)
LEMMA RowInvInit == Init => RowInv
<1> SUFFICES ASSUME Init PROVE RowInv
  OBVIOUS
<1>1. Operators \subseteq Addr /\ \A v \in Operators : v # None
  BY AddressAssumption DEF Addr
<1>2. RowTypes
  BY <1>1 DEF Init, RowTypes, None
<1>3. ValidatorsIndexed
  BY <1>1 DEF Init, ValidatorsIndexed, None
<1> QED
  BY <1>2, <1>3 DEF RowInv

(* MigrateValidator keeps rows, indexes and queue in step.                 *)
LEMMA MigrateValidatorRows ==
  ASSUME RowInv, NEW l \in Addr, NEW n \in Addr, MigrateValidator(l, n)
  PROVE  RowInv'
<1>1. /\ validators[l] \in {"Bonded", "Unbonded"} /\ l \notin jailed
      /\ validators[n] = None /\ l # n
  BY Zenon DEF MigrateValidator, ValidatorFits, PreChecks, RowInv, RowTypes
<1>2. /\ validators' = [validators EXCEPT ![n] = validators[l], ![l] = None]
      /\ cons' = [cons EXCEPT ![n] = cons[l], ![l] = None]
      /\ power' = (power \ {l}) \cup {n}
      /\ lastPower' = {Moved(v, l, n) : v \in lastPower}
      /\ byCons' = [byCons EXCEPT ![cons[l]] = n]
      /\ UNCHANGED <<jailed, unbonding>>
  BY DEF MigrateValidator, MigrateValidatorRecord, DeleteValidatorRecordNoHooks, SetRow
<1>3. \A v \in Addr : /\ validators'[v] = (IF v = l THEN None ELSE IF v = n THEN validators[l]
                                           ELSE validators[v])
                      /\ cons'[v] = (IF v = l THEN None ELSE IF v = n THEN cons[l] ELSE cons[v])
  BY <1>1, <1>2 DEF RowInv, RowTypes
<1>4. cons[l] \in Operators /\ byCons[cons[l]] = l
  BY <1>1 DEF RowInv, RowTypes, ValidatorsIndexed, None
<1>5. RowTypes'
  <2>1. /\ validators' \in [Addr -> {None, "Bonded", "Unbonding", "Unbonded"}]
        /\ cons' \in [Addr -> Operators \cup {None}]
        /\ byCons' \in [Operators -> Addr]
    BY Zenon, <1>2 DEF RowInv, RowTypes
  <2>2. jailed' \subseteq {v \in Addr : validators'[v] # None}
    BY <1>1, <1>2, <1>3 DEF RowInv, RowTypes
  <2>3. \A v \in Addr : validators'[v] # None => cons'[v] \in Operators
    BY <1>3, <1>4 DEF RowInv, RowTypes
  <2> QED
    BY <2>1, <2>2, <2>3 DEF RowTypes
<1>6. power' = {v \in Addr : validators'[v] # None} \ jailed'
  BY <1>1, <1>2, <1>3 DEF RowInv, RowTypes, ValidatorsIndexed, None
<1>7. lastPower' = {v \in Addr : validators'[v] = "Bonded"}
  <2>1. \A v : v \in lastPower <=> v \in Addr /\ validators[v] = "Bonded"
    BY DEF RowInv, ValidatorsIndexed
  <2>2. \A v : v \in lastPower' <=> (v \in lastPower /\ v # l) \/ (v = n /\ l \in lastPower)
    BY <1>1, <1>2, <2>1 DEF Moved, None
  <2>3. \A v \in Addr : v \in lastPower' <=> validators'[v] = "Bonded"
    BY <1>1, <1>3, <2>1, <2>2 DEF None
  <2> QED
    BY <2>1, <2>2, <2>3
<1>8. unbonding' = {v \in Addr : validators'[v] = "Unbonding"}
  <2>1. \A v : v \in unbonding <=> v \in Addr /\ validators[v] = "Unbonding"
    BY DEF RowInv, ValidatorsIndexed
  <2>2. \A v \in Addr : v \in unbonding <=> validators'[v] = "Unbonding"
    BY <1>1, <1>3, <2>1 DEF None
  <2> QED
    BY Zenon, <1>2, <2>1, <2>2
<1>9. \A v \in Addr : validators'[v] # None => byCons'[cons'[v]] = v
  <2> SUFFICES ASSUME NEW v \in Addr, validators'[v] # None
               PROVE  byCons'[cons'[v]] = v
    OBVIOUS
  <2>1. CASE v = n
    BY <1>1, <1>2, <1>3, <1>4, <2>1 DEF RowInv, RowTypes
  <2>2. CASE v # n
    <3>1. v # l /\ cons'[v] = cons[v] /\ validators[v] # None
      BY <1>3, <2>2
    <3>2. byCons[cons[v]] = v /\ cons[v] \in Operators
      BY <3>1 DEF RowInv, RowTypes, ValidatorsIndexed
    <3>3. cons[v] # cons[l]
      BY <1>4, <3>1, <3>2
    <3> QED
      BY <1>2, <3>1, <3>2, <3>3 DEF RowInv, RowTypes
  <2> QED
    BY <2>1, <2>2
<1> QED
  BY <1>5, <1>6, <1>7, <1>8, <1>9 DEF RowInv, ValidatorsIndexed

(* So do jailing and the status changes of the EndBlocker.                 *)
LEMMA StatusRows ==
  ASSUME RowInv, NEW v \in Addr, Jail(v) \/ Unjail(v) \/ ChangeStatus(v)
  PROVE  RowInv'
<1>1. CASE Jail(v)
  BY <1>1 DEF Jail, RowInv, RowTypes, ValidatorsIndexed
<1>2. CASE Unjail(v)
  BY <1>2 DEF Unjail, RowInv, RowTypes, ValidatorsIndexed
<1>3. CASE ChangeStatus(v)
  <2>1. /\ UNCHANGED <<jailed, cons, byCons, power>>
        /\ validators[v] # None
        /\ \E s \in {"Bonded", "Unbonding", "Unbonded"} :
             /\ validators' = [validators EXCEPT ![v] = s]
             /\ lastPower' = (lastPower \ {v}) \cup (IF s = "Bonded" THEN {v} ELSE {})
             /\ unbonding' = (unbonding \ {v}) \cup (IF s = "Unbonding" THEN {v} ELSE {})
    BY <1>3 DEF ChangeStatus, RowInv, ValidatorsIndexed, None
  <2>2. RowTypes'
    BY <2>1 DEF RowInv, RowTypes, None
  <2>3. ValidatorsIndexed'
    BY <2>1 DEF RowInv, RowTypes, ValidatorsIndexed, None
  <2> QED
    BY <2>2, <2>3 DEF RowInv
<1> QED
  BY <1>1, <1>2, <1>3

(* The invariant of the rows is inductive.                                 *)
LEMMA RowInvStep == RowInv /\ [Next]_vars => RowInv'
<1> SUFFICES ASSUME RowInv, [Next]_vars PROVE RowInv'
  OBVIOUS
<1>1. CASE UNCHANGED valset
  BY <1>1 DEF valset, RowInv, RowTypes, ValidatorsIndexed
<1> QED
  BY <1>1, ValsetCases, StatusRows, MigrateValidatorRows

(* The power index, LastValidatorPower, the unbonding-validator queue and  *)
(* ValidatorByConsAddr match the validator rows in every reachable state,  *)
(* for any validator set: MigrateValidatorRecord re-keys the first two and *)
(* the last, and the refusal of unbonding validators spares the queue.     *)
THEOREM IndexesMatchRows == Spec => []ValidatorsIndexed
<1> QED
  BY RowInvInit, RowInvStep, PTL DEF Spec, RowInv
-----------------------------------------------------------------------------
(* Withdraw addresses.                                                     *)
WithdrawType == withdraw \in [Addr -> Addr]

(* No new address has been migrated away: its record would have a legacy   *)
(* address on the other side.                                              *)
LEMMA NewNeverDead ==
  ASSUME KeyTypes, RecordsInverse, NEW m \in New
  PROVE  records[m] = None
<1>1. m \in Addr /\ m \notin Legacy /\ m # None
  BY AddressAssumption DEF Addr
<1>2. ASSUME records[m] # None PROVE FALSE
  <2>1. records[m] \in Addr
    BY <1>1, <1>2 DEF KeyTypes, Addr
  <2>2. byNew[records[m]] = m
    BY <1>1, <2>1 DEF RecordsInverse
  <2> QED
    BY <1>1, <2>1, <2>2 DEF KeyTypes
<1> QED
  BY <1>2

(* Every withdraw address is an address.                                   *)
LEMMA WithdrawStep ==
  ASSUME WithdrawType, KeyTypes, [Next]_vars
  PROVE  WithdrawType'
<1>1. NextBlock \/ UpdateParams \/ UNCHANGED vars => UNCHANGED withdraw
  BY DEF NextBlock, UpdateParams, vars, distr
<1>2. \A a \in Addr : Fund(a) \/ Allocate(a) \/ ReportMetrics(a) \/ Jail(a) \/ Unjail(a)
                        \/ ChangeStatus(a) => UNCHANGED withdraw
  BY Zenon DEF Fund, Allocate, ReportMetrics, Jail, Unjail, ChangeStatus, distr
<1>3. \A d \in Addr, v \in Addr :
        Delegate(d, v) \/ RegisterSupernode(v, d) => UNCHANGED withdraw
  BY DEF Delegate, RegisterSupernode, distr
<1>4. \A d \in Addr, v \in Addr, w \in Addr \cup {None} : Undelegate(d, v, w) => UNCHANGED withdraw
  BY DEF Undelegate
<1>5. \A i \in 1..MaxEntries : Mature(i) => UNCHANGED withdraw
  BY DEF Mature, distr
<1>6. \A d \in Addr, a \in Addr : SetWithdrawAddr(d, a) => WithdrawType'
  BY DEF SetWithdrawAddr, WithdrawType
<1>7. ASSUME NEW l \in Addr, NEW n \in Addr,
             ClaimLegacyAccount(l, n) \/ MigrateValidator(l, n)
      PROVE  WithdrawType'
  <2>1. withdraw' = MigrateWithdraw(l, n)
    BY Zenon, <1>7 DEF ClaimLegacyAccount, MigrateValidator
  <2>2. ResolvedWithdraw(l, n) \in Addr
    BY DEF ResolvedWithdraw, Dead, WithdrawType, KeyTypes, Addr
  <2> QED
    BY <2>1, <2>2 DEF MigrateWithdraw, WithdrawType
<1> QED
  BY <1>1, <1>2, <1>3, <1>4, <1>5, <1>6, <1>7 DEF Next, WithdrawType

(* Only the two migrations write a migration record.                       *)
LEMMA WhoMigrates ==
  ASSUME [Next]_vars, records' # records
  PROVE  \E l \in Addr, n \in Addr :
           (ClaimLegacyAccount(l, n) \/ MigrateValidator(l, n)) /\ Migrates(l, n)
<1>1. ~(\E l \in Addr, n \in Addr : ClaimLegacyAccount(l, n) \/ MigrateValidator(l, n))
        => UNCHANGED records
  BY ZenonT(60) DEF Next, NextBlock, UpdateParams, Fund, Allocate, ReportMetrics, Jail, Unjail,
     ChangeStatus, Delegate, SetWithdrawAddr, RegisterSupernode, Undelegate, Mature,
     vars, ledger
<1> QED
  BY <1>1, MigrationSteps

(* The step of WithdrawAlive.                                              *)
LEMMA WithdrawAliveStep ==
  ASSUME WithdrawType, KeyTypes, RecordsInverse, [Next]_vars,
         NEW l \in Addr, records'[l] # records[l]
  PROVE  records'[withdraw'[records'[l]]] = None
<1>1. PICK k \in Addr, n \in Addr :
        (ClaimLegacyAccount(k, n) \/ MigrateValidator(k, n)) /\ Migrates(k, n)
  BY WhoMigrates
<1>2. k = l /\ k # n /\ records'[l] = n
  BY <1>1, AddressAssumption DEF Migrates, KeyTypes
<1>3. withdraw'[n] = ResolvedWithdraw(l, n)
  <2>1. withdraw' = MigrateWithdraw(l, n)
    BY Zenon, <1>1, <1>2 DEF ClaimLegacyAccount, MigrateValidator
  <2> QED
    BY <1>2, <2>1 DEF MigrateWithdraw, WithdrawType
<1>4. \A a \in Addr : a # l => records'[a] = records[a]
  BY <1>1, <1>2 DEF Migrates, KeyTypes
<1>5. \A m \in New : m \in Addr /\ m # l /\ records[m] = None
  BY <1>1, <1>2, NewNeverDead, AddressAssumption DEF Migrates, Addr
<1>6. CASE withdraw[l] = l
  BY <1>1, <1>2, <1>3, <1>4, <1>5, <1>6 DEF ResolvedWithdraw, Migrates
<1>7. CASE withdraw[l] # l /\ Dead(withdraw[l])
  <2>1. records[withdraw[l]] \in New
    BY <1>7 DEF Dead, KeyTypes, WithdrawType
  <2> QED
    BY Zenon, <1>2, <1>3, <1>4, <1>5, <1>7, <2>1 DEF ResolvedWithdraw
<1>8. CASE withdraw[l] # l /\ ~Dead(withdraw[l])
  BY Zenon, <1>2, <1>3, <1>4, <1>8 DEF ResolvedWithdraw, Dead, WithdrawType
<1> QED
  BY Zenon, <1>6, <1>7, <1>8

(* migrateWithdrawAddress never gives a migrated delegator a withdraw      *)
(* address that has been migrated away, whatever was migrated before and   *)
(* in whichever order.                                                     *)
THEOREM WithdrawAddressAlive == Spec => WithdrawAlive
<1> DEFINE I == MigrationInv /\ WithdrawType
           A == \A l \in Addr : records'[l] # records[l] =>
                  records'[withdraw'[records'[l]]] = None
<1>1. Init => I
  BY MigrationInvInit DEF Init, WithdrawType
<1>2. I /\ [Next]_vars => I'
  BY MigrationInvStep, WithdrawStep DEF MigrationInv
<1>3. I /\ [Next]_vars => [A]_vars
  BY WithdrawAliveStep DEF MigrationInv
<1>4. WithdrawAlive <=> [][A]_vars
  BY DEF WithdrawAlive
<1> QED
  BY <1>1, <1>2, <1>3, <1>4, PTL DEF Spec
-----------------------------------------------------------------------------
(* Supernodes, metrics and commission are those of validators there are,   *)
(* ValidatorByConsAddr has no row but theirs, and where operators serve no *)
(* other validator, no validator's address is another's supernode account. *)
NodeInv ==
  /\ supernodes \in [Addr -> Addr \cup {None}]
  /\ metrics \subseteq {v \in Addr : supernodes[v] # None}
  /\ \A v \in Addr : supernodes[v] # None => validators[v] # None
  /\ commission \subseteq {v \in Addr : validators[v] # None}
  /\ \A v \in Addr : validators[v] = None => cons[v] = None
  /\ \A k \in Operators : validators[byCons[k]] # None /\ cons[byCons[k]] = k
  /\ ~CrossAccounts => \A v \in Addr, a \in Legacy :
                         supernodes[v] = a /\ v # a => validators[a] = None

(* At the start there is no supernode and no commission.                   *)
LEMMA NodeInit == Init => NodeInv
<1> SUFFICES ASSUME Init PROVE NodeInv
  OBVIOUS
<1>1. \A k \in Operators : k \in Addr /\ k # None
  BY AddressAssumption DEF Addr
<1>2. \A v \in Addr : /\ supernodes[v] = None
                      /\ validators[v] = (IF v \in Operators THEN "Bonded" ELSE None)
                      /\ cons[v] = (IF v \in Operators THEN v ELSE None)
  BY DEF Init
<1>3. \A k \in Operators : validators[byCons[k]] # None /\ cons[byCons[k]] = k
  BY <1>1, <1>2 DEF Init, None
<1>4. \A a \in Legacy : a # None
  BY AddressAssumption DEF Addr
<1>5. /\ supernodes \in [Addr -> Addr \cup {None}]
      /\ metrics = {} /\ commission = {}
  BY DEF Init
<1>6. \A v \in Addr : validators[v] = None => cons[v] = None
  BY <1>2 DEF None
<1> QED BY <1>2, <1>3, <1>4, <1>5, <1>6 DEF NodeInv

(* ClaimLegacyAccount changes the account of a supernode, no validator.    *)
LEMMA ClaimNodes ==
  ASSUME NodeInv, NEW l \in Addr, NEW n \in Addr, ClaimLegacyAccount(l, n)
  PROVE  NodeInv' /\ \A v \in Addr : supernodes'[v] # l
<1>1. /\ l \in Legacy /\ n \in New /\ l # n /\ n \notin Legacy /\ l # None /\ n # None
      /\ UNCHANGED <<validators, cons, byCons, commission, metrics>>
  BY Zenon, AddressAssumption DEF ClaimLegacyAccount, ProofsVerify, valset, Addr
<1>0. MigrateSupernode(l, n)
  BY Zenon DEF ClaimLegacyAccount
<1>2. /\ supernodes' \in [Addr -> Addr \cup {None}]
      /\ \A v \in Addr : supernodes'[v] = Moved(supernodes[v], l, n)
  <2>1. supernodes \in [Addr -> Addr \cup {None}]
    BY Zenon DEF NodeInv
  <2>2. CASE supernodes' = [v \in Addr |-> Moved(supernodes[v], l, n)]
    BY <2>1, <2>2 DEF Moved
  <2>3. CASE UNCHANGED supernodes /\ \A v \in Addr : supernodes[v] # l
    BY Zenon, <2>1, <2>3 DEF Moved
  <2> QED BY Zenon, <1>0, <2>2, <2>3 DEF MigrateSupernode
<1>3. \A v \in Addr : /\ supernodes'[v] # l
                      /\ supernodes'[v] = None <=> supernodes[v] = None
                      /\ \A a \in Legacy : supernodes'[v] = a => supernodes[v] = a
  BY Zenon, <1>1, <1>2 DEF Moved
<1> QED BY <1>1, <1>2, <1>3 DEF NodeInv

(* MigrateValidator takes the supernode and its metrics to the new address *)
(* of the operator.                                                        *)
LEMMA ValidatorNodes ==
  ASSUME NodeInv, RowInv, NEW l \in Addr, NEW n \in Addr, MigrateValidator(l, n)
  PROVE  NodeInv' /\ (~CrossAccounts => \A v \in Addr : supernodes'[v] # l)
<1>1. /\ l \in Legacy /\ n \in New /\ l # n /\ n \notin Legacy /\ l # None /\ n # None
      /\ validators[l] # None /\ validators[n] = None
      /\ validators' = [validators EXCEPT ![n] = validators[l], ![l] = None]
      /\ cons' = [cons EXCEPT ![n] = cons[l], ![l] = None]
      /\ byCons' = [byCons EXCEPT ![cons[l]] = n]
  BY Zenon, AddressAssumption DEF MigrateValidator, ProofsVerify, ValidatorFits, Addr,
     MigrateValidatorRecord, DeleteValidatorRecordNoHooks, SetRow
<1>2. \A v \in Addr :
        /\ validators'[v] = (IF v = l THEN None ELSE IF v = n THEN validators[l] ELSE validators[v])
        /\ cons'[v] = (IF v = l THEN None ELSE IF v = n THEN cons[l] ELSE cons[v])
  BY <1>1 DEF RowInv, RowTypes
<1>3. \A v \in Addr : v # l /\ validators[v] # None => v # n /\ validators'[v] # None
  BY Zenon, <1>1, <1>2
<1>4. commission' \subseteq {v \in Addr : validators'[v] # None}
  <2>1. commission' = {Moved(v, l, n) : v \in commission \ {l}}
    BY DEF MigrateValidator, MigrateValidatorDistribution
  <2> QED BY <1>3, <2>1 DEF Moved, NodeInv
<1>5. \A v \in Addr : validators'[v] = None => cons'[v] = None
  <2>1. \A v \in Addr : validators[v] = None => cons[v] = None
    BY Zenon DEF NodeInv
  <2>2. l # n /\ validators[l] # None
    BY Zenon, <1>1
  <2> QED BY Zenon, <1>2, <2>1, <2>2
<1>6. \A k \in Operators : validators'[byCons'[k]] # None /\ cons'[byCons'[k]] = k
  <2> SUFFICES ASSUME NEW k \in Operators
               PROVE  validators'[byCons'[k]] # None /\ cons'[byCons'[k]] = k
    OBVIOUS
  <2>1. cons[l] \in Operators /\ byCons \in [Operators -> Addr]
    BY <1>1 DEF RowInv, RowTypes
  <2>2. CASE k = cons[l]
    BY Zenon, <1>1, <1>2, <2>1, <2>2
  <2>3. CASE k # cons[l]
    <3>1. byCons'[k] = byCons[k] /\ byCons[k] \in Addr
      BY <1>1, <2>1, <2>3
    <3>2. validators[byCons[k]] # None /\ cons[byCons[k]] = k
      BY DEF NodeInv
    <3> QED BY Zenon, <1>1, <1>2, <2>3, <3>1, <3>2
  <2> QED BY Zenon, <2>2, <2>3
<1>7. CASE supernodes[l] = None
  <2>1. UNCHANGED <<supernodes, metrics>>
    BY Zenon, <1>7 DEF MigrateValidator, MigrateValidatorSupernode, nodes
  <2>2. \A v \in Addr : supernodes[v] # None => v # l /\ validators[v] # None
    BY <1>7 DEF NodeInv
  <2>3. \A a \in Legacy : a \in Addr /\ (validators[a] = None => validators'[a] = None)
    BY Zenon, <1>1, <1>2 DEF Addr
  <2>4. ~CrossAccounts => \A v \in Addr : supernodes[v] # l
    BY <1>1, <1>7 DEF NodeInv
  <2> QED BY Zenon, <1>3, <1>4, <1>5, <1>6, <2>1, <2>2, <2>3, <2>4 DEF NodeInv
<1>8. CASE supernodes[l] # None
  <2> DEFINE a == Moved(supernodes[l], l, n)
  <2>1. /\ supernodes' = [supernodes EXCEPT ![l] = None, ![n] = a]
        /\ metrics' = {Moved(v, l, n) : v \in metrics}
    BY Zenon, <1>8 DEF MigrateValidator, MigrateValidatorSupernode
  <2>2. a \in Addr /\ a # None /\ a # l /\ (a \in Legacy => a = supernodes[l])
    BY <1>1, <1>8, AddressAssumption DEF Moved, NodeInv
  <2> HIDE DEF a
  <2>3. /\ supernodes' \in [Addr -> Addr \cup {None}]
        /\ \A v \in Addr : supernodes'[v] =
             (IF v = l THEN None ELSE IF v = n THEN a ELSE supernodes[v])
    BY <1>1, <2>1, <2>2 DEF NodeInv
  <2>4. metrics' \subseteq {v \in Addr : supernodes'[v] # None}
    BY <1>1, <2>1, <2>2, <2>3 DEF NodeInv, Moved
  <2>5. ASSUME NEW v \in Addr, supernodes'[v] # None
        PROVE  validators'[v] # None
    <3>1. v # l
      BY <2>3, <2>5
    <3>2. CASE v = n
      BY Zenon, <1>1, <1>2, <3>1, <3>2
    <3>3. CASE v # n
      <4>1. supernodes[v] # None
        BY <2>3, <2>5, <3>1, <3>3
      <4>2. validators[v] # None
        BY <4>1 DEF NodeInv
      <4> QED BY <1>3, <3>1, <4>2
    <3> QED BY <3>2, <3>3
  <2>6. \A b \in Legacy : b \in Addr /\ (validators[b] = None => validators'[b] = None)
    BY Zenon, <1>1, <1>2 DEF Addr
  <2>7. ~CrossAccounts => \A v \in Addr, b \in Legacy :
                            supernodes'[v] = b /\ v # b => validators'[b] = None
    <3> SUFFICES ASSUME ~CrossAccounts, NEW v \in Addr, NEW b \in Legacy,
                        supernodes'[v] = b, v # b
                 PROVE  validators'[b] = None
      OBVIOUS
    <3>1. b # None /\ v # l
      BY <2>3, AddressAssumption DEF Addr
    <3>2. CASE v = n
      <4>1. supernodes[l] = b /\ l # b
        BY <2>2, <2>3, <3>1, <3>2
      <4>2. validators[b] = None
        BY <4>1 DEF NodeInv
      <4> QED BY Zenon, <2>6, <4>2
    <3>3. CASE v # n
      <4>1. supernodes[v] = b
        BY <2>3, <3>1, <3>3
      <4>2. validators[b] = None
        BY <4>1 DEF NodeInv
      <4> QED BY <2>6, <4>2
    <3> QED BY <3>2, <3>3
  <2>8. ~CrossAccounts => \A v \in Addr : supernodes'[v] # l
    BY <1>1, <2>2, <2>3 DEF NodeInv
  <2> QED BY Zenon, <1>4, <1>5, <1>6, <2>3, <2>4, <2>5, <2>7, <2>8 DEF NodeInv
<1> QED BY Zenon, <1>7, <1>8

(* Every step keeps it.                                                    *)
LEMMA NodeNext ==
  ASSUME NodeInv, RowInv, [Next]_vars
  PROVE  NodeInv'
<1>1. CASE UNCHANGED <<valset, nodes, commission>>
  BY Zenon, <1>1 DEF valset, nodes, NodeInv
<1>2. NextBlock \/ UpdateParams \/ UNCHANGED vars => UNCHANGED <<valset, nodes, commission>>
  BY DEF NextBlock, UpdateParams, vars, distr
<1>3. \A a \in Addr : Fund(a) => UNCHANGED <<valset, nodes, commission>>
  BY DEF Fund, distr
<1>4. \A d \in Addr, v \in Addr :
        Delegate(d, v) \/ SetWithdrawAddr(d, v) => UNCHANGED <<valset, nodes, commission>>
  BY DEF Delegate, SetWithdrawAddr, distr
<1>5. \A d \in Addr, v \in Addr, w \in Addr \cup {None} :
        Undelegate(d, v, w) => UNCHANGED <<valset, nodes, commission>>
  <2> SUFFICES ASSUME NEW d \in Addr, NEW v \in Addr, NEW w \in Addr \cup {None},
                      Undelegate(d, v, w)
               PROVE  UNCHANGED <<valset, nodes, commission>>
    BY Zenon
  <2> QED BY ZenonT(60) DEF Undelegate
<1>6. \A i \in 1..MaxEntries : Mature(i) => UNCHANGED <<valset, nodes, commission>>
  BY DEF Mature, distr
<1>7. ASSUME NEW v \in Addr, Allocate(v) \/ ReportMetrics(v) \/ Jail(v) \/ Unjail(v)
      PROVE  NodeInv'
  <2>1. CASE Allocate(v)
    BY <2>1 DEF Allocate, distr, nodes, valset, NodeInv, None
  <2>2. CASE ReportMetrics(v)
    BY <2>2 DEF ReportMetrics, distr, nodes, valset, NodeInv, None
  <2>3. CASE Jail(v)
    BY <2>3 DEF Jail, distr, nodes, valset, NodeInv, None
  <2>4. CASE Unjail(v)
    BY <2>4 DEF Unjail, distr, nodes, valset, NodeInv, None
  <2> QED BY Zenon, <1>7, <2>1, <2>2, <2>3, <2>4
<1>8. ASSUME NEW v \in Addr, ChangeStatus(v)
      PROVE  NodeInv'
  <2>1. UNCHANGED <<cons, byCons, supernodes, metrics, commission>>
    BY <1>8 DEF ChangeStatus, nodes, distr
  <2>2. validators[v] # None /\ \E s : s # None /\ validators' = [validators EXCEPT ![v] = s]
    BY <1>8 DEF ChangeStatus, None
  <2>3. \A a \in Addr : validators'[a] = None <=> validators[a] = None
    BY <2>2 DEF RowInv, RowTypes
  <2>4. \A k \in Operators : byCons[k] \in Addr
    BY DEF RowInv, RowTypes
  <2>5. Legacy \subseteq Addr
    BY DEF Addr
  <2> QED BY Zenon, <2>1, <2>3, <2>4, <2>5 DEF NodeInv
<1>9. ASSUME NEW v \in Addr, NEW a \in Addr, RegisterSupernode(v, a)
      PROVE  NodeInv'
  <2>1. /\ UNCHANGED <<validators, cons, byCons, metrics, commission>>
        /\ supernodes' = [supernodes EXCEPT ![v] = a] /\ validators[v] # None
        /\ CrossAccounts \/ a = v \/ validators[a] = None
    BY <1>9 DEF RegisterSupernode, valset, distr
  <2>2. a # None
    BY AddressAssumption
  <2> QED BY <2>1, <2>2 DEF NodeInv
<1> QED
  BY Zenon, <1>1, <1>2, <1>3, <1>4, <1>5, <1>6, <1>7, <1>8, <1>9, ClaimNodes, ValidatorNodes DEF Next
-----------------------------------------------------------------------------
(* Balances, rewards and commission have their types.                      *)
CashInv ==
  /\ delegations \subseteq Addr \X Addr /\ rewards \subseteq Addr \X Addr
  /\ entries \subseteq Entry /\ lastId \in 0..MaxEntries
  /\ bank \in [Addr -> Nat]
  /\ commission \subseteq Addr /\ (~HasCommission => commission = {})

(* The sets of addresses, pairs and shares are finite.                     *)
LEMMA FiniteStake ==
  ASSUME NEW D, D \subseteq Addr \X Addr
  PROVE  /\ IsFiniteSet(Addr) /\ IsFiniteSet(D) /\ Cardinality(D) \in Nat
         /\ \A v : LET S == {p \in D : p[2] = v}
                   IN  IsFiniteSet(S) /\ Cardinality(S) \in Nat
<1>1. IsFiniteSet(Addr)
  BY Zenon, FS_Union, AddressAssumption DEF Addr
<1>2. IsFiniteSet(Addr \X Addr)
  BY <1>1, FS_Product
<1>3. IsFiniteSet(D) /\ Cardinality(D) \in Nat
  BY <1>2, FS_Subset, FS_CardinalityType
<1>4. \A v : {p \in D : p[2] = v} \in SUBSET D
  OBVIOUS
<1> QED BY <1>1, <1>3, <1>4, FS_Subset, FS_CardinalityType

(* There are finitely many entries.                                        *)
LEMMA FiniteEntries == IsFiniteSet(Entry)
<1> DEFINE S == ((Addr \X Addr) \X (Addr \cup {None})) \X (1..MaxEntries)
           f == [t \in S |-> [del |-> t[1][1][1], src |-> t[1][1][2], dst |-> t[1][2], id |-> t[2]]]
<1>1. IsFiniteSet(Addr) /\ IsFiniteSet(Addr \cup {None}) /\ IsFiniteSet(1..MaxEntries)
  <2>1. IsFiniteSet(Addr)
    BY Zenon, FS_Union, AddressAssumption DEF Addr
  <2>2. IsFiniteSet(1..MaxEntries)
    BY FS_Interval, AddressAssumption
  <2> QED BY <2>1, <2>2, FS_AddElement
<1>2. IsFiniteSet(S)
  <2>1. IsFiniteSet(Addr \X Addr)
    BY <1>1, FS_Product
  <2>2. IsFiniteSet((Addr \X Addr) \X (Addr \cup {None}))
    BY <1>1, <2>1, FS_Product
  <2> QED BY Zenon, <1>1, <2>2, FS_Product
<1>3. f \in [S -> Entry]
  <2>1. \A t \in S : t[1][1][1] \in Addr /\ t[1][1][2] \in Addr
                     /\ t[1][2] \in Addr \cup {None} /\ t[2] \in 1..MaxEntries
    OBVIOUS
  <2> QED BY <2>1 DEF Entry
<1>4. ASSUME NEW e \in Entry
      PROVE  \E t \in S : f[t] = e
  <2> DEFINE t == <<<<<<e.del, e.src>>, e.dst>>, e.id>>
  <2>1. t \in S
    BY DEF Entry
  <2>2. f[t] = [del |-> e.del, src |-> e.src, dst |-> e.dst, id |-> e.id]
    BY <2>1
  <2>3. f[t] = e
    BY <2>2 DEF Entry
  <2> QED BY <2>1, <2>3
<1>5. f \in Surjection(S, Entry)
  <2> HIDE DEF f
  <2> QED BY <1>3, <1>4 DEF Surjection
<1> QED
  <2> HIDE DEF f, S
  <2> QED BY <1>2, <1>5, FS_Surjection

(* A balance that grows by k makes the total grow by k.                    *)
LEMMA Grows ==
  ASSUME NEW b \in [Addr -> Nat], NEW c \in [Addr -> Nat], NEW x \in Addr, NEW k \in Nat,
         c[x] = b[x] + k, \A a \in Addr : a # x => c[a] = b[a]
  PROVE  SumFunctionOnSet(c, Addr) = SumFunctionOnSet(b, Addr) + k
<1>1. IsFiniteSet(Addr) /\ IsFiniteSet(Addr \ {x})
  BY Zenon, FS_Union, FS_RemoveElement, AddressAssumption DEF Addr
<1>2. /\ SumFunctionOnSet(b, Addr) = b[x] + SumFunctionOnSet(b, Addr \ {x})
      /\ SumFunctionOnSet(c, Addr) = c[x] + SumFunctionOnSet(c, Addr \ {x})
  BY <1>1, SumRemove
<1>3. SumFunctionOnSet(c, Addr \ {x}) = SumFunctionOnSet(b, Addr \ {x})
  BY <1>1, SumSame
<1>4. SumFunctionOnSet(b, Addr \ {x}) \in Nat
  BY <1>1, SumNat
<1> QED BY <1>2, <1>3, <1>4

(* The rewards of P add as much to the balances as there are.              *)
LEMMA CreditPays ==
  ASSUME NEW b \in [Addr -> Nat], NEW P, P \subseteq Addr \X Addr, NEW payee \in [Addr -> Addr]
  PROVE  /\ Credit(b, P, payee) \in [Addr -> Nat]
         /\ SumFunctionOnSet(Credit(b, P, payee), Addr)
              = SumFunctionOnSet(b, Addr) + Cardinality(P)
<1> DEFINE Of(T, a) == {p \in T : payee[p[1]] = a}
<1>1. ASSUME NEW T \in SUBSET P
      PROVE  /\ IsFiniteSet(T) /\ Cardinality(T) \in Nat
             /\ Credit(b, T, payee) \in [Addr -> Nat]
             /\ \A a \in Addr : IsFiniteSet(Of(T, a)) /\ Cardinality(Of(T, a)) \in Nat
                                /\ Credit(b, T, payee)[a] = b[a] + Cardinality(Of(T, a))
  <2>1. IsFiniteSet(T) /\ Cardinality(T) \in Nat
    BY FiniteStake
  <2>2. \A a \in Addr : Of(T, a) \in SUBSET T
    OBVIOUS
  <2>3. \A a \in Addr : IsFiniteSet(Of(T, a)) /\ Cardinality(Of(T, a)) \in Nat
    <3> HIDE DEF Of
    <3> QED BY <2>1, <2>2, FS_Subset, FS_CardinalityType
  <2>4. Credit(b, T, payee) = [a \in Addr |-> b[a] + Cardinality(Of(T, a))]
    BY DEF Credit
  <2> HIDE DEF Of
  <2> QED BY <2>1, <2>3, <2>4
<1>2. IsFiniteSet(Addr) /\ SumFunctionOnSet(b, Addr) \in Nat
  <2>1. IsFiniteSet(Addr)
    BY Zenon, FS_Union, AddressAssumption DEF Addr
  <2> QED BY <2>1, SumNat
<1> DEFINE Sum(T) == SumFunctionOnSet(Credit(b, T, payee), Addr)
           G == {T \in SUBSET P : Sum(T) = SumFunctionOnSet(b, Addr) + Cardinality(T)}
<1>3. {} \in G
  <2>1. \A a \in Addr : Of({}, a) = {}
    OBVIOUS
  <2>2. \A a \in Addr : Credit(b, {}, payee)[a] = b[a]
    <3> HIDE DEF Of
    <3> QED BY <1>1, <2>1, FS_EmptySet
  <2>3. Sum({}) = SumFunctionOnSet(b, Addr)
    BY <1>2, <2>2, SumSame
  <2> HIDE DEF Sum
  <2> QED BY <1>2, <2>3, FS_EmptySet
<1>4. ASSUME NEW T \in SUBSET P, NEW x \in P \ T, T \in G
      PROVE  T \cup {x} \in G
  <2> DEFINE y == payee[x[1]]
  <2>1. x \in Addr \X Addr /\ y \in Addr /\ T \cup {x} \in SUBSET P
    OBVIOUS
  <2>2. /\ Of(T \cup {x}, y) = Of(T, y) \cup {x} /\ x \notin Of(T, y)
        /\ \A a \in Addr : a # y => Of(T \cup {x}, a) = Of(T, a)
    OBVIOUS
  <2> HIDE DEF Of, y
  <2>3. Credit(b, T \cup {x}, payee)[y] = Credit(b, T, payee)[y] + 1
    <3>1. IsFiniteSet(Of(T, y)) /\ Cardinality(Of(T, y)) \in Nat
          /\ Credit(b, T, payee)[y] = b[y] + Cardinality(Of(T, y))
      BY <1>1, <2>1
    <3>2. Credit(b, T \cup {x}, payee)[y] = b[y] + Cardinality(Of(T \cup {x}, y))
      BY <1>1, <2>1
    <3>3. Cardinality(Of(T \cup {x}, y)) = Cardinality(Of(T, y)) + 1
      BY ZenonT(60), <2>2, <3>1, FS_AddElement
    <3>4. b[y] \in Nat
      BY <2>1
    <3> QED BY <3>1, <3>2, <3>3, <3>4
  <2>4. \A a \in Addr : a # y => Credit(b, T \cup {x}, payee)[a] = Credit(b, T, payee)[a]
    BY ZenonT(60), <1>1, <2>1, <2>2
  <2>5. /\ Credit(b, T, payee) \in [Addr -> Nat]
        /\ Credit(b, T \cup {x}, payee) \in [Addr -> Nat]
    BY <1>1, <2>1
  <2>6. Sum(T \cup {x}) = Sum(T) + 1
    BY ZenonT(60), <2>1, <2>3, <2>4, <2>5, Grows
  <2>7. Cardinality(T \cup {x}) = Cardinality(T) + 1 /\ Cardinality(T) \in Nat
    BY <1>1, FS_AddElement
  <2> HIDE DEF Sum
  <2> QED BY <1>2, <1>4, <2>1, <2>6, <2>7
<1>5. P \in G
  <2> HIDE DEF G
  <2>1. IsFiniteSet(P)
    BY FiniteStake
  <2> QED BY <1>3, <1>4, <2>1, FiniteSetInduction
<1> QED BY <1>1, <1>5

(* MigrateBank moves the whole balance of l.                               *)
LEMMA BankMoves ==
  ASSUME NEW b \in [Addr -> Nat], NEW l \in Addr, NEW n \in Addr, l # n
  PROVE  /\ MigrateBank(b, l, n) \in [Addr -> Nat]
         /\ MigrateBank(b, l, n)[l] = 0
         /\ \A a \in Addr : a \notin {l, n} => MigrateBank(b, l, n)[a] = b[a]
         /\ SumFunctionOnSet(MigrateBank(b, l, n), Addr) = SumFunctionOnSet(b, Addr)
<1> DEFINE c == [b EXCEPT ![l] = 0]
           m == MigrateBank(b, l, n)
<1>1. /\ c \in [Addr -> Nat] /\ m \in [Addr -> Nat]
      /\ c[l] = 0 /\ m[l] = 0 /\ m[n] = b[n] + b[l] /\ c[n] = b[n]
      /\ \A a \in Addr : (a # l => b[a] = c[a]) /\ (a \notin {l, n} => m[a] = b[a])
  BY DEF MigrateBank
<1> HIDE DEF c, m
<1>2. SumFunctionOnSet(b, Addr) = SumFunctionOnSet(c, Addr) + b[l]
  BY <1>1, Grows
<1>3. SumFunctionOnSet(m, Addr) = SumFunctionOnSet(c, Addr) + b[l]
  BY <1>1, Grows
<1> QED BY <1>1, <1>2, <1>3 DEF m

(* The commission of l goes to one address.                                *)
LEMMA CommissionPays ==
  ASSUME CashInv, WithdrawType, NEW l \in Addr
  PROVE  /\ PayCommission(bank, l) \in [Addr -> Nat]
         /\ SumFunctionOnSet(PayCommission(bank, l), Addr)
              = SumFunctionOnSet(bank, Addr) + (IF l \in commission THEN 1 ELSE 0)
<1> DEFINE c == PayCommission(bank, l)
           w == withdraw[l]
<1>0. bank \in [Addr -> Nat] /\ w \in Addr
  BY DEF CashInv, WithdrawType
<1>1. IsFiniteSet(Addr)
  BY Zenon, FS_Union, AddressAssumption DEF Addr
<1>2. SumFunctionOnSet(bank, Addr) \in Nat
  BY <1>0, <1>1, SumNat
<1>3. CASE l \in commission
  <2>1. /\ c \in [Addr -> Nat] /\ c[w] = bank[w] + 1
        /\ \A a \in Addr : a # w => c[a] = bank[a]
    BY <1>0, <1>3 DEF PayCommission
  <2> HIDE DEF c, w
  <2>2. SumFunctionOnSet(c, Addr) = SumFunctionOnSet(bank, Addr) + 1
    BY <1>0, <2>1, Grows
  <2> QED BY <1>3, <2>1, <2>2 DEF c
<1>4. CASE l \notin commission
  <2>1. c = bank
    BY <1>4 DEF PayCommission
  <2> HIDE DEF c
  <2> QED BY <1>0, <1>2, <1>4, <2>1 DEF c
<1> QED BY <1>3, <1>4

(* Both migrations pay out commission and rewards, then move the balance;  *)
(* besides, only rewards of the destination itself are dropped.            *)
PaysOut(l, n, P) ==
  /\ bank' = MigrateBank(Credit(PayCommission(bank, l), P, SafePayees), l, n)
  /\ commission' = commission \ {l}
  /\ rewards' \subseteq rewards \ P
  /\ \A p \in rewards \ P : p[1] # n => p \in rewards'

(* ClaimLegacyAccount pays the rewards of l, MigrateValidator also those   *)
(* of l's delegators and the commission.                                   *)
LEMMA MigrationPays ==
  ASSUME NodeInv, NEW l \in Addr, NEW n \in Addr,
         ClaimLegacyAccount(l, n) \/ MigrateValidator(l, n)
  PROVE  l # n /\ ~Dead(l) /\ ~Dead(n) /\ \E P \in SUBSET rewards : PaysOut(l, n, P)
<1>1. l # n /\ ~Dead(l) /\ ~Dead(n)
  BY Zenon DEF ClaimLegacyAccount, MigrateValidator, PreChecks
<1>2. CASE ClaimLegacyAccount(l, n)
  <2> DEFINE P == {p \in rewards : p[1] = l}
  <2>1. l \notin commission
    BY Zenon, <1>2 DEF ClaimLegacyAccount, NodeInv
  <2>2. PayCommission(bank, l) = bank
    BY <2>1 DEF PayCommission
  <2>3. /\ bank' = MigrateBank(Credit(bank, P, SafePayees), l, n)
        /\ commission' = commission
        /\ rewards' = rewards \ (P \cup Replaced(delegations, l, n))
    BY Zenon, <1>2 DEF ClaimLegacyAccount
  <2>4. \A p \in Replaced(delegations, l, n) : p[1] = n
    BY DEF Replaced
  <2>5. P \in SUBSET rewards
    OBVIOUS
  <2> HIDE DEF P
  <2>6. PaysOut(l, n, P)
    BY <2>1, <2>2, <2>3, <2>4 DEF PaysOut
  <2> QED BY <1>1, <2>5, <2>6
<1>3. CASE MigrateValidator(l, n)
  <2> DEFINE P == {p \in rewards : l \in {p[1], p[2]}}
             D == RekeyValidator(delegations, l, n)
  <2>1. /\ bank' = MigrateBank(Credit(PayCommission(bank, l), P, SafePayees), l, n)
        /\ commission' = {Moved(v, l, n) : v \in commission \ {l}}
        /\ rewards' = rewards \ (P \cup Replaced(D, l, n))
    BY Zenon, <1>3 DEF MigrateValidator, MigrateValidatorDistribution
  <2>2. commission' = commission \ {l}
    BY Zenon, <2>1 DEF Moved
  <2>4. \A p \in Replaced(D, l, n) : p[1] = n
    BY DEF Replaced
  <2>5. P \in SUBSET rewards
    OBVIOUS
  <2> HIDE DEF P, D
  <2>6. PaysOut(l, n, P)
    BY <2>1, <2>2, <2>4 DEF PaysOut
  <2> QED BY <1>1, <2>5, <2>6
<1> QED BY <1>2, <1>3

(* What a migration pays leaves the balances natural numbers, and adds to  *)
(* their sum what it takes from rewards and commission.                    *)
LEMMA PaidInFull ==
  ASSUME CashInv, WithdrawType, NEW l \in Addr, NEW n \in Addr, l # n,
         NEW P \in SUBSET rewards, PaysOut(l, n, P)
  PROVE  /\ bank' \in [Addr -> Nat] /\ bank'[l] = 0
         /\ SumFunctionOnSet(bank', Addr) = SumFunctionOnSet(bank, Addr)
              + (IF l \in commission THEN 1 ELSE 0) + Cardinality(P)
         /\ \A a \in Addr : a \notin {l, n} =>
              bank'[a] = Credit(PayCommission(bank, l), P, SafePayees)[a]
<1> DEFINE b == PayCommission(bank, l)
           c == Credit(b, P, SafePayees)
<1>1. /\ b \in [Addr -> Nat]
      /\ SumFunctionOnSet(b, Addr) = SumFunctionOnSet(bank, Addr) + (IF l \in commission THEN 1 ELSE 0)
  BY CommissionPays
<1>2. SafePayees \in [Addr -> Addr]
  BY DEF SafePayees, SafePayee, WithdrawType
<1>3. P \subseteq Addr \X Addr
  BY DEF CashInv
<1> HIDE DEF b
<1>4. /\ c \in [Addr -> Nat]
      /\ SumFunctionOnSet(c, Addr) = SumFunctionOnSet(b, Addr) + Cardinality(P)
  BY <1>1, <1>2, <1>3, CreditPays
<1>5. bank' = MigrateBank(c, l, n)
  BY DEF PaysOut, b
<1> HIDE DEF c
<1>6. /\ bank' \in [Addr -> Nat] /\ bank'[l] = 0
      /\ \A a \in Addr : a \notin {l, n} => bank'[a] = c[a]
      /\ SumFunctionOnSet(bank', Addr) = SumFunctionOnSet(c, Addr)
  BY <1>4, <1>5, BankMoves
<1> QED BY <1>1, <1>4, <1>6 DEF b, c

(* The entries a migration writes have the type of the entries it read.    *)
LEMMA MigratedTypes ==
  ASSUME CashInv, NEW l \in Addr, NEW n \in Addr,
         ClaimLegacyAccount(l, n) \/ MigrateValidator(l, n)
  PROVE  delegations' \subseteq Addr \X Addr /\ entries' \subseteq Entry /\ lastId' = lastId
<1> DEFINE M == OfValidator(entries, l)
           N == {ValidatorMoved(e, l, n) : e \in M}
           D == RekeyValidator(delegations, l, n)
<1>1. ASSUME NEW E, E \subseteq Entry, NEW F, F \subseteq Addr \X Addr, NEW Q, NEW B,
             MigrateStaking(F, E, Q, B, l, n)
      PROVE  delegations' \subseteq Addr \X Addr /\ entries' \subseteq Entry /\ lastId' = lastId
  <2>1. \A e \in Entry : DelegatorMoved(e, l, n) \in Entry
    BY DEF Entry, DelegatorMoved, Moved
  <2>2. entries' \subseteq Entry
    BY <1>1, <2>1 DEF MigrateStaking, RekeyEntries, OfDelegator
  <2>3. delegations' \subseteq Addr \X Addr
    <3>1. delegations' = {<<Moved(p[1], l, n), p[2]>> : p \in F}
      BY Zenon, <1>1 DEF MigrateStaking
    <3>2. \A p \in F : <<Moved(p[1], l, n), p[2]>> \in Addr \X Addr
      BY Zenon, <1>1, RekeyedPair
    <3> QED BY Zenon, <3>1, <3>2
  <2> QED BY Zenon, <1>1, <2>2, <2>3 DEF MigrateStaking
<1>2. CASE ClaimLegacyAccount(l, n)
  <2>1. MigrateStaking(delegations, entries, completions, byId, l, n)
    BY Zenon, <1>2 DEF ClaimLegacyAccount
  <2> QED BY <1>1, <2>1 DEF CashInv
<1>3. CASE MigrateValidator(l, n)
  <2>1. MigrateStaking(D, RekeyEntries(entries, M, N), RekeyQueue(completions, N), RekeyById(byId, N), l, n)
    BY Zenon, <1>3 DEF MigrateValidator
  <2>2. \A e \in Entry : ValidatorMoved(e, l, n) \in Entry
    BY Zenon DEF Entry, ValidatorMoved, Moved
  <2>3. RekeyEntries(entries, M, N) \subseteq Entry
    BY <2>2 DEF CashInv, RekeyEntries, OfValidator
  <2>4. D \subseteq Addr \X Addr
    <3>1. delegations \subseteq Addr \X Addr
      BY Zenon DEF CashInv
    <3>2. \A p \in delegations : <<p[1], Moved(p[2], l, n)>> \in Addr \X Addr
      BY Zenon, <3>1, RekeyedPair
    <3> QED BY Zenon, <3>2 DEF RekeyValidator
  <2> HIDE DEF D, M, N
  <2> QED BY <1>1, <2>1, <2>3, <2>4
<1> QED BY <1>2, <1>3

(* At the start nobody has coins or rewards.                               *)
LEMMA CashInit == Init => CashInv
<1> SUFFICES ASSUME Init PROVE CashInv
  OBVIOUS
<1>1. /\ bank = [a \in Addr |-> 0] /\ delegations = Stakes /\ lastId = 0
      /\ entries = {} /\ rewards = {} /\ commission = {}
  BY Zenon DEF Init
<1>2. bank \in [Addr -> Nat] /\ lastId \in 0..MaxEntries
  BY <1>1, AddressAssumption
<1>3. delegations \subseteq Addr \X Addr
  BY <1>1, AddressAssumption DEF Addr
<1> QED BY Zenon, <1>1, <1>2, <1>3 DEF CashInv

(* Every step keeps the types.                                             *)
LEMMA CashNext ==
  ASSUME CashInv, NodeInv, WithdrawType, [Next]_vars
  PROVE  CashInv'
<1> DEFINE cash == <<delegations, rewards, entries, lastId, bank, commission>>
<1>1. UNCHANGED cash => CashInv'
  BY DEF CashInv
<1>2. NextBlock \/ UpdateParams \/ UNCHANGED vars => UNCHANGED cash
  BY DEF NextBlock, UpdateParams, vars, staked, distr, holding
<1>3. \A a \in Addr : ReportMetrics(a) \/ Jail(a) \/ Unjail(a) \/ ChangeStatus(a) => UNCHANGED cash
  BY Zenon DEF ReportMetrics, Jail, Unjail, ChangeStatus, staked, distr, holding
<1>4. \A d \in Addr, v \in Addr :
        SetWithdrawAddr(d, v) \/ RegisterSupernode(v, d) => UNCHANGED cash
  BY DEF SetWithdrawAddr, RegisterSupernode, staked, distr, holding
<1>5. ASSUME NEW a \in Addr, Fund(a) \/ Allocate(a)
      PROVE  CashInv'
  BY <1>5 DEF Fund, Allocate, CashInv, staked, distr, holding
<1>6. ASSUME NEW d \in Addr, NEW v \in Addr, Delegate(d, v)
      PROVE  CashInv'
  BY <1>6 DEF Delegate, CashInv, distr, holding
<1>7. ASSUME NEW d \in Addr, NEW v \in Addr, NEW w \in Addr \cup {None}, Undelegate(d, v, w)
      PROVE  CashInv'
  <2>0. /\ <<d, v>> \in delegations /\ lastId < MaxEntries /\ lastId' = lastId + 1
        /\ bank' = Credit(bank, rewards \cap {<<d, v>>}, withdraw)
        /\ entries' = entries \cup {[del |-> d, src |-> v, dst |-> w, id |-> lastId + 1]}
        /\ delegations' = (delegations \ {<<d, v>>}) \cup (IF w = None THEN {} ELSE {<<d, w>>})
        /\ rewards' = rewards \ {<<d, v>>}
        /\ UNCHANGED commission
    BY Zenon, <1>7 DEF Undelegate
  <2>1. rewards \cap {<<d, v>>} \subseteq Addr \X Addr /\ bank \in [Addr -> Nat] /\ withdraw \in [Addr -> Addr]
    BY DEF CashInv, WithdrawType
  <2>2. bank' \in [Addr -> Nat]
    BY Zenon, <2>0, <2>1, CreditPays
  <2>3. lastId' \in 0..MaxEntries /\ lastId + 1 \in 1..MaxEntries
    <3>1. lastId \in 0..MaxEntries
      BY Zenon DEF CashInv
    <3>2. lastId < MaxEntries /\ lastId' = lastId + 1
      BY Zenon, <2>0
    <3>3. MaxEntries \in Nat
      BY Zenon, AddressAssumption
    <3> QED BY <3>1, <3>2, <3>3
  <2>4. entries' \subseteq Entry
    <3>1. entries \subseteq Entry
      BY Zenon DEF CashInv
    <3>2. [del |-> d, src |-> v, dst |-> w, id |-> lastId + 1] \in Entry
      BY Zenon, <2>3 DEF Entry
    <3> QED BY Zenon, <2>0, <3>1, <3>2
  <2>5. delegations' \subseteq Addr \X Addr /\ rewards' \subseteq Addr \X Addr
    <3>1. delegations \subseteq Addr \X Addr /\ rewards \subseteq Addr \X Addr
      BY Zenon DEF CashInv
    <3>2. w # None => <<d, w>> \in Addr \X Addr
      BY Zenon
    <3> QED BY Zenon, <2>0, <3>1, <3>2
  <2> QED BY Zenon, <2>0, <2>2, <2>3, <2>4, <2>5 DEF CashInv
<1>8. ASSUME NEW i \in 1..MaxEntries, Mature(i)
      PROVE  CashInv'
  <2> DEFINE Of(a) == {e \in {x \in entries \cap completions : x.id = i} : e.dst = None /\ e.del = a}
  <2>1. bank' = [a \in Addr |-> bank[a] + Cardinality(Of(a))]
    BY Zenon, <1>8 DEF Mature
  <2>2. \A a \in Addr : Of(a) \in SUBSET Entry
    BY DEF CashInv
  <2> HIDE DEF Of
  <2>3. \A a \in Addr : Cardinality(Of(a)) \in Nat
    BY <2>2, FiniteEntries, FS_Subset, FS_CardinalityType
  <2>4. bank' \in [Addr -> Nat]
    BY <2>1, <2>3 DEF CashInv
  <2>5. /\ entries' \subseteq entries
        /\ UNCHANGED <<delegations, lastId, rewards, commission>>
    BY <1>8 DEF Mature, distr
  <2> QED BY <2>4, <2>5 DEF CashInv
<1>9. ASSUME NEW l \in Addr, NEW n \in Addr, ClaimLegacyAccount(l, n) \/ MigrateValidator(l, n)
      PROVE  CashInv'
  <2>1. PICK P \in SUBSET rewards : l # n /\ PaysOut(l, n, P)
    BY <1>9, MigrationPays
  <2>2. bank' \in [Addr -> Nat]
    BY <2>1, PaidInFull
  <2>3. rewards' \subseteq rewards /\ commission' \subseteq commission
    BY <2>1 DEF PaysOut
  <2>4. delegations' \subseteq Addr \X Addr /\ entries' \subseteq Entry /\ lastId' = lastId
    BY <1>9, MigratedTypes
  <2> QED BY <2>2, <2>3, <2>4 DEF CashInv
<1> QED
  BY <1>1, <1>2, <1>3, <1>4, <1>5, <1>6, <1>7, <1>8, <1>9 DEF Next

(* What payouts and supernodes rest on.                                    *)
PaidInv == MigrationInv /\ RowInv /\ WithdrawType /\ NodeInv /\ CashInv

(* It is inductive whatever the constants are.                             *)
LEMMA PaidInvariance == Spec => []PaidInv
<1>1. Init => PaidInv
  <2>1. Init => WithdrawType
    BY DEF Init, WithdrawType
  <2> QED BY <2>1, MigrationInvInit, RowInvInit, NodeInit, CashInit DEF PaidInv
<1>2. PaidInv /\ [Next]_vars => PaidInv'
  BY MigrationInvStep, RowInvStep, WithdrawStep, NodeNext, CashNext DEF PaidInv, MigrationInv
<1> QED BY <1>1, <1>2, PTL DEF Spec

(* No migration, whoever migrates and in whatever order, pays an address   *)
(* that was migrated before the rewards of another: where a validator has  *)
(* no commission to pay out (HasCommission is FALSE), the payee that       *)
(* SafePayee chooses for a delegator is dead only if it is the delegator.  *)
THEOREM DeadUnpaid == ~HasCommission => (Spec => DeadNotPaid)
<1> SUFFICES ASSUME ~HasCommission PROVE Spec => DeadNotPaid
  OBVIOUS
<1>1. ASSUME PaidInv, [Next]_vars, records' # records, NEW a \in Addr, Dead(a)
      PROVE  bank'[a] <= bank[a] + Cardinality({p \in rewards : p[1] = a})
  <2>1. PICK l \in Addr, n \in Addr : ClaimLegacyAccount(l, n) \/ MigrateValidator(l, n)
    BY <1>1, WhoMigrates
  <2>2. PICK P \in SUBSET rewards : l # n /\ ~Dead(l) /\ ~Dead(n) /\ PaysOut(l, n, P)
    BY <1>1, <2>1, MigrationPays DEF PaidInv
  <2>3. PayCommission(bank, l) = bank
    BY <1>1 DEF PaidInv, CashInv, PayCommission
  <2>4. bank'[a] = Credit(bank, P, SafePayees)[a]
    <3>1. a \notin {l, n}
      BY <1>1, <2>2
    <3>2. bank'[a] = Credit(PayCommission(bank, l), P, SafePayees)[a]
      BY <1>1, <2>2, <3>1, PaidInFull DEF PaidInv
    <3> QED BY Zenon, <2>3, <3>2
  <2> DEFINE Got == {p \in P : SafePayees[p[1]] = a}
             Own == {p \in rewards : p[1] = a}
  <2>5. bank'[a] = bank[a] + Cardinality(Got)
    BY <2>4 DEF Credit
  <2>6. Got \subseteq Own
    <3>1. \A d \in Addr : SafePayee(d) = a => d = a
      BY <1>1 DEF SafePayee
    <3>2. \A p \in P : p \in rewards /\ p[1] \in Addr
      BY <1>1 DEF PaidInv, CashInv
    <3> QED BY <3>1, <3>2 DEF SafePayees
  <2>7. Own \subseteq Addr \X Addr
    BY <1>1 DEF PaidInv, CashInv
  <2> HIDE DEF Got, Own
  <2>8. IsFiniteSet(Own) /\ Cardinality(Own) \in Nat
    BY <2>7, FiniteStake
  <2>9. Cardinality(Got) <= Cardinality(Own) /\ Cardinality(Got) \in Nat
    BY <2>6, <2>8, FS_Subset, FS_CardinalityType
  <2>10. bank[a] \in Nat
    BY <1>1 DEF PaidInv, CashInv
  <2> QED BY <2>5, <2>8, <2>9, <2>10 DEF Own
<1>2. PaidInv /\ [Next]_vars =>
        [records' # records =>
           \A a \in Addr : Dead(a) =>
             bank'[a] <= bank[a] + Cardinality({p \in rewards : p[1] = a})]_vars
  BY <1>1
<1> QED BY <1>2, PaidInvariance, PTL DEF Spec, DeadNotPaid
==============================================================================
