---------------------------- MODULE ActionProofs -----------------------------
(***************************************************************************)
(* Proofs about ActionLifecycle for any number of creators, supernodes and *)
(* actions, any prices and any admissible fee parameters.                  *)
(***************************************************************************)
EXTENDS ActionLifecycle, SumFacts

(* The open actions, and the price of every action.                        *)
OpenIds == {id \in 1..count : Open(id)}
PriceOf == [id \in 1..count |-> actions[id].price]

(* A sweep only has open actions left to visit.                            *)
SweepOK ==
  /\ \A id \in todo : Open(id)
  /\ phase = "txs" => todo = {}

IInv == TypeOK /\ IndexesExact /\ LifecycleConsistent /\ SweepOK /\ EscrowExact

(* What ClosedStaysClosed says of one step.                                *)
ClosedStep ==
  \A id \in 1..count :
    LET a == actions[id]
        b == actions'[id]
    IN  /\ a.state \in {"Approved", "Expired"} => b = a
        /\ a.state = "Done" => b \in {a, [a EXCEPT !.state = "Approved"]}
        /\ <<b.creator, b.type, b.price, b.expiry>> =
             <<a.creator, a.type, a.price, a.expiry>>

(* What PaidOutByClosing says of one step.                                 *)
PaidStep ==
  bank'[ActionAccount] < bank[ActionAccount] =>
    \E id \in 1..count :
      /\ Open(id) /\ ~Open(id)'
      /\ bank[ActionAccount] - bank'[ActionAccount] = actions[id].price
      /\ \A j \in (1..count) \ {id} : actions'[j] = actions[j]

-----------------------------------------------------------------------------
(* Integer division rounds down: x * n / d does not exceed x when n <= d.  *)
LEMMA ShareBound ==
  ASSUME NEW x \in Nat, NEW d \in Nat \ {0}, NEW n \in 0..d
  PROVE  (x * n) \div d \in 0..x
<1> DEFINE q == (x * n) \div d
<1>1. x * n \in Nat /\ x * n <= x * d
  BY SMT
<1>2. q \in Int /\ d * q <= x * n /\ x * n < d * q + d
  BY <1>1, SMT
<1>3. q >= 0
  BY <1>1, <1>2, SMT
<1>4. q <= x
  BY <1>1, <1>2, SMT
<1> QED
  BY <1>2, <1>3, <1>4

(* The three shares of a fee are natural numbers that add up to the fee.   *)
LEMMA SplitIsExact ==
  ASSUME NEW fee \in Nat
  PROVE  /\ RewardShare(fee) \in Nat
         /\ FoundationShare(fee) \in Nat
         /\ SupernodesShare(fee) \in Nat
         /\ fee = RewardShare(fee) + FoundationShare(fee) + SupernodesShare(fee)
<1>1. RewardShare(fee) \in 0..fee
  <2>1. \A d \in Nat \ {0} : \A n \in 0..d : (fee * n) \div d \in 0..fee
    BY ShareBound, SMTT(30)
  <2>2. BpsDen \in Nat \ {0}
    BY DEF BpsDen
  <2>3. RewardBps \in 0..BpsDen
    BY ConstantsAssumption, Zenon
  <2> QED BY <2>1, <2>2, <2>3, Zenon DEF RewardShare
<1>2. fee - RewardShare(fee) \in Nat
  BY <1>1
<1>3. FoundationShare(fee) \in 0..(fee - RewardShare(fee))
  BY <1>2, ShareBound, ConstantsAssumption, SMTT(30) DEF FoundationShare
<1> QED
  BY <1>1, <1>2, <1>3 DEF SupernodesShare

(* A covered send between two accounts keeps the balances natural numbers. *)
LEMMA SendExact ==
  ASSUME NEW b \in [Accounts -> Nat], NEW from \in Accounts,
         NEW to \in Accounts, from # to, NEW amt \in Nat, b[from] >= amt
  PROVE  /\ Send(b, from, to, amt) \in [Accounts -> Nat]
         /\ Send(b, from, to, amt)[from] = b[from] - amt
         /\ Send(b, from, to, amt)[to] = b[to] + amt
BY SMT DEF Send

(* With one supernode to pay, DistributeFees takes exactly the fee out of  *)
(* the module account, provided the account holds it.                      *)
LEMMA DistributeExact ==
  ASSUME NEW b \in [Accounts -> Nat], NEW fee \in Nat, NEW sn \in Supernodes,
         b[ActionAccount] >= fee
  PROVE  /\ DistributeFees(b, fee, {sn}) \in [Accounts -> Nat]
         /\ DistributeFees(b, fee, {sn})[ActionAccount] = b[ActionAccount] - fee
<1> DEFINE r == RewardShare(fee)
           f == FoundationShare(fee)
           s == SupernodesShare(fee)
           b1 == Send(b, ActionAccount, RewardPool, r)
           b2 == Send(b1, ActionAccount, CommunityPool, f)
<1>1. r \in Nat /\ f \in Nat /\ s \in Nat /\ fee = r + f + s
  BY SplitIsExact
<1>2. Cardinality({sn}) = 1
  BY FS_Singleton
<1>3. PerSupernode(s, 1) = s
  BY <1>1, SMT DEF PerSupernode
<1>4. /\ ActionAccount \in Accounts /\ RewardPool \in Accounts
      /\ CommunityPool \in Accounts /\ sn \in Accounts
      /\ ActionAccount # RewardPool /\ ActionAccount # CommunityPool
      /\ RewardPool # CommunityPool
      /\ sn # ActionAccount
  BY ConstantsAssumption, SMTT(30)
     DEF Accounts, Modules, ActionAccount, RewardPool, CommunityPool
<1> HIDE DEF r, f, s
<1>5. b1 \in [Accounts -> Nat] /\ b1[ActionAccount] = b[ActionAccount] - r
  BY <1>1, <1>4, SMT DEF Send
<1>6. b2 \in [Accounts -> Nat] /\ b2[ActionAccount] = b[ActionAccount] - r - f
  <2> HIDE DEF b1
  <2> QED BY <1>1, <1>4, <1>5, SMT DEF Send
<1> HIDE DEF b2
<1>7. DistributeFees(b, fee, {sn}) =
        [a \in Accounts |-> IF a \in {sn} THEN b2[a] + s
                            ELSE IF a = ActionAccount THEN b2[a] - s ELSE b2[a]]
  <2>1. PerSupernode(SupernodesShare(fee), Cardinality({sn})) = s
    BY <1>2, <1>3, Zenon DEF s
  <2>2. s * Cardinality({sn}) = s
    BY <1>1, <1>2
  <2>3. ~(b2[ActionAccount] < s)
    BY <1>1, <1>4, <1>6
  <2> QED BY <2>1, <2>2, <2>3, Zenon DEF DistributeFees, b2, r, f
<1>8. \A a \in Accounts : b2[a] + s \in Nat
  BY <1>1, <1>6
<1>9. b2[ActionAccount] - s = b[ActionAccount] - fee /\ b[ActionAccount] - fee \in Nat
  BY <1>1, <1>4, <1>6
<1> QED
  BY <1>4, <1>6, <1>7, <1>8, <1>9

-----------------------------------------------------------------------------
(* The open actions are finitely many, and their prices natural numbers.   *)
LEMMA OpenSum ==
  ASSUME TypeOK
  PROVE  /\ IsFiniteSet(OpenIds)
         /\ \A i \in 1..count : PriceOf[i] = actions[i].price /\ PriceOf[i] \in Nat
         /\ SumFunctionOnSet(PriceOf, OpenIds) \in Nat
         /\ EscrowExact <=> bank[ActionAccount] = SumFunctionOnSet(PriceOf, OpenIds)
<1>1. IsFiniteSet(OpenIds)
  <2>1. count \in Int
    BY DEF TypeOK
  <2>2. IsFiniteSet(1..count)
    BY <2>1, FS_Interval
  <2> QED
    BY Zenon, <2>2, FS_Subset DEF OpenIds
<1>2. \A i \in 1..count : PriceOf[i] = actions[i].price /\ PriceOf[i] \in Nat
  BY DEF TypeOK, Action, PriceOf
<1>3. \A i \in OpenIds : PriceOf[i] \in Nat
  BY <1>2 DEF OpenIds
<1>4. SumFunctionOnSet(PriceOf, OpenIds) \in Nat
  BY <1>1, <1>3, SumNat
<1> QED
  BY <1>1, <1>2, <1>4 DEF EscrowExact, OpenIds, PriceOf

(* What the account holds covers the price of every open action.           *)
LEMMA EscrowCovers ==
  ASSUME TypeOK, EscrowExact, NEW id \in 1..count, Open(id)
  PROVE  bank[ActionAccount] >= actions[id].price
<1>1. id \in OpenIds
  BY DEF OpenIds
<1>2. \A i \in OpenIds : PriceOf[i] \in Nat
  BY OpenSum DEF OpenIds
<1>3. SumFunctionOnSet(PriceOf, OpenIds)
        = PriceOf[id] + SumFunctionOnSet(PriceOf, OpenIds \ {id})
  BY Zenon, <1>1, <1>2, OpenSum, SumRemove
<1>4. SumFunctionOnSet(PriceOf, OpenIds \ {id}) \in Nat
  <2>1. IsFiniteSet(OpenIds \ {id})
    BY OpenSum, FS_RemoveElement
  <2>2. \A i \in OpenIds \ {id} : PriceOf[i] \in Nat
    BY <1>2
  <2> QED
    BY <2>1, <2>2, SumNat
<1> QED
  BY <1>3, <1>4, OpenSum

(* A step that neither opens nor closes an action, nor moves the balance,  *)
(* keeps the escrow exact.                                                 *)
LEMMA EscrowSame ==
  ASSUME TypeOK, TypeOK', EscrowExact, count' = count,
         bank'[ActionAccount] = bank[ActionAccount],
         \A i \in 1..count : (Open(i)' <=> Open(i)) /\ actions'[i].price = actions[i].price
  PROVE  EscrowExact'
<1>1. OpenIds' = OpenIds
  BY DEF OpenIds
<1>2. \A i \in OpenIds : PriceOf'[i] = PriceOf[i]
  BY DEF OpenIds, PriceOf
<1>3. SumFunctionOnSet(PriceOf', OpenIds) = SumFunctionOnSet(PriceOf, OpenIds)
  BY <1>2, OpenSum, SumSame
<1> QED
  BY Zenon, <1>1, <1>3, OpenSum DEF EscrowExact, OpenIds, PriceOf

(* Registering an action adds its price to the escrow.                     *)
LEMMA EscrowOpen ==
  ASSUME TypeOK, TypeOK', EscrowExact, NEW price \in Nat, NEW n,
         n = count + 1, count' = n,
         bank'[ActionAccount] = bank[ActionAccount] + price,
         \A i \in 1..count : actions'[i] = actions[i],
         Open(n)', actions'[n].price = price
  PROVE  EscrowExact'
<1>1. count \in Nat /\ n \notin OpenIds /\ n \in 1..count'
  BY DEF TypeOK, OpenIds
<1>2. OpenIds' = OpenIds \cup {n}
  BY <1>1 DEF OpenIds, Open
<1>3. \A i \in OpenIds : PriceOf'[i] = PriceOf[i]
  BY <1>1 DEF OpenIds, PriceOf
<1>4. PriceOf'[n] = price
  BY <1>1 DEF PriceOf
<1>5. \A i \in OpenIds \cup {n} : PriceOf'[i] \in Nat
  BY <1>3, <1>4, OpenSum DEF OpenIds
<1>6. SumFunctionOnSet(PriceOf', OpenIds \cup {n})
        = SumFunctionOnSet(PriceOf', OpenIds) + PriceOf'[n]
  <2>1. IsFiniteSet(OpenIds)
    BY OpenSum
  <2> HIDE DEF OpenIds
  <2> QED
    BY <1>1, <1>5, <2>1, SumAdd, Zenon
<1>7. SumFunctionOnSet(PriceOf', OpenIds) = SumFunctionOnSet(PriceOf, OpenIds)
  BY <1>3, OpenSum, SumSame
<1>8. bank'[ActionAccount] = SumFunctionOnSet(PriceOf', OpenIds')
  BY <1>2, <1>4, <1>6, <1>7, OpenSum
<1> QED
  BY <1>8 DEF EscrowExact, OpenIds, PriceOf

(* Closing an action takes its price out of the escrow.                    *)
LEMMA EscrowClose ==
  ASSUME TypeOK, TypeOK', EscrowExact, NEW id \in 1..count, Open(id),
         count' = count,
         bank'[ActionAccount] = bank[ActionAccount] - actions[id].price,
         \A i \in 1..count : i # id => actions'[i] = actions[i],
         ~Open(id)'
  PROVE  EscrowExact'
<1>1. id \in OpenIds /\ OpenIds' = OpenIds \ {id}
  BY DEF OpenIds, Open
<1>2. IsFiniteSet(OpenIds \ {id})
  BY OpenSum, FS_RemoveElement
<1>3. \A i \in OpenIds \ {id} : PriceOf'[i] = PriceOf[i]
  BY DEF OpenIds, PriceOf
<1>4. \A i \in OpenIds : PriceOf[i] \in Nat
  BY OpenSum DEF OpenIds
<1>5. SumFunctionOnSet(PriceOf, OpenIds)
        = PriceOf[id] + SumFunctionOnSet(PriceOf, OpenIds \ {id})
  BY ZenonT(60), <1>1, <1>4, OpenSum, SumRemove
<1>6. SumFunctionOnSet(PriceOf', OpenIds \ {id}) = SumFunctionOnSet(PriceOf, OpenIds \ {id})
  BY <1>2, <1>3, SumSame
<1>7. SumFunctionOnSet(PriceOf, OpenIds \ {id}) \in Nat
  BY <1>2, <1>4, SumNat
<1>8. bank'[ActionAccount] = SumFunctionOnSet(PriceOf', OpenIds')
  BY <1>1, <1>5, <1>6, <1>7, OpenSum
<1> QED
  BY <1>8 DEF EscrowExact, OpenIds, PriceOf

-----------------------------------------------------------------------------
(* SetAction writes one record, of an existing or of the next ID, and      *)
(* leaves the indexes exact.                                               *)
LEMMA SetActionExact ==
  ASSUME TypeOK, IndexesExact, NEW id, NEW rec \in Action,
         SetAction(id, rec),
         \/ count' = count /\ id \in 1..count
         \/ count' = count + 1 /\ id = count + 1
  PROVE  /\ actions' \in [1..count' -> Action]
         /\ stateIdx' \in [States -> SUBSET (1..count')]
         /\ snIdx' \in [Supernodes -> SUBSET (1..count')]
         /\ IndexesExact'
         /\ id \in 1..count' /\ actions'[id] = rec
         /\ \A i \in 1..count' : i # id => i \in 1..count /\ actions'[i] = actions[i]
<1>1. count \in Nat
  BY DEF TypeOK
<1>2. id \in 1..count' /\ \A i \in 1..count' : i # id => i \in 1..count
  BY <1>1
<1>3. actions' = [i \in 1..count' |-> IF i = id THEN rec ELSE actions[i]]
  BY DEF SetAction, Refiled
<1>4. /\ actions' \in [1..count' -> Action] /\ actions'[id] = rec
      /\ \A i \in 1..count' : i # id => actions'[i] = actions[i]
  BY <1>2, <1>3 DEF TypeOK
<1>5. \A i \in 1..count : i \in 1..count'
  BY <1>1
<1>6. ASSUME NEW s \in States
      PROVE  stateIdx'[s] = {i \in 1..count' : actions'[i].state = s}
  <2>1. stateIdx[s] = {i \in 1..count : actions[i].state = s}
    BY DEF IndexesExact
  <2>2. stateIdx'[s] = IF s = rec.state THEN stateIdx[s] \cup {id}
                       ELSE IF id \in 1..count /\ actions[id].state = s
                            THEN stateIdx[s] \ {id} ELSE stateIdx[s]
    BY DEF SetAction, Refiled
  <2> QED BY <1>2, <1>4, <1>5, <2>1, <2>2
<1>7. ASSUME NEW n \in Supernodes
      PROVE  snIdx'[n] = {i \in 1..count' : n \in actions'[i].supernodes}
  <2>1. snIdx[n] = {i \in 1..count : n \in actions[i].supernodes}
    BY DEF IndexesExact
  <2>2. snIdx'[n] = IF n \in rec.supernodes THEN snIdx[n] \cup {id}
                    ELSE IF id \in 1..count /\ n \in actions[id].supernodes
                         THEN snIdx[n] \ {id} ELSE snIdx[n]
    BY DEF SetAction, Refiled
  <2> QED BY <1>2, <1>4, <1>5, <2>1, <2>2
<1>8. /\ stateIdx' \in [States -> SUBSET (1..count')]
      /\ snIdx' \in [Supernodes -> SUBSET (1..count')]
  <2>1. /\ DOMAIN stateIdx' = States /\ DOMAIN snIdx' = Supernodes
        /\ stateIdx' = [s \in States |-> stateIdx'[s]]
        /\ snIdx' = [n \in Supernodes |-> snIdx'[n]]
    BY DEF SetAction, Refiled
  <2> QED BY <1>6, <1>7, <2>1
<1> QED
  BY <1>2, <1>4, <1>6, <1>7, <1>8 DEF IndexesExact

(* Facts every action uses about the accounts involved.                    *)
LEMMA AccountsDistinct ==
  /\ ActionAccount \in Accounts
  /\ \A a \in Creators \cup Supernodes : a \in Accounts /\ a # ActionAccount
BY ConstantsAssumption, SMTT(30) DEF Accounts, Modules

(* Genesis: no actions, an empty module account.                           *)
LEMMA InitIInv == Init => IInv
<1> SUFFICES ASSUME Init PROVE IInv
  OBVIOUS
<1>1. count = 0 /\ 1..count = {} /\ count \in 0..MaxActions
  BY ConstantsAssumption, SMTT(30) DEF Init
<1>2. bank \in [Accounts -> Nat] /\ bank[ActionAccount] = 0
  BY ConstantsAssumption, SMTT(30), AccountsDistinct DEF Init
<1>3. TypeOK
  <2>1. actions \in [1..count -> Action]
    BY <1>1 DEF Init
  <2>2. stateIdx \in [States -> SUBSET (1..count)]
    BY DEF Init
  <2>3. snIdx \in [Supernodes -> SUBSET (1..count)]
    BY SMTT(30) DEF Init
  <2>4. /\ tickets = {} /\ evidence = {} /\ todo = {} /\ phase = "txs"
        /\ now \in 0..MaxTime
    BY ConstantsAssumption, SMTT(30) DEF Init
  <2> QED BY <1>1, <1>2, <2>1, <2>2, <2>3, <2>4 DEF TypeOK
<1>4. IndexesExact
  BY <1>1 DEF Init, IndexesExact
<1>5. LifecycleConsistent /\ SweepOK
  BY <1>1 DEF Init, LifecycleConsistent, SweepOK
<1>6. EscrowExact
  <2>1. OpenIds = {}
    BY <1>1 DEF OpenIds
  <2> QED BY <1>2, <1>3, <2>1, OpenSum, SumEmpty
<1> QED
  BY <1>3, <1>4, <1>5, <1>6 DEF IInv

(* RequestAction escrows the price of the action it registers, so the      *)
(* escrow and the module account grow by the same amount.                  *)
LEMMA RequestStep ==
  ASSUME IInv, NEW c \in Creators, NEW type \in Types, NEW price \in Prices,
         NEW expiry \in now..MaxTime, RequestAction(c, type, price, expiry)
  PROVE  IInv' /\ ClosedStep /\ PaidStep
<1> DEFINE n == count + 1
           rec == [creator |-> c, type |-> type, price |-> price,
                   state |-> "Pending", expiry |-> expiry,
                   meta |-> "registered", supernodes |-> {}]
<1>1. TypeOK /\ IndexesExact /\ LifecycleConsistent /\ SweepOK /\ EscrowExact
  BY DEF IInv
<1>2. count \in Nat /\ count' = n /\ price \in Nat /\ expiry \in Nat
      /\ n \in 0..MaxActions
  <2>1. count \in 0..MaxActions /\ now \in 0..MaxTime
    BY <1>1, SMTT(30) DEF TypeOK
  <2>2. MaxActions \in Nat /\ MaxTime \in Nat /\ Prices \subseteq Nat
    BY ConstantsAssumption, SMTT(30)
  <2>3. count < MaxActions /\ count' = count + 1
    BY DEF RequestAction
  <2> QED BY <2>1, <2>2, <2>3
<1>3. rec \in Action
  BY <1>2 DEF Action, States, Metas
<1>4. SetAction(n, rec)
  BY Zenon DEF RequestAction, HasFunds
<1> HIDE DEF rec
<1>5. /\ actions' \in [1..count' -> Action]
      /\ stateIdx' \in [States -> SUBSET (1..count')]
      /\ snIdx' \in [Supernodes -> SUBSET (1..count')]
      /\ IndexesExact'
      /\ n \in 1..count' /\ actions'[n] = rec
      /\ \A i \in 1..count' : i # n => i \in 1..count /\ actions'[i] = actions[i]
  BY <1>1, <1>2, <1>3, <1>4, SetActionExact
<1>6. bank' \in [Accounts -> Nat] /\ bank'[ActionAccount] = bank[ActionAccount] + price
  <2>1. bank \in [Accounts -> Nat] /\ bank[c] >= price
        /\ bank' = Send(bank, c, ActionAccount, price)
    BY <1>1 DEF RequestAction, HasFunds, TypeOK
  <2> QED BY <1>2, <2>1, AccountsDistinct, SendExact
<1>7. TypeOK'
  <2>1. 1..count \subseteq 1..count'
    BY <1>2
  <2> QED BY SMTT(60), <1>1, <1>2, <1>5, <1>6, <2>1 DEF TypeOK, RequestAction, HasFunds
<1>8. LifecycleConsistent'
  <2>1. \A i \in 1..count : i \in 1..count' /\ i # n /\ actions'[i] = actions[i]
    BY <1>2, <1>5
  <2>2. n \notin tickets /\ tickets' = tickets /\ evidence' = evidence
    BY <1>1, <1>2 DEF TypeOK, RequestAction, HasFunds
  <2>3. \A e \in evidence : e[2] \in 1..count
    BY <1>1 DEF TypeOK
  <2>4. rec.state = "Pending" /\ rec.supernodes = {} /\ rec.meta = "registered"
    BY DEF rec
  <2> DEFINE Sound(x, b) ==
               /\ b.state \in OpenStates \cup {"Expired"} => b.supernodes = {} /\ b.meta = "registered"
               /\ b.state \in {"Done", "Approved"} => \E m \in Supernodes : b.supernodes = {m}
               /\ x \in tickets <=> b.type = "Cascade" /\ b.state \in {"Done", "Approved"}
  <2>5. Sound(n, actions'[n])
    BY <1>5, <2>2, <2>4 DEF OpenStates
  <2>6. \A i \in 1..count : Sound(i, actions[i])
    BY Zenon, <1>1 DEF LifecycleConsistent
  <2>7. \A i \in 1..count' : Sound(i, actions'[i])
    <3> HIDE DEF Sound
    <3> QED BY Zenon, <1>5, <2>1, <2>5, <2>6
  <2>8. \A e \in evidence : e[1] = "ActionExpired" => actions'[e[2]].state = "Expired"
    BY Zenon, <1>1, <2>1, <2>3 DEF LifecycleConsistent
  <2> QED BY Zenon, <2>2, <2>7, <2>8 DEF LifecycleConsistent
<1>9. SweepOK'
  BY Zenon, <1>1 DEF SweepOK, RequestAction, HasFunds
<1>10. EscrowExact'
  <2>1. \A i \in 1..count : actions'[i] = actions[i]
    BY <1>2, <1>5
  <2>2. \A i : i = n => Open(i)' /\ actions'[i].price = price
    <3>1. actions'[n] = rec
      BY Zenon, <1>5
    <3>2. rec.state \in OpenStates /\ rec.price = price
      BY DEF rec, OpenStates
    <3> QED BY Zenon, <3>1, <3>2 DEF Open
  <2> QED BY <1>1, <1>2, <1>6, <1>7, <2>1, <2>2, EscrowOpen
<1>11. ClosedStep /\ PaidStep
  <2>1. \A i \in 1..count : actions'[i] = actions[i]
    BY <1>2, <1>5
  <2>2. bank[ActionAccount] \in Nat
    BY <1>1, AccountsDistinct DEF TypeOK
  <2> QED BY <1>2, <1>6, <2>1, <2>2 DEF ClosedStep, PaidStep
<1> QED
  BY <1>5, <1>7, <1>8, <1>9, <1>10, <1>11 DEF IInv

(* FinalizeAction pays out the price of an open action, which the escrow   *)
(* shows to be in the account, and closes it in the same step.             *)
LEMMA FinalizeStep ==
  ASSUME IInv, NEW id \in 1..count, NEW sn \in Supernodes,
         FinalizeAction(id, sn)
  PROVE  IInv' /\ ClosedStep /\ PaidStep
<1> DEFINE a == actions[id]
           rec == [a EXCEPT !.state = "Done",
                            !.meta = GetUpdatedMetadata(a.type),
                            !.supernodes = @ \cup {sn}]
<1>1. TypeOK /\ IndexesExact /\ LifecycleConsistent /\ SweepOK /\ EscrowExact
  BY DEF IInv
<1>2. /\ a \in Action /\ a.state \in OpenStates /\ a.price \in Nat
      /\ count' = count /\ count \in Nat /\ phase = "txs"
  BY <1>1 DEF TypeOK, FinalizeAction, Open, Action
<1>3. a.supernodes = {}
  BY <1>1, <1>2 DEF LifecycleConsistent
<1>4. GetUpdatedMetadata(a.type) \in Metas
  BY DEF Metas, GetUpdatedMetadata
<1>5. rec \in Action /\ rec.state = "Done" /\ rec.supernodes = {sn} /\ rec.type = a.type
  BY Zenon, <1>2, <1>3, <1>4 DEF Action, States
<1>6. SetAction(id, rec)
  BY DEF FinalizeAction
<1> HIDE DEF rec
<1>7. /\ actions' \in [1..count' -> Action]
      /\ stateIdx' \in [States -> SUBSET (1..count')]
      /\ snIdx' \in [Supernodes -> SUBSET (1..count')]
      /\ IndexesExact'
      /\ actions'[id] = rec
      /\ \A i \in 1..count : i # id => actions'[i] = actions[i]
  BY <1>1, <1>2, <1>5, <1>6, SetActionExact
<1>8. bank' \in [Accounts -> Nat] /\ bank'[ActionAccount] = bank[ActionAccount] - a.price
  <2>1. bank[ActionAccount] >= a.price /\ bank \in [Accounts -> Nat]
    BY <1>1, <1>2, EscrowCovers DEF Open, TypeOK
  <2>2. CASE a.price = 0
    BY <2>1, <2>2, AccountsDistinct DEF FinalizeAction
  <2>3. CASE a.price # 0
    <3>1. bank' = DistributeFees(bank, a.price, {sn})
      BY <1>5, <2>3 DEF FinalizeAction, rec
    <3> QED BY <1>2, <2>1, <3>1, DistributeExact
  <2> QED BY <2>2, <2>3
<1>9. TypeOK'
  <2>1. tickets' \subseteq 1..count'
    BY <1>1, <1>2 DEF TypeOK, FinalizeAction
  <2> QED BY Zenon, <1>1, <1>2, <1>7, <1>8, <2>1 DEF TypeOK, FinalizeAction
<1>10. LifecycleConsistent'
  <2>1. tickets' = IF a.type = "Cascade" THEN tickets \cup {id} ELSE tickets
    BY DEF FinalizeAction
  <2>2. evidence' = evidence /\ \A e \in evidence : e[2] \in 1..count
    BY <1>1 DEF TypeOK, FinalizeAction
  <2>3. \A e \in evidence : e[1] = "ActionExpired" => e[2] # id
    BY SMTT(60), <1>1, <1>2, <2>2 DEF LifecycleConsistent, OpenStates
  <2>4. \A e \in evidence' : e[1] = "ActionExpired" => actions'[e[2]].state = "Expired"
    BY SMTT(60), <1>1, <1>7, <2>2, <2>3 DEF LifecycleConsistent
  <2>5. ASSUME NEW i \in 1..count, i # id
        PROVE  /\ actions'[i] = actions[i]
               /\ i \in tickets' <=> i \in tickets
    BY <1>7, <2>1, <2>5
  <2>6. id \in tickets' <=> a.type = "Cascade"
    BY <1>1, <1>2, <2>1 DEF LifecycleConsistent, OpenStates
  <2> QED BY SMTT(60), <1>1, <1>2, <1>5, <1>7, <2>4, <2>5, <2>6 DEF LifecycleConsistent, OpenStates
<1>11. SweepOK'
  BY <1>1, <1>2 DEF SweepOK, FinalizeAction
<1>12. Open(id) /\ ~Open(id)'
  BY <1>2, <1>5, <1>7 DEF Open, OpenStates
<1>13. EscrowExact'
  BY <1>1, <1>2, <1>7, <1>8, <1>9, <1>12, EscrowClose
<1>14. ClosedStep
  <2>1. rec.creator = a.creator /\ rec.price = a.price /\ rec.expiry = a.expiry
    BY <1>2 DEF rec, Action
  <2> QED BY <1>2, <1>5, <1>7, <2>1 DEF ClosedStep, OpenStates
<1>15. PaidStep
  <2>1. bank[ActionAccount] \in Nat
    BY <1>1, AccountsDistinct DEF TypeOK
  <2> QED BY <1>2, <1>7, <1>8, <1>12, <2>1 DEF PaidStep
<1> QED
  BY <1>7, <1>9, <1>10, <1>11, <1>13, <1>14, <1>15 DEF IInv

(* A rejected finalization adds evidence and changes nothing else.         *)
LEMMA RejectStep ==
  ASSUME IInv, NEW id \in 1..count, NEW sn \in Supernodes,
         NEW kind \in EvidenceTypes, RejectFinalization(id, sn, kind)
  PROVE  IInv' /\ ClosedStep /\ PaidStep
<1>1. TypeOK /\ IndexesExact /\ LifecycleConsistent /\ SweepOK /\ EscrowExact
  BY DEF IInv
<1>2. TypeOK'
  BY <1>1 DEF TypeOK, RejectFinalization
<1>3. LifecycleConsistent'
  <2>1. /\ UNCHANGED <<count, actions, tickets>> /\ kind # "ActionExpired"
        /\ evidence' = evidence \cup {<<kind, id, sn>>}
    BY Zenon DEF RejectFinalization
  <2>2. <<kind, id, sn>>[1] # "ActionExpired"
    BY <2>1
  <2> QED BY Zenon, <1>1, <2>1, <2>2 DEF LifecycleConsistent
<1>4. EscrowExact'
  BY Zenon, <1>1, <1>2, EscrowSame DEF RejectFinalization, Open
<1>5. ClosedStep /\ PaidStep
  <2>1. bank[ActionAccount] \in Nat
    BY <1>1, AccountsDistinct DEF TypeOK
  <2> QED BY <2>1 DEF RejectFinalization, ClosedStep, PaidStep
<1> QED
  BY <1>1, <1>2, <1>3, <1>4, <1>5
     DEF IInv, IndexesExact, SweepOK, Open, RejectFinalization

(* ApproveAction moves a Done action to Approved; its price left the       *)
(* escrow when it was finalized.                                           *)
LEMMA ApproveStep ==
  ASSUME IInv, NEW id \in 1..count, NEW c \in Creators, ApproveAction(id, c)
  PROVE  IInv' /\ ClosedStep /\ PaidStep
<1> DEFINE a == actions[id]
           rec == [a EXCEPT !.state = "Approved"]
<1>1. TypeOK /\ IndexesExact /\ LifecycleConsistent /\ SweepOK /\ EscrowExact
  BY DEF IInv
<1>2. a \in Action /\ a.state = "Done" /\ count' = count /\ count \in Nat
      /\ phase = "txs"
  BY <1>1 DEF TypeOK, ApproveAction
<1>3. rec \in Action /\ rec.state = "Approved" /\ rec.supernodes = a.supernodes
      /\ rec.type = a.type /\ rec.price = a.price /\ rec.creator = a.creator
      /\ rec.expiry = a.expiry
  BY <1>2 DEF Action, States
<1>4. SetAction(id, rec)
  BY SMTT(60) DEF ApproveAction
<1> HIDE DEF rec
<1>5. /\ actions' \in [1..count' -> Action]
      /\ stateIdx' \in [States -> SUBSET (1..count')]
      /\ snIdx' \in [Supernodes -> SUBSET (1..count')]
      /\ IndexesExact'
      /\ actions'[id] = rec
      /\ \A i \in 1..count : i # id => actions'[i] = actions[i]
  BY <1>1, <1>2, <1>3, <1>4, SetActionExact
<1>6. TypeOK'
  BY <1>1, <1>2, <1>5 DEF TypeOK, ApproveAction
<1>7. LifecycleConsistent'
  <2>1. evidence' = evidence /\ \A e \in evidence : e[2] \in 1..count
    BY SMTT(60), <1>1 DEF TypeOK, ApproveAction
  <2>2. \A e \in evidence' : e[1] = "ActionExpired" => actions'[e[2]].state = "Expired"
    BY Zenon, <1>1, <1>2, <1>5, <2>1 DEF LifecycleConsistent
  <2>3. tickets' = tickets
    BY DEF ApproveAction
  <2> QED BY <1>1, <1>2, <1>3, <1>5, <2>2, <2>3 DEF LifecycleConsistent, OpenStates
<1>8. SweepOK'
  BY <1>1, <1>2 DEF SweepOK, ApproveAction
<1>9. EscrowExact'
  <2>1. \A i \in 1..count : (Open(i)' <=> Open(i)) /\ actions'[i].price = actions[i].price
    BY <1>2, <1>3, <1>5 DEF Open, OpenStates
  <2> QED BY <1>1, <1>2, <1>6, <2>1, EscrowSame DEF ApproveAction
<1>10. ClosedStep
  <2>1. rec = [a EXCEPT !.state = "Approved"]
    BY DEF rec
  <2> QED BY Zenon, <1>2, <1>3, <1>5, <2>1 DEF ClosedStep
<1>11. PaidStep
  <2>1. bank' = bank /\ bank[ActionAccount] \in Nat
    BY <1>1, AccountsDistinct DEF TypeOK, ApproveAction
  <2> QED BY <2>1 DEF PaidStep
<1> QED
  BY <1>5, <1>6, <1>7, <1>8, <1>9, <1>10, <1>11 DEF IInv

(* One round of the EndBlocker's sweep: the refund is covered, and the     *)
(* action leaves the escrow with it.                                       *)
LEMMA ExpireStep ==
  ASSUME IInv, NEW id \in todo, NEW top \in SUBSET Supernodes,
         ProcessExpired(id, top)
  PROVE  IInv' /\ ClosedStep /\ PaidStep
<1> DEFINE a == actions[id]
           rec == [a EXCEPT !.state = "Expired"]
<1>1. TypeOK /\ IndexesExact /\ LifecycleConsistent /\ SweepOK /\ EscrowExact
  BY DEF IInv
<1>2. /\ id \in 1..count /\ a \in Action /\ a.state \in OpenStates
      /\ a.price \in Nat /\ a.creator \in Creators /\ count \in Nat
      /\ phase = "sweep" /\ phase' = phase /\ todo' = todo \ {id}
  BY <1>1 DEF TypeOK, SweepOK, Open, Action, ProcessExpired
<1>3. CASE UNCHANGED <<count, actions, stateIdx, snIdx, bank, evidence>>
  <2>1. TypeOK'
    BY <1>1, <1>2, <1>3 DEF TypeOK, ProcessExpired
  <2>2. LifecycleConsistent'
    BY <1>1, <1>3 DEF LifecycleConsistent, ProcessExpired
  <2>3. EscrowExact'
    BY <1>1, <1>3, <2>1, EscrowSame DEF Open
  <2>4. SweepOK'
    BY <1>1, <1>2, <1>3 DEF SweepOK, Open
  <2>5. ClosedStep /\ PaidStep
    <3>1. bank[ActionAccount] \in Nat
      BY <1>1, AccountsDistinct DEF TypeOK
    <3> QED BY <1>3, <3>1 DEF ClosedStep, PaidStep
  <2> QED BY <1>1, <1>3, <2>1, <2>2, <2>3, <2>4, <2>5 DEF IInv, IndexesExact
<1>4. CASE ~UNCHANGED <<count, actions, stateIdx, snIdx, bank, evidence>>
  <2>1. /\ count' = count
        /\ bank' = Send(bank, ActionAccount, a.creator, a.price)
        /\ SetAction(id, rec)
        /\ evidence' = evidence \cup {<<"ActionExpired", id, n>> : n \in top}
    BY <1>4 DEF ProcessExpired
  <2>2. rec \in Action /\ rec.state = "Expired" /\ rec.supernodes = a.supernodes
        /\ rec.type = a.type /\ rec.meta = a.meta
    BY SMTT(60), <1>2 DEF Action, States
  <2> HIDE DEF rec
  <2>3. /\ actions' \in [1..count' -> Action]
        /\ stateIdx' \in [States -> SUBSET (1..count')]
        /\ snIdx' \in [Supernodes -> SUBSET (1..count')]
        /\ IndexesExact'
        /\ actions'[id] = rec
        /\ \A i \in 1..count : i # id => actions'[i] = actions[i]
    BY SMTT(60), <1>1, <1>2, <2>1, <2>2, SetActionExact
  <2>4. bank' \in [Accounts -> Nat] /\ bank'[ActionAccount] = bank[ActionAccount] - a.price
    <3>1. bank[ActionAccount] >= a.price /\ bank \in [Accounts -> Nat]
      BY <1>1, <1>2, EscrowCovers DEF Open, TypeOK
    <3> QED BY <1>2, <2>1, <3>1, AccountsDistinct, SendExact
  <2>5. TypeOK'
    <3>1. evidence' \subseteq EvidenceTypes \X (1..count) \X Supernodes
      BY SMTT(60), <1>1, <1>2, <2>1 DEF TypeOK, EvidenceTypes
    <3> QED BY SMTT(60), <1>1, <1>2, <2>1, <2>3, <2>4, <3>1 DEF TypeOK, ProcessExpired
  <2>6. LifecycleConsistent'
    <3>1. \A e \in evidence : e[2] \in 1..count
      BY <1>1 DEF TypeOK
    <3>2. \A e \in evidence' : e[1] = "ActionExpired" => actions'[e[2]].state = "Expired"
      <4>1. \A e \in evidence : e[1] = "ActionExpired" => actions[e[2]].state = "Expired"
        BY Zenon, <1>1 DEF LifecycleConsistent
      <4>2. actions'[id].state = "Expired" /\ \A i \in 1..count : i # id => actions'[i] = actions[i]
        BY Zenon, <2>2, <2>3
      <4>3. \A e \in evidence' : e \in evidence \/ \E n \in top : e = <<"ActionExpired", id, n>>
        BY Zenon, <2>1
      <4>4. \A n : <<"ActionExpired", id, n>>[2] = id
        OBVIOUS
      <4> QED BY Zenon, <3>1, <4>1, <4>2, <4>3, <4>4
    <3>3. tickets' = tickets
      BY DEF ProcessExpired
    <3> QED BY <1>1, <1>2, <2>1, <2>2, <2>3, <3>2, <3>3, SMTT(30)
              DEF LifecycleConsistent, OpenStates
  <2>7. SweepOK'
    BY SMTT(60), <1>1, <1>2, <2>3 DEF SweepOK, Open, TypeOK
  <2>8. Open(id) /\ ~Open(id)'
    BY Zenon, <1>2, <2>2, <2>3 DEF Open, OpenStates
  <2>9. EscrowExact'
    BY Zenon, <1>1, <1>2, <2>1, <2>3, <2>4, <2>5, <2>8, EscrowClose
  <2>10. ClosedStep
    <3>1. rec.creator = a.creator /\ rec.price = a.price /\ rec.expiry = a.expiry
      BY <1>2 DEF rec, Action
    <3> QED BY <1>2, <2>2, <2>3, <3>1 DEF ClosedStep, OpenStates
  <2>11. PaidStep
    <3>1. bank[ActionAccount] \in Nat
      BY <1>1, AccountsDistinct DEF TypeOK
    <3>2. bank[ActionAccount] - bank'[ActionAccount] = actions[id].price
      BY <1>2, <2>4, <3>1
    <3>3. \A j \in (1..count) \ {id} : actions'[j] = actions[j]
      BY Zenon, <2>3
    <3> QED BY Zenon, <1>2, <2>8, <3>2, <3>3 DEF PaidStep
  <2> QED BY <2>3, <2>5, <2>6, <2>7, <2>9, <2>10, <2>11 DEF IInv
<1> QED
  BY <1>3, <1>4

(* Starting a sweep, and moving on to the next block.                      *)
LEMMA BlockStep ==
  ASSUME IInv, CheckExpiration \/ \E d \in 0..1 : NextBlock(d)
  PROVE  IInv' /\ ClosedStep /\ PaidStep
<1>1. TypeOK /\ IndexesExact /\ LifecycleConsistent /\ SweepOK /\ EscrowExact
  BY DEF IInv
<1>2. UNCHANGED <<count, actions, stateIdx, snIdx, bank, tickets, evidence>>
  BY Zenon DEF CheckExpiration, NextBlock
<1>3. SweepOK' /\ todo' \subseteq 1..count
  BY <1>1, <1>2 DEF SweepOK, CheckExpiration, NextBlock, IndexesExact, TypeOK,
                    Open, OpenStates, States
<1>4. now' \in 0..MaxTime /\ phase' \in {"txs", "sweep"}
  <2>1. now \in 0..MaxTime /\ phase \in {"txs", "sweep"} /\ MaxTime \in Nat
    BY <1>1, ConstantsAssumption, SMTT(30) DEF TypeOK
  <2>2. CASE CheckExpiration
    BY Zenon, <2>1, <2>2 DEF CheckExpiration
  <2>3. CASE \E d \in 0..1 : NextBlock(d)
    BY <2>1, <2>3 DEF NextBlock
  <2> QED BY <2>2, <2>3
<1>5. TypeOK'
  BY <1>1, <1>2, <1>3, <1>4 DEF TypeOK
<1>6. IndexesExact' /\ LifecycleConsistent'
  BY <1>1, <1>2 DEF IndexesExact, LifecycleConsistent
<1>7. EscrowExact'
  BY <1>1, <1>2, <1>5, EscrowSame DEF Open
<1>8. ClosedStep /\ PaidStep
  <2>1. bank[ActionAccount] \in Nat
    BY <1>1, AccountsDistinct DEF TypeOK
  <2> QED BY <1>2, <2>1 DEF ClosedStep, PaidStep
<1> QED
  BY <1>3, <1>5, <1>6, <1>7, <1>8 DEF IInv

-----------------------------------------------------------------------------
(* Every transaction and every step of the block cycle preserves the       *)
(* invariant, keeps what is closed closed, and pays out by closing.        *)
LEMMA NextIInv == IInv /\ [Next]_vars => IInv' /\ [ClosedStep]_vars /\ [PaidStep]_vars
<1> SUFFICES ASSUME IInv, [Next]_vars
             PROVE  IInv' /\ [ClosedStep]_vars /\ [PaidStep]_vars
  OBVIOUS
<1>1. CASE Tx
  BY <1>1, RequestStep, FinalizeStep, RejectStep, ApproveStep DEF Tx
<1>2. CASE EndBlock
  BY <1>2, BlockStep, ExpireStep DEF EndBlock
<1>3. CASE \E d \in 0..1 : NextBlock(d)
  BY <1>3, BlockStep
<1>4. CASE UNCHANGED vars
  <2>1. TypeOK' /\ IndexesExact' /\ LifecycleConsistent' /\ SweepOK'
    BY <1>4 DEF IInv, vars, TypeOK, IndexesExact, LifecycleConsistent, SweepOK, Open
  <2>2. EscrowExact'
    BY <1>4, <2>1, EscrowSame DEF IInv, vars, Open
  <2> QED BY SMTT(60), <1>4, <2>1, <2>2 DEF IInv
<1> QED
  BY <1>1, <1>2, <1>3, <1>4 DEF Next

(* Every reachable state of x/action satisfies the inductive invariant.    *)
THEOREM Invariance == Spec => []IInv
<1>1. Init => IInv
  BY InitIInv
<1>2. IInv /\ [Next]_vars => IInv'
  BY NextIInv
<1> QED
  BY <1>1, <1>2, PTL DEF Spec

(* The variables of the action store, its indexes, the balances and the    *)
(* sweep keep their types.                                                 *)
THEOREM TypeCorrect == Spec => []TypeOK
<1>1. IInv => TypeOK
  BY DEF IInv
<1> QED BY <1>1, Invariance, PTL

(* The refund of an expired action never fails for lack of funds.          *)
THEOREM Solvency == Spec => []EscrowSolvent
<1>1. IInv => EscrowSolvent
  BY EscrowCovers DEF IInv, EscrowSolvent
<1> QED BY <1>1, Invariance, PTL

(* The module account holds exactly the prices of the open actions.        *)
THEOREM EscrowCorrect == Spec => []EscrowExact
<1>1. IInv => EscrowExact
  BY DEF IInv
<1> QED BY <1>1, Invariance, PTL

(* The indexes SetAction maintains agree with the primary store.           *)
THEOREM IndexCorrect == Spec => []IndexesExact
<1>1. IInv => IndexesExact
  BY DEF IInv
<1> QED BY <1>1, Invariance, PTL

(* Once finalized an action is at most approved, once approved or expired  *)
(* it never changes, and what was agreed at registration never does.       *)
THEOREM ClosedCorrect == Spec => ClosedStaysClosed
<1>1. Spec => [][ClosedStep]_vars
  BY NextIInv, Invariance, PTL DEF Spec
<1> QED BY <1>1 DEF ClosedStaysClosed, ClosedStep

(* The module account pays out exactly the price of an action, and in the  *)
(* step that closes it.                                                    *)
THEOREM PayoutCorrect == Spec => PaidOutByClosing
<1>1. Spec => [][PaidStep]_vars
  BY NextIInv, Invariance, PTL DEF Spec
<1> QED BY <1>1 DEF PaidOutByClosing, PaidStep

(* Supernodes, metadata, artifact counts and expiry evidence agree with    *)
(* the state of every action.                                              *)
THEOREM LifecycleCorrect == Spec => []LifecycleConsistent
<1>1. IInv => LifecycleConsistent
  BY DEF IInv
<1> QED BY <1>1, Invariance, PTL
=============================================================================
