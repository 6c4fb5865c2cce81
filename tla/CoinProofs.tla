----------------------------- MODULE CoinProofs ------------------------------
(***************************************************************************)
(* Proofs about the coins two module accounts pay out: the claims of       *)
(* x/claim and the rewards of x/supernode.                                 *)
(***************************************************************************)
EXTENDS Claim, RewardPool, SumFacts

-----------------------------------------------------------------------------
(* A record as it is loaded has a balance and nothing else.                *)
LEMMA LoadedRecord ==
  ASSUME NEW r, NEW b, r = [NoRecord EXCEPT !.found = r.found, !.balance = b]
  PROVE  r = [found |-> r.found, balance |-> b, claimed |-> FALSE,
              time |-> 0, dest |-> None, tier |-> 0]
BY ZenonT(60) DEF NoRecord

(* A non-empty finite set of naturals has a largest element.               *)
LEMMA MaxInSet ==
  ASSUME NEW S \in SUBSET Nat, IsFiniteSet(S), S # {}
  PROVE  Max(S) \in S
<1> DEFINE G == {T \in SUBSET S : T # {} => \E m \in T : \A j \in T : m >= j}
<1>1. {} \in G
  OBVIOUS
<1>2. ASSUME NEW T \in SUBSET S, NEW x \in S \ T, T \in G PROVE T \cup {x} \in G
  <2>1. CASE T = {}
    BY <2>1
  <2>2. CASE T # {}
    <3>1. PICK m \in T : \A j \in T : m >= j
      BY <1>2, <2>2
    <3>2. m \in Nat /\ x \in Nat
      OBVIOUS
    <3>3. CASE m >= x
      BY <3>1, <3>2, <3>3
    <3>4. CASE x > m
      <4>1. \A j \in T \cup {x} : x >= j
        BY <3>1, <3>2, <3>4
      <4> QED
        BY <4>1
    <3> QED
      BY <3>2, <3>3, <3>4
  <2> QED
    BY <2>1, <2>2
<1> HIDE DEF G
<1>3. S \in G
  BY Zenon, <1>1, <1>2, FiniteSetInduction
<1> QED
  BY Zenon, <1>3 DEF G, Max

(* The smaller of two naturals is one.                                     *)
LEMMA MinOfTwo ==
  ASSUME NEW a \in Nat, NEW b \in Nat
  PROVE  Min({a, b}) \in Nat
<1>1. \E x \in {a, b} : \A y \in {a, b} : x <= y
  OBVIOUS
<1> QED
  BY <1>1 DEF Min

-----------------------------------------------------------------------------
(* Genesis mints at least what the records loaded from the file promise:   *)
(* an address with several rows keeps the last, and all rows are minted.   *)
LEMMA MintedCovers ==
  ASSUME NEW csv \in Seq(OldAddrs \X Nat), IsFiniteSet(OldAddrs)
  PROVE  LET bal == [o \in OldAddrs |-> LoadClaimRecords(csv)[o].balance]
         IN  /\ bal \in [OldAddrs -> Nat]
             /\ Minted(csv) \in Nat
             /\ SumFunctionOnSet(bal, OldAddrs) <= Minted(csv)
<1> DEFINE bal == [o \in OldAddrs |-> LoadClaimRecords(csv)[o].balance]
           amount == [i \in DOMAIN csv |-> csv[i][2]]
           Rows(T) == {i \in DOMAIN csv : csv[i][1] \in T}
           G == {T \in SUBSET OldAddrs :
                   SumFunctionOnSet(bal, T) <= SumFunctionOnSet(amount, Rows(T))}
<1>1. /\ IsFiniteSet(DOMAIN csv) /\ DOMAIN csv \subseteq Nat
      /\ \A i \in DOMAIN csv : csv[i][1] \in OldAddrs /\ csv[i][2] \in Nat
  <2>1. DOMAIN csv = 1..Len(csv) /\ Len(csv) \in Nat
    OBVIOUS
  <2>2. IsFiniteSet(1..Len(csv))
    BY <2>1, FS_Interval
  <2>3. \A i \in 1..Len(csv) : csv[i] \in OldAddrs \X Nat
    OBVIOUS
  <2> QED
    BY <2>1, <2>2, <2>3
<1>2. \A T : IsFiniteSet(Rows(T)) /\ Rows(T) \in SUBSET Nat /\ Rows(T) \subseteq DOMAIN csv
  <2>1. \A T : Rows(T) \in SUBSET (DOMAIN csv)
    OBVIOUS
  <2> QED
    BY <1>1, <2>1, FS_Subset
<1>3. \A i \in DOMAIN csv : amount[i] = csv[i][2] /\ amount[i] \in Nat
  BY <1>1
<1>4. ASSUME NEW o \in OldAddrs
      PROVE  /\ Rows({o}) = {} => bal[o] = 0
             /\ Rows({o}) # {} => Max(Rows({o})) \in Rows({o}) /\ bal[o] = amount[Max(Rows({o}))]
  <2>1. Rows({o}) = {i \in DOMAIN csv : csv[i][1] = o}
    OBVIOUS
  <2>2. bal[o] = IF Rows({o}) = {} THEN 0 ELSE csv[Max(Rows({o}))][2]
    <3> HIDE DEF Rows
    <3> QED
      BY <2>1, Zenon DEF LoadClaimRecords, NoRecord
  <2>3. Rows({o}) # {} => Max(Rows({o})) \in Rows({o})
    BY Zenon, <1>2, MaxInSet
  <2> QED
    BY <1>2, <1>3, <2>2, <2>3
<1>5. bal \in [OldAddrs -> Nat]
  <2>1. ASSUME NEW o \in OldAddrs PROVE bal[o] \in Nat
    <3> HIDE DEF bal, amount, Rows
    <3>1. CASE Rows({o}) = {}
      BY <1>4, <3>1
    <3>2. CASE Rows({o}) # {}
      <4>1. Max(Rows({o})) \in DOMAIN csv
        BY <1>2, <1>4, <3>2
      <4> QED
        BY Zenon, <1>3, <1>4, <3>2, <4>1
    <3> QED
      BY Zenon, <3>1, <3>2
  <2> QED
    BY <2>1
<1> HIDE DEF bal, amount, Rows
<1>6. \A T \in SUBSET OldAddrs : /\ IsFiniteSet(T)
                                 /\ SumFunctionOnSet(bal, T) \in Nat
                                 /\ SumFunctionOnSet(amount, Rows(T)) \in Nat
  <2> SUFFICES ASSUME NEW T \in SUBSET OldAddrs
               PROVE  /\ IsFiniteSet(T)
                      /\ SumFunctionOnSet(bal, T) \in Nat
                      /\ SumFunctionOnSet(amount, Rows(T)) \in Nat
    OBVIOUS
  <2>1. IsFiniteSet(T)
    BY FS_Subset
  <2>2. \A o \in T : bal[o] \in Nat
    BY <1>5
  <2>3. \A i \in Rows(T) : amount[i] \in Nat
    BY <1>2, <1>3
  <2> QED
    BY <1>2, <2>1, <2>2, <2>3, SumNat
<1>7. {} \in G
  <2>1. Rows({}) = {}
    BY DEF Rows
  <2>2. SumFunctionOnSet(bal, {}) = 0 /\ SumFunctionOnSet(amount, {}) = 0
    BY SumEmpty
  <2>3. SumFunctionOnSet(amount, Rows({})) = 0
    BY <2>1, <2>2, Zenon
  <2> QED
    BY <2>2, <2>3
<1>8. ASSUME NEW T \in SUBSET OldAddrs, NEW o \in OldAddrs \ T, T \in G
      PROVE  T \cup {o} \in G
  <2> DEFINE Paid(s) == SumFunctionOnSet(bal, s)
             Rest(s) == SumFunctionOnSet(amount, s)
  <2>1. Paid(T \cup {o}) = Paid(T) + bal[o]
    <3>1. \A x \in T \cup {o} : bal[x] \in Nat
      BY <1>5
    <3> QED
      BY Zenon, <1>6, <3>1, SumAdd
  <2>2. Rows(T) \cup Rows({o}) = Rows(T \cup {o}) /\ Rows(T) \cap Rows({o}) = {}
    BY DEF Rows
  <2>3. Rest(Rows(T)) + bal[o] <= Rest(Rows(T \cup {o}))
    <3>1. CASE Rows({o}) = {}
      <4>1. Rows(T \cup {o}) = Rows(T) /\ bal[o] = 0
        BY Zenon, <1>4, <2>2, <3>1
      <4> QED
        BY <1>6, <4>1
    <3>2. CASE Rows({o}) # {}
      <4> DEFINE m == Max(Rows({o}))
      <4>1. m \in Rows({o}) /\ bal[o] = amount[m]
        BY <1>4, <3>2
      <4> HIDE DEF m
      <4>2. m \notin Rows(T) /\ Rows(T) \cup {m} \in SUBSET Rows(T \cup {o})
        BY Zenon, <2>2, <4>1
      <4>3. \A j \in Rows(T \cup {o}) : amount[j] \in Nat
        BY <1>2, <1>3
      <4>4. Rest(Rows(T) \cup {m}) = Rest(Rows(T)) + amount[m]
        <5>1. \A j \in Rows(T) \cup {m} : amount[j] \in Nat
          BY Zenon, <4>2, <4>3
        <5> QED
          BY Zenon, <1>2, <4>2, <5>1, SumAdd
      <4>5. Rest(Rows(T) \cup {m}) <= Rest(Rows(T \cup {o}))
        BY Zenon, <1>2, <4>2, <4>3, SumSubset
      <4> QED
        BY <4>1, <4>4, <4>5
    <3> QED
      BY Zenon, <3>1, <3>2
  <2>4. Paid(T) <= Rest(Rows(T))
    BY <1>8
  <2>5. Paid(T) \in Nat /\ Rest(Rows(T)) \in Nat /\ bal[o] \in Nat
        /\ Rest(Rows(T \cup {o})) \in Nat
    <3>1. T \cup {o} \in SUBSET OldAddrs
      OBVIOUS
    <3> QED
      BY <1>5, <1>6, <3>1
  <2> HIDE DEF Paid, Rest
  <2>6. Paid(T \cup {o}) <= Rest(Rows(T \cup {o}))
    BY <2>1, <2>3, <2>4, <2>5
  <2> QED
    BY <2>6 DEF Paid, Rest
<1>9. OldAddrs \in G
  <2> HIDE DEF G
  <2> QED
    BY Zenon, <1>7, <1>8, FiniteSetInduction
<1>10. Rows(OldAddrs) = DOMAIN csv
  BY Zenon, <1>1 DEF Rows
<1>11. Minted(csv) = SumFunctionOnSet(amount, DOMAIN csv)
  BY DEF Minted, amount, SumFunction
<1> QED
  BY <1>5, <1>6, <1>9, <1>10, <1>11 DEF bal

-----------------------------------------------------------------------------
(* A delayed claim went to an account of its own.                          *)
DelayedKnown == \A o \in OldAddrs : records[o].tier > 0 => records[o].dest \in Dests

ClaimInv == TypeOK /\ Solvent /\ PaidOnce /\ DelayedLocked /\ DelayedKnown

(* The balance of every record.                                            *)
Bal == [o \in OldAddrs |-> records[o].balance]

(* Sums of record balances are sums of naturals over finite sets.          *)
LEMMA BalanceSums ==
  ASSUME TypeOK
  PROVE  /\ \A o \in OldAddrs : Bal[o] = records[o].balance /\ Bal[o] \in Nat
         /\ \A S \in SUBSET OldAddrs :
              /\ IsFiniteSet(S)
              /\ \A o \in S : Bal[o] \in Nat
              /\ Balances(S) = SumFunctionOnSet(Bal, S)
              /\ Balances(S) \in Nat
<1>1. \A o \in OldAddrs : Bal[o] = records[o].balance /\ Bal[o] \in Nat
  BY DEF TypeOK, Record, Bal
<1>2. ASSUME NEW S \in SUBSET OldAddrs
      PROVE  /\ IsFiniteSet(S)
             /\ \A o \in S : Bal[o] \in Nat
             /\ Balances(S) = SumFunctionOnSet(Bal, S)
             /\ Balances(S) \in Nat
  <2>1. IsFiniteSet(S)
    BY FS_Subset, ConstantsAssumption
  <2>2. \A o \in S : Bal[o] \in Nat
    BY <1>1
  <2>3. Balances(S) = SumFunctionOnSet(Bal, S)
    BY DEF Balances, Bal
  <2> QED
    BY <2>1, <2>2, <2>3, SumNat
<1> QED
  BY <1>1, <1>2

(* Genesis satisfies the invariant.                                        *)
LEMMA ClaimInit == Init => ClaimInv
<1> SUFFICES ASSUME Init PROVE ClaimInv
  OBVIOUS
<1>1. PICK csv \in Csvs :
        /\ params = GenesisParams
        /\ records = LoadClaimRecords(csv)
        /\ blockClaims = 0
        /\ accounts \in [Dests -> {Base, [Base EXCEPT !.kind = None]}]
        /\ bank = [h \in Holders |-> CASE h = Module  -> Minted(csv)
                                       [] h = Outside -> OutsideCoins
                                       [] OTHER       -> 0]
        /\ burned = 0
        /\ now = 0
  BY DEF Init
<1>2. csv \in Seq(OldAddrs \X Nat) /\ IsFiniteSet(OldAddrs)
  BY ConstantsAssumption
<1>3. /\ Bal \in [OldAddrs -> Nat]
      /\ Minted(csv) \in Nat
      /\ SumFunctionOnSet(Bal, OldAddrs) <= Minted(csv)
  BY <1>1, <1>2, MintedCovers DEF Bal
<1>4. /\ DOMAIN records = OldAddrs
      /\ \A o \in OldAddrs : /\ records[o] = [NoRecord EXCEPT !.found = records[o].found,
                                                               !.balance = Bal[o]]
                              /\ records[o].found \in BOOLEAN
  <2>1. DOMAIN records = OldAddrs
    BY Zenon, <1>1 DEF LoadClaimRecords
  <2>2. ASSUME NEW o \in OldAddrs
        PROVE  /\ records[o] = [NoRecord EXCEPT !.found = records[o].found,
                                                !.balance = Bal[o]]
               /\ records[o].found \in BOOLEAN
    BY Zenon, <1>1 DEF LoadClaimRecords, Bal, NoRecord
  <2> QED
    BY Zenon, <2>1, <2>2
<1>5. ASSUME NEW o \in OldAddrs
      PROVE  records[o] \in Record /\ ~records[o].claimed /\ records[o].tier = 0
  <2>1. Bal[o] \in Nat
    BY <1>3
  <2>2. records[o] = [found |-> records[o].found, balance |-> Bal[o], claimed |-> FALSE,
                      time |-> 0, dest |-> None, tier |-> 0]
    BY Zenon, <1>4, LoadedRecord
  <2>3. 0 \in Nat /\ 0 \in 0..5 /\ FALSE \in BOOLEAN /\ None \in Dests \cup {Module, None}
    OBVIOUS
  <2>4. records[o] \in Record
    <3> DEFINE fnd == records[o].found
    <3>1. fnd \in BOOLEAN
      BY Zenon, <1>4
    <3> HIDE DEF fnd
    <3>2. [found |-> fnd, balance |-> Bal[o], claimed |-> FALSE,
           time |-> 0, dest |-> None, tier |-> 0] \in Record
      BY <2>1, <2>3, <3>1 DEF Record
    <3> QED
      BY <2>2, <3>2, Zenon DEF fnd
  <2> QED
    BY <2>2, <2>4
<1>6. TypeOK
  <2>1. records \in [OldAddrs -> Record]
    <3>1. records = [o \in OldAddrs |-> records[o]]
      BY Zenon, <1>1 DEF LoadClaimRecords
    <3> QED
      BY <1>5, <3>1
  <2>2. params \in Params
    BY <1>1, ConstantsAssumption
  <2>3. bank \in [Holders -> Nat]
    BY <1>1, <1>3, ConstantsAssumption
  <2>4. accounts \in [Dests -> Account]
    BY <1>1 DEF Base, Account
  <2> QED
    BY <1>1, <2>1, <2>2, <2>3, <2>4 DEF TypeOK
<1>7. Solvent
  <2>1. Unclaimed = OldAddrs
    BY <1>5 DEF Unclaimed
  <2>2. bank[Module] = Minted(csv)
    BY <1>1, ConstantsAssumption DEF Holders
  <2>3. Balances(Unclaimed) <= bank[Module]
    <3>1. Balances(OldAddrs) = SumFunctionOnSet(Bal, OldAddrs)
      BY <1>6, BalanceSums
    <3>2. Balances(Unclaimed) = SumFunctionOnSet(Bal, OldAddrs)
      BY <2>1, <3>1, Zenon
    <3> QED
      BY <1>3, <2>2, <3>2
  <2>4. Balances(Unclaimed) \in Nat
    BY <1>6, BalanceSums DEF Unclaimed
  <2> QED
    BY <1>3, <2>2, <2>3, <2>4 DEF Solvent
<1>8. PaidOnce
  <2> SUFFICES ASSUME NEW d \in Dests PROVE bank[d] = Balances(ClaimedTo(d))
    BY DEF PaidOnce
  <2>1. ClaimedTo(d) = {}
    BY <1>5 DEF ClaimedTo
  <2>2. bank[d] = 0
    BY <1>1, ConstantsAssumption DEF Holders
  <2>3. Balances({}) = 0
    BY SumEmpty DEF Balances
  <2> QED
    BY <2>1, <2>2, <2>3, Zenon
<1>9. DelayedLocked /\ DelayedKnown
  BY <1>5 DEF DelayedLocked, DelayedKnown
<1> QED
  BY <1>6, <1>7, <1>8, <1>9 DEF ClaimInv

(* processClaim pays the record's balance and marks the record, in one     *)
(* step: the account keeps covering what is left, and the destination has  *)
(* got exactly the balances claimed to it.                                 *)
LEMMA PayClaim ==
  ASSUME ClaimInv, NEW old \in OldAddrs, NEW dest \in Dests \cup {Module},
         NEW tier \in 0..5, ProcessClaim(old, dest, tier)
  PROVE  /\ records' \in [OldAddrs -> Record]
         /\ records'[old] = Processed(records[old], dest, tier)
         /\ \A o \in OldAddrs : o # old => records'[o] = records[o]
         /\ bank' \in [Holders -> Nat]
         /\ Solvent' /\ PaidOnce'
<1> DEFINE amt == records[old].balance
<1>1. TypeOK /\ Solvent /\ PaidOnce
  BY DEF ClaimInv
<1>2. /\ records[old] \in Record /\ ~records[old].claimed /\ amt \in Nat
      /\ bank[Module] >= amt
      /\ bank' = [[bank EXCEPT ![Module] = @ - amt] EXCEPT ![dest] = @ + amt]
      /\ records' = [records EXCEPT ![old] = Processed(@, dest, tier)]
      /\ burned' = burned
  BY <1>1 DEF ProcessClaim, Claimable, Send, TypeOK, Record
<1>3. /\ Module \in Holders /\ Dests \subseteq Holders /\ Module \notin Dests
      /\ bank \in [Holders -> Nat]
  BY <1>1, ConstantsAssumption DEF Holders, TypeOK
<1>4. now \div Second \in Nat
  <2>1. now \in Nat /\ Second \in Nat \ {0}
    BY <1>1, ConstantsAssumption DEF TypeOK
  <2> QED
    BY <2>1
<1> DEFINE rec == Processed(records[old], dest, tier)
<1>5. /\ rec \in Record /\ rec.claimed /\ rec.dest = dest /\ rec.balance = amt
  BY Zenon, <1>2, <1>4 DEF Processed, Record
<1>6. /\ records' \in [OldAddrs -> Record] /\ records'[old] = rec
      /\ \A o \in OldAddrs : o # old => records'[o] = records[o]
  BY <1>1, <1>2, <1>5 DEF TypeOK
<1> HIDE DEF rec
<1>7. Bal' = Bal
  <2>1. \A o \in OldAddrs : records'[o].balance = records[o].balance
    BY <1>5, <1>6
  <2> QED
    BY <2>1 DEF Bal
<1>8. bank' \in [Holders -> Nat]
  BY <1>2, <1>3
<1>9. Solvent'
  <2>1. Unclaimed \in SUBSET OldAddrs /\ old \in Unclaimed
        /\ Unclaimed' = Unclaimed \ {old}
    BY <1>2, <1>5, <1>6 DEF Unclaimed
  <2>2. Balances(Unclaimed) = amt + SumFunctionOnSet(Bal, Unclaimed \ {old})
    <3>1. Bal[old] = amt
      BY DEF Bal
    <3> QED
      BY <1>1, <2>1, <3>1, BalanceSums, SumRemove
  <2>3. SumFunctionOnSet(Bal, Unclaimed \ {old}) \in Nat
    <3>1. Unclaimed \ {old} \in SUBSET OldAddrs
      BY <2>1
    <3> QED
      BY <1>1, <3>1, BalanceSums
  <2>4. Balances(Unclaimed)' = SumFunctionOnSet(Bal, Unclaimed \ {old})
    BY <1>7, <2>1, Zenon DEF Balances, Bal
  <2>5. bank'[Module] >= bank[Module] - amt /\ bank'[Module] \in Nat
    BY <1>2, <1>3, <1>8
  <2>6. burned = 0 => bank[Module] >= Balances(Unclaimed)
    BY <1>1 DEF Solvent
  <2>7. bank[Module] \in Nat
    BY <1>3
  <2> QED
    BY <1>2, <2>2, <2>3, <2>4, <2>5, <2>6, <2>7 DEF Solvent
<1>10. PaidOnce'
  <2> SUFFICES ASSUME NEW d \in Dests PROVE bank'[d] = Balances(ClaimedTo(d))'
    BY DEF PaidOnce
  <2>1. ClaimedTo(d) \in SUBSET OldAddrs /\ old \notin ClaimedTo(d)
        /\ ClaimedTo(d)' = IF d = dest THEN ClaimedTo(d) \cup {old} ELSE ClaimedTo(d)
    BY <1>2, <1>5, <1>6 DEF ClaimedTo
  <2>2. bank[d] = SumFunctionOnSet(Bal, ClaimedTo(d))
    BY <1>1, <2>1, BalanceSums DEF PaidOnce
  <2>3. Balances(ClaimedTo(d))' = SumFunctionOnSet(Bal, ClaimedTo(d)')
    BY <1>7, Zenon DEF Balances, Bal
  <2>4. CASE d = dest
    <3>1. bank'[d] = bank[d] + amt
      BY <1>2, <1>3, <2>4
    <3>2. SumFunctionOnSet(Bal, ClaimedTo(d) \cup {old})
            = SumFunctionOnSet(Bal, ClaimedTo(d)) + Bal[old]
      <4>1. \A o \in ClaimedTo(d) \cup {old} : Bal[o] \in Nat
        BY <1>1, <2>1, BalanceSums
      <4>2. IsFiniteSet(ClaimedTo(d))
        BY <1>1, <2>1, BalanceSums
      <4> HIDE DEF ClaimedTo
      <4> QED
        BY <2>1, <4>1, <4>2, SumAdd, Zenon
    <3>3. Bal[old] = amt
      BY DEF Bal
    <3>4. ClaimedTo(d)' = ClaimedTo(d) \cup {old}
      BY <2>1, <2>4
    <3>5. Balances(ClaimedTo(d))' = SumFunctionOnSet(Bal, ClaimedTo(d)) + amt
      BY <2>3, <3>2, <3>3, <3>4, Zenon
    <3> QED
      BY <2>2, <3>1, <3>5
  <2>5. CASE d # dest
    <3>1. bank'[d] = bank[d]
      BY <1>2, <1>3, <2>5
    <3>2. ClaimedTo(d)' = ClaimedTo(d)
      BY <2>1, <2>5
    <3> QED
      BY <2>2, <2>3, <3>1, <3>2, Zenon
  <2> QED
    BY <2>4, <2>5
<1> QED
  BY <1>6, <1>8, <1>9, <1>10 DEF rec

(* A claim at once creates a plain account where there was none.           *)
LEMMA MsgClaimStep ==
  ASSUME ClaimInv, NEW old \in OldAddrs, NEW dest \in Dests \cup {Module},
         MsgClaim(old, dest)
  PROVE  ClaimInv'
<1>1. TypeOK /\ DelayedLocked /\ DelayedKnown
  BY DEF ClaimInv
<1>2. ProcessClaim(old, dest, 0) /\ CreateBaseAccount(dest)
  BY DEF MsgClaim
<1>3. /\ records' \in [OldAddrs -> Record]
      /\ records'[old] = Processed(records[old], dest, 0)
      /\ \A o \in OldAddrs : o # old => records'[o] = records[o]
      /\ bank' \in [Holders -> Nat]
      /\ Solvent' /\ PaidOnce'
  <2>1. 0 \in 0..5
    OBVIOUS
  <2> QED
    BY <1>2, <2>1, PayClaim
<1>4. records'[old].tier = 0
  <2>1. records[old] \in Record
    BY <1>1 DEF TypeOK
  <2> QED
    BY <1>3, <2>1 DEF Processed, Record
<1>5. accounts' \in [Dests -> Account]
      /\ \A d \in Dests : accounts[d].kind # None => accounts'[d] = accounts[d]
  BY <1>1, <1>2 DEF CreateBaseAccount, TypeOK, Base, Account
<1>6. TypeOK'
  BY <1>1, <1>2, <1>3, <1>5 DEF TypeOK, ProcessClaim
<1>7. ASSUME NEW o \in OldAddrs, records'[o].tier > 0
      PROVE  /\ records'[o] = records[o] /\ records[o].dest \in Dests
             /\ accounts'[records[o].dest] = accounts[records[o].dest]
  <2>1. o # old /\ records'[o] = records[o]
    BY <1>3, <1>4, <1>7
  <2>2. records[o].dest \in Dests /\ accounts[records[o].dest].kind = "vesting"
    <3>1. records[o].tier > 0
      BY <1>7, <2>1
    <3>2. accounts[records[o].dest] =
            [kind |-> "vesting", original |-> records[o].balance,
             end |-> records[o].time + 6 * records[o].tier * Month]
      BY <1>1, <3>1 DEF DelayedLocked
    <3> QED
      BY <1>1, <3>1, <3>2 DEF DelayedKnown
  <2> QED
    BY <1>5, <2>1, <2>2 DEF None
<1>8. DelayedLocked' /\ DelayedKnown'
  BY <1>1, <1>7 DEF DelayedLocked, DelayedKnown
<1> QED
  BY <1>3, <1>6, <1>8 DEF ClaimInv

(* A delayed claim puts its destination under the schedule of its tier; an *)
(* account already under one refuses.                                      *)
LEMMA MsgDelayedClaimStep ==
  ASSUME ClaimInv, NEW old \in OldAddrs, NEW dest \in Dests \cup {Module},
         NEW tier \in Chosen, MsgDelayedClaim(old, dest, tier)
  PROVE  ClaimInv'
<1>1. TypeOK /\ DelayedLocked /\ DelayedKnown
  BY DEF ClaimInv
<1>2. ProcessClaim(old, dest, tier) /\ CreateDelayedAccount(dest, records[old].balance, tier)
  BY DEF MsgDelayedClaim
<1>3. tier \in 1..5 /\ tier \in 0..5 /\ Month \in Nat /\ Second \in Nat \ {0}
  BY ConstantsAssumption DEF Tiers
<1>4. /\ records' \in [OldAddrs -> Record]
      /\ records'[old] = Processed(records[old], dest, tier)
      /\ \A o \in OldAddrs : o # old => records'[o] = records[o]
      /\ bank' \in [Holders -> Nat]
      /\ Solvent' /\ PaidOnce'
  BY <1>2, <1>3, PayClaim
<1>5. /\ records'[old].tier = tier /\ records'[old].dest = dest
      /\ records'[old].time = now \div Second
      /\ records'[old].balance = records[old].balance
      /\ records[old].balance \in Nat
  <2>1. records[old] \in Record
    BY <1>1 DEF TypeOK
  <2> QED
    BY <1>4, <2>1 DEF Processed, Record
<1>6. now \div Second \in Nat
  <2>1. now \in Nat
    BY <1>1 DEF TypeOK
  <2> QED
    BY <1>3, <2>1
<1> DEFINE end == now \div Second + tier * 6 * Month
           acc == [kind |-> "vesting", original |-> records[old].balance, end |-> end]
<1>7. end \in Nat /\ end = now \div Second + 6 * tier * Month
  <2> DEFINE t == now \div Second
  <2>1. t \in Nat
    BY <1>6
  <2> HIDE DEF t
  <2>2. t + tier * 6 * Month \in Nat /\ t + tier * 6 * Month = t + 6 * tier * Month
    BY <1>3, <2>1, SMT
  <2> QED
    BY <2>2 DEF t
<1>8. /\ dest \in Dests /\ accounts[dest].kind # "vesting"
      /\ accounts' = [accounts EXCEPT ![dest] = acc]
  BY <1>2 DEF CreateDelayedAccount, Schedulable, None
<1> HIDE DEF end
<1>9. accounts' \in [Dests -> Account]
  <2>1. acc \in Account
    BY <1>5, <1>7 DEF Account
  <2> QED
    BY <1>1, <1>8, <2>1 DEF TypeOK
<1>10. TypeOK'
  BY <1>1, <1>2, <1>4, <1>9 DEF TypeOK, ProcessClaim
<1>11. ASSUME NEW o \in OldAddrs, records'[o].tier > 0
       PROVE  /\ records'[o].dest \in Dests
              /\ accounts'[records'[o].dest] =
                   [kind |-> "vesting", original |-> records'[o].balance,
                    end |-> records'[o].time + 6 * records'[o].tier * Month]
  <2>1. CASE o = old
    <3>1. accounts'[dest] = acc
      BY <1>1, <1>8 DEF TypeOK
    <3> QED
      BY <1>5, <1>7, <1>8, <2>1, <3>1
  <2>2. CASE o # old
    <3>1. records'[o] = records[o]
      BY <1>4, <2>2
    <3>2. records[o].dest \in Dests
          /\ accounts[records[o].dest] =
               [kind |-> "vesting", original |-> records[o].balance,
                end |-> records[o].time + 6 * records[o].tier * Month]
      BY <1>1, <1>11, <3>1 DEF DelayedKnown, DelayedLocked
    <3>3. records[o].dest # dest
      BY <1>8, <3>2
    <3>4. accounts'[records[o].dest] = accounts[records[o].dest]
      BY <1>1, <1>8, <3>2, <3>3 DEF TypeOK
    <3> QED
      BY Zenon, <3>1, <3>2, <3>4
  <2> QED
    BY Zenon, <2>1, <2>2
<1>12. DelayedLocked' /\ DelayedKnown'
  BY Zenon, <1>11 DEF DelayedLocked, DelayedKnown
<1> QED
  BY <1>4, <1>10, <1>12 DEF ClaimInv

(* Coins sent to the module account only add to what it holds.             *)
LEMMA DepositStep ==
  ASSUME ClaimInv, Deposit(1)
  PROVE  ClaimInv'
<1>1. TypeOK /\ Solvent /\ PaidOnce /\ DelayedLocked /\ DelayedKnown
  BY DEF ClaimInv
<1>2. /\ Module \in Holders /\ Outside \in Holders /\ Dests \subseteq Holders
      /\ Module # Outside /\ Module \notin Dests /\ Outside \notin Dests
      /\ bank \in [Holders -> Nat]
  BY <1>1, ConstantsAssumption DEF Holders, TypeOK
<1>3. /\ bank[Outside] >= 1
      /\ bank' = [[bank EXCEPT ![Outside] = @ - 1] EXCEPT ![Module] = @ + 1]
      /\ UNCHANGED <<params, records, blockClaims, accounts, burned, now>>
  BY DEF Deposit, Send
<1>4. /\ bank' \in [Holders -> Nat] /\ bank'[Module] = bank[Module] + 1
      /\ \A d \in Dests : bank'[d] = bank[d]
  BY <1>2, <1>3
<1>5. TypeOK'
  BY <1>1, <1>3, <1>4 DEF TypeOK
<1>6. Solvent'
  <2>1. Balances(Unclaimed)' = Balances(Unclaimed) /\ burned' = burned
    BY <1>3 DEF Balances, Unclaimed
  <2>2. Balances(Unclaimed) \in Nat /\ bank[Module] \in Nat
    BY <1>1, <1>2, BalanceSums DEF Unclaimed
  <2> QED
    BY <1>1, <1>4, <2>1, <2>2 DEF Solvent
<1>7. PaidOnce'
  BY Zenon, <1>1, <1>3, <1>4 DEF PaidOnce, Balances, ClaimedTo
<1>8. DelayedLocked' /\ DelayedKnown'
  BY <1>1, <1>3 DEF DelayedLocked, DelayedKnown
<1> QED
  BY <1>5, <1>6, <1>7, <1>8 DEF ClaimInv

(* The end of a block burns the whole balance or leaves it alone.          *)
LEMMA EndBlockStep ==
  ASSUME ClaimInv, NEW p \in Params, NEW step \in 1..MaxStep, EndBlock(p, step)
  PROVE  ClaimInv'
<1>1. TypeOK /\ Solvent /\ PaidOnce /\ DelayedLocked /\ DelayedKnown
  BY DEF ClaimInv
<1>2. /\ Module \in Holders /\ Dests \subseteq Holders /\ Module \notin Dests
      /\ bank \in [Holders -> Nat] /\ burned \in Nat
  BY <1>1, ConstantsAssumption DEF Holders, TypeOK
<1>3. EndBlocker(p) /\ blockClaims' = 0 /\ now' = Min({now + step, MaxTime})
      /\ UNCHANGED <<records, accounts>>
  BY DEF EndBlock
<1>4. now' \in Nat
  <2>1. now + step \in Nat /\ MaxTime \in Nat
    BY <1>1, ConstantsAssumption DEF TypeOK
  <2> QED
    BY <1>3, <2>1, MinOfTwo
<1>5. /\ params' \in Params
      /\ \/ bank' = [bank EXCEPT ![Module] = 0] /\ burned' = burned + bank[Module]
         \/ bank' = bank /\ burned' = burned
  BY Zenon, <1>3 DEF EndBlocker, Params
<1>6. bank' \in [Holders -> Nat] /\ burned' \in Nat /\ \A d \in Dests : bank'[d] = bank[d]
  BY <1>2, <1>5
<1>7. TypeOK'
  BY <1>1, <1>3, <1>4, <1>5, <1>6 DEF TypeOK
<1>8. Solvent'
  <2>1. Balances(Unclaimed)' = Balances(Unclaimed)
    BY <1>3 DEF Balances, Unclaimed
  <2>2. Balances(Unclaimed) \in Nat /\ bank[Module] \in Nat /\ bank'[Module] \in Nat
    BY <1>1, <1>2, <1>6, BalanceSums DEF Unclaimed
  <2>3. burned' = 0 => burned = 0 /\ bank'[Module] = bank[Module]
    BY <1>2, <1>5, <2>2
  <2> QED
    BY <1>1, <2>1, <2>2, <2>3 DEF Solvent
<1>9. PaidOnce'
  BY <1>1, <1>3, <1>6 DEF PaidOnce, Balances, ClaimedTo
<1>10. DelayedLocked' /\ DelayedKnown'
  BY <1>1, <1>3 DEF DelayedLocked, DelayedKnown
<1> QED
  BY <1>7, <1>8, <1>9, <1>10 DEF ClaimInv

(* Every message and every block keeps the invariant.                      *)
LEMMA ClaimNext == ClaimInv /\ [Next]_vars => ClaimInv'
<1> SUFFICES ASSUME ClaimInv, [Next]_vars PROVE ClaimInv'
  OBVIOUS
<1>1. ASSUME NEW old \in OldAddrs, NEW dest \in Dests \cup {Module}, MsgClaim(old, dest)
      PROVE  ClaimInv'
  BY <1>1, MsgClaimStep
<1>2. ASSUME NEW old \in OldAddrs, NEW dest \in Dests \cup {Module}, NEW tier \in Chosen,
             MsgDelayedClaim(old, dest, tier)
      PROVE  ClaimInv'
  BY <1>2, MsgDelayedClaimStep
<1>3. CASE Deposit(1)
  BY <1>3, DepositStep
<1>4. CASE NextBlock
  <2>1. params \in Params
    BY DEF ClaimInv, TypeOK
  <2> QED
    BY <1>4, <2>1, EndBlockStep DEF NextBlock
<1>5. CASE UpdateParams
  <2>1. GovParams \subseteq Params
    BY ConstantsAssumption
  <2> QED
    BY <1>5, <2>1, EndBlockStep DEF UpdateParams
<1>6. CASE UNCHANGED vars
  BY <1>6 DEF vars, ClaimInv, TypeOK, Solvent, PaidOnce, DelayedLocked, DelayedKnown,
              Balances, Unclaimed, ClaimedTo
<1> QED
  BY <1>1, <1>2, <1>3, <1>4, <1>5, <1>6 DEF Next

(* Every reachable state of x/claim satisfies the inductive invariant.     *)
THEOREM ClaimInvariance == Spec => []ClaimInv
<1> QED
  BY ClaimInit, ClaimNext, PTL DEF Spec

(* No order of claims, duplicate rows or parameter changes leaves a holder *)
(* without coins before the burn.                                          *)
THEOREM ClaimsCovered == Spec => []Solvent
<1>1. ClaimInv => Solvent
  BY DEF ClaimInv
<1> QED
  BY <1>1, ClaimInvariance, PTL

(* A destination received exactly the balances of the records claimed to   *)
(* it: no record pays twice.                                               *)
THEOREM ClaimsPaidOnce == Spec => []PaidOnce
<1>1. ClaimInv => PaidOnce
  BY DEF ClaimInv
<1> QED
  BY <1>1, ClaimInvariance, PTL

(* A delayed claim stays under the schedule of its tier.                   *)
THEOREM ClaimsLocked == Spec => []DelayedLocked
<1>1. ClaimInv => DelayedLocked
  BY DEF ClaimInv
<1> QED
  BY <1>1, ClaimInvariance, PTL

-----------------------------------------------------------------------------
(* Multiplication by a natural keeps the order, and can be undone.         *)
LEMMA MulOrder ==
  ASSUME NEW a \in Nat, NEW x \in Int, NEW y \in Int
  PROVE  /\ x <= y => a * x <= a * y
         /\ a # 0 /\ a * x <= a * y => x <= y
         /\ a # 0 /\ a * x < a * y => x < y
<1>1. \A i, j \in Int : i <= j => a * i <= a * j
  <2> SUFFICES ASSUME NEW i \in Int, NEW j \in Int, i <= j PROVE a * i <= a * j
    OBVIOUS
  <2>1. j - i \in Nat /\ a * (j - i) \in Nat
    OBVIOUS
  <2>2. a * j = a * i + a * (j - i)
    OBVIOUS
  <2> QED
    BY <2>1, <2>2
<1>2. a # 0 => \A i, j \in Int : i < j => a * i < a * j
  <2> SUFFICES ASSUME a # 0, NEW i \in Int, NEW j \in Int, i < j PROVE a * i < a * j
    OBVIOUS
  <2>1. i + 1 <= j /\ i + 1 \in Int
    OBVIOUS
  <2>2. a * (i + 1) <= a * j
    BY <1>1, <2>1
  <2>3. a * (i + 1) = a * i + a /\ a * i \in Int /\ a * j \in Int
    OBVIOUS
  <2> QED
    BY <2>2, <2>3
<1>3. a * x \in Int /\ a * y \in Int
  OBVIOUS
<1> QED
  BY <1>1, <1>2, <1>3

(* LegacyDec.Quo is off by at most half a fraction, in either direction.   *)
LEMMA QuoBounds ==
  ASSUME NEW a \in Nat, NEW b \in Nat \ {0}
  PROVE  /\ Quo(a, b) \in Nat
         /\ (2 * b) * Quo(a, b) <= (2 * Precision) * a + b
         /\ (2 * Precision) * a <= (2 * b) * Quo(a, b) + b
<1> DEFINE x == a * Precision
           q == x \div b
           r == x % b
<1>1. Precision \in Nat \ {0} /\ x \in Nat
  BY RewardAssumption
<1>2. (2 * Precision) * a = 2 * x
  BY <1>1
<1>3. Quo(a, b) = IF 2 * r > b \/ (2 * r = b /\ q % 2 = 1) THEN q + 1 ELSE q
  BY DEF Quo
<1> HIDE DEF x
<1>4. q \in Nat /\ r \in 0..(b - 1) /\ x = b * q + r
  BY <1>1, SMT
<1> HIDE DEF q, r
<1>5. (2 * b) * q = 2 * (b * q) /\ (2 * b) * (q + 1) = 2 * (b * q) + 2 * b /\ b * q \in Nat
  BY <1>4
<1>6. CASE 2 * r > b \/ (2 * r = b /\ q % 2 = 1)
  <2>1. Quo(a, b) = q + 1 /\ 2 * r >= b
    BY <1>3, <1>4, <1>6
  <2>2. 2 * (b * q) + 2 * b <= 2 * x + b /\ 2 * x <= (2 * (b * q) + 2 * b) + b
    BY <1>1, <1>4, <1>5, <2>1
  <2> QED
    BY <1>2, <1>4, <1>5, <2>1, <2>2
<1>7. CASE ~(2 * r > b \/ (2 * r = b /\ q % 2 = 1))
  <2>1. Quo(a, b) = q /\ 2 * r <= b
    BY <1>3, <1>4, <1>7
  <2>2. 2 * (b * q) <= 2 * x + b /\ 2 * x <= 2 * (b * q) + b
    BY <1>1, <1>4, <1>5, <2>1
  <2> QED
    BY <1>2, <1>4, <1>5, <2>1, <2>2
<1> QED
  BY <1>6, <1>7

(* The weights are naturals, and no candidate weighs nothing.              *)
LEMMA WeightTypes ==
  ASSUME RewardTypeOK, NEW n \in Nodes
  PROVE  /\ SmoothedBytes(n) \in Nat /\ Weight(n) \in Nat
         /\ n \in Candidates => Weight(n) >= 1
<1>1. /\ metrics[n].bytes \in Nat /\ dist[n].prevRaw \in Nat
      /\ dist[n].smoothed \in Nat /\ dist[n].periods \in Nat
  BY DEF RewardTypeOK
<1>2. GrowthCapPercent \in Nat /\ SmoothingPeriods \in Nat \ {0} /\ RampUpPeriods \in Nat
      /\ MinBytes \in Nat \ {0}
  BY RewardAssumption
<1>3. CappedBytes(n) \in Nat
  <2> DEFINE m == (dist[n].prevRaw * (100 + GrowthCapPercent)) \div 100
  <2>1. m \in Nat
    <3>1. dist[n].prevRaw * (100 + GrowthCapPercent) \in Nat
      BY <1>1, <1>2
    <3> QED
      BY <3>1
  <2> HIDE DEF m
  <2>2. Min({metrics[n].bytes, m}) \in Nat
    BY <1>1, <2>1, MinOfTwo
  <2> QED
    BY <1>1, <2>2 DEF CappedBytes, applyGrowthCap, m
<1>4. SmoothedBytes(n) \in Nat
  <2>1. 2 * CappedBytes(n) + (SmoothingPeriods - 1) * dist[n].smoothed \in Nat
    <3> DEFINE s == SmoothingPeriods - 1
    <3>1. s \in Nat
      BY <1>2
    <3> HIDE DEF s
    <3>2. 2 * CappedBytes(n) + s * dist[n].smoothed \in Nat
      BY <1>1, <1>3, <3>1
    <3> QED
      BY <3>2 DEF s
  <2>2. SmoothingPeriods + 1 \in Nat \ {0}
    BY <1>2
  <2> DEFINE u == 2 * CappedBytes(n) + (SmoothingPeriods - 1) * dist[n].smoothed
             v == SmoothingPeriods + 1
  <2> HIDE DEF u, v
  <2>3. u \div v \in Nat
    BY <2>1, <2>2 DEF u, v
  <2> QED
    BY <1>3, <2>3 DEF SmoothedBytes, applyEMA, u, v
<1>5. computeRampUpWeight(dist[n].periods) \in Nat \ {0}
  BY <1>1, <1>2 DEF computeRampUpWeight
<1>6. \A s \in Nat, k \in Nat \ {0} : s * k \in Nat /\ (s >= 1 => s * k >= 1)
  <2> SUFFICES ASSUME NEW s \in Nat, NEW k \in Nat \ {0}
               PROVE  s * k \in Nat /\ (s >= 1 => s * k >= 1)
    OBVIOUS
  <2>1. s * k \in Nat
    OBVIOUS
  <2>2. s * 1 <= s * k
    BY MulOrder
  <2> QED
    BY <2>1, <2>2
<1>7. n \in Candidates => SmoothedBytes(n) >= 1
  BY <1>2, <1>4 DEF Candidates
<1> QED
  BY <1>4, <1>5, <1>6, <1>7 DEF Weight

(* The payouts of a distribution are at most the pool and leave at most    *)
(* one coin for each candidate.                                            *)
LEMMA PayoutBounds ==
  ASSUME RewardTypeOK, Candidates # {}
  PROVE  /\ TotalPayout \in Nat /\ TotalPayout <= pool
         /\ Cardinality(Candidates) \in Nat
         /\ pool - TotalPayout <= Cardinality(Candidates)
<1> DEFINE S == Candidates
           k == Cardinality(S)
           weight == [n \in Nodes |-> Weight(n)]
           W == TotalWeight
           share == [n \in Nodes |-> Quo(Weight(n), W)]
           pay == [n \in Nodes |-> Payout(n)]
           Q == SumFunctionOnSet(share, S)
           T == TotalPayout
<1>1. S \subseteq Nodes
  BY DEF Candidates, Considered, RewardTypeOK
<1>2. IsFiniteSet(Nodes) /\ IsFiniteSet(S) /\ k \in Nat /\ k <= Cardinality(Nodes)
      /\ Cardinality(Nodes) \in Nat
  BY <1>1, RewardAssumption, FS_Subset, FS_CardinalityType
<1>3. Precision \in Nat \ {0} /\ pool \in Nat /\ pool <= MaxPool /\ MaxPool \in Nat
  BY RewardAssumption DEF RewardTypeOK
<1>4. pool * k < 2 * Precision
  <2> DEFINE N == Cardinality(Nodes)
  <2>1. N \in Nat /\ k <= N
    BY <1>2
  <2> HIDE DEF N, k
  <2>2. pool * k <= pool * N
    BY <1>2, <1>3, <2>1, MulOrder
  <2>3. N * pool <= N * MaxPool
    BY <1>3, <2>1, MulOrder
  <2>4. N * pool = pool * N /\ N * MaxPool = MaxPool * N /\ pool * k \in Nat
        /\ pool * N \in Nat /\ MaxPool * N \in Nat
    BY <1>2, <1>3, <2>1
  <2>5. MaxPool * N < 2 * Precision
    BY RewardAssumption DEF N
  <2> QED
    BY <1>3, <2>2, <2>3, <2>4, <2>5
<1>5. \A n \in S : weight[n] = Weight(n) /\ weight[n] \in Nat /\ weight[n] >= 1
  BY <1>1, WeightTypes
<1>6. W \in Nat \ {0} /\ W = SumFunctionOnSet(weight, S)
  <2>1. W = SumFunctionOnSet(weight, S)
    BY DEF TotalWeight
  <2> HIDE DEF weight, W, S
  <2>2. W \in Nat
    BY <1>2, <1>5, <2>1, SumNat
  <2>3. PICK n \in S : TRUE
    BY DEF S
  <2>4. W = weight[n] + SumFunctionOnSet(weight, S \ {n})
    BY <1>2, <1>5, <2>1, SumRemove
  <2>5. SumFunctionOnSet(weight, S \ {n}) \in Nat
    <3>1. IsFiniteSet(S \ {n})
      BY <1>2, FS_Subset
    <3> QED
      BY <1>5, <3>1, SumNat
  <2>6. W # 0
    BY <1>5, <2>3, <2>4, <2>5
  <2> QED
    BY <2>1, <2>2, <2>6
<1>7. \A n \in S : /\ share[n] = Quo(Weight(n), W) /\ share[n] \in Nat
                   /\ (2 * W) * share[n] <= (2 * Precision) * weight[n] + W
                   /\ (2 * Precision) * weight[n] <= (2 * W) * share[n] + W
  <2> HIDE DEF W, weight
  <2> QED
    BY Zenon, <1>1, <1>5, <1>6, QuoBounds
<1>8. \A n \in S : /\ pay[n] \in Nat
                   /\ Precision * pay[n] <= pool * share[n] + 0
                   /\ pool * share[n] <= Precision * pay[n] + (Precision - 1)
  <2> SUFFICES ASSUME NEW n \in S
               PROVE  /\ pay[n] \in Nat
                      /\ Precision * pay[n] <= pool * share[n] + 0
                      /\ pool * share[n] <= Precision * pay[n] + (Precision - 1)
    BY Zenon
  <2>1. pay[n] = (pool * share[n]) \div Precision
    BY <1>1, <1>7 DEF Payout
  <2> DEFINE x == pool * share[n]
             q == x \div Precision
             r == x % Precision
  <2>2. x \in Nat
    <3>1. share[n] \in Nat
      BY Zenon, <1>7
    <3> HIDE DEF share
    <3> QED
      BY <1>3, <3>1
  <2>3. pay[n] = q
    BY <2>1
  <2> HIDE DEF x, pay
  <2>4. q \in Nat /\ r \in 0..(Precision - 1) /\ x = Precision * q + r
    BY <1>3, <2>2, SMT
  <2> HIDE DEF q, r
  <2>5. Precision * q \in Nat
    BY <1>3, <2>4
  <2>6. Precision * q <= x + 0 /\ x <= Precision * q + (Precision - 1)
    BY <1>3, <2>4, <2>5
  <2> QED
    BY <2>3, <2>4, <2>6 DEF x
<1> HIDE DEF share, pay, weight, W, S
<1>9. Q \in Nat
  BY <1>2, <1>7, SumNat
<1>10. T = SumFunctionOnSet(pay, S) /\ T \in Nat
  <2>1. T = SumFunctionOnSet(pay, S)
    BY DEF TotalPayout, pay, S
  <2> QED
    BY <1>2, <1>8, <2>1, SumNat
<1> HIDE DEF T, Q, k
<1>11. 2 * W \in Nat /\ 2 * Precision \in Nat /\ W \in Nat /\ 0 \in Nat
       /\ Precision - 1 \in Nat /\ Precision \in Nat
  BY <1>3, <1>6
<1>12. (2 * W) * Q <= (2 * Precision) * W + W * k
  BY Zenon, <1>2, <1>5, <1>6, <1>7, <1>11, SumBound DEF Q, k
<1>13. (2 * Precision) * W <= (2 * W) * Q + W * k
  BY Zenon, <1>2, <1>5, <1>6, <1>7, <1>11, SumBound DEF Q, k
<1>14. Precision * T <= pool * Q + 0 * k
  BY Zenon, <1>2, <1>3, <1>7, <1>8, <1>10, <1>11, SumBound DEF Q, k
<1>15. pool * Q <= Precision * T + (Precision - 1) * k
  BY Zenon, <1>2, <1>3, <1>7, <1>8, <1>10, <1>11, SumBound DEF Q, k
<1>16. 2 * Q <= 2 * Precision + k /\ 2 * Precision <= 2 * Q + k
  <2>1. (2 * W) * Q = W * (2 * Q) /\ (2 * Precision) * W + W * k = W * (2 * Precision + k)
        /\ (2 * Precision) * W = W * (2 * Precision) /\ (2 * W) * Q + W * k = W * (2 * Q + k)
    BY <1>2, <1>3, <1>6, <1>9
  <2>2. W * (2 * Q) <= W * (2 * Precision + k) /\ W * (2 * Precision) <= W * (2 * Q + k)
    BY <1>12, <1>13, <2>1
  <2>3. 2 * Q \in Int /\ 2 * Precision + k \in Int /\ 2 * Precision \in Int /\ 2 * Q + k \in Int
    BY <1>2, <1>3, <1>9
  <2> QED
    BY <1>6, <2>2, <2>3, MulOrder
<1>17. pool * (2 * Q) <= pool * (2 * Precision + k) /\ pool * (2 * Precision) <= pool * (2 * Q + k)
  <2>1. 2 * Q \in Int /\ 2 * Precision + k \in Int /\ 2 * Precision \in Int /\ 2 * Q + k \in Int
    BY <1>2, <1>3, <1>9
  <2> QED
    BY <1>3, <1>16, <2>1, MulOrder
<1> DEFINE pq == pool * Q
           pp == pool * Precision
           pk == pool * k
           pt == Precision * T
           qk == Precision * k
<1>18. pq \in Nat /\ pp \in Nat /\ pk \in Nat /\ pt \in Nat /\ qk \in Nat
  BY <1>2, <1>3, <1>9, <1>10
<1>19. /\ 2 * pq <= 2 * pp + pk /\ 2 * pp <= 2 * pq + pk
       /\ pt <= pq /\ pq <= pt + (qk - k) /\ pk < 2 * Precision
  <2>1. pool * (2 * Q) = 2 * pq /\ pool * (2 * Precision + k) = 2 * pp + pk
        /\ pool * (2 * Precision) = 2 * pp /\ pool * (2 * Q + k) = 2 * pq + pk
    BY <1>2, <1>3, <1>9
  <2>2. 0 * k = 0 /\ (Precision - 1) * k = qk - k
    BY <1>2, <1>3
  <2>3. pool * Q + 0 * k = pq
    BY <1>18, <2>2
  <2> QED
    BY <1>4, <1>14, <1>15, <1>17, <2>1, <2>2, <2>3
<1> HIDE DEF pq, pp, pk, pt, qk
<1>20. 2 * pt < 2 * pp + 2 * Precision /\ 2 * pp < 2 * pt + 2 * qk + 2 * Precision
  BY <1>2, <1>3, <1>18, <1>19
<1>21. Precision * T < Precision * (pool + 1) /\ Precision * pool < Precision * (T + k + 1)
  <2>1. pt < pp + Precision /\ pp < pt + qk + Precision
    BY <1>3, <1>18, <1>20
  <2>2. Precision * T = pt /\ Precision * (pool + 1) = pp + Precision
        /\ Precision * pool = pp /\ Precision * (T + k + 1) = pt + qk + Precision
    BY <1>2, <1>3, <1>10 DEF pp, pt, qk
  <2> QED
    BY <2>1, <2>2
<1>22. T < pool + 1 /\ pool < T + k + 1
  <2>1. pool + 1 \in Int /\ T + k + 1 \in Int
    BY <1>2, <1>3, <1>10
  <2> QED
    BY <1>3, <1>10, <1>21, <2>1, MulOrder
<1>23. T \in Nat /\ T <= pool /\ pool - T <= k
  BY <1>2, <1>3, <1>10, <1>22
<1> QED
  BY <1>2, <1>23 DEF T, k, S

(* What a step of the reward pool does: an EndBlocker that distributes     *)
(* leaves only dust.                                                       *)
DustStep == RewardEndBlocker /\ Due /\ Candidates # {} => pool' <= Cardinality(Candidates)

(* The reward pool's inductive invariant.                                  *)
RewardInv == RewardTypeOK /\ NeverHalts

(* The empty pool covers its payouts before the first fee arrives.         *)
LEMMA RewardInit == InitRewards => RewardInv
<1> SUFFICES ASSUME InitRewards PROVE RewardInv
  OBVIOUS
<1>1. NoReport \in [bytes : Nat, age : Nat]
      /\ NoState \in [smoothed : Nat, prevRaw : Nat, periods : Nat]
  BY RewardAssumption DEF NoReport, NoState
<1>2. PaymentPeriod - 1 \in Nat /\ 0 \in 0..MaxPool
  BY RewardAssumption
<1> QED
  BY Zenon, <1>1, <1>2 DEF InitRewards, RewardInv, RewardTypeOK, NeverHalts

(* A due distribution.                                                     *)
LEMMA DistributeStep ==
  ASSUME RewardInv, distributePool
  PROVE  /\ dist' \in [Nodes -> [smoothed : Nat, prevRaw : Nat, periods : Nat]]
         /\ pool' \in 0..MaxPool /\ halted' = FALSE
         /\ Candidates # {} => pool' <= Cardinality(Candidates)
<1>1. RewardTypeOK /\ halted = FALSE
  BY DEF RewardInv, RewardTypeOK, NeverHalts
<1>2. pool \in Nat /\ pool \in 0..MaxPool /\ MaxPool \in Nat
      /\ dist \in [Nodes -> [smoothed : Nat, prevRaw : Nat, periods : Nat]]
  BY <1>1, RewardAssumption DEF RewardTypeOK
<1>3. /\ TotalPayout \in Nat /\ TotalPayout <= pool
      /\ Candidates # {} => /\ Cardinality(Candidates) \in Nat
                            /\ pool - TotalPayout <= Cardinality(Candidates)
  <2>1. CASE Candidates = {}
    <3>1. TotalPayout = 0
      BY <2>1, SumEmpty DEF TotalPayout
    <3> QED
      BY <1>2, <2>1, <3>1
  <2> QED
    BY <1>1, <2>1, PayoutBounds
<1>4. CASE pool = 0
  <2>1. UNCHANGED <<dist, pool, halted>>
    BY <1>4 DEF distributePool
  <2> QED
    BY <1>1, <1>2, <1>3, <1>4, <2>1
<1>5. CASE pool # 0
  <2>1. dist' = UpdatedStates /\ pool' = pool - TotalPayout /\ halted' = halted
    BY <1>2, <1>3, <1>5 DEF distributePool
  <2>2. UpdatedStates \in [Nodes -> [smoothed : Nat, prevRaw : Nat, periods : Nat]]
    <3>1. ASSUME NEW n \in Nodes
          PROVE  /\ SmoothedBytes(n) \in Nat /\ metrics[n].bytes \in Nat
                 /\ Min({dist[n].periods + 1, RampUpPeriods}) \in Nat
                 /\ dist[n] \in [smoothed : Nat, prevRaw : Nat, periods : Nat]
      <4>1. SmoothedBytes(n) \in Nat
        BY <1>1, WeightTypes
      <4>2. metrics[n].bytes \in Nat
        BY <1>1 DEF RewardTypeOK
      <4>3. dist[n].periods + 1 \in Nat /\ RampUpPeriods \in Nat
        BY <1>2, RewardAssumption
      <4>4. Min({dist[n].periods + 1, RampUpPeriods}) \in Nat
        BY <4>3, MinOfTwo
      <4> QED
        BY <1>2, <4>1, <4>2, <4>4
    <3> QED
      BY Zenon, <3>1 DEF UpdatedStates
  <2>3. pool - TotalPayout \in 0..MaxPool
    BY <1>2, <1>3
  <2> QED
    BY <1>1, <1>3, <2>1, <2>2, <2>3
<1> QED
  BY Zenon, <1>4, <1>5

(* Every step keeps the invariant, and a distribution leaves only dust.    *)
LEMMA RewardNext ==
  RewardInv /\ [NextRewards]_rewardVars => RewardInv' /\ [DustStep]_rewardVars
<1> SUFFICES ASSUME RewardInv, [NextRewards]_rewardVars
             PROVE  RewardInv' /\ [DustStep]_rewardVars
  OBVIOUS
<1>1. RewardTypeOK /\ halted = FALSE
  BY DEF RewardInv, RewardTypeOK, NeverHalts
<1>2. ASSUME RewardEndBlocker PROVE RewardInv' /\ DustStep
  <2>1. metrics' \in [Nodes -> [bytes : Nat, age : Nat]]
    <3>1. NoReport \in [bytes : Nat, age : Nat]
      BY RewardAssumption DEF NoReport
    <3>2. \A n \in Nodes : [metrics[n] EXCEPT !.age = @ + 1] \in [bytes : Nat, age : Nat]
      BY <1>1 DEF RewardTypeOK
    <3>3. metrics' = [n \in Nodes |-> IF metrics[n].age >= Freshness THEN NoReport
                                      ELSE [metrics[n] EXCEPT !.age = @ + 1]]
      BY <1>2 DEF RewardEndBlocker
    <3> QED
      BY <3>1, <3>2, <3>3
  <2>2. CASE Due
    <3>1. distributePool /\ since' = 0 /\ rewarded' = rewarded
      BY <1>2, <2>2 DEF RewardEndBlocker
    <3>2. /\ dist' \in [Nodes -> [smoothed : Nat, prevRaw : Nat, periods : Nat]]
          /\ pool' \in 0..MaxPool /\ halted' = FALSE
          /\ Candidates # {} => pool' <= Cardinality(Candidates)
      BY <3>1, DistributeStep
    <3> QED
      BY Zenon, <1>1, <2>1, <3>1, <3>2 DEF RewardInv, RewardTypeOK, NeverHalts, DustStep
  <2>3. CASE ~Due
    <3>1. since' = since + 1 /\ UNCHANGED <<dist, pool, halted, rewarded>>
      BY <1>2, <2>3 DEF RewardEndBlocker
    <3> QED
      BY <1>1, <2>1, <2>3, <3>1 DEF RewardInv, RewardTypeOK, NeverHalts, DustStep
  <2> QED
    BY <2>2, <2>3
<1>3. DustStep
  BY <1>2 DEF DustStep
<1>4. ASSUME NEW n \in Nodes, StateChange(n) PROVE RewardInv'
  BY <1>1, <1>4 DEF StateChange, RewardInv, RewardTypeOK, NeverHalts
<1>5. ASSUME NEW n \in Nodes, NEW b \in Bytes, Report(n, b) PROVE RewardInv'
  <2>1. b \in Nat
    BY RewardAssumption
  <2> QED
    BY <1>1, <1>5, <2>1 DEF Report, RewardInv, RewardTypeOK, NeverHalts
<1>6. ASSUME NEW a \in Deposits, FeeShare(a) PROVE RewardInv'
  <2>1. a \in Nat /\ MaxPool \in Nat
    BY RewardAssumption
  <2> QED
    BY <1>1, <1>6, <2>1 DEF FeeShare, RewardInv, RewardTypeOK, NeverHalts
<1>7. CASE UNCHANGED rewardVars
  BY <1>1, <1>7 DEF rewardVars, RewardInv, RewardTypeOK, NeverHalts
<1> QED
  BY <1>2, <1>3, <1>4, <1>5, <1>6, <1>7 DEF NextRewards

(* Every reachable state of the reward pool is typed and no EndBlocker has *)
(* failed.                                                                 *)
THEOREM RewardInvariance == SpecRewards => []RewardInv
<1> QED
  BY RewardInit, RewardNext, PTL DEF SpecRewards

(* For any number of nodes, any weights and any precision that is fine     *)
(* enough for the coins there are, the payouts never exceed the pool: the  *)
(* EndBlocker never stops the chain.                                       *)
THEOREM PoolCovers == SpecRewards => []NeverHalts
<1>1. RewardInv => NeverHalts
  BY DEF RewardInv
<1> QED
  BY <1>1, RewardInvariance, PTL

(* A distribution pays out all but at most one coin for each candidate.    *)
THEOREM DustCorrect == SpecRewards => DustOnly
<1>1. SpecRewards => [][DustStep]_rewardVars
  BY RewardNext, RewardInvariance, PTL DEF SpecRewards
<1> QED
  BY <1>1 DEF DustOnly, DustStep
=============================================================================
