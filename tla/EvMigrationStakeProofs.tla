---------------------- MODULE EvMigrationStakeProofs ----------------------
(***************************************************************************)
(* Proofs about EvMigration for any addresses and any stake, where no      *)
(* destination had stake of its own before (EarlyStakers is empty):        *)
(* delegations, entries and shares move as they are, no coin is lost, and  *)
(* nothing stays behind at the address migrated from.                      *)
(***************************************************************************)
EXTENDS EvMigrationProofs

(* An address in use: a legacy one, or the destination of a migration.     *)
InUse(a) == a \in Legacy \/ byNew[a] # None

DistinctIds(E) == \A e, f \in E : e.id = f.id => e = f

StakeTypes ==
  /\ delegations \subseteq Addr \X Addr
  /\ entries \subseteq Entry
  /\ lastId \in 0..MaxEntries
  /\ tokens \in [Addr -> Nat]

(* Stake is held by addresses in use and lies with validators there are,   *)
(* and no two entries have the same UnbondingId.                           *)
StakeHeld ==
  /\ \A v \in Addr : validators[v] # None => InUse(v)
  /\ \A p \in delegations : InUse(p[1]) /\ validators[p[2]] # None
  /\ rewards \subseteq delegations
  /\ \A e \in entries : /\ InUse(e.del) /\ validators[e.src] # None
                        /\ e.dst # None => validators[e.dst] # None
                        /\ e.id <= lastId
  /\ DistinctIds(entries)

StakeInv == StakeTypes /\ StakeHeld /\ EntriesComplete /\ SharesConserved

(* Both migrations take the stake of l, and the stake that lies with l, to *)
(* n, each entry under its id.                                             *)
EntryMoved(e, l, n) ==
  [del |-> Moved(e.del, l, n), src |-> Moved(e.src, l, n), dst |-> Moved(e.dst, l, n), id |-> e.id]

(* No entry that has moved away from l names l.                            *)
LEMMA NothingMovedAt ==
  ASSUME NEW e, NEW l, NEW n, l # n
  PROVE  l \notin {EntryMoved(e, l, n).del, EntryMoved(e, l, n).src, EntryMoved(e, l, n).dst}
BY DEF EntryMoved, Moved

MovesStake(l, n) ==
  /\ delegations' = RekeyPairs(delegations, l, n)
  /\ entries' = {EntryMoved(e, l, n) : e \in entries}
  /\ byId' = entries' /\ entries' \subseteq completions'
  /\ lastId' = lastId
  /\ rewards' \subseteq {p \in rewards : p[1] # l /\ p[2] # l}
  /\ \A v \in Addr : validators'[v] = IF v = l THEN None ELSE IF v = n THEN validators[l] ELSE validators[v]
  /\ \A v \in Addr : tokens'[v] = IF v = l THEN 0 ELSE IF v = n THEN tokens[l] ELSE tokens[v]
  /\ tokens' \in [Addr -> Nat]

(* A rekeying of the entries of M, and what it leaves in the store, the    *)
(* index and the queue: each entry under its new keys.                     *)
Rekeys(E, Q, M, to) ==
  /\ E \subseteq Q /\ M \subseteq E
  /\ \A e, f \in E : e.id = f.id => e = f
  /\ \A e \in E : to[e].id = e.id
  /\ \A e \in E \ M : to[e] = e
  /\ \A e \in E \ M : \A f \in M : Key(e) # Key(to[f])

NewKeys(to, S) == {to[e] : e \in S}

Rekeyed(E, Q, N, F) ==
  /\ RekeyById(E, N) = F
  /\ F \subseteq RekeyQueue(Q, N)

(* It loses no entry: no new key was taken, no entry has another's id.     *)
LEMMA RekeyOnce ==
  ASSUME NEW E, NEW Q, NEW M, NEW to, Rekeys(E, Q, M, to)
  PROVE  /\ RekeyEntries(E, M, NewKeys(to, M)) = NewKeys(to, E)
         /\ Rekeyed(E, Q, NewKeys(to, M), NewKeys(to, E))
<1> USE DEF Rekeys
<1> DEFINE N == {to[e] : e \in M}
<1>1. {to[e] : e \in E} = (E \ M) \cup N
  OBVIOUS
<1>2. {e \in E \ M : \A x \in N : Key(e) # Key(x)} = E \ M
  OBVIOUS
<1>3. {b \in E : \A x \in N : b.id # x.id} = E \ M
  <2>1. \A e \in E : e \in M <=> \E f \in M : e.id = to[f].id
    OBVIOUS
  <2> QED BY <2>1
<1> HIDE DEF N
<1>4. RekeyEntries(E, M, N) = {to[e] : e \in E} /\ RekeyById(E, N) = {to[e] : e \in E}
  BY <1>1, <1>2, <1>3, Zenon DEF RekeyEntries, RekeyById
<1>5. {to[e] : e \in E} \subseteq RekeyQueue(Q, N)
  BY <1>1 DEF RekeyQueue
<1> QED BY <1>4, <1>5 DEF N, Rekeyed, NewKeys

ValidatorsMoved(E, l, n) == {ValidatorMoved(e, l, n) : e \in E}
DelegatorsMoved(E, l, n) == {DelegatorMoved(e, l, n) : e \in E}

(* V4: the entries that name validator l name n instead.                   *)
LEMMA RekeyOfValidator ==
  ASSUME NEW E \in SUBSET Entry, NEW Q, E \subseteq Q,
         DistinctIds(E),
         NEW l \in Legacy, NEW n \in New, \A e \in E : e.src # n /\ e.dst # n
  PROVE  LET M == OfValidator(E, l)
             N == ValidatorsMoved(M, l, n)
             F == ValidatorsMoved(E, l, n)
         IN  RekeyEntries(E, M, N) = F /\ Rekeyed(E, Q, N, F)
<1> DEFINE M  == OfValidator(E, l)
           to == [e \in E |-> ValidatorMoved(e, l, n)]
<1>0. l # n /\ M \subseteq E
  BY AddressAssumption DEF OfValidator
<1>1. \A e \in E : /\ to[e].id = e.id /\ to[e].src = Moved(e.src, l, n)
                   /\ to[e].dst = Moved(e.dst, l, n)
  BY Zenon DEF Entry, ValidatorMoved
<1>2. \A e \in E \ M : to[e] = e
  BY Zenon DEF Entry, ValidatorMoved, OfValidator, Moved
<1>3. \A e \in M : n \in {to[e].src, to[e].dst}
  BY <1>0, <1>1 DEF OfValidator, Moved
<1>4. \A e \in E \ M : \A f \in M : Key(e) # Key(to[f])
  BY <1>0, <1>3 DEF Key
<1>5. /\ NewKeys(to, M) = ValidatorsMoved(M, l, n)
      /\ NewKeys(to, E) = ValidatorsMoved(E, l, n)
  BY Zenon, <1>0 DEF NewKeys, ValidatorsMoved
<1> HIDE DEF to, M
<1>6. Rekeys(E, Q, M, to)
  BY <1>0, <1>1, <1>2, <1>4 DEF Rekeys, DistinctIds
<1>7. /\ RekeyEntries(E, M, NewKeys(to, M)) = NewKeys(to, E)
      /\ Rekeyed(E, Q, NewKeys(to, M), NewKeys(to, E))
  BY <1>6, RekeyOnce
<1> QED BY <1>5, <1>7 DEF M

(* MigrateStaking: the entries of delegator l are those of n.              *)
LEMMA RekeyOfDelegator ==
  ASSUME NEW E \in SUBSET Entry, NEW Q, E \subseteq Q,
         DistinctIds(E),
         NEW l \in Legacy, NEW n \in New, \A e \in E : e.del # n
  PROVE  LET M == OfDelegator(E, l)
             N == DelegatorsMoved(M, l, n)
             F == DelegatorsMoved(E, l, n)
         IN  RekeyEntries(E, M, N) = F /\ Rekeyed(E, Q, N, F)
<1> DEFINE M  == OfDelegator(E, l)
           to == [e \in E |-> DelegatorMoved(e, l, n)]
<1>0. l # n /\ M \subseteq E
  BY AddressAssumption DEF OfDelegator
<1>1. \A e \in E : to[e].id = e.id /\ to[e].del = Moved(e.del, l, n)
  BY DEF Entry, DelegatorMoved
<1>2. \A e \in E \ M : to[e] = e
  BY DEF Entry, DelegatorMoved, OfDelegator, Moved
<1>3. \A e \in M : to[e].del = n
  BY <1>0, <1>1 DEF OfDelegator, Moved
<1>4. \A e \in E \ M : \A f \in M : Key(e) # Key(to[f])
  BY <1>0, <1>3 DEF Key
<1>5. /\ NewKeys(to, M) = DelegatorsMoved(M, l, n)
      /\ NewKeys(to, E) = DelegatorsMoved(E, l, n)
  BY Zenon, <1>0 DEF NewKeys, DelegatorsMoved
<1> HIDE DEF to, M
<1>6. Rekeys(E, Q, M, to)
  BY <1>0, <1>1, <1>2, <1>4 DEF Rekeys, DistinctIds
<1>7. /\ RekeyEntries(E, M, NewKeys(to, M)) = NewKeys(to, E)
      /\ Rekeyed(E, Q, NewKeys(to, M), NewKeys(to, E))
  BY <1>6, RekeyOnce
<1> QED BY <1>5, <1>7 DEF M

(* No stake lies with an address that is no validator, and none is held by *)
(* one that is not in use.                                                 *)
LEMMA Unstaked ==
  ASSUME StakeInv, NEW a \in Addr
  PROVE  /\ validators[a] = None => /\ \A p \in delegations : p[2] # a
                                    /\ \A e \in entries : e.src # a /\ e.dst # a
                                    /\ tokens[a] = 0
         /\ ~InUse(a) => /\ validators[a] = None
                         /\ \A p \in delegations : p[1] # a
                         /\ \A e \in entries : e.del # a
<1> USE DEF StakeInv, StakeHeld
<1>1. validators[a] = None => /\ \A p \in delegations : p[2] # a
                              /\ \A e \in entries : e.src # a /\ e.dst # a
  BY AddressAssumption
<1>2. validators[a] = None => tokens[a] = 0
  <2>1. ASSUME validators[a] = None PROVE {p \in delegations : p[2] = a} = {}
    BY <1>1, <2>1
  <2> QED BY <2>1, FS_EmptySet DEF SharesConserved
<1> QED BY <1>1, <1>2

(* Pairs whose second side is not l: it is enough to move the first.       *)
LEMMA FirstSide ==
  ASSUME NEW D, D \subseteq Addr \X Addr, NEW l, NEW n, \A p \in D : p[2] # l
  PROVE  {<<Moved(p[1], l, n), p[2]>> : p \in D} = RekeyPairs(D, l, n)
<1>1. \A p \in D : <<Moved(p[1], l, n), p[2]>> = <<Moved(p[1], l, n), Moved(p[2], l, n)>>
  BY DEF Moved
<1> QED BY <1>1 DEF RekeyPairs

(* Moving the second sides, then the first, moves both.                    *)
LEMMA BothSides ==
  ASSUME NEW D, D \subseteq Addr \X Addr, NEW l, NEW n
  PROVE  {<<Moved(p[1], l, n), p[2]>> : p \in RekeyValidator(D, l, n)} = RekeyPairs(D, l, n)
<1> DEFINE f(p) == <<p[1], Moved(p[2], l, n)>>
           g(p) == <<Moved(p[1], l, n), p[2]>>
           h(p) == <<Moved(p[1], l, n), Moved(p[2], l, n)>>
<1>1. \A p \in D : g(f(p)) = h(p)
  OBVIOUS
<1> HIDE DEF f, g, h
<1>2. {g(q) : q \in {f(p) : p \in D}} = {h(p) : p \in D}
  BY <1>1
<1> QED BY <1>2 DEF f, g, h, RekeyPairs, RekeyValidator

(* ClaimLegacyAccount takes the whole stake of l to n.                     *)
LEMMA ClaimMovesStake ==
  ASSUME StakeInv, RowTypes, NEW l \in Addr, NEW n \in Addr, ClaimLegacyAccount(l, n)
  PROVE  MovesStake(l, n)
<1>1. /\ l \in Legacy /\ n \in New /\ l # n /\ ~InUse(n) /\ validators[l] = None
      /\ validators' = validators /\ tokens' = tokens
  BY AddressAssumption DEF ClaimLegacyAccount, PreChecks, ProofsVerify, InUse, valset
<1>2. MigrateStaking(delegations, entries, completions, byId, l, n)
  BY DEF ClaimLegacyAccount
<1>3. /\ validators[n] = None /\ tokens[n] = 0 /\ tokens[l] = 0
      /\ \A p \in delegations : p[2] # l
      /\ \A e \in entries : e.src # l /\ e.dst # l /\ e.del # n
  BY <1>1, Unstaked
<1>4. delegations' = RekeyPairs(delegations, l, n)
  BY <1>2, <1>3, FirstSide DEF MigrateStaking, StakeInv, StakeTypes
<1>5. DelegatorsMoved(entries, l, n) = {EntryMoved(e, l, n) : e \in entries}
  <2>1. \A e \in entries : DelegatorMoved(e, l, n) = EntryMoved(e, l, n)
    BY <1>3 DEF DelegatorMoved, EntryMoved, Moved, StakeInv, StakeTypes, Entry
  <2> QED BY <2>1 DEF DelegatorsMoved
<1>6. /\ entries' = {EntryMoved(e, l, n) : e \in entries}
      /\ byId' = entries' /\ entries' \subseteq completions' /\ lastId' = lastId
  <2> DEFINE M == OfDelegator(entries, l)
             N == DelegatorsMoved(M, l, n)
             F == DelegatorsMoved(entries, l, n)
  <2>0. entries \in SUBSET Entry /\ entries \subseteq completions /\ DistinctIds(entries)
    BY DEF StakeInv, StakeTypes, StakeHeld, EntriesComplete
  <2>1. RekeyEntries(entries, M, N) = F /\ Rekeyed(entries, completions, N, F)
    BY <1>1, <1>3, <2>0, RekeyOfDelegator
  <2>2. /\ entries' = RekeyEntries(entries, M, N) /\ completions' = RekeyQueue(completions, N)
        /\ byId' = RekeyById(entries, N) /\ lastId' = lastId
    BY <1>2 DEF MigrateStaking, StakeInv, EntriesComplete, DelegatorsMoved
  <2> HIDE DEF M, N, F
  <2>3. entries' = F /\ byId' = F /\ F \subseteq completions' /\ lastId' = lastId
    BY <2>1, <2>2 DEF Rekeyed
  <2> QED BY <1>5, <2>3 DEF F
<1>7. rewards' \subseteq {p \in rewards : p[1] # l /\ p[2] # l}
  BY Zenon, <1>3 DEF ClaimLegacyAccount, StakeInv, StakeHeld
<1>8. \A v \in Addr :
        /\ validators'[v] = IF v = l THEN None ELSE IF v = n THEN validators[l] ELSE validators[v]
        /\ tokens'[v] = IF v = l THEN 0 ELSE IF v = n THEN tokens[l] ELSE tokens[v]
  BY <1>1, <1>3
<1> QED BY <1>1, <1>4, <1>6, <1>7, <1>8 DEF MovesStake, StakeInv, StakeTypes

(* MigrateValidator takes the stake of l, and the stake others have with   *)
(* it, to n.                                                               *)
LEMMA ValidatorMovesStake ==
  ASSUME StakeInv, RowTypes, NEW l \in Addr, NEW n \in Addr, MigrateValidator(l, n)
  PROVE  MovesStake(l, n)
<1> DEFINE M == OfValidator(entries, l)
           N == ValidatorsMoved(M, l, n)
           F == ValidatorsMoved(entries, l, n)
           M2 == OfDelegator(F, l)
           N2 == DelegatorsMoved(M2, l, n)
           F2 == DelegatorsMoved(F, l, n)
           Q  == RekeyQueue(completions, N)
<1>1. /\ l \in Legacy /\ n \in New /\ l # n /\ ~InUse(n)
      /\ validators' = [validators EXCEPT ![n] = validators[l], ![l] = None]
      /\ tokens' = [tokens EXCEPT ![n] = tokens[l], ![l] = 0]
  BY AddressAssumption DEF MigrateValidator, PreChecks, ProofsVerify, InUse,
     MigrateValidatorRecord, DeleteValidatorRecordNoHooks, SetRow
<1>2. MigrateStaking(RekeyValidator(delegations, l, n), RekeyEntries(entries, M, N), Q,
                     RekeyById(byId, N), l, n)
  BY DEF MigrateValidator, ValidatorsMoved
<1>3. /\ \A p \in delegations : p[1] # n /\ p[2] # n
      /\ \A e \in entries : e.src # n /\ e.dst # n /\ e.del # n
  BY <1>1, Unstaked
<1>4. delegations' = RekeyPairs(delegations, l, n)
  BY <1>2, BothSides DEF MigrateStaking, StakeInv, StakeTypes
<1>5. RekeyEntries(entries, M, N) = F /\ Rekeyed(entries, completions, N, F)
  <2>1. entries \in SUBSET Entry /\ entries \subseteq completions /\ DistinctIds(entries)
    BY DEF StakeInv, StakeTypes, StakeHeld, EntriesComplete
  <2> QED BY <1>1, <1>3, <2>1, RekeyOfValidator
<1>6. \A e \in entries : /\ ValidatorMoved(e, l, n) \in Entry
                         /\ ValidatorMoved(e, l, n).id = e.id
                         /\ ValidatorMoved(e, l, n).del = e.del
                         /\ DelegatorMoved(ValidatorMoved(e, l, n), l, n) = EntryMoved(e, l, n)
  <2> SUFFICES ASSUME NEW e \in entries
               PROVE  LET f == ValidatorMoved(e, l, n)
                      IN  /\ f \in Entry /\ f.id = e.id /\ f.del = e.del
                          /\ DelegatorMoved(f, l, n) = EntryMoved(e, l, n)
    OBVIOUS
  <2> DEFINE s == Moved(e.src, l, n)
             d == Moved(e.dst, l, n)
             w == Moved(e.del, l, n)
  <2>1. e \in Entry /\ s \in Addr /\ d \in Addr \cup {None}
    BY DEF Moved, StakeInv, StakeTypes, Entry
  <2>2. /\ ValidatorMoved(e, l, n) = [e EXCEPT !.src = s, !.dst = d]
        /\ EntryMoved(e, l, n) = [del |-> w, src |-> s, dst |-> d, id |-> e.id]
    BY DEF ValidatorMoved, EntryMoved
  <2>3. e = [del |-> e.del, src |-> e.src, dst |-> e.dst, id |-> e.id]
    BY <2>1 DEF Entry
  <2> HIDE DEF s, d
  <2>4. ValidatorMoved(e, l, n) = [del |-> e.del, src |-> s, dst |-> d, id |-> e.id]
    BY Zenon, <2>2, <2>3
  <2>5. DelegatorMoved(ValidatorMoved(e, l, n), l, n) = EntryMoved(e, l, n)
    <3>1. DelegatorMoved(ValidatorMoved(e, l, n), l, n) = [ValidatorMoved(e, l, n) EXCEPT !.del = w]
      BY <2>4 DEF DelegatorMoved
    <3> HIDE DEF w
    <3> QED BY Zenon, <2>2, <2>4, <3>1
  <2>6. ValidatorMoved(e, l, n) \in Entry
    BY <2>1, <2>4 DEF Entry
  <2> QED BY <2>4, <2>5, <2>6
<1>7. F \in SUBSET Entry /\ DistinctIds(F) /\ \A e \in F : e.del # n
  <2>1. F = {ValidatorMoved(e, l, n) : e \in entries} /\ DistinctIds(entries)
    BY DEF ValidatorsMoved, StakeInv, StakeHeld
  <2> HIDE DEF F
  <2>2. \A f \in F : \E e \in entries : f = ValidatorMoved(e, l, n)
    BY <2>1
  <2>3. F \in SUBSET Entry /\ \A e \in F : e.del # n
    BY <1>3, <1>6, <2>2
  <2>4. DistinctIds(F)
    <3> SUFFICES ASSUME NEW e \in F, NEW f \in F, e.id = f.id PROVE e = f
      BY DEF DistinctIds
    <3>1. PICK x \in entries, y \in entries :
            e = ValidatorMoved(x, l, n) /\ f = ValidatorMoved(y, l, n)
      BY <2>2
    <3>2. x.id = y.id
      BY <1>6, <3>1
    <3> QED BY <2>1, <3>1, <3>2 DEF DistinctIds
  <2> QED BY <2>3, <2>4
<1>8. F2 = {EntryMoved(e, l, n) : e \in entries}
  BY <1>6, Zenon DEF ValidatorsMoved, DelegatorsMoved
<1>9. F \subseteq Q /\ RekeyById(byId, N) = F
  BY <1>5 DEF Rekeyed, StakeInv, EntriesComplete
<1> HIDE DEF F, N, Q
<1>10. RekeyEntries(F, M2, N2) = F2 /\ Rekeyed(F, Q, N2, F2)
  BY <1>1, <1>7, <1>9, RekeyOfDelegator
<1>11. /\ entries' = RekeyEntries(F, M2, N2) /\ completions' = RekeyQueue(Q, N2)
       /\ byId' = RekeyById(F, N2) /\ lastId' = lastId
  BY <1>2, <1>5, <1>9 DEF MigrateStaking, DelegatorsMoved
<1> HIDE DEF M2, N2, F2
<1>12. entries' = F2 /\ byId' = F2 /\ F2 \subseteq completions' /\ lastId' = lastId
  BY <1>10, <1>11 DEF Rekeyed
<1>13. rewards' \subseteq {p \in rewards : p[1] # l /\ p[2] # l}
  BY DEF MigrateValidator
<1>14. /\ tokens' \in [Addr -> Nat]
       /\ \A v \in Addr :
            /\ validators'[v] = IF v = l THEN None ELSE IF v = n THEN validators[l] ELSE validators[v]
            /\ tokens'[v] = IF v = l THEN 0 ELSE IF v = n THEN tokens[l] ELSE tokens[v]
  BY <1>1 DEF StakeInv, StakeTypes, RowTypes
<1> QED BY <1>4, <1>8, <1>12, <1>13, <1>14 DEF MovesStake

SharesAt(D, v) == {p \in D : p[2] = v}
SharesMoved(D, u, l, n, v) == {<<Moved(p[1], l, n), v>> : p \in SharesAt(D, u)}

(* Moving the delegators of a validator keeps their number.                *)
LEMMA RekeyedCount ==
  ASSUME NEW D, D \subseteq Addr \X Addr, NEW l, NEW n, \A p \in D : p[1] # n, NEW u, NEW v
  PROVE  Cardinality(SharesMoved(D, u, l, n, v)) = Cardinality(SharesAt(D, u))
<1> DEFINE S == {q \in D : q[2] = u}
           T == {<<Moved(p[1], l, n), v>> : p \in S}
           g == [p \in S |-> <<Moved(p[1], l, n), v>>]
<1>1. IsFiniteSet(S)
  BY FiniteStake
<1>2. \A p, q \in S : g[p] = g[q] => p = q
  <2> SUFFICES ASSUME NEW p \in S, NEW q \in S, g[p] = g[q] PROVE p = q
    BY Zenon
  <2>1. Moved(p[1], l, n) = Moved(q[1], l, n)
    OBVIOUS
  <2>2. p[1] = q[1] /\ p[2] = q[2]
    BY <2>1 DEF Moved
  <2>3. p = <<p[1], p[2]>> /\ q = <<q[1], q[2]>>
    OBVIOUS
  <2> QED BY <2>2, <2>3
<1>3. g \in [S -> T] /\ \A t \in T : \E p \in S : g[p] = t
  OBVIOUS
<1> HIDE DEF S, T, g
<1>4. ExistsBijection(S, T)
  BY <1>2, <1>3 DEF ExistsBijection, Bijection, Injection, Surjection, IsInjective
<1> QED BY <1>1, <1>4, FS_Bijection DEF S, T, SharesAt, SharesMoved

(* A migration that takes the whole stake along keeps the invariant.       *)
LEMMA MovesKeepStake ==
  ASSUME StakeInv, KeyTypes, RowTypes, NEW l \in Addr, NEW n \in Addr,
         Migrates(l, n), MovesStake(l, n)
  PROVE  StakeInv'
<1>1. /\ l \in Legacy /\ n \in New /\ l # n /\ n \notin Legacy /\ ~InUse(n)
      /\ l # None /\ n # None
  BY AddressAssumption DEF Migrates, InUse, Addr
<1>2. /\ validators[n] = None
      /\ \A p \in delegations : p[1] # n /\ p[2] # n
      /\ \A e \in entries : e.del # n /\ e.src # n /\ e.dst # n
  BY <1>1, Unstaked
<1>3. /\ \A a \in Addr : Moved(a, l, n) \in Addr /\ (InUse(a) => InUse(Moved(a, l, n))')
      /\ \A a \in Addr : InUse(a) => InUse(a)'
      /\ InUse(n)'
  BY <1>1 DEF Migrates, KeyTypes, InUse, Moved
<1>4. \A v \in Addr : validators[v] # None => validators'[Moved(v, l, n)] # None
  BY <1>1, <1>2 DEF MovesStake, Moved
<1>5. \A p \in delegations : p[1] \in Addr /\ p[2] \in Addr /\ p = <<p[1], p[2]>>
  BY DEF StakeInv, StakeTypes
<1>6. \A p \in delegations' : \E q \in delegations : p = <<Moved(q[1], l, n), Moved(q[2], l, n)>>
  BY DEF MovesStake, RekeyPairs
<1>7. ASSUME NEW e \in entries
      PROVE  /\ e \in Entry /\ EntryMoved(e, l, n) \in Entry
             /\ EntryMoved(e, l, n).del = Moved(e.del, l, n)
             /\ EntryMoved(e, l, n).src = Moved(e.src, l, n)
             /\ EntryMoved(e, l, n).dst = Moved(e.dst, l, n)
             /\ EntryMoved(e, l, n).id = e.id
  BY <1>3 DEF EntryMoved, Entry, Moved, StakeInv, StakeTypes
<1>8. \A f \in entries' : \E e \in entries : f = EntryMoved(e, l, n)
  BY DEF MovesStake
<1>9. StakeTypes'
  <2>1. delegations' \subseteq Addr \X Addr
    BY <1>3, <1>5, <1>6
  <2>2. entries' \subseteq Entry
    BY <1>7, <1>8
  <2> QED BY <2>1, <2>2 DEF MovesStake, StakeTypes, StakeInv
<1>10. StakeHeld'
  <2>1. \A v \in Addr : validators'[v] # None => InUse(v)'
    BY <1>3 DEF MovesStake, StakeInv, StakeHeld
  <2>2. \A p \in delegations' : InUse(p[1])' /\ validators'[p[2]] # None
    <3> SUFFICES ASSUME NEW p \in delegations' PROVE InUse(p[1])' /\ validators'[p[2]] # None
      OBVIOUS
    <3>1. PICK q \in delegations : p = <<Moved(q[1], l, n), Moved(q[2], l, n)>>
      BY <1>6
    <3>2. InUse(q[1]) /\ validators[q[2]] # None
      BY DEF StakeInv, StakeHeld
    <3> QED BY <1>3, <1>4, <1>5, <3>1, <3>2
  <2>3. rewards' \subseteq delegations'
    <3> SUFFICES ASSUME NEW p \in rewards' PROVE p \in delegations'
      OBVIOUS
    <3>1. p \in delegations /\ p[1] # l /\ p[2] # l
      BY DEF MovesStake, StakeInv, StakeHeld
    <3>2. p = <<Moved(p[1], l, n), Moved(p[2], l, n)>>
      BY <1>5, <3>1 DEF Moved
    <3> QED BY <3>1, <3>2 DEF MovesStake, RekeyPairs
  <2>4. ASSUME NEW f \in entries'
        PROVE  /\ InUse(f.del)' /\ validators'[f.src] # None
               /\ f.dst # None => validators'[f.dst] # None
               /\ f.id <= lastId'
    <3>1. PICK e \in entries : f = EntryMoved(e, l, n)
      BY <1>8
    <3>2. /\ e.del \in Addr /\ e.src \in Addr /\ e.dst \in Addr \cup {None}
          /\ f.del = Moved(e.del, l, n) /\ f.src = Moved(e.src, l, n)
          /\ f.dst = Moved(e.dst, l, n) /\ f.id = e.id
      BY <1>7, <3>1 DEF Entry
    <3>3. /\ InUse(e.del) /\ validators[e.src] # None
          /\ e.dst # None => validators[e.dst] # None
          /\ e.id <= lastId
      BY DEF StakeInv, StakeHeld
    <3>4. f.dst # None => e.dst \in Addr /\ e.dst # None
      BY <1>1, <3>2 DEF Moved
    <3>5. InUse(f.del)' /\ validators'[f.src] # None
      BY Zenon, <1>3, <1>4, <3>2, <3>3
    <3>6. f.dst # None => validators'[f.dst] # None
      BY Zenon, <1>3, <1>4, <3>2, <3>3, <3>4
    <3>7. f.id <= lastId'
      BY Zenon, <3>2, <3>3 DEF MovesStake
    <3> QED BY Zenon, <3>5, <3>6, <3>7
  <2>5. DistinctIds(entries')
    <3> SUFFICES ASSUME NEW e \in entries', NEW f \in entries', e.id = f.id PROVE e = f
      BY DEF DistinctIds
    <3>1. PICK x \in entries, y \in entries : e = EntryMoved(x, l, n) /\ f = EntryMoved(y, l, n)
      BY <1>8
    <3>2. x.id = y.id
      BY <1>7, <3>1
    <3> QED BY <3>1, <3>2 DEF DistinctIds, StakeInv, StakeHeld
  <2> QED BY <2>1, <2>2, <2>3, <2>4, <2>5 DEF StakeHeld
<1>11. EntriesComplete'
  BY DEF MovesStake, EntriesComplete
<1>12. SharesConserved'
  <2> SUFFICES ASSUME NEW v \in Addr
               PROVE  tokens'[v] = Cardinality({p \in delegations' : p[2] = v})
    BY DEF SharesConserved
  <2>1. CASE v = l
    <3>1. {p \in delegations' : p[2] = v} = {}
      BY <1>1, <1>6, <2>1 DEF Moved
    <3> QED BY <2>1, <3>1, FS_EmptySet DEF MovesStake
  <2>2. CASE v # l
    <3> DEFINE u == IF v = n THEN l ELSE v
               S == SharesAt(delegations, u)
               T == SharesMoved(delegations, u, l, n, v)
    <3>1. tokens'[v] = tokens[u] /\ u \in Addr
      BY Zenon, <2>2 DEF MovesStake
    <3>2. tokens[u] = Cardinality(S)
      BY <3>1 DEF StakeInv, SharesConserved, SharesAt
    <3>3. \A q \in delegations : Moved(q[2], l, n) = v <=> q[2] = u
      BY <1>1, <1>2, <2>2 DEF Moved
    <3>4. {p \in delegations' : p[2] = v} = T
      <4> HIDE DEF u
      <4>1. \A p \in delegations' : p[2] = v => p \in T
        BY <1>6, <3>3 DEF SharesMoved, SharesAt
      <4>2. \A p \in T : p \in delegations' /\ p[2] = v
        BY <3>3 DEF MovesStake, RekeyPairs, SharesMoved, SharesAt
      <4> QED BY <4>1, <4>2
    <3>5. Cardinality(T) = Cardinality(S)
      BY <1>2, RekeyedCount DEF StakeInv, StakeTypes
    <3> QED BY Zenon, <3>1, <3>2, <3>4, <3>5
  <2> QED BY <2>1, <2>2
<1> QED BY <1>9, <1>10, <1>11, <1>12 DEF StakeInv

(* One delegation more or less is one share more or less at its validator. *)
LEMMA AddShare ==
  ASSUME NEW D, D \subseteq Addr \X Addr, NEW d, NEW v, <<d, v>> \notin D, NEW a
  PROVE  Cardinality(SharesAt(D \cup {<<d, v>>}, a))
           = Cardinality(SharesAt(D, a)) + (IF a = v THEN 1 ELSE 0)
<1>1. IsFiniteSet(SharesAt(D, a)) /\ Cardinality(SharesAt(D, a)) \in Nat
  BY FiniteStake DEF SharesAt
<1>2. CASE a = v
  <2>1. SharesAt(D \cup {<<d, v>>}, a) = SharesAt(D, a) \cup {<<d, v>>}
        /\ <<d, v>> \notin SharesAt(D, a)
    BY <1>2 DEF SharesAt
  <2> QED BY Zenon, <1>1, <1>2, <2>1, FS_AddElement
<1>3. CASE a # v
  <2>1. SharesAt(D \cup {<<d, v>>}, a) = SharesAt(D, a)
    BY <1>3 DEF SharesAt
  <2> QED BY <1>1, <1>3, <2>1
<1> QED BY <1>2, <1>3

(* Taking a delegation away takes one share from its validator only.       *)
LEMMA DropShare ==
  ASSUME NEW D, D \subseteq Addr \X Addr, NEW d, NEW v, <<d, v>> \in D, NEW a
  PROVE  Cardinality(SharesAt(D \ {<<d, v>>}, a))
           = Cardinality(SharesAt(D, a)) - (IF a = v THEN 1 ELSE 0)
<1>1. IsFiniteSet(SharesAt(D, a)) /\ Cardinality(SharesAt(D, a)) \in Nat
  BY FiniteStake DEF SharesAt
<1>2. CASE a = v
  <2>1. SharesAt(D \ {<<d, v>>}, a) = SharesAt(D, a) \ {<<d, v>>} /\ <<d, v>> \in SharesAt(D, a)
    BY <1>2 DEF SharesAt
  <2> QED BY Zenon, <1>1, <1>2, <2>1, FS_RemoveElement
<1>3. CASE a # v
  <2>1. SharesAt(D \ {<<d, v>>}, a) = SharesAt(D, a)
    BY <1>3 DEF SharesAt
  <2> QED BY <1>1, <1>3, <2>1
<1> QED BY <1>2, <1>3

(* The step leaves addresses in use and validators where they are.         *)
SameHolders ==
  /\ byNew' = byNew
  /\ \A v \in Addr : validators'[v] = None <=> validators[v] = None

(* A new delegation.                                                       *)
LEMMA DelegateStake ==
  ASSUME StakeInv, EarlyStakers = {}, NEW d \in Addr, NEW v \in Addr, Delegate(d, v)
  PROVE  StakeInv'
<1>1. /\ InUse(d) /\ validators[v] # None /\ <<d, v>> \notin delegations
      /\ delegations' = delegations \cup {<<d, v>>}
      /\ tokens' = [tokens EXCEPT ![v] = @ + 1]
      /\ UNCHANGED <<byNew, validators, entries, completions, byId, lastId, rewards>>
  BY DEF Delegate, Acts, InUse, ledger, valset, distr
<1>2. delegations \subseteq Addr \X Addr /\ tokens \in [Addr -> Nat]
  BY DEF StakeInv, StakeTypes
<1>3. StakeTypes'
  BY <1>1, <1>2 DEF StakeInv, StakeTypes
<1>4. StakeHeld' /\ EntriesComplete'
  BY <1>1 DEF StakeInv, StakeHeld, EntriesComplete, InUse
<1>5. \A a \in Addr : tokens'[a] = Cardinality(SharesAt(delegations', a))
  <2>1. \A a \in Addr : Cardinality(SharesAt(delegations', a))
                          = Cardinality(SharesAt(delegations, a)) + (IF a = v THEN 1 ELSE 0)
    BY <1>1, <1>2, AddShare
  <2>2. \A a \in Addr : tokens[a] = Cardinality(SharesAt(delegations, a))
    BY DEF StakeInv, SharesConserved, SharesAt
  <2>3. \A a \in Addr : tokens'[a] = tokens[a] + (IF a = v THEN 1 ELSE 0)
    BY <1>1, <1>2
  <2> QED BY Zenon, <2>1, <2>2, <2>3
<1> QED BY Zenon, <1>3, <1>4, <1>5 DEF StakeInv, SharesConserved, SharesAt

(* An undelegation or redelegation: one entry, with an id of its own.      *)
LEMMA UndelegateStake ==
  ASSUME StakeInv, EarlyStakers = {}, NEW d \in Addr, NEW v \in Addr, NEW w \in Addr \cup {None},
         Undelegate(d, v, w)
  PROVE  StakeInv'
<1> DEFINE e  == [del |-> d, src |-> v, dst |-> w, id |-> lastId + 1]
           D1 == delegations \ {<<d, v>>}
           D2 == D1 \cup (IF w = None THEN {} ELSE {<<d, w>>})
<1>1. /\ InUse(d) /\ lastId < MaxEntries /\ w # v /\ <<d, v>> \in delegations
      /\ w # None => validators[w] # None /\ <<d, w>> \notin delegations
      /\ entries' = entries \cup {e} /\ completions' = completions \cup {e} /\ byId' = byId \cup {e}
      /\ lastId' = lastId + 1 /\ delegations' = D2
      /\ tokens' = [a \in Addr |-> IF a = v THEN tokens[a] - 1
                                   ELSE IF a = w THEN tokens[a] + 1 ELSE tokens[a]]
      /\ rewards' = rewards \ {<<d, v>>}
      /\ UNCHANGED <<byNew, validators>>
  BY Zenon DEF Undelegate, Acts, InUse, ledger, valset
<1>2. /\ delegations \subseteq Addr \X Addr /\ tokens \in [Addr -> Nat] /\ lastId \in Nat
      /\ entries \subseteq Entry /\ validators[v] # None
  <2>1. /\ delegations \subseteq Addr \X Addr /\ tokens \in [Addr -> Nat]
        /\ entries \subseteq Entry /\ lastId \in 0..MaxEntries
        /\ \A p \in delegations : validators[p[2]] # None
    BY Zenon DEF StakeInv, StakeTypes, StakeHeld
  <2>2. <<d, v>>[2] = v /\ lastId \in Nat
    BY <2>1
  <2> QED BY Zenon, <1>1, <2>1, <2>2
<1>3. e \in Entry /\ e.del = d /\ e.src = v /\ e.dst = w /\ e.id = lastId + 1
      /\ lastId + 1 \in 0..MaxEntries
  <2>1. lastId + 1 \in 1..MaxEntries /\ lastId + 1 \in 0..MaxEntries
    BY <1>1, <1>2, AddressAssumption
  <2> QED BY <2>1 DEF Entry
<1> HIDE DEF e
<1>4. \A a \in Addr : tokens'[a] = Cardinality(SharesAt(delegations', a))
  <2>1. \A a \in Addr : Cardinality(SharesAt(D1, a))
                          = Cardinality(SharesAt(delegations, a)) - (IF a = v THEN 1 ELSE 0)
    BY <1>1, <1>2, DropShare
  <2>2. D1 \subseteq Addr \X Addr
    BY <1>2
  <2>3. \A a \in Addr : Cardinality(SharesAt(D2, a))
                          = Cardinality(SharesAt(D1, a)) + (IF a = w THEN 1 ELSE 0)
    <3>1. CASE w = None
      <4>1. D2 = D1 /\ \A a \in Addr : a # w /\ Cardinality(SharesAt(D1, a)) \in Nat
        BY <2>2, <3>1, FiniteStake, AddressAssumption DEF SharesAt
      <4> HIDE DEF D1, D2
      <4> QED BY <4>1
    <3>2. CASE w # None
      <4>1. D2 = D1 \cup {<<d, w>>} /\ <<d, w>> \notin D1
        BY <1>1, <3>2
      <4> HIDE DEF D1, D2
      <4> QED BY <2>2, <4>1, AddShare
    <3> QED BY Zenon, <3>1, <3>2
  <2>4. \A a \in Addr : tokens[a] = Cardinality(SharesAt(delegations, a)) /\ tokens[a] \in Nat
    BY <1>2 DEF StakeInv, SharesConserved, SharesAt
  <2>5. \A a \in Addr : tokens'[a] = IF a = v THEN tokens[a] - 1
                                     ELSE IF a = w THEN tokens[a] + 1 ELSE tokens[a]
    BY Zenon, <1>1
  <2>6. w # v /\ delegations' = D2
    BY Zenon, <1>1
  <2> HIDE DEF D1, D2
  <2> QED BY <2>1, <2>3, <2>4, <2>5, <2>6
<1>5. tokens' \in [Addr -> Nat]
  <2>1. delegations' \subseteq Addr \X Addr
    BY <1>1, <1>2
  <2>2. \A a \in Addr : tokens'[a] \in Nat
    BY Zenon, <1>4, <2>1, FiniteStake DEF SharesAt
  <2> QED BY <1>1, <2>2
<1>6. StakeTypes'
  BY <1>1, <1>2, <1>3, <1>5 DEF StakeTypes
<1>7. StakeHeld'
  <2>1. \A x \in entries : x.id <= lastId /\ x.id \in Int
    <3>1. \A x \in entries : x.id <= lastId
      BY Zenon DEF StakeInv, StakeHeld
    <3>2. \A x \in Entry : x.id \in Int
      BY DEF Entry
    <3> QED BY Zenon, <1>2, <3>1, <3>2
  <2>2. DistinctIds(entries')
    <3>1. \A x \in entries : x.id # e.id
      BY <1>2, <1>3, <2>1
    <3>2. DistinctIds(entries)
      BY Zenon DEF StakeInv, StakeHeld
    <3> QED BY Zenon, <1>1, <3>1, <3>2 DEF DistinctIds
  <2>3. \A p \in delegations' : InUse(p[1])' /\ validators'[p[2]] # None
    <3>1. \A p \in delegations : InUse(p[1])' /\ validators'[p[2]] # None
      BY Zenon, <1>1 DEF StakeInv, StakeHeld, InUse
    <3>2. w # None => InUse(<<d, w>>[1])' /\ validators'[<<d, w>>[2]] # None
      BY <1>1 DEF InUse
    <3>3. \A p \in delegations' : p \in delegations \/ (w # None /\ p = <<d, w>>)
      BY <1>1
    <3> QED BY Zenon, <3>1, <3>2, <3>3
  <2>4. rewards' \subseteq delegations'
    <3>1. rewards \subseteq delegations
      BY Zenon DEF StakeInv, StakeHeld
    <3> QED BY <1>1, <3>1
  <2>5. \A x \in entries' : /\ InUse(x.del)' /\ validators'[x.src] # None
                            /\ x.dst # None => validators'[x.dst] # None
                            /\ x.id <= lastId'
    <3>1. ASSUME NEW x \in entries
          PROVE  /\ InUse(x.del)' /\ validators'[x.src] # None
                 /\ x.dst # None => validators'[x.dst] # None
      <4>1. /\ InUse(x.del) /\ validators[x.src] # None
            /\ x.dst # None => validators[x.dst] # None
        BY Zenon DEF StakeInv, StakeHeld
      <4>2. byNew' = byNew /\ validators' = validators
        BY Zenon, <1>1
      <4> QED BY Zenon, <4>1, <4>2 DEF InUse
    <3>2. /\ InUse(d)' /\ validators'[v] # None
          /\ w # None => validators'[w] # None
      BY Zenon, <1>1, <1>2 DEF InUse
    <3>3. /\ \A x \in entries : x.id <= lastId + 1
          /\ e.id <= lastId + 1
      BY <1>2, <1>3, <2>1
    <3>4. lastId' = lastId + 1 /\ \A x \in entries' : x \in entries \/ x = e
      BY Zenon, <1>1
    <3>5. ASSUME NEW x \in entries', x = e
          PROVE  /\ InUse(x.del)' /\ validators'[x.src] # None
                 /\ x.dst # None => validators'[x.dst] # None
                 /\ x.id <= lastId + 1
      <4>1. x.del = d /\ x.src = v /\ x.dst = w
        BY Zenon, <1>3, <3>5
      <4> QED BY Zenon, <3>2, <3>3, <3>5, <4>1 DEF InUse
    <3> QED BY Zenon, <3>1, <3>3, <3>4, <3>5
  <2> QED BY Zenon, <1>1, <2>2, <2>3, <2>4, <2>5 DEF StakeInv, StakeHeld, InUse
<1>8. EntriesComplete'
  BY Zenon, <1>1 DEF StakeInv, EntriesComplete
<1> QED BY Zenon, <1>4, <1>6, <1>7, <1>8 DEF StakeInv, SharesConserved, SharesAt

(* The other steps end entries, allocate rewards, or leave stake alone.    *)
LEMMA OtherStake ==
  ASSUME StakeInv, SameHolders, UNCHANGED <<tokens, delegations, lastId>>,
         \/ UNCHANGED <<entries, completions, byId>>
         \/ \E i \in 1..MaxEntries :
              LET done == {e \in entries \cap completions : e.id = i}
              IN  /\ completions' = {q \in completions : q.id # i}
                  /\ entries' = entries \ done
                  /\ byId' = byId \ done,
         rewards' \subseteq rewards \cup delegations
  PROVE  StakeInv'
<1>1. entries' \subseteq entries /\ EntriesComplete'
  BY Zenon DEF StakeInv, EntriesComplete
<1>2. StakeTypes' /\ SharesConserved'
  BY <1>1 DEF StakeInv, StakeTypes, SharesConserved
<1>3. \A e \in entries : e.src \in Addr /\ (e.dst # None => e.dst \in Addr)
  BY DEF StakeInv, StakeTypes, Entry
<1>4. \A p \in delegations : p[2] \in Addr
  BY DEF StakeInv, StakeTypes
<1>5. StakeHeld'
  BY <1>1, <1>3, <1>4 DEF StakeInv, StakeHeld, SameHolders, InUse, DistinctIds
<1> QED BY <1>1, <1>2, <1>5 DEF StakeInv

(* The stake of the start lies with the operators and is held by legacy    *)
(* addresses.                                                              *)
LEMMA StakeInit == Init => StakeInv
<1> SUFFICES ASSUME Init PROVE StakeInv
  OBVIOUS
<1>1. Operators \subseteq Addr /\ Stakes \subseteq Addr \X Addr
  BY AddressAssumption DEF Addr
<1>2. /\ delegations = Stakes /\ entries = {} /\ byId = {} /\ rewards = {} /\ lastId = 0
      /\ tokens = [a \in Addr |-> Cardinality({p \in Stakes : p[2] = a})]
      /\ \A v \in Addr : validators[v] # None <=> v \in Operators
  BY DEF Init, None
<1>3. tokens \in [Addr -> Nat]
  <2>1. \A a \in Addr : Cardinality({p \in Stakes : p[2] = a}) \in Nat
    BY <1>1, FiniteStake
  <2> QED BY <1>2, <2>1
<1>4. StakeTypes
  BY <1>1, <1>2, <1>3, AddressAssumption DEF StakeTypes
<1>5. StakeHeld
  BY <1>1, <1>2, AddressAssumption DEF StakeHeld, InUse, DistinctIds
<1> QED BY <1>2, <1>4, <1>5 DEF StakeInv, EntriesComplete, SharesConserved

(* Every step keeps the invariant of the stake.                            *)
LEMMA StakeNext ==
  ASSUME EarlyStakers = {}, KeyTypes, RowTypes, StakeInv, [Next]_vars
  PROVE  StakeInv'
<1>1. CASE NextBlock \/ UpdateParams \/ UNCHANGED vars
  BY <1>1, OtherStake DEF NextBlock, UpdateParams, vars, ledger, valset, staked, distr, SameHolders
<1>2. ASSUME NEW a \in Addr, Fund(a) \/ ReportMetrics(a) \/ Jail(a) \/ Unjail(a)
      PROVE  StakeInv'
  <2>1. SameHolders /\ UNCHANGED <<tokens, delegations, lastId, entries, completions, byId, rewards>>
    BY <1>2 DEF Fund, ReportMetrics, Jail, Unjail, ledger, valset, staked, distr, SameHolders
  <2> QED BY <2>1, OtherStake
<1>3. ASSUME NEW a \in Addr, Allocate(a)
      PROVE  StakeInv'
  <2>1. /\ SameHolders /\ UNCHANGED <<tokens, delegations, lastId, entries, completions, byId>>
        /\ rewards' \subseteq rewards \cup delegations
    BY Zenon, <1>3 DEF Allocate, ledger, valset, staked, SameHolders
  <2> QED BY <2>1, OtherStake
<1>4. ASSUME NEW a \in Addr, ChangeStatus(a)
      PROVE  StakeInv'
  <2>1. UNCHANGED <<tokens, delegations, lastId, entries, completions, byId, rewards, byNew>>
    BY <1>4 DEF ChangeStatus, ledger, staked, distr
  <2>2. validators[a] # None /\ \E s : s # None /\ validators' = [validators EXCEPT ![a] = s]
    BY <1>4 DEF ChangeStatus, None
  <2>3. SameHolders
    BY <2>1, <2>2 DEF SameHolders, RowTypes
  <2> QED BY <2>1, <2>3, OtherStake
<1>5. ASSUME NEW d \in Addr, NEW v \in Addr, SetWithdrawAddr(d, v) \/ RegisterSupernode(v, d)
      PROVE  StakeInv'
  <2>1. SameHolders /\ UNCHANGED <<tokens, delegations, lastId, entries, completions, byId, rewards>>
    BY <1>5 DEF SetWithdrawAddr, RegisterSupernode, ledger, valset, staked, distr, SameHolders
  <2> QED BY <2>1, OtherStake
<1>6. ASSUME NEW i \in 1..MaxEntries, Mature(i)
      PROVE  StakeInv'
  BY <1>6, OtherStake DEF Mature, ledger, valset, distr, SameHolders
<1>7. ASSUME NEW l \in Addr, NEW n \in Addr, ClaimLegacyAccount(l, n) \/ MigrateValidator(l, n)
      PROVE  StakeInv'
  BY <1>7, MigrationSteps, ClaimMovesStake, ValidatorMovesStake, MovesKeepStake
<1> QED
  BY <1>1, <1>2, <1>3, <1>4, <1>5, <1>6, <1>7, DelegateStake, UndelegateStake DEF Next

(* What holds of ledger, links, accounts, validator rows and stake.        *)
HeldInv == MigrationInv /\ RowInv /\ StakeInv

(* It is inductive where no destination had stake of its own.              *)
LEMMA HeldInvariance == EarlyStakers = {} => (Spec => []HeldInv)
<1> SUFFICES ASSUME EarlyStakers = {} PROVE Spec => []HeldInv
  OBVIOUS
<1>1. Init => HeldInv
  BY MigrationInvInit, RowInvInit, StakeInit DEF HeldInv
<1>2. HeldInv /\ [Next]_vars => HeldInv'
  BY MigrationInvStep, RowInvStep, StakeNext DEF HeldInv, MigrationInv, RowInv
<1> QED BY <1>1, <1>2, PTL DEF Spec

(* Every unbonding and redelegation entry stays in the completion queues   *)
(* and in the UnbondingID index under its present keys, whichever side of  *)
(* it migrates first, as long as no destination had entries of its own.    *)
THEOREM EntriesFollow == EarlyStakers = {} => (Spec => []EntriesComplete)
<1>1. HeldInv => EntriesComplete
  BY DEF HeldInv, StakeInv
<1> QED BY <1>1, HeldInvariance, PTL

(* A validator has issued the shares its delegations hold, through the     *)
(* migration of the validator and of its delegators, as long as no         *)
(* destination had a delegation of its own.                                *)
THEOREM SharesFollow == EarlyStakers = {} => (Spec => []SharesConserved)
<1>1. HeldInv => SharesConserved
  BY DEF HeldInv, StakeInv
<1> QED BY <1>1, HeldInvariance, PTL
-----------------------------------------------------------------------------
(* A migration makes and loses no coin: what bank, rewards and commission  *)
(* hold together is the same before and after, for any stake, rewards,     *)
(* commission and withdraw addresses, provided that the destination had no *)
(* stake of its own (EarlyStakers is empty).                               *)
THEOREM CoinsKept == EarlyStakers = {} => (Spec => CoinsConserved)
<1> SUFFICES ASSUME EarlyStakers = {} PROVE Spec => CoinsConserved
  OBVIOUS
<1>1. ASSUME PaidInv, HeldInv, [Next]_vars, records' # records
      PROVE  Wealth' = Wealth
  <2>1. PICK l \in Addr, n \in Addr :
          (ClaimLegacyAccount(l, n) \/ MigrateValidator(l, n)) /\ Migrates(l, n)
    BY <1>1, WhoMigrates
  <2>2. PICK P \in SUBSET rewards : l # n /\ PaysOut(l, n, P)
    BY <1>1, <2>1, MigrationPays DEF PaidInv
  <2>3. ~InUse(n)
    BY <2>1, AddressAssumption DEF Migrates, InUse
  <2>4. rewards' = rewards \ P
    <3>1. \A p \in rewards : p[1] # n
      BY <1>1, <2>3 DEF HeldInv, StakeInv, StakeHeld
    <3> QED BY <2>2, <3>1 DEF PaysOut
  <2>5. commission' = commission \ {l}
    BY <2>2 DEF PaysOut
  <2>6. SumFunctionOnSet(bank', Addr) = SumFunctionOnSet(bank, Addr)
          + (IF l \in commission THEN 1 ELSE 0) + Cardinality(P)
    BY <1>1, <2>2, PaidInFull DEF PaidInv
  <2>7. /\ rewards \subseteq Addr \X Addr /\ commission \subseteq Addr
        /\ bank \in [Addr -> Nat] /\ IsFiniteSet(Addr)
    BY Zenon, <1>1, FS_Union, AddressAssumption DEF PaidInv, CashInv, Addr
  <2>8. SumFunctionOnSet(bank, Addr) \in Nat
    BY <2>7, SumNat
  <2>9. /\ IsFiniteSet(rewards) /\ Cardinality(rewards) \in Nat
        /\ IsFiniteSet(commission) /\ Cardinality(commission) \in Nat
        /\ Cardinality(P) \in Nat
    BY <2>7, FiniteStake, FS_Subset, FS_CardinalityType
  <2>10. Cardinality(rewards \ P) = Cardinality(rewards) - Cardinality(P)
    <3>1. rewards \cap P = P
      OBVIOUS
    <3> QED BY Zenon, <2>9, <3>1, FS_Difference
  <2>11. Cardinality(commission \ {l}) = Cardinality(commission) - (IF l \in commission THEN 1 ELSE 0)
    <3> DEFINE C == Cardinality(commission)
    <3>1. Cardinality(commission \ {l}) = IF l \in commission THEN C - 1 ELSE C
      BY Zenon, <2>9, FS_RemoveElement
    <3>2. C \in Nat
      BY <2>9
    <3> HIDE DEF C
    <3>3. (IF l \in commission THEN C - 1 ELSE C) = C - (IF l \in commission THEN 1 ELSE 0)
      BY <3>2
    <3> QED BY <3>1, <3>3 DEF C
  <2> QED BY <2>4, <2>5, <2>6, <2>8, <2>9, <2>10, <2>11 DEF Wealth
<1>2. PaidInv /\ HeldInv /\ [Next]_vars => [records' # records => Wealth' = Wealth]_vars
  BY <1>1
<1> QED BY <1>2, PaidInvariance, HeldInvariance, PTL DEF Spec, CoinsConserved

(* After a migration nothing is left at the legacy address, in any of the  *)
(* stores the migration has to rewrite, provided that the destination had  *)
(* no stake of its own and no operator serves as the supernode account of  *)
(* another validator (CrossAccounts is FALSE).                             *)
THEOREM NothingLeft == EarlyStakers = {} /\ ~CrossAccounts => (Spec => LeavesNothing)
<1> SUFFICES ASSUME EarlyStakers = {}, ~CrossAccounts PROVE Spec => LeavesNothing
  OBVIOUS
<1>1. ASSUME PaidInv, HeldInv, PaidInv', HeldInv', [Next]_vars,
             NEW l \in Addr, records'[l] # records[l]
      PROVE  NothingAt(l)'
  <2>1. PICK k \in Addr, n \in Addr :
          (ClaimLegacyAccount(k, n) \/ MigrateValidator(k, n)) /\ Migrates(k, n)
    BY <1>1, WhoMigrates
  <2>2. k = l /\ l # n
    BY <1>1, <2>1, AddressAssumption DEF Migrates, PaidInv, MigrationInv, KeyTypes
  <2>3. bank'[l] = 0 /\ accounts'[l] = None
    <3>1. PICK P \in SUBSET rewards : PaysOut(l, n, P)
      BY Zenon, <1>1, <2>1, <2>2, MigrationPays DEF PaidInv
    <3>2. bank'[l] = 0
      BY Zenon, <1>1, <2>2, <3>1, PaidInFull DEF PaidInv
    <3> QED BY Zenon, <1>1, <2>1, <2>2, <3>2 DEF Migrates, PaidInv, MigrationInv, KeyTypes
  <2>4. MovesStake(l, n)
    BY Zenon, <1>1, <2>1, <2>2, ClaimMovesStake, ValidatorMovesStake DEF HeldInv, RowInv
  <2>5. validators'[l] = None /\ tokens'[l] = 0
    BY Zenon, <2>4 DEF MovesStake
  <2>6. /\ cons'[l] = None /\ supernodes'[l] = None
        /\ l \notin commission' \cup metrics'
        /\ \A c \in Operators : byCons'[c] # l
    BY Zenon, <1>1, <2>5 DEF PaidInv, NodeInv
  <2>7. l \notin power' \cup lastPower' \cup unbonding'
    BY Zenon, <1>1, <2>5 DEF PaidInv, RowInv, ValidatorsIndexed, None
  <2>8. \A S : \A p \in RekeyPairs(S, l, n) : l \notin {p[1], p[2]}
    BY <2>2 DEF RekeyPairs, Moved
  <2>9. \A p \in delegations' \cup rewards' \cup grants' \cup allowances' \cup actions' : l \notin {p[1], p[2]}
    <3>1. /\ grants' = RekeyPairs(grants, l, n)
          /\ allowances' = RekeyPairs(allowances, l, n)
          /\ actions' = RekeyPairs(actions, l, n)
      BY Zenon, <2>1, <2>2 DEF ClaimLegacyAccount, MigrateValidator, MigrateAuthz, MigrateFeegrant, MigrateActions
    <3>2. delegations' = RekeyPairs(delegations, l, n) /\ \A p \in rewards' : l \notin {p[1], p[2]}
      BY Zenon, <2>4 DEF MovesStake
    <3> QED BY <2>8, <3>1, <3>2
  <2>10. \A e \in entries' \cup byId' : l \notin {e.del, e.src, e.dst}
    <3>1. l # n /\ entries' = {EntryMoved(e, l, n) : e \in entries} /\ byId' = entries'
      BY Zenon, <2>2, <2>4 DEF MovesStake
    <3> QED BY <3>1, NothingMovedAt
  <2>11. \A v \in Addr : supernodes'[v] # l
    BY Zenon, <1>1, <2>1, <2>2, ClaimNodes, ValidatorNodes DEF PaidInv
  <2> QED BY Zenon, <2>3, <2>5, <2>6, <2>7, <2>9, <2>10, <2>11 DEF NothingAt
<1>2. PaidInv /\ HeldInv /\ PaidInv' /\ HeldInv' /\ [Next]_vars =>
        [\A l \in Addr : records'[l] # records[l] => NothingAt(l)']_vars
  BY <1>1
<1> QED BY <1>2, PaidInvariance, HeldInvariance, PTL DEF Spec, LeavesNothing
==============================================================================
