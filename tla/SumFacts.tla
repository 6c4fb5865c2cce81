------------------------------ MODULE SumFacts ------------------------------
(***************************************************************************)
(* Facts about sums over finite sets, for the proofs that coins are        *)
(* conserved.  Induction takes its predicate as a set: the set of numbers, *)
(* or of subsets, it holds of.  The sum is the library's, a recursive      *)
(* function over the subsets of the set: it exists (SumExists), any two    *)
(* agree where both are defined (SumAgree), and what follows is elementary *)
(* arithmetic.                                                             *)
(***************************************************************************)
EXTENDS Integers, FiniteSets, Functions, FiniteSetTheorems,
        WellFoundedInduction, TLAPS

(* The element a sum takes next.                                           *)
Pick(s) == CHOOSE x \in s : TRUE

(* g is a sum function of f on the members of D.                           *)
IsSum(g, f, D) ==
  g = [s \in D |-> IF s = {} THEN 0 ELSE f[Pick(s)] + g[s \ {Pick(s)}]]

-----------------------------------------------------------------------------
(* Induction over the naturals, with the predicate as a set.               *)
LEMMA NatSetInduction ==
  ASSUME NEW G, 0 \in G, \A n \in Nat : n \in G => n + 1 \in G
  PROVE  \A n \in Nat : n \in G
<1>1. SUFFICES ASSUME Nat \ G # {} PROVE FALSE
  OBVIOUS
<1>2. PICK n \in Nat \ G : \A m \in Nat \ G : ~(<<m, n>> \in OpToRel(<, Nat))
  <2>1. IsWellFoundedOn(OpToRel(<, Nat), Nat)
    BY Zenon, NatLessThanWellFounded
  <2>2. Nat \ G \subseteq Nat
    OBVIOUS
  <2> QED
    BY Zenon, <1>1, <2>1, <2>2, WFMin
<1>3. n # 0
  OBVIOUS
<1>4. n - 1 \in Nat /\ n - 1 < n
  BY <1>3
<1>5. n - 1 \in Nat \ G
  BY <1>4
<1>6. <<n - 1, n>> \in OpToRel(<, Nat)
  BY <1>4 DEF OpToRel
<1> QED
  BY Zenon, <1>2, <1>5, <1>6

(* Induction over the subsets of a finite set, with the predicate as a set. *)
LEMMA FiniteSetInduction ==
  ASSUME NEW S, IsFiniteSet(S), NEW G, {} \in G,
         \A T \in SUBSET S : \A x \in S \ T : T \in G => T \cup {x} \in G
  PROVE  S \in G
<1> DEFINE H == {n \in Nat : \A T \in SUBSET S : Cardinality(T) = n => T \in G}
<1>0. \A T \in SUBSET S : IsFiniteSet(T) /\ Cardinality(T) \in Nat
  BY FS_Subset, FS_CardinalityType
<1>1. 0 \in H
  BY Zenon, <1>0, FS_EmptySet
<1>2. ASSUME NEW n \in Nat, n \in H PROVE n + 1 \in H
  <2> SUFFICES ASSUME NEW T \in SUBSET S, Cardinality(T) = n + 1 PROVE T \in G
    OBVIOUS
  <2>1. PICK x \in T : TRUE
    <3>1. Cardinality(T) # 0
      OBVIOUS
    <3> QED
      BY <1>0, <3>1, FS_EmptySet
  <2>2. Cardinality(T \ {x}) = n
    <3>1. Cardinality(T \ {x}) = Cardinality(T) - 1
      BY Zenon, <1>0, FS_RemoveElement
    <3> QED
      BY <3>1
  <2>3. T \ {x} \in G /\ x \in S \ (T \ {x})
    BY <1>2, <2>2
  <2>4. (T \ {x}) \cup {x} = T
    OBVIOUS
  <2> QED
    BY <2>3, <2>4
<1> HIDE DEF H
<1>3. \A n \in Nat : n \in H
  BY <1>1, <1>2, NatSetInduction
<1> QED
  BY <1>0, <1>3 DEF H

-----------------------------------------------------------------------------
(* A sum function exists on the subsets of a finite set.                   *)
LEMMA SumExists ==
  ASSUME NEW S, IsFiniteSet(S), NEW f
  PROVE  \E g : IsSum(g, f, SUBSET S)
<1> DEFINE D(n) == {s \in SUBSET S : Cardinality(s) <= n}
           H == {n \in Nat : \E g : IsSum(g, f, D(n))}
<1>0. \A s \in SUBSET S : IsFiniteSet(s) /\ Cardinality(s) \in Nat
  BY FS_Subset, FS_CardinalityType
<1>1. \A s \in SUBSET S : s # {} =>
        /\ Pick(s) \in s
        /\ s \ {Pick(s)} \in SUBSET S
        /\ Cardinality(s \ {Pick(s)}) = Cardinality(s) - 1
  BY Zenon, <1>0, FS_RemoveElement DEF Pick
<1>2. 0 \in H
  <2>1. \A s \in D(0) : s = {}
    BY <1>0, FS_EmptySet
  <2>2. IsSum([s \in D(0) |-> 0], f, D(0))
    BY <2>1 DEF IsSum
  <2> QED
    BY Zenon, <2>2
<1>3. ASSUME NEW n \in Nat, n \in H PROVE n + 1 \in H
  <2>1. PICK g : IsSum(g, f, D(n))
    BY <1>3
  <2> DEFINE h == [s \in D(n + 1) |->
                     IF s = {} THEN 0 ELSE f[Pick(s)] + g[s \ {Pick(s)}]]
  <2>2. ASSUME NEW s \in D(n + 1), s # {} PROVE h[s \ {Pick(s)}] = g[s \ {Pick(s)}]
    <3>1. s \ {Pick(s)} \in D(n) /\ s \ {Pick(s)} \in D(n + 1)
      BY <1>0, <1>1, <2>2
    <3> QED
      BY Zenon, <3>1, <2>1 DEF IsSum
  <2>3. IsSum(h, f, D(n + 1))
    BY Zenon, <2>2 DEF IsSum
  <2>4. n + 1 \in Nat
    OBVIOUS
  <2> HIDE DEF h, D
  <2> QED
    BY <2>3, <2>4, Zenon
<1>4. \A n \in Nat : n \in H
  <2> HIDE DEF H
  <2> QED BY <1>2, <1>3, NatSetInduction
<1>5. D(Cardinality(S)) = SUBSET S
  BY <1>0, FS_Subset
<1>6. Cardinality(S) \in H
  BY <1>0, <1>4
<1> QED
  BY <1>5, <1>6

(* Sum functions of maps that agree on S agree wherever both are defined.  *)
LEMMA SumAgree ==
  ASSUME NEW S, IsFiniteSet(S), NEW f, NEW g, \A x \in S : f[x] = g[x],
         NEW C, NEW D, SUBSET S \subseteq C, SUBSET S \subseteq D,
         NEW i, NEW j, IsSum(i, f, C), IsSum(j, g, D)
  PROVE  i[S] = j[S]
<1> DEFINE H == {n \in Nat : \A s \in SUBSET S : Cardinality(s) = n => i[s] = j[s]}
<1>0. \A s \in SUBSET S : IsFiniteSet(s) /\ Cardinality(s) \in Nat
  BY FS_Subset, FS_CardinalityType
<1>1. 0 \in H
  <2>1. \A s \in SUBSET S : Cardinality(s) = 0 => s = {}
    BY <1>0, FS_EmptySet
  <2> QED
    BY <2>1 DEF IsSum
<1>2. ASSUME NEW n \in Nat, n \in H PROVE n + 1 \in H
  <2> SUFFICES ASSUME NEW s \in SUBSET S, Cardinality(s) = n + 1 PROVE i[s] = j[s]
    OBVIOUS
  <2>1. s # {}
    <3>1. Cardinality(s) # 0
      OBVIOUS
    <3> QED
      BY <3>1, FS_EmptySet
  <2>2. Pick(s) \in s
    BY <2>1 DEF Pick
  <2>3. Cardinality(s \ {Pick(s)}) = n
    <3>1. Cardinality(s \ {Pick(s)}) = Cardinality(s) - 1
      BY Zenon, <1>0, <2>2, FS_RemoveElement
    <3> QED
      BY <3>1
  <2>4. i[s \ {Pick(s)}] = j[s \ {Pick(s)}]
    BY <1>2, <2>3
  <2> QED
    BY ZenonT(60), <2>1, <2>2, <2>4 DEF IsSum
<1>3. \A n \in Nat : n \in H
  <2> HIDE DEF H
  <2> QED
    BY <1>1, <1>2, NatSetInduction
<1> QED
  BY <1>0, <1>3

(* The library's sum is the value of a sum function.                       *)
LEMMA SumIsSum ==
  ASSUME NEW S, IsFiniteSet(S), NEW f
  PROVE  \E g : IsSum(g, f, SUBSET S) /\ SumFunctionOnSet(f, S) = g[S]
<1> DEFINE it == CHOOSE g : IsSum(g, f, SUBSET S)
<1>1. IsSum(it, f, SUBSET S)
  BY Zenon, SumExists
<1>2. SumFunctionOnSet(f, S) = it[S]
  BY DEF SumFunctionOnSet, FoldFunctionOnSet, MapThenFoldSet, IsSum, Pick
<1> QED
  BY Zenon, <1>1, <1>2

-----------------------------------------------------------------------------
(* The sum over the empty set is 0.                                        *)
LEMMA SumEmpty ==
  ASSUME NEW f
  PROVE  SumFunctionOnSet(f, {}) = 0
<1>1. PICK g : IsSum(g, f, SUBSET {}) /\ SumFunctionOnSet(f, {}) = g[{}]
  BY Zenon, SumIsSum, FS_EmptySet
<1> QED
  BY <1>1 DEF IsSum

(* A non-empty sum is the chosen element's value plus the rest.            *)
LEMMA SumStep ==
  ASSUME NEW S, IsFiniteSet(S), S # {}, NEW f
  PROVE  SumFunctionOnSet(f, S) = f[Pick(S)] + SumFunctionOnSet(f, S \ {Pick(S)})
<1> DEFINE T == S \ {Pick(S)}
<1>1. PICK g : IsSum(g, f, SUBSET S) /\ SumFunctionOnSet(f, S) = g[S]
  BY Zenon, SumIsSum
<1>2. IsFiniteSet(T)
  BY FS_RemoveElement
<1>3. PICK h : IsSum(h, f, SUBSET T) /\ SumFunctionOnSet(f, T) = h[T]
  BY Zenon, <1>2, SumIsSum
<1>4. g[T] = h[T]
  <2>1. SUBSET T \subseteq SUBSET S /\ SUBSET T \subseteq SUBSET T
    OBVIOUS
  <2> HIDE DEF T
  <2> QED
    BY <1>1, <1>2, <1>3, <2>1, SumAgree
<1>5. g[S] = f[Pick(S)] + g[T]
  BY Zenon, <1>1 DEF IsSum
<1> QED
  BY <1>1, <1>3, <1>4, <1>5

(* Maps that agree on S have the same sum over S.                          *)
LEMMA SumSame ==
  ASSUME NEW S, IsFiniteSet(S), NEW f, NEW g, \A x \in S : f[x] = g[x]
  PROVE  SumFunctionOnSet(f, S) = SumFunctionOnSet(g, S)
<1>1. PICK i : IsSum(i, f, SUBSET S) /\ SumFunctionOnSet(f, S) = i[S]
  BY Zenon, SumIsSum
<1>2. PICK j : IsSum(j, g, SUBSET S) /\ SumFunctionOnSet(g, S) = j[S]
  BY Zenon, SumIsSum
<1>3. SUBSET S \subseteq SUBSET S
  OBVIOUS
<1>4. i[S] = j[S]
  BY <1>1, <1>2, <1>3, SumAgree
<1> QED
  BY <1>1, <1>2, <1>4

(* A sum of naturals is a natural.                                         *)
LEMMA SumNat ==
  ASSUME NEW S, IsFiniteSet(S), NEW f, \A x \in S : f[x] \in Nat
  PROVE  SumFunctionOnSet(f, S) \in Nat
<1> DEFINE H == {n \in Nat : \A s \in SUBSET S :
                    Cardinality(s) = n => SumFunctionOnSet(f, s) \in Nat}
<1>0. \A s \in SUBSET S : IsFiniteSet(s) /\ Cardinality(s) \in Nat
  BY FS_Subset, FS_CardinalityType
<1>1. 0 \in H
  <2>1. \A s \in SUBSET S : Cardinality(s) = 0 => s = {}
    BY <1>0, FS_EmptySet
  <2>2. SumFunctionOnSet(f, {}) \in Nat
    BY SumEmpty
  <2> QED
    BY <2>1, <2>2
<1>2. ASSUME NEW n \in Nat, n \in H PROVE n + 1 \in H
  <2> SUFFICES ASSUME NEW s \in SUBSET S, Cardinality(s) = n + 1
               PROVE  SumFunctionOnSet(f, s) \in Nat
    OBVIOUS
  <2>1. s # {} /\ Pick(s) \in s
    <3>1. Cardinality(s) # 0
      OBVIOUS
    <3> QED
      BY <3>1, FS_EmptySet DEF Pick
  <2>2. Cardinality(s \ {Pick(s)}) = n
    <3>1. Cardinality(s \ {Pick(s)}) = Cardinality(s) - 1
      BY <1>0, <2>1, FS_RemoveElement
    <3> QED
      BY <3>1
  <2>3. SumFunctionOnSet(f, s \ {Pick(s)}) \in Nat /\ f[Pick(s)] \in Nat
    BY <1>2, <2>1, <2>2
  <2>4. SumFunctionOnSet(f, s) = f[Pick(s)] + SumFunctionOnSet(f, s \ {Pick(s)})
    BY <1>0, <2>1, SumStep
  <2> QED
    BY <2>3, <2>4
<1>3. \A n \in Nat : n \in H
  <2> HIDE DEF H
  <2> QED
    BY <1>1, <1>2, NatSetInduction
<1> QED
  BY <1>0, <1>3

(* Any element of S can be taken out of the sum.                           *)
LEMMA SumRemove ==
  ASSUME NEW S, IsFiniteSet(S), NEW f, \A x \in S : f[x] \in Nat
  PROVE  \A x \in S : SumFunctionOnSet(f, S) = f[x] + SumFunctionOnSet(f, S \ {x})
<1> DEFINE Sum(s) == SumFunctionOnSet(f, s)
           Good(s) == \A x \in s : Sum(s) = f[x] + Sum(s \ {x})
           H == {n \in Nat : \A s \in SUBSET S : Cardinality(s) = n => Good(s)}
<1>0. \A s \in SUBSET S : IsFiniteSet(s) /\ Cardinality(s) \in Nat
  BY FS_Subset, FS_CardinalityType
<1>1. \A s \in SUBSET S : Sum(s) \in Nat
  BY <1>0, SumNat
<1>2. 0 \in H
  BY <1>0, FS_EmptySet
<1>3. ASSUME NEW n \in Nat, n \in H PROVE n + 1 \in H
  <2> SUFFICES ASSUME NEW s \in SUBSET S, Cardinality(s) = n + 1, NEW x \in s
               PROVE  Sum(s) = f[x] + Sum(s \ {x})
    OBVIOUS
  <2> DEFINE p == Pick(s)
  <2>1. p \in s
    BY DEF Pick
  <2>2. \A y \in s : Cardinality(s \ {y}) = n
    <3>1. \A y \in s : Cardinality(s \ {y}) = Cardinality(s) - 1
      BY Zenon, <1>0, FS_RemoveElement
    <3> QED
      BY <3>1
  <2>3. \A y \in s : Good(s \ {y})
    BY <1>3, <2>2
  <2>4. Sum(s) = f[p] + Sum(s \ {p})
    BY Zenon, <1>0, SumStep
  <2> HIDE DEF p
  <2>5. CASE x = p
    BY <2>4, <2>5
  <2>6. CASE x # p
    <3> DEFINE r == (s \ {p}) \ {x}
    <3>1. Sum(s \ {p}) = f[x] + Sum(r)
      BY <2>1, <2>3, <2>6
    <3>2. Sum(s \ {x}) = f[p] + Sum(r)
      <4>1. (s \ {x}) \ {p} = r
        OBVIOUS
      <4>2. Sum(s \ {x}) = f[p] + Sum((s \ {x}) \ {p})
        BY <2>1, <2>3, <2>6
      <4> HIDE DEF r
      <4> QED
        BY Zenon, <4>1, <4>2
    <3>3. Sum(r) \in Nat /\ f[x] \in Nat /\ f[p] \in Nat
      BY <1>1, <2>1
    <3> HIDE DEF r, Sum
    <3> QED
      BY <2>4, <3>1, <3>2, <3>3
  <2> QED
    BY <2>5, <2>6
<1>4. \A n \in Nat : n \in H
  <2> HIDE DEF H
  <2> QED
    BY <1>2, <1>3, NatSetInduction
<1> QED
  BY <1>0, <1>4

(* Adding an element to the set adds its value to the sum.                 *)
LEMMA SumAdd ==
  ASSUME NEW S, IsFiniteSet(S), NEW x, x \notin S, NEW f,
         \A y \in S \cup {x} : f[y] \in Nat
  PROVE  SumFunctionOnSet(f, S \cup {x}) = SumFunctionOnSet(f, S) + f[x]
<1>1. IsFiniteSet(S \cup {x}) /\ (S \cup {x}) \ {x} = S
  BY FS_AddElement
<1>2. SumFunctionOnSet(f, S \cup {x}) = f[x] + SumFunctionOnSet(f, S)
  <2>1. \A y \in S \cup {x} : SumFunctionOnSet(f, S \cup {x})
          = f[y] + SumFunctionOnSet(f, (S \cup {x}) \ {y})
    BY <1>1, SumRemove
  <2>2. SumFunctionOnSet(f, S \cup {x}) = f[x] + SumFunctionOnSet(f, (S \cup {x}) \ {x})
    BY <2>1
  <2> QED
    BY <1>1, <2>2
<1>3. SumFunctionOnSet(f, S) \in Nat /\ f[x] \in Nat
  BY SumNat
<1> QED
  BY <1>2, <1>3

(* A part of a sum of naturals is at most the whole.                       *)
LEMMA SumSubset ==
  ASSUME NEW S, IsFiniteSet(S), NEW T \in SUBSET S, NEW f,
         \A x \in S : f[x] \in Nat
  PROVE  SumFunctionOnSet(f, T) <= SumFunctionOnSet(f, S)
<1> DEFINE Sum(s) == SumFunctionOnSet(f, s)
           G == {U \in SUBSET (S \ T) : Sum(T) <= Sum(T \cup U)}
<1>0. IsFiniteSet(T) /\ IsFiniteSet(S \ T) /\ \A U \in SUBSET S : IsFiniteSet(U)
  BY FS_Subset
<1>1. \A U \in SUBSET S : Sum(U) \in Nat
  BY <1>0, SumNat
<1>2. {} \in G
  <2>1. T \cup {} = T
    OBVIOUS
  <2> QED
    BY <1>1, <2>1
<1>3. ASSUME NEW U \in SUBSET (S \ T), NEW x \in (S \ T) \ U, U \in G
      PROVE  U \cup {x} \in G
  <2>1. T \cup (U \cup {x}) = (T \cup U) \cup {x}
    OBVIOUS
  <2>2. x \notin T \cup U /\ T \cup U \in SUBSET S /\ f[x] \in Nat
    OBVIOUS
  <2>3. \A y \in (T \cup U) \cup {x} : f[y] \in Nat
    OBVIOUS
  <2>4. IsFiniteSet(T \cup U)
    BY <1>0, <2>2
  <2>5. Sum((T \cup U) \cup {x}) = Sum(T \cup U) + f[x]
    BY <2>2, <2>3, <2>4, SumAdd, Zenon
  <2> HIDE DEF Sum
  <2>6. Sum(T \cup U) \in Nat /\ Sum(T) \in Nat /\ Sum(T) <= Sum(T \cup U)
    BY <1>1, <1>3, <2>2
  <2>7. Sum(T) <= Sum(T \cup U) + f[x]
    BY <2>2, <2>6
  <2>8. Sum(T) <= Sum(T \cup (U \cup {x}))
    BY <2>1, <2>5, <2>7, Zenon
  <2> QED
    BY <2>8
<1> HIDE DEF G
<1>4. S \ T \in G
  BY Zenon, <1>0, <1>2, <1>3, FiniteSetInduction
<1>5. T \cup (S \ T) = S
  OBVIOUS
<1> QED
  BY <1>4, <1>5 DEF G

(* A linear bound on every value bounds the sum.                           *)
LEMMA SumBound ==
  ASSUME NEW S, IsFiniteSet(S), NEW f, NEW g,
         \A x \in S : f[x] \in Nat /\ g[x] \in Nat,
         NEW a \in Nat, NEW b \in Nat, NEW c \in Nat,
         \A x \in S : a * f[x] <= b * g[x] + c
  PROVE  a * SumFunctionOnSet(f, S) <= b * SumFunctionOnSet(g, S) + c * Cardinality(S)
<1> DEFINE F(T) == SumFunctionOnSet(f, T)
           H(T) == SumFunctionOnSet(g, T)
           G == {T \in SUBSET S : a * F(T) <= b * H(T) + c * Cardinality(T)}
<1>0. \A T \in SUBSET S : /\ IsFiniteSet(T) /\ Cardinality(T) \in Nat
                          /\ F(T) \in Nat /\ H(T) \in Nat
  <2>1. \A T \in SUBSET S : IsFiniteSet(T) /\ Cardinality(T) \in Nat
    BY FS_Subset, FS_CardinalityType
  <2> QED
    BY Zenon, <2>1, SumNat
<1>1. {} \in G
  <2>1. F({}) = 0 /\ H({}) = 0 /\ Cardinality({}) = 0
    BY SumEmpty, FS_EmptySet
  <2> HIDE DEF F, H
  <2>2. a * F({}) <= b * H({}) + c * Cardinality({})
    BY <2>1
  <2> QED
    BY <2>2
<1>2. ASSUME NEW T \in SUBSET S, NEW x \in S \ T, T \in G PROVE T \cup {x} \in G
  <2>1. IsFiniteSet(T) /\ \A y \in T \cup {x} : f[y] \in Nat /\ g[y] \in Nat
    BY <1>0
  <2>2. F(T \cup {x}) = F(T) + f[x]
    BY <2>1, SumAdd, Zenon
  <2>3. H(T \cup {x}) = H(T) + g[x]
    BY <2>1, SumAdd, Zenon
  <2>4. Cardinality(T \cup {x}) = Cardinality(T) + 1
    BY Zenon, <2>1, FS_AddElement
  <2>5. a * F(T) <= b * H(T) + c * Cardinality(T)
    BY <1>2
  <2> HIDE DEF F, H
  <2>6. a * (F(T) + f[x]) <= b * (H(T) + g[x]) + c * (Cardinality(T) + 1)
    <3> DEFINE u == F(T)  v == H(T)  n == Cardinality(T)  fx == f[x]  gx == g[x]
    <3>1. u \in Nat /\ v \in Nat /\ n \in Nat /\ fx \in Nat /\ gx \in Nat
      BY <1>0
    <3>2. a * u <= b * v + c * n /\ a * fx <= b * gx + c
      BY <2>5
    <3> HIDE DEF u, v, n, fx, gx
    <3>3. a * (u + fx) = a * u + a * fx /\ b * (v + gx) = b * v + b * gx
          /\ c * (n + 1) = c * n + c
      BY <3>1
    <3>4. a * u \in Nat /\ a * fx \in Nat /\ b * v \in Nat /\ b * gx \in Nat /\ c * n \in Nat
      BY <3>1
    <3>5. a * u + a * fx <= (b * v + b * gx) + (c * n + c)
      <4> DEFINE A == a * u  B == a * fx  C == b * v  D == b * gx  E == c * n
      <4>1. A \in Nat /\ B \in Nat /\ C \in Nat /\ D \in Nat /\ E \in Nat
            /\ A <= C + E /\ B <= D + c
        BY <3>2, <3>4
      <4> HIDE DEF A, B, C, D, E
      <4>2. A + B <= (C + D) + (E + c)
        BY <4>1
      <4> QED
        BY <4>2 DEF A, B, C, D, E
    <3>6. a * (u + fx) <= b * (v + gx) + c * (n + 1)
      BY <3>3, <3>5
    <3> QED
      BY <3>6 DEF u, v, n, fx, gx
  <2>7. a * F(T \cup {x}) <= b * H(T \cup {x}) + c * Cardinality(T \cup {x})
    BY <2>2, <2>3, <2>4, <2>6, Zenon
  <2> QED
    BY <2>7
<1> HIDE DEF G
<1>3. S \in G
  BY Zenon, <1>1, <1>2, FiniteSetInduction
<1> QED
  BY <1>3 DEF G
=============================================================================
