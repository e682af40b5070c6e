----------------------------- MODULE SumTheorems -----------------------------
(***************************************************************************)
(* Sums of integers over finite sets (Functions, SumFunctionOnSet): what   *)
(* the proofs about quantities need of them; and that a fold over a finite *)
(* set (Folds) exists.  The induction is over sets of subsets, which takes *)
(* no operator as a parameter.                                             *)
(***************************************************************************)
EXTENDS Integers, FiniteSets, Functions, FiniteSetTheorems, WellFoundedInduction, TLAPS

\* A set of naturals that is not empty has a least element.
LEMMA LeastNatural ==
    ASSUME NEW T \in SUBSET Nat, T # {}
    PROVE  \E m \in T : \A n \in T : m <= n
<1>1. PICK m \in T : \A n \in T : ~(<<n, m>> \in OpToRel(<, Nat))
  BY NatLessThanWellFounded, WFMin
<1>2. \A n \in T : ~(n < m)
  BY <1>1 DEF OpToRel
<1> QED BY <1>2

\* Every subset is good if the empty one is and each is that is with every element less.
LEMMA SubsetInduction ==
    ASSUME NEW S, IsFiniteSet(S), NEW Good \in SUBSET (SUBSET S), {} \in Good,
           \A T \in SUBSET S : (\A x \in T : T \ {x} \in Good) => T \in Good
    PROVE  Good = SUBSET S
<1> DEFINE Bad == (SUBSET S) \ Good
           Sizes == {Cardinality(T) : T \in Bad}
<1>1. SUFFICES ASSUME Bad # {} PROVE FALSE
  OBVIOUS
<1>2. \A T \in SUBSET S : IsFiniteSet(T) /\ Cardinality(T) \in Nat
  BY FS_Subset, FS_CardinalityType
<1>3. Sizes \in SUBSET Nat /\ Sizes # {}
  BY <1>1, <1>2
<1>4. PICK m \in Sizes : \A n \in Sizes : m <= n
  BY <1>3, LeastNatural
<1>5. PICK T \in Bad : Cardinality(T) = m
  BY <1>4
<1>6. PICK x \in T : T \ {x} \notin Good
  BY <1>5
<1>7. T \ {x} \in Bad
  BY <1>6
<1>8. Cardinality(T \ {x}) = Cardinality(T) - 1
  BY <1>2, FS_RemoveElement
<1>9. m <= m - 1 /\ m \in Nat
  BY <1>3, <1>4, <1>5, <1>7, <1>8
<1> QED BY <1>9

-----------------------------------------------------------------------------
(* Folds                                                                   *)

\* A value for every subset of a finite set, computed from that of a smaller subset.
Computes(S, B, base, step, rest) ==
    /\ IsFiniteSet(S) /\ base \in B
    /\ step \in [SUBSET S -> [B -> B]]
    /\ rest \in [SUBSET S -> SUBSET S]
    /\ \A s \in (SUBSET S) \ {{}} : rest[s] \subseteq s /\ rest[s] # s

Values(S, B, base, step, rest) ==
    {g \in [SUBSET S -> B] : \A s \in SUBSET S : g[s] = IF s = {} THEN base ELSE step[s][g[rest[s]]]}

\* There is such a function: there is on the subsets of up to n elements, for every n.
LEMMA FoldExists ==
    ASSUME NEW S, NEW B, NEW base, NEW step, NEW rest, Computes(S, B, base, step, rest)
    PROVE  \E g : g \in Values(S, B, base, step, rest)
<1>00. /\ IsFiniteSet(S) /\ base \in B
      /\ step \in [SUBSET S -> [B -> B]]
      /\ rest \in [SUBSET S -> SUBSET S]
      /\ \A s \in (SUBSET S) \ {{}} : rest[s] \subseteq s /\ rest[s] # s
  BY DEF Computes
<1> USE <1>00
<1> DEFINE Small(n) == {s \in SUBSET S : Cardinality(s) <= n}
           Fold(D, g) == [s \in D |-> IF s = {} THEN base ELSE step[s][g[rest[s]]]]
           Has(n) == \E g \in [Small(n) -> B] : g = Fold(Small(n), g)
           Lacks == {n \in Nat : ~Has(n)}
<1>0. \A s \in SUBSET S : IsFiniteSet(s) /\ Cardinality(s) \in Nat /\ (Cardinality(s) = 0 <=> s = {})
  BY FS_Subset, FS_CardinalityType, FS_EmptySet
<1>1. Has(0)
  <2>1. \A s \in Small(0) : s = {}
    BY <1>0
  <2>2. [s \in Small(0) |-> base] = Fold(Small(0), [s \in Small(0) |-> base])
    BY <2>1
  <2> QED BY <2>2
<1>2. ASSUME NEW n \in Nat, Has(n) PROVE Has(n + 1)
  <2>1. PICK g \in [Small(n) -> B] : g = Fold(Small(n), g)
    BY <1>2
  <2> DEFINE h == Fold(Small(n + 1), g)
  <2>2. \A s \in Small(n + 1) : s # {} => rest[s] \in Small(n)
    <3> SUFFICES ASSUME NEW s \in Small(n + 1), s # {} PROVE rest[s] \in Small(n)
      OBVIOUS
    <3>1. rest[s] \subseteq s /\ rest[s] # s /\ rest[s] \in SUBSET S
      OBVIOUS
    <3>2. Cardinality(rest[s]) <= Cardinality(s) /\ Cardinality(rest[s]) # Cardinality(s)
      BY <1>0, <3>1, FS_Subset
    <3> QED BY <1>0, <3>1, <3>2
  <2>3. \A s \in Small(n) : s \in Small(n + 1) /\ h[s] = g[s]
    <3>1. ASSUME NEW s \in Small(n) PROVE s \in Small(n + 1)
      BY <1>0, <3>1
    <3>2. ASSUME NEW s \in Small(n) PROVE h[s] = g[s]
      <4>1. h[s] = IF s = {} THEN base ELSE step[s][g[rest[s]]]
        BY <3>1
      <4>2. Fold(Small(n), g)[s] = IF s = {} THEN base ELSE step[s][g[rest[s]]]
        OBVIOUS
      <4> QED BY <2>1, <4>1, <4>2
    <3> QED BY <3>1, <3>2
  <2>4. h \in [Small(n + 1) -> B]
    <3> SUFFICES ASSUME NEW s \in Small(n + 1)
                 PROVE  (IF s = {} THEN base ELSE step[s][g[rest[s]]]) \in B
      OBVIOUS
    <3>1. s \in SUBSET S
      OBVIOUS
    <3> HIDE DEF Small
    <3> QED BY <2>2, <3>1
  <2>5. h = Fold(Small(n + 1), h)
    <3>1. \A s \in Small(n + 1) :
             (IF s = {} THEN base ELSE step[s][g[rest[s]]]) =
             (IF s = {} THEN base ELSE step[s][h[rest[s]]])
      <4> HIDE DEF Small, h
      <4> QED BY <2>2, <2>3
    <3>2. Fold(Small(n + 1), g) = Fold(Small(n + 1), h)
      <4> HIDE DEF Small, h
      <4> QED BY <3>1
    <3> QED BY <3>2
  <2> QED BY <2>4, <2>5
<1>3. Lacks = {}
  <2> SUFFICES ASSUME Lacks # {} PROVE FALSE
    OBVIOUS
  <2> HIDE DEF Has
  <2>1. Lacks \in SUBSET Nat
    OBVIOUS
  <2>2. PICK m \in Lacks : \A n \in Lacks : m <= n
    BY <2>1, LeastNatural
  <2>3. m \in Nat /\ ~Has(m)
    OBVIOUS
  <2>4. m # 0
    BY <1>1, <2>3
  <2>5. m - 1 \in Nat
    BY <2>3, <2>4
  <2>6. m - 1 \notin Lacks
    <3> HIDE DEF Lacks
    <3> QED BY <2>2, <2>3
  <2>7. Has(m - 1)
    BY <2>5, <2>6
  <2>8. Has((m - 1) + 1)
    BY <1>2, <2>5, <2>7
  <2>9. (m - 1) + 1 = m
    BY <2>3
  <2> QED BY <2>3, <2>8, <2>9
<1>4. Cardinality(S) \in Nat /\ Small(Cardinality(S)) = SUBSET S
  <2>1. \A s \in SUBSET S : Cardinality(s) <= Cardinality(S)
    BY FS_Subset
  <2> QED BY <1>0, <2>1
<1>5. Has(Cardinality(S))
  <2> HIDE DEF Has
  <2> QED BY <1>3, <1>4
<1> PICK g \in [Small(Cardinality(S)) -> B] : g = Fold(Small(Cardinality(S)), g)
  BY <1>5
<1>6. g \in [SUBSET S -> B] /\ g = Fold(SUBSET S, g)
  <2> HIDE DEF Small, Fold
  <2> QED BY <1>4
<1>7. ASSUME NEW s \in SUBSET S PROVE g[s] = IF s = {} THEN base ELSE step[s][g[rest[s]]]
  <2>1. Fold(SUBSET S, g)[s] = IF s = {} THEN base ELSE step[s][g[rest[s]]]
    OBVIOUS
  <2> HIDE DEF Fold
  <2> QED BY <1>6, <2>1
<1> QED BY <1>6, <1>7 DEF Values

-----------------------------------------------------------------------------
(* The recursive function behind the sum                                   *)

Pick(s) == CHOOSE x \in s : TRUE

Adds(f, D, g) == [s \in D |-> IF s = {} THEN 0 ELSE f[Pick(s)] + g[s \ {Pick(s)}]]

SumIn(f, S) == CHOOSE g : g = Adds(f, SUBSET S, g)

LEMMA SumUnfolds == ASSUME NEW f, NEW S PROVE SumFunctionOnSet(f, S) = SumIn(f, S)[S]
  BY DEF SumFunctionOnSet, FoldFunctionOnSet, MapThenFoldSet, SumIn, Adds, Pick

LEMMA PickLess ==
    ASSUME NEW S, IsFiniteSet(S), NEW s \in SUBSET S, s # {}
    PROVE  Pick(s) \in s /\ Cardinality(s \ {Pick(s)}) = Cardinality(s) - 1
<1>1. Pick(s) \in s
  BY DEF Pick
<1>2. IsFiniteSet(s)
  BY FS_Subset
<1> QED BY <1>1, <1>2, FS_RemoveElement

\* The function exists: it does on the subsets of up to n elements, for every n.
LEMMA SumExists == ASSUME NEW f, NEW S, IsFiniteSet(S) PROVE \E g : g = Adds(f, SUBSET S, g)
<1> DEFINE Small(n) == {s \in SUBSET S : Cardinality(s) <= n}
           Has(n) == \E g : g = Adds(f, Small(n), g)
           Lacks == {n \in Nat : ~Has(n)}
<1>0. \A s \in SUBSET S : IsFiniteSet(s) /\ Cardinality(s) \in Nat /\ (Cardinality(s) = 0 <=> s = {})
  BY FS_Subset, FS_CardinalityType, FS_EmptySet
<1>1. Has(0)
  <2>1. \A s \in Small(0) : s = {}
    BY <1>0
  <2>2. [s \in Small(0) |-> 0] = Adds(f, Small(0), [s \in Small(0) |-> 0])
    BY <2>1 DEF Adds
  <2> QED BY <2>2
<1>2. ASSUME NEW n \in Nat, Has(n) PROVE Has(n + 1)
  <2>1. PICK g : g = Adds(f, Small(n), g)
    BY <1>2
  <2> DEFINE h == Adds(f, Small(n + 1), g)
  <2>2. \A s \in Small(n) : s \in Small(n + 1) /\ h[s] = g[s]
    <3>1. ASSUME NEW s \in Small(n) PROVE s \in Small(n + 1)
      BY <1>0, <3>1
    <3>2. ASSUME NEW s \in Small(n) PROVE h[s] = g[s]
      <4>1. h[s] = IF s = {} THEN 0 ELSE f[Pick(s)] + g[s \ {Pick(s)}]
        BY <3>1 DEF Adds
      <4>2. Adds(f, Small(n), g)[s] = IF s = {} THEN 0 ELSE f[Pick(s)] + g[s \ {Pick(s)}]
        BY DEF Adds
      <4> QED BY <2>1, <4>1, <4>2
    <3> QED BY <3>1, <3>2
  <2>3. \A s \in Small(n + 1) : s # {} => s \ {Pick(s)} \in Small(n)
    <3> SUFFICES ASSUME NEW s \in Small(n + 1), s # {} PROVE s \ {Pick(s)} \in Small(n)
      OBVIOUS
    <3>1. Cardinality(s \ {Pick(s)}) = Cardinality(s) - 1
      BY PickLess
    <3> QED BY <1>0, <3>1
  <2>4. \A s \in Small(n + 1) :
           (IF s = {} THEN 0 ELSE f[Pick(s)] + g[s \ {Pick(s)}]) = (IF s = {} THEN 0 ELSE f[Pick(s)] + h[s \ {Pick(s)}])
    <3> SUFFICES ASSUME NEW s \in Small(n + 1), s # {} PROVE h[s \ {Pick(s)}] = g[s \ {Pick(s)}]
      BY Zenon
    <3>1. s \ {Pick(s)} \in Small(n)
      BY <2>3
    <3> QED BY <2>2, <3>1
  <2>5. Adds(f, Small(n + 1), g) = Adds(f, Small(n + 1), h)
    <3> HIDE DEF Small, h
    <3> QED BY <2>4 DEF Adds
  <2> QED BY <2>5
<1>3. Lacks = {}
  <2> SUFFICES ASSUME Lacks # {} PROVE FALSE
    OBVIOUS
  <2> HIDE DEF Has
  <2>1. Lacks \in SUBSET Nat
    OBVIOUS
  <2>2. PICK m \in Lacks : \A n \in Lacks : m <= n
    BY <2>1, LeastNatural
  <2>3. m \in Nat /\ ~Has(m)
    OBVIOUS
  <2>4. m # 0
    BY <1>1, <2>3
  <2>5. m - 1 \in Nat
    BY <2>3, <2>4
  <2>6. m - 1 \notin Lacks
    <3> HIDE DEF Lacks
    <3> QED BY <2>2, <2>3
  <2>7. Has(m - 1)
    BY <2>5, <2>6
  <2>8. Has((m - 1) + 1)
    BY <1>2, <2>5, <2>7
  <2>9. (m - 1) + 1 = m
    BY <2>3
  <2> QED BY <2>3, <2>8, <2>9
<1>4. Cardinality(S) \in Nat /\ Small(Cardinality(S)) = SUBSET S
  <2>1. \A s \in SUBSET S : Cardinality(s) <= Cardinality(S)
    BY FS_Subset
  <2> QED BY <1>0, <2>1
<1> QED BY <1>3, <1>4

-----------------------------------------------------------------------------
(* The sum                                                                 *)

LEMMA SumInIs ==
    ASSUME NEW f, NEW S, IsFiniteSet(S), NEW s \in SUBSET S
    PROVE  SumIn(f, S)[s] = IF s = {} THEN 0 ELSE f[Pick(s)] + SumIn(f, S)[s \ {Pick(s)}]
<1>1. SumIn(f, S) = Adds(f, SUBSET S, SumIn(f, S))
  BY SumExists DEF SumIn
<1>2. Adds(f, SUBSET S, SumIn(f, S))[s] = IF s = {} THEN 0 ELSE f[Pick(s)] + SumIn(f, S)[s \ {Pick(s)}]
  BY DEF Adds
<1> QED BY <1>1, <1>2

\* It does not matter within which set a set is summed.
LEMMA SumAnywhere ==
    ASSUME NEW f, NEW S, IsFiniteSet(S), NEW T \in SUBSET S
    PROVE  SumIn(f, S)[T] = SumFunctionOnSet(f, T)
<1> DEFINE Good == {s \in SUBSET T : SumIn(f, S)[s] = SumIn(f, T)[s]}
<1>1. IsFiniteSet(T)
  BY FS_Subset
<1>2. {} \in Good
  BY <1>1, SumInIs
<1>3. ASSUME NEW s \in SUBSET T, \A x \in s : s \ {x} \in Good PROVE s \in Good
  <2>1. CASE s = {}
    BY <1>2, <2>1
  <2>2. CASE s # {}
    <3>1. Pick(s) \in s
      BY <2>2 DEF Pick
    <3>2. SumIn(f, S)[s \ {Pick(s)}] = SumIn(f, T)[s \ {Pick(s)}]
      BY <1>3, <3>1
    <3>3. /\ SumIn(f, S)[s] = f[Pick(s)] + SumIn(f, S)[s \ {Pick(s)}]
          /\ SumIn(f, T)[s] = f[Pick(s)] + SumIn(f, T)[s \ {Pick(s)}]
      BY <1>1, <2>2, SumInIs
    <3> QED BY <3>2, <3>3
  <2> QED BY <2>1, <2>2
<1>4. Good = SUBSET T
  <2> HIDE DEF Good
  <2>1. Good \in SUBSET (SUBSET T)
    BY DEF Good
  <2> QED BY <1>1, <1>2, <1>3, <2>1, SubsetInduction
<1> QED BY <1>4, SumUnfolds

LEMMA SumPick ==
    ASSUME NEW f, NEW S, IsFiniteSet(S)
    PROVE  SumFunctionOnSet(f, S) =
             IF S = {} THEN 0 ELSE f[Pick(S)] + SumFunctionOnSet(f, S \ {Pick(S)})
<1>1. SumFunctionOnSet(f, S) = SumIn(f, S)[S]
  BY SumUnfolds
<1>2. SumIn(f, S)[S \ {Pick(S)}] = SumFunctionOnSet(f, S \ {Pick(S)})
  BY SumAnywhere
<1> QED BY <1>1, <1>2, SumInIs

\* The sum of integers is an integer.
LEMMA SumType ==
    ASSUME NEW S, IsFiniteSet(S), NEW f, \A x \in S : f[x] \in Int
    PROVE  SumFunctionOnSet(f, S) \in Int
<1> DEFINE Good == {T \in SUBSET S : SumFunctionOnSet(f, T) \in Int}
<1>0. \A T \in SUBSET S : IsFiniteSet(T)
  BY FS_Subset
<1>1. ASSUME NEW T \in SUBSET S, \A x \in T : T \ {x} \in Good PROVE T \in Good
  <2>1. CASE T = {}
    <3>1. SumFunctionOnSet(f, T) = 0
      BY <1>0, <2>1, SumPick
    <3> QED BY <3>1
  <2>2. CASE T # {}
    <3>1. Pick(T) \in T
      BY <2>2 DEF Pick
    <3>2. SumFunctionOnSet(f, T) = f[Pick(T)] + SumFunctionOnSet(f, T \ {Pick(T)})
      BY <1>0, <2>2, SumPick
    <3> QED BY <1>1, <3>1, <3>2
  <2> QED BY <2>1, <2>2
<1>2. {} \in Good
  BY <1>1
<1>3. Good = SUBSET S
  <2> HIDE DEF Good
  <2>1. Good \in SUBSET (SUBSET S)
    BY DEF Good
  <2> QED BY <1>1, <1>2, <2>1, SubsetInduction
<1> QED BY <1>3

\* Any element may be taken out first.
LEMMA SumRemove ==
    ASSUME NEW S, IsFiniteSet(S), NEW f, \A x \in S : f[x] \in Int, NEW i \in S
    PROVE  SumFunctionOnSet(f, S) = f[i] + SumFunctionOnSet(f, S \ {i})
<1> DEFINE Good == {T \in SUBSET S : \A x \in T : SumFunctionOnSet(f, T) = f[x] + SumFunctionOnSet(f, T \ {x})}
<1>0. \A T \in SUBSET S : IsFiniteSet(T) /\ SumFunctionOnSet(f, T) \in Int
  <2>1. \A T \in SUBSET S : IsFiniteSet(T)
    BY FS_Subset
  <2>2. ASSUME NEW T \in SUBSET S PROVE SumFunctionOnSet(f, T) \in Int
    BY <2>1, SumType
  <2> QED BY <2>1, <2>2
<1>1. ASSUME NEW T \in SUBSET S, \A x \in T : T \ {x} \in Good, NEW x \in T
      PROVE  SumFunctionOnSet(f, T) = f[x] + SumFunctionOnSet(f, T \ {x})
  <2> DEFINE p == Pick(T)
  <2>1. p \in T /\ SumFunctionOnSet(f, T) = f[p] + SumFunctionOnSet(f, T \ {p})
    <3>1. p \in T
      BY DEF Pick
    <3> QED BY <1>0, <3>1, SumPick
  <2> HIDE DEF p
  <2>2. CASE p = x
    BY <2>1, <2>2
  <2>3. CASE p # x
    <3>1. SumFunctionOnSet(f, T \ {p}) = f[x] + SumFunctionOnSet(f, (T \ {p}) \ {x})
      BY <1>1, <2>1, <2>3
    <3>2. SumFunctionOnSet(f, T \ {x}) = f[p] + SumFunctionOnSet(f, (T \ {x}) \ {p})
      BY <1>1, <2>1, <2>3
    <3>3. SumFunctionOnSet(f, (T \ {p}) \ {x}) = SumFunctionOnSet(f, (T \ {x}) \ {p})
      <4>1. (T \ {p}) \ {x} = (T \ {x}) \ {p}
        OBVIOUS
      <4> QED BY <4>1
    <3>4. f[p] \in Int /\ f[x] \in Int /\ SumFunctionOnSet(f, (T \ {x}) \ {p}) \in Int
      BY <1>0, <2>1
    <3> QED BY <2>1, <3>1, <3>2, <3>3, <3>4
  <2> QED BY <2>2, <2>3
<1>2. {} \in Good
  OBVIOUS
<1>3. Good = SUBSET S
  <2>1. \A T \in SUBSET S : (\A x \in T : T \ {x} \in Good) => T \in Good
    BY <1>1
  <2> HIDE DEF Good
  <2>2. Good \in SUBSET (SUBSET S)
    BY DEF Good
  <2> QED BY <1>2, <2>1, <2>2, SubsetInduction
<1>4. S \in Good
  BY <1>3
<1> QED BY <1>4

\* What holds of every summand holds of the sums: of two functions, the larger has the larger sum.
LEMMA SumMonotone ==
    ASSUME NEW S, IsFiniteSet(S), NEW f, NEW g, \A x \in S : f[x] \in Int /\ g[x] \in Int /\ f[x] <= g[x]
    PROVE  SumFunctionOnSet(f, S) <= SumFunctionOnSet(g, S)
<1> DEFINE Good == {T \in SUBSET S : SumFunctionOnSet(f, T) <= SumFunctionOnSet(g, T)}
<1>0. \A T \in SUBSET S : IsFiniteSet(T) /\ SumFunctionOnSet(f, T) \in Int /\ SumFunctionOnSet(g, T) \in Int
  <2>1. \A T \in SUBSET S : IsFiniteSet(T)
    BY FS_Subset
  <2>2. ASSUME NEW T \in SUBSET S PROVE SumFunctionOnSet(f, T) \in Int /\ SumFunctionOnSet(g, T) \in Int
    BY <2>1, SumType
  <2> QED BY <2>1, <2>2
<1>1. ASSUME NEW T \in SUBSET S, \A x \in T : T \ {x} \in Good PROVE T \in Good
  <2>1. CASE T = {}
    <3>1. SumFunctionOnSet(f, T) = 0 /\ SumFunctionOnSet(g, T) = 0
      BY <1>0, <2>1, SumPick
    <3> QED BY <3>1
  <2>2. CASE T # {}
    <3>1. PICK p \in T : TRUE
      BY <2>2
    <3>2. /\ SumFunctionOnSet(f, T) = f[p] + SumFunctionOnSet(f, T \ {p})
          /\ SumFunctionOnSet(g, T) = g[p] + SumFunctionOnSet(g, T \ {p})
      BY <1>0, SumRemove
    <3>3. SumFunctionOnSet(f, T \ {p}) <= SumFunctionOnSet(g, T \ {p})
      BY <1>1
    <3>4. /\ f[p] \in Int /\ g[p] \in Int /\ f[p] <= g[p]
          /\ SumFunctionOnSet(f, T \ {p}) \in Int /\ SumFunctionOnSet(g, T \ {p}) \in Int
      BY <1>0
    <3> QED BY <3>2, <3>3, <3>4
  <2> QED BY <2>1, <2>2
<1>2. {} \in Good
  BY <1>1
<1>3. Good = SUBSET S
  <2> HIDE DEF Good
  <2>1. Good \in SUBSET (SUBSET S)
    BY DEF Good
  <2> QED BY <1>1, <1>2, <2>1, SubsetInduction
<1> QED BY <1>3

LEMMA SumSame ==
    ASSUME NEW S, IsFiniteSet(S), NEW f, NEW g, \A x \in S : f[x] \in Int /\ g[x] = f[x]
    PROVE  SumFunctionOnSet(g, S) = SumFunctionOnSet(f, S)
<1>1. SumFunctionOnSet(f, S) <= SumFunctionOnSet(g, S) /\ SumFunctionOnSet(g, S) <= SumFunctionOnSet(f, S)
  BY SumMonotone
<1>2. SumFunctionOnSet(f, S) \in Int /\ SumFunctionOnSet(g, S) \in Int
  BY SumType
<1> QED BY <1>1, <1>2

\* A change of one summand changes the sum by as much.
LEMMA SumChange ==
    ASSUME NEW S, IsFiniteSet(S), NEW f, NEW g, NEW i \in S,
           \A x \in S : f[x] \in Int /\ g[x] \in Int, \A x \in S \ {i} : g[x] = f[x]
    PROVE  SumFunctionOnSet(g, S) = SumFunctionOnSet(f, S) + g[i] - f[i]
<1>1. IsFiniteSet(S \ {i})
  BY FS_Subset
<1>2. /\ SumFunctionOnSet(f, S) = f[i] + SumFunctionOnSet(f, S \ {i})
      /\ SumFunctionOnSet(g, S) = g[i] + SumFunctionOnSet(g, S \ {i})
  BY SumRemove
<1>3. SumFunctionOnSet(g, S \ {i}) = SumFunctionOnSet(f, S \ {i}) /\ SumFunctionOnSet(f, S \ {i}) \in Int
  BY <1>1, SumSame, SumType
<1> QED BY <1>2, <1>3

\* Of two summands, likewise.
LEMMA SumChangeTwo ==
    ASSUME NEW S, IsFiniteSet(S), NEW f, NEW g, NEW i \in S, NEW n \in S, i # n,
           \A x \in S : f[x] \in Int /\ g[x] \in Int, \A x \in S \ {i, n} : g[x] = f[x]
    PROVE  SumFunctionOnSet(g, S) = SumFunctionOnSet(f, S) + g[i] - f[i] + g[n] - f[n]
<1> DEFINE m == [x \in S |-> IF x = i THEN g[i] ELSE f[x]]
<1>1. /\ \A x \in S : m[x] \in Int
      /\ \A x \in S \ {i} : m[x] = f[x]
      /\ \A x \in S \ {n} : g[x] = m[x]
      /\ m[i] = g[i] /\ m[n] = f[n]
  OBVIOUS
<1> HIDE DEF m
<1>2. SumFunctionOnSet(m, S) = SumFunctionOnSet(f, S) + m[i] - f[i]
  BY <1>1, SumChange
<1>3. SumFunctionOnSet(g, S) = SumFunctionOnSet(m, S) + g[n] - m[n]
  BY <1>1, SumChange
<1>4. SumFunctionOnSet(f, S) \in Int /\ f[i] \in Int /\ g[i] \in Int /\ f[n] \in Int /\ g[n] \in Int
  BY SumType
<1> QED BY <1>1, <1>2, <1>3, <1>4

\* Two sums over one set add up.
LEMMA SumPlus ==
    ASSUME NEW S, IsFiniteSet(S), NEW f, NEW g, NEW h,
           \A x \in S : f[x] \in Int /\ g[x] \in Int /\ h[x] = f[x] + g[x]
    PROVE  SumFunctionOnSet(h, S) = SumFunctionOnSet(f, S) + SumFunctionOnSet(g, S)
<1> DEFINE Good == {T \in SUBSET S : SumFunctionOnSet(h, T) = SumFunctionOnSet(f, T) + SumFunctionOnSet(g, T)}
<1>0. \A T \in SUBSET S : IsFiniteSet(T) /\ SumFunctionOnSet(f, T) \in Int /\ SumFunctionOnSet(g, T) \in Int
  <2>1. \A T \in SUBSET S : IsFiniteSet(T)
    BY FS_Subset
  <2>2. ASSUME NEW T \in SUBSET S PROVE SumFunctionOnSet(f, T) \in Int /\ SumFunctionOnSet(g, T) \in Int
    BY <2>1, SumType
  <2> QED BY <2>1, <2>2
<1>1. ASSUME NEW T \in SUBSET S, \A x \in T : T \ {x} \in Good PROVE T \in Good
  <2>1. CASE T = {}
    <3>1. SumFunctionOnSet(f, T) = 0 /\ SumFunctionOnSet(g, T) = 0 /\ SumFunctionOnSet(h, T) = 0
      BY <1>0, <2>1, SumPick
    <3> QED BY <3>1
  <2>2. CASE T # {}
    <3>1. PICK p \in T : TRUE
      BY <2>2
    <3>2. /\ SumFunctionOnSet(f, T) = f[p] + SumFunctionOnSet(f, T \ {p})
          /\ SumFunctionOnSet(g, T) = g[p] + SumFunctionOnSet(g, T \ {p})
      BY <1>0, SumRemove
    <3>3. SumFunctionOnSet(h, T) = h[p] + SumFunctionOnSet(h, T \ {p})
      <4>1. \A x \in T : h[x] \in Int
        OBVIOUS
      <4> QED BY <1>0, <4>1, SumRemove
    <3>4. SumFunctionOnSet(h, T \ {p}) = SumFunctionOnSet(f, T \ {p}) + SumFunctionOnSet(g, T \ {p})
      BY <1>1
    <3>5. /\ f[p] \in Int /\ g[p] \in Int /\ h[p] = f[p] + g[p]
          /\ SumFunctionOnSet(f, T \ {p}) \in Int /\ SumFunctionOnSet(g, T \ {p}) \in Int
      BY <1>0
    <3> QED BY <3>2, <3>3, <3>4, <3>5
  <2> QED BY <2>1, <2>2
<1>2. {} \in Good
  BY <1>1
<1>3. Good = SUBSET S
  <2> HIDE DEF Good
  <2>1. Good \in SUBSET (SUBSET S)
    BY DEF Good
  <2> QED BY <1>1, <1>2, <2>1, SubsetInduction
<1> QED BY <1>3

\* Zeros do not count.
LEMMA SumRestrict ==
    ASSUME NEW S, IsFiniteSet(S), NEW T \in SUBSET S, NEW f, \A x \in T : f[x] \in Int,
           NEW g, \A x \in S : g[x] = IF x \in T THEN f[x] ELSE 0
    PROVE  SumFunctionOnSet(g, S) = SumFunctionOnSet(f, T)
<1> DEFINE Good == {U \in SUBSET S : SumFunctionOnSet(g, U) = SumFunctionOnSet(f, U \cap T)}
<1>0. /\ \A U \in SUBSET S : IsFiniteSet(U) /\ IsFiniteSet(U \cap T)
      /\ \A x \in S : g[x] \in Int
  BY FS_Subset
<1>1. ASSUME NEW U \in SUBSET S, \A x \in U : U \ {x} \in Good PROVE U \in Good
  <2>1. CASE U = {}
    <3>1. SumFunctionOnSet(g, U) = 0 /\ U \cap T = U /\ SumFunctionOnSet(f, U) = 0
      BY <1>0, <2>1, SumPick
    <3> QED BY <3>1
  <2>2. CASE U # {}
    <3>1. PICK p \in U : TRUE
      BY <2>2
    <3>2. SumFunctionOnSet(g, U) = g[p] + SumFunctionOnSet(g, U \ {p})
      BY <1>0, SumRemove
    <3>3. SumFunctionOnSet(g, U \ {p}) = SumFunctionOnSet(f, (U \ {p}) \cap T)
      BY <1>1
    <3>4. CASE p \in T
      <4>1. SumFunctionOnSet(f, U \cap T) = f[p] + SumFunctionOnSet(f, (U \cap T) \ {p})
        BY <1>0, <3>4, SumRemove
      <4>2. (U \cap T) \ {p} = (U \ {p}) \cap T
        OBVIOUS
      <4> QED BY <3>2, <3>3, <3>4, <4>1, <4>2
    <3>5. CASE p \notin T
      <4>1. (U \ {p}) \cap T = U \cap T /\ g[p] = 0
        BY <3>5
      <4>2. SumFunctionOnSet(g, U \ {p}) \in Int
        BY <1>0, SumType
      <4>3. SumFunctionOnSet(f, (U \ {p}) \cap T) = SumFunctionOnSet(f, U \cap T)
        BY <4>1
      <4> QED BY <3>2, <3>3, <4>1, <4>2, <4>3
    <3> QED BY <3>4, <3>5
  <2> QED BY <2>1, <2>2
<1>2. {} \in Good
  BY <1>1
<1>3. Good = SUBSET S
  <2> HIDE DEF Good
  <2>1. Good \in SUBSET (SUBSET S)
    BY DEF Good
  <2> QED BY <1>1, <1>2, <2>1, SubsetInduction
<1>4. S \cap T = T
  OBVIOUS
<1> QED BY <1>3, <1>4

\* A sum is that of a part of the set and that of the rest.
LEMMA SumSplit ==
    ASSUME NEW S, IsFiniteSet(S), NEW T \in SUBSET S, NEW f, \A x \in S : f[x] \in Int
    PROVE  SumFunctionOnSet(f, S) = SumFunctionOnSet(f, T) + SumFunctionOnSet(f, S \ T)
<1> DEFINE g == [x \in S |-> IF x \in T THEN f[x] ELSE 0]
           h == [x \in S |-> IF x \in S \ T THEN f[x] ELSE 0]
<1>1. /\ \A x \in S : g[x] = IF x \in T THEN f[x] ELSE 0
      /\ \A x \in S : h[x] = IF x \in S \ T THEN f[x] ELSE 0
  OBVIOUS
<1> HIDE DEF g, h
<1>2. SumFunctionOnSet(g, S) = SumFunctionOnSet(f, T)
  BY <1>1, SumRestrict
<1>3. SumFunctionOnSet(h, S) = SumFunctionOnSet(f, S \ T)
  <2>1. S \ T \in SUBSET S /\ \A x \in S \ T : f[x] \in Int
    OBVIOUS
  <2> QED BY <1>1, <2>1, SumRestrict
<1>4. \A x \in S : g[x] \in Int /\ h[x] \in Int /\ f[x] = g[x] + h[x]
  BY <1>1
<1>5. SumFunctionOnSet(f, S) = SumFunctionOnSet(g, S) + SumFunctionOnSet(h, S)
  BY <1>4, SumPlus
<1> QED BY <1>2, <1>3, <1>5

LEMMA SumZero ==
    ASSUME NEW S, IsFiniteSet(S), NEW f, \A x \in S : f[x] = 0
    PROVE  SumFunctionOnSet(f, S) = 0
<1>1. \A x \in S : f[x] \in Int /\ f[x] = f[x] + f[x]
  OBVIOUS
<1>2. SumFunctionOnSet(f, S) = SumFunctionOnSet(f, S) + SumFunctionOnSet(f, S) /\ SumFunctionOnSet(f, S) \in Int
  BY <1>1, SumPlus, SumType
<1>3. \A a \in Int : a = a + a => a = 0
  OBVIOUS
<1> QED BY <1>2, <1>3, Zenon

LEMMA SumOpposite ==
    ASSUME NEW S, IsFiniteSet(S), NEW f, NEW g, \A x \in S : f[x] \in Int /\ g[x] = -f[x]
    PROVE  SumFunctionOnSet(g, S) = -SumFunctionOnSet(f, S)
<1> DEFINE h == [x \in S |-> 0]
<1>1. \A x \in S : f[x] \in Int /\ g[x] \in Int /\ h[x] = 0 /\ h[x] = f[x] + g[x]
  OBVIOUS
<1> HIDE DEF h
<1>2. SumFunctionOnSet(h, S) = 0
  BY <1>1, SumZero
<1>3. SumFunctionOnSet(h, S) = SumFunctionOnSet(f, S) + SumFunctionOnSet(g, S)
  BY <1>1, SumPlus
<1>4. SumFunctionOnSet(f, S) \in Int /\ SumFunctionOnSet(g, S) \in Int
  BY <1>1, SumType
<1>5. SumFunctionOnSet(g, S) + SumFunctionOnSet(f, S) = 0
  BY <1>2, <1>3, <1>4
<1>6. \A a \in Int, b \in Int : a + b = 0 => a = -b
  OBVIOUS
<1> QED BY <1>4, <1>5, <1>6, Zenon
=============================================================================
