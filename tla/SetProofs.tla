----------------------------- MODULE SetProofs -----------------------------
(***************************************************************************)
(* Finite sets, for the proofs about markets, orders and files.  A sum,     *)
(* SumFunctionOnSet of the community modules, splits off any element,       *)
(* whatever order it is computed in (f is a function with integer values    *)
(* on the set); the inductions are by minimal counterexample.  The ranks of *)
(* the elements in a total order number the set.                            *)
(***************************************************************************)
EXTENDS Integers, FiniteSets, FiniteSetsExt, FiniteSetTheorems, TLAPS, WellFoundedInduction

\* Every non-empty set of naturals has a least element.
LEMMA NatMinimum ==
    ASSUME NEW T \in SUBSET Nat, T # {}
    PROVE  \E x \in T : \A y \in T : x <= y
  <1> DEFINE R == OpToRel(<, Nat)
  <1>1. IsWellFoundedOn(R, Nat)
    BY Zenon, NatLessThanWellFounded
  <1>2. \A x, y \in Nat : x < y => <<x, y>> \in R
    BY DEF OpToRel
  <1> HIDE DEF R
  <1>3. PICK x \in T : \A y \in T : ~(<<y, x>> \in R)
    BY <1>1, WFMin
  <1>4. \A y \in T : ~(y < x)
    BY <1>2, <1>3
  <1> QED
    BY <1>4

-----------------------------------------------------------------------------
(* The recursion a sum is computed by.                                      *)

\* The element the recursion takes out of a set first.
Taken(s) == CHOOSE x \in s : TRUE

Step(f, it, s) == IF s = {} THEN 0 ELSE f[Taken(s)] + it[s \ {Taken(s)}]

\* it is the recursion on the subsets of S.
IsIteration(it, f, S) == it = [s \in SUBSET S |-> Step(f, it, s)]

LEMMA SumDef ==
    ASSUME NEW f, NEW S
    PROVE  SumFunctionOnSet(f, S) = (CHOOSE it : IsIteration(it, f, S))[S]
  BY Zenon DEF SumFunctionOnSet, FoldFunctionOnSet, MapThenFoldSet, IsIteration, Step, Taken

LEMMA TakenIn == ASSUME NEW s, s # {} PROVE Taken(s) \in s
  BY Zenon DEF Taken

\* The recursion on the subsets of at most n elements.
Small(S, n) == {s \in SUBSET S : Cardinality(s) <= n}
IsPartial(it, f, S, n) == /\ it \in [Small(S, n) -> Int]
                          /\ \A s \in Small(S, n) : it[s] = Step(f, it, s)

LEMMA Smaller ==
    ASSUME NEW S, IsFiniteSet(S), NEW s \in SUBSET S, NEW x \in s
    PROVE  /\ IsFiniteSet(s) /\ Cardinality(s) \in Nat
           /\ s \ {x} \in SUBSET S
           /\ Cardinality(s \ {x}) = Cardinality(s) - 1
           /\ Cardinality(s \ {x}) \in Nat
  <1>1. IsFiniteSet(s)
    BY FS_Subset
  <1>2. IsFiniteSet(s \ {x})
    BY <1>1, FS_Subset
  <1> QED
    BY <1>1, <1>2, FS_RemoveElement, FS_CardinalityType

LEMMA CardinalityOfSubset ==
    ASSUME NEW S, IsFiniteSet(S)
    PROVE  \A s \in SUBSET S : IsFiniteSet(s) /\ Cardinality(s) \in Nat
  BY FS_Subset, FS_CardinalityType

LEMMA PartialExists ==
    ASSUME NEW S, IsFiniteSet(S), NEW f, \A x \in S : f[x] \in Int
    PROVE  \A n \in Nat : \E it : IsPartial(it, f, S, n)
  <1> DEFINE T == {n \in Nat : ~ \E it : IsPartial(it, f, S, n)}
  <1> SUFFICES ASSUME T # {} PROVE FALSE
    OBVIOUS
  <1>1. PICK n \in T : \A m \in T : n <= m
    BY NatMinimum
  <1>2. CASE n = 0
    <2> DEFINE it == [s \in Small(S, 0) |-> 0]
    <2>1. \A s \in Small(S, 0) : s = {}
      <3> SUFFICES ASSUME NEW s \in Small(S, 0) PROVE s = {}
        OBVIOUS
      <3>1. IsFiniteSet(s) /\ Cardinality(s) <= 0
        BY FS_Subset DEF Small
      <3>2. Cardinality(s) = 0
        BY <3>1, FS_CardinalityType
      <3> QED
        BY <3>1, <3>2, FS_EmptySet
    <2>2. IsPartial(it, f, S, 0)
      BY <2>1 DEF IsPartial, Step
    <2> QED
      BY <1>2, <2>2
  <1>3. CASE n # 0
    <2>1. n - 1 \in Nat /\ n - 1 \notin T
      BY <1>1, <1>3
    <2>2. PICK it : IsPartial(it, f, S, n - 1)
      BY <2>1
    <2> DEFINE jt == [s \in Small(S, n) |-> Step(f, it, s)]
    <2>3. \A s \in Small(S, n) : s # {} => /\ s \ {Taken(s)} \in Small(S, n - 1)
                                           /\ s \ {Taken(s)} \in Small(S, n)
                                           /\ Taken(s) \in S
      <3> SUFFICES ASSUME NEW s \in Small(S, n), s # {}
                   PROVE  /\ s \ {Taken(s)} \in Small(S, n - 1)
                          /\ s \ {Taken(s)} \in Small(S, n)
                          /\ Taken(s) \in S
        OBVIOUS
      <3>1. s \in SUBSET S /\ Cardinality(s) <= n /\ Taken(s) \in s
        BY TakenIn DEF Small
      <3> QED
        BY <3>1, Smaller, n \in Nat DEF Small
    <2>4. \A s \in Small(S, n) : Step(f, it, s) \in Int
      BY <2>2, <2>3 DEF IsPartial, Step
    <2>5. \A s \in Small(S, n - 1) : s \in Small(S, n)
      <3> SUFFICES ASSUME NEW s \in Small(S, n - 1) PROVE s \in Small(S, n)
        OBVIOUS
      <3>1. Cardinality(s) \in Nat /\ Cardinality(s) <= n - 1 /\ s \in SUBSET S
        BY FS_Subset, FS_CardinalityType DEF Small
      <3> QED
        BY <3>1 DEF Small
    <2>6. \A s \in Small(S, n - 1) : jt[s] = it[s]
      BY <2>2, <2>5 DEF IsPartial
    <2>7. \A s \in Small(S, n) : Step(f, it, s) = Step(f, jt, s)
      BY <2>3, <2>6 DEF Step
    <2>8. IsPartial(jt, f, S, n)
      BY <2>4, <2>7 DEF IsPartial
    <2> QED
      BY <2>8
  <1> QED
    BY <1>2, <1>3

LEMMA IterationExists ==
    ASSUME NEW S, IsFiniteSet(S), NEW f, \A x \in S : f[x] \in Int
    PROVE  \E it : IsIteration(it, f, S)
  <1>1. Cardinality(S) \in Nat
    BY FS_CardinalityType
  <1>2. PICK it : IsPartial(it, f, S, Cardinality(S))
    BY <1>1, PartialExists
  <1>3. Small(S, Cardinality(S)) = SUBSET S
    BY FS_Subset DEF Small
  <1>4. it = [s \in SUBSET S |-> Step(f, it, s)]
    BY <1>2, <1>3 DEF IsPartial
  <1> QED
    BY <1>4 DEF IsIteration

\* Two such recursions agree wherever both are defined.
LEMMA IterationsAgree ==
    ASSUME NEW S, NEW T, IsFiniteSet(S), NEW f, NEW it, NEW jt,
           IsIteration(it, f, S), IsIteration(jt, f, T)
    PROVE  \A s \in SUBSET (S \cap T) : it[s] = jt[s]
  <1> DEFINE C == {n \in Nat : \E s \in SUBSET (S \cap T) : Cardinality(s) = n /\ it[s] # jt[s]}
  <1>1. SUFFICES ASSUME C # {} PROVE FALSE
    <2>1. \A s \in SUBSET (S \cap T) : Cardinality(s) \in Nat
      BY CardinalityOfSubset
    <2> QED
      BY <2>1
  <1>2. PICK n \in C : \A m \in C : n <= m
    BY <1>1, NatMinimum
  <1>3. PICK s \in SUBSET (S \cap T) : Cardinality(s) = n /\ it[s] # jt[s]
    BY <1>2
  <1>4. /\ \A t \in SUBSET S : it[t] = Step(f, it, t)
        /\ \A t \in SUBSET T : jt[t] = Step(f, jt, t)
    BY Zenon DEF IsIteration
  <1>5. s # {}
    BY <1>3, <1>4 DEF Step
  <1> DEFINE r == s \ {Taken(s)}
  <1>6. /\ r \in SUBSET (S \cap T)
        /\ Cardinality(r) = n - 1
        /\ n - 1 \in Nat
    <2>1. /\ s \in SUBSET S /\ Taken(s) \in s /\ s \in SUBSET (S \cap T)
          /\ n \in Nat /\ Cardinality(s) = n
      BY <1>3, <1>5, TakenIn
    <2>2. Cardinality(r) = Cardinality(s) - 1 /\ Cardinality(r) \in Nat
      BY <2>1, Smaller
    <2> QED
      BY <2>1, <2>2
  <1>7. it[r] = jt[r]
    <2>1. n - 1 \notin C
      BY <1>2, <1>6
    <2> QED
      BY <1>6, <2>1
  <1>8. it[s] = f[Taken(s)] + it[r] /\ jt[s] = f[Taken(s)] + jt[r]
    BY <1>3, <1>4, <1>5 DEF Step
  <1> QED
    BY <1>3, <1>7, <1>8

-----------------------------------------------------------------------------
(* Sums.                                                                    *)

LEMMA SumEmpty == \A f : SumFunctionOnSet(f, {}) = 0
  <1> SUFFICES ASSUME NEW f PROVE SumFunctionOnSet(f, {}) = 0
    OBVIOUS
  <1>1. IsFiniteSet({})
    BY FS_EmptySet
  <1>2. PICK it : IsIteration(it, f, {})
    BY <1>1, IterationExists
  <1>3. IsIteration(CHOOSE i : IsIteration(i, f, {}), f, {})
    BY <1>2
  <1> DEFINE jt == CHOOSE i : IsIteration(i, f, {})
  <1>4. jt = [s \in SUBSET {} |-> Step(f, jt, s)]
    BY <1>3 DEF IsIteration
  <1> HIDE DEF jt
  <1>5. jt[{}] = 0
    BY <1>4 DEF Step
  <1> QED
    BY <1>5, SumDef DEF jt

LEMMA SumTaken ==
    ASSUME NEW S, IsFiniteSet(S), S # {}, NEW f, \A x \in S : f[x] \in Int
    PROVE  SumFunctionOnSet(f, S) = f[Taken(S)] + SumFunctionOnSet(f, S \ {Taken(S)})
  <1> DEFINE R == S \ {Taken(S)}
             it == CHOOSE i : IsIteration(i, f, S)
             jt == CHOOSE i : IsIteration(i, f, R)
  <1>1. IsFiniteSet(R) /\ R \in SUBSET S
    BY FS_Subset
  <1>2. IsIteration(it, f, S)
    BY IterationExists
  <1>3. \E i : IsIteration(i, f, R)
    BY <1>1, IterationExists
  <1>4. IsIteration(jt, f, R)
    BY <1>3
  <1>5. SumFunctionOnSet(f, S) = it[S] /\ SumFunctionOnSet(f, R) = jt[R]
    BY SumDef
  <1> HIDE DEF it, jt
  <1>6. it[S] = Step(f, it, S)
    BY <1>2 DEF IsIteration
  <1>7. it[R] = jt[R]
    <2>1. R \in SUBSET (S \cap R)
      BY <1>1
    <2> HIDE DEF R
    <2>2. \A s \in SUBSET (S \cap R) : it[s] = jt[s]
      BY <1>1, <1>2, <1>4, IterationsAgree
    <2> QED
      BY <2>1, <2>2
  <1> QED
    BY <1>5, <1>6, <1>7 DEF Step

LEMMA SumIn ==
    ASSUME NEW D \in {Nat, Int}, NEW S, IsFiniteSet(S), NEW f, \A x \in S : f[x] \in D
    PROVE  SumFunctionOnSet(f, S) \in D
  <1> DEFINE C == {n \in Nat : \E s \in SUBSET S : Cardinality(s) = n /\ SumFunctionOnSet(f, s) \notin D}
  <1>1. SUFFICES ASSUME C # {} PROVE FALSE
    BY CardinalityOfSubset
  <1>2. PICK n \in C : \A m \in C : n <= m
    BY <1>1, NatMinimum
  <1>3. PICK s \in SUBSET S : Cardinality(s) = n /\ SumFunctionOnSet(f, s) \notin D
    BY <1>2
  <1>4. s # {}
    BY <1>3, SumEmpty
  <1> DEFINE r == s \ {Taken(s)}
  <1>5. /\ r \in SUBSET S /\ Cardinality(r) = n - 1 /\ n - 1 \in Nat
        /\ IsFiniteSet(s) /\ Taken(s) \in S
    <2>1. Taken(s) \in s
      BY <1>4, TakenIn
    <2>2. n \in Nat /\ s \in SUBSET S /\ Cardinality(s) = n
      BY <1>3
    <2>3. /\ IsFiniteSet(s) /\ r \in SUBSET S
          /\ Cardinality(r) = Cardinality(s) - 1 /\ Cardinality(r) \in Nat
      BY <2>1, <2>2, Smaller
    <2> QED
      BY <2>1, <2>2, <2>3
  <1>6. SumFunctionOnSet(f, r) \in D
    <2>1. n - 1 \notin C
      BY <1>2, <1>5
    <2> QED
      BY <1>5, <2>1
  <1>7. SumFunctionOnSet(f, s) = f[Taken(s)] + SumFunctionOnSet(f, r)
    <2>1. IsFiniteSet(s) /\ \A x \in s : f[x] \in Int
      BY <1>3, <1>5
    <2> QED
      BY <1>4, <2>1, SumTaken
  <1>8. f[Taken(s)] \in D
    BY <1>5
  <1> HIDE DEF C, r
  <1> QED
    BY <1>3, <1>6, <1>7, <1>8

LEMMA SumInt ==
    ASSUME NEW S, IsFiniteSet(S), NEW f, \A x \in S : f[x] \in Int
    PROVE  SumFunctionOnSet(f, S) \in Int
  BY SumIn

LEMMA SumNat ==
    ASSUME NEW S, IsFiniteSet(S), NEW f, \A x \in S : f[x] \in Nat
    PROVE  SumFunctionOnSet(f, S) \in Nat
  BY SumIn

\* Any element may be split off.
LEMMA SumRemove ==
    ASSUME NEW S, IsFiniteSet(S), NEW f, \A x \in S : f[x] \in Int
    PROVE  \A x \in S : SumFunctionOnSet(f, S) = f[x] + SumFunctionOnSet(f, S \ {x})
  <1> DEFINE Splits(s) == \A x \in s : SumFunctionOnSet(f, s) = f[x] + SumFunctionOnSet(f, s \ {x})
             C == {n \in Nat : \E s \in SUBSET S : Cardinality(s) = n /\ ~Splits(s)}
  <1>1. SUFFICES ASSUME C # {} PROVE FALSE
    BY CardinalityOfSubset
  <1>2. PICK n \in C : \A m \in C : n <= m
    BY <1>1, NatMinimum
  <1>3. PICK s \in SUBSET S : Cardinality(s) = n /\ ~Splits(s)
    BY <1>2
  <1>4. PICK x \in s : SumFunctionOnSet(f, s) # f[x] + SumFunctionOnSet(f, s \ {x})
    BY <1>3
  <1> DEFINE c == Taken(s)
  <1>5. c \in s /\ IsFiniteSet(s) /\ c \in S /\ x \in S
    BY <1>3, <1>4, TakenIn, FS_Subset
  <1>6. SumFunctionOnSet(f, s) = f[c] + SumFunctionOnSet(f, s \ {c})
    BY <1>4, <1>5, SumTaken
  <1>7. x # c
    BY <1>4, <1>6
  <1>8. \A y \in s : Splits(s \ {y})
    <2> SUFFICES ASSUME NEW y \in s PROVE Splits(s \ {y})
      OBVIOUS
    <2>1. s \ {y} \in SUBSET S /\ Cardinality(s \ {y}) = n - 1 /\ n - 1 \in Nat
      BY <1>3, Smaller
    <2>2. n - 1 \notin C
      BY <1>2, <2>1
    <2> QED
      BY <2>1, <2>2
  <1> HIDE DEF c, C
  <1>9. /\ SumFunctionOnSet(f, s \ {c}) = f[x] + SumFunctionOnSet(f, (s \ {c}) \ {x})
        /\ SumFunctionOnSet(f, s \ {x}) = f[c] + SumFunctionOnSet(f, (s \ {x}) \ {c})
    BY <1>4, <1>5, <1>7, <1>8
  <1> DEFINE rest == SumFunctionOnSet(f, (s \ {x}) \ {c})
  <1>10. SumFunctionOnSet(f, (s \ {c}) \ {x}) = rest
    <2>1. (s \ {c}) \ {x} = (s \ {x}) \ {c}
      OBVIOUS
    <2> QED
      BY <2>1
  <1>11. rest \in Int
    <2>1. (s \ {x}) \ {c} \in SUBSET S /\ IsFiniteSet((s \ {x}) \ {c})
      BY <1>3, <1>5, FS_Subset
    <2> QED
      BY <2>1, SumInt
  <1>12. f[c] \in Int /\ f[x] \in Int
    BY <1>5
  <1> HIDE DEF rest
  <1>13. SumFunctionOnSet(f, s) = f[c] + (f[x] + rest) /\ SumFunctionOnSet(f, s \ {x}) = f[c] + rest
    BY <1>6, <1>9, <1>10 DEF rest
  <1> QED
    BY <1>4, <1>11, <1>12, <1>13

\* A sum is that of the summands: of two functions that agree.
LEMMA SumExtensional ==
    ASSUME NEW S, IsFiniteSet(S), NEW f, NEW g, \A x \in S : f[x] \in Int /\ f[x] = g[x]
    PROVE  SumFunctionOnSet(f, S) = SumFunctionOnSet(g, S)
  <1> DEFINE C == {n \in Nat : \E s \in SUBSET S : Cardinality(s) = n /\ SumFunctionOnSet(f, s) # SumFunctionOnSet(g, s)}
  <1>1. SUFFICES ASSUME C # {} PROVE FALSE
    BY CardinalityOfSubset
  <1>2. PICK n \in C : \A m \in C : n <= m
    BY <1>1, NatMinimum
  <1>3. PICK s \in SUBSET S : Cardinality(s) = n /\ SumFunctionOnSet(f, s) # SumFunctionOnSet(g, s)
    BY <1>2
  <1>4. s # {}
    BY <1>3, SumEmpty
  <1> DEFINE r == s \ {Taken(s)}
  <1>5. /\ r \in SUBSET S /\ Cardinality(r) = n - 1 /\ n - 1 \in Nat
        /\ IsFiniteSet(s) /\ Taken(s) \in S
    <2>1. Taken(s) \in s
      BY <1>4, TakenIn
    <2>2. n \in Nat /\ s \in SUBSET S /\ Cardinality(s) = n
      BY <1>3
    <2>3. /\ IsFiniteSet(s) /\ r \in SUBSET S
          /\ Cardinality(r) = Cardinality(s) - 1 /\ Cardinality(r) \in Nat
      BY <2>1, <2>2, Smaller
    <2> QED
      BY <2>1, <2>2, <2>3
  <1>6. SumFunctionOnSet(f, r) = SumFunctionOnSet(g, r)
    <2>1. n - 1 \notin C
      BY <1>2, <1>5
    <2> QED
      BY <1>5, <2>1
  <1>7. /\ SumFunctionOnSet(f, s) = f[Taken(s)] + SumFunctionOnSet(f, r)
        /\ SumFunctionOnSet(g, s) = g[Taken(s)] + SumFunctionOnSet(g, r)
    BY <1>4, <1>5, SumTaken
  <1> QED
    BY <1>3, <1>5, <1>6, <1>7

\* A sum of smaller numbers is not larger.
LEMMA SumMonotone ==
    ASSUME NEW S, IsFiniteSet(S), NEW f, NEW g,
           \A x \in S : f[x] \in Int /\ g[x] \in Int /\ f[x] <= g[x]
    PROVE  SumFunctionOnSet(f, S) <= SumFunctionOnSet(g, S)
  <1> DEFINE C == {n \in Nat : \E s \in SUBSET S : Cardinality(s) = n /\ ~(SumFunctionOnSet(f, s) <= SumFunctionOnSet(g, s))}
  <1>1. SUFFICES ASSUME C # {} PROVE FALSE
    BY CardinalityOfSubset
  <1>2. PICK n \in C : \A m \in C : n <= m
    BY <1>1, NatMinimum
  <1>3. PICK s \in SUBSET S : Cardinality(s) = n /\ ~(SumFunctionOnSet(f, s) <= SumFunctionOnSet(g, s))
    BY <1>2
  <1>4. s # {}
    BY <1>3, SumEmpty
  <1> DEFINE r == s \ {Taken(s)}
  <1>5. /\ r \in SUBSET S /\ Cardinality(r) = n - 1 /\ n - 1 \in Nat
        /\ IsFiniteSet(s) /\ IsFiniteSet(r) /\ Taken(s) \in S
    <2>1. Taken(s) \in s
      BY <1>4, TakenIn
    <2>2. n \in Nat /\ s \in SUBSET S /\ Cardinality(s) = n
      BY <1>3
    <2>3. /\ IsFiniteSet(s) /\ r \in SUBSET S
          /\ Cardinality(r) = Cardinality(s) - 1 /\ Cardinality(r) \in Nat
      BY <2>1, <2>2, Smaller
    <2>4. IsFiniteSet(r)
      BY <2>3, FS_Subset
    <2> QED
      BY <2>1, <2>2, <2>3, <2>4
  <1>6. SumFunctionOnSet(f, r) <= SumFunctionOnSet(g, r)
    <2>1. n - 1 \notin C
      BY <1>2, <1>5
    <2> QED
      BY <1>5, <2>1
  <1>7. /\ SumFunctionOnSet(f, s) = f[Taken(s)] + SumFunctionOnSet(f, r)
        /\ SumFunctionOnSet(g, s) = g[Taken(s)] + SumFunctionOnSet(g, r)
    BY <1>4, <1>5, SumTaken
  <1>8. SumFunctionOnSet(f, r) \in Int /\ SumFunctionOnSet(g, r) \in Int
    BY <1>5, SumInt
  <1> HIDE DEF r, C
  <1>9. /\ f[Taken(s)] \in Int /\ g[Taken(s)] \in Int /\ f[Taken(s)] <= g[Taken(s)]
    BY <1>5
  <1> QED
    BY <1>3, <1>6, <1>7, <1>8, <1>9
-----------------------------------------------------------------------------
(* Ranks: a finite set in a total order, D[k] being k and what is before it, *)
(* is numbered by the sizes of the D[k].                                     *)

LEMMA RankBijection ==
    ASSUME NEW T, IsFiniteSet(T), NEW D \in [T -> SUBSET T],
           \A k \in T : k \in D[k],
           \A j, k \in T : j # k => \/ j \in D[k] /\ k \notin D[j] /\ D[j] \subseteq D[k]
                                    \/ k \in D[j] /\ j \notin D[k] /\ D[k] \subseteq D[j]
    PROVE  [k \in T |-> Cardinality(D[k])] \in Bijection(T, 1..Cardinality(T))
  <1> DEFINE r == [k \in T |-> Cardinality(D[k])]
             n == Cardinality(T)
  <1>1. n \in Nat
    BY FS_CardinalityType
  <1>2. \A k \in T : IsFiniteSet(D[k]) /\ Cardinality(D[k]) \in 1..n
    <2> SUFFICES ASSUME NEW k \in T PROVE IsFiniteSet(D[k]) /\ Cardinality(D[k]) \in 1..n
      OBVIOUS
    <2>1. D[k] \in SUBSET T /\ D[k] # {}
      OBVIOUS
    <2>2. IsFiniteSet(D[k]) /\ Cardinality(D[k]) <= n
      BY <2>1, FS_Subset
    <2>3. Cardinality(D[k]) \in Nat /\ Cardinality(D[k]) # 0
      BY <2>1, <2>2, FS_CardinalityType, FS_EmptySet
    <2> QED
      BY <1>1, <2>2, <2>3
  <1>3. ASSUME NEW j \in T, NEW k \in T, k \in D[k], k \notin D[j], D[j] \subseteq D[k]
        PROVE  Cardinality(D[j]) # Cardinality(D[k])
    <2>1. D[j] \in SUBSET D[k] /\ D[j] # D[k] /\ IsFiniteSet(D[k])
      BY <1>2, <1>3
    <2> QED
      BY <2>1, FS_Subset
  <1>4. \A j, k \in T : j # k => Cardinality(D[j]) # Cardinality(D[k])
    BY <1>3
  <1>5. r \in Injection(T, 1..n)
    BY <1>2, <1>4 DEF Injection, IsInjective
  <1>6. IsFiniteSet(1..n) /\ Cardinality(1..n) = n
    BY <1>1, FS_Interval
  <1>7. r \in Surjection(T, 1..n)
    <2> HIDE DEF r
    <2> QED
      BY <1>5, <1>6, FS_Injection
  <1> QED
    BY <1>5, <1>7 DEF Bijection

\* The rank of a position among positions.
RankIn(T, k) == Cardinality({j \in T : j <= k})

LEMMA RankInBijection ==
    ASSUME NEW T \in SUBSET Nat, IsFiniteSet(T)
    PROVE  [k \in T |-> RankIn(T, k)] \in Bijection(T, 1..Cardinality(T))
  <1> DEFINE D == [k \in T |-> {j \in T : j <= k}]
  <1>1. D \in [T -> SUBSET T] /\ \A k \in T : k \in D[k] /\ D[k] = {j \in T : j <= k}
    OBVIOUS
  <1>2. \A j, k \in T : j # k => \/ j \in D[k] /\ k \notin D[j] /\ D[j] \subseteq D[k]
                                 \/ k \in D[j] /\ j \notin D[k] /\ D[k] \subseteq D[j]
    <2> SUFFICES ASSUME NEW j \in T, NEW k \in T, j # k
                 PROVE  \/ j \in D[k] /\ k \notin D[j] /\ D[j] \subseteq D[k]
                        \/ k \in D[j] /\ j \notin D[k] /\ D[k] \subseteq D[j]
      OBVIOUS
    <2>1. /\ j \in Nat /\ k \in Nat /\ \A x \in T : x \in Nat
          /\ D[j] = {x \in T : x <= j} /\ D[k] = {x \in T : x <= k}
      OBVIOUS
    <2> HIDE DEF D
    <2>2. CASE j < k
      <3>1. \A x \in T : x <= j => x <= k
        BY <2>1, <2>2
      <3>2. j <= k /\ ~(k <= j)
        BY <2>1, <2>2
      <3> QED
        BY Zenon, <2>1, <3>1, <3>2
    <2>3. CASE k < j
      <3>1. \A x \in T : x <= k => x <= j
        BY <2>1, <2>3
      <3>2. k <= j /\ ~(j <= k)
        BY <2>1, <2>3
      <3> QED
        BY Zenon, <2>1, <3>1, <3>2
    <2> QED
      BY <2>1, <2>2, <2>3
  <1>3. [k \in T |-> RankIn(T, k)] = [k \in T |-> Cardinality(D[k])]
    BY <1>1 DEF RankIn
  <1> HIDE DEF D
  <1> QED
    BY <1>1, <1>2, <1>3, RankBijection
=============================================================================
