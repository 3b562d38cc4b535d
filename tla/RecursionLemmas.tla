-------------------------- MODULE RecursionLemmas --------------------------
(***************************************************************************)
(* What the recursive functions of the models compute, for every input:    *)
(* the sums that the accounting invariants of the contracts rest on, and   *)
(* the Merkle trees of the commitments (crates/commitments/src/merkle.rs). *)
(* The provers do no induction over data, so each fact is proved by taking *)
(* a least counterexample: a minimal subset on which a claim about a sum   *)
(* fails, the lowest level on which one about a tree does.                 *)
(***************************************************************************)
EXTENDS Integers, Sequences, FiniteSets, Functions, MerkleTree, FiniteSetTheorems,
        SequenceTheorems, WellFoundedInduction, TLAPS

(***************************************************************************)
(* Sums: what SumFunctionOnSet of the community modules computes, for      *)
(* every finite set.  The fold is a recursive function on the subsets of a *)
(* set, so that it has a solution at all is proved here.                   *)
(***************************************************************************)

Pick(T) == CHOOSE x \in T : TRUE

SumStep(g, f, T) == IF T = {} THEN 0 ELSE f[Pick(T)] + g[T \ {Pick(T)}]

Sums(g, f, S) == g = [T \in SUBSET S |-> SumStep(g, f, T)]

\* The element the fold takes out of a nonempty set belongs to it.
LEMMA PickInSet ==
  ASSUME NEW T, T # {}
  PROVE  Pick(T) \in T
BY DEF Pick

\* Induction over finite sets, in the first-order form the provers can use: any
\* nonempty collection of subsets of a finite set has a minimal member.
LEMMA MinimalSubset ==
  ASSUME NEW S, IsFiniteSet(S), NEW T \in SUBSET (SUBSET S), T # {}
  PROVE  \E x \in T : \A y \in T : ~(y \subseteq x /\ y # x)
<1>1. FiniteSubsetsOf(S) = SUBSET S
  BY FS_FiniteSubsetsOfFinite
<1>2. IsWellFoundedOn(StrictSubsetOrdering(S), SUBSET S)
  BY <1>1, FS_StrictSubsetOrderingWellFounded
<1>3. \E x \in T : \A y \in T : <<y, x>> \notin StrictSubsetOrdering(S)
  BY <1>2, WFMin
<1>4. QED
  BY <1>3 DEF StrictSubsetOrdering

\* Two functions that satisfy the recursion agree where both are defined.
LEMMA SumsUnique ==
  ASSUME NEW S, IsFiniteSet(S), NEW f, NEW g, NEW h, NEW R \in SUBSET S,
         Sums(g, f, S), Sums(h, f, R), NEW U \in SUBSET R
  PROVE  g[U] = h[U]
<1> DEFINE Bad == {T \in SUBSET R : g[T] # h[T]}
<1>1. SUFFICES ASSUME Bad # {} PROVE FALSE
  OBVIOUS
<1>2. PICK T \in Bad : \A y \in Bad : ~(y \subseteq T /\ y # T)
  <2>1. Bad \in SUBSET (SUBSET S)
    OBVIOUS
  <2> HIDE DEF Bad
  <2>2. QED
    BY <1>1, <2>1, MinimalSubset
<1>3. g[T] = SumStep(g, f, T) /\ h[T] = SumStep(h, f, T)
  BY DEF Sums
<1>4. T # {}
  BY <1>3 DEF SumStep
<1>5. Pick(T) \in T
  BY <1>4, PickInSet
<1>6. T \ {Pick(T)} \notin Bad
  BY <1>2, <1>5
<1>7. g[T \ {Pick(T)}] = h[T \ {Pick(T)}]
  BY <1>6
<1>8. QED
  BY <1>3, <1>7 DEF SumStep

\* The recursion has a solution on every finite set.
LEMMA SumsExist ==
  ASSUME NEW S, IsFiniteSet(S), NEW f
  PROVE  \E g : Sums(g, f, S)
<1> DEFINE Bad == {T \in SUBSET S : ~ \E g : Sums(g, f, T)}
<1>1. SUFFICES ASSUME Bad # {} PROVE FALSE
  OBVIOUS
<1>2. PICK T \in Bad : \A y \in Bad : ~(y \subseteq T /\ y # T)
  <2>1. Bad \in SUBSET (SUBSET S)
    OBVIOUS
  <2> HIDE DEF Bad
  <2>2. QED
    BY <1>1, <2>1, MinimalSubset
<1> DEFINE sub(U) == CHOOSE g : Sums(g, f, U)
           r == [U \in SUBSET T |->
                   IF U = {} THEN 0
                   ELSE f[Pick(U)] + sub(U \ {Pick(U)})[U \ {Pick(U)}]]
<1>3. ASSUME NEW U \in SUBSET T, U # T
      PROVE  Sums(sub(U), f, U)
  <2>1. \E g : Sums(g, f, U)
    BY <1>2, <1>3
  <2>2. QED
    BY <2>1
<1>4. ASSUME NEW U \in SUBSET T, U # T
      PROVE  sub(U)[U] = r[U]
  <2>1. sub(U)[U] = SumStep(sub(U), f, U)
    <3> HIDE DEF sub
    <3>1. sub(U) = [V \in SUBSET U |-> SumStep(sub(U), f, V)]
      BY <1>3, <1>4 DEF Sums
    <3>2. QED
      BY <3>1
  <2>2. CASE U = {}
    BY <2>1, <2>2 DEF SumStep
  <2>3. CASE U # {}
    <3> DEFINE V == U \ {Pick(U)}
    <3>1. Pick(U) \in U
      BY <2>3, PickInSet
    <3>2. V \in SUBSET U /\ V # T /\ V \in SUBSET T
      BY <3>1
    <3>3. Sums(sub(V), f, V)
      BY <1>3, <3>2
    <3>4. IsFiniteSet(U)
      BY FS_Subset, T \in SUBSET S
    <3>5. sub(U)[V] = sub(V)[V]
      BY <3>2, <3>3, <3>4, <1>3, <1>4, SumsUnique
    <3>6. QED
      BY <2>1, <2>3, <3>5 DEF SumStep
  <2>4. QED
    BY <2>2, <2>3
<1>5. ASSUME NEW U \in SUBSET T
      PROVE  r[U] = SumStep(r, f, U)
  <2>1. CASE U = {}
    BY <2>1 DEF SumStep
  <2>2. CASE U # {}
    <3> DEFINE V == U \ {Pick(U)}
    <3>1. Pick(U) \in U
      BY <2>2, PickInSet
    <3>2. V \in SUBSET T /\ V # T
      BY <3>1
    <3>3. sub(V)[V] = r[V]
      BY <1>4, <3>2
    <3>4. QED
      BY <2>2, <3>3 DEF SumStep
  <2>3. QED
    BY <2>1, <2>2
<1>6. Sums(r, f, T)
  <2>1. r = [U \in SUBSET T |-> SumStep(r, f, U)]
    BY <1>5
  <2>2. QED
    BY <2>1 DEF Sums
<1>7. QED
  BY <1>2, <1>6

\* SumFunctionOnSet, as Functions.tla and Folds.tla define it, is a solution.
LEMMA SumUnfold ==
  ASSUME NEW f, NEW S
  PROVE  SumFunctionOnSet(f, S) = (CHOOSE g : Sums(g, f, S))[S]
BY DEF SumFunctionOnSet, FoldFunctionOnSet, MapThenFoldSet, Sums, SumStep, Pick

\* Any solution on S gives the sums over all subsets of S.
LEMMA SumOfSubset ==
  ASSUME NEW S, IsFiniteSet(S), NEW f, NEW g, Sums(g, f, S), NEW T \in SUBSET S
  PROVE  SumFunctionOnSet(f, T) = g[T]
<1> DEFINE h == CHOOSE e : Sums(e, f, T)
<1>1. IsFiniteSet(T)
  BY FS_Subset
<1>2. Sums(h, f, T)
  BY <1>1, SumsExist
<1>3. g[T] = h[T]
  BY <1>2, SumsUnique
<1>4. QED
  BY <1>3, SumUnfold

\* The sum over the empty set is 0.
LEMMA SumEmpty ==
  ASSUME NEW f
  PROVE  SumFunctionOnSet(f, {}) = 0
<1>1. IsFiniteSet({})
  BY FS_EmptySet
<1>2. PICK g : Sums(g, f, {})
  BY <1>1, SumsExist
<1>3. SumFunctionOnSet(f, {}) = g[{}]
  BY <1>1, <1>2, SumOfSubset
<1>4. g[{}] = SumStep(g, f, {})
  BY <1>2 DEF Sums
<1>5. QED
  BY <1>3, <1>4 DEF SumStep

\* The recursion, stated for SumFunctionOnSet itself.
LEMMA SumPick ==
  ASSUME NEW S, IsFiniteSet(S), NEW f, S # {}
  PROVE  SumFunctionOnSet(f, S)
           = f[Pick(S)] + SumFunctionOnSet(f, S \ {Pick(S)})
<1>1. PICK g : Sums(g, f, S)
  BY SumsExist
<1>2. g[S] = SumStep(g, f, S)
  BY <1>1 DEF Sums
<1>3. /\ SumFunctionOnSet(f, S) = g[S]
      /\ SumFunctionOnSet(f, S \ {Pick(S)}) = g[S \ {Pick(S)}]
  BY <1>1, SumOfSubset
<1>4. QED
  BY <1>2, <1>3 DEF SumStep

\* A finite sum of integers is an integer.
LEMMA SumInt ==
  ASSUME NEW S, IsFiniteSet(S), NEW f, \A x \in S : f[x] \in Int
  PROVE  SumFunctionOnSet(f, S) \in Int
<1> DEFINE Bad == {T \in SUBSET S : SumFunctionOnSet(f, T) \notin Int}
<1>1. SUFFICES ASSUME Bad # {} PROVE FALSE
  OBVIOUS
<1>2. PICK T \in Bad : \A y \in Bad : ~(y \subseteq T /\ y # T)
  <2>1. Bad \in SUBSET (SUBSET S)
    OBVIOUS
  <2> HIDE DEF Bad
  <2>2. QED
    BY <1>1, <2>1, MinimalSubset
<1>3. T # {}
  BY SumEmpty
<1>4. IsFiniteSet(T)
  BY FS_Subset
<1>5. Pick(T) \in T
  BY <1>3, PickInSet
<1>6. SumFunctionOnSet(f, T \ {Pick(T)}) \in Int
  BY <1>2, <1>5
<1>7. SumFunctionOnSet(f, T) = f[Pick(T)] + SumFunctionOnSet(f, T \ {Pick(T)})
  BY <1>3, <1>4, SumPick
<1>8. QED
  BY <1>5, <1>6, <1>7

\* Any element can be taken out of a sum, whichever one the fold would pick.
LEMMA SumTakeOut ==
  ASSUME NEW S, IsFiniteSet(S), NEW f, \A x \in S : f[x] \in Int, NEW a \in S
  PROVE  SumFunctionOnSet(f, S) = f[a] + SumFunctionOnSet(f, S \ {a})
<1> DEFINE Splits(T) == \A b \in T : SumFunctionOnSet(f, T)
                                       = f[b] + SumFunctionOnSet(f, T \ {b})
           Bad == {T \in SUBSET S : ~Splits(T)}
<1>1. SUFFICES ASSUME Bad # {} PROVE FALSE
  OBVIOUS
<1>2. PICK T \in Bad : \A y \in Bad : ~(y \subseteq T /\ y # T)
  <2>1. Bad \in SUBSET (SUBSET S)
    OBVIOUS
  <2> HIDE DEF Bad
  <2>2. QED
    BY <1>1, <2>1, MinimalSubset
<1>3. ASSUME NEW x \in T
      PROVE  Splits(T \ {x})
  BY <1>2
<1>4. ASSUME NEW b \in T
      PROVE  SumFunctionOnSet(f, T) = f[b] + SumFunctionOnSet(f, T \ {b})
  <2> DEFINE p == Pick(T)
             U == (T \ {p}) \ {b}
  <2>1. p \in T /\ IsFiniteSet(T)
    BY PickInSet, FS_Subset
  <2>2. SumFunctionOnSet(f, T) = f[p] + SumFunctionOnSet(f, T \ {p})
    BY <2>1, SumPick
  <2>3. CASE b = p
    BY <2>2, <2>3
  <2>4. CASE b # p
    <3>1. SumFunctionOnSet(f, T \ {p}) = f[b] + SumFunctionOnSet(f, U)
      BY <1>3, <2>1, <2>4
    <3>2. SumFunctionOnSet(f, T \ {b}) = f[p] + SumFunctionOnSet(f, U)
      <4>1. U = (T \ {b}) \ {p}
        OBVIOUS
      <4>2. Splits(T \ {b}) /\ p \in T \ {b}
        BY <1>3, <2>1, <2>4
      <4> HIDE DEF U
      <4>3. QED
        BY <4>1, <4>2
    <3>3. f[b] \in Int /\ f[p] \in Int
      BY <2>1
    <3>4. SumFunctionOnSet(f, U) \in Int
      <4>1. IsFiniteSet(U) /\ U \subseteq S
        BY <2>1, FS_Subset
      <4> HIDE DEF U
      <4>2. QED
        BY <4>1, SumInt
    <3> HIDE DEF p, U
    <3>5. QED
      BY <2>2, <3>1, <3>2, <3>3, <3>4
  <2>5. QED
    BY <2>3, <2>4
<1>5. QED
  BY <1>4

\* A sum depends only on the function's values on the set.
LEMMA SumCongruent ==
  ASSUME NEW S, IsFiniteSet(S), NEW f, NEW g, \A x \in S : f[x] = g[x]
  PROVE  SumFunctionOnSet(f, S) = SumFunctionOnSet(g, S)
<1> DEFINE Bad == {T \in SUBSET S : SumFunctionOnSet(f, T) # SumFunctionOnSet(g, T)}
<1>1. SUFFICES ASSUME Bad # {} PROVE FALSE
  OBVIOUS
<1>2. PICK T \in Bad : \A y \in Bad : ~(y \subseteq T /\ y # T)
  <2>1. Bad \in SUBSET (SUBSET S)
    OBVIOUS
  <2> HIDE DEF Bad
  <2>2. QED
    BY <1>1, <2>1, MinimalSubset
<1>3. T # {}
  BY SumEmpty
<1>4. IsFiniteSet(T) /\ Pick(T) \in T
  BY <1>3, FS_Subset, PickInSet
<1>5. SumFunctionOnSet(f, T \ {Pick(T)}) = SumFunctionOnSet(g, T \ {Pick(T)})
  BY <1>2, <1>4
<1>6. QED
  BY <1>3, <1>4, <1>5, SumPick

\* Changing the function at one element changes the sum by the difference.
LEMMA SumChange ==
  ASSUME NEW S, IsFiniteSet(S), NEW f, NEW g, NEW a \in S,
         \A x \in S : f[x] \in Int, g[a] \in Int,
         \A x \in S \ {a} : g[x] = f[x]
  PROVE  SumFunctionOnSet(g, S) = SumFunctionOnSet(f, S) + g[a] - f[a]
<1>1. IsFiniteSet(S \ {a})
  BY FS_Subset
<1>2. SumFunctionOnSet(f, S) = f[a] + SumFunctionOnSet(f, S \ {a})
  BY SumTakeOut
<1>3. SumFunctionOnSet(g, S) = g[a] + SumFunctionOnSet(g, S \ {a})
  <2>1. \A x \in S : g[x] \in Int
    OBVIOUS
  <2>2. QED
    BY <2>1, SumTakeOut
<1>4. SumFunctionOnSet(g, S \ {a}) = SumFunctionOnSet(f, S \ {a})
  BY <1>1, SumCongruent
<1>5. SumFunctionOnSet(f, S \ {a}) \in Int
  BY <1>1, SumInt
<1>6. QED
  BY <1>2, <1>3, <1>4, <1>5

\* Adding d to the function at one element adds d to the sum.
LEMMA SumAdd ==
  ASSUME NEW S, IsFiniteSet(S), NEW f, NEW g, NEW a \in S, NEW d \in Int,
         \A x \in S : f[x] \in Int,
         \A x \in S : g[x] = IF x = a THEN f[x] + d ELSE f[x]
  PROVE  SumFunctionOnSet(g, S) = SumFunctionOnSet(f, S) + d
<1>1. g[a] = f[a] + d /\ g[a] \in Int /\ f[a] \in Int
  OBVIOUS
<1>2. SumFunctionOnSet(g, S) = SumFunctionOnSet(f, S) + g[a] - f[a]
  BY <1>1, SumChange
<1>3. SumFunctionOnSet(f, S) \in Int
  BY SumInt
<1>4. QED
  BY <1>1, <1>2, <1>3

\* The two ways the contracts write it.
LEMMA SumPlus ==
  ASSUME NEW S, IsFiniteSet(S), NEW f \in [S -> Nat], NEW a \in S, NEW d \in Nat
  PROVE  SumFunctionOnSet([f EXCEPT ![a] = @ + d], S) = SumFunctionOnSet(f, S) + d
<1> DEFINE g == [f EXCEPT ![a] = @ + d]
<1>1. \A x \in S : g[x] = IF x = a THEN f[x] + d ELSE f[x]
  OBVIOUS
<1>2. \A x \in S : f[x] \in Int
  OBVIOUS
<1> HIDE DEF g
<1>3. SumFunctionOnSet(g, S) = SumFunctionOnSet(f, S) + d
  BY <1>1, <1>2, SumAdd
<1>4. QED
  BY <1>3 DEF g

LEMMA SumMinus ==
  ASSUME NEW S, IsFiniteSet(S), NEW f \in [S -> Nat], NEW a \in S, NEW d \in Nat
  PROVE  SumFunctionOnSet([f EXCEPT ![a] = @ - d], S) = SumFunctionOnSet(f, S) - d
<1> DEFINE g == [f EXCEPT ![a] = @ - d]
<1>1. \A x \in S : g[x] = IF x = a THEN f[x] + (0 - d) ELSE f[x]
  OBVIOUS
<1>2. \A x \in S : f[x] \in Int
  OBVIOUS
<1> HIDE DEF g
<1>3. SumFunctionOnSet(g, S) = SumFunctionOnSet(f, S) + (0 - d)
  BY <1>1, <1>2, SumAdd
<1>4. SumFunctionOnSet(f, S) \in Int
  BY <1>2, SumInt
<1>5. QED
  BY <1>3, <1>4 DEF g

\* A sum of naturals is a natural.
LEMMA SumNat ==
  ASSUME NEW S, IsFiniteSet(S), NEW f, \A x \in S : f[x] \in Nat
  PROVE  SumFunctionOnSet(f, S) \in Nat
<1> DEFINE Bad == {T \in SUBSET S : SumFunctionOnSet(f, T) \notin Nat}
<1>1. SUFFICES ASSUME Bad # {} PROVE FALSE
  OBVIOUS
<1>2. PICK T \in Bad : \A y \in Bad : ~(y \subseteq T /\ y # T)
  <2>1. Bad \in SUBSET (SUBSET S)
    OBVIOUS
  <2> HIDE DEF Bad
  <2>2. QED
    BY <1>1, <2>1, MinimalSubset
<1>3. T # {}
  BY SumEmpty
<1>4. IsFiniteSet(T) /\ Pick(T) \in T
  BY <1>3, FS_Subset, PickInSet
<1>5. SumFunctionOnSet(f, T \ {Pick(T)}) \in Nat
  BY <1>2, <1>4
<1>6. SumFunctionOnSet(f, T) = f[Pick(T)] + SumFunctionOnSet(f, T \ {Pick(T)})
  BY <1>3, <1>4, SumPick
<1>7. QED
  BY <1>4, <1>5, <1>6

\* A sum of zeros is 0.
LEMMA SumZero ==
  ASSUME NEW S, IsFiniteSet(S), NEW f, \A x \in S : f[x] = 0
  PROVE  SumFunctionOnSet(f, S) = 0
<1> DEFINE Bad == {T \in SUBSET S : SumFunctionOnSet(f, T) # 0}
<1>1. SUFFICES ASSUME Bad # {} PROVE FALSE
  OBVIOUS
<1>2. PICK T \in Bad : \A y \in Bad : ~(y \subseteq T /\ y # T)
  <2>1. Bad \in SUBSET (SUBSET S)
    OBVIOUS
  <2> HIDE DEF Bad
  <2>2. QED
    BY <1>1, <2>1, MinimalSubset
<1>3. T # {}
  BY SumEmpty
<1>4. IsFiniteSet(T) /\ Pick(T) \in T
  BY <1>3, FS_Subset, PickInSet
<1>5. SumFunctionOnSet(f, T \ {Pick(T)}) = 0
  BY <1>2, <1>4
<1>6. SumFunctionOnSet(f, T) = f[Pick(T)] + SumFunctionOnSet(f, T \ {Pick(T)})
  BY <1>3, <1>4, SumPick
<1>7. QED
  BY <1>4, <1>5, <1>6

\* Where no value decreases, the sum does not decrease.
LEMMA SumMonotone ==
  ASSUME NEW S, IsFiniteSet(S), NEW f, NEW g,
         \A x \in S : f[x] \in Int /\ g[x] \in Int /\ f[x] <= g[x]
  PROVE  SumFunctionOnSet(f, S) <= SumFunctionOnSet(g, S)
<1> DEFINE Bad == {T \in SUBSET S : ~(SumFunctionOnSet(f, T) <= SumFunctionOnSet(g, T))}
<1>1. SUFFICES ASSUME Bad # {} PROVE FALSE
  OBVIOUS
<1>2. PICK T \in Bad : \A y \in Bad : ~(y \subseteq T /\ y # T)
  <2>1. Bad \in SUBSET (SUBSET S)
    OBVIOUS
  <2> HIDE DEF Bad
  <2>2. QED
    BY <1>1, <2>1, MinimalSubset
<1>3. T # {}
  BY SumEmpty
<1> DEFINE U == T \ {Pick(T)}
<1>4. IsFiniteSet(T) /\ IsFiniteSet(U) /\ Pick(T) \in T
  BY <1>3, FS_Subset, PickInSet
<1>5. SumFunctionOnSet(f, U) <= SumFunctionOnSet(g, U)
  BY <1>2, <1>4
<1>6. SumFunctionOnSet(f, U) \in Int /\ SumFunctionOnSet(g, U) \in Int
  BY <1>4, SumInt
<1>7. /\ SumFunctionOnSet(f, T) = f[Pick(T)] + SumFunctionOnSet(f, U)
      /\ SumFunctionOnSet(g, T) = g[Pick(T)] + SumFunctionOnSet(g, U)
  BY <1>3, <1>4, SumPick
<1>8. f[Pick(T)] \in Int /\ g[Pick(T)] \in Int /\ f[Pick(T)] <= g[Pick(T)]
  BY <1>4
<1>9. ~(SumFunctionOnSet(f, T) <= SumFunctionOnSet(g, T))
  OBVIOUS
<1> HIDE DEF U, Bad
<1>10. QED
  BY <1>5, <1>6, <1>7, <1>8, <1>9

\* The share of each owner sums up to the whole, when every value that counts has
\* an owner among those summed over.
ShareOf(v, owner, S, t) == [x \in S |-> IF owner[x] = t THEN v[x] ELSE 0]

LEMMA SumByOwner ==
  ASSUME NEW S, IsFiniteSet(S), NEW T, IsFiniteSet(T), NEW v, NEW owner,
         \A x \in S : v[x] \in Int,
         \A x \in S : v[x] # 0 => owner[x] \in T
  PROVE  SumFunctionOnSet([t \in T |-> SumFunctionOnSet(ShareOf(v, owner, S, t), S)], T)
           = SumFunctionOnSet(v, S)
<1> DEFINE share(t) == ShareOf(v, owner, S, t)
           shares(U) == [t \in T |-> SumFunctionOnSet(share(t), U)]
           Bad == {U \in SUBSET S : SumFunctionOnSet(shares(U), T) # SumFunctionOnSet(v, U)}
<1>1. SUFFICES ASSUME Bad # {} PROVE FALSE
  OBVIOUS
<1>2. PICK U \in Bad : \A y \in Bad : ~(y \subseteq U /\ y # U)
  <2>1. Bad \in SUBSET (SUBSET S)
    OBVIOUS
  <2> HIDE DEF Bad
  <2>2. QED
    BY <1>1, <2>1, MinimalSubset
<1>3. U \in SUBSET S /\ SumFunctionOnSet(shares(U), T) # SumFunctionOnSet(v, U)
  OBVIOUS
<1>4. U # {}
  <2>1. SUFFICES ASSUME U = {} PROVE FALSE
    OBVIOUS
  <2>2. \A t \in T : shares(U)[t] = 0
    BY <2>1, SumEmpty
  <2> HIDE DEF shares
  <2>3. SumFunctionOnSet(shares(U), T) = 0
    BY <2>2, SumZero
  <2>4. QED
    BY <1>3, <2>1, <2>3, SumEmpty
<1> DEFINE p == Pick(U)
           V == U \ {p}
<1>5. p \in U /\ p \in S /\ IsFiniteSet(U) /\ IsFiniteSet(V) /\ V \in SUBSET S
  BY <1>3, <1>4, FS_Subset, PickInSet
<1>6. SumFunctionOnSet(shares(V), T) = SumFunctionOnSet(v, V)
  BY <1>2, <1>5
<1>7. SumFunctionOnSet(v, U) = v[p] + SumFunctionOnSet(v, V)
  BY <1>4, <1>5, SumPick
<1>8. \A t \in T : \A x \in S : share(t)[x] = IF owner[x] = t THEN v[x] ELSE 0
  BY DEF ShareOf
<1> HIDE DEF Bad, share
<1>9. ASSUME NEW t \in T
      PROVE  /\ shares(V)[t] \in Int
             /\ shares(U)[t] = IF owner[p] = t THEN shares(V)[t] + v[p] ELSE shares(V)[t]
  <2>1. \A x \in U : share(t)[x] \in Int
    BY <1>3, <1>8
  <2>2. SumFunctionOnSet(share(t), V) \in Int
    BY <1>5, <2>1, SumInt
  <2>3. SumFunctionOnSet(share(t), U) = share(t)[p] + SumFunctionOnSet(share(t), V)
    BY <1>4, <1>5, SumPick
  <2>4. share(t)[p] = (IF owner[p] = t THEN v[p] ELSE 0) /\ v[p] \in Int
    BY <1>5, <1>8
  <2> HIDE DEF p, V
  <2>5. QED
    BY <2>2, <2>3, <2>4
<1> HIDE DEF shares, p, V
<1>10. v[p] \in Int
  BY <1>5
<1>11. SumFunctionOnSet(shares(U), T) = SumFunctionOnSet(shares(V), T) + v[p]
  <2>1. CASE owner[p] \in T
    <3>1. \A t \in T : shares(U)[t] = IF t = owner[p] THEN shares(V)[t] + v[p]
                                      ELSE shares(V)[t]
      BY <1>9
    <3>2. \A t \in T : shares(V)[t] \in Int
      BY <1>9
    <3>3. QED
      BY <1>10, <2>1, <3>1, <3>2, SumAdd
  <2>2. CASE owner[p] \notin T
    <3>1. v[p] = 0
      BY <1>5, <2>2
    <3>2. \A t \in T : shares(U)[t] = shares(V)[t]
      BY <1>9, <2>2
    <3>3. SumFunctionOnSet(shares(U), T) = SumFunctionOnSet(shares(V), T)
      BY <3>2, SumCongruent
    <3>4. SumFunctionOnSet(shares(V), T) \in Int
      BY <1>9, SumInt
    <3>5. QED
      BY <3>1, <3>3, <3>4
  <2>3. QED
    BY <2>1, <2>2
<1>12. SumFunctionOnSet(v, V) \in Int
  BY <1>5, SumInt
<1>13. QED
  BY <1>3, <1>6, <1>7, <1>10, <1>11, <1>12

\* The sum of two functions is the sum of their sums.
LEMMA SumTogether ==
  ASSUME NEW S, IsFiniteSet(S), NEW f, NEW g, NEW h,
         \A x \in S : f[x] \in Int /\ g[x] \in Int /\ h[x] = f[x] + g[x]
  PROVE  SumFunctionOnSet(h, S) = SumFunctionOnSet(f, S) + SumFunctionOnSet(g, S)
<1> DEFINE Bad == {T \in SUBSET S : SumFunctionOnSet(h, T)
                                      # SumFunctionOnSet(f, T) + SumFunctionOnSet(g, T)}
<1>1. SUFFICES ASSUME Bad # {} PROVE FALSE
  OBVIOUS
<1>2. PICK T \in Bad : \A y \in Bad : ~(y \subseteq T /\ y # T)
  <2>1. Bad \in SUBSET (SUBSET S)
    OBVIOUS
  <2> HIDE DEF Bad
  <2>2. QED
    BY <1>1, <2>1, MinimalSubset
<1>3. T # {}
  <2>1. SUFFICES ASSUME T = {} PROVE FALSE
    OBVIOUS
  <2>2. /\ SumFunctionOnSet(f, T) = 0 /\ SumFunctionOnSet(g, T) = 0
        /\ SumFunctionOnSet(h, T) = 0
    BY <2>1, SumEmpty
  <2>3. QED
    BY <2>2
<1> DEFINE U == T \ {Pick(T)}
<1>4. IsFiniteSet(T) /\ IsFiniteSet(U) /\ Pick(T) \in T
  BY <1>3, FS_Subset, PickInSet
<1>5. SumFunctionOnSet(h, U) = SumFunctionOnSet(f, U) + SumFunctionOnSet(g, U)
  BY <1>2, <1>4
<1>6. SumFunctionOnSet(f, U) \in Int /\ SumFunctionOnSet(g, U) \in Int
  BY <1>4, SumInt
<1>7. /\ SumFunctionOnSet(f, T) = f[Pick(T)] + SumFunctionOnSet(f, U)
      /\ SumFunctionOnSet(g, T) = g[Pick(T)] + SumFunctionOnSet(g, U)
      /\ SumFunctionOnSet(h, T) = h[Pick(T)] + SumFunctionOnSet(h, U)
  BY <1>3, <1>4, SumPick
<1>8. /\ f[Pick(T)] \in Int /\ g[Pick(T)] \in Int
      /\ h[Pick(T)] = f[Pick(T)] + g[Pick(T)]
  BY <1>4
<1>9. SumFunctionOnSet(h, T) # SumFunctionOnSet(f, T) + SumFunctionOnSet(g, T)
  OBVIOUS
<1> HIDE DEF U, Bad
<1>10. QED
  BY <1>5, <1>6, <1>7, <1>8, <1>9

-----------------------------------------------------------------------------
(***************************************************************************)
(* Merkle trees                                                            *)
(***************************************************************************)

\* Induction over the naturals, in the first-order form the provers can use: a
\* nonempty set of them has a least member.
LEMMA LeastNatural ==
  ASSUME NEW N \in SUBSET Nat, N # {}
  PROVE  \E n \in N : \A m \in N : n <= m
<1>1. PICK k \in N : TRUE
  OBVIOUS
<1> DEFINE T == {0..m : m \in {j \in N : j <= k}}
           B == 0..k
<1>2. T \in SUBSET (SUBSET B)
  OBVIOUS
<1>3. PICK x \in T : \A y \in T : ~(y \subseteq x /\ y # x)
  <2>1. 0..k \in T
    BY <1>1
  <2>2. k \in Int /\ 0 \in Int
    OBVIOUS
  <2>3. IsFiniteSet(B)
    BY <2>2, FS_Interval
  <2> HIDE DEF T
  <2>4. T # {}
    BY <2>1
  <2> HIDE DEF B
  <2>5. QED
    BY <1>2, <2>3, <2>4, MinimalSubset
<1>4. PICK n \in N : n <= k /\ x = 0..n
  BY <1>3
<1>5. ASSUME NEW m \in N, ~(n <= m)
      PROVE  FALSE
  <2>1. m <= k /\ m < n /\ n \in Nat /\ m \in Nat
    BY <1>1, <1>4, <1>5
  <2>2. 0..m \in T
    BY <1>5, <2>1
  <2>3. 0..m \subseteq 0..n /\ n \in 0..n /\ n \notin 0..m
    BY <2>1
  <2>4. QED
    BY <1>3, <1>4, <2>2, <2>3
<1>6. QED
  BY <1>4, <1>5

-----------------------------------------------------------------------------
(* The levels of a tree                                                    *)

\* The recursion of Nodes, and that it has a solution.
IsLevels(g, leaves, n) ==
  g = [h \in 0..n |-> IF h = 0 THEN leaves ELSE LevelAbove(g[h - 1])]

\* There are levels over any leaves, as high as one likes.
LEMMA LevelsExist ==
  ASSUME NEW leaves, NEW n \in Nat
  PROVE  \E g : IsLevels(g, leaves, n)
<1> DEFINE Bad == {m \in Nat : ~ \E g : IsLevels(g, leaves, m)}
<1>1. SUFFICES ASSUME Bad # {} PROVE FALSE
  OBVIOUS
<1>2. PICK m \in Bad : \A k \in Bad : m <= k
  <2>1. Bad \in SUBSET Nat
    OBVIOUS
  <2> HIDE DEF Bad
  <2>2. QED
    BY <1>1, <2>1, LeastNatural
<1>3. CASE m = 0
  <2>1. IsLevels([h \in 0..0 |-> leaves], leaves, 0)
    BY DEF IsLevels
  <2>2. QED
    BY <1>3, <2>1
<1>4. CASE m # 0
  <2>1. m \in Nat /\ m - 1 \in Nat /\ m - 1 \notin Bad
    BY <1>2, <1>4
  <2>2. PICK g : IsLevels(g, leaves, m - 1)
    BY <2>1
  <2> DEFINE f == [h \in 0..m |-> IF h = m THEN LevelAbove(g[m - 1]) ELSE g[h]]
  <2>3. ASSUME NEW h \in 0..m
        PROVE  f[h] = IF h = 0 THEN leaves ELSE LevelAbove(f[h - 1])
    <3>1. CASE h = m
      <4>1. f[h] = LevelAbove(g[m - 1]) /\ f[h - 1] = g[m - 1] /\ h # 0
        BY <1>4, <2>1, <3>1
      <4>2. QED
        BY <3>1, <4>1
    <3>2. CASE h # m
      <4>1. h \in 0..(m - 1) /\ f[h] = g[h]
        BY <2>1, <3>2
      <4>2. g[h] = IF h = 0 THEN leaves ELSE LevelAbove(g[h - 1])
        BY <2>2, <4>1 DEF IsLevels
      <4>3. h # 0 => f[h - 1] = g[h - 1]
        BY <2>1, <3>2
      <4>4. QED
        BY <4>1, <4>2, <4>3
    <3>3. QED
      BY <3>1, <3>2
  <2>4. f = [h \in 0..m |-> f[h]]
    OBVIOUS
  <2> HIDE DEF f
  <2>5. IsLevels(f, leaves, m)
    BY <2>3, <2>4 DEF IsLevels
  <2>6. QED
    BY <2>5
<1>5. QED
  BY <1>3, <1>4

\* The nodes of a tree satisfy the recursion that defines them.
LEMMA NodesUnfold ==
  ASSUME NEW S, NEW leaves \in Seq(S)
  PROVE  /\ Nodes(leaves)[0] = leaves
         /\ \A h \in 1..Len(leaves) : Nodes(leaves)[h] = LevelAbove(Nodes(leaves)[h - 1])
<1>1. Len(leaves) \in Nat
  OBVIOUS
<1>2. Nodes(leaves) = CHOOSE g : IsLevels(g, leaves, Len(leaves))
  BY DEF Nodes, IsLevels
<1>3. IsLevels(Nodes(leaves), leaves, Len(leaves))
  BY <1>1, <1>2, LevelsExist
<1>4. \A h \in 0..Len(leaves) : Nodes(leaves)[h] =
         IF h = 0 THEN leaves ELSE LevelAbove(Nodes(leaves)[h - 1])
  BY <1>3 DEF IsLevels
<1>5. QED
  BY <1>1, <1>4

\* A level is a sequence, of whatever.
IsLevel(level, n) == n \in Nat /\ n > 0 /\ DOMAIN level = 1..n /\ Len(level) = n

\* Half of them are above, rounded up: less, as long as there are two.
LEMMA LevelAboveIsLevel ==
  ASSUME NEW level, NEW n \in Nat, IsLevel(level, n)
  PROVE  /\ IsLevel(LevelAbove(level), (n + 1) \div 2)
         /\ n > 1 => (n + 1) \div 2 < n
         /\ \A i \in 1..((n + 1) \div 2) :
               LevelAbove(level)[i] =
                 <<level[2*i - 1], level[IF 2*i <= n THEN 2*i ELSE 2*i - 1]>>
<1> DEFINE half == (n + 1) \div 2
<1>1. half \in Nat /\ half > 0 /\ (n > 1 => half < n)
  BY DEF IsLevel
<1>2. /\ LevelAbove(level) = [i \in 1..half |->
           <<level[2*i - 1], level[IF 2*i <= n THEN 2*i ELSE 2*i - 1]>>]
  BY DEF LevelAbove, HashPair, IsLevel
<1> HIDE DEF half
<1>3. DOMAIN LevelAbove(level) = 1..half
  BY <1>2
<1>4. Len(LevelAbove(level)) = half
  <2> DEFINE X == {LevelAbove(level)[i] : i \in 1..half}
  <2>1. LevelAbove(level) \in [1..half -> X]
    BY <1>2
  <2> HIDE DEF X
  <2>2. LevelAbove(level) \in Seq(X)
    BY <1>1, <2>1, SeqDef
  <2>3. QED
    BY <1>1, <1>3, <2>2, LenProperties
<1>5. QED
  BY <1>1, <1>2, <1>3, <1>4 DEF IsLevel, half

\* Every level of a tree is one, and the loop of build comes down to one node.
LEMMA NodesAreLevels ==
  ASSUME NEW S, NEW leaves \in Seq(S), leaves # <<>>, NEW h \in 0..Len(leaves)
  PROVE  /\ IsLevel(Nodes(leaves)[h], Len(Nodes(leaves)[h]))
         /\ Len(Nodes(leaves)[h]) = 1 \/ Len(Nodes(leaves)[h]) <= Len(leaves) - h
<1> DEFINE N == Nodes(leaves)
           n == Len(leaves)
           Good(k) == /\ IsLevel(N[k], Len(N[k]))
                      /\ Len(N[k]) = 1 \/ Len(N[k]) <= n - k
           Bad == {k \in 0..n : ~Good(k)}
<1>1. n \in Nat /\ n > 0 /\ DOMAIN leaves = 1..n
  BY EmptySeq, LenProperties
<1>2. Good(0)
  BY <1>1, NodesUnfold DEF IsLevel
<1>3. ASSUME NEW k \in 1..n, Good(k - 1)
      PROVE  Good(k)
  <2> DEFINE m == Len(N[k - 1])
  <2>1. m \in Nat /\ m > 0 /\ IsLevel(N[k - 1], m)
    BY <1>3 DEF IsLevel
  <2>2. N[k] = LevelAbove(N[k - 1])
    BY <1>3, NodesUnfold
  <2>3. IsLevel(N[k], (m + 1) \div 2) /\ (m > 1 => (m + 1) \div 2 < m)
    <3> HIDE DEF N, m
    <3>1. QED
      BY <2>1, <2>2, LevelAboveIsLevel
  <2>4. Len(N[k]) = (m + 1) \div 2
    BY <2>3 DEF IsLevel
  <2>5. m = 1 \/ m <= n - (k - 1)
    BY <1>3
  <2> HIDE DEF N, m, n
  <2>6. Len(N[k]) = 1 \/ Len(N[k]) <= n - k
    BY <1>1, <1>3, <2>1, <2>3, <2>4, <2>5
  <2>7. QED
    BY <2>3, <2>4, <2>6
<1> HIDE DEF Good, n, N
<1>4. SUFFICES ASSUME Bad # {} PROVE FALSE
  BY DEF Good, n, N
<1>5. PICK k \in Bad : \A l \in Bad : k <= l
  <2>1. Bad \in SUBSET Nat
    BY <1>1
  <2> HIDE DEF Bad
  <2>2. QED
    BY <1>4, <2>1, LeastNatural
<1>6. k \in 1..n /\ Good(k - 1)
  BY <1>1, <1>2, <1>5
<1>7. QED
  BY <1>3, <1>5, <1>6

\* The tree ends at its first level of one node.
LEMMA DepthIs ==
  ASSUME NEW S, NEW leaves \in Seq(S), leaves # <<>>
  PROVE  /\ Depth(leaves) \in 0..Len(leaves)
         /\ Len(Nodes(leaves)[Depth(leaves)]) = 1
         /\ \A e \in 0..(Depth(leaves) - 1) : Len(Nodes(leaves)[e]) > 1
<1> DEFINE n == Len(leaves)
           N == Nodes(leaves)
           Ends == {d \in 0..n : Len(N[d]) = 1}
<1>1. n \in Nat
  OBVIOUS
<1>2. \A d \in 0..n : Len(N[d]) \in Nat /\ Len(N[d]) > 0
  BY NodesAreLevels DEF IsLevel
<1>3. n \in Ends
  <2>0. \A h \in 0..n : Len(N[h]) = 1 \/ Len(N[h]) <= n - h
    BY NodesAreLevels
  <2> HIDE DEF N, n
  <2>1. Len(N[n]) = 1 \/ Len(N[n]) <= n - n
    BY <1>1, <2>0
  <2>2. QED
    BY <1>1, <1>2, <2>1
<1>4. PICK d \in Ends : \A e \in Ends : d <= e
  <2>1. Ends \in SUBSET Nat /\ Ends # {}
    BY <1>1, <1>3
  <2> HIDE DEF Ends
  <2>2. QED
    BY <2>1, LeastNatural
<1> HIDE DEF N, n
<1>5. d \in 0..n /\ Len(N[d]) = 1 /\ \A e \in 0..(d - 1) : Len(N[e]) > 1
  <2>1. d \in 0..n /\ Len(N[d]) = 1
    OBVIOUS
  <2>2. ASSUME NEW e \in 0..(d - 1) PROVE Len(N[e]) > 1
    <3>1. e \in 0..n /\ e < d
      BY <1>1, <2>1
    <3>2. e \notin Ends
      <4> HIDE DEF Ends
      <4>1. d \in Nat /\ e \in Nat
        BY <1>1, <2>1, <3>1
      <4>2. QED
        BY <1>4, <3>1, <4>1
    <3>3. Len(N[e]) # 1
      BY <3>1, <3>2
    <3>4. Len(N[e]) \in Nat /\ Len(N[e]) > 0
      BY <1>2, <3>1
    <3>5. \A x \in Nat : x > 0 /\ x # 1 => x > 1
      OBVIOUS
    <3>6. QED
      BY <3>3, <3>4, <3>5, Zenon
  <2>3. QED
    BY <2>1, <2>2
<1>6. Depth(leaves) = CHOOSE c \in 0..n : Len(N[c]) = 1 /\ \A e \in 0..(c - 1) : Len(N[e]) > 1
  BY DEF Depth, N, n
<1>7. QED
  BY <1>5, <1>6 DEF N, n

-----------------------------------------------------------------------------
(* The way up from a leaf                                                  *)

\* The recursion of Ancestors, and that it has a solution.
IsAncestors(g, index, n) ==
  g = [h \in 0..n |-> IF h = 0 THEN index ELSE g[h - 1] \div 2]

\* There is a way up from any index.
LEMMA AncestorsExist ==
  ASSUME NEW index, NEW n \in Nat
  PROVE  \E g : IsAncestors(g, index, n)
<1> DEFINE Bad == {m \in Nat : ~ \E g : IsAncestors(g, index, m)}
<1>1. SUFFICES ASSUME Bad # {} PROVE FALSE
  OBVIOUS
<1>2. PICK m \in Bad : \A k \in Bad : m <= k
  <2>1. Bad \in SUBSET Nat
    OBVIOUS
  <2> HIDE DEF Bad
  <2>2. QED
    BY <1>1, <2>1, LeastNatural
<1>3. CASE m = 0
  <2>1. IsAncestors([h \in 0..0 |-> index], index, 0)
    BY DEF IsAncestors
  <2>2. QED
    BY <1>3, <2>1
<1>4. CASE m # 0
  <2>1. m \in Nat /\ m - 1 \in Nat /\ m - 1 \notin Bad
    BY <1>2, <1>4
  <2>2. PICK g : IsAncestors(g, index, m - 1)
    BY <2>1
  <2> DEFINE f == [h \in 0..m |-> IF h = m THEN g[m - 1] \div 2 ELSE g[h]]
  <2>3. ASSUME NEW h \in 0..m
        PROVE  f[h] = IF h = 0 THEN index ELSE f[h - 1] \div 2
    <3>1. CASE h = m
      <4>1. f[h] = g[m - 1] \div 2 /\ f[h - 1] = g[m - 1] /\ h # 0
        BY <1>4, <2>1, <3>1
      <4>2. QED
        BY <3>1, <4>1
    <3>2. CASE h # m
      <4>1. h \in 0..(m - 1) /\ f[h] = g[h]
        BY <2>1, <3>2
      <4>2. g[h] = IF h = 0 THEN index ELSE g[h - 1] \div 2
        BY <2>2, <4>1 DEF IsAncestors
      <4>3. h # 0 => f[h - 1] = g[h - 1]
        BY <2>1, <3>2
      <4>4. QED
        BY <4>1, <4>2, <4>3
    <3>3. QED
      BY <3>1, <3>2
  <2>4. f = [h \in 0..m |-> f[h]]
    OBVIOUS
  <2> HIDE DEF f
  <2>5. IsAncestors(f, index, m)
    BY <2>3, <2>4 DEF IsAncestors
  <2>6. QED
    BY <2>5
<1>5. QED
  BY <1>3, <1>4

\* The ancestor of a leaf on a level is one of its nodes.
LEMMA AncestorsAre ==
  ASSUME NEW S, NEW leaves \in Seq(S), leaves # <<>>, NEW index \in 0..(Len(leaves) - 1)
  PROVE  /\ Ancestors(leaves, index)[0] = index
         /\ \A h \in 1..Len(leaves) :
               Ancestors(leaves, index)[h] = Ancestors(leaves, index)[h - 1] \div 2
         /\ \A h \in 0..Len(leaves) :
               Ancestors(leaves, index)[h] \in 0..(Len(Nodes(leaves)[h]) - 1)
<1> DEFINE n == Len(leaves)
           N == Nodes(leaves)
           at == Ancestors(leaves, index)
           Bad == {h \in 0..n : at[h] \notin 0..(Len(N[h]) - 1)}
<1>1. n \in Nat
  OBVIOUS
<1>2. \A h \in 0..n : at[h] = IF h = 0 THEN index ELSE at[h - 1] \div 2
  <2>1. at = CHOOSE g : IsAncestors(g, index, n)
    BY DEF Ancestors, IsAncestors
  <2>2. IsAncestors(at, index, n)
    BY <1>1, <2>1, AncestorsExist
  <2>3. QED
    BY <2>2 DEF IsAncestors
<1>3. at[0] = index /\ \A h \in 1..n : at[h] = at[h - 1] \div 2
  BY <1>1, <1>2
<1>4. at[0] \in 0..(Len(N[0]) - 1)
  BY <1>3, NodesUnfold
<1>5. \A h \in 0..n : IsLevel(N[h], Len(N[h]))
  BY NodesAreLevels
<1>6. \A h \in 1..n : N[h] = LevelAbove(N[h - 1])
  BY NodesUnfold
<1> HIDE DEF n, N, at
<1>7. ASSUME Bad # {}
      PROVE  FALSE
  <2>1. PICK h \in Bad : \A l \in Bad : h <= l
    <3>1. Bad \in SUBSET Nat
      BY <1>1
    <3> HIDE DEF Bad
    <3>2. QED
      BY <1>7, <3>1, LeastNatural
  <2>2. h \in 1..n /\ h - 1 \in 0..n /\ h - 1 \notin Bad
    BY <1>1, <1>4, <2>1
  <2> DEFINE m == Len(N[h - 1])
             k == at[h - 1]
  <2>3. m \in Nat /\ m > 0 /\ k \in 0..(m - 1) /\ IsLevel(N[h - 1], m)
    BY <1>5, <2>2 DEF IsLevel
  <2>4. at[h] = k \div 2
    BY <1>3, <2>2
  <2>5. Len(N[h]) = (m + 1) \div 2
    <3>1. N[h] = LevelAbove(N[h - 1])
      BY <1>6, <2>2
    <3> HIDE DEF m
    <3>2. QED
      BY <2>3, <3>1, LevelAboveIsLevel DEF IsLevel
  <2> HIDE DEF m, k
  <2>6. k \div 2 \in 0..((m + 1) \div 2 - 1)
    BY <2>3
  <2>7. QED
    BY <2>1, <2>4, <2>5, <2>6
<1>8. QED
  BY <1>3, <1>7 DEF n, N, at

\* The recursion of Hashes, and that it has a solution.
IsHashes(g, leaf, path, indices, n) ==
  g = [h \in 0..n |->
         IF h = 0 THEN leaf
         ELSE IF indices[h] = 0 THEN HashPair(g[h - 1], path[h])
              ELSE HashPair(path[h], g[h - 1])]

\* There are hashes along any path.
LEMMA HashesExist ==
  ASSUME NEW leaf, NEW path, NEW indices, NEW n \in Nat
  PROVE  \E g : IsHashes(g, leaf, path, indices, n)
<1> DEFINE Bad == {m \in Nat : ~ \E g : IsHashes(g, leaf, path, indices, m)}
           Step(x, h) == IF indices[h] = 0 THEN HashPair(x, path[h]) ELSE HashPair(path[h], x)
<1>1. SUFFICES ASSUME Bad # {} PROVE FALSE
  OBVIOUS
<1>2. PICK m \in Bad : \A k \in Bad : m <= k
  <2>1. Bad \in SUBSET Nat
    OBVIOUS
  <2> HIDE DEF Bad
  <2>2. QED
    BY <1>1, <2>1, LeastNatural
<1>3. CASE m = 0
  <2>1. IsHashes([h \in 0..0 |-> leaf], leaf, path, indices, 0)
    BY DEF IsHashes
  <2>2. QED
    BY <1>3, <2>1
<1>4. CASE m # 0
  <2>1. m \in Nat /\ m - 1 \in Nat /\ m - 1 \notin Bad
    BY <1>2, <1>4
  <2>2. PICK g : IsHashes(g, leaf, path, indices, m - 1)
    BY <2>1
  <2> DEFINE f == [h \in 0..m |-> IF h = m THEN Step(g[m - 1], m) ELSE g[h]]
  <2>3. ASSUME NEW h \in 0..m
        PROVE  f[h] = IF h = 0 THEN leaf ELSE Step(f[h - 1], h)
    <3>1. CASE h = m
      <4>1. f[h] = Step(g[m - 1], m) /\ f[h - 1] = g[m - 1] /\ h # 0
        BY <1>4, <2>1, <3>1
      <4>2. QED
        BY <3>1, <4>1
    <3>2. CASE h # m
      <4>1. h \in 0..(m - 1) /\ f[h] = g[h]
        BY <2>1, <3>2
      <4>2. g[h] = IF h = 0 THEN leaf ELSE Step(g[h - 1], h)
        BY <2>2, <4>1 DEF IsHashes
      <4>3. h # 0 => f[h - 1] = g[h - 1]
        BY <2>1, <3>2
      <4> HIDE DEF f, Step
      <4>4. QED
        BY <4>1, <4>2, <4>3
    <3>3. QED
      BY <3>1, <3>2
  <2>4. f = [h \in 0..m |-> f[h]]
    OBVIOUS
  <2> HIDE DEF f
  <2>5. IsHashes(f, leaf, path, indices, m)
    BY <2>3, <2>4 DEF IsHashes
  <2>6. QED
    BY <2>5
<1>5. QED
  BY <1>3, <1>4

\* The hashes along a path satisfy the recursion that defines them.
LEMMA HashesUnfold ==
  ASSUME NEW leaf, NEW path, NEW indices, Len(path) \in Nat
  PROVE  /\ Hashes(leaf, path, indices)[0] = leaf
         /\ \A h \in 1..Len(path) :
              Hashes(leaf, path, indices)[h] =
                IF indices[h] = 0 THEN <<Hashes(leaf, path, indices)[h - 1], path[h]>>
                ELSE <<path[h], Hashes(leaf, path, indices)[h - 1]>>
<1> DEFINE g == Hashes(leaf, path, indices)
<1>1. g = CHOOSE f : IsHashes(f, leaf, path, indices, Len(path))
  BY DEF Hashes, IsHashes
<1>2. IsHashes(g, leaf, path, indices, Len(path))
  BY <1>1, HashesExist
<1> HIDE DEF g
<1>3. \A h \in 0..Len(path) :
        g[h] = IF h = 0 THEN leaf
               ELSE IF indices[h] = 0 THEN HashPair(g[h - 1], path[h])
                    ELSE HashPair(path[h], g[h - 1])
  BY <1>2 DEF IsHashes
<1>4. \A h \in 0..Len(path) :
        g[h] = IF h = 0 THEN leaf
               ELSE IF indices[h] = 0 THEN <<g[h - 1], path[h]>> ELSE <<path[h], g[h - 1]>>
  BY <1>3 DEF HashPair
<1>5. g[0] = leaf
  <2>1. 0 \in 0..Len(path)
    OBVIOUS
  <2>2. QED
    BY <1>4, <2>1
<1>6. ASSUME NEW h \in 1..Len(path)
      PROVE  g[h] = IF indices[h] = 0 THEN <<g[h - 1], path[h]>> ELSE <<path[h], g[h - 1]>>
  <2>1. h \in 0..Len(path) /\ h # 0
    OBVIOUS
  <2>2. QED
    BY <1>4, <2>1
<1>7. QED
  BY <1>5, <1>6 DEF g

-----------------------------------------------------------------------------
(* A proof leads from its leaf to the root                                 *)

\* What prove puts into a proof: on each level below the root the sibling of the
\* ancestor, and on which side the ancestor is.
LEMMA ProveIs ==
  ASSUME NEW S, NEW leaves \in Seq(S), leaves # <<>>, NEW index \in 0..(Len(leaves) - 1)
  PROVE  /\ Prove(leaves, index).leaf = leaves[index + 1]
         /\ Len(Prove(leaves, index).path) = Depth(leaves)
         /\ Len(Prove(leaves, index).indices) = Depth(leaves)
         /\ \A h \in 1..Depth(leaves) :
              LET k == Ancestors(leaves, index)[h - 1]
                  level == Nodes(leaves)[h - 1]
              IN  /\ Prove(leaves, index).indices[h] = k % 2
                  /\ Prove(leaves, index).path[h] = level[SiblingIndex(k, Len(level)) + 1]
<1> DEFINE at == Ancestors(leaves, index)
           nodes == Nodes(leaves)
           depth == Depth(leaves)
           sibling(h) == nodes[h - 1][SiblingIndex(at[h - 1], Len(nodes[h - 1])) + 1]
           side(h) == at[h - 1] % 2
           proof == Prove(leaves, index)
<1>1. proof = [leaf    |-> leaves[index + 1],
               path    |-> [h \in 1..depth |-> sibling(h)],
               indices |-> [h \in 1..depth |-> side(h)]]
  BY DEF Prove
<1>2. depth \in Nat
  BY DepthIs
<1> HIDE DEF sibling, side, depth, proof
<1>3. /\ proof.leaf = leaves[index + 1]
      /\ proof.path = [h \in 1..depth |-> sibling(h)]
      /\ proof.indices = [h \in 1..depth |-> side(h)]
  BY <1>1
<1>4. Len(proof.path) = depth
  <2>1. proof.path \in Seq({sibling(h) : h \in 1..depth})
    BY <1>2, <1>3, SeqDef
  <2>2. DOMAIN proof.path = 1..depth
    BY <1>3
  <2>3. QED
    BY <1>2, <2>1, <2>2, LenProperties
<1>5. Len(proof.indices) = depth
  <2>1. proof.indices \in Seq({side(h) : h \in 1..depth})
    BY <1>2, <1>3, SeqDef
  <2>2. DOMAIN proof.indices = 1..depth
    BY <1>3
  <2>3. QED
    BY <1>2, <2>1, <2>2, LenProperties
<1>6. \A h \in 1..depth : proof.indices[h] = side(h) /\ proof.path[h] = sibling(h)
  BY <1>3
<1>7. QED
  BY <1>3, <1>4, <1>5, <1>6 DEF sibling, side, depth, proof

\* One level up: the hash of a node and its sibling, on the sides that the bit says, is
\* the node above them.
LEMMA NodeAndSibling ==
  ASSUME NEW level, NEW n \in Nat, IsLevel(level, n), NEW k \in 0..(n - 1)
  PROVE  LevelAbove(level)[k \div 2 + 1] =
           IF k % 2 = 0 THEN <<level[k + 1], level[SiblingIndex(k, n) + 1]>>
           ELSE <<level[SiblingIndex(k, n) + 1], level[k + 1]>>
<1> DEFINE i == k \div 2 + 1
<1>1. i \in 1..((n + 1) \div 2)
  BY DEF IsLevel
<1>2. LevelAbove(level)[i] = <<level[2*i - 1], level[IF 2*i <= n THEN 2*i ELSE 2*i - 1]>>
  BY <1>1, LevelAboveIsLevel
<1>3. CASE k % 2 = 0
  <2>1. 2*i - 1 = k + 1
    BY <1>3
  <2>2. SiblingIndex(k, n) + 1 = IF 2*i <= n THEN 2*i ELSE 2*i - 1
    BY <1>3, <2>1 DEF SiblingIndex
  <2> HIDE DEF i
  <2>3. QED
    BY <1>2, <1>3, <2>1, <2>2 DEF i
<1>4. CASE k % 2 = 1
  <2>1. 2*i = k + 1 /\ 2*i <= n
    BY <1>4
  <2>2. SiblingIndex(k, n) + 1 = 2*i - 1
    BY <1>4, <2>1 DEF SiblingIndex
  <2> HIDE DEF i
  <2>3. QED
    BY <1>2, <1>4, <2>1, <2>2 DEF i
<1>5. k % 2 = 0 \/ k % 2 = 1
  OBVIOUS
<1>6. QED
  BY <1>3, <1>4, <1>5

\* The path of a proof leads through the ancestors of its leaf.
LEMMA PathLeadsUp ==
  ASSUME NEW S, NEW leaves \in Seq(S), leaves # <<>>, NEW index \in 0..(Len(leaves) - 1),
         NEW h \in 0..Depth(leaves)
  PROVE  Hashes(leaves[index + 1], Prove(leaves, index).path, Prove(leaves, index).indices)[h] =
           Nodes(leaves)[h][Ancestors(leaves, index)[h] + 1]
<1> DEFINE at == Ancestors(leaves, index)
           N == Nodes(leaves)
           depth == Depth(leaves)
           path == Prove(leaves, index).path
           indices == Prove(leaves, index).indices
           g == Hashes(leaves[index + 1], path, indices)
           Bad == {k \in 0..depth : g[k] # N[k][at[k] + 1]}
<1>1. depth \in 0..Len(leaves) /\ depth \in Nat /\ Len(leaves) \in Nat
  BY DepthIs
<1>2. Len(path) = depth
  BY ProveIs
<1>3. /\ g[0] = leaves[index + 1]
      /\ \A k \in 1..depth : g[k] = IF indices[k] = 0 THEN <<g[k - 1], path[k]>>
                                    ELSE <<path[k], g[k - 1]>>
  <2> HIDE DEF path, indices, depth
  <2>1. Len(path) \in Nat
    BY <1>1, <1>2
  <2>2. QED
    BY <1>2, <2>1, HashesUnfold
<1>4. \A k \in 1..depth : /\ indices[k] = at[k - 1] % 2
                          /\ path[k] = N[k - 1][SiblingIndex(at[k - 1], Len(N[k - 1])) + 1]
  BY ProveIs
<1>5. at[0] = index /\ N[0] = leaves
  BY AncestorsAre, NodesUnfold
<1>6. \A k \in 1..Len(leaves) : at[k] = at[k - 1] \div 2 /\ N[k] = LevelAbove(N[k - 1])
  BY AncestorsAre, NodesUnfold
<1>7. \A k \in 0..Len(leaves) : IsLevel(N[k], Len(N[k])) /\ at[k] \in 0..(Len(N[k]) - 1)
  BY AncestorsAre, NodesAreLevels
<1> HIDE DEF at, N, depth, path, indices, g
<1>8. ASSUME Bad # {}
      PROVE  FALSE
  <2>1. PICK k \in Bad : \A l \in Bad : k <= l
    <3>1. Bad \in SUBSET Nat
      BY <1>1
    <3> HIDE DEF Bad
    <3>2. QED
      BY <1>8, <3>1, LeastNatural
  <2>2. k \in 1..depth /\ k - 1 \in 0..depth /\ k - 1 \notin Bad
    BY <1>1, <1>3, <1>5, <2>1
  <2>3. g[k - 1] = N[k - 1][at[k - 1] + 1]
    BY <2>2
  <2>4. k \in 1..Len(leaves) /\ k - 1 \in 0..Len(leaves)
    BY <1>1, <2>2
  <2> DEFINE level == N[k - 1]
             j == at[k - 1]
             m == Len(level)
  <2>5. IsLevel(level, m) /\ j \in 0..(m - 1) /\ m \in Nat /\ at[k] = j \div 2 /\ N[k] = LevelAbove(level)
    BY <1>6, <1>7, <2>4 DEF IsLevel
  <2>6. indices[k] = j % 2 /\ path[k] = level[SiblingIndex(j, m) + 1]
    BY <1>4, <2>2
  <2>7. g[k] = IF indices[k] = 0 THEN <<g[k - 1], path[k]>> ELSE <<path[k], g[k - 1]>>
    BY <1>3, <2>2
  <2>8. g[k - 1] = level[j + 1]
    BY <2>3
  <2>9. g[k] # N[k][at[k] + 1]
    BY <2>1
  <2> HIDE DEF level, j, m
  <2>10. N[k][at[k] + 1] = IF j % 2 = 0 THEN <<level[j + 1], level[SiblingIndex(j, m) + 1]>>
                           ELSE <<level[SiblingIndex(j, m) + 1], level[j + 1]>>
    <3>1. LevelAbove(level)[j \div 2 + 1] =
             IF j % 2 = 0 THEN <<level[j + 1], level[SiblingIndex(j, m) + 1]>>
             ELSE <<level[SiblingIndex(j, m) + 1], level[j + 1]>>
      BY <2>5, NodeAndSibling
    <3>2. QED
      BY <2>5, <3>1
  <2>11. QED
    BY <2>6, <2>7, <2>8, <2>9, <2>10
<1>9. QED
  BY <1>8 DEF at, N, depth, path, indices, g

\* prove, then verify_merkle_proof: the proof of any leaf of any tree is accepted against
\* the root of that tree.
THEOREM MerkleProofVerifies ==
  ASSUME NEW S, NEW leaves \in Seq(S), leaves # <<>>, NEW index \in 0..(Len(leaves) - 1)
  PROVE  LET proof == Prove(leaves, index)
         IN  VerifyMerkleProof(proof.leaf, proof.path, proof.indices, MerkleRoot(leaves))
<1> DEFINE proof == Prove(leaves, index)
           depth == Depth(leaves)
           top == Nodes(leaves)[depth]
           at == Ancestors(leaves, index)
<1>1. depth \in 0..Len(leaves) /\ depth \in Nat /\ Len(top) = 1
  BY DepthIs
<1>2. /\ proof.leaf = leaves[index + 1] /\ Len(proof.path) = depth
      /\ Len(proof.indices) = depth
  BY ProveIs
<1>3. at[depth] = 0
  <2>1. at[depth] \in 0..(Len(top) - 1)
    BY <1>1, AncestorsAre
  <2> HIDE DEF at, top, depth
  <2>2. QED
    BY <1>1, <2>1
<1>4. Hashes(leaves[index + 1], proof.path, proof.indices)[depth] = top[at[depth] + 1]
  <2>1. depth \in 0..depth
    <3> HIDE DEF depth
    <3>1. QED
      BY <1>1
  <2>2. QED
    BY <2>1, PathLeadsUp
<1>5. MerkleRoot(leaves) = top[1]
  BY DEF MerkleRoot
<1> HIDE DEF proof, depth, top, at
<1>6. Hashes(proof.leaf, proof.path, proof.indices)[Len(proof.path)] = MerkleRoot(leaves)
  BY <1>2, <1>3, <1>4, <1>5
<1>7. QED
  BY <1>2, <1>6 DEF VerifyMerkleProof, proof

-----------------------------------------------------------------------------
(* A root binds the leaves                                                 *)

\* The shape of a tree is a matter of the number of its leaves.
LEMMA SameShape ==
  ASSUME NEW S, NEW a \in Seq(S), NEW b \in Seq(S), a # <<>>, Len(a) = Len(b)
  PROVE  /\ b # <<>>
         /\ \A h \in 0..Len(a) : Len(Nodes(a)[h]) = Len(Nodes(b)[h])
         /\ Depth(a) = Depth(b)
<1> DEFINE n == Len(a)
           A == Nodes(a)
           B == Nodes(b)
           Bad == {k \in 0..n : Len(A[k]) # Len(B[k])}
<1>1. n \in Nat /\ Len(b) = n /\ b # <<>>
  OBVIOUS
<1>2. Len(A[0]) = Len(B[0])
  BY NodesUnfold
<1>3. \A k \in 1..n : A[k] = LevelAbove(A[k - 1]) /\ B[k] = LevelAbove(B[k - 1])
  <2>1. \A k \in 1..n : A[k] = LevelAbove(A[k - 1])
    BY NodesUnfold
  <2>2. \A k \in 1..Len(b) : B[k] = LevelAbove(B[k - 1])
    BY NodesUnfold
  <2>3. QED
    BY <1>1, <2>1, <2>2
<1>4. \A k \in 0..n : IsLevel(A[k], Len(A[k])) /\ IsLevel(B[k], Len(B[k]))
  <2>1. \A k \in 0..n : IsLevel(A[k], Len(A[k]))
    BY NodesAreLevels
  <2>2. \A k \in 0..Len(b) : IsLevel(B[k], Len(B[k]))
    BY <1>1, NodesAreLevels
  <2>3. QED
    BY <1>1, <2>1, <2>2
<1> HIDE DEF A, B, n
<1>5. ASSUME Bad # {}
      PROVE  FALSE
  <2>1. PICK k \in Bad : \A l \in Bad : k <= l
    <3>1. Bad \in SUBSET Nat
      BY <1>1
    <3> HIDE DEF Bad
    <3>2. QED
      BY <1>5, <3>1, LeastNatural
  <2>2. k \in 1..n /\ k - 1 \in 0..n /\ k - 1 \notin Bad
    BY <1>1, <1>2, <2>1
  <2> DEFINE m == Len(A[k - 1])
  <2>3. IsLevel(A[k - 1], m) /\ IsLevel(B[k - 1], m) /\ m \in Nat
    BY <1>4, <2>2 DEF IsLevel
  <2>4. A[k] = LevelAbove(A[k - 1]) /\ B[k] = LevelAbove(B[k - 1])
    BY <1>3, <2>2
  <2> HIDE DEF m
  <2>5. Len(A[k]) = (m + 1) \div 2
    BY <2>3, <2>4, LevelAboveIsLevel DEF IsLevel
  <2>6. Len(B[k]) = (m + 1) \div 2
    BY <2>3, <2>4, LevelAboveIsLevel DEF IsLevel
  <2>7. QED
    BY <2>1, <2>5, <2>6
<1>6. \A h \in 0..n : Len(A[h]) = Len(B[h])
  BY <1>5
<1>7. Depth(a) = Depth(b)
  <2>1. Depth(a) = CHOOSE d \in 0..n : Len(A[d]) = 1 /\ \A e \in 0..(d - 1) : Len(A[e]) > 1
    BY DEF Depth, A, n
  <2>2. Depth(b) = CHOOSE d \in 0..n : Len(B[d]) = 1 /\ \A e \in 0..(d - 1) : Len(B[e]) > 1
    BY <1>1 DEF Depth, B
  <2> DEFINE Ends(X, d) == Len(X[d]) = 1 /\ \A e \in 0..(d - 1) : Len(X[e]) > 1
  <2>3. \A d \in 0..n : Ends(A, d) <=> Ends(B, d)
    <3>1. SUFFICES ASSUME NEW d \in 0..n PROVE Ends(A, d) <=> Ends(B, d)
      OBVIOUS
    <3>2. Len(A[d]) = Len(B[d])
      BY <1>6
    <3>3. \A e \in 0..(d - 1) : Len(A[e]) = Len(B[e])
      BY <1>1, <1>6
    <3>4. QED
      BY <3>2, <3>3
  <2> HIDE DEF Ends
  <2>4. (CHOOSE d \in 0..n : Ends(A, d)) = (CHOOSE d \in 0..n : Ends(B, d))
    BY <2>3
  <2>5. QED
    BY <2>1, <2>2, <2>4 DEF Ends
<1>8. QED
  BY <1>1, <1>6, <1>7 DEF A, B, n

\* Hashing a level forgets nothing of it but how long it was.
LEMMA LevelAboveBinds ==
  ASSUME NEW x, NEW y, NEW n \in Nat, IsLevel(x, n), IsLevel(y, n),
         \A i \in 1..((n + 1) \div 2) : LevelAbove(x)[i] = LevelAbove(y)[i]
  PROVE  \A j \in 1..n : x[j] = y[j]
<1>1. SUFFICES ASSUME NEW j \in 1..n PROVE x[j] = y[j]
  OBVIOUS
<1> DEFINE i == (j + 1) \div 2
<1>2. i \in 1..((n + 1) \div 2)
  BY DEF IsLevel
<1>3. LevelAbove(x)[i] = <<x[2*i - 1], x[IF 2*i <= n THEN 2*i ELSE 2*i - 1]>>
  BY <1>2, LevelAboveIsLevel
<1>4. LevelAbove(y)[i] = <<y[2*i - 1], y[IF 2*i <= n THEN 2*i ELSE 2*i - 1]>>
  BY <1>2, LevelAboveIsLevel
<1>5. LevelAbove(x)[i] = LevelAbove(y)[i]
  BY <1>2
<1>6. j = 2*i - 1 \/ (j = 2*i /\ 2*i <= n)
  BY DEF IsLevel
<1> HIDE DEF i
<1>7. QED
  BY <1>3, <1>4, <1>5, <1>6

\* The root of a commitment stands for its claims, in their order: two trees of as many
\* leaves that have the same root have the same leaves.
THEOREM MerkleRootBinds ==
  ASSUME NEW S, NEW a \in Seq(S), NEW b \in Seq(S), a # <<>>, Len(a) = Len(b),
         MerkleRoot(a) = MerkleRoot(b)
  PROVE  a = b
<1> DEFINE n == Len(a)
           A == Nodes(a)
           B == Nodes(b)
           depth == Depth(a)
           Agree(h) == \A i \in 1..Len(A[h]) : A[h][i] = B[h][i]
           Bad == {k \in 0..depth : ~Agree(depth - k)}
<1>1. /\ b # <<>> /\ Depth(b) = depth
      /\ \A h \in 0..n : Len(A[h]) = Len(B[h])
  BY SameShape
<1>2. depth \in 0..n /\ depth \in Nat /\ n \in Nat /\ Len(b) = n /\ Len(A[depth]) = 1
  BY DepthIs
<1>3. A[depth][1] = B[depth][1]
  BY <1>1 DEF MerkleRoot
<1>4. Agree(depth)
  BY <1>2, <1>3
<1>5. \A k \in 1..n : A[k] = LevelAbove(A[k - 1]) /\ B[k] = LevelAbove(B[k - 1])
  <2>1. \A k \in 1..n : A[k] = LevelAbove(A[k - 1])
    BY NodesUnfold
  <2>2. \A k \in 1..Len(b) : B[k] = LevelAbove(B[k - 1])
    BY NodesUnfold
  <2>3. QED
    BY <1>2, <2>1, <2>2
<1>6. \A k \in 0..n : IsLevel(A[k], Len(A[k])) /\ IsLevel(B[k], Len(B[k]))
  <2>1. \A k \in 0..n : IsLevel(A[k], Len(A[k]))
    BY NodesAreLevels
  <2>2. \A k \in 0..Len(b) : IsLevel(B[k], Len(B[k]))
    BY <1>1, NodesAreLevels
  <2>3. QED
    BY <1>2, <2>1, <2>2
<1> HIDE DEF A, B, n, depth
<1>7. ASSUME NEW h \in 1..depth, Agree(h)
      PROVE  Agree(h - 1)
  <2> DEFINE m == Len(A[h - 1])
  <2>1. h \in 1..n /\ h - 1 \in 0..n
    BY <1>2
  <2>2. IsLevel(A[h - 1], m) /\ IsLevel(B[h - 1], m) /\ m \in Nat
    BY <1>1, <1>6, <2>1 DEF IsLevel
  <2>3. A[h] = LevelAbove(A[h - 1]) /\ B[h] = LevelAbove(B[h - 1])
    BY <1>5, <2>1
  <2>4. \A i \in 1..Len(A[h]) : A[h][i] = B[h][i]
    BY <1>7
  <2> HIDE DEF m
  <2>5. Len(A[h]) = (m + 1) \div 2
    BY <2>2, <2>3, LevelAboveIsLevel DEF IsLevel
  <2>6. \A i \in 1..((m + 1) \div 2) : LevelAbove(A[h - 1])[i] = LevelAbove(B[h - 1])[i]
    BY <2>3, <2>4, <2>5
  <2>7. \A j \in 1..m : A[h - 1][j] = B[h - 1][j]
    BY <2>2, <2>6, LevelAboveBinds
  <2>8. QED
    BY <2>7 DEF m
<1> HIDE DEF Agree
<1>8. ASSUME Bad # {}
      PROVE  FALSE
  <2>1. PICK k \in Bad : \A l \in Bad : k <= l
    <3>1. Bad \in SUBSET Nat
      BY <1>2
    <3> HIDE DEF Bad
    <3>2. QED
      BY <1>8, <3>1, LeastNatural
  <2>2. k \in 0..depth /\ ~Agree(depth - k)
    BY <2>1
  <2>3. k # 0
    BY <1>2, <1>4, <2>2
  <2>4. k - 1 \in 0..depth /\ k - 1 < k
    BY <1>2, <2>2, <2>3
  <2>5. k - 1 \notin Bad
    <3>1. k \in Nat /\ k - 1 \in Nat
      BY <1>2, <2>2, <2>4
    <3> HIDE DEF Bad
    <3>2. QED
      BY <2>1, <2>4, <3>1
  <2>6. Agree(depth - (k - 1))
    BY <2>4, <2>5
  <2>7. /\ depth - (k - 1) \in 1..depth
        /\ (depth - (k - 1)) - 1 = depth - k
    BY <1>2, <2>2, <2>3
  <2>8. Agree((depth - (k - 1)) - 1)
    BY <1>7, <2>6, <2>7
  <2>9. QED
    BY <2>2, <2>7, <2>8
<1>9. Agree(0)
  <2>1. depth \in 0..depth /\ depth - depth = 0
    BY <1>2
  <2>2. depth \notin Bad
    BY <1>8
  <2>3. Agree(depth - depth)
    BY <2>1, <2>2
  <2>4. QED
    BY <2>1, <2>3
<1>10. \A i \in 1..Len(a) : a[i] = b[i]
  <2>1. A[0] = a /\ B[0] = b
    BY NodesUnfold DEF A, B
  <2>2. QED
    BY <1>9, <2>1 DEF Agree
<1>11. QED
  BY <1>10, SeqEqual

\* generate_proof builds the tree anew from the rows as they are: what it proves is
\* accepted against the root of the commitment exactly when the hashes of the claims are
\* still those that were committed to.
THEOREM RebuiltProofVerifies ==
  ASSUME NEW S, NEW committed \in Seq(S), NEW leaves \in Seq(S), leaves # <<>>,
         Len(committed) = Len(leaves), NEW index \in 0..(Len(leaves) - 1)
  PROVE  LET proof == Prove(leaves, index)
         IN  VerifyMerkleProof(proof.leaf, proof.path, proof.indices, MerkleRoot(committed))
               <=> leaves = committed
<1> DEFINE proof == Prove(leaves, index)
           top == Hashes(proof.leaf, proof.path, proof.indices)[Len(proof.path)]
<1>1. VerifyMerkleProof(proof.leaf, proof.path, proof.indices, MerkleRoot(leaves))
  BY MerkleProofVerifies
<1>2. Len(proof.path) = Len(proof.indices) /\ top = MerkleRoot(leaves)
  BY <1>1 DEF VerifyMerkleProof
<1>3. VerifyMerkleProof(proof.leaf, proof.path, proof.indices, MerkleRoot(committed))
        <=> MerkleRoot(leaves) = MerkleRoot(committed)
  <2> HIDE DEF proof
  <2>1. QED
    BY <1>2 DEF VerifyMerkleProof
<1>4. MerkleRoot(leaves) = MerkleRoot(committed) <=> leaves = committed
  BY MerkleRootBinds
<1>5. QED
  BY <1>3, <1>4

\* verify_merkle_proof accepts members only: whatever has a path as long as the tree is
\* deep to the root of a tree is one of its leaves.
THEOREM MerkleProofSound ==
  ASSUME NEW S, NEW leaves \in Seq(S), leaves # <<>>, NEW leaf, NEW path, NEW indices,
         Len(path) = Depth(leaves),
         VerifyMerkleProof(leaf, path, indices, MerkleRoot(leaves))
  PROVE  \E i \in 1..Len(leaves) : leaf = leaves[i]
<1> DEFINE n == Len(leaves)
           N == Nodes(leaves)
           depth == Depth(leaves)
           g == Hashes(leaf, path, indices)
           OnLevel(h) == \E i \in 1..Len(N[h]) : g[h] = N[h][i]
           Bad == {k \in 0..depth : ~OnLevel(depth - k)}
<1>1. depth \in 0..n /\ depth \in Nat /\ n \in Nat /\ Len(N[depth]) = 1
  BY DepthIs
<1>2. g[depth] = N[depth][1]
  BY DEF VerifyMerkleProof, MerkleRoot
<1>3. /\ g[0] = leaf
      /\ \A h \in 1..depth : g[h] = IF indices[h] = 0 THEN <<g[h - 1], path[h]>>
                                    ELSE <<path[h], g[h - 1]>>
  <2>1. Len(path) \in Nat /\ Len(path) = depth
    BY <1>1
  <2> HIDE DEF depth
  <2>2. QED
    BY <2>1, HashesUnfold
<1>4. \A h \in 1..n : N[h] = LevelAbove(N[h - 1])
  BY NodesUnfold
<1>5. \A h \in 0..n : IsLevel(N[h], Len(N[h]))
  BY NodesAreLevels
<1> HIDE DEF n, N, depth, g
<1>6. OnLevel(depth)
  BY <1>1, <1>2
<1>7. ASSUME NEW h \in 1..depth, OnLevel(h)
      PROVE  OnLevel(h - 1)
  <2> DEFINE level == N[h - 1]
             m == Len(level)
  <2>1. h \in 1..n /\ h - 1 \in 0..n
    BY <1>1
  <2>2. IsLevel(level, m) /\ m \in Nat /\ N[h] = LevelAbove(level)
    BY <1>4, <1>5, <2>1 DEF IsLevel
  <2>3. PICK i \in 1..Len(N[h]) : g[h] = N[h][i]
    BY <1>7
  <2>4. g[h] = IF indices[h] = 0 THEN <<g[h - 1], path[h]>> ELSE <<path[h], g[h - 1]>>
    BY <1>3
  <2> HIDE DEF level, m
  <2>5. i \in 1..((m + 1) \div 2)
    BY <2>2, <2>3, LevelAboveIsLevel DEF IsLevel
  <2>6. g[h] = <<level[2*i - 1], level[IF 2*i <= m THEN 2*i ELSE 2*i - 1]>>
    <3>1. LevelAbove(level)[i] = <<level[2*i - 1], level[IF 2*i <= m THEN 2*i ELSE 2*i - 1]>>
      BY <2>2, <2>5, LevelAboveIsLevel
    <3>2. QED
      BY <2>2, <2>3, <3>1
  <2>7. 2*i - 1 \in 1..m /\ (2*i <= m => 2*i \in 1..m)
    BY <2>2, <2>5
  <2>8. \E j \in 1..m : g[h - 1] = level[j]
    <3>1. g[h - 1] = level[2*i - 1] \/ g[h - 1] = level[IF 2*i <= m THEN 2*i ELSE 2*i - 1]
      BY <2>4, <2>6
    <3>2. CASE 2*i <= m
      BY <2>7, <3>1, <3>2
    <3>3. CASE ~(2*i <= m)
      BY <2>7, <3>1, <3>3
    <3>4. QED
      BY <3>2, <3>3
  <2>9. QED
    BY <2>8 DEF level, m
<1> HIDE DEF OnLevel
<1>8. ASSUME Bad # {}
      PROVE  FALSE
  <2>1. PICK k \in Bad : \A l \in Bad : k <= l
    <3>1. Bad \in SUBSET Nat
      BY <1>1
    <3> HIDE DEF Bad
    <3>2. QED
      BY <1>8, <3>1, LeastNatural
  <2>2. k \in 0..depth /\ ~OnLevel(depth - k)
    BY <2>1
  <2>3. k # 0
    BY <1>1, <1>6, <2>2
  <2>4. k - 1 \in 0..depth /\ k - 1 < k
    BY <1>1, <2>2, <2>3
  <2>5. k - 1 \notin Bad
    <3>1. k \in Nat /\ k - 1 \in Nat
      BY <1>1, <2>2, <2>4
    <3> HIDE DEF Bad
    <3>2. QED
      BY <2>1, <2>4, <3>1
  <2>6. OnLevel(depth - (k - 1))
    BY <2>4, <2>5
  <2>7. /\ depth - (k - 1) \in 1..depth
        /\ (depth - (k - 1)) - 1 = depth - k
    BY <1>1, <2>2, <2>3
  <2>8. OnLevel((depth - (k - 1)) - 1)
    BY <1>7, <2>6, <2>7
  <2>9. QED
    BY <2>2, <2>7, <2>8
<1>9. OnLevel(0)
  <2>1. depth \in 0..depth /\ depth - depth = 0
    BY <1>1
  <2>2. depth \notin Bad
    BY <1>8
  <2>3. OnLevel(depth - depth)
    BY <2>1, <2>2
  <2>4. QED
    BY <2>1, <2>3
<1>10. N[0] = leaves
  BY NodesUnfold DEF N
<1>11. QED
  BY <1>3, <1>9, <1>10 DEF OnLevel

=============================================================================
