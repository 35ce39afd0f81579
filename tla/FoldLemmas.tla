----------------------------- MODULE FoldLemmas -----------------------------
(***************************************************************************)
(* Induction over the natural numbers, and what it gives for the folds of  *)
(* the models: the sum of a function's values, as Functions defines it.    *)
(***************************************************************************)
EXTENDS Functions, FiniteSetTheorems, TLAPS

\* A set of numbers with 0 and with the successor of each of its elements is Nat:
\* a number outside it would have a least one, and that one a predecessor.
LEMMA Induction ==
    ASSUME NEW T \in SUBSET Nat, 0 \in T, \A n \in T : n + 1 \in T
    PROVE  T = Nat
<1> SUFFICES ASSUME T # Nat PROVE FALSE
  OBVIOUS
<1> DEFINE Less == OpToRel(<, Nat)
           Rest == Nat \ T
<1>1. IsWellFoundedOn(Less, Nat)
  BY NatLessThanWellFounded
<1>2. \A x, y \in Nat : <<x, y>> \in Less <=> x < y
  BY DEF OpToRel
<1>3. Rest \subseteq Nat /\ Rest # {}
  OBVIOUS
<1> HIDE DEF Less, Rest
<1>4. \E x \in Rest : \A y \in Rest : ~ (<<y, x>> \in Less)
  BY <1>1, <1>3, WFMin
<1>5. PICK x \in Rest : \A y \in Rest : ~ (<<y, x>> \in Less)
  BY <1>4
<1>6. x \in Nat /\ x \notin T
  BY DEF Rest
<1>7. x # 0 /\ x - 1 \in Nat /\ x - 1 < x
  BY <1>6
<1>8. x - 1 \in Rest
  <2> SUFFICES ASSUME x - 1 \in T PROVE FALSE
    BY <1>7 DEF Rest
  <2>1. (x - 1) + 1 \in T
    OBVIOUS
  <2> QED BY <1>6, <2>1
<1> QED BY <1>2, <1>5, <1>6, <1>7, <1>8

\* The element a fold takes next.
Pick(s) == CHOOSE x \in s : TRUE

\* The same for the subsets of a finite set, in the order of a fold.
LEMMA SubsetInduction ==
    ASSUME NEW D, IsFiniteSet(D), NEW T,
           {} \in T,
           \A s \in SUBSET D : s # {} /\ s \ {Pick(s)} \in T => s \in T
    PROVE  SUBSET D \subseteq T
<1> DEFINE N == {n \in Nat : \A s \in SUBSET D : Cardinality(s) <= n => s \in T}
<1>1. \A s \in SUBSET D : IsFiniteSet(s) /\ Cardinality(s) \in Nat
  BY FS_Subset, FS_CardinalityType
<1>2. 0 \in N
  <2>1. \A s \in SUBSET D : Cardinality(s) <= 0 => s = {}
    BY <1>1, FS_EmptySet
  <2> QED BY <2>1
<1>3. ASSUME NEW n \in N PROVE n + 1 \in N
  <2>0. n \in Nat /\ n + 1 \in Nat
    BY <1>3
  <2> SUFFICES ASSUME NEW s \in SUBSET D, Cardinality(s) <= n + 1, s # {}
               PROVE  s \in T
    BY <2>0
  <2> DEFINE x == Pick(s)
  <2>1. x \in s
    BY DEF Pick
  <2> HIDE DEF x
  <2>2. s \ {x} \in SUBSET D /\ Cardinality(s \ {x}) = Cardinality(s) - 1
    BY <1>1, <2>1, FS_RemoveElement
  <2>3. Cardinality(s \ {x}) <= n
    BY <1>1, <2>0, <2>2
  <2> QED BY <1>3, <2>2, <2>3 DEF x
<1> HIDE DEF N
<1>4. N = Nat
  <2>1. N \in SUBSET Nat
    BY DEF N
  <2> QED BY <1>2, <1>3, <2>1, Induction
<1> QED BY <1>1, <1>4 DEF N

-----------------------------------------------------------------------------
\* The sums over the parts of the domain: what the recursive function of Folds
\* comes to when its operator is +.
Sums(f, D, g) ==
    g = [s \in SUBSET D |-> IF s = {} THEN 0 ELSE f[Pick(s)] + g[s \ {Pick(s)}]]

Sum(f) == FoldFunction(+, 0, f)

\* The recursive function exists: by induction on the size of the subsets it is
\* defined for.
LEMMA SumsExist ==
    ASSUME NEW f, NEW D, IsFiniteSet(D)
    PROVE  \E g : Sums(f, D, g)
<1> DEFINE Small(n) == {s \in SUBSET D : Cardinality(s) <= n}
           Upto(n, g) == g = [s \in Small(n) |->
                                IF s = {} THEN 0 ELSE f[Pick(s)] + g[s \ {Pick(s)}]]
           N == {n \in Nat : \E g : Upto(n, g)}
<1>1. \A s \in SUBSET D : IsFiniteSet(s) /\ Cardinality(s) \in Nat
  BY FS_Subset, FS_CardinalityType
<1>2. 0 \in N
  <2>1. \A s \in Small(0) : s = {}
    BY <1>1, FS_EmptySet
  <2>2. Upto(0, [s \in Small(0) |-> 0])
    <3> HIDE DEF Small
    <3> QED BY <2>1
  <2> QED BY <2>2
<1>3. ASSUME NEW n \in N PROVE n + 1 \in N
  <2>1. PICK g : Upto(n, g)
    BY <1>3
  <2> DEFINE h == [s \in Small(n + 1) |-> IF s = {} THEN 0 ELSE f[Pick(s)] + g[s \ {Pick(s)}]]
  <2>2. n \in Nat /\ Small(n) \subseteq Small(n + 1)
    BY <1>1
  <2>3. \A s \in Small(n + 1) : s # {} => s \ {Pick(s)} \in Small(n)
    <3> SUFFICES ASSUME NEW s \in SUBSET D, Cardinality(s) <= n + 1, s # {}
                 PROVE  Cardinality(s \ {Pick(s)}) <= n
      OBVIOUS
    <3>1. Pick(s) \in s
      BY DEF Pick
    <3>2. Cardinality(s \ {Pick(s)}) = Cardinality(s) - 1
      BY <1>1, <3>1, FS_RemoveElement
    <3> QED BY <1>1, <2>2, <3>2
  <2> HIDE DEF Small
  <2>4. \A s \in Small(n) : h[s] = g[s]
    BY <2>1, <2>2
  <2>5. h = [s \in Small(n + 1) |-> IF s = {} THEN 0 ELSE f[Pick(s)] + h[s \ {Pick(s)}]]
    BY <2>3, <2>4
  <2> HIDE DEF h
  <2>6. Upto(n + 1, h)
    BY <2>5
  <2> HIDE DEF Upto
  <2> QED BY <2>2, <2>6
<1> HIDE DEF N
<1>4. N = Nat
  <2>1. N \in SUBSET Nat
    BY DEF N
  <2> QED BY <1>2, <1>3, <2>1, Induction
<1>5. Cardinality(D) \in N
  BY <1>4, FS_CardinalityType
<1>6. PICK g : Upto(Cardinality(D), g)
  BY <1>5 DEF N
<1>7. Small(Cardinality(D)) = SUBSET D
  BY FS_Subset
<1> QED BY <1>6, <1>7 DEF Sums

\* Sum is the value of that function at the whole domain.
LEMMA SumIs ==
    ASSUME NEW f, IsFiniteSet(DOMAIN f)
    PROVE  \E g : Sums(f, DOMAIN f, g) /\ Sum(f) = g[DOMAIN f]
<1> DEFINE D == DOMAIN f
           g == CHOOSE g : Sums(f, D, g)
<1>1. Sums(f, D, g)
  <2> HIDE DEF D
  <2> QED BY SumsExist DEF D
<1>2. Sum(f) = g[D]
  BY DEF Sum, FoldFunction, FoldFunctionOnSet, MapThenFoldSet, Sums, Pick
<1> QED BY <1>1, <1>2

\* A fold over nothing but zeros.
LEMMA SumOfZeros ==
    ASSUME NEW D, IsFiniteSet(D)
    PROVE  Sum([x \in D |-> 0]) = 0
<1> DEFINE f == [x \in D |-> 0]
<1>1. PICK g : Sums(f, D, g) /\ Sum(f) = g[D]
  BY SumIs
<1> DEFINE T == {s \in SUBSET D : g[s] = 0}
<1>2. {} \in T
  BY <1>1 DEF Sums
<1>3. ASSUME NEW s \in SUBSET D, s # {}, s \ {Pick(s)} \in T
      PROVE  s \in T
  <2>1. Pick(s) \in s
    BY <1>3 DEF Pick
  <2>2. g[s] = f[Pick(s)] + g[s \ {Pick(s)}]
    BY <1>1, <2>1 DEF Sums
  <2> QED BY <1>3, <2>1, <2>2
<1> HIDE DEF T
<1>4. SUBSET D \subseteq T
  BY <1>2, <1>3, SubsetInduction
<1> QED BY <1>1, <1>4 DEF T

\* Naturals add up to a natural.
LEMMA SumOfNats ==
    ASSUME NEW D, IsFiniteSet(D), NEW f \in [D -> Nat]
    PROVE  Sum(f) \in Nat
<1>1. PICK g : Sums(f, D, g) /\ Sum(f) = g[D]
  BY SumIs
<1> DEFINE T == {s \in SUBSET D : g[s] \in Nat}
<1>2. {} \in T
  BY <1>1 DEF Sums
<1>3. ASSUME NEW s \in SUBSET D, s # {}, s \ {Pick(s)} \in T
      PROVE  s \in T
  <2>1. Pick(s) \in s
    BY <1>3 DEF Pick
  <2>2. g[s] = f[Pick(s)] + g[s \ {Pick(s)}]
    BY <1>1, <2>1 DEF Sums
  <2> QED BY <1>3, <2>1, <2>2
<1> HIDE DEF T
<1>4. SUBSET D \subseteq T
  BY <1>2, <1>3, SubsetInduction
<1> QED BY <1>1, <1>4 DEF T

\* One value grows, and the sum by as much.
LEMMA SumGrows ==
    ASSUME NEW D, IsFiniteSet(D), NEW f \in [D -> Int], NEW r \in D, NEW n \in Int
    PROVE  Sum([f EXCEPT ![r] = @ + n]) = Sum(f) + n
<1> DEFINE h == [f EXCEPT ![r] = @ + n]
<1>1. PICK F : Sums(f, D, F) /\ Sum(f) = F[D]
  BY SumIs
<1>2. PICK H : Sums(h, D, H) /\ Sum(h) = H[D]
  BY SumIs
<1> DEFINE T == {s \in SUBSET D : F[s] \in Int /\ H[s] = F[s] + (IF r \in s THEN n ELSE 0)}
<1>3. {} \in T
  BY <1>1, <1>2 DEF Sums
<1>4. ASSUME NEW s \in SUBSET D, s # {}, s \ {Pick(s)} \in T
      PROVE  s \in T
  <2>1. Pick(s) \in s
    BY <1>4 DEF Pick
  <2>2. /\ F[s] = f[Pick(s)] + F[s \ {Pick(s)}]
        /\ H[s] = h[Pick(s)] + H[s \ {Pick(s)}]
    BY <1>1, <1>2, <2>1 DEF Sums
  <2>3. f[Pick(s)] \in Int /\ h[Pick(s)] = f[Pick(s)] + (IF Pick(s) = r THEN n ELSE 0)
    BY <2>1
  <2>4. /\ F[s \ {Pick(s)}] \in Int
        /\ H[s \ {Pick(s)}] = F[s \ {Pick(s)}] + (IF r \in s \ {Pick(s)} THEN n ELSE 0)
    BY <1>4
  <2> QED BY <2>1, <2>2, <2>3, <2>4
<1> HIDE DEF T
<1>5. SUBSET D \subseteq T
  BY <1>3, <1>4, SubsetInduction
<1>6. D \in T
  BY <1>5
<1> QED BY <1>1, <1>2, <1>6 DEF T

=============================================================================
