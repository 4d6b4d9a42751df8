----------------------------- MODULE FiniteSums -----------------------------
(***************************************************************************)
(* Sums over finite sets: what SumFunctionOnSet of the community modules   *)
(* computes, as facts the proofs of the other modules cite by name.        *)
(*                                                                         *)
(* The library's induction theorems take the induction predicate as an     *)
(* operator.  Here the predicate is a SET that is shown to hold every      *)
(* natural number, or every subset of a finite set, so that ordinary       *)
(* first-order reasoning can use it; the two rules follow from the         *)
(* library's least-element theorem WFMin.                                  *)
(***************************************************************************)
EXTENDS FiniteSetsExt, FiniteSetTheorems, TLAPS

\* Numbers have a least one.
LEMMA LeastNumber ==
  ASSUME NEW M, M \subseteq Nat, M # {}
  PROVE  \E n \in M : \A m \in M : n <= m
<1>1. PICK n \in M : \A m \in M : <<m, n>> \notin OpToRel(<, Nat)
  BY NatLessThanWellFounded, WFMin, Zenon
<1>2. ASSUME NEW m \in M PROVE ~(m < n)
  <2>1. m < n /\ <<m, n>> \in Nat \X Nat => <<m, n>> \in OpToRel(<, Nat)
    BY Zenon DEF OpToRel
  <2>2. <<m, n>> \in Nat \X Nat
    BY <1>2
  <2> QED
    BY <1>1, <2>1, <2>2, Zenon
<1>3. \A m \in M : n <= m
  BY <1>2
<1> QED
  BY <1>3

\* A bounded set of numbers has a greatest element, which Max picks.
LEMMA Greatest ==
  ASSUME NEW n \in Nat, NEW S \in SUBSET (0 .. n), S # {}
  PROVE  \E x \in S : \A y \in S : y <= x
<1> DEFINE T == {n - x : x \in S}
<1>1. T \subseteq Nat /\ T # {}
  <2>1. \A x \in S : x \in 0 .. n /\ n - x \in Nat
    OBVIOUS
  <2>2. PICK x \in S : TRUE
    OBVIOUS
  <2> QED BY <2>1, <2>2
<1>2. PICK t \in T : \A u \in T : t <= u
  <2> HIDE DEF T
  <2> QED BY <1>1, LeastNumber
<1>3. PICK x \in S : t = n - x
  BY <1>2
<1>4. \A y \in S : n - x <= n - y
  BY <1>2, <1>3
<1>5. \A y \in S : y <= x
  BY <1>4
<1> QED
  BY <1>5

LEMMA MaxIn ==
  ASSUME NEW n \in Nat, NEW S \in SUBSET (0 .. n), S # {}
  PROVE  Max(S) \in S /\ \A x \in S : x <= Max(S)
<1>1. PICK x \in S : \A y \in S : y <= x
  BY Greatest
<1>2. \A y \in S : x >= y
  BY <1>1
<1>3. Max(S) \in S /\ \A y \in S : Max(S) >= y
  BY <1>2 DEF Max
<1> QED
  BY <1>3


\* A set with 0 and, with a number, its successor has every natural number.
LEMMA NumbersByInduction ==
  ASSUME NEW N, 0 \in N, \A n \in Nat : n \in N => n + 1 \in N
  PROVE  Nat \subseteq N
<1> DEFINE Missing == Nat \ N
<1>1. SUFFICES ASSUME Missing # {}
               PROVE  FALSE
  OBVIOUS
<1>2. PICK n \in Missing : \A m \in Missing : n <= m
  <2> HIDE DEF Missing
  <2>1. Missing \subseteq Nat
    BY DEF Missing
  <2> QED BY <1>1, <2>1, LeastNumber
<1>3. n \in Nat /\ n \notin N /\ n # 0
  OBVIOUS
<1>4. n - 1 \in Nat /\ n - 1 \in N => n \in N
  BY <1>3
<1>5. n - 1 \in Missing
  BY <1>3, <1>4
<1> QED BY <1>2, <1>3, <1>5

\* A set with every subset of S whose smaller subsets it has, has them all.
LEMMA SubsetsByInduction ==
  ASSUME NEW S, IsFiniteSet(S), NEW U,
         \A T \in SUBSET S : (\A V \in SUBSET T : V # T => V \in U) => T \in U
  PROVE  SUBSET S \subseteq U
<1> DEFINE Missing == (SUBSET S) \ U
<1>1. SUFFICES ASSUME Missing # {}
               PROVE  FALSE
  OBVIOUS
<1>2. IsWellFoundedOn(StrictSubsetOrdering(S), SUBSET S)
  BY FS_StrictSubsetOrderingWellFounded, FS_FiniteSubsetsOfFinite
<1>3. PICK T \in Missing : \A V \in Missing : <<V, T>> \notin StrictSubsetOrdering(S)
  <2> HIDE DEF Missing
  <2>1. Missing \subseteq SUBSET S
    BY DEF Missing
  <2> QED BY <1>1, <1>2, <2>1, WFMin
<1>4. \A V \in SUBSET T : V # T => <<V, T>> \in StrictSubsetOrdering(S)
  BY DEF StrictSubsetOrdering
<1>5. ASSUME NEW V \in SUBSET T, V # T
      PROVE  V \in U
  <2>1. <<V, T>> \in StrictSubsetOrdering(S)
    BY <1>4, <1>5
  <2>2. V \notin Missing
    BY <1>3, <2>1
  <2>3. V \in SUBSET S
    OBVIOUS
  <2> QED BY <2>2, <2>3
<1>6. T \in U
  BY <1>5
<1> QED BY <1>6

-----------------------------------------------------------------------------
(* The recursion a sum unfolds to.                                         *)

Pick(T) == CHOOSE x \in T : TRUE

LEMMA PickIn == ASSUME NEW T, T # {} PROVE Pick(T) \in T
BY DEF Pick

Unfolds(F, f, D) ==
  F = [T \in D |-> IF T = {} THEN 0 ELSE f[Pick(T)] + F[T \ {Pick(T)}]]

\* The recursion has a solution on the subsets of a finite set, built up
\* level by level over their sizes.
LEMMA UnfoldingExists ==
  ASSUME NEW S, IsFiniteSet(S), NEW f
  PROVE  \E F : Unfolds(F, f, SUBSET S)
<1> DEFINE Level(n) == {T \in SUBSET S : Cardinality(T) <= n}
           N == {n \in Nat : \E F : Unfolds(F, f, Level(n))}
<1>0. \A T \in SUBSET S : IsFiniteSet(T) /\ Cardinality(T) \in Nat
  BY FS_Subset, FS_CardinalityType
<1>1. 0 \in N
  <2> DEFINE F == [T \in Level(0) |-> 0]
  <2>1. \A T \in Level(0) : T = {}
    BY <1>0, FS_EmptySet
  <2>2. Unfolds(F, f, Level(0))
    BY <2>1 DEF Unfolds
  <2> QED BY <2>2
<1>2. ASSUME NEW n \in Nat, n \in N
      PROVE  n + 1 \in N
  <2>1. PICK F : Unfolds(F, f, Level(n))
    BY <1>2
  <2> DEFINE G == [T \in Level(n + 1) |-> IF T = {} THEN 0 ELSE f[Pick(T)] + F[T \ {Pick(T)}]]
  <2>2. ASSUME NEW T \in Level(n + 1), T # {}
        PROVE  T \ {Pick(T)} \in Level(n)
    <3>1. Pick(T) \in T
      BY <2>2, PickIn
    <3>2. Cardinality(T \ {Pick(T)}) = Cardinality(T) - 1
      BY <1>0, <3>1, FS_RemoveElement
    <3> QED BY <1>0, <3>2
  <2>3. \A T \in Level(n) : T \in Level(n + 1)
    BY <1>0
  <2>4. \A T \in Level(n) : G[T] = F[T]
    <3> SUFFICES ASSUME NEW T \in Level(n)
                 PROVE  G[T] = F[T]
      OBVIOUS
    <3>1. G[T] = IF T = {} THEN 0 ELSE f[Pick(T)] + F[T \ {Pick(T)}]
      BY <2>3
    <3> HIDE DEF G
    <3>2. F[T] = IF T = {} THEN 0 ELSE f[Pick(T)] + F[T \ {Pick(T)}]
      <4> HIDE DEF Level
      <4> QED BY <2>1 DEF Unfolds
    <3> QED BY <3>1, <3>2
  <2>5. G = [T \in Level(n + 1) |-> IF T = {} THEN 0 ELSE f[Pick(T)] + G[T \ {Pick(T)}]]
    <3>1. \A T \in Level(n + 1) : T # {} => G[T \ {Pick(T)}] = F[T \ {Pick(T)}]
      BY <2>2, <2>4
    <3>2. G = [T \in Level(n + 1) |-> IF T = {} THEN 0 ELSE f[Pick(T)] + F[T \ {Pick(T)}]]
      OBVIOUS
    <3> HIDE DEF G, Level
    <3> QED BY <3>1, <3>2
  <2>6. Unfolds(G, f, Level(n + 1))
    <3> HIDE DEF G, Level
    <3> QED BY <2>5 DEF Unfolds
  <2> HIDE DEF G, Level
  <2> QED BY <2>6
<1>3. Nat \subseteq N
  <2> HIDE DEF N
  <2> QED BY <1>1, <1>2, NumbersByInduction
<1>4. Cardinality(S) \in Nat /\ Level(Cardinality(S)) = SUBSET S
  BY FS_CardinalityType, FS_Subset
<1> QED BY <1>3, <1>4

\* SumFunctionOnSet is such a solution, taken at the whole set.
LEMMA SumUnfolds ==
  ASSUME NEW S, IsFiniteSet(S), NEW f
  PROVE  \E F : Unfolds(F, f, SUBSET S) /\ SumFunctionOnSet(f, S) = F[S]
<1> DEFINE Def(F) == F = [T \in SUBSET S |-> IF T = {} THEN 0 ELSE f[CHOOSE x \in T : TRUE] + F[T \ {CHOOSE x \in T : TRUE}]]
           I == CHOOSE F : Def(F)
<1>1. \E F : Def(F)
  <2>1. PICK F : Unfolds(F, f, SUBSET S)
    BY UnfoldingExists
  <2>2. Def(F)
    BY <2>1 DEF Unfolds, Pick
  <2> QED BY <2>2
<1>2. Def(I)
  <2> HIDE DEF Def
  <2> QED BY <1>1
<1>3. SumFunctionOnSet(f, S) = I[S]
  BY DEF SumFunctionOnSet, FoldFunctionOnSet, MapThenFoldSet
<1> QED BY <1>2, <1>3 DEF Unfolds, Pick

-----------------------------------------------------------------------------
(* Solutions of the recursion are sums in any order.                       *)

\* A solution has natural values, and may take off any element first.
LEMMA AnyFirst ==
  ASSUME NEW S, IsFiniteSet(S), NEW f, \A x \in S : f[x] \in Nat,
         NEW F, Unfolds(F, f, SUBSET S)
  PROVE  \A T \in SUBSET S :
            /\ F[T] \in Nat
            /\ \A x \in T : F[T] = f[x] + F[T \ {x}]
<1> DEFINE Good(T) == /\ F[T] \in Nat
                      /\ \A x \in T : F[T] = f[x] + F[T \ {x}]
           U == {T \in SUBSET S : Good(T)}
<1>1. \A T \in SUBSET S : F[T] = IF T = {} THEN 0 ELSE f[Pick(T)] + F[T \ {Pick(T)}]
  BY DEF Unfolds
<1>2. ASSUME NEW T \in SUBSET S, \A V \in SUBSET T : V # T => V \in U
      PROVE  Good(T)
  <2>1. CASE T = {}
    <3>1. F[T] = 0
      BY <1>1, <2>1
    <3> QED BY <2>1, <3>1
  <2>2. CASE T # {}
    <3> DEFINE y == Pick(T)
    <3>1. y \in T /\ F[T] = f[y] + F[T \ {y}]
      BY <1>1, <2>2, PickIn
    <3> HIDE DEF y
    <3>2. ASSUME NEW x \in T
          PROVE  f[x] \in Nat /\ Good(T \ {x})
      <4>1. T \ {x} \in SUBSET T /\ T \ {x} # T
        OBVIOUS
      <4>2. T \ {x} \in U
        BY <1>2, <4>1
      <4> QED BY <4>2
    <3>3. F[T] \in Nat
      <4>1. f[y] \in Nat /\ F[T \ {y}] \in Nat
        BY <3>1, <3>2
      <4> QED BY <3>1, <4>1
    <3>4. ASSUME NEW x \in T, x # y
          PROVE  F[T] = f[x] + F[T \ {x}]
      <4> DEFINE V == (T \ {x}) \ {y}
      <4>1. F[T \ {y}] = f[x] + F[(T \ {y}) \ {x}]
        BY <3>1, <3>2, <3>4
      <4>2. F[T \ {x}] = f[y] + F[V]
        BY <3>1, <3>2, <3>4
      <4>3. F[(T \ {y}) \ {x}] = F[V]
        <5>1. (T \ {y}) \ {x} = V
          OBVIOUS
        <5> QED BY <5>1
      <4>4. F[V] \in Nat
        <5>1. V \in SUBSET T /\ V # T
          BY <3>1
        <5> HIDE DEF V
        <5>2. V \in U
          BY <1>2, <5>1
        <5> QED BY <5>2
      <4>5. f[x] \in Nat /\ f[y] \in Nat
        BY <3>1, <3>2
      <4>6. F[T] = f[y] + (f[x] + F[V])
        BY <3>1, <4>1, <4>3
      <4>7. f[y] + (f[x] + F[V]) = f[x] + (f[y] + F[V])
        BY <4>4, <4>5
      <4> QED BY <4>2, <4>6, <4>7
    <3> QED BY <3>1, <3>3, <3>4
  <2> QED BY <2>1, <2>2
<1>3. SUBSET S \subseteq U
  <2>1. \A T \in SUBSET S : (\A V \in SUBSET T : V # T => V \in U) => T \in U
    BY <1>2
  <2> HIDE DEF U
  <2> QED BY <2>1, SubsetsByInduction
<1> QED BY <1>3

\* Two solutions for functions that agree have the same values.
LEMMA SameSums ==
  ASSUME NEW S, IsFiniteSet(S), NEW f, NEW g, \A x \in S : f[x] = g[x],
         NEW F, Unfolds(F, f, SUBSET S), NEW G, Unfolds(G, g, SUBSET S)
  PROVE  F[S] = G[S]
<1> DEFINE U == {T \in SUBSET S : F[T] = G[T]}
<1>1. \A T \in SUBSET S :
        /\ F[T] = IF T = {} THEN 0 ELSE f[Pick(T)] + F[T \ {Pick(T)}]
        /\ G[T] = IF T = {} THEN 0 ELSE g[Pick(T)] + G[T \ {Pick(T)}]
  BY DEF Unfolds
<1>2. ASSUME NEW T \in SUBSET S, \A V \in SUBSET T : V # T => V \in U
      PROVE  F[T] = G[T]
  <2>1. CASE T = {}
    BY <1>1, <2>1
  <2>2. CASE T # {}
    <3>1. Pick(T) \in T
      BY <2>2, PickIn
    <3>2. T \ {Pick(T)} \in SUBSET T /\ T \ {Pick(T)} # T
      BY <3>1
    <3>3. F[T \ {Pick(T)}] = G[T \ {Pick(T)}]
      BY <1>2, <3>2
    <3> QED BY <1>1, <2>2, <3>1, <3>3
  <2> QED BY <2>1, <2>2
<1>3. SUBSET S \subseteq U
  <2>1. \A T \in SUBSET S : (\A V \in SUBSET T : V # T => V \in U) => T \in U
    BY <1>2
  <2> HIDE DEF U
  <2> QED BY <2>1, SubsetsByInduction
<1> QED BY <1>3

-----------------------------------------------------------------------------
(* What SumFunctionOnSet returns.                                          *)

LEMMA SumType ==
  ASSUME NEW S, IsFiniteSet(S), NEW f, \A x \in S : f[x] \in Nat
  PROVE  SumFunctionOnSet(f, S) \in Nat
<1>1. PICK F : Unfolds(F, f, SUBSET S) /\ SumFunctionOnSet(f, S) = F[S]
  BY SumUnfolds
<1>2. \A T \in SUBSET S : F[T] \in Nat
  BY <1>1, AnyFirst
<1> QED BY <1>1, <1>2

LEMMA SumEmpty ==
  ASSUME NEW f
  PROVE  SumFunctionOnSet(f, {}) = 0
<1>1. PICK F : Unfolds(F, f, SUBSET {}) /\ SumFunctionOnSet(f, {}) = F[{}]
  BY SumUnfolds, FS_EmptySet
<1> QED BY <1>1 DEF Unfolds

\* Zeros add up to zero.
LEMMA SumZero ==
  ASSUME NEW S, IsFiniteSet(S), NEW f, \A x \in S : f[x] = 0
  PROVE  SumFunctionOnSet(f, S) = 0
<1>1. PICK F : Unfolds(F, f, SUBSET S) /\ SumFunctionOnSet(f, S) = F[S]
  BY SumUnfolds
<1>2. \A T \in SUBSET S : F[T] = IF T = {} THEN 0 ELSE f[Pick(T)] + F[T \ {Pick(T)}]
  BY <1>1 DEF Unfolds
<1> DEFINE U == {T \in SUBSET S : F[T] = 0}
<1>3. ASSUME NEW T \in SUBSET S, \A V \in SUBSET T : V # T => V \in U
      PROVE  T \in U
  <2>1. CASE T = {}
    BY <1>2, <2>1
  <2>2. CASE T # {}
    <3>1. Pick(T) \in T
      BY <2>2, PickIn
    <3>2. T \ {Pick(T)} \in U
      BY <1>3, <3>1
    <3> QED
      BY <1>2, <2>2, <3>1, <3>2
  <2> QED BY <2>1, <2>2
<1>4. SUBSET S \subseteq U
  <2> HIDE DEF U
  <2> QED BY <1>3, SubsetsByInduction
<1> QED BY <1>1, <1>4

\* Only the values on the set matter.
LEMMA SumSame ==
  ASSUME NEW S, IsFiniteSet(S), NEW f, NEW g,
         \A x \in S : f[x] = g[x]
  PROVE  SumFunctionOnSet(f, S) = SumFunctionOnSet(g, S)
<1>1. PICK F : Unfolds(F, f, SUBSET S) /\ SumFunctionOnSet(f, S) = F[S]
  BY SumUnfolds
<1>2. PICK G : Unfolds(G, g, SUBSET S) /\ SumFunctionOnSet(g, S) = G[S]
  BY SumUnfolds
<1>3. F[S] = G[S]
  BY <1>1, <1>2, SameSums
<1> QED BY <1>1, <1>2, <1>3

\* Taking an element off a set takes its value off the sum.
LEMMA SumRemove ==
  ASSUME NEW S, IsFiniteSet(S), NEW f, \A x \in S : f[x] \in Nat, NEW x \in S
  PROVE  SumFunctionOnSet(f, S) = f[x] + SumFunctionOnSet(f, S \ {x})
<1> DEFINE R == S \ {x}
<1>1. PICK F : Unfolds(F, f, SUBSET S) /\ SumFunctionOnSet(f, S) = F[S]
  BY SumUnfolds
<1>2. IsFiniteSet(R)
  BY FS_RemoveElement
<1>3. PICK G : Unfolds(G, f, SUBSET R) /\ SumFunctionOnSet(f, R) = G[R]
  BY <1>2, SumUnfolds
<1>4. F[R] = G[R]
  <2> DEFINE H == [T \in SUBSET R |-> F[T]]
  <2>1. \A T \in SUBSET S : F[T] = IF T = {} THEN 0 ELSE f[Pick(T)] + F[T \ {Pick(T)}]
    BY <1>1 DEF Unfolds
  <2>2. \A T \in SUBSET R : H[T] = IF T = {} THEN 0 ELSE f[Pick(T)] + H[T \ {Pick(T)}]
    <3>1. \A T \in SUBSET R : T \in SUBSET S /\ T \ {Pick(T)} \in SUBSET R
      OBVIOUS
    <3> QED BY <2>1, <3>1
  <2>3. H = [T \in SUBSET R |-> H[T]] /\ H[R] = F[R]
    OBVIOUS
  <2> HIDE DEF H, R
  <2>4. Unfolds(H, f, SUBSET R)
    BY <2>2, <2>3 DEF Unfolds
  <2> QED BY <1>2, <1>3, <2>3, <2>4, SameSums
<1>5. F[S] = f[x] + F[R]
  BY <1>1, AnyFirst
<1> QED BY <1>1, <1>3, <1>4, <1>5

\* Adding an element to a set adds its value to the sum.
LEMMA SumAdd ==
  ASSUME NEW S, IsFiniteSet(S), NEW x, x \notin S,
         NEW f, \A y \in S \cup {x} : f[y] \in Nat
  PROVE  SumFunctionOnSet(f, S \cup {x}) = f[x] + SumFunctionOnSet(f, S)
<1>1. IsFiniteSet(S \cup {x})
  BY FS_AddElement
<1>2. (S \cup {x}) \ {x} = S
  OBVIOUS
<1> QED BY <1>1, <1>2, SumRemove

\* f over S and g over T are natural numbers, the same ones except at o.
DifferAt(o, f, S, g, T) ==
  /\ S \ {o} = T \ {o}
  /\ \A x \in S : f[x] \in Nat
  /\ \A x \in T : g[x] \in Nat
  /\ \A x \in S \ {o} : f[x] = g[x]

\* Two sums that differ at most in one element differ by what it adds to each.
LEMMA SumChange ==
  ASSUME NEW S, IsFiniteSet(S), NEW T, IsFiniteSet(T), NEW o, NEW f, NEW g,
         DifferAt(o, f, S, g, T)
  PROVE  SumFunctionOnSet(f, S) + (IF o \in T THEN g[o] ELSE 0)
           = SumFunctionOnSet(g, T) + (IF o \in S THEN f[o] ELSE 0)
<1> DEFINE R == S \ {o}
<1> USE DEF DifferAt
<1>1. IsFiniteSet(R) /\ \A x \in R : f[x] \in Nat /\ g[x] \in Nat
  BY FS_RemoveElement
<1>2. SumFunctionOnSet(f, R) = SumFunctionOnSet(g, R)
  <2>1. \A x \in R : f[x] = g[x]
    OBVIOUS
  <2> HIDE DEF R
  <2> QED BY <1>1, <2>1, SumSame
<1>3. SumFunctionOnSet(f, R) \in Nat
  <2> HIDE DEF R
  <2> QED BY <1>1, SumType
<1>4. SumFunctionOnSet(f, S) = (IF o \in S THEN f[o] ELSE 0) + SumFunctionOnSet(f, R)
  <2>1. CASE o \in S
    BY <2>1, SumRemove
  <2>2. CASE o \notin S
    <3>1. R = S
      BY <2>2
    <3> HIDE DEF R
    <3> QED BY <1>3, <2>2, <3>1
  <2> QED BY <2>1, <2>2
<1>5. SumFunctionOnSet(g, T) = (IF o \in T THEN g[o] ELSE 0) + SumFunctionOnSet(g, R)
  <2>1. R = T \ {o}
    OBVIOUS
  <2> HIDE DEF R
  <2>2. CASE o \in T
    BY <2>1, <2>2, SumRemove
  <2>3. CASE o \notin T
    <3>1. R = T
      BY <2>1, <2>3
    <3> QED BY <1>2, <1>3, <2>3, <3>1
  <2> QED BY <2>2, <2>3
<1>6. (IF o \in S THEN f[o] ELSE 0) \in Nat /\ (IF o \in T THEN g[o] ELSE 0) \in Nat
  OBVIOUS
<1> HIDE DEF R
<1> QED BY <1>2, <1>3, <1>4, <1>5, <1>6
=============================================================================
