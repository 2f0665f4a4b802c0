--------------------------- MODULE InductionFacts ---------------------------
(***************************************************************************)
(* Facts about natural numbers and finite sets that the proofs use in      *)
(* place of induction: every counterexample comes with a least one.        *)
(***************************************************************************)
EXTENDS Integers, FiniteSets, FiniteSetTheorems, WellFoundedInduction, TLAPS

\* A nonempty set of natural numbers has a least element.
LEMMA Least ==
  ASSUME NEW S \in SUBSET Nat, S # {}
  PROVE  \E m \in S : \A n \in S : m <= n
<1> DEFINE R == OpToRel(<, Nat)
<1>1. IsWellFoundedOn(R, Nat)
  BY NatLessThanWellFounded
<1>2. \A a, b \in Nat : a < b => <<a, b>> \in R
  BY DEF OpToRel
<1> HIDE DEF R
<1>3. PICK m \in S : \A n \in S : ~ (<<n, m>> \in R)
  BY <1>1, WFMin
<1>4. ASSUME NEW n \in S PROVE m <= n
  <2>1. m \in Nat /\ n \in Nat /\ ~ (<<n, m>> \in R)
    BY <1>3
  <2>2. ~ (n < m)
    BY <2>1, <1>2
  <2> QED BY <2>1, <2>2
<1> QED BY <1>4

\* A nonempty finite set of natural numbers has a largest element: a smallest
\* set without one would, less any element, have one.
LEMMA Largest ==
  ASSUME NEW S \in SUBSET Nat, IsFiniteSet(S), S # {}
  PROVE  \E m \in S : \A n \in S : m >= n
<1> DEFINE Bad(k) == \E T \in SUBSET Nat : /\ T # {} /\ IsFiniteSet(T) /\ Cardinality(T) = k
                                           /\ ~ \E m \in T : \A n \in T : m >= n
           B == {k \in Nat : Bad(k)}
<1> SUFFICES ASSUME ~ \E m \in S : \A n \in S : m >= n PROVE FALSE
  OBVIOUS
<1>1. Cardinality(S) \in B
  BY FS_CardinalityType
<1>2. PICK k \in B : \A n \in B : k <= n
  <2> HIDE DEF B
  <2>1. B \in SUBSET Nat
    BY DEF B
  <2> QED BY <1>1, <2>1, Least
<1>3. PICK T \in SUBSET Nat : /\ T # {} /\ IsFiniteSet(T) /\ Cardinality(T) = k
                              /\ ~ \E m \in T : \A n \in T : m >= n
  BY <1>2
<1>4. PICK x : x \in T
  BY <1>3
<1> DEFINE U == T \ {x}
<1>5. IsFiniteSet(U) /\ Cardinality(U) = k - 1 /\ Cardinality(U) \in Nat /\ U \in SUBSET Nat
  BY <1>3, <1>4, FS_RemoveElement, FS_CardinalityType
<1>6. \E m \in U : \A n \in U : m >= n
  <2>1. CASE U = {}
    BY <1>3, <1>4, <2>1
  <2>2. CASE U # {}
    <3>1. k \in Nat /\ \A n \in B : k <= n
      BY <1>2
    <3>2. Cardinality(U) \notin B
      <4> HIDE DEF B, U
      <4> QED BY <1>5, <3>1
    <3>3. ~ Bad(Cardinality(U))
      BY <1>5, <3>2
    <3> HIDE DEF U
    <3> QED BY <1>5, <2>2, <3>3
  <2> QED BY <2>1, <2>2
<1>7. PICK m \in U : \A n \in U : m >= n
  BY <1>6
<1>8. m \in T /\ m \in Nat /\ x \in Nat
  BY <1>3, <1>4
<1>9. \A n \in T : n = x \/ n \in U
  OBVIOUS
<1> HIDE DEF U
<1> QED BY <1>3, <1>4, <1>7, <1>8, <1>9

\* What a function takes from a finite set is finite.
LEMMA ImageFinite ==
  ASSUME NEW S, IsFiniteSet(S), NEW g
  PROVE  IsFiniteSet({g[x] : x \in S})
<1> DEFINE T == {g[x] : x \in S}
           f == [x \in S |-> g[x]]
<1>1. f \in Surjection(S, T)
  BY DEF Surjection
<1> HIDE DEF T, f
<1>2. IsFiniteSet(T)
  BY <1>1, FS_Surjection
<1> QED BY <1>2 DEF T

\* Every set of elements has one that depends on no other of the set.
Founded(N, deps) ==
  deps \in [N -> SUBSET N] /\ \A S \in SUBSET N : S # {} => \E n \in S : deps[n] \cap S = {}

\* step[n] gives n a Boolean, from the values of the elements it depends on.
Local(N, deps, step) ==
  /\ \A n \in N : \A V \in [N -> BOOLEAN] : step[n][V] \in BOOLEAN
  /\ \A n \in N : \A V, W \in [N -> BOOLEAN] :
       (\A m \in deps[n] : V[m] = W[m]) => step[n][V] = step[n][W]

\* Equations that give every element of a finite set a Boolean value, each from
\* the values of others, without a cycle, have a solution: what a recursive
\* function is.  A set of elements that is solved, as large as can be, is N.
LEMMA Solution ==
  ASSUME NEW N, IsFiniteSet(N), NEW deps, NEW step, Founded(N, deps), Local(N, deps, step)
  PROVE  \E V \in [N -> BOOLEAN] : \A n \in N : V[n] = step[n][V]
<1> DEFINE Solves(D, V) == \A n \in D : deps[n] \subseteq D /\ V[n] = step[n][V]
           Solved(D) == \E V \in [N -> BOOLEAN] : Solves(D, V)
           Sizes == {k \in Nat : \E D \in SUBSET N : Solved(D) /\ Cardinality(N \ D) = k}
<1>1. Sizes # {}
  <2>1. [n \in N |-> TRUE] \in [N -> BOOLEAN]
    OBVIOUS
  <2>2. Solved({})
    BY <2>1
  <2>3. Cardinality(N \ {}) \in Nat
    BY FS_CardinalityType, FS_Subset
  <2> QED BY <2>2, <2>3
<1>2. PICK k \in Sizes : \A n \in Sizes : k <= n
  <2>1. Sizes \in SUBSET Nat
    OBVIOUS
  <2> HIDE DEF Sizes
  <2> QED BY <1>1, <2>1, Least
<1>3. PICK D \in SUBSET N : Solved(D) /\ Cardinality(N \ D) = k
  OBVIOUS
<1>4. PICK V \in [N -> BOOLEAN] : Solves(D, V)
  BY <1>3
<1>5. N \ D = {}
  <2> SUFFICES ASSUME N \ D # {} PROVE FALSE
    OBVIOUS
  <2>1. PICK n \in N \ D : deps[n] \cap (N \ D) = {}
    BY DEF Founded
  <2> DEFINE U == [V EXCEPT ![n] = step[n][V]]
             E == D \cup {n}
  <2>2. U \in [N -> BOOLEAN] /\ U[n] = step[n][V] /\ \A m \in D : U[m] = V[m]
    BY <2>1 DEF Local
  <2> HIDE DEF U
  <2>3. deps[n] \subseteq D
    BY <2>1 DEF Founded
  <2>4. \A m \in D : step[m][U] = step[m][V]
    BY <1>4, <2>2 DEF Local
  <2>5. step[n][U] = step[n][V]
    BY <2>1, <2>2, <2>3 DEF Local
  <2>6. Solves(E, U)
    BY <1>4, <2>2, <2>3, <2>4, <2>5
  <2>7. E \in SUBSET N /\ Solved(E)
    BY <2>1, <2>2, <2>6
  <2>8. N \ E = (N \ D) \ {n} /\ n \in N \ D /\ IsFiniteSet(N \ D)
    BY <2>1, FS_Subset
  <2>9. Cardinality((N \ D) \ {n}) = k - 1 /\ Cardinality((N \ D) \ {n}) \in Nat
    <3> DEFINE Rest == N \ D
    <3>1. n \in Rest /\ IsFiniteSet(Rest) /\ Cardinality(Rest) = k
      BY <1>3, <2>8
    <3> HIDE DEF Rest
    <3>2. IsFiniteSet(Rest \ {n}) /\ Cardinality(Rest \ {n}) = k - 1
      BY <3>1, FS_RemoveElement
    <3>3. Cardinality(Rest \ {n}) \in Nat
      BY <3>2, FS_CardinalityType
    <3> QED BY <3>2, <3>3 DEF Rest
  <2>10. Cardinality(N \ E) = k - 1 /\ k - 1 \in Nat
    BY <2>8, <2>9
  <2>11. k - 1 \in Sizes
    BY <2>7, <2>10
  <2>12. k \in Nat
    OBVIOUS
  <2> HIDE DEF Sizes
  <2> QED BY <1>2, <2>11, <2>12
<1> QED BY <1>4, <1>5
=============================================================================
