-------------------------- MODULE Analyses_proofs --------------------------
(***************************************************************************)
(* The tree that compute_idoms() builds is the dominance relation, the     *)
(* edges that create_pdg() adds are the control dependence relation, and   *)
(* update_blocks() keeps what a function does and breaks its cycles, for   *)
(* every control flow graph and every order of its edges.                  *)
(***************************************************************************)
EXTENDS ControlDependence, FunctionBlocks, InductionFacts

----------------------------------------------------------------------------
(* Closure.                                                                *)

\* F of Closure, with what its value is at each number of steps.
LEMMA ClosureSequence ==
  ASSUME N \in Nat, NEW r, NEW A
  PROVE  \E f : /\ f[N] = Closure(r, A) /\ f[0] = A
                /\ \A i \in 1..N : f[i] = f[i - 1] \cup UNION {r[x] : x \in f[i - 1]}
<1> DEFINE Beyond(f, i) == f[i - 1] \cup UNION {r[x] : x \in f[i - 1]}
           UpTo(f, k) == /\ f = [i \in 0..k |-> f[i]] /\ f[0] = A
                         /\ \A i \in 1..k : f[i] = Beyond(f, i)
           Equation(F) == F = [i \in 0..N |-> IF i = 0 THEN A ELSE LET R == F[i - 1] IN R \cup UNION {r[x] : x \in R}]
           Fails == {k \in Nat : ~ \E f : UpTo(f, k)}
<1>1. Fails = {}
  <2> SUFFICES ASSUME Fails # {} PROVE FALSE
    OBVIOUS
  <2>1. PICK k \in Fails : \A n \in Fails : k <= n
    <3>1. Fails \in SUBSET Nat
      OBVIOUS
    <3> HIDE DEF Fails
    <3> QED BY <3>1, Least
  <2>2. k # 0
    <3> DEFINE f == [i \in 0..0 |-> A]
    <3>1. f = [i \in 0..0 |-> f[i]] /\ f[0] = A
      OBVIOUS
    <3> HIDE DEF f
    <3>2. UpTo(f, 0)
      BY <3>1
    <3> QED BY <3>2
  <2>3. PICK f : UpTo(f, k - 1)
    <3>1. k - 1 \in Nat /\ k - 1 \notin Fails
      <4>1. k \in Nat
        OBVIOUS
      <4>2. Fails \subseteq Nat
        OBVIOUS
      <4> HIDE DEF Fails
      <4> QED BY <2>1, <2>2, <4>1, <4>2
    <3> DEFINE Some(j) == \E f : UpTo(f, j)
    <3>2. Fails = {j \in Nat : ~ Some(j)}
      OBVIOUS
    <3> HIDE DEF Some, Fails
    <3>3. Some(k - 1)
      BY <3>1, <3>2
    <3> QED BY <3>3 DEF Some
  <2> DEFINE g == [i \in 0..k |-> IF i = k THEN Beyond(f, k) ELSE f[i]]
  <2>4. g = [i \in 0..k |-> g[i]] /\ g[0] = A
    BY <2>1, <2>2, <2>3
  <2>5. \A i \in 0..(k - 1) : g[i] = f[i]
    BY <2>1, <2>2
  <2>6. g[k] = Beyond(f, k)
    BY <2>1
  <2> HIDE DEF g
  <2>7. ASSUME NEW i \in 1..k PROVE g[i] = Beyond(g, i)
    <3>1. g[i - 1] = f[i - 1]
      BY <2>1, <2>5
    <3>2. CASE i = k
      BY <2>6, <3>1, <3>2
    <3>3. CASE i # k
      <4>1. i \in 1..(k - 1) /\ i \in 0..(k - 1)
        BY <2>1, <3>3
      <4>2. f[i] = Beyond(f, i)
        BY <2>3, <4>1
      <4>3. g[i] = f[i]
        BY <2>5, <4>1
      <4> QED BY <3>1, <4>2, <4>3
    <3> QED BY <3>2, <3>3
  <2>8. UpTo(g, k)
    BY <2>4, <2>7
  <2> QED BY <2>1, <2>8
<1>2. PICK f : UpTo(f, N)
  BY <1>1
<1>3. Equation(f)
  <2>1. \A i \in 0..N : f[i] = IF i = 0 THEN A ELSE LET R == f[i - 1] IN R \cup UNION {r[x] : x \in R}
    <3> TAKE i \in 0..N
    <3>1. CASE i = 0
      BY <1>2, <3>1
    <3>2. CASE i # 0
      <4>1. i \in 1..N
        BY <3>2
      <4> QED BY <1>2, <3>2, <4>1
    <3> QED BY <3>1, <3>2
  <2> QED BY <1>2, <2>1
<1>4. Closure(r, A) = (CHOOSE F : Equation(F))[N]
  BY DEF Closure
<1>5. PICK F : Equation(F) /\ F[N] = Closure(r, A)
  BY <1>3, <1>4
<1>6. F[0] = A /\ \A i \in 1..N : F[i] = Beyond(F, i)
  BY <1>5
<1> QED BY <1>5, <1>6

\* Closure(r, A) is the least set that has A and is closed under r, when N is
\* no less than the number of elements.
LEMMA ClosureLeast ==
  ASSUME N \in Nat, NEW X, IsFiniteSet(X), Cardinality(X) <= N,
         NEW r \in [X -> SUBSET X], NEW A \in SUBSET X
  PROVE  /\ A \subseteq Closure(r, A) /\ Closure(r, A) \subseteq X
         /\ \A x \in Closure(r, A) : r[x] \subseteq Closure(r, A)
         /\ \A T : A \subseteq T /\ (\A x \in T \cap X : r[x] \subseteq T) => Closure(r, A) \subseteq T
<1>1. PICK f : /\ f[N] = Closure(r, A) /\ f[0] = A
               /\ \A i \in 1..N : f[i] = f[i - 1] \cup UNION {r[x] : x \in f[i - 1]}
  BY ClosureSequence
<1> DEFINE Within(T, i) == f[i] \subseteq T
           Closed(i) == \A x \in f[i] : r[x] \subseteq f[i]
           Large(i)  == /\ A \subseteq f[i] /\ f[i] \subseteq X
                        /\ Closed(i) \/ Cardinality(f[i]) >= i
<1>2. ASSUME NEW T, A \subseteq T, \A x \in T \cap X : r[x] \subseteq T, T \subseteq X
      PROVE  \A i \in 0..N : f[i] \subseteq T
  <2> DEFINE Out == {i \in 0..N : ~ (f[i] \subseteq T)}
  <2> SUFFICES ASSUME Out # {} PROVE FALSE
    OBVIOUS
  <2>1. PICK k \in Out : \A n \in Out : k <= n
    <3>1. Out \in SUBSET Nat
      OBVIOUS
    <3> HIDE DEF Out
    <3> QED BY <3>1, Least
  <2>2. k \in 1..N
    BY <1>1, <1>2, <2>1
  <2>3. f[k - 1] \subseteq T
    BY <2>1, <2>2
  <2>4. f[k] = f[k - 1] \cup UNION {r[x] : x \in f[k - 1]}
    BY <1>1, <2>2
  <2>5. \A x \in f[k - 1] : r[x] \subseteq T
    BY <1>2, <2>3
  <2> QED BY <2>1, <2>3, <2>4, <2>5
<1>3. \A i \in 0..N : f[i] \subseteq X
  BY <1>2
<1>4. \A i \in 0..N : Large(i)
  <2> DEFINE Out == {i \in 0..N : ~ Large(i)}
  <2> SUFFICES ASSUME Out # {} PROVE FALSE
    OBVIOUS
  <2>1. PICK k \in Out : \A n \in Out : k <= n
    <3>1. Out \in SUBSET Nat
      OBVIOUS
    <3> HIDE DEF Out
    <3> QED BY <3>1, Least
  <2>2. IsFiniteSet(f[k]) /\ Cardinality(f[k]) \in Nat /\ f[k] \subseteq X
    <3>1. f[k] \subseteq X
      BY <1>3, <2>1
    <3>2. IsFiniteSet(f[k])
      BY <3>1, FS_Subset
    <3> QED BY <3>1, <3>2, FS_CardinalityType
  <2>3. k # 0
    <3> SUFFICES ASSUME k = 0 PROVE FALSE
      OBVIOUS
    <3>1. Large(0)
      BY <1>1, <2>2
    <3> QED BY <2>1, <3>1
  <2>4. k \in 1..N /\ k - 1 \in 0..N /\ k - 1 \notin Out
    BY <2>1, <2>3
  <2>5. Large(k - 1)
    BY <2>4
  <2>6. f[k] = f[k - 1] \cup UNION {r[x] : x \in f[k - 1]}
    BY <1>1, <2>4
  <2>7. CASE Closed(k - 1)
    <3>1. f[k] = f[k - 1]
      BY <2>6, <2>7
    <3>2. Closed(k)
      BY <2>7, <3>1
    <3>3. Large(k)
      BY <2>2, <2>5, <3>1, <3>2
    <3> QED BY <2>1, <3>3
  <2>8. CASE ~ Closed(k - 1)
    <3>1. PICK y \in f[k] : y \notin f[k - 1]
      BY <2>6, <2>8
    <3>2. IsFiniteSet(f[k - 1]) /\ f[k - 1] \subseteq f[k] /\ f[k - 1] # f[k]
      BY <2>2, <2>6, <3>1, FS_Subset
    <3>3. Cardinality(f[k - 1]) < Cardinality(f[k]) /\ Cardinality(f[k - 1]) \in Nat
      BY <2>2, <3>2, FS_Subset, FS_CardinalityType
    <3>4. Cardinality(f[k]) >= k
      BY <2>2, <2>4, <2>5, <2>8, <3>3
    <3>5. Large(k)
      BY <2>2, <2>5, <3>2, <3>4
    <3> QED BY <2>1, <3>5
  <2> QED BY <2>7, <2>8
<1>5. Large(N) /\ f[N] \subseteq X
  BY <1>3, <1>4
<1>6. Closed(N)
  <2> SUFFICES ASSUME ~ Closed(N) PROVE FALSE
    OBVIOUS
  <2>1. Cardinality(f[N]) >= N
    BY <1>5
  <2>2. f[N] = X
    <3>1. IsFiniteSet(f[N]) /\ Cardinality(f[N]) <= Cardinality(X)
            /\ (Cardinality(X) = Cardinality(f[N]) => X = f[N])
      BY <1>5, FS_Subset
    <3>2. Cardinality(X) \in Nat /\ Cardinality(f[N]) \in Nat
      BY <3>1, FS_CardinalityType
    <3> QED BY <2>1, <3>1, <3>2
  <2> QED BY <2>2
<1>7. ASSUME NEW T, A \subseteq T, \A x \in T \cap X : r[x] \subseteq T
      PROVE  f[N] \subseteq T
  <2> DEFINE U == T \cap X
  <2>1. A \subseteq U /\ (\A x \in U \cap X : r[x] \subseteq U) /\ U \subseteq X
    BY <1>7
  <2> HIDE DEF U
  <2>2. f[N] \subseteq U
    BY <1>2, <2>1
  <2> QED BY <2>2 DEF U
<1> QED BY <1>1, <1>5, <1>6, <1>7

----------------------------------------------------------------------------
(* Walks and dominance.                                                    *)

LEMMA CountOfBlocks ==
  ASSUME DominatorsAssumption
  PROVE  N \in Nat /\ N > 0 /\ IsFiniteSet(Block) /\ Cardinality(Block) <= N /\ Root \in Block
<1>1. IsFiniteSet(Block) /\ Root \in Block
  BY DEF DominatorsAssumption
<1>2. Cardinality(Block) \in Nat
  BY <1>1, FS_CardinalityType
<1>3. Cardinality(Block) # 0
  BY <1>1, FS_EmptySet
<1> QED BY <1>1, <1>2, <1>3 DEF N

\* Reach(g, b, S) is the least set with b that is closed under the edges, S left out.
LEMMA ReachLeast ==
  ASSUME DominatorsAssumption, NEW g \in [Block -> SUBSET Block], NEW b \in Block, NEW S
  PROVE  /\ Reach(g, b, S) \subseteq Block
         /\ \A x \in Reach(g, b, S) : x \notin S
         /\ b \notin S => b \in Reach(g, b, S)
         /\ \A x \in Reach(g, b, S) : \A y \in g[x] : y \notin S => y \in Reach(g, b, S)
         /\ \A T : /\ b \notin S => b \in T
                   /\ \A x \in T \cap Block : \A y \in g[x] : y \notin S => y \in T
                   => Reach(g, b, S) \subseteq T
<1> DEFINE r == [x \in Block |-> g[x] \ S]
           A == {b} \ S
           C == Closure(r, A)
<1>1. r \in [Block -> SUBSET Block] /\ A \in SUBSET Block
  OBVIOUS
<1>2. \A x \in Block : r[x] = g[x] \ S
  OBVIOUS
<1>3. Reach(g, b, S) = C
  BY DEF Reach
<1>4. A = {b} \ S
  OBVIOUS
<1> HIDE DEF r, A
<1>5. /\ A \subseteq C /\ C \subseteq Block
      /\ \A x \in C : r[x] \subseteq C
      /\ \A T : A \subseteq T /\ (\A x \in T \cap Block : r[x] \subseteq T) => C \subseteq T
  BY <1>1, CountOfBlocks, ClosureLeast
<1> HIDE DEF C
<1>6. C \subseteq Block \ S
  <2> DEFINE T == Block \ S
  <2>1. A \subseteq T
    BY <1>4
  <2>2. \A x \in T \cap Block : r[x] \subseteq T
    BY <1>2
  <2> HIDE DEF T
  <2>3. C \subseteq T
    BY <1>5, <2>1, <2>2
  <2> QED BY <2>3 DEF T
<1>7. ASSUME NEW T, b \notin S => b \in T,
             \A x \in T \cap Block : \A y \in g[x] : y \notin S => y \in T
      PROVE  C \subseteq T
  <2>1. A \subseteq T
    BY <1>4, <1>7
  <2>2. \A x \in T \cap Block : r[x] \subseteq T
    BY <1>2, <1>7
  <2> QED BY <1>5, <2>1, <2>2
<1>8. \A x \in C : \A y \in g[x] : y \notin S => y \in C
  BY <1>2, <1>5
<1> QED BY <1>3, <1>4, <1>5, <1>6, <1>7, <1>8

\* What has every edge around d dominates itself, and what is not reached around
\* d is dominated by it.
LEMMA DominatedOutside ==
  ASSUME DominatorsAssumption, next \in Graphs, NEW d \in Block, NEW T, NEW b \in Block, b \notin T,
         Root = d \/ Root \in T,
         \A x \in T \cap Block : \A y \in next[x] : y = d \/ y \in T
  PROVE  Dominates(d, b)
<1>1. next \in [Block -> SUBSET Block] /\ Root \in Block
  BY DEF DominatorsAssumption
<1>2. (Root \notin {d} => Root \in T) /\ \A x \in T \cap Block : \A y \in next[x] : y \notin {d} => y \in T
  OBVIOUS
<1>3. Reach(next, Root, {d}) \subseteq T
  BY <1>1, <1>2, ReachLeast
<1> QED BY <1>3 DEF Dominates

LEMMA DominanceFacts ==
  ASSUME DominatorsAssumption, next \in Graphs
  PROVE  /\ \A b \in Block : Dominates(b, b)
         /\ \A d \in Block : Dominates(d, Root) => d = Root
         /\ \A p, b, d \in Block : b \in next[p] /\ b # d /\ Dominates(d, b) => Dominates(d, p)
         /\ \A b, d \in Block : b # Root /\ (\A p \in Preds(b) : Dominates(d, p)) => Dominates(d, b)
<1>1. next \in [Block -> SUBSET Block] /\ Root \in Block
  BY DEF DominatorsAssumption
<1>2. \A d \in Block : /\ \A x \in Reach(next, Root, {d}) : x # d
                       /\ Root # d => Root \in Reach(next, Root, {d})
                       /\ \A x \in Reach(next, Root, {d}) :
                            \A y \in next[x] : y # d => y \in Reach(next, Root, {d})
  <2> TAKE d \in Block
  <2> DEFINE R == Reach(next, Root, {d})
  <2>1. /\ \A x \in R : x \notin {d}
        /\ Root \notin {d} => Root \in R
        /\ \A x \in R : \A y \in next[x] : y \notin {d} => y \in R
    BY <1>1, ReachLeast
  <2> HIDE DEF R
  <2>2. /\ \A x \in R : x # d
        /\ Root # d => Root \in R
        /\ \A x \in R : \A y \in next[x] : y # d => y \in R
    BY <2>1
  <2> QED BY <2>2 DEF R
<1>3. \A b \in Block : Dominates(b, b)
  BY <1>2 DEF Dominates
<1>4. \A d \in Block : Dominates(d, Root) => d = Root
  BY <1>2 DEF Dominates
<1>5. \A p, b, d \in Block : b \in next[p] /\ b # d /\ Dominates(d, b) => Dominates(d, p)
  BY <1>2 DEF Dominates
<1>6. ASSUME NEW b \in Block, NEW d \in Block, b # Root, \A p \in Preds(b) : Dominates(d, p)
      PROVE  Dominates(d, b)
  <2> DEFINE T == Reach(next, Root, {d}) \ {b}
  <2>1. Root = d \/ Root \in T
    BY <1>2, <1>6
  <2>2. ASSUME NEW x \in T \cap Block, NEW y \in next[x], y # d PROVE y \in T
    <3>1. y \in Reach(next, Root, {d})
      BY <1>2, <2>2
    <3>2. y # b
      BY <1>6, <2>2 DEF Preds, Dominates
    <3> QED BY <3>1, <3>2
  <2>3. b \notin T
    OBVIOUS
  <2> HIDE DEF T
  <2> QED BY <2>1, <2>2, <2>3, DominatedOutside
<1> QED BY <1>3, <1>4, <1>5, <1>6

----------------------------------------------------------------------------
(* The post-order.                                                         *)

OnPath(b)  == \E i \in 1..Len(path) : path[i] = b
InOrder(b) == \E i \in 1..Len(order) : order[i] = b

\* What the walk has listed and what it is at: a listed block has its edges to
\* marked ones, and comes from one on the path or listed after it.
WalkInv ==
  /\ \A b \in Block : b \in marks <=> OnPath(b) \/ InOrder(b)
  /\ \A b \in Block : ~ (OnPath(b) /\ InOrder(b))
  /\ \A i, j \in 1..Len(path) : path[i] = path[j] => i = j
  /\ \A i, j \in 1..Len(order) : order[i] = order[j] => i = j
  /\ \A i \in 2..Len(path) : path[i] \in next[path[i - 1]]
  /\ Len(path) > 0 => path[1] = Root
  /\ Len(path) = 0 => Len(order) > 0 /\ order[Len(order)] = Root
  /\ \A i \in 1..Len(order) : next[order[i]] \subseteq marks
  /\ \A i \in 1..Len(order) :
       \/ order[i] = Root
       \/ \E j \in 1..Len(path) : order[i] \in next[path[j]]
       \/ \E j \in (i + 1)..Len(order) : order[i] \in next[order[j]]

\* The post-order, as compute_idoms() relies on it: each block but the root, which
\* is the last one, has a predecessor behind it.
Numbered ==
  /\ order \in Seq(Block) /\ Len(order) = N
  /\ \A i, j \in 1..N : order[i] = order[j] => i = j
  /\ \A b \in Block : InOrder(b)
  /\ order[N] = Root
  /\ \A i \in 1..(N - 1) : \E j \in (i + 1)..N : order[i] \in next[order[j]]

LEMMA VisitWalks ==
  ASSUME DominatorsAssumption, DominatorsTypeOK, WalkInv, NEW c \in Block, Visit(c)
  PROVE  WalkInv'
<1>1. /\ path \in Seq(Block) /\ Len(path) \in Nat /\ path # <<>> /\ Len(path) > 0
      /\ order \in Seq(Block) /\ Len(order) \in Nat
      /\ c \in next[Top] /\ c \notin marks /\ Top = path[Len(path)]
  BY DEF Visit, DominatorsTypeOK, Top
<1>2. /\ path' = Append(path, c) /\ marks' = marks \cup {c} /\ order' = order /\ next' = next
  BY DEF Visit
<1>3. /\ Len(path') = Len(path) + 1 /\ path'[Len(path) + 1] = c
      /\ \A i \in 1..Len(path) : path'[i] = path[i]
  BY <1>1, <1>2
<1>4. \A b \in Block : OnPath(b)' <=> OnPath(b) \/ b = c
  <2> TAKE b \in Block
  <2>1. OnPath(b)' => OnPath(b) \/ b = c
    <3> SUFFICES ASSUME NEW i \in 1..Len(path'), path'[i] = b PROVE OnPath(b) \/ b = c
      BY DEF OnPath
    <3>1. CASE i = Len(path) + 1
      BY <1>3, <3>1
    <3>2. CASE i # Len(path) + 1
      <4>1. i \in 1..Len(path)
        BY <1>1, <1>3, <3>2
      <4> QED BY <1>3, <4>1 DEF OnPath
    <3> QED BY <3>1, <3>2
  <2>2. ASSUME OnPath(b) PROVE OnPath(b)'
    <3>1. PICK i \in 1..Len(path) : path[i] = b
      BY <2>2 DEF OnPath
    <3>2. i \in 1..Len(path') /\ path'[i] = b
      BY <1>1, <1>3, <3>1
    <3> QED BY <3>2 DEF OnPath
  <2>3. ASSUME b = c PROVE OnPath(b)'
    <3>1. Len(path) + 1 \in 1..Len(path') /\ path'[Len(path) + 1] = b
      BY <1>1, <1>3, <2>3
    <3> QED BY <3>1 DEF OnPath
  <2> QED BY <2>1, <2>2, <2>3
<1>5. \A b \in Block : InOrder(b)' <=> InOrder(b)
  BY <1>2 DEF InOrder
<1>6. ~ OnPath(c) /\ ~ InOrder(c)
  BY <1>1 DEF WalkInv
<1>7. \A i \in 1..Len(path) : path[i] # c
  BY <1>6 DEF OnPath
<1>a. \A b \in Block : b \in marks' <=> OnPath(b)' \/ InOrder(b)'
  BY <1>2, <1>4, <1>5 DEF WalkInv
<1>b. \A b \in Block : ~ (OnPath(b)' /\ InOrder(b)')
  BY <1>4, <1>5, <1>6 DEF WalkInv
<1>c. ASSUME NEW i \in 1..Len(path'), NEW j \in 1..Len(path'), path'[i] = path'[j] PROVE i = j
  <2>1. (i \in 1..Len(path) \/ i = Len(path) + 1) /\ (j \in 1..Len(path) \/ j = Len(path) + 1)
    BY <1>1, <1>3
  <2> QED BY <1>3, <1>7, <1>c, <2>1 DEF WalkInv
<1>d. ASSUME NEW i \in 2..Len(path') PROVE path'[i] \in next'[path'[i - 1]]
  <2>1. CASE i = Len(path) + 1
    BY <1>1, <1>2, <1>3, <2>1
  <2>2. CASE i # Len(path) + 1
    <3>1. i \in 2..Len(path) /\ i \in 1..Len(path) /\ i - 1 \in 1..Len(path)
      BY <1>1, <1>3, <2>2
    <3> QED BY <1>2, <1>3, <3>1 DEF WalkInv
  <2> QED BY <2>1, <2>2
<1>e. Len(path') > 0 /\ path'[1] = Root
  BY <1>1, <1>3 DEF WalkInv
<1>f. \A i \in 1..Len(order') : next'[order'[i]] \subseteq marks'
  BY <1>2 DEF WalkInv
<1>g. ASSUME NEW i \in 1..Len(order')
      PROVE  \/ order'[i] = Root
             \/ \E j \in 1..Len(path') : order'[i] \in next'[path'[j]]
             \/ \E j \in (i + 1)..Len(order') : order'[i] \in next'[order'[j]]
  <2>1. ASSUME NEW j \in 1..Len(path), order[i] \in next[path[j]]
        PROVE  \E k \in 1..Len(path') : order'[i] \in next'[path'[k]]
    <3>1. j \in 1..Len(path') /\ path'[j] = path[j]
      BY <1>1, <1>3
    <3> QED BY <1>2, <2>1, <3>1
  <2> QED BY <1>2, <2>1 DEF WalkInv
<1>h. \A i, j \in 1..Len(order') : order'[i] = order'[j] => i = j
  BY <1>2 DEF WalkInv
<1> QED BY <1>a, <1>b, <1>c, <1>d, <1>e, <1>f, <1>g, <1>h, <1>3 DEF WalkInv

LEMMA LeaveWalks ==
  ASSUME DominatorsAssumption, DominatorsTypeOK, WalkInv, Leave
  PROVE  WalkInv'
<1>1. /\ path \in Seq(Block) /\ Len(path) \in Nat /\ path # <<>> /\ Len(path) > 0
      /\ order \in Seq(Block) /\ Len(order) \in Nat
      /\ next[Top] \subseteq marks /\ Top = path[Len(path)] /\ Top \in Block
  BY DEF Leave, DominatorsTypeOK, Top
<1>2. /\ path' = SubSeq(path, 1, Len(path) - 1) /\ marks' = marks /\ order' = Append(order, Top) /\ next' = next
  BY DEF Leave, Listed
<1>3. /\ Len(path') = Len(path) - 1 /\ \A i \in 1..(Len(path) - 1) : path'[i] = path[i]
  <2>1. PICK n \in Nat : n = Len(path) - 1
    BY <1>1
  <2>2. path' = SubSeq(path, 1, n) /\ n <= Len(path)
    BY <1>1, <1>2, <2>1
  <2>3. Len(path') = n
    BY <1>1, <2>1, <2>2
  <2>4. \A i \in 1..n : path'[i] = path[i]
    BY <1>1, <2>1, <2>2
  <2> QED BY <2>1, <2>3, <2>4
<1>4. /\ Len(order') = Len(order) + 1 /\ order'[Len(order) + 1] = Top
      /\ \A i \in 1..Len(order) : order'[i] = order[i]
  BY <1>1, <1>2
<1>5. \A b \in Block : OnPath(b)' <=> OnPath(b) /\ b # Top
  <2> TAKE b \in Block
  <2>1. ASSUME OnPath(b)' PROVE OnPath(b) /\ b # Top
    <3>1. PICK i \in 1..Len(path') : path'[i] = b
      BY <2>1 DEF OnPath
    <3>2. i \in 1..Len(path) /\ i # Len(path) /\ path[i] = b /\ Len(path) \in 1..Len(path)
      BY <1>1, <1>3, <3>1
    <3>3. b # Top
      BY <1>1, <3>2 DEF WalkInv
    <3> QED BY <3>2, <3>3 DEF OnPath
  <2>2. ASSUME OnPath(b), b # Top PROVE OnPath(b)'
    <3>1. PICK i \in 1..Len(path) : path[i] = b
      BY <2>2 DEF OnPath
    <3>2. i # Len(path)
      BY <1>1, <2>2, <3>1
    <3>3. i \in 1..Len(path') /\ path'[i] = b
      BY <1>1, <1>3, <3>1, <3>2
    <3> QED BY <3>3 DEF OnPath
  <2> QED BY <2>1, <2>2
<1>6. \A b \in Block : InOrder(b)' <=> InOrder(b) \/ b = Top
  <2> TAKE b \in Block
  <2>1. ASSUME InOrder(b)' PROVE InOrder(b) \/ b = Top
    <3>1. PICK i \in 1..Len(order') : order'[i] = b
      BY <2>1 DEF InOrder
    <3>2. CASE i = Len(order) + 1
      BY <1>4, <3>1, <3>2
    <3>3. CASE i # Len(order) + 1
      <4>1. i \in 1..Len(order) /\ order[i] = b
        BY <1>1, <1>4, <3>1, <3>3
      <4> QED BY <4>1 DEF InOrder
    <3> QED BY <3>2, <3>3
  <2>2. ASSUME InOrder(b) PROVE InOrder(b)'
    <3>1. PICK i \in 1..Len(order) : order[i] = b
      BY <2>2 DEF InOrder
    <3>2. i \in 1..Len(order') /\ order'[i] = b
      BY <1>1, <1>4, <3>1
    <3> QED BY <3>2 DEF InOrder
  <2>3. ASSUME b = Top PROVE InOrder(b)'
    <3>1. Len(order) + 1 \in 1..Len(order') /\ order'[Len(order) + 1] = b
      BY <1>1, <1>4, <2>3
    <3> QED BY <3>1 DEF InOrder
  <2> QED BY <2>1, <2>2, <2>3
<1>7. OnPath(Top) /\ ~ InOrder(Top)
  <2>1. Len(path) \in 1..Len(path) /\ path[Len(path)] = Top
    BY <1>1
  <2>2. OnPath(Top)
    BY <2>1 DEF OnPath
  <2> QED BY <1>1, <2>2 DEF WalkInv
<1>8. \A i \in 1..Len(order) : order[i] # Top
  BY <1>7 DEF InOrder
<1>a. \A b \in Block : b \in marks' <=> OnPath(b)' \/ InOrder(b)'
  BY <1>2, <1>5, <1>6, <1>7 DEF WalkInv
<1>b. \A b \in Block : ~ (OnPath(b)' /\ InOrder(b)')
  BY <1>5, <1>6 DEF WalkInv
<1>c. ASSUME NEW i \in 1..Len(order'), NEW j \in 1..Len(order'), order'[i] = order'[j] PROVE i = j
  <2>1. (i \in 1..Len(order) \/ i = Len(order) + 1) /\ (j \in 1..Len(order) \/ j = Len(order) + 1)
    BY <1>1, <1>4
  <2> QED BY <1>4, <1>8, <1>c, <2>1 DEF WalkInv
<1>d. ASSUME NEW i \in 1..Len(path'), NEW j \in 1..Len(path'), path'[i] = path'[j] PROVE i = j
  <2>1. /\ i \in 1..Len(path) /\ j \in 1..Len(path)
        /\ i \in 1..(Len(path) - 1) /\ j \in 1..(Len(path) - 1)
    BY <1>1, <1>3
  <2> QED BY <1>3, <1>d, <2>1 DEF WalkInv
<1>e. ASSUME NEW i \in 2..Len(path') PROVE path'[i] \in next'[path'[i - 1]]
  <2>1. i \in 2..Len(path) /\ i \in 1..(Len(path) - 1) /\ i - 1 \in 1..(Len(path) - 1)
    BY <1>1, <1>3
  <2> QED BY <1>2, <1>3, <2>1 DEF WalkInv
<1>f. ASSUME Len(path') > 0 PROVE path'[1] = Root
  <2>1. 1 \in 1..(Len(path) - 1)
    BY <1>1, <1>3, <1>f
  <2> QED BY <1>1, <1>3, <2>1 DEF WalkInv
<1>g. ASSUME Len(path') = 0 PROVE Len(order') > 0 /\ order'[Len(order')] = Root
  <2>1. Len(path) = 1
    BY <1>1, <1>3, <1>g
  <2>2. Top = Root
    BY <1>1, <2>1 DEF WalkInv
  <2> QED BY <1>1, <1>4, <2>2
<1>h. ASSUME NEW i \in 1..Len(order') PROVE next'[order'[i]] \subseteq marks'
  <2>1. CASE i = Len(order) + 1
    BY <1>1, <1>2, <1>4, <2>1
  <2>2. CASE i # Len(order) + 1
    <3>1. i \in 1..Len(order)
      BY <1>1, <1>4, <2>2
    <3> QED BY <1>2, <1>4, <3>1 DEF WalkInv
  <2> QED BY <2>1, <2>2
<1>i. ASSUME NEW i \in 1..Len(order')
      PROVE  \/ order'[i] = Root
             \/ \E j \in 1..Len(path') : order'[i] \in next'[path'[j]]
             \/ \E j \in (i + 1)..Len(order') : order'[i] \in next'[order'[j]]
  <2>1. CASE i = Len(order) + 1
    <3>1. order'[i] = Top
      BY <1>4, <2>1
    <3>2. CASE Len(path) = 1
      <4>1. Top = Root
        BY <1>1, <3>2 DEF WalkInv
      <4> QED BY <3>1, <4>1
    <3>3. CASE Len(path) # 1
      <4>1. Len(path) \in 2..Len(path) /\ Len(path) - 1 \in 1..Len(path') /\ Len(path) - 1 \in 1..(Len(path) - 1)
        BY <1>1, <1>3, <3>3
      <4>2. path[Len(path)] \in next[path[Len(path) - 1]]
        BY <4>1 DEF WalkInv
      <4>3. order'[i] \in next'[path'[Len(path) - 1]]
        BY <1>1, <1>2, <1>3, <3>1, <4>1, <4>2
      <4> QED BY <4>1, <4>3
    <3> QED BY <3>2, <3>3
  <2>2. CASE i # Len(order) + 1
    <3>1. i \in 1..Len(order) /\ order'[i] = order[i]
      BY <1>1, <1>4, <2>2
    <3>2. ASSUME NEW j \in 1..Len(path), order[i] \in next[path[j]]
          PROVE  \/ \E k \in 1..Len(path') : order'[i] \in next'[path'[k]]
                 \/ \E k \in (i + 1)..Len(order') : order'[i] \in next'[order'[k]]
      <4>1. CASE j = Len(path)
        <5>1. Len(order) + 1 \in (i + 1)..Len(order')
          BY <1>1, <1>4, <3>1
        <5>2. order'[i] \in next'[order'[Len(order) + 1]]
          BY <1>1, <1>2, <1>4, <3>1, <3>2, <4>1
        <5> QED BY <5>1, <5>2
      <4>2. CASE j # Len(path)
        <5>1. j \in 1..Len(path') /\ path'[j] = path[j]
          BY <1>1, <1>3, <4>2
        <5> QED BY <1>2, <3>1, <3>2, <5>1
      <4> QED BY <4>1, <4>2
    <3>3. ASSUME NEW j \in (i + 1)..Len(order), order[i] \in next[order[j]]
          PROVE  \E k \in (i + 1)..Len(order') : order'[i] \in next'[order'[k]]
      <4>1. j \in (i + 1)..Len(order') /\ order'[j] = order[j]
        BY <1>1, <1>4, <3>1, <3>3
      <4> QED BY <1>2, <3>1, <3>3, <4>1
    <3> QED BY <3>1, <3>2, <3>3 DEF WalkInv
  <2> QED BY <2>1, <2>2
<1> QED BY <1>a, <1>b, <1>c, <1>d, <1>e, <1>f, <1>g, <1>h, <1>i DEF WalkInv

\* When the walk has ended, the order has every block once.
LEMMA WalkEnds ==
  ASSUME DominatorsAssumption, DominatorsTypeOK, WalkInv, next \in Graphs, path = <<>>, Root \in marks
  PROVE  Numbered
<1>1. order \in Seq(Block) /\ Len(order) \in Nat /\ Len(path) = 0 /\ marks \subseteq Block
  BY DEF DominatorsTypeOK
<1>2. \A b \in Block : b \in marks <=> InOrder(b)
  <2>1. \A b \in Block : ~ OnPath(b)
    BY <1>1 DEF OnPath
  <2> QED BY <2>1 DEF WalkInv
<1>3. marks = Block
  <2>1. next \in [Block -> SUBSET Block] /\ Reach(next, Root, {}) = Block /\ Root \in Block
    BY DEF DominatorsAssumption
  <2>2. \A x \in marks \cap Block : \A y \in next[x] : y \notin {} => y \in marks
    <3> TAKE x \in marks \cap Block
    <3>1. PICK i \in 1..Len(order) : order[i] = x
      BY <1>2 DEF InOrder
    <3> QED BY <3>1 DEF WalkInv
  <2>3. Reach(next, Root, {}) \subseteq marks
    BY <2>1, <2>2, ReachLeast
  <2> QED BY <1>1, <2>1, <2>3
<1>4. \A b \in Block : InOrder(b)
  BY <1>2, <1>3
<1>5. Len(order) = N
  <2>1. order \in Bijection(1..Len(order), Block)
    <3>1. order \in [1..Len(order) -> Block]
      BY <1>1
    <3>2. \A i, j \in 1..Len(order) : order[i] = order[j] => i = j
      BY DEF WalkInv
    <3>3. \A b \in Block : \E i \in 1..Len(order) : order[i] = b
      BY <1>4 DEF InOrder
    <3> QED BY <3>1, <3>2, <3>3, Zenon DEF Bijection, Injection, Surjection, IsInjective
  <2>2. ExistsBijection(1..Len(order), Block)
    BY <2>1 DEF ExistsBijection
  <2>3. Cardinality(Block) = Len(order)
    BY <1>1, <2>2, FS_CountingElements
  <2> QED BY <2>3 DEF N
<1>6. Len(order) > 0 /\ order[Len(order)] = Root
  BY <1>1 DEF WalkInv
<1>7. ASSUME NEW i \in 1..(N - 1) PROVE \E j \in (i + 1)..N : order[i] \in next[order[j]]
  <2>1. i \in 1..N /\ N \in 1..N /\ i # N
    BY <1>1, <1>5, <1>6
  <2>2. order[i] # Root
    BY <1>5, <1>6, <2>1 DEF WalkInv
  <2> QED BY <1>1, <1>5, <2>1, <2>2 DEF WalkInv
<1>8. \A i, j \in 1..N : order[i] = order[j] => i = j
  BY <1>5 DEF WalkInv
<1> QED BY <1>1, <1>4, <1>5, <1>6, <1>7, <1>8 DEF Numbered

LEMMA PosFacts ==
  ASSUME DominatorsAssumption, Numbered
  PROVE  /\ \A b \in Block : Pos(b) \in 1..N /\ order[Pos(b)] = b
         /\ \A i \in 1..N : order[i] \in Block /\ Pos(order[i]) = i
         /\ Pos(Root) = N
<1>1. N \in Nat /\ N > 0 /\ Len(order) = N /\ order \in Seq(Block) /\ Root \in Block
  BY CountOfBlocks DEF Numbered
<1>2. \A b \in Block : \E i \in 1..Len(order) : order[i] = b
  BY DEF Numbered, InOrder
<1>3. \A b \in Block : Pos(b) \in 1..N /\ order[Pos(b)] = b
  BY <1>1, <1>2 DEF Pos
<1>4. \A i \in 1..N : order[i] \in Block
  BY <1>1
<1>5. \A i \in 1..N : Pos(order[i]) = i
  BY <1>3, <1>4 DEF Numbered
<1>6. N \in 1..N /\ order[N] = Root
  BY <1>1 DEF Numbered
<1> QED BY <1>3, <1>4, <1>5, <1>6

\* Dominators and predecessors by their positions.
Dom(i)   == {k \in 1..N : Dominates(order[k], order[i])}
Ahead(i) == {j \in 1..N : order[i] \in next[order[j]]}

LEMMA DomFacts ==
  ASSUME DominatorsAssumption, Numbered, next \in Graphs
  PROVE  /\ \A i \in 1..N : i \in Dom(i) /\ Dom(i) \subseteq 1..N
         /\ Dom(N) = {N}
         /\ \A i \in 1..N : \A j \in Ahead(i) : j \in 1..N /\ Dom(i) \ {i} \subseteq Dom(j)
         /\ \A i \in 1..(N - 1) : \E j \in Ahead(i) : j > i
         /\ \A i \in 1..(N - 1) : \A k \in 1..N : (\A j \in Ahead(i) : k \in Dom(j)) => k \in Dom(i)
<1>1. N \in Nat /\ N > 0 /\ N \in 1..N /\ order[N] = Root
  BY CountOfBlocks DEF Numbered
<1>2. \A i \in 1..N : order[i] \in Block
  BY PosFacts
<1>3. \A i \in 1..N : i \in Dom(i) /\ Dom(i) \subseteq 1..N
  BY <1>2, DominanceFacts DEF Dom
<1>4. Dom(N) = {N}
  <2>1. ASSUME NEW k \in Dom(N) PROVE k = N
    <3>1. k \in 1..N /\ Dominates(order[k], Root)
      BY <1>1 DEF Dom
    <3>2. order[k] = Root
      BY <1>2, <3>1, DominanceFacts
    <3> QED BY <1>1, <3>1, <3>2 DEF Numbered
  <2> QED BY <1>1, <1>3, <2>1
<1>5. ASSUME NEW i \in 1..N, NEW j \in Ahead(i) PROVE j \in 1..N /\ Dom(i) \ {i} \subseteq Dom(j)
  <2>1. j \in 1..N /\ order[i] \in next[order[j]]
    BY DEF Ahead
  <2>2. ASSUME NEW k \in Dom(i) \ {i} PROVE k \in Dom(j)
    <3>1. k \in 1..N /\ Dominates(order[k], order[i])
      BY DEF Dom
    <3>2. order[k] # order[i]
      BY <3>1 DEF Numbered
    <3>3. Dominates(order[k], order[j])
      BY <1>2, <2>1, <3>1, <3>2, DominanceFacts
    <3> QED BY <3>1, <3>3 DEF Dom
  <2> QED BY <2>1, <2>2
<1>6. ASSUME NEW i \in 1..(N - 1) PROVE \E j \in Ahead(i) : j > i
  <2>1. PICK j \in (i + 1)..N : order[i] \in next[order[j]]
    BY DEF Numbered
  <2>2. j \in 1..N /\ j > i
    BY <1>1, <2>1
  <2> QED BY <2>1, <2>2 DEF Ahead
<1>7. ASSUME NEW i \in 1..(N - 1), NEW k \in 1..N, \A j \in Ahead(i) : k \in Dom(j)
      PROVE  k \in Dom(i)
  <2>1. i \in 1..N /\ order[i] # Root
    BY <1>1 DEF Numbered
  <2>2. ASSUME NEW p \in Preds(order[i]) PROVE Dominates(order[k], p)
    <3>1. p \in Block /\ order[i] \in next[p]
      BY DEF Preds
    <3>2. Pos(p) \in 1..N /\ order[Pos(p)] = p
      BY <3>1, PosFacts
    <3>3. Pos(p) \in Ahead(i)
      BY <3>1, <3>2 DEF Ahead
    <3> QED BY <1>7, <3>2, <3>3 DEF Dom
  <2>3. Dominates(order[k], order[i])
    BY <1>2, <2>1, <2>2, DominanceFacts
  <2> QED BY <2>3 DEF Dom
<1> QED BY <1>3, <1>4, <1>5, <1>6, <1>7

----------------------------------------------------------------------------
(* The tree while it is built.                                             *)

\* Idoms lie above their blocks, lead to blocks that have one, and lose no dominator.
TreeOK ==
  /\ idom \in [1..N -> 0..N] /\ idom[N] = N
  /\ \A i \in 1..(N - 1) : idom[i] # 0 => idom[i] > i
  /\ \A i \in 1..N : idom[i] # 0 => idom[idom[i]] # 0
  /\ \A i \in 1..(N - 1) : idom[i] # 0 => Dom(i) \ {i} \subseteq Dom(idom[i])

LEMMA ChainLeast ==
  ASSUME DominatorsAssumption, idom \in [1..N -> 0..N], NEW i \in 1..N
  PROVE  /\ i \in Chain(i) /\ Chain(i) \subseteq 1..N
         /\ \A k \in Chain(i) : idom[k] # 0 => idom[k] \in Chain(i)
         /\ \A T : i \in T /\ (\A k \in T \cap (1..N) : idom[k] # 0 => idom[k] \in T) => Chain(i) \subseteq T
<1> DEFINE r == [j \in 1..N |-> {idom[j]} \ {0}]
           X == 1..N
           A == {i}
<1>1. N \in Nat
  BY CountOfBlocks
<1>2. IsFiniteSet(X) /\ Cardinality(X) <= N
  <2>1. IsFiniteSet(X) /\ Cardinality(X) = N
    BY <1>1, FS_Interval
  <2> QED BY <1>1, <2>1
<1>3. r \in [X -> SUBSET X] /\ A \in SUBSET X
  <2>1. \A j \in X : {idom[j]} \ {0} \subseteq X
    BY <1>1
  <2> QED BY <2>1
<1>4. Chain(i) = Closure(r, A)
  BY DEF Chain
<1>5. \A k \in X : r[k] = {idom[k]} \ {0}
  OBVIOUS
<1> HIDE DEF r
<1>6. /\ A \subseteq Closure(r, A) /\ Closure(r, A) \subseteq X
      /\ \A x \in Closure(r, A) : r[x] \subseteq Closure(r, A)
      /\ \A T : A \subseteq T /\ (\A x \in T \cap X : r[x] \subseteq T) => Closure(r, A) \subseteq T
  <2> HIDE DEF X, A
  <2> QED BY <1>1, <1>2, <1>3, ClosureLeast
<1>7. ASSUME NEW T, i \in T, \A k \in T \cap (1..N) : idom[k] # 0 => idom[k] \in T
      PROVE  Chain(i) \subseteq T
  <2>1. A \subseteq T /\ \A x \in T \cap X : r[x] \subseteq T
    BY <1>5, <1>7
  <2> HIDE DEF X, A
  <2>2. Closure(r, A) \subseteq T
    BY <1>6, <2>1
  <2> QED BY <1>4, <2>2
<1>8. i \in Chain(i) /\ Chain(i) \subseteq 1..N
  BY <1>4, <1>6
<1>9. \A k \in Chain(i) : idom[k] # 0 => idom[k] \in Chain(i)
  <2> TAKE k \in Chain(i)
  <2>1. k \in X
    BY <1>8
  <2>2. r[k] \subseteq Chain(i)
    BY <1>4, <1>6
  <2>3. r[k] = {idom[k]} \ {0}
    BY <1>5, <2>1
  <2> QED BY <2>2, <2>3
<1> QED BY <1>7, <1>8, <1>9

LEMMA ChainFacts ==
  ASSUME DominatorsAssumption, TreeOK, NEW i \in 1..N, idom[i] # 0
  PROVE  /\ i \in Chain(i) /\ Chain(i) \subseteq 1..N
         /\ \A k \in Chain(i) : k >= i /\ idom[k] # 0 /\ idom[k] \in Chain(i) /\ Chain(k) \subseteq Chain(i)
         /\ \A k \in Chain(i) : k = i \/ k \in Chain(idom[i])
         /\ \A k, l \in Chain(i) : k <= l => l \in Chain(k)
<1>1. N \in Nat /\ N > 0 /\ idom \in [1..N -> 0..N] /\ idom[N] = N
  BY CountOfBlocks DEF TreeOK
<1>2. /\ i \in Chain(i) /\ Chain(i) \subseteq 1..N
      /\ \A k \in Chain(i) : idom[k] # 0 => idom[k] \in Chain(i)
  BY <1>1, ChainLeast
<1>3. \A k \in Chain(i) : k >= i /\ idom[k] # 0
  <2> DEFINE T == {k \in 1..N : k >= i /\ idom[k] # 0}
  <2>1. i \in T
    OBVIOUS
  <2>2. ASSUME NEW k \in T \cap (1..N), idom[k] # 0 PROVE idom[k] \in T
    <3>1. CASE k = N
      BY <1>1, <3>1
    <3>2. CASE k # N
      <4>1. k \in 1..(N - 1)
        BY <1>1, <3>2
      <4>2. idom[k] > k /\ idom[idom[k]] # 0 /\ idom[k] \in 1..N
        BY <1>1, <2>2, <4>1 DEF TreeOK
      <4> QED BY <1>1, <4>2
    <3> QED BY <3>1, <3>2
  <2> HIDE DEF T
  <2>3. Chain(i) \subseteq T
    BY <1>1, <2>1, <2>2, ChainLeast
  <2> QED BY <2>3 DEF T
<1>4. \A k \in Chain(i) : Chain(k) \subseteq Chain(i)
  <2> TAKE k \in Chain(i)
  <2>1. k \in 1..N /\ \A j \in Chain(i) \cap (1..N) : idom[j] # 0 => idom[j] \in Chain(i)
    BY <1>2
  <2> QED BY <1>1, <2>1, ChainLeast
<1>5. \A k \in Chain(i) : k = i \/ k \in Chain(idom[i])
  <2> DEFINE T == {i} \cup Chain(idom[i])
  <2>1. idom[i] \in 1..N
    BY <1>1
  <2>2. /\ idom[i] \in Chain(idom[i])
        /\ \A k \in Chain(idom[i]) : idom[k] # 0 => idom[k] \in Chain(idom[i])
    BY <1>1, <2>1, ChainLeast
  <2>3. i \in T /\ \A k \in T \cap (1..N) : idom[k] # 0 => idom[k] \in T
    BY <2>2
  <2> HIDE DEF T
  <2>4. Chain(i) \subseteq T
    BY <1>1, <2>3, ChainLeast
  <2> QED BY <2>4 DEF T
<1>6. ASSUME NEW k \in Chain(i) PROVE \A l \in Chain(i) : k <= l => l \in Chain(k)
  <2> DEFINE T == {l \in 1..N : (l \in Chain(i)) /\ (k <= l => l \in Chain(k)) /\ (l <= k => k \in Chain(l))}
  <2>1. k \in 1..N /\ idom[k] # 0
    BY <1>2, <1>3
  <2>2. k \in Chain(k) /\ \A j \in Chain(k) : idom[j] # 0 => idom[j] \in Chain(k)
    BY <1>1, <2>1, ChainLeast
  <2>3. i \in T
    <3>1. k >= i
      BY <1>3
    <3>2. i <= k => k \in Chain(i)
      OBVIOUS
    <3>3. k <= i => i = k
      BY <2>1, <3>1
    <3> QED BY <1>2, <2>2, <3>2, <3>3
  <2>4. ASSUME NEW l \in T \cap (1..N), idom[l] # 0 PROVE idom[l] \in T
    <3>1. idom[l] \in Chain(i) /\ idom[l] \in 1..N
      BY <1>2, <2>4
    <3>2. CASE l >= k
      <4>1. l \in Chain(k)
        BY <2>1, <3>2
      <4>2. idom[l] \in Chain(k)
        BY <2>2, <2>4, <4>1
      <4>3. idom[l] <= k => idom[l] = k
        <5>1. CASE l = N
          BY <1>1, <2>1, <3>2, <5>1
        <5>2. CASE l # N
          <6>1. l \in 1..(N - 1)
            BY <1>1, <5>2
          <6>2. idom[l] > l
            BY <2>4, <6>1 DEF TreeOK
          <6> QED BY <1>1, <2>1, <3>1, <3>2, <6>2
        <5> QED BY <5>1, <5>2
      <4> QED BY <2>2, <3>1, <4>2, <4>3
    <3>3. CASE l < k
      <4>1. k \in Chain(l) /\ k # l
        BY <2>1, <3>3
      <4>2. k \in Chain(idom[l])
        <5> DEFINE U == {l} \cup Chain(idom[l])
        <5>1. /\ idom[l] \in Chain(idom[l])
              /\ \A j \in Chain(idom[l]) : idom[j] # 0 => idom[j] \in Chain(idom[l])
          BY <1>1, <3>1, ChainLeast
        <5>2. l \in U /\ \A j \in U \cap (1..N) : idom[j] # 0 => idom[j] \in U
          BY <5>1
        <5> HIDE DEF U
        <5>3. Chain(l) \subseteq U
          BY <1>1, <2>4, <5>2, ChainLeast
        <5> QED BY <4>1, <5>3 DEF U
      <4>3. k <= idom[l] => idom[l] \in Chain(k)
        <5> SUFFICES ASSUME k <= idom[l] PROVE idom[l] \in Chain(k)
          OBVIOUS
        <5> DEFINE U == {j \in 1..N : j >= idom[l]}
        <5>1. idom[l] \in U
          BY <3>1
        <5>2. ASSUME NEW j \in U \cap (1..N), idom[j] # 0 PROVE idom[j] \in U
          <6>1. CASE j = N
            BY <1>1, <6>1
          <6>2. CASE j # N
            <7>1. j \in 1..(N - 1)
              BY <1>1, <6>2
            <7>2. idom[j] > j /\ idom[j] \in 1..N
              BY <1>1, <5>2, <7>1 DEF TreeOK
            <7> QED BY <1>1, <3>1, <7>2
          <6> QED BY <6>1, <6>2
        <5> HIDE DEF U
        <5>3. Chain(idom[l]) \subseteq U
          BY <1>1, <3>1, <5>1, <5>2, ChainLeast
        <5>4. k >= idom[l]
          BY <4>2, <5>3 DEF U
        <5>5. k = idom[l]
          BY <2>1, <3>1, <5>4
        <5> QED BY <2>2, <5>5
      <4> QED BY <3>1, <4>2, <4>3
    <3> QED BY <2>1, <3>2, <3>3
  <2> HIDE DEF T
  <2>5. Chain(i) \subseteq T
    BY <1>1, <2>3, <2>4, ChainLeast
  <2> QED BY <2>5 DEF T
<1> QED BY <1>2, <1>3, <1>4, <1>5, <1>6

\* No dominator is missing on a chain: the highest block with one missing would have
\* it above its idom.
LEMMA DomInChain ==
  ASSUME DominatorsAssumption, Numbered, next \in Graphs, TreeOK, NEW i \in 1..N, idom[i] # 0
  PROVE  Dom(i) \subseteq Chain(i)
<1>1. N \in Nat /\ N > 0 /\ idom \in [1..N -> 0..N] /\ idom[N] = N
  BY CountOfBlocks DEF TreeOK
<1> DEFINE Out == {j \in 1..N : idom[j] # 0 /\ ~ (Dom(j) \subseteq Chain(j))}
<1> SUFFICES ASSUME Out # {} PROVE FALSE
  OBVIOUS
<1>2. PICK j \in Out : \A n \in Out : j >= n
  <2>1. Out \in SUBSET Nat /\ IsFiniteSet(Out)
    <3>1. IsFiniteSet(1..N)
      BY <1>1, FS_Interval
    <3>2. Out \in SUBSET (1..N)
      OBVIOUS
    <3> HIDE DEF Out
    <3>3. IsFiniteSet(Out)
      BY <3>1, <3>2, FS_Subset
    <3> QED BY <1>1, <3>2, <3>3
  <2> HIDE DEF Out
  <2> QED BY <2>1, Largest
<1>3. j \in 1..N /\ idom[j] # 0
  OBVIOUS
<1>4. PICK k \in Dom(j) : k \notin Chain(j)
  OBVIOUS
<1>5. j \in Chain(j) /\ idom[j] \in Chain(j) /\ Chain(idom[j]) \subseteq Chain(j)
  BY <1>3, ChainFacts
<1>6. k # j
  BY <1>4, <1>5
<1>7. j # N
  BY <1>3, <1>4, <1>6, DomFacts
<1>8. j \in 1..(N - 1)
  BY <1>1, <1>3, <1>7
<1>9. idom[j] > j /\ idom[j] \in 1..N /\ idom[idom[j]] # 0 /\ k \in Dom(idom[j])
  BY <1>1, <1>3, <1>4, <1>6, <1>8 DEF TreeOK
<1>10. idom[j] \notin Out
  <2> HIDE DEF Out
  <2> QED BY <1>1, <1>2, <1>3, <1>9
<1>11. k \in Chain(idom[j])
  BY <1>9, <1>10
<1> QED BY <1>4, <1>5, <1>11

\* What could be the idom of the block in work, and its predecessors that were looked at.
Candidate(k) == k \in 1..N /\ idom[k] # 0 /\ Dom(bi) \ {bi} \subseteq Dom(k)
Seen(j)      == j \in Ahead(bi) /\ order[j] \notin preds /\ idom[j] # 0

\* A pass has left an idom behind it for every block; where it has changed nothing, the
\* idom lies on the chains of all the predecessors; and it is about to find such a one.
PassInv ==
  /\ phase \in {"block", "meet"} => bi \in 1..(N - 1) /\ preds \subseteq Preds(order[bi])
  /\ phase = "done" => bi = 0 /\ ~changed
  /\ ~ (phase = "pass" /\ bi = 0 /\ changed) => \A i \in (bi + 1)..N : idom[i] # 0
  /\ ~changed => \A i \in (bi + 1)..(N - 1) : \A j \in Ahead(i) : idom[j] # 0 => idom[i] \in Chain(j)
  /\ phase = "block" => /\ newIdom # 0 => Candidate(newIdom)
                        /\ \A j \in 1..N : Seen(j) => newIdom \in Chain(j)
  /\ phase = "meet" => /\ Candidate(b1) /\ Candidate(b2)
                       /\ \A j \in 1..N : Seen(j) => b1 \in Chain(j) \/ b2 \in Chain(j)

DominatorsInv ==
  /\ DominatorsTypeOK /\ next \in Graphs /\ Root \in marks
  /\ phase = "order" => WalkInv /\ idom = [i \in 1..N |-> 0]
  /\ phase # "order" => Numbered /\ TreeOK /\ PassInv

LEMMA SameTree ==
  ASSUME UNCHANGED <<next, order, idom>>
  PROVE  /\ Numbered => Numbered'
         /\ TreeOK => TreeOK'
         /\ \A i : Dom(i)' = Dom(i) /\ Ahead(i)' = Ahead(i) /\ Chain(i)' = Chain(i)
         /\ \A b : Preds(b)' = Preds(b)
<1>1. \A d, b : Dominates(d, b)' = Dominates(d, b)
  BY DEF Dominates, Reach, Closure, N
<1>2. \A i : Dom(i)' = Dom(i)
  BY <1>1 DEF Dom, N
<1>3. \A i : Ahead(i)' = Ahead(i)
  BY DEF Ahead, N
<1>4. \A i : Chain(i)' = Chain(i)
  BY DEF Chain, Closure, N
<1>5. Numbered => Numbered'
  BY DEF Numbered, InOrder, N
<1>6. TreeOK => TreeOK'
  BY <1>2 DEF TreeOK, N
<1>7. \A b : Preds(b)' = Preds(b)
  BY DEF Preds
<1> QED BY <1>2, <1>3, <1>4, <1>5, <1>6, <1>7

LEMMA TreeBegins ==
  ASSUME DominatorsAssumption, DominatorsInv, RootIdom
  PROVE  DominatorsInv'
<1>1. /\ phase = "order" /\ path = <<>> /\ phase' = "pass" /\ bi' = 0 /\ changed' = TRUE
      /\ idom' = [idom EXCEPT ![Pos(Root)] = Pos(Root)]
      /\ UNCHANGED <<next, marks, path, order, preds, newIdom, b1, b2>>
  BY DEF RootIdom
<1>2. DominatorsTypeOK /\ next \in Graphs /\ WalkInv /\ Root \in marks /\ idom = [i \in 1..N |-> 0]
  BY <1>1 DEF DominatorsInv
<1>3. Numbered
  BY <1>1, <1>2, WalkEnds
<1>4. Pos(Root) = N /\ N \in Nat /\ N > 0
  BY <1>3, PosFacts, CountOfBlocks
<1>5. /\ idom' \in [1..N -> 0..N] /\ idom'[N] = N /\ \A i \in 1..(N - 1) : idom'[i] = 0
  BY <1>1, <1>2, <1>4
<1>6. Numbered'
  BY <1>1, <1>3 DEF Numbered, InOrder, N
<1>7. TreeOK'
  <2>1. \A i \in 1..N : i = N \/ i \in 1..(N - 1)
    BY <1>4
  <2>2. \A i \in 1..N : idom'[i] # 0 => idom'[idom'[i]] # 0
    BY <1>4, <1>5, <2>1
  <2>3. N' = N
    BY DEF N
  <2> QED BY <1>5, <2>2, <2>3 DEF TreeOK
<1>8. PassInv'
  BY <1>1 DEF PassInv
<1>9. DominatorsTypeOK'
  BY <1>1, <1>2, <1>4, <1>5 DEF DominatorsTypeOK, N
<1> QED BY <1>1, <1>2, <1>6, <1>7, <1>8, <1>9 DEF DominatorsInv

\* The steps that leave the tree as it is.
LEMMA PassSteps ==
  ASSUME DominatorsAssumption, DominatorsInv, Pass \/ SkipRoot \/ Begin \/ Done
  PROVE  DominatorsInv'
<1>1. /\ phase = "pass" /\ UNCHANGED <<next, marks, path, order, idom, b1, b2>>
      /\ Numbered /\ TreeOK /\ PassInv /\ DominatorsTypeOK /\ next \in Graphs
  BY DEF Pass, SkipRoot, Begin, Done, DominatorsInv
<1>2. /\ Numbered' /\ TreeOK' /\ N' = N
      /\ \A i : Dom(i)' = Dom(i) /\ Ahead(i)' = Ahead(i) /\ Chain(i)' = Chain(i)
      /\ \A b : Preds(b)' = Preds(b)
  BY <1>1, SameTree DEF N
<1>3. N \in Nat /\ N > 0 /\ Pos(Root) = N /\ Len(order) = N /\ bi \in 0..N /\ idom[N] = N
  BY <1>1, PosFacts, CountOfBlocks DEF Numbered, DominatorsTypeOK, TreeOK
<1>4. ASSUME Pass PROVE PassInv' /\ DominatorsTypeOK'
  <2>1. bi' = N /\ phase' = "pass" /\ changed' = FALSE /\ UNCHANGED <<preds, newIdom>>
    BY <1>1, <1>3, <1>4 DEF Pass
  <2>2. DominatorsTypeOK'
    <3>1. bi' \in 0..N
      BY <1>3, <2>1
    <3>2. changed' \in BOOLEAN
      BY <2>1, Zenon
    <3> QED BY <1>1, <1>2, <2>1, <3>1, <3>2 DEF DominatorsTypeOK
  <2>3. (\A i \in (bi' + 1)..N : FALSE) /\ \A i \in (bi' + 1)..(N - 1) : FALSE
    BY <1>3, <2>1
  <2> QED BY <1>2, <2>1, <2>2, <2>3 DEF PassInv
<1>5. ASSUME SkipRoot PROVE PassInv' /\ DominatorsTypeOK'
  <2>1. bi = N /\ bi' = N - 1 /\ phase' = "pass" /\ UNCHANGED <<preds, newIdom, changed>>
    BY <1>3, <1>5 DEF SkipRoot
  <2>2. DominatorsTypeOK'
    BY <1>1, <1>2, <1>3, <2>1 DEF DominatorsTypeOK
  <2>3. \A i \in (bi' + 1)..N : i = N
    BY <1>3, <2>1
  <2>4. \A i \in (bi' + 1)..(N - 1) : FALSE
    BY <1>3, <2>1
  <2> QED BY <1>1, <1>2, <1>3, <2>1, <2>2, <2>3, <2>4 DEF PassInv
<1>6. ASSUME Begin PROVE PassInv' /\ DominatorsTypeOK'
  <2>1. /\ bi # 0 /\ bi # N /\ bi' = bi /\ phase' = "block" /\ changed' = changed
        /\ preds' = Preds(order[bi]) /\ newIdom' = 0
    BY <1>3, <1>6 DEF Begin
  <2>2. bi \in 1..(N - 1) /\ bi \in 1..N
    BY <1>3, <2>1
  <2>3. DominatorsTypeOK'
    BY <1>1, <1>2, <1>3, <2>1 DEF DominatorsTypeOK, Preds
  <2>4. ASSUME NEW j \in 1..N PROVE ~ Seen(j)'
    <3>1. ASSUME j \in Ahead(bi) PROVE order[j] \in Preds(order[bi])
      <4>1. order[j] \in Block
        BY <1>1, PosFacts
      <4> QED BY <3>1, <4>1 DEF Preds, Ahead
    <3> QED BY <1>1, <1>2, <2>1, <3>1 DEF Seen
  <2> QED BY <1>1, <1>2, <2>1, <2>2, <2>3, <2>4 DEF PassInv
<1>7. ASSUME Done PROVE PassInv' /\ DominatorsTypeOK'
  <2>1. bi = 0 /\ ~changed /\ phase' = "done" /\ UNCHANGED <<bi, preds, newIdom, changed>>
    BY <1>7 DEF Done
  <2>2. DominatorsTypeOK'
    BY <1>1, <1>2, <2>1 DEF DominatorsTypeOK
  <2> QED BY <1>1, <1>2, <2>1, <2>2 DEF PassInv
<1>8. PassInv' /\ DominatorsTypeOK'
  BY <1>4, <1>5, <1>6, <1>7
<1>9. phase' # "order"
  BY <1>1 DEF Pass, SkipRoot, Begin, Done
<1> QED BY <1>1, <1>2, <1>8, <1>9 DEF DominatorsInv

\* What the looks at predecessors and the walkers have in common.
LEMMA InBlock ==
  ASSUME DominatorsAssumption, DominatorsInv, phase \in {"block", "meet"},
         UNCHANGED <<next, marks, path, order, idom, bi, changed>>,
         phase' \in {"block", "meet"}, preds' \subseteq preds,
         newIdom' \in 0..N, b1' \in 0..N, b2' \in 0..N,
         phase' = "block" => /\ newIdom' # 0 => Candidate(newIdom')
                             /\ \A j \in 1..N : Seen(j)' => newIdom' \in Chain(j),
         phase' = "meet" => /\ Candidate(b1') /\ Candidate(b2')
                            /\ \A j \in 1..N : Seen(j)' => b1' \in Chain(j) \/ b2' \in Chain(j)
  PROVE  DominatorsInv'
<1>1. Numbered /\ TreeOK /\ PassInv /\ DominatorsTypeOK /\ next \in Graphs /\ Root \in marks
  BY DEF DominatorsInv
<1>2. /\ Numbered' /\ TreeOK' /\ N' = N
      /\ \A i : Dom(i)' = Dom(i) /\ Ahead(i)' = Ahead(i) /\ Chain(i)' = Chain(i)
      /\ \A b : Preds(b)' = Preds(b)
  BY <1>1, SameTree DEF N
<1>3. DominatorsTypeOK'
  BY <1>1, <1>2 DEF DominatorsTypeOK
<1>4. phase' = "block" => /\ newIdom' # 0 => Candidate(newIdom)'
                          /\ \A j \in 1..N : Seen(j)' => newIdom' \in Chain(j)'
  BY <1>2 DEF Candidate
<1>5. phase' = "meet" => /\ Candidate(b1)' /\ Candidate(b2)'
                         /\ \A j \in 1..N : Seen(j)' => b1' \in Chain(j)' \/ b2' \in Chain(j)'
  BY <1>2 DEF Candidate
<1>6. PassInv'
  <2>1. bi' \in 1..(N' - 1) /\ preds' \subseteq Preds(order[bi])' /\ phase' # "done"
    BY <1>1, <1>2 DEF PassInv
  <2>2. \A i \in (bi' + 1)..N' : idom'[i] # 0
    BY <1>1, <1>2 DEF PassInv
  <2>3. ~changed' => \A i \in (bi' + 1)..(N' - 1) : \A j \in Ahead(i)' : idom'[j] # 0 => idom'[i] \in Chain(j)'
    BY <1>1, <1>2 DEF PassInv
  <2>4. N' = N
    BY <1>2
  <2> HIDE DEF PassInv
  <2> QED BY <1>4, <1>5, <2>1, <2>2, <2>3, <2>4 DEF PassInv
<1>7. phase' # "order"
  OBVIOUS
<1> QED BY <1>1, <1>2, <1>3, <1>6, <1>7 DEF DominatorsInv

LEMMA LookSteps ==
  ASSUME DominatorsAssumption, DominatorsInv, NEW p \in Block, Unvisited(p) \/ First(p) \/ Further(p)
  PROVE  DominatorsInv'
<1>1. /\ phase = "block" /\ p \in preds /\ preds' = preds \ {p}
      /\ UNCHANGED <<next, marks, path, order, idom, bi, changed>>
      /\ Numbered /\ TreeOK /\ PassInv /\ DominatorsTypeOK /\ next \in Graphs
  BY DEF Unvisited, First, Further, DominatorsInv
<1>2. N \in Nat /\ N > 0 /\ bi \in 1..(N - 1) /\ bi \in 1..N /\ preds \subseteq Preds(order[bi])
  BY <1>1, CountOfBlocks DEF PassInv
<1> DEFINE q == Pos(p)
<1>3. q \in 1..N /\ order[q] = p /\ q \in Ahead(bi)
  <2>1. Pos(p) \in 1..N /\ order[Pos(p)] = p
    BY <1>1, PosFacts
  <2>2. order[bi] \in next[p]
    BY <1>1, <1>2 DEF Preds
  <2> QED BY <2>1, <2>2 DEF Ahead
<1>4. newIdom # 0 => Candidate(newIdom)
  BY <1>1 DEF PassInv
<1>5. \A j \in 1..N : Seen(j) => newIdom \in Chain(j)
  BY <1>1 DEF PassInv
<1>6. newIdom \in 0..N /\ b1 \in 0..N /\ b2 \in 0..N /\ idom \in [1..N -> 0..N]
  BY <1>1 DEF DominatorsTypeOK
<1> HIDE DEF q
<1>7. \A j \in 1..N : Seen(j)' => Seen(j) \/ (j = q /\ idom[q] # 0)
  <2> SUFFICES ASSUME NEW j \in 1..N, Seen(j)', ~ Seen(j) PROVE j = q /\ idom[q] # 0
    OBVIOUS
  <2>1. j \in Ahead(bi) /\ order[j] \notin preds \ {p} /\ idom[j] # 0
    BY <1>1, SameTree DEF Seen
  <2>2. order[j] = p
    BY <2>1 DEF Seen
  <2>3. j = q
    BY <1>1, <1>3, <2>2 DEF Numbered
  <2> QED BY <2>1, <2>3
<1>8. idom[q] # 0 => Candidate(q) /\ q \in Chain(q)
  <2> SUFFICES ASSUME idom[q] # 0 PROVE Candidate(q) /\ q \in Chain(q)
    OBVIOUS
  <2>1. Dom(bi) \ {bi} \subseteq Dom(q)
    BY <1>1, <1>2, <1>3, DomFacts
  <2>2. q \in Chain(q)
    BY <1>1, <1>3, ChainFacts
  <2> QED BY <1>3, <2>1, <2>2 DEF Candidate
<1>9. ASSUME Unvisited(p) PROVE DominatorsInv'
  <2>1. idom[q] = 0 /\ UNCHANGED <<phase, newIdom, b1, b2>>
    BY <1>9 DEF Unvisited, q
  <2>2. \A j \in 1..N : Seen(j)' => newIdom' \in Chain(j)
    BY <1>5, <1>7, <2>1
  <2>3. newIdom' # 0 => Candidate(newIdom')
    BY <1>4, <2>1
  <2> QED BY <1>1, <1>6, <2>1, <2>2, <2>3, InBlock
<1>10. ASSUME First(p) PROVE DominatorsInv'
  <2>1. idom[q] # 0 /\ newIdom = 0 /\ newIdom' = q /\ UNCHANGED <<phase, b1, b2>>
    BY <1>10 DEF First, q
  <2>2. ASSUME NEW j \in 1..N PROVE ~ Seen(j)
    <3> SUFFICES ASSUME Seen(j) PROVE FALSE
      OBVIOUS
    <3>1. 0 \in Chain(j) /\ idom[j] # 0
      BY <1>5, <2>1 DEF Seen
    <3>2. Chain(j) \subseteq 1..N
      BY <1>1, <3>1, ChainFacts
    <3> QED BY <3>1, <3>2
  <2>3. \A j \in 1..N : Seen(j)' => newIdom' \in Chain(j)
    BY <1>7, <1>8, <2>1, <2>2
  <2>4. Candidate(newIdom') /\ newIdom' \in 0..N
    BY <1>3, <1>8, <2>1
  <2> QED BY <1>1, <1>6, <2>1, <2>3, <2>4, InBlock
<1>11. ASSUME Further(p) PROVE DominatorsInv'
  <2>1. /\ idom[q] # 0 /\ newIdom # 0 /\ b1' = q /\ b2' = newIdom /\ phase' = "meet"
        /\ UNCHANGED newIdom
    BY <1>11 DEF Further, q
  <2>2. \A j \in 1..N : Seen(j)' => b1' \in Chain(j) \/ b2' \in Chain(j)
    BY <1>5, <1>7, <1>8, <2>1
  <2>3. Candidate(b1') /\ Candidate(b2') /\ b1' \in 0..N /\ b2' \in 0..N
    BY <1>3, <1>4, <1>6, <1>8, <2>1
  <2> QED BY <1>1, <1>6, <2>1, <2>2, <2>3, InBlock
<1> QED BY <1>9, <1>10, <1>11

\* The walker below the other is no dominator of the block in work: it would be one of
\* the other too.
LEMMA ClimbKeeps ==
  ASSUME DominatorsAssumption, DominatorsInv, phase = "meet",
         NEW lo \in 1..N, NEW hi \in 1..N, Candidate(lo), Candidate(hi), lo < hi
  PROVE  Candidate(idom[lo])
<1>1. Numbered /\ TreeOK /\ PassInv /\ next \in Graphs /\ N \in Nat /\ bi \in 1..(N - 1)
  BY CountOfBlocks DEF DominatorsInv, PassInv
<1>2. lo \in 1..(N - 1) /\ idom[lo] # 0 /\ idom[hi] # 0
  BY <1>1 DEF Candidate
<1>3. lo \notin Dom(hi)
  <2>1. Dom(hi) \subseteq Chain(hi)
    BY <1>1, <1>2, DomInChain
  <2>2. \A k \in Chain(hi) : k >= hi
    BY <1>1, <1>2, ChainFacts
  <2> QED BY <1>1, <2>1, <2>2
<1>4. lo \notin Dom(bi) \ {bi}
  BY <1>3 DEF Candidate
<1>5. Dom(bi) \ {bi} \subseteq Dom(idom[lo])
  BY <1>1, <1>2, <1>4 DEF Candidate, TreeOK
<1>6. idom[lo] \in 1..N /\ idom[idom[lo]] # 0
  BY <1>1, <1>2 DEF TreeOK
<1> QED BY <1>5, <1>6 DEF Candidate

LEMMA ClimbSteps ==
  ASSUME DominatorsAssumption, DominatorsInv, Climb
  PROVE  DominatorsInv'
<1>1. /\ phase = "meet" /\ b1 # b2 /\ b1' = Climbed(b1, b2) /\ b2' = Climbed(b2, b1)
      /\ UNCHANGED <<phase, next, marks, path, order, idom, bi, preds, newIdom, changed>>
      /\ TreeOK /\ PassInv /\ DominatorsTypeOK /\ next \in Graphs
  BY DEF Climb, DominatorsInv
<1>2. /\ Candidate(b1) /\ Candidate(b2) /\ b1 \in 1..N /\ b2 \in 1..N /\ N \in Nat
      /\ \A j \in 1..N : Seen(j) => b1 \in Chain(j) \/ b2 \in Chain(j)
  BY <1>1, CountOfBlocks DEF PassInv, Candidate
<1>3. Candidate(b1')
  <2>1. CASE b1 < b2
    <3>1. Candidate(idom[b1])
      BY <1>1, <1>2, <2>1, ClimbKeeps
    <3> QED BY <1>1, <2>1, <3>1 DEF Climbed
  <2>2. CASE ~ (b1 < b2)
    BY <1>1, <1>2, <2>2 DEF Climbed
  <2> QED BY <2>1, <2>2
<1>4. Candidate(b2')
  <2>1. CASE b2 < b1
    <3>1. Candidate(idom[b2])
      BY <1>1, <1>2, <2>1, ClimbKeeps
    <3> QED BY <1>1, <2>1, <3>1 DEF Climbed
  <2>2. CASE ~ (b2 < b1)
    BY <1>1, <1>2, <2>2 DEF Climbed
  <2> QED BY <2>1, <2>2
<1>5. ASSUME NEW j \in 1..N, Seen(j)' PROVE b1' \in Chain(j) \/ b2' \in Chain(j)
  <2>1. Seen(j)
    BY <1>1, <1>5, SameTree DEF Seen
  <2>2. idom[j] # 0
    BY <2>1 DEF Seen
  <2>3. \A k \in Chain(j) : idom[k] \in Chain(j)
    BY <1>1, <2>2, ChainFacts
  <2> QED BY <1>1, <1>2, <2>1, <2>3 DEF Climbed
<1>6. b1' \in 0..N /\ b2' \in 0..N
  BY <1>3, <1>4 DEF Candidate
<1>7. newIdom' \in 0..N /\ phase' = "meet"
  BY <1>1 DEF DominatorsTypeOK
<1> QED BY <1>1, <1>3, <1>4, <1>5, <1>6, <1>7, InBlock

LEMMA MetStep ==
  ASSUME DominatorsAssumption, DominatorsInv, Met
  PROVE  DominatorsInv'
<1>1. /\ phase = "meet" /\ b1 = b2 /\ newIdom' = b1 /\ b1' = 0 /\ b2' = 0 /\ phase' = "block"
      /\ UNCHANGED <<next, marks, path, order, idom, bi, preds, changed>> /\ PassInv
  BY DEF Met, DominatorsInv
<1>2. /\ Candidate(b1) /\ b1 \in 0..N /\ N \in Nat
      /\ \A j \in 1..N : Seen(j) => b1 \in Chain(j)
  BY <1>1, CountOfBlocks DEF PassInv, Candidate
<1>3. \A j \in 1..N : Seen(j)' => newIdom' \in Chain(j)
  <2> TAKE j \in 1..N
  <2>1. Seen(j)' => Seen(j)
    BY <1>1, SameTree DEF Seen
  <2> QED BY <1>1, <1>2, <2>1
<1>4. newIdom' \in 0..N /\ b1' \in 0..N /\ b2' \in 0..N /\ Candidate(newIdom')
  BY <1>1, <1>2
<1> QED BY <1>1, <1>3, <1>4, InBlock

\* The new idom is above the block: it is on the chain of the predecessor behind.
LEMMA EndStep ==
  ASSUME DominatorsAssumption, DominatorsInv, End
  PROVE  DominatorsInv'
<1>1. /\ phase = "block" /\ preds = {} /\ newIdom # 0
      /\ idom' = [idom EXCEPT ![bi] = newIdom] /\ changed' = (changed \/ Changed)
      /\ bi' = bi - 1 /\ phase' = "pass" /\ newIdom' = 0
      /\ UNCHANGED <<next, marks, path, order, preds, b1, b2>>
      /\ Numbered /\ TreeOK /\ PassInv /\ DominatorsTypeOK /\ next \in Graphs /\ Root \in marks
  BY DEF End, DominatorsInv
<1>2. /\ N \in Nat /\ N > 0 /\ bi \in 1..(N - 1) /\ bi \in 1..N /\ Candidate(newIdom) /\ newIdom \in 1..N
      /\ idom \in [1..N -> 0..N] /\ idom[N] = N /\ N' = N
  BY <1>1, CountOfBlocks DEF PassInv, Candidate, TreeOK, N
<1>3. /\ \A i \in (bi + 1)..N : idom[i] # 0
      /\ ~changed => \A i \in (bi + 1)..(N - 1) : \A j \in Ahead(i) : idom[j] # 0 => idom[i] \in Chain(j)
      /\ \A j \in 1..N : j \in Ahead(bi) /\ idom[j] # 0 => newIdom \in Chain(j)
  BY <1>1, <1>2 DEF PassInv, Seen
<1>4. newIdom > bi
  <2>1. PICK j \in Ahead(bi) : j > bi
    BY <1>1, <1>2, DomFacts
  <2>2. j \in 1..N
    BY <1>1, <1>2, <2>1, DomFacts
  <2>3. idom[j] # 0
    BY <1>2, <1>3, <2>1, <2>2
  <2>4. newIdom >= j
    BY <1>1, <1>3, <2>1, <2>2, <2>3, ChainFacts
  <2> QED BY <1>2, <2>1, <2>2, <2>4
<1>5. \A i \in 1..N : idom'[i] = IF i = bi THEN newIdom ELSE idom[i]
  BY <1>1, <1>2
<1>6. \A i : Dom(i)' = Dom(i) /\ Ahead(i)' = Ahead(i)
  <2>1. \A d, b : Dominates(d, b)' = Dominates(d, b)
    BY <1>1 DEF Dominates, Reach, Closure, N
  <2> QED BY <1>1, <2>1 DEF Dom, Ahead, N
<1>7. TreeOK'
  <2>1. idom' \in [1..N -> 0..N] /\ idom'[N] = N
    BY <1>1, <1>2, <1>5
  <2>2. \A i \in 1..(N - 1) : idom'[i] # 0 => idom'[i] > i
    BY <1>1, <1>2, <1>4, <1>5 DEF TreeOK
  <2>3. ASSUME NEW i \in 1..N, idom'[i] # 0 PROVE idom'[idom'[i]] # 0
    <3>1. idom'[i] \in 1..N
      BY <1>2, <2>1, <2>3
    <3>2. idom[idom'[i]] # 0
      BY <1>1, <1>2, <1>5, <2>3 DEF TreeOK, Candidate
    <3> QED BY <1>1, <1>5, <3>1, <3>2
  <2>4. \A i \in 1..(N - 1) : idom'[i] # 0 => Dom(i) \ {i} \subseteq Dom(idom'[i])
    BY <1>1, <1>2, <1>5 DEF TreeOK, Candidate
  <2>5. ASSUME NEW i \in 1..(N - 1), idom'[i] # 0 PROVE (Dom(i) \ {i} \subseteq Dom(idom[i]))'
    <3>1. PICK k \in 1..N : k = idom'[i]
      BY <1>2, <2>1, <2>5
    <3>2. Dom(idom[i])' = Dom(k)'
      BY <3>1 DEF Dom, Dominates
    <3>3. Dom(i) \ {i} \subseteq Dom(k)
      BY <2>4, <2>5, <3>1
    <3> QED BY <1>6, <3>2, <3>3
  <2> HIDE DEF TreeOK
  <2> QED BY <1>2, <2>1, <2>2, <2>3, <2>5 DEF TreeOK
<1>8. ~changed' => idom' = idom /\ ~changed
  BY <1>1, <1>2 DEF Changed
<1>9. ASSUME ~changed' PROVE \A i \in (bi' + 1)..(N - 1) : \A j \in Ahead(i)' : idom'[j] # 0 => idom'[i] \in Chain(j)'
  <2>1. \A j : Chain(j)' = Chain(j)
    BY <1>1, <1>8, <1>9, SameTree
  <2>2. idom[bi] = newIdom
    BY <1>2, <1>5, <1>8, <1>9
  <2>3. ASSUME NEW i \in (bi' + 1)..(N - 1), NEW j \in Ahead(i), idom[j] # 0 PROVE idom[i] \in Chain(j)
    <3>1. CASE i = bi
      <4>1. j \in 1..N
        BY DEF Ahead
      <4> QED BY <1>3, <2>2, <2>3, <3>1, <4>1
    <3>2. CASE i # bi
      <4>1. i \in (bi + 1)..(N - 1)
        BY <1>1, <1>2, <3>2
      <4> QED BY <1>3, <1>8, <1>9, <2>3, <4>1
    <3> QED BY <3>1, <3>2
  <2> QED BY <1>6, <1>8, <1>9, <2>1, <2>3
<1>10. ASSUME NEW i \in (bi' + 1)..N PROVE idom'[i] # 0
  <2>1. i \in 1..N /\ (i = bi \/ i \in (bi + 1)..N)
    BY <1>1, <1>2
  <2> QED BY <1>1, <1>3, <1>5, <2>1
<1>11. PassInv'
  BY <1>1, <1>2, <1>9, <1>10 DEF PassInv
<1>12. DominatorsTypeOK'
  <2>1. idom' \in [1..N -> 0..N] /\ bi' \in 0..N
    BY <1>1, <1>2, <1>7 DEF TreeOK
  <2>2. changed' \in BOOLEAN
    <3>1. (changed \/ Changed) \in BOOLEAN
      OBVIOUS
    <3>2. changed' = (changed \/ Changed)
      BY DEF End
    <3> QED BY <3>1, <3>2, Zenon
  <2>3. /\ phase' = "pass" /\ newIdom' = 0 /\ N' = N /\ 0 \in 0..N
        /\ UNCHANGED <<next, marks, path, order, preds, b1, b2>> /\ DominatorsTypeOK
    BY <1>1, <1>2
  <2> QED BY <2>1, <2>2, <2>3 DEF DominatorsTypeOK
<1>13. Numbered'
  BY <1>1 DEF Numbered, InOrder, N
<1> QED BY <1>1, <1>7, <1>11, <1>12, <1>13 DEF DominatorsInv

LEMMA DominatorsInvInit ==
  ASSUME DominatorsAssumption, InitDominators
  PROVE  DominatorsInv
<1>1. /\ phase = "order" /\ next \in Graphs /\ marks = {Root} /\ path = <<Root>> /\ order = <<>>
      /\ idom = [i \in 1..N |-> 0]
      /\ bi = 0 /\ preds = {} /\ newIdom = 0 /\ b1 = 0 /\ b2 = 0 /\ changed = FALSE
  BY DEF InitDominators
<1>2. N \in Nat /\ N > 0 /\ Root \in Block /\ next \in [Block -> SUBSET Block]
  BY <1>1, CountOfBlocks DEF DominatorsAssumption
<1>3. DominatorsTypeOK
  <2>1. changed \in BOOLEAN
    BY <1>1, Zenon
  <2>2. path \in Seq(Block) /\ order \in Seq(Block) /\ idom \in [1..N -> 0..N] /\ 0 \in 0..N
    BY <1>1, <1>2
  <2> QED BY <1>1, <1>2, <2>1, <2>2 DEF DominatorsTypeOK
<1>4. Len(path) = 1 /\ path[1] = Root /\ Len(order) = 0
  BY <1>1, <1>2
<1>5. \A b \in Block : (OnPath(b) <=> b = Root) /\ ~ InOrder(b)
  BY <1>4 DEF OnPath, InOrder
<1>6. WalkInv
  BY <1>1, <1>4, <1>5 DEF WalkInv
<1> QED BY <1>1, <1>3, <1>6 DEF DominatorsInv

LEMMA DominatorsInvStep ==
  ASSUME DominatorsAssumption, DominatorsInv, [NextDominators]_dominator_vars
  PROVE  DominatorsInv'
<1>1. ASSUME NEW c \in Block, Visit(c) PROVE DominatorsInv'
  <2>1. /\ phase = "order" /\ c \in next[Top] \ marks /\ marks' = marks \cup {c} /\ path' = Append(path, c)
        /\ UNCHANGED <<phase, next, order, idom, bi, preds, newIdom, b1, b2, changed>>
    BY <1>1 DEF Visit
  <2>2. DominatorsTypeOK /\ WalkInv /\ idom = [i \in 1..N |-> 0] /\ next \in Graphs /\ Root \in marks
    BY <2>1 DEF DominatorsInv
  <2>3. WalkInv'
    BY <1>1, <2>2, VisitWalks
  <2>4. DominatorsTypeOK' /\ idom' = [i \in 1..N' |-> 0]
    BY <2>1, <2>2 DEF DominatorsTypeOK, N
  <2> QED BY <2>1, <2>2, <2>3, <2>4 DEF DominatorsInv
<1>2. ASSUME Leave PROVE DominatorsInv'
  <2>1. /\ phase = "order" /\ path # <<>> /\ order' = Append(order, Top) /\ path' = SubSeq(path, 1, Len(path) - 1)
        /\ UNCHANGED <<phase, next, marks, idom, bi, preds, newIdom, b1, b2, changed>>
    BY <1>2 DEF Leave, Listed
  <2>2. DominatorsTypeOK /\ WalkInv /\ idom = [i \in 1..N |-> 0] /\ next \in Graphs /\ Root \in marks
    BY <2>1 DEF DominatorsInv
  <2>3. WalkInv'
    BY <1>2, <2>2, LeaveWalks
  <2>4. path' \in Seq(Block) /\ order' \in Seq(Block)
    <3>1. path \in Seq(Block) /\ order \in Seq(Block) /\ Len(path) \in Nat /\ Len(path) > 0
      BY <2>1, <2>2 DEF DominatorsTypeOK
    <3>2. path[Len(path)] \in Block
      BY <3>1
    <3>3. SubSeq(path, 1, Len(path) - 1) \in Seq(Block)
      BY <3>1
    <3> QED BY <2>1, <3>1, <3>2, <3>3 DEF Top
  <2>5. DominatorsTypeOK' /\ idom' = [i \in 1..N' |-> 0]
    BY <2>1, <2>2, <2>4 DEF DominatorsTypeOK, N
  <2> QED BY <2>1, <2>2, <2>3, <2>5 DEF DominatorsInv
<1>3. ASSUME UNCHANGED dominator_vars PROVE DominatorsInv'
  <2>1. UNCHANGED <<phase, next, marks, path, order, idom, bi, preds, newIdom, b1, b2, changed>>
    BY <1>3 DEF dominator_vars
  <2>2. DominatorsTypeOK' /\ N' = N
    BY <2>1 DEF DominatorsInv, DominatorsTypeOK, N
  <2>3. WalkInv => WalkInv'
    BY <2>1 DEF WalkInv, OnPath, InOrder
  <2>4. PassInv => PassInv'
    <3>1. /\ \A i : Dom(i)' = Dom(i) /\ Ahead(i)' = Ahead(i) /\ Chain(i)' = Chain(i)
          /\ \A b : Preds(b)' = Preds(b)
      BY <2>1, SameTree
    <3>2. \A k : Candidate(k)' = Candidate(k)
      BY <2>1, <2>2, <3>1 DEF Candidate
    <3>3. \A j : Seen(j)' = Seen(j)
      BY <2>1, <3>1 DEF Seen
    <3> QED BY <2>1, <2>2, <3>1, <3>2, <3>3 DEF PassInv
  <2>5. (Numbered => Numbered') /\ (TreeOK => TreeOK')
    BY <2>1, SameTree
  <2> QED BY <2>1, <2>2, <2>3, <2>4, <2>5 DEF DominatorsInv
<1> QED
  BY <1>1, <1>2, <1>3, TreeBegins, PassSteps, LookSteps, ClimbSteps, MetStep, EndStep DEF NextDominators

\* The chains of a tree that a pass has left as it was are dominators: what is not on
\* the chain of a block is not on that of all its predecessors.
LEMMA FixpointIsDominance ==
  ASSUME DominatorsAssumption, DominatorsInv, phase = "done", NEW i \in 1..N
  PROVE  Chain(i) = Dom(i) /\ idom[i] # 0
<1>1. /\ Numbered /\ TreeOK /\ PassInv /\ next \in Graphs /\ next \in [Block -> SUBSET Block]
      /\ N \in Nat /\ N > 0 /\ N \in 1..N /\ Root \in Block /\ Pos(Root) = N
  BY CountOfBlocks, PosFacts DEF DominatorsInv, DominatorsTypeOK
<1>2. \A j \in 1..N : idom[j] # 0
  BY <1>1 DEF PassInv
<1>3. \A k \in 1..(N - 1) : \A j \in Ahead(k) : idom[k] \in Chain(j)
  <2> TAKE k \in 1..(N - 1)
  <2> TAKE j \in Ahead(k)
  <2>1. j \in 1..N
    BY DEF Ahead
  <2> QED BY <1>1, <1>2, <2>1 DEF PassInv
<1>4. ASSUME NEW k \in Chain(i) PROVE k \in Dom(i)
  <2>1. k \in 1..N
    BY <1>1, <1>2, ChainFacts
  <2>2. order[k] \in Block /\ order[i] \in Block /\ Pos(order[i]) = i /\ Pos(order[k]) = k
    BY <1>1, <2>1, PosFacts
  <2> DEFINE T == {b \in Block : k \notin Chain(Pos(b))}
  <2>3. order[i] \notin T
    BY <1>4, <2>2
  <2>4. Root = order[k] \/ Root \in T
    <3>1. \A j \in Chain(N) : j = N
      <4>1. \A j \in Chain(N) : j >= N /\ j \in 1..N
        BY <1>1, <1>2, ChainFacts
      <4> QED BY <1>1, <4>1
    <3> QED BY <1>1, <3>1 DEF Numbered
  <2>5. ASSUME NEW x \in T \cap Block, NEW y \in next[x], y # order[k] PROVE y \in T
    <3>1. y \in Block /\ Pos(x) \in 1..N /\ order[Pos(x)] = x /\ Pos(y) \in 1..N /\ order[Pos(y)] = y
      <4>1. y \in Block
        BY <1>1
      <4> QED BY <1>1, <4>1, PosFacts
    <3> SUFFICES ASSUME k \in Chain(Pos(y)) PROVE FALSE
      BY <3>1
    <3>2. k \notin Chain(Pos(x)) /\ k # Pos(y)
      BY <2>5, <3>1
    <3>3. Pos(y) # N
      <4>1. \A j \in Chain(N) : j >= N /\ j \in 1..N
        BY <1>1, <1>2, ChainFacts
      <4> QED BY <1>1, <3>2, <4>1
    <3>4. Pos(y) \in 1..(N - 1) /\ Pos(x) \in Ahead(Pos(y))
      BY <1>1, <3>1, <3>3 DEF Ahead
    <3>5. idom[Pos(y)] \in Chain(Pos(x))
      BY <1>3, <3>4
    <3>6. Chain(idom[Pos(y)]) \subseteq Chain(Pos(x))
      BY <1>1, <1>2, <3>1, <3>5, ChainFacts
    <3>7. k \in Chain(idom[Pos(y)])
      BY <1>1, <1>2, <3>1, <3>2, ChainFacts
    <3> QED BY <3>2, <3>6, <3>7
  <2> HIDE DEF T
  <2>6. Dominates(order[k], order[i])
    BY <1>1, <2>2, <2>3, <2>4, <2>5, DominatedOutside
  <2> QED BY <2>1, <2>6 DEF Dom
<1>5. Dom(i) \subseteq Chain(i)
  BY <1>1, <1>2, DomInChain
<1> QED BY <1>2, <1>4, <1>5

LEMMA TreeFromInv ==
  ASSUME DominatorsAssumption, DominatorsInv
  PROVE  TreeIsDominance
<1>1. phase # "order" => /\ Numbered /\ TreeOK /\ next \in Graphs
                         /\ \A b \in Block : Pos(b) \in 1..N /\ order[Pos(b)] = b
  BY PosFacts DEF DominatorsInv
<1>2. ASSUME phase = "done", NEW b \in Block, NEW d \in Block
      PROVE  Pos(d) \in Chain(Pos(b)) <=> Dominates(d, b)
  <2>1. Chain(Pos(b)) = Dom(Pos(b))
    BY <1>1, <1>2, FixpointIsDominance
  <2>2. Pos(d) \in Dom(Pos(b)) <=> Dominates(d, b)
    BY <1>1, <1>2 DEF Dom
  <2> QED BY <2>1, <2>2
<1>3. ASSUME phase = "pass", NEW b \in Block, NEW d \in Block, idom[Pos(b)] # 0, Dominates(d, b)
      PROVE  Pos(d) \in Chain(Pos(b))
  <2>1. Dom(Pos(b)) \subseteq Chain(Pos(b))
    BY <1>1, <1>3, DomInChain
  <2>2. Pos(d) \in Dom(Pos(b))
    BY <1>1, <1>3 DEF Dom
  <2> QED BY <2>1, <2>2
<1> QED BY <1>2, <1>3 DEF TreeIsDominance, NoDominatorLost

\* What common_predecessor() and the assertion of compute_idoms() rely on.
LEMMA LookupsFromInv ==
  ASSUME DominatorsAssumption, DominatorsInv
  PROVE  PredecessorVisited /\ Climbs
<1>1. N \in Nat /\ N > 0
  BY CountOfBlocks
<1>2. PredecessorVisited
  <2> SUFFICES ASSUME phase = "block", preds = {}, newIdom = 0 PROVE FALSE
    BY DEF PredecessorVisited
  <2>1. Numbered /\ TreeOK /\ PassInv /\ next \in Graphs
    BY DEF DominatorsInv
  <2>2. bi \in 1..(N - 1)
    BY <2>1 DEF PassInv
  <2>3. PICK j \in Ahead(bi) : j > bi
    BY <2>1, <2>2, DomFacts
  <2>4. j \in 1..N
    BY DEF Ahead
  <2>5. idom[j] # 0
    BY <1>1, <2>1, <2>2, <2>3, <2>4 DEF PassInv
  <2>6. 0 \in Chain(j)
    BY <2>1, <2>3, <2>4, <2>5 DEF PassInv, Seen
  <2> QED BY <2>1, <2>4, <2>5, <2>6, ChainFacts
<1>3. Climbs
  <2>1. CASE phase = "order"
    <3>1. idom = [i \in 1..N |-> 0]
      BY <2>1 DEF DominatorsInv
    <3> QED BY <2>1, <3>1 DEF Climbs
  <2>2. CASE phase # "order"
    <3>1. TreeOK /\ PassInv
      BY <2>2 DEF DominatorsInv
    <3>2. \A i \in 1..N : idom[i] \in {0} \cup (i + 1 .. N) \/ (i = N /\ idom[i] = N)
      <4> TAKE i \in 1..N
      <4>1. i = N \/ i \in 1..(N - 1)
        BY <1>1
      <4> QED BY <1>1, <3>1, <4>1 DEF TreeOK
    <3>3. phase = "meet" => b1 # 0 /\ b2 # 0 /\ idom[b1] # 0 /\ idom[b2] # 0
      BY <1>1, <3>1 DEF PassInv, Candidate
    <3> QED BY <3>2, <3>3 DEF Climbs
  <2> QED BY <2>1, <2>2
<1> QED BY <1>2, <1>3

----------------------------------------------------------------------------
(* Control dependence.                                                     *)

LEMMA FanoutFacts ==
  ASSUME ControlAssumption, next \in Graphs
  PROVE  /\ next \in [Block -> SUBSET Block] /\ Fanouts \in [Block -> SUBSET Block]
         /\ \A x, y \in Block : y \in Fanouts[x] <=> x \in next[y]
         /\ \A b \in Block : Fanouts[b] = {} <=> b = Exit
         /\ Reach(Fanouts, Start, {}) = Block /\ Reach(next, Root, {}) = Block
         /\ Start \in Block /\ Exit \in Block
         /\ DominatorsAssumption
<1>1. DominatorsAssumption /\ next \in [Block -> SUBSET Block] /\ Root \in Block /\ Reach(next, Root, {}) = Block
  BY DEF ControlAssumption, DominatorsAssumption
<1>2. Reach(Fanouts, Start, {}) = Block /\ \A b \in Block : Fanouts[b] = {} <=> b = Exit
  BY DEF ControlAssumption, Fanouts
<1>3. Fanouts = [b \in Block |-> {p \in Block : b \in next[p]}]
  BY DEF Fanouts, Reversed
<1> QED BY <1>1, <1>2, <1>3 DEF ControlAssumption, Exit

\* A path that avoids d leads from b to the exit if and only if one leads back.
LEMMA PostDominance ==
  ASSUME ControlAssumption, next \in Graphs, NEW b \in Block, NEW d \in Block
  PROVE  d \in PostDominators(Fanouts)[b] <=> Dominates(d, b)
<1>1. /\ next \in [Block -> SUBSET Block] /\ Fanouts \in [Block -> SUBSET Block] /\ DominatorsAssumption
      /\ \A x, y \in Block : y \in Fanouts[x] <=> x \in next[y]
      /\ Root \in Block /\ Exit = Root
  BY FanoutFacts DEF Exit
<1> DEFINE R == Reach(next, Root, {d})
           Q == Reach(Fanouts, b, {d})
<1>2. /\ R \subseteq Block
      /\ Root \notin {d} => Root \in R
      /\ \A x \in R : \A y \in next[x] : y \notin {d} => y \in R
  BY <1>1, ReachLeast
<1>3. /\ Q \subseteq Block
      /\ b \notin {d} => b \in Q
      /\ \A x \in Q : \A y \in Fanouts[x] : y \notin {d} => y \in Q
      /\ \A T : /\ b \notin {d} => b \in T
                /\ \A x \in T \cap Block : \A y \in Fanouts[x] : y \notin {d} => y \in T
                => Q \subseteq T
  BY <1>1, ReachLeast
<1>4. d \in PostDominators(Fanouts)[b] <=> Exit \notin Q
  BY DEF PostDominators
<1>5. Dominates(d, b) <=> b \notin R
  BY DEF Dominates
<1> HIDE DEF R, Q
<1>6. ASSUME b \notin R PROVE Exit \notin Q
  <2> DEFINE T == (Block \ R) \ {d}
  <2>1. b \notin {d} => b \in T
    BY <1>6
  <2>2. \A x \in T \cap Block : \A y \in Fanouts[x] : y \notin {d} => y \in T
    BY <1>1, <1>2
  <2>3. Root \notin T
    BY <1>2
  <2> HIDE DEF T
  <2>4. Q \subseteq T
    BY <1>3, <2>1, <2>2
  <2> QED BY <1>1, <2>3, <2>4
<1>7. ASSUME Exit \notin Q PROVE Dominates(d, b)
  <2>1. CASE b = d
    BY <1>1, <2>1, DominanceFacts
  <2>2. CASE b # d
    <3> DEFINE T == (Block \ Q) \ {d}
    <3>1. b \notin T /\ (Root = d \/ Root \in T)
      BY <1>1, <1>3, <1>7, <2>2
    <3>2. \A x \in T \cap Block : \A y \in next[x] : y = d \/ y \in T
      BY <1>1, <1>3
    <3> HIDE DEF T
    <3> QED BY <1>1, <3>1, <3>2, DominatedOutside
  <2> QED BY <2>1, <2>2
<1> QED BY <1>4, <1>5, <1>6, <1>7

\* "A directed path from s to y with any z in it post-dominated by y" is there exactly
\* when y post-dominates s.
LEMMA PathIsPostDominance ==
  ASSUME ControlAssumption, next \in Graphs, NEW s \in Block, NEW y \in Block
  PROVE  y \in Reach(Fanouts, s, {z \in Block \ {y} : y \notin PostDominators(Fanouts)[z]}) <=> Dominates(y, s)
<1>1. /\ next \in [Block -> SUBSET Block] /\ Fanouts \in [Block -> SUBSET Block] /\ DominatorsAssumption
      /\ \A x, z \in Block : z \in Fanouts[x] <=> x \in next[z]
      /\ Root \in Block /\ Reach(next, Root, {}) = Block
  BY FanoutFacts DEF Exit
<1> DEFINE S == {z \in Block \ {y} : y \notin PostDominators(Fanouts)[z]}
           P == Reach(Fanouts, s, S)
<1>2. \A z \in Block : z \in S <=> ~ Dominates(y, z)
  <2> TAKE z \in Block
  <2>1. y \in PostDominators(Fanouts)[z] <=> Dominates(y, z)
    BY PostDominance
  <2>2. Dominates(y, y)
    BY <1>1, DominanceFacts
  <2> QED BY <2>1, <2>2
<1>3. /\ P \subseteq Block
      /\ \A x \in P : x \notin S
      /\ s \notin S => s \in P
      /\ \A x \in P : \A z \in Fanouts[x] : z \notin S => z \in P
      /\ \A T : /\ s \notin S => s \in T
                /\ \A x \in T \cap Block : \A z \in Fanouts[x] : z \notin S => z \in T
                => P \subseteq T
  <2> HIDE DEF S
  <2> QED BY <1>1, ReachLeast
<1> HIDE DEF S, P
<1>4. ASSUME ~ Dominates(y, s) PROVE y \notin P
  <2>1. s \in S
    BY <1>2, <1>4
  <2> DEFINE T == {}
  <2>2. (s \notin S => s \in T) /\ \A x \in T \cap Block : \A z \in Fanouts[x] : z \notin S => z \in T
    BY <2>1
  <2>3. y \notin T
    OBVIOUS
  <2> HIDE DEF T
  <2>4. P \subseteq T
    BY <1>3, <2>2
  <2> QED BY <2>3, <2>4
<1>5. ASSUME Dominates(y, s), y \notin P PROVE FALSE
  <2>1. s \in P
    BY <1>2, <1>3, <1>5
  <2>2. ASSUME NEW x \in P, NEW z \in Fanouts[x] PROVE z \in P
    <3>1. x \in Block /\ z \in Block /\ x # y /\ Dominates(y, x) /\ x \in next[z]
      BY <1>1, <1>2, <1>3, <1>5
    <3>2. Dominates(y, z)
      BY <1>1, <3>1, DominanceFacts
    <3> QED BY <1>2, <1>3, <3>1, <3>2
  <2> DEFINE T == Block \ P
  <2>3. Root \in P
    <3> SUFFICES ASSUME Root \notin P PROVE FALSE
      OBVIOUS
    <3>1. Root \notin {} => Root \in T
      BY <1>1
    <3>2. \A x \in T \cap Block : \A z \in next[x] : z \notin {} => z \in T
      BY <1>1, <2>2
    <3>3. s \notin T
      BY <2>1
    <3> HIDE DEF T
    <3>4. Reach(next, Root, {}) \subseteq T
      BY <1>1, <3>1, <3>2, ReachLeast
    <3> QED BY <1>1, <3>3, <3>4
  <2>4. Dominates(y, Root)
    BY <1>1, <1>2, <1>3, <2>3
  <2>5. y = Root
    BY <1>1, <2>4, DominanceFacts
  <2> QED BY <1>5, <2>3, <2>5
<1> QED BY <1>4, <1>5 DEF P, S

\* The positions that a walk from s passes for the branch x.
Between(x, s) == Chain(Pos(s)) \ Chain(idom[Pos(x)])

\* The finished tree.
TreeDone == DominatorsInv /\ phase = "done"

LEMMA TreeFacts ==
  ASSUME ControlAssumption, TreeDone
  PROVE  /\ N \in Nat /\ N > 0 /\ next \in Graphs /\ Numbered /\ TreeOK /\ DominatorsAssumption
         /\ \A b \in Block : Pos(b) \in 1..N /\ order[Pos(b)] = b
         /\ \A i \in 1..N : order[i] \in Block /\ Pos(order[i]) = i
         /\ Pos(Exit) = N /\ Exit \in Block
         /\ \A i \in 1..N : idom[i] \in 1..N /\ Chain(i) = Dom(i) /\ Chain(i) \subseteq 1..N /\ i \in Chain(i)
         /\ \A i \in 1..N : \A k \in Chain(i) : k >= i /\ idom[k] \in Chain(i)
         /\ \A i \in 1..(N - 1) : idom[i] > i /\ Chain(i) = {i} \cup Chain(idom[i]) /\ i \notin Chain(idom[i])
         /\ Chain(N) = {N}
         /\ \A b \in Block : b # Exit => Pos(b) \in 1..(N - 1)
<1>1. N \in Nat /\ N > 0 /\ N \in 1..N /\ next \in Graphs /\ Numbered /\ TreeOK /\ DominatorsAssumption
  BY CountOfBlocks DEF ControlAssumption, TreeDone, DominatorsInv
<1>2. /\ \A b \in Block : Pos(b) \in 1..N /\ order[Pos(b)] = b
      /\ \A i \in 1..N : order[i] \in Block /\ Pos(order[i]) = i
      /\ Pos(Exit) = N /\ Exit \in Block
  BY <1>1, PosFacts DEF Exit, DominatorsAssumption
<1>3. \A i \in 1..N : idom[i] # 0 /\ idom[i] \in 1..N /\ Chain(i) = Dom(i)
  <2> TAKE i \in 1..N
  <2>1. Chain(i) = Dom(i) /\ idom[i] # 0
    BY <1>1, FixpointIsDominance DEF TreeDone
  <2> QED BY <1>1, <2>1 DEF TreeOK
<1>4. /\ \A i \in 1..N : Chain(i) \subseteq 1..N /\ i \in Chain(i)
      /\ \A i \in 1..N : \A k \in Chain(i) : k >= i /\ idom[k] \in Chain(i)
  BY <1>1, <1>3, ChainFacts
<1>5. Chain(N) = {N}
  BY <1>1, <1>3, DomFacts
<1>6. ASSUME NEW i \in 1..(N - 1)
      PROVE  idom[i] > i /\ Chain(i) = {i} \cup Chain(idom[i]) /\ i \notin Chain(idom[i])
  <2>1. i \in 1..N /\ idom[i] \in 1..N /\ idom[i] > i
    BY <1>1, <1>3 DEF TreeOK
  <2>2. idom[i] \in Chain(i) /\ Chain(idom[i]) \subseteq Chain(i) /\ \A k \in Chain(i) : k = i \/ k \in Chain(idom[i])
    BY <1>1, <1>3, <2>1, ChainFacts
  <2>3. \A k \in Chain(idom[i]) : k >= idom[i]
    BY <1>4, <2>1
  <2> QED BY <1>4, <2>1, <2>2, <2>3
<1>7. \A b \in Block : b # Exit => Pos(b) \in 1..(N - 1)
  BY <1>1, <1>2
<1> QED BY <1>1, <1>2, <1>3, <1>4, <1>5, <1>6, <1>7

\* A target of a branch is ahead of it, so that the idom of the branch is on the chain
\* of each target.
LEMMA TargetFacts ==
  ASSUME ControlAssumption, TreeDone, NEW x \in Block, x # Exit
  PROVE  /\ \A s \in Fanouts[x] : s \in Block /\ idom[Pos(x)] \in Chain(Pos(s))
         /\ \E s \in Fanouts[x] : Pos(s) > Pos(x)
         /\ \A k \in 1..N : (\A s \in Fanouts[x] : k \in Chain(Pos(s))) => k \in Chain(Pos(x))
<1>1. /\ N \in Nat /\ N > 0 /\ next \in Graphs /\ Numbered /\ DominatorsAssumption
      /\ \A b \in Block : Pos(b) \in 1..N /\ order[Pos(b)] = b
      /\ \A i \in 1..N : order[i] \in Block /\ Pos(order[i]) = i
      /\ \A i \in 1..N : idom[i] \in 1..N /\ Chain(i) = Dom(i)
      /\ \A i \in 1..N : \A k \in Chain(i) : k >= i /\ idom[k] \in Chain(i)
      /\ \A i \in 1..N : i \in Chain(i)
      /\ \A i \in 1..(N - 1) : idom[i] > i
      /\ Pos(x) \in 1..(N - 1)
  BY TreeFacts
<1>2. /\ Fanouts \in [Block -> SUBSET Block]
      /\ \A a, b \in Block : b \in Fanouts[a] <=> a \in next[b]
  BY <1>1, FanoutFacts
<1>3. \A j \in 1..N : j \in Ahead(Pos(x)) <=> order[j] \in Fanouts[x]
  BY <1>1, <1>2 DEF Ahead
<1>4. \A s \in Fanouts[x] : s \in Block /\ Pos(s) \in Ahead(Pos(x))
  BY <1>1, <1>2, <1>3
<1>5. /\ \A j \in Ahead(Pos(x)) : j \in 1..N /\ Dom(Pos(x)) \ {Pos(x)} \subseteq Dom(j)
      /\ \E j \in Ahead(Pos(x)) : j > Pos(x)
      /\ \A k \in 1..N : (\A j \in Ahead(Pos(x)) : k \in Dom(j)) => k \in Dom(Pos(x))
  BY <1>1, DomFacts
<1>6. ASSUME NEW s \in Fanouts[x] PROVE idom[Pos(x)] \in Chain(Pos(s))
  <2>1. idom[Pos(x)] \in Dom(Pos(x)) \ {Pos(x)}
    BY <1>1
  <2> QED BY <1>1, <1>4, <1>5, <2>1
<1>7. \E s \in Fanouts[x] : Pos(s) > Pos(x)
  <2>1. PICK j \in Ahead(Pos(x)) : j > Pos(x)
    BY <1>5
  <2> QED BY <1>1, <1>3, <1>5, <2>1
<1>8. ASSUME NEW k \in 1..N, \A s \in Fanouts[x] : k \in Chain(Pos(s))
      PROVE  k \in Chain(Pos(x))
  <2>1. ASSUME NEW j \in Ahead(Pos(x)) PROVE k \in Dom(j)
    <3>1. j \in 1..N /\ order[j] \in Fanouts[x]
      BY <1>3, <1>5
    <3> QED BY <1>1, <1>8, <3>1
  <2> QED BY <1>1, <1>5, <2>1
<1> QED BY <1>4, <1>6, <1>7, <1>8

\* The dependencies of the definition, told by the tree.
LEMMA DependenceInTree ==
  ASSUME ControlAssumption, TreeDone, NEW x \in Block, NEW y \in Block
  PROVE  <<y, x>> \in ControlDependencies <=> \E s \in Fanouts[x] : Pos(y) \in Between(x, s)
<1>1. /\ N \in Nat /\ N > 0 /\ next \in Graphs /\ Numbered /\ DominatorsAssumption
      /\ \A b \in Block : Pos(b) \in 1..N /\ order[Pos(b)] = b
      /\ \A i \in 1..N : order[i] \in Block /\ Pos(order[i]) = i
      /\ \A i \in 1..N : idom[i] \in 1..N /\ Chain(i) = Dom(i) /\ i \in Chain(i)
      /\ \A i \in 1..(N - 1) : Chain(i) = {i} \cup Chain(idom[i]) /\ i \notin Chain(idom[i])
      /\ \A b \in Block : b # Exit => Pos(b) \in 1..(N - 1)
  BY TreeFacts
<1>2. /\ Fanouts \in [Block -> SUBSET Block] /\ \A b \in Block : Fanouts[b] = {} <=> b = Exit
  BY <1>1, FanoutFacts
<1>3. \A a, b \in Block : Pos(a) \in Chain(Pos(b)) <=> Dominates(a, b)
  BY <1>1 DEF Dom
<1>4. \A a, b \in Block : a \in PostDominators(Fanouts)[b] <=> Dominates(a, b)
  BY <1>1, PostDominance
<1>5. \A s \in Block :
        y \in Reach(Fanouts, s, {z \in Block \ {y} : y \notin PostDominators(Fanouts)[z]}) <=> Dominates(y, s)
  BY <1>1, PathIsPostDominance
<1>6. <<y, x>> \in ControlDependencies <=>
        /\ y \notin PostDominators(Fanouts)[x] \ {x}
        /\ \E s \in Fanouts[x] :
             y \in Reach(Fanouts, s, {z \in Block \ {y} : y \notin PostDominators(Fanouts)[z]})
  BY DEF ControlDependencies
<1>7. <<y, x>> \in ControlDependencies <=>
        /\ ~ (Dominates(y, x) /\ y # x)
        /\ \E s \in Fanouts[x] : Dominates(y, s)
  BY <1>2, <1>4, <1>5, <1>6
<1>8. CASE x = Exit
  BY <1>2, <1>7, <1>8
<1>9. CASE x # Exit
  <2>1. Pos(y) \in Chain(idom[Pos(x)]) <=> Dominates(y, x) /\ y # x
    BY <1>1, <1>3, <1>9
  <2>2. \A s \in Fanouts[x] : Pos(y) \in Between(x, s) <=> Dominates(y, s) /\ ~ (Dominates(y, x) /\ y # x)
    BY <1>2, <1>3, <2>1 DEF Between
  <2> QED BY <1>7, <2>2
<1> QED BY <1>8, <1>9

\* Only a branch has dependents: the single target of another block is its idom.
LEMMA OnlyBranches ==
  ASSUME ControlAssumption, TreeDone, NEW x \in Block, x \notin Branches(Fanouts), NEW s \in Fanouts[x]
  PROVE  Between(x, s) = {}
<1>1. /\ N \in Nat /\ N > 0 /\ next \in Graphs /\ DominatorsAssumption
      /\ \A b \in Block : Pos(b) \in 1..N /\ order[Pos(b)] = b
      /\ \A i \in 1..N : idom[i] \in 1..N /\ Chain(i) \subseteq 1..N /\ i \in Chain(i)
      /\ \A i \in 1..N : \A k \in Chain(i) : k >= i
      /\ \A i \in 1..(N - 1) : Chain(i) = {i} \cup Chain(idom[i])
      /\ \A b \in Block : b # Exit => Pos(b) \in 1..(N - 1)
  BY TreeFacts
<1>2. /\ Fanouts \in [Block -> SUBSET Block] /\ \A b \in Block : Fanouts[b] = {} <=> b = Exit
  BY <1>1, FanoutFacts
<1>3. x # Exit /\ s \in Block /\ Pos(x) \in 1..(N - 1)
  BY <1>1, <1>2
<1>4. Fanouts[x] = {s}
  <2>1. IsFiniteSet(Fanouts[x]) /\ Cardinality(Fanouts[x]) \in Nat /\ ~ (Cardinality(Fanouts[x]) > 1)
    BY <1>1, <1>2, FS_Subset, FS_CardinalityType DEF Branches, DominatorsAssumption
  <2>2. Cardinality(Fanouts[x]) = 1
    BY <2>1, FS_EmptySet
  <2> QED BY <2>1, <2>2, FS_Singleton
<1>5. Pos(s) > Pos(x)
  BY <1>3, <1>4, TargetFacts
<1>6. ASSUME NEW k \in Chain(Pos(s)) PROVE k \in Chain(idom[Pos(x)])
  <2>1. k \in 1..N /\ k > Pos(x)
    BY <1>1, <1>3, <1>5
  <2>2. k \in Chain(Pos(x))
    BY <1>3, <1>4, <1>6, <2>1, TargetFacts
  <2> QED BY <1>1, <1>3, <2>1, <2>2
<1> QED BY <1>6 DEF Between

\* y is passed on the way from a target of x to the idom of x.
Passed(y, x) == \E s \in Fanouts[x] : Pos(y) \in Between(x, s)

\* What the walk from the targets of c but for those of T has left to do.
BranchInWork(td, c, T, st, en, D) ==
  /\ c \notin td /\ T \subseteq Fanouts[c]
  /\ st \in Block /\ en = order[idom[Pos(c)]] /\ idom[Pos(c)] \in Chain(Pos(st))
  /\ st = en \/ \E s \in Fanouts[c] : Pos(st) \in Chain(Pos(s))
  /\ \A s \in Fanouts[c] \ T : \A y \in Block :
       Pos(y) \in Between(c, s) => <<y, c>> \in D \/ Pos(y) \in Between(c, st)

\* What the walk from the start block has left to do.
EntryInWork(td, T, st, en, D) ==
  /\ td = {} /\ T = {} /\ en = NoBlock /\ st \in Block \cup {NoBlock}
  /\ \A y \in Block :
       Pos(y) \in Chain(Pos(Start)) =>
         <<y, Entry>> \in D \/ (st \in Block /\ Pos(y) \in Chain(Pos(st)))

\* The edges are dependencies, and those of the branches that are done are all there.
Progress(td, c, T, st, en, D) ==
  /\ td \subseteq Branches(Fanouts) /\ T \subseteq Block /\ D \subseteq Block \X (Block \cup {Entry})
  /\ c \in Branches(Fanouts) \cup {Entry, NoBlock}
  /\ \A x, y \in Block : <<y, x>> \in D => Passed(y, x)
  /\ \A x \in Branches(Fanouts) \ td : x # c => \A y \in Block : Passed(y, x) => <<y, x>> \in D
  /\ c = NoBlock => st = NoBlock /\ en = NoBlock /\ T = {}
  /\ c \in Block => BranchInWork(td, c, T, st, en, D)
  /\ c = Entry => EntryInWork(td, T, st, en, D)

ControlInv ==
  /\ DominatorsInv
  /\ phase # "done" => /\ todo = Branches(Fanouts) /\ control = NoBlock /\ targets = {}
                       /\ start = NoBlock /\ end = NoBlock /\ deps = {}
  /\ phase = "done" => Progress(todo, control, targets, start, end, deps)

LEMMA SameProgress ==
  ASSUME ControlAssumption, UNCHANGED dominator_vars, DominatorsInv, phase = "done",
         NEW td, NEW c, NEW T, NEW st, NEW en, NEW D, Progress(td, c, T, st, en, D),
         todo' = td, control' = c, targets' = T, start' = st, end' = en, deps' = D
  PROVE  ControlInv'
<1>1. UNCHANGED <<phase, next, order, idom>>
  BY DEF dominator_vars
<1>2. DominatorsInv'
  <2>1. [NextDominators]_dominator_vars
    OBVIOUS
  <2> QED BY <2>1, DominatorsInvStep DEF ControlAssumption
<1>3. Progress(todo, control, targets, start, end, deps)'
  <2>1. Fanouts' = Fanouts /\ Branches(Fanouts)' = Branches(Fanouts)
    BY <1>1 DEF Fanouts, Reversed, Branches
  <2>2. \A b : Pos(b)' = Pos(b)
    BY <1>1 DEF Pos
  <2>3. \A i : Chain(i)' = Chain(i)
    BY <1>1, SameTree
  <2>4. \A x, y : Between(x, y)' = Between(x, y)
    BY <1>1 DEF Between, Chain, Closure, N, Pos
  <2>5. \A x, y : Passed(y, x)' <=> Passed(y, x)
    BY <1>1, <2>1, <2>4 DEF Passed, Between, Chain, Closure, N, Pos, Fanouts, Reversed
  <2>6. ASSUME c \in Block PROVE BranchInWork(todo, control, targets, start, end, deps)'
    <3>1. BranchInWork(td, c, T, st, en, D)
      BY <2>6 DEF Progress
    <3>2. Pos(start)' = Pos(st) /\ Pos(control)' = Pos(c) /\ Chain(Pos(start))' = Chain(Pos(st))
      BY <1>1 DEF Chain, Closure, N, Pos
    <3>3. \A y : Between(control, y)' = Between(c, y)
      BY <1>1 DEF Between, Chain, Closure, N, Pos
    <3>4. Between(control, start)' = Between(c, st)
      BY <1>1 DEF Between, Chain, Closure, N, Pos
    <3>5. \A y : Chain(Pos(y))' = Chain(Pos(y))
      BY <1>1 DEF Chain, Closure, N, Pos
    <3> QED BY <1>1, <2>1, <2>2, <3>1, <3>2, <3>3, <3>4, <3>5 DEF BranchInWork
  <2>7. ASSUME c = Entry PROVE EntryInWork(todo, targets, start, end, deps)'
    <3>1. EntryInWork(td, T, st, en, D)
      BY <2>7 DEF Progress
    <3>2. Chain(Pos(start))' = Chain(Pos(st)) /\ Chain(Pos(Start))' = Chain(Pos(Start))
      BY <1>1 DEF Chain, Closure, N, Pos
    <3> QED BY <1>1, <2>2, <3>1, <3>2 DEF EntryInWork
  <2> QED BY <2>1, <2>5, <2>6, <2>7 DEF Progress
<1> QED BY <1>1, <1>2, <1>3 DEF ControlInv

LEMMA ControlInvInit ==
  ASSUME ControlAssumption, InitControl
  PROVE  ControlInv
<1>1. DominatorsInv
  BY DominatorsInvInit DEF ControlAssumption, InitControl
<1>2. phase # "done"
  BY DEF InitControl, InitDominators
<1> QED BY <1>1, <1>2 DEF ControlInv, InitControl

LEMMA TreeStep ==
  ASSUME ControlAssumption, ControlInv, PostDominatorTree
  PROVE  ControlInv'
<1>1. DominatorsInv'
  BY DominatorsInvStep DEF ControlAssumption, ControlInv, PostDominatorTree
<1>2. phase # "done" /\ UNCHANGED <<todo, control, targets, start, end, deps>> /\ next' = next
  BY DEF PostDominatorTree, own, NextDominators, Visit, Leave, RootIdom, Pass, SkipRoot, Begin,
         Unvisited, First, Further, Climb, Met, End, Done
<1>3. /\ todo = Branches(Fanouts) /\ control = NoBlock /\ targets = {}
      /\ start = NoBlock /\ end = NoBlock /\ deps = {}
  BY <1>2 DEF ControlInv
<1>4. Branches(Fanouts)' = Branches(Fanouts)
  BY <1>2 DEF Branches, Fanouts, Reversed
<1>5. Entry # NoBlock /\ NoBlock \notin Block
  BY DEF ControlAssumption
<1>6. Progress(todo, control, targets, start, end, deps)'
  BY <1>2, <1>3, <1>4, <1>5 DEF Progress
<1> QED BY <1>1, <1>2, <1>3, <1>4, <1>6 DEF ControlInv

LEMMA BranchFacts ==
  ASSUME ControlAssumption, TreeDone, NEW b \in Branches(Fanouts)
  PROVE  b \in Block /\ b # Exit /\ b # Entry /\ b # NoBlock
<1>1. next \in Graphs /\ DominatorsAssumption
  BY TreeFacts
<1>2. Exit \in Block /\ Fanouts[Exit] = {}
  BY <1>1, FanoutFacts
<1>3. b \in Block /\ Cardinality(Fanouts[b]) > 1
  BY DEF Branches
<1>4. Cardinality(Fanouts[Exit]) = 0
  BY <1>2, FS_EmptySet
<1> QED BY <1>3, <1>4 DEF ControlAssumption

\* get_idom() of a block below the root is its idom.
LEMMA IdomFacts ==
  ASSUME ControlAssumption, TreeDone, NEW b \in Block, b # Exit
  PROVE  /\ get_idom(b) = order[idom[Pos(b)]] /\ get_idom(b) \in Block
         /\ Pos(get_idom(b)) = idom[Pos(b)]
<1>1. /\ N \in Nat /\ Pos(b) \in 1..N /\ \A i \in 1..N : idom[i] \in 1..N
      /\ \A i \in 1..N : order[i] \in Block /\ Pos(order[i]) = i
  BY TreeFacts
<1>2. get_idom(b) = order[idom[Pos(b)]]
  BY DEF get_idom
<1> QED BY <1>1, <1>2

LEMMA BranchStep ==
  ASSUME ControlAssumption, ControlInv, phase = "done", UNCHANGED dominator_vars, NEW b \in Block, Branch(b)
  PROVE  ControlInv'
<1>1. /\ control = NoBlock /\ todo # {} /\ b = Min(todo)
      /\ todo' = todo \ {b} /\ control' = b /\ targets' = Fanouts[b]
      /\ end' = get_idom(b) /\ start' = get_idom(b) /\ deps' = deps
  BY DEF Branch, Until
<1>2. TreeDone /\ DominatorsInv /\ Progress(todo, control, targets, start, end, deps)
  BY DEF ControlInv, TreeDone
<1>3. todo \subseteq Branches(Fanouts) /\ Branches(Fanouts) \subseteq Block
  BY <1>2 DEF Progress, Branches
<1>4. b \in todo
  <2>1. todo \in SUBSET Nat
    BY <1>3 DEF ControlAssumption
  <2>2. \E m \in todo : \A n \in todo : m <= n
    BY <1>1, <2>1, Least
  <2> QED BY <1>1, <2>2 DEF Min
<1>5. b \in Block /\ b # Exit /\ b # Entry /\ b # NoBlock
  BY <1>2, <1>3, <1>4, BranchFacts
<1> DEFINE e == get_idom(b)
<1>6. /\ e = order[idom[Pos(b)]] /\ e \in Block /\ Pos(e) = idom[Pos(b)]
      /\ idom[Pos(b)] \in Chain(Pos(e))
  <2>1. Pos(b) \in 1..N /\ idom[Pos(b)] \in 1..N /\ idom[Pos(b)] \in Chain(idom[Pos(b)])
    BY <1>2, <1>5, TreeFacts
  <2> QED BY <1>2, <1>5, <2>1, IdomFacts
<1>7. Fanouts[b] \subseteq Block
  BY <1>2, <1>5, FanoutFacts DEF TreeDone, DominatorsInv
<1> HIDE DEF e
<1>8. BranchInWork(todo \ {b}, b, Fanouts[b], e, e, deps)
  BY <1>6 DEF BranchInWork
<1>9. Progress(todo \ {b}, b, Fanouts[b], e, e, deps)
  <2>1. \A x \in Branches(Fanouts) \ (todo \ {b}) :
          x # b => \A y \in Block : Passed(y, x) => <<y, x>> \in deps
    <3>1. \A x \in Branches(Fanouts) : x # NoBlock
      BY <1>2, BranchFacts
    <3> QED BY <1>1, <1>2, <3>1 DEF Progress
  <2>2. /\ deps \subseteq Block \X (Block \cup {Entry})
        /\ \A x, y \in Block : <<y, x>> \in deps => Passed(y, x)
    BY <1>2 DEF Progress
  <2> QED BY <1>3, <1>4, <1>5, <1>7, <1>8, <2>1, <2>2 DEF Progress
<1> QED BY <1>1, <1>2, <1>9, SameProgress DEF e

LEMMA EdgeStep ==
  ASSUME ControlAssumption, ControlInv, phase = "done", UNCHANGED dominator_vars, NEW t \in Block, Edge(t)
  PROVE  ControlInv'
<1>1. /\ control # NoBlock /\ start = end /\ t \in targets
      /\ start' = t /\ targets' = targets \ {t}
      /\ UNCHANGED <<todo, control, end, deps>>
  BY DEF Edge, More, From
<1>2. TreeDone /\ DominatorsInv /\ Progress(todo, control, targets, start, end, deps)
  BY DEF ControlInv, TreeDone
<1>3. control \in Block
  BY <1>1, <1>2 DEF Progress, EntryInWork, Branches
<1>4. BranchInWork(todo, control, targets, start, end, deps)
  BY <1>2, <1>3 DEF Progress
<1>5. control # Exit /\ control # Entry /\ control \in Branches(Fanouts)
  BY <1>2, <1>3, BranchFacts DEF Progress, ControlAssumption
<1>6. Between(control, start) = {}
  <2>1. Pos(control) \in 1..N /\ idom[Pos(control)] \in 1..N /\ Pos(end) = idom[Pos(control)]
    BY <1>2, <1>3, <1>4, TreeFacts DEF BranchInWork
  <2> QED BY <1>1, <2>1 DEF Between
<1>7. t \in Fanouts[control]
  BY <1>1, <1>4 DEF BranchInWork
<1>8. idom[Pos(control)] \in Chain(Pos(t)) /\ Pos(t) \in Chain(Pos(t))
  BY <1>2, <1>3, <1>5, <1>7, TargetFacts, TreeFacts
<1>9. BranchInWork(todo, control, targets \ {t}, t, end, deps)
  <2>1. ASSUME NEW s \in Fanouts[control] \ (targets \ {t}), NEW y \in Block, Pos(y) \in Between(control, s)
        PROVE  <<y, control>> \in deps \/ Pos(y) \in Between(control, t)
    BY <1>4, <1>6, <2>1 DEF BranchInWork
  <2> QED BY <1>4, <1>7, <1>8, <2>1 DEF BranchInWork
<1>10. Progress(todo, control, targets \ {t}, t, end, deps)
  BY <1>1, <1>2, <1>5, <1>9 DEF Progress
<1> QED BY <1>1, <1>2, <1>10, SameProgress

LEMMA EndBranchStep ==
  ASSUME ControlAssumption, ControlInv, phase = "done", UNCHANGED dominator_vars, EndBranch
  PROVE  ControlInv'
<1>1. /\ control # NoBlock /\ control # Entry /\ start = end /\ targets = {}
      /\ control' = NoBlock /\ start' = NoBlock /\ end' = NoBlock
      /\ UNCHANGED <<todo, targets, deps>>
  BY DEF EndBranch, More
<1>2. TreeDone /\ DominatorsInv /\ Progress(todo, control, targets, start, end, deps)
  BY DEF ControlInv, TreeDone
<1>3. control \in Block
  BY <1>1, <1>2 DEF Progress, Branches
<1>4. BranchInWork(todo, control, targets, start, end, deps)
  BY <1>2, <1>3 DEF Progress
<1>5. Between(control, start) = {}
  <2>1. Pos(control) \in 1..N /\ idom[Pos(control)] \in 1..N /\ Pos(end) = idom[Pos(control)]
    BY <1>2, <1>3, <1>4, TreeFacts DEF BranchInWork
  <2> QED BY <1>1, <2>1 DEF Between
<1>6. ASSUME NEW y \in Block, Passed(y, control) PROVE <<y, control>> \in deps
  <2>1. PICK s \in Fanouts[control] : Pos(y) \in Between(control, s)
    BY <1>6 DEF Passed
  <2> QED BY <1>1, <1>4, <1>5, <2>1 DEF BranchInWork
<1>7. NoBlock \notin Block /\ Entry # NoBlock
  BY DEF ControlAssumption
<1>8. \A x \in Branches(Fanouts) \ todo : x # NoBlock => \A y \in Block : Passed(y, x) => <<y, x>> \in deps
  BY <1>2, <1>6 DEF Progress
<1>9. Progress(todo, NoBlock, targets, NoBlock, NoBlock, deps)
  BY <1>1, <1>2, <1>7, <1>8 DEF Progress
<1> QED BY <1>1, <1>2, <1>9, SameProgress

LEMMA EntryStep ==
  ASSUME ControlAssumption, ControlInv, phase = "done", UNCHANGED dominator_vars, EntryEdges
  PROVE  ControlInv'
<1>1. /\ control = NoBlock /\ todo = {}
      /\ control' = Entry /\ start' = Start /\ end' = NoBlock
      /\ UNCHANGED <<todo, targets, deps>>
  BY DEF EntryEdges, EntryEnd
<1>2. TreeDone /\ DominatorsInv /\ Progress(todo, control, targets, start, end, deps)
  BY DEF ControlInv, TreeDone
<1>3. NoBlock \notin Block /\ Entry # NoBlock /\ Entry \notin Block /\ Start \in Block
  BY DEF ControlAssumption
<1>4. EntryInWork(todo, targets, Start, NoBlock, deps)
  BY <1>1, <1>2, <1>3 DEF EntryInWork, Progress
<1>5. Progress(todo, Entry, targets, Start, NoBlock, deps)
  BY <1>1, <1>2, <1>3, <1>4, BranchFacts DEF Progress
<1> QED BY <1>1, <1>2, <1>5, SameProgress

\* One block more up the tree for the branch in work ...
LEMMA BranchWalkStep ==
  ASSUME ControlAssumption, ControlInv, phase = "done", UNCHANGED dominator_vars, Walk, control \in Block
  PROVE  ControlInv'
<1>1. /\ start # end /\ start' = get_idom(start) /\ deps' = deps \cup {<<start, control>>}
      /\ UNCHANGED <<todo, control, targets, end>>
  BY DEF Walk, More
<1>2. TreeDone /\ DominatorsInv /\ Progress(todo, control, targets, start, end, deps)
  BY DEF ControlInv, TreeDone
<1>3. BranchInWork(todo, control, targets, start, end, deps)
  BY <1>2 DEF Progress
<1>4. control # Exit /\ control # Entry /\ control \in Branches(Fanouts)
  BY <1>2, BranchFacts DEF Progress, ControlAssumption
<1>5. /\ N \in Nat /\ N > 0
      /\ \A b \in Block : Pos(b) \in 1..N /\ order[Pos(b)] = b
      /\ \A i \in 1..N : order[i] \in Block /\ Pos(order[i]) = i
      /\ \A i \in 1..N : idom[i] \in 1..N /\ Chain(i) \subseteq 1..N /\ i \in Chain(i)
      /\ \A i \in 1..N : \A k \in Chain(i) : k >= i /\ idom[k] \in Chain(i)
      /\ \A i \in 1..(N - 1) : Chain(i) = {i} \cup Chain(idom[i])
      /\ \A b \in Block : b # Exit => Pos(b) \in 1..(N - 1)
      /\ Pos(Exit) = N /\ Chain(N) = {N}
  BY <1>2, TreeFacts
<1>6. start \in Block /\ end = order[idom[Pos(control)]] /\ end \in Block /\ Pos(end) = idom[Pos(control)]
  BY <1>3, <1>5 DEF BranchInWork
<1>7. Pos(end) \in Chain(Pos(start)) /\ Pos(end) # Pos(start)
  <2>1. idom[Pos(control)] \in Chain(Pos(start))
    BY <1>3 DEF BranchInWork
  <2>2. order[Pos(end)] # order[Pos(start)]
    BY <1>1, <1>5, <1>6
  <2> QED BY <1>6, <2>1, <2>2
<1>8. start # Exit
  BY <1>5, <1>6, <1>7
<1> DEFINE u == get_idom(start)
           D == deps \cup {<<start, control>>}
<1>9. u \in Block /\ Pos(u) = idom[Pos(start)]
  BY <1>2, <1>6, <1>8, IdomFacts
<1>10. PICK s \in Fanouts[control] : Pos(start) \in Chain(Pos(s))
  BY <1>1, <1>3 DEF BranchInWork
<1>11. s \in Block
  BY <1>2, <1>4, <1>10, TargetFacts
<1>12. Chain(Pos(start)) = {Pos(start)} \cup Chain(Pos(u))
  BY <1>5, <1>6, <1>8, <1>9
<1>13. Pos(u) \in Chain(Pos(s))
  BY <1>5, <1>9, <1>10, <1>11
<1>14. Passed(start, control)
  <2>1. Pos(start) \notin Chain(Pos(end))
    <3>1. Pos(end) >= Pos(start)
      BY <1>5, <1>6, <1>7
    <3>2. Pos(end) \in 1..N /\ Pos(start) \in 1..N /\ Pos(start) < Pos(end)
      BY <1>5, <1>6, <1>7, <3>1
    <3>3. \A k \in Chain(Pos(end)) : k >= Pos(end)
      BY <1>5, <1>6
    <3>4. ASSUME Pos(start) \in Chain(Pos(end)) PROVE FALSE
      <4>1. Pos(start) >= Pos(end)
        BY <3>3, <3>4
      <4> QED BY <3>2, <4>1
    <3> QED BY <3>4
  <2> QED BY <1>6, <1>10, <2>1 DEF Passed, Between
<1> HIDE DEF u, D
<1>15. BranchInWork(todo, control, targets, u, end, D)
  <2>1. ASSUME NEW r \in Fanouts[control] \ targets, NEW y \in Block, Pos(y) \in Between(control, r)
        PROVE  <<y, control>> \in D \/ Pos(y) \in Between(control, u)
    <3>1. <<y, control>> \in deps \/ Pos(y) \in Between(control, start)
      BY <1>3, <2>1 DEF BranchInWork
    <3>2. CASE <<y, control>> \in deps
      BY <3>2 DEF D
    <3>3. CASE Pos(y) = Pos(start)
      <4>1. y = start
        BY <1>5, <1>6, <3>3
      <4> QED BY <4>1 DEF D
    <3>4. CASE Pos(y) \in Between(control, start) /\ Pos(y) # Pos(start)
      BY <1>12, <3>4 DEF Between
    <3> QED BY <3>1, <3>2, <3>3, <3>4
  <2>2. Pos(end) \in Chain(Pos(u))
    BY <1>7, <1>12
  <2> QED BY <1>3, <1>6, <1>9, <1>13, <2>1, <2>2 DEF BranchInWork
<1>16. Progress(todo, control, targets, u, end, D)
  <2>1. D \subseteq Block \X (Block \cup {Entry})
    BY <1>2, <1>6 DEF Progress, D
  <2>2. ASSUME NEW x \in Block, NEW y \in Block, <<y, x>> \in D PROVE Passed(y, x)
    <3>1. <<y, x>> \in deps \/ (y = start /\ x = control)
      BY <2>2 DEF D
    <3> QED BY <1>2, <1>14, <3>1 DEF Progress
  <2>3. \A x \in Branches(Fanouts) \ todo : x # control => \A y \in Block : Passed(y, x) => <<y, x>> \in D
    BY <1>2 DEF Progress, D
  <2>4. control # NoBlock
    BY DEF ControlAssumption
  <2> QED BY <1>2, <1>4, <1>15, <2>1, <2>2, <2>3, <2>4 DEF Progress
<1> QED BY <1>1, <1>2, <1>16, SameProgress DEF u, D

\* ... or for the entry.
LEMMA EntryWalkStep ==
  ASSUME ControlAssumption, ControlInv, phase = "done", UNCHANGED dominator_vars, Walk, control = Entry
  PROVE  ControlInv'
<1>1. /\ start # end /\ start # NoBlock /\ start' = get_idom(start) /\ deps' = deps \cup {<<start, control>>}
      /\ UNCHANGED <<todo, control, targets, end>>
  BY DEF Walk, More
<1>2. TreeDone /\ DominatorsInv /\ Progress(todo, control, targets, start, end, deps)
  BY DEF ControlInv, TreeDone
<1>3. EntryInWork(todo, targets, start, end, deps)
  BY <1>2 DEF Progress
<1>4. NoBlock \notin Block /\ Entry # NoBlock /\ Entry \notin Block /\ Start \in Block
  BY DEF ControlAssumption
<1>5. start \in Block
  BY <1>1, <1>3 DEF EntryInWork
<1>6. /\ N \in Nat /\ N > 0
      /\ \A b \in Block : Pos(b) \in 1..N /\ order[Pos(b)] = b
      /\ \A i \in 1..(N - 1) : Chain(i) = {i} \cup Chain(idom[i])
      /\ \A b \in Block : b # Exit => Pos(b) \in 1..(N - 1)
      /\ Pos(Exit) = N /\ Chain(N) = {N}
  BY <1>2, TreeFacts
<1> DEFINE u == get_idom(start)
           D == deps \cup {<<start, Entry>>}
<1>7. u = NoBlock \/ u \in Block
  BY <1>2, <1>5, IdomFacts DEF get_idom
<1>8. ASSUME NEW y \in Block, Pos(y) \in Chain(Pos(start))
      PROVE  <<y, Entry>> \in D \/ (u \in Block /\ Pos(y) \in Chain(Pos(u)))
  <2>1. CASE Pos(y) = Pos(start)
    <3>1. y = start
      BY <1>5, <1>6, <2>1
    <3> QED BY <3>1
  <2>2. CASE Pos(y) # Pos(start)
    <3>1. start # Exit
      BY <1>6, <1>8, <2>2
    <3>2. u \in Block /\ Pos(u) = idom[Pos(start)]
      BY <1>2, <1>5, <3>1, IdomFacts
    <3> QED BY <1>5, <1>6, <1>8, <2>2, <3>1, <3>2
  <2> QED BY <2>1, <2>2
<1>9. deps \subseteq D /\ D \subseteq Block \X (Block \cup {Entry})
  BY <1>2, <1>5 DEF Progress
<1>10. \A x, y \in Block : <<y, x>> \in D => <<y, x>> \in deps
  BY <1>4
<1> HIDE DEF u, D
<1>11. EntryInWork(todo, targets, u, end, D)
  BY <1>3, <1>7, <1>8, <1>9 DEF EntryInWork
<1>12. Progress(todo, Entry, targets, u, end, D)
  <2>1. /\ todo \subseteq Branches(Fanouts) /\ targets \subseteq Block
        /\ \A x, y \in Block : <<y, x>> \in D => Passed(y, x)
    BY <1>2, <1>10 DEF Progress
  <2>2. \A x \in Branches(Fanouts) \ todo : x # Entry => \A y \in Block : Passed(y, x) => <<y, x>> \in D
    BY <1>2, <1>9 DEF Progress
  <2> QED BY <1>4, <1>9, <1>11, <2>1, <2>2 DEF Progress
<1>13. start' = u /\ deps' = D /\ control' = Entry
  BY <1>1 DEF u, D
<1> QED BY <1>1, <1>2, <1>12, <1>13, SameProgress

LEMMA ControlInvStep ==
  ASSUME ControlAssumption, ControlInv, [NextControl]_control_vars
  PROVE  ControlInv'
<1>1. CASE PostDominatorTree
  BY <1>1, TreeStep
<1>2. CASE phase = "done" /\ ControlEdges /\ UNCHANGED dominator_vars
  <2>1. ASSUME Walk PROVE ControlInv'
    <3>1. control \in Block \/ control = Entry
      BY <1>2, <2>1 DEF ControlInv, Progress, Walk, Branches
    <3> QED BY <1>2, <2>1, <3>1, BranchWalkStep, EntryWalkStep
  <2> QED BY <1>2, <2>1, BranchStep, EdgeStep, EndBranchStep, EntryStep DEF ControlEdges
<1>3. CASE UNCHANGED control_vars
  <2>1. UNCHANGED dominator_vars /\ UNCHANGED <<todo, control, targets, start, end, deps>>
    BY <1>3 DEF control_vars, own
  <2>2. CASE phase = "done"
    BY <2>1, <2>2, SameProgress DEF ControlInv
  <2>3. CASE phase # "done"
    <3>1. DominatorsInv'
      BY <2>1, DominatorsInvStep DEF ControlInv, ControlAssumption
    <3>2. phase' = phase /\ Branches(Fanouts)' = Branches(Fanouts)
      BY <2>1 DEF dominator_vars, Branches, Fanouts, Reversed
    <3> QED BY <2>1, <2>3, <3>1, <3>2 DEF ControlInv
  <2> QED BY <2>2, <2>3
<1> QED BY <1>1, <1>2, <1>3 DEF NextControl

\* Every block hangs below the entry: the blocks on which b depends would otherwise be
\* avoided by all the paths from the start block.
LEMMA DependsOnEntry ==
  ASSUME ControlAssumption, TreeDone, deps \subseteq Block \X (Block \cup {Entry}),
         ControlDependencies \subseteq deps,
         \A y \in Block : Dominates(y, Start) => <<y, Entry>> \in deps,
         NEW b \in Block
  PROVE  \E x \in Closure(Depends, {b}) : <<x, Entry>> \in deps
<1> DEFINE C == Closure(Depends, {b})
           T == {z \in Block : \A c \in C : ~ Dominates(c, z)}
<1>1. /\ N \in Nat /\ next \in Graphs /\ DominatorsAssumption
      /\ \A i \in 1..N : Chain(i) = Dom(i)
      /\ \A a \in Block : Pos(a) \in 1..N /\ order[Pos(a)] = a
      /\ \A i \in 1..(N - 1) : i \notin Chain(idom[i])
  BY TreeFacts
<1>2. /\ Fanouts \in [Block -> SUBSET Block] /\ Start \in Block
      /\ Reach(Fanouts, Start, {}) = Block
  BY <1>1, FanoutFacts
<1>3. \A a \in Block : Dominates(a, a)
  BY <1>1, DominanceFacts
<1>4. Depends \in [Block -> SUBSET Block]
  <2>1. \A a \in Block : {d[2] : d \in {e \in deps : e[1] = a}} \ {Entry} \subseteq Block
    <3> TAKE a \in Block
    <3>1. ASSUME NEW x \in {d[2] : d \in {e \in deps : e[1] = a}} \ {Entry} PROVE x \in Block
      <4>1. PICK d \in deps : x = d[2] /\ x # Entry
        BY <3>1
      <4> QED BY <4>1
    <3> QED BY <3>1
  <2> QED BY <2>1 DEF Depends
<1>5. b \in C /\ C \subseteq Block /\ \A x \in C : Depends[x] \subseteq C
  <2>1. IsFiniteSet(Block) /\ Cardinality(Block) <= N /\ {b} \in SUBSET Block
    BY <1>1 DEF N, DominatorsAssumption
  <2> QED BY <1>1, <1>4, <2>1, ClosureLeast
<1>6. \A x, y \in Block : <<y, x>> \in ControlDependencies => x \in Depends[y]
  <2> TAKE x, y \in Block
  <2> SUFFICES ASSUME <<y, x>> \in ControlDependencies PROVE x \in Depends[y]
    OBVIOUS
  <2>1. x # Entry
    BY DEF ControlAssumption
  <2> DEFINE d == <<y, x>>
  <2>2. d \in {e \in deps : e[1] = y} /\ d[2] = x
    OBVIOUS
  <2>3. x \in {f[2] : f \in {e \in deps : e[1] = y}}
    BY <2>2
  <2> QED BY <2>1, <2>3 DEF Depends
<1> SUFFICES ASSUME \A x \in C : <<x, Entry>> \notin deps PROVE FALSE
  OBVIOUS
<1> HIDE DEF C
<1>7. Start \in T
  BY <1>2, <1>5
<1>8. ASSUME NEW z \in T, NEW s \in Fanouts[z] PROVE s \in T
  <2>1. s \in Block /\ z \in Block /\ \A c \in C : ~ Dominates(c, z)
    BY <1>2
  <2>2. ASSUME NEW c \in C, Dominates(c, s) PROVE FALSE
    <3>1. c \in Block
      BY <1>5
    <3>2. z # Exit
      BY <1>1, <1>8, <2>1, FanoutFacts
    <3>3. Pos(c) \in Chain(Pos(s)) /\ Pos(c) \notin Chain(Pos(z))
      BY <1>1, <2>1, <2>2, <3>1 DEF Dom
    <3>4. Chain(Pos(z)) = {Pos(z)} \cup Chain(idom[Pos(z)])
      BY <2>1, <3>2, TreeFacts
    <3>5. Pos(c) \in Between(z, s)
      BY <3>3, <3>4 DEF Between
    <3>6. <<c, z>> \in ControlDependencies
      BY <1>8, <2>1, <3>1, <3>5, DependenceInTree
    <3>7. z \in C
      BY <1>5, <1>6, <2>1, <2>2, <3>1, <3>6
    <3> QED BY <1>3, <2>1, <3>7
  <2> QED BY <2>1, <2>2
<1>9. (Start \notin {} => Start \in T) /\ \A z \in T \cap Block : \A s \in Fanouts[z] : s \notin {} => s \in T
  BY <1>7, <1>8
<1>10. b \notin T
  BY <1>3, <1>5
<1> HIDE DEF T
<1>11. Reach(Fanouts, Start, {}) \subseteq T
  BY <1>1, <1>2, <1>9, ReachLeast
<1> QED BY <1>2, <1>10, <1>11

LEMMA FerranteFromInv ==
  ASSUME ControlAssumption, ControlInv
  PROVE  IsFerrante
<1> SUFFICES ASSUME Added
             PROVE  /\ {d \in deps : d[2] # Entry} = ControlDependencies
                    /\ \A b \in Block : \E x \in Closure(Depends, {b}) : <<x, Entry>> \in deps
  BY DEF IsFerrante
<1>1. control = Entry /\ start = end
  BY DEF Added, More
<1>2. NoBlock \notin Block /\ Entry # NoBlock /\ Entry \notin Block /\ Start \in Block
  BY DEF ControlAssumption
<1>3. TreeDone /\ Progress(todo, control, targets, start, end, deps)
  BY <1>1, <1>2 DEF ControlInv, TreeDone
<1>4. EntryInWork(todo, targets, start, end, deps)
  BY <1>1, <1>3 DEF Progress
<1>5. todo = {} /\ start = NoBlock
  BY <1>1, <1>4 DEF EntryInWork
<1>6. deps \subseteq Block \X (Block \cup {Entry})
  BY <1>3 DEF Progress
<1>7. ASSUME NEW x \in Block, NEW y \in Block
      PROVE  <<y, x>> \in deps <=> <<y, x>> \in ControlDependencies
  <2>1. <<y, x>> \in ControlDependencies <=> Passed(y, x)
    BY <1>3, DependenceInTree DEF Passed
  <2>2. <<y, x>> \in deps => Passed(y, x)
    BY <1>3 DEF Progress
  <2>3. ASSUME Passed(y, x) PROVE <<y, x>> \in deps
    <3>1. x \in Branches(Fanouts)
      BY <1>3, <2>3, OnlyBranches DEF Passed
    <3> QED BY <1>1, <1>2, <1>3, <1>5, <2>3, <3>1 DEF Progress
  <2> QED BY <2>1, <2>2, <2>3
<1>8. ControlDependencies \subseteq Block \X Block
  BY DEF ControlDependencies
<1>9. ASSUME NEW d PROVE (d \in deps /\ d[2] # Entry) <=> d \in ControlDependencies
  <2>1. ASSUME d \in deps, d[2] # Entry PROVE d \in ControlDependencies
    <3>1. PICK y \in Block, x \in Block \cup {Entry} : d = <<y, x>>
      BY <1>6, <2>1
    <3> QED BY <1>7, <2>1, <3>1
  <2>2. ASSUME d \in ControlDependencies PROVE d \in deps /\ d[2] # Entry
    <3>1. PICK y \in Block, x \in Block : d = <<y, x>>
      BY <1>8, <2>2
    <3> QED BY <1>2, <1>7, <2>2, <3>1
  <2> QED BY <2>1, <2>2
<1>10. {d \in deps : d[2] # Entry} = ControlDependencies
  BY <1>9
<1>11. \A y \in Block : Dominates(y, Start) => <<y, Entry>> \in deps
  <2> TAKE y \in Block
  <2>1. Dominates(y, Start) => Pos(y) \in Chain(Pos(Start))
    BY <1>2, <1>3, TreeFacts DEF Dom
  <2> QED BY <1>2, <1>4, <1>5, <2>1 DEF EntryInWork
<1>12. ControlDependencies \subseteq deps
  BY <1>10
<1> QED BY <1>3, <1>6, <1>10, <1>11, <1>12, DependsOnEntry

LEMMA RootFromInv ==
  ASSUME ControlAssumption, ControlInv
  PROVE  NeverPastTheRoot /\ ControlTypeOK
<1>1. NoBlock \notin Block /\ Entry # NoBlock /\ Entry \notin Block
  BY DEF ControlAssumption
<1>2. DominatorsTypeOK /\ DominatorsInv /\ DominatorsAssumption
  BY DEF ControlInv, DominatorsInv, ControlAssumption
<1>3. CASE phase # "done"
  <2>1. /\ todo = Branches(Fanouts) /\ control = NoBlock /\ targets = {}
        /\ start = NoBlock /\ end = NoBlock /\ deps = {}
    BY <1>3 DEF ControlInv
  <2> QED BY <1>2, <2>1 DEF NeverPastTheRoot, ControlTypeOK, Branches
<1>4. CASE phase = "done"
  <2>1. TreeDone /\ Progress(todo, control, targets, start, end, deps)
    BY <1>4 DEF ControlInv, TreeDone
  <2>2. control \in Block => start \in Block /\ end \in Block
    <3>1. ASSUME control \in Block PROVE Pos(control) \in 1..N /\ idom[Pos(control)] \in 1..N
      BY <2>1, <3>1, TreeFacts
    <3>2. ASSUME control \in Block PROVE end = order[idom[Pos(control)]] /\ start \in Block
      BY <2>1, <3>2 DEF Progress, BranchInWork
    <3> QED BY <2>1, <3>1, <3>2, TreeFacts
  <2>3. control = Entry => end = NoBlock /\ start \in Block \cup {NoBlock}
    BY <2>1 DEF Progress, EntryInWork
  <2>4. control = NoBlock => end = NoBlock /\ start = NoBlock
    BY <2>1 DEF Progress
  <2>5. control \in Block \/ control = Entry \/ control = NoBlock
    BY <2>1 DEF Progress, Branches
  <2> QED BY <1>1, <1>2, <2>1, <2>2, <2>3, <2>4, <2>5 DEF NeverPastTheRoot, ControlTypeOK, Progress, Branches
<1> QED BY <1>3, <1>4

----------------------------------------------------------------------------
(* The theorems.                                                           *)

\* At no point does compute_idoms() read an idom that is not there: each block has a
\* predecessor that was visited, and common_predecessor() climbs to where it meets.
THEOREM LookupsCorrect ==
  ASSUME DominatorsAssumption
  PROVE  SpecDominators => [](PredecessorVisited /\ Climbs)
<1>1. InitDominators => DominatorsInv
  BY DominatorsInvInit
<1>2. DominatorsInv /\ [NextDominators]_dominator_vars => DominatorsInv'
  BY DominatorsInvStep
<1>3. DominatorsInv => PredecessorVisited /\ Climbs
  BY LookupsFromInv
<1> QED BY <1>1, <1>2, <1>3, PTL DEF SpecDominators

\* The tree of compute_idoms() is dominance: for every control flow graph, every order
\* in which the fanouts are visited and every order of the predecessors.
THEOREM DominatorTreeCorrect ==
  ASSUME DominatorsAssumption
  PROVE  SpecDominators => []TreeIsDominance
<1>1. InitDominators => DominatorsInv
  BY DominatorsInvInit
<1>2. DominatorsInv /\ [NextDominators]_dominator_vars => DominatorsInv'
  BY DominatorsInvStep
<1>3. DominatorsInv => TreeIsDominance
  BY TreeFromInv
<1> QED BY <1>1, <1>2, <1>3, PTL DEF SpecDominators

\* The edges that create_pdg() adds are the control dependence relation of the
\* definition its comment quotes, and every block hangs below the entry node; on the
\* way the walks never leave the tree.
THEOREM ControlDependenceCorrect ==
  ASSUME ControlAssumption
  PROVE  SpecControl => [](IsFerrante /\ TreeIsDominance /\ NeverPastTheRoot /\ ControlTypeOK)
<1>1. InitControl => ControlInv
  BY ControlInvInit
<1>2. ControlInv /\ [NextControl]_control_vars => ControlInv'
  BY ControlInvStep
<1>3. ControlInv => IsFerrante /\ TreeIsDominance /\ NeverPastTheRoot /\ ControlTypeOK
  BY FerranteFromInv, RootFromInv, TreeFromInv DEF ControlInv, ControlAssumption
<1> QED BY <1>1, <1>2, <1>3, PTL DEF SpecControl

----------------------------------------------------------------------------
(* The blocks of a function: update_blocks().                              *)

LEMMA ReachableLeast ==
  ASSUME NEW r, NEW A \in SUBSET AllBlocks, \A b \in AllBlocks : r[b] \subseteq AllBlocks
  PROVE  /\ A \subseteq Reachable(r, A) /\ Reachable(r, A) \subseteq AllBlocks
         /\ \A b \in Reachable(r, A) : r[b] \subseteq Reachable(r, A)
         /\ \A T \in SUBSET AllBlocks :
              A \subseteq T /\ (\A b \in T : r[b] \subseteq T) => Reachable(r, A) \subseteq T
  BY DEF Reachable

\* A larger relation reaches more.
LEMMA ReachableGrows ==
  ASSUME NEW r, NEW s, NEW A \in SUBSET AllBlocks,
         \A b \in AllBlocks : r[b] \subseteq s[b] /\ s[b] \subseteq AllBlocks
  PROVE  Reachable(r, A) \subseteq Reachable(s, A)
<1> DEFINE T == Reachable(s, A)
<1>1. (\A b \in AllBlocks : r[b] \subseteq AllBlocks) /\ (\A b \in AllBlocks : s[b] \subseteq AllBlocks)
  OBVIOUS
<1>2. T \in SUBSET AllBlocks /\ A \subseteq T /\ \A b \in T : s[b] \subseteq T
  BY <1>1, ReachableLeast
<1>3. \A b \in T : r[b] \subseteq T
  BY <1>2
<1> HIDE DEF T
<1>4. Reachable(r, A) \subseteq T
  BY <1>1, <1>2, <1>3, ReachableLeast
<1> QED BY <1>4 DEF T

\* The edges that the walk has followed, those among them that are not back edges, and
\* where they lead.
Explored(m, V, b, k) == m[b] = "PERM" \/ \E i \in 1..Len(V) : V[i].block = b /\ k < V[i].next
ForwardEdge(m, V, B, b, k) == k \in 1..Len(fanouts[b]) /\ Explored(m, V, b, k) /\ <<b, k>> \notin B
Walked(m, V, B) ==
  [b \in AllBlocks |-> {t \in AllBlocks : \E k \in Nat : ForwardEdge(m, V, B, b, k) /\ fanouts[b][k] = t}]

\* Each activation leads to the next, a block that was left leads to blocks that were left
\* before it, and the target of each back edge leads to where the edge comes from.
OneByOne(m, V, B) ==
  /\ \A i, j \in 1..Len(V) : V[i].block = V[j].block => i = j
  /\ \A b \in AllBlocks : m[b] = "TEMP" <=> \E i \in 1..Len(V) : V[i].block = b
  /\ \A i \in 1..Len(V) : V[i].next \in 1..(Len(fanouts[V[i].block]) + 1)
  /\ \A i \in 2..Len(V) : V[i].block \in Walked(m, V, B)[V[i - 1].block]
  /\ \A i \in 1..Len(V) : \A t \in Walked(m, V, B)[V[i].block] :
       m[t] = "PERM" \/ (i < Len(V) /\ t = V[i + 1].block)
NothingMissed(m, V) ==
  /\ StartBlock \in AllBlocks /\ m[StartBlock] # "NONE"
  /\ \A b \in AllBlocks : \A k \in 1..Len(fanouts[b]) : Explored(m, V, b, k) => m[fanouts[b][k]] # "NONE"
LeftInOrder(m, V, B) ==
  \E rank \in [AllBlocks -> Nat] : \E M \in Nat : \A b \in AllBlocks : m[b] = "PERM" =>
    rank[b] < M /\ \A t \in Walked(m, V, B)[b] : m[t] = "PERM" /\ rank[t] < rank[b]
Closes(m, V, B, b, k) ==
  k \in 1..Len(fanouts[b]) /\ Explored(m, V, b, k) /\ b \in Reachable(Walked(m, V, B), {fanouts[b][k]})
BackCloses(m, V, B) ==
  /\ B \subseteq AllBlocks \X Nat
  /\ \A b \in AllBlocks : \A k \in Nat : <<b, k>> \in B => Closes(m, V, B, b, k)

Activations == [block : AllBlocks, next : Nat]

VisitInv(m, V, B) ==
  /\ m \in [AllBlocks -> {"NONE", "TEMP", "PERM"}] /\ V \in Seq(Activations)
  /\ OneByOne(m, V, B) /\ NothingMissed(m, V) /\ LeftInOrder(m, V, B) /\ BackCloses(m, V, B)

FanoutsOK == fanouts \in [AllBlocks -> Seq(AllBlocks)]

LEMMA FanoutsFacts ==
  ASSUME FanoutsOK
  PROVE  \A b \in AllBlocks : /\ DOMAIN fanouts[b] = 1..Len(fanouts[b]) /\ Len(fanouts[b]) \in Nat
                              /\ \A k \in 1..Len(fanouts[b]) : fanouts[b][k] \in AllBlocks
<1>1. \A b \in AllBlocks : fanouts[b] \in Seq(AllBlocks)
  BY DEF FanoutsOK
<1> QED BY <1>1

LEMMA WalkedFacts ==
  ASSUME FanoutsOK, NEW m, NEW V, NEW B
  PROVE  /\ \A b \in AllBlocks : Walked(m, V, B)[b] \subseteq AllBlocks
         /\ \A b \in AllBlocks : \A t : t \in Walked(m, V, B)[b] <=>
              t \in AllBlocks /\ \E k \in Nat : ForwardEdge(m, V, B, b, k) /\ fanouts[b][k] = t
  BY DEF Walked

\* Where a followed edge leads to.
LEMMA Followed ==
  ASSUME FanoutsOK, NEW m, NEW V, NEW B, NEW b \in AllBlocks, NEW k \in Nat, ForwardEdge(m, V, B, b, k)
  PROVE  fanouts[b][k] \in Walked(m, V, B)[b]
<1>1. fanouts[b][k] \in AllBlocks
  BY FanoutsFacts DEF ForwardEdge
<1> QED BY <1>1, WalkedFacts

\* More edges are followed, none of the old ones is taken back.
LEMMA MoreWalked ==
  ASSUME FanoutsOK, NEW m, NEW V, NEW B, NEW l, NEW W, NEW C,
         \A b \in AllBlocks : \A k \in Nat : ForwardEdge(m, V, B, b, k) => ForwardEdge(l, W, C, b, k)
  PROVE  /\ \A b \in AllBlocks : Walked(m, V, B)[b] \subseteq Walked(l, W, C)[b]
         /\ \A A \in SUBSET AllBlocks : Reachable(Walked(m, V, B), A) \subseteq Reachable(Walked(l, W, C), A)
<1>1. ASSUME NEW b \in AllBlocks, NEW t \in Walked(m, V, B)[b] PROVE t \in Walked(l, W, C)[b]
  <2>1. PICK k \in Nat : ForwardEdge(m, V, B, b, k) /\ fanouts[b][k] = t
    BY WalkedFacts
  <2> QED BY <2>1, WalkedFacts
<1>2. \A A \in SUBSET AllBlocks : Reachable(Walked(m, V, B), A) \subseteq Reachable(Walked(l, W, C), A)
  <2> DEFINE r == Walked(m, V, B)
             q == Walked(l, W, C)
  <2>1. \A b \in AllBlocks : r[b] \subseteq q[b] /\ q[b] \subseteq AllBlocks
    BY <1>1, WalkedFacts
  <2> HIDE DEF r, q
  <2>2. \A A \in SUBSET AllBlocks : Reachable(r, A) \subseteq Reachable(q, A)
    BY <2>1, ReachableGrows
  <2> QED BY <2>2 DEF r, q
<1> QED BY <1>1, <1>2

EdgesKept(m, V, B, l, W, C) ==
  /\ \A b \in AllBlocks : \A k \in Nat : ForwardEdge(m, V, B, b, k) => ForwardEdge(l, W, C, b, k)
  /\ \A b \in AllBlocks : \A k \in 1..Len(fanouts[b]) : Explored(m, V, b, k) => Explored(l, W, b, k)

LEMMA StillCloses ==
  ASSUME FanoutsOK, NEW m, NEW V, NEW B, NEW l, NEW W, NEW C, EdgesKept(m, V, B, l, W, C)
  PROVE  \A b \in AllBlocks : \A k \in Nat : Closes(m, V, B, b, k) => Closes(l, W, C, b, k)
<1>1. \A A \in SUBSET AllBlocks : Reachable(Walked(m, V, B), A) \subseteq Reachable(Walked(l, W, C), A)
  BY MoreWalked DEF EdgesKept
<1> TAKE b \in AllBlocks
<1> TAKE k \in Nat
<1> HAVE Closes(m, V, B, b, k)
<1>2. k \in 1..Len(fanouts[b]) /\ Explored(m, V, b, k) /\ b \in Reachable(Walked(m, V, B), {fanouts[b][k]})
  BY DEF Closes
<1>3. {fanouts[b][k]} \in SUBSET AllBlocks
  BY <1>2, FanoutsFacts
<1>4. Explored(l, W, b, k)
  BY <1>2 DEF EdgesKept
<1>5. b \in Reachable(Walked(l, W, C), {fanouts[b][k]})
  BY ONLY <1>1, <1>2, <1>3
<1> QED BY ONLY <1>2, <1>4, <1>5 DEF Closes

\* A set that every followed edge stays in holds the path from each of its blocks on.
LEMMA PathStays ==
  ASSUME NEW m, NEW V, NEW B, Len(V) \in Nat, OneByOne(m, V, B), NEW R, NEW i \in 1..Len(V), V[i].block \in R,
         \A b \in R : Walked(m, V, B)[b] \subseteq R
  PROVE  \A j \in i..Len(V) : V[j].block \in R
<1> DEFINE S == {j \in i..Len(V) : V[j].block \notin R}
<1> SUFFICES ASSUME S # {} PROVE FALSE
  OBVIOUS
<1>1. S \in SUBSET Nat
  OBVIOUS
<1>2. PICK j \in S : \A l \in S : j <= l
  BY <1>1, Least
<1>3. j \in i..Len(V) /\ V[j].block \notin R /\ j # i
  OBVIOUS
<1>4. j - 1 \in i..Len(V) /\ j - 1 \notin S /\ j \in 2..Len(V)
  BY <1>2, <1>3
<1>5. V[j - 1].block \in R
  BY <1>4
<1>6. V[j].block \in Walked(m, V, B)[V[j - 1].block]
  BY <1>4 DEF OneByOne
<1> QED BY <1>3, <1>5, <1>6

LEMMA VisitFacts ==
  ASSUME FanoutsOK, NEW m, NEW V, NEW B, VisitInv(m, V, B)
  PROVE  /\ V \in Seq(Activations) /\ Len(V) \in Nat /\ m \in [AllBlocks -> {"NONE", "TEMP", "PERM"}]
         /\ \A i \in 1..Len(V) : /\ V[i] \in Activations /\ V[i].block \in AllBlocks /\ V[i].next \in Nat
                                 /\ V[i].next \in 1..(Len(fanouts[V[i].block]) + 1)
<1>1. V \in Seq(Activations) /\ Len(V) \in Nat /\ m \in [AllBlocks -> {"NONE", "TEMP", "PERM"}]
  BY DEF VisitInv
<1>2. \A i \in 1..Len(V) : V[i] \in Activations
  BY <1>1
<1>3. \A i \in 1..Len(V) : V[i].next \in 1..(Len(fanouts[V[i].block]) + 1)
  BY DEF VisitInv, OneByOne
<1>4. \A a \in Activations : a.block \in AllBlocks /\ a.next \in Nat
  BY DEF Activations
<1> QED BY <1>1, <1>2, <1>3, <1>4

\* V goes on to the next edge of its last activation, whose target is marked.
LEMMA ReturnVisit ==
  ASSUME FanoutsOK, NEW m, NEW V, NEW B, VisitInv(m, V, B), NEW n, n = Len(V), n > 0,
         NEW u, u = V[n].block, NEW k, k = V[n].next, k <= Len(fanouts[u]),
         NEW t, t = fanouts[u][k], m[t] # "NONE",
         NEW W, W \in Seq(Activations), Len(W) = n,
         \A i \in 1..n : W[i].block = V[i].block,
         \A i \in 1..n : W[i].next = IF i = n THEN k + 1 ELSE V[i].next,
         NEW C, C = IF m[t] = "TEMP" THEN B \cup {<<u, k>>} ELSE B
  PROVE  VisitInv(m, W, C)
<1>1. /\ n \in Nat /\ n > 0 /\ n \in 1..n /\ V \in Seq(Activations)
      /\ m \in [AllBlocks -> {"NONE", "TEMP", "PERM"}]
      /\ u \in AllBlocks /\ k \in Nat /\ k \in 1..Len(fanouts[u]) /\ t \in AllBlocks
      /\ \A i \in 1..n : V[i].block \in AllBlocks /\ V[i].next \in Nat
  <2>1. /\ n \in Nat /\ n > 0 /\ n \in 1..n /\ V \in Seq(Activations)
        /\ m \in [AllBlocks -> {"NONE", "TEMP", "PERM"}]
        /\ \A i \in 1..n : V[i].block \in AllBlocks /\ V[i].next \in Nat
        /\ k \in 1..(Len(fanouts[u]) + 1)
    BY VisitFacts
  <2>2. u \in AllBlocks /\ k \in Nat
    BY <2>1
  <2>3. Len(fanouts[u]) \in Nat /\ \A j \in 1..Len(fanouts[u]) : fanouts[u][j] \in AllBlocks
    BY <2>2, FanoutsFacts
  <2>4. k \in 1..Len(fanouts[u])
    BY <2>1, <2>2, <2>3
  <2> QED BY <2>1, <2>2, <2>3, <2>4
<1>2. /\ W \in Seq(Activations) /\ Len(W) = n
      /\ \A i \in 1..n : W[i].block = V[i].block
      /\ \A i \in 1..n : W[i].next = IF i = n THEN k + 1 ELSE V[i].next
  OBVIOUS
<1>o. OneByOne(m, V, B) /\ Len(V) = n
  BY DEF VisitInv
<1>3. V[n].block = u /\ V[n].next = k
  OBVIOUS
<1>i. \A i, j \in 1..n : V[i].block = V[j].block => i = j
  BY ONLY <1>o DEF OneByOne
<1>t. \A b \in AllBlocks : m[b] = "TEMP" <=> \E i \in 1..n : V[i].block = b
  BY ONLY <1>o DEF OneByOne
<1>x. \A i \in 1..n : V[i].next \in 1..(Len(fanouts[V[i].block]) + 1)
  BY ONLY <1>o DEF OneByOne
<1>p. \A i \in 2..n : V[i].block \in Walked(m, V, B)[V[i - 1].block]
  BY ONLY <1>o DEF OneByOne
<1>w. \A i \in 1..n : \A s \in Walked(m, V, B)[V[i].block] : m[s] = "PERM" \/ (i < n /\ s = V[i + 1].block)
  BY ONLY <1>o DEF OneByOne
<1>c. \A e : e \in C <=> e \in B \/ (e = <<u, k>> /\ m[t] = "TEMP")
  OBVIOUS
<1>4. m[u] = "TEMP"
  BY ONLY <1>1, <1>3, <1>t
<1>5. ASSUME NEW b \in AllBlocks, NEW j \in Nat
      PROVE  Explored(m, W, b, j) <=> Explored(m, V, b, j) \/ (b = u /\ j = k)
  <2>2. (\E i \in 1..n : W[i].block = b /\ j < W[i].next) <=>
        (\E i \in 1..n : V[i].block = b /\ j < V[i].next) \/ (b = u /\ j = k)
    <3>0. ASSUME NEW i \in 1..n PROVE W[i].block = V[i].block /\ W[i].next = IF i = n THEN k + 1 ELSE V[i].next
      BY ONLY <1>2, i \in 1..n
    <3>1. ASSUME NEW i \in 1..n, W[i].block = b, j < W[i].next
          PROVE  (V[i].block = b /\ j < V[i].next) \/ (b = u /\ j = k)
      BY ONLY <1>1, <1>3, <3>0, <3>1, j \in Nat
    <3>2. ASSUME NEW i \in 1..n, V[i].block = b, j < V[i].next PROVE W[i].block = b /\ j < W[i].next
      BY ONLY <1>1, <1>3, <3>0, <3>2, j \in Nat
    <3>3. b = u /\ j = k => W[n].block = b /\ j < W[n].next
      BY ONLY <1>1, <1>3, <3>0
    <3> QED BY ONLY <1>1, <3>1, <3>2, <3>3
  <2> QED BY <1>2, <2>2 DEF Explored
<1>6. ~ Explored(m, V, u, k) /\ <<u, k>> \notin B
  <2>1. ~ Explored(m, V, u, k)
    BY ONLY <1>o, <1>1, <1>3, <1>i, <1>4 DEF Explored
  <2> QED BY <1>1, <2>1 DEF VisitInv, BackCloses, Closes
<1>7. \A b \in AllBlocks : \A j \in Nat :
        ForwardEdge(m, W, C, b, j) <=> ForwardEdge(m, V, B, b, j) \/ (b = u /\ j = k /\ m[t] # "TEMP")
  <2> TAKE b \in AllBlocks
  <2> TAKE j \in Nat
  <2>1. <<b, j>> \in C <=> <<b, j>> \in B \/ (b = u /\ j = k /\ m[t] = "TEMP")
    OBVIOUS
  <2> QED BY <1>1, <1>5, <1>6, <2>1 DEF ForwardEdge
<1>8. \A b \in AllBlocks : \A s : s \in Walked(m, W, C)[b] <=>
        s \in Walked(m, V, B)[b] \/ (b = u /\ s = t /\ m[t] # "TEMP")
  <2> TAKE b \in AllBlocks
  <2> TAKE s
  <2>1. s \in Walked(m, W, C)[b] <=> s \in AllBlocks /\ \E j \in Nat : ForwardEdge(m, W, C, b, j) /\ fanouts[b][j] = s
    BY ONLY FanoutsOK, b \in AllBlocks, WalkedFacts
  <2>2. s \in Walked(m, V, B)[b] <=> s \in AllBlocks /\ \E j \in Nat : ForwardEdge(m, V, B, b, j) /\ fanouts[b][j] = s
    BY ONLY FanoutsOK, b \in AllBlocks, WalkedFacts
  <2> QED BY <1>1, <1>7, <2>1, <2>2
<1>9. OneByOne(m, W, C)
  <2>1. ASSUME NEW i \in 1..n PROVE W[i].next \in 1..(Len(fanouts[W[i].block]) + 1)
    <3>1. Len(fanouts[u]) \in Nat
      BY <1>1, FanoutsFacts
    <3>2. CASE i = n
      <4>1. W[i].block = u /\ W[i].next = k + 1
        BY ONLY <1>1, <1>2, <1>3, <3>2
      <4>2. k + 1 \in 1..(Len(fanouts[u]) + 1)
        BY ONLY <1>1, <3>1
      <4> QED BY ONLY <4>1, <4>2
    <3>3. CASE i # n
      <4>1. W[i].block = V[i].block /\ W[i].next = V[i].next
        BY ONLY <1>2, <3>3, i \in 1..n
      <4>2. V[i].next \in 1..(Len(fanouts[V[i].block]) + 1)
        BY ONLY <1>x, i \in 1..n
      <4> QED BY ONLY <4>1, <4>2
    <3> QED BY <3>2, <3>3
  <2>2. \A i \in 2..n : W[i].block \in Walked(m, W, C)[W[i - 1].block]
    <3> TAKE i \in 2..n
    <3>1. i \in 1..n /\ i - 1 \in 1..n
      BY <1>1
    <3>2. V[i].block \in Walked(m, V, B)[V[i - 1].block] /\ V[i - 1].block \in AllBlocks
      BY ONLY <1>1, <1>p, <3>1, i \in 2..n
    <3>3. V[i].block \in Walked(m, W, C)[V[i - 1].block]
      BY ONLY <1>8, <3>2
    <3> QED BY ONLY <1>2, <3>1, <3>3
  <2>3. ASSUME NEW i \in 1..n, NEW s \in Walked(m, W, C)[W[i].block]
        PROVE  m[s] = "PERM" \/ (i < n /\ s = W[i + 1].block)
    <3>1. W[i].block = V[i].block /\ V[i].block \in AllBlocks /\ (i < n => W[i + 1].block = V[i + 1].block)
      BY ONLY <1>1, <1>2, i \in 1..n
    <3>2. s \in Walked(m, V, B)[V[i].block] \/ (s = t /\ m[t] = "PERM")
      <4>1. m[t] \in {"NONE", "TEMP", "PERM"} /\ m[t] # "NONE"
        BY <1>1
      <4> QED BY ONLY <1>8, <2>3, <3>1, <4>1
    <3> QED BY ONLY <1>w, <3>1, <3>2, i \in 1..n
  <2>4. \A i, j \in 1..n : W[i].block = W[j].block => i = j
    BY ONLY <1>2, <1>i
  <2>5. \A b \in AllBlocks : m[b] = "TEMP" <=> \E i \in 1..n : W[i].block = b
    BY ONLY <1>2, <1>t
  <2> QED BY ONLY <1>2, <2>1, <2>2, <2>3, <2>4, <2>5 DEF OneByOne
<1>10. NothingMissed(m, W)
  <2>1. NothingMissed(m, V)
    BY DEF VisitInv
  <2>2. ASSUME NEW b \in AllBlocks, NEW j \in 1..Len(fanouts[b]), Explored(m, W, b, j)
        PROVE  m[fanouts[b][j]] # "NONE"
    <3>1. j \in Nat
      BY ONLY j \in 1..Len(fanouts[b])
    <3>2. Explored(m, V, b, j) \/ (b = u /\ j = k)
      BY <1>5, <2>2, <3>1
    <3>3. CASE Explored(m, V, b, j)
      BY ONLY <2>1, <3>3, b \in AllBlocks, j \in 1..Len(fanouts[b]) DEF NothingMissed
    <3>4. CASE b = u /\ j = k
      BY <3>4
    <3> QED BY <3>2, <3>3, <3>4
  <2>3. StartBlock \in AllBlocks /\ m[StartBlock] # "NONE"
    BY ONLY <2>1 DEF NothingMissed
  <2> QED BY ONLY <2>2, <2>3 DEF NothingMissed
<1>11. LeftInOrder(m, W, C)
  <2>1. \A b \in AllBlocks : m[b] = "PERM" => Walked(m, W, C)[b] = Walked(m, V, B)[b]
    BY <1>4, <1>8
  <2> QED BY <2>1 DEF LeftInOrder, VisitInv
<1>12. BackCloses(m, W, C)
  <2>1. BackCloses(m, V, B)
    BY DEF VisitInv
  <2>2. EdgesKept(m, V, B, m, W, C)
    <3>1. \A b \in AllBlocks : \A j \in Nat : ForwardEdge(m, V, B, b, j) => ForwardEdge(m, W, C, b, j)
      BY ONLY <1>7
    <3>2. \A b \in AllBlocks : \A j \in 1..Len(fanouts[b]) : Explored(m, V, b, j) => Explored(m, W, b, j)
      BY <1>5
    <3> QED BY ONLY <3>1, <3>2 DEF EdgesKept
  <2>4. ASSUME m[t] = "TEMP" PROVE u \in Reachable(Walked(m, W, C), {t})
    <3> DEFINE r == Walked(m, W, C)
               R == Reachable(r, {t})
    <3>1. {t} \in SUBSET AllBlocks /\ \A b \in AllBlocks : r[b] \subseteq AllBlocks
      BY <1>1, WalkedFacts
    <3> HIDE DEF r
    <3>2. t \in R /\ R \subseteq AllBlocks /\ \A b \in R : r[b] \subseteq R
      BY ONLY <3>1, ReachableLeast
    <3> HIDE DEF R
    <3>3. PICK i \in 1..n : V[i].block = t
      BY ONLY <1>1, <1>t, <2>4
    <3>4. \A b \in R : Walked(m, V, B)[b] \subseteq R
      BY ONLY <1>8, <3>2 DEF r
    <3>5. OneByOne(m, V, B)
      BY DEF VisitInv
    <3>6. \A j \in i..n : V[j].block \in R
      <4>1. Len(V) \in Nat /\ i \in 1..Len(V) /\ V[i].block \in R
        BY <1>1, <3>2, <3>3
      <4>2. \A j \in i..Len(V) : V[j].block \in R
        BY ONLY <3>4, <3>5, <4>1, PathStays
      <4> QED BY <4>2
    <3>7. V[n].block = u /\ n \in i..n
      BY ONLY <1>1, <1>3, i \in 1..n
    <3> QED BY ONLY <3>6, <3>7 DEF R, r
  <2>5. Explored(m, W, u, k)
    BY <1>1, <1>5
  <2>6. C \subseteq AllBlocks \X Nat
    BY <1>1, <2>1 DEF BackCloses
  <2>3. \A b \in AllBlocks : \A j \in Nat : Closes(m, V, B, b, j) => Closes(m, W, C, b, j)
    BY ONLY FanoutsOK, <2>2, StillCloses
  <2>7. ASSUME NEW b \in AllBlocks, NEW j \in Nat, <<b, j>> \in C PROVE Closes(m, W, C, b, j)
    <3>1. CASE <<b, j>> \in B
      BY ONLY b \in AllBlocks, j \in Nat, <2>1, <2>3, <3>1 DEF BackCloses
    <3>2. CASE b = u /\ j = k /\ m[t] = "TEMP"
      <4>1. t = fanouts[u][k]
        OBVIOUS
      <4> QED BY ONLY <1>1, <2>4, <2>5, <3>2, <4>1 DEF Closes
    <3> QED BY <2>7, <3>1, <3>2
  <2> QED BY ONLY <2>6, <2>7 DEF BackCloses
<1> QED BY <1>1, <1>2, <1>9, <1>10, <1>11, <1>12 DEF VisitInv

\* V goes into a new block t, by the next edge of its last activation.
LEMMA DescendVisit ==
  ASSUME FanoutsOK, NEW m, NEW V, NEW B, VisitInv(m, V, B), NEW n, n = Len(V), n > 0,
         NEW u, u = V[n].block, NEW k, k = V[n].next, k <= Len(fanouts[u]),
         NEW t, t = fanouts[u][k], m[t] = "NONE",
         NEW W, W \in Seq(Activations), Len(W) = n + 1,
         \A i \in 1..n : W[i].block = V[i].block,
         \A i \in 1..n : W[i].next = IF i = n THEN k + 1 ELSE V[i].next,
         W[n + 1].block = t, W[n + 1].next = 1,
         NEW l, l \in [AllBlocks -> {"NONE", "TEMP", "PERM"}],
         \A b \in AllBlocks : l[b] = IF b = t THEN "TEMP" ELSE m[b]
  PROVE  VisitInv(l, W, B)
<1>1. /\ n \in Nat /\ n > 0 /\ n \in 1..n /\ n + 1 \in Nat /\ V \in Seq(Activations)
      /\ m \in [AllBlocks -> {"NONE", "TEMP", "PERM"}]
      /\ u \in AllBlocks /\ k \in Nat /\ k \in 1..Len(fanouts[u]) /\ t \in AllBlocks
      /\ \A i \in 1..n : V[i].block \in AllBlocks /\ V[i].next \in Nat
  <2>1. /\ n \in Nat /\ n > 0 /\ n \in 1..n /\ V \in Seq(Activations)
        /\ m \in [AllBlocks -> {"NONE", "TEMP", "PERM"}]
        /\ \A i \in 1..n : V[i].block \in AllBlocks /\ V[i].next \in Nat
        /\ k \in 1..(Len(fanouts[u]) + 1)
    BY VisitFacts
  <2>2. u \in AllBlocks /\ k \in Nat
    BY <2>1
  <2>3. Len(fanouts[u]) \in Nat /\ \A j \in 1..Len(fanouts[u]) : fanouts[u][j] \in AllBlocks
    BY <2>2, FanoutsFacts
  <2>4. k \in 1..Len(fanouts[u])
    BY <2>1, <2>2, <2>3
  <2> QED BY <2>1, <2>2, <2>3, <2>4
<1>2. /\ W \in Seq(Activations) /\ Len(W) = n + 1
      /\ \A i \in 1..n : W[i].block = V[i].block
      /\ \A i \in 1..n : W[i].next = IF i = n THEN k + 1 ELSE V[i].next
      /\ W[n + 1].block = t /\ W[n + 1].next = 1
      /\ \A i \in 1..(n + 1) : i \in 1..n \/ i = n + 1
  BY <1>1
<1>o. OneByOne(m, V, B) /\ Len(V) = n
  BY DEF VisitInv
<1>3. V[n].block = u /\ V[n].next = k
  OBVIOUS
<1>i. \A i, j \in 1..n : V[i].block = V[j].block => i = j
  BY ONLY <1>o DEF OneByOne
<1>t. \A b \in AllBlocks : m[b] = "TEMP" <=> \E i \in 1..n : V[i].block = b
  BY ONLY <1>o DEF OneByOne
<1>x. \A i \in 1..n : V[i].next \in 1..(Len(fanouts[V[i].block]) + 1)
  BY ONLY <1>o DEF OneByOne
<1>p. \A i \in 2..n : V[i].block \in Walked(m, V, B)[V[i - 1].block]
  BY ONLY <1>o DEF OneByOne
<1>w. \A i \in 1..n : \A s \in Walked(m, V, B)[V[i].block] : m[s] = "PERM" \/ (i < n /\ s = V[i + 1].block)
  BY ONLY <1>o DEF OneByOne
<1>4. /\ m[u] = "TEMP" /\ u # t /\ \A i \in 1..n : V[i].block # t
      /\ \A b \in AllBlocks : (l[b] = "PERM" <=> m[b] = "PERM") /\ (m[b] # "NONE" => l[b] # "NONE")
      /\ \A b \in AllBlocks : l[b] = "TEMP" <=> m[b] = "TEMP" \/ b = t
  <2>1. m[u] = "TEMP" /\ \A i \in 1..n : m[V[i].block] = "TEMP"
    BY ONLY <1>1, <1>3, <1>t
  <2>2. \A b \in AllBlocks : l[b] = IF b = t THEN "TEMP" ELSE m[b]
    OBVIOUS
  <2>3. m[t] = "NONE"
    OBVIOUS
  <2> QED BY ONLY <1>1, <2>1, <2>2, <2>3
<1>5. ASSUME NEW b \in AllBlocks, NEW j \in 1..Len(fanouts[b])
      PROVE  Explored(l, W, b, j) <=> Explored(m, V, b, j) \/ (b = u /\ j = k)
  <2>1. j \in Nat /\ j >= 1
    BY ONLY FanoutsOK, FanoutsFacts, b \in AllBlocks, j \in 1..Len(fanouts[b])
  <2>2. (\E i \in 1..(n + 1) : W[i].block = b /\ j < W[i].next) <=>
        (\E i \in 1..n : V[i].block = b /\ j < V[i].next) \/ (b = u /\ j = k)
    <3>1. ASSUME NEW i \in 1..(n + 1), W[i].block = b, j < W[i].next
          PROVE  (\E o \in 1..n : V[o].block = b /\ j < V[o].next) \/ (b = u /\ j = k)
      <4>1. i # n + 1
        BY <1>2, <2>1, <3>1
      <4>2. i \in 1..n
        BY <1>2, <4>1
      <4>4. W[i].block = V[i].block /\ W[i].next = IF i = n THEN k + 1 ELSE V[i].next
        BY ONLY <1>2, <4>2
      <4>3. (V[i].block = b /\ j < V[i].next) \/ (b = u /\ j = k)
        BY ONLY <1>1, <1>3, <2>1, <3>1, <4>2, <4>4
      <4> QED BY <4>2, <4>3
    <3>2. ASSUME NEW i \in 1..n, V[i].block = b, j < V[i].next PROVE W[i].block = b /\ j < W[i].next
      <4>1. W[i].block = V[i].block /\ W[i].next = IF i = n THEN k + 1 ELSE V[i].next
        BY ONLY <1>2, i \in 1..n
      <4> QED BY ONLY <1>1, <1>3, <2>1, <3>2, <4>1
    <3>3. b = u /\ j = k => W[n].block = b /\ j < W[n].next
      BY ONLY <1>1, <1>2, <1>3
    <3>4. 1..n \subseteq 1..(n + 1)
      BY ONLY <1>1
    <3> QED BY ONLY <1>1, <3>1, <3>2, <3>3, <3>4
  <2>3. l[b] = "PERM" <=> m[b] = "PERM"
    BY <1>4
  <2>4. Len(W) = n + 1 /\ Len(V) = n
    OBVIOUS
  <2> QED BY ONLY <2>2, <2>3, <2>4 DEF Explored
<1>6. ~ Explored(m, V, u, k) /\ <<u, k>> \notin B
  <2>1. ~ Explored(m, V, u, k)
    BY ONLY <1>o, <1>1, <1>3, <1>i, <1>4 DEF Explored
  <2> QED BY <1>1, <2>1 DEF VisitInv, BackCloses, Closes
<1>7. \A b \in AllBlocks : \A j \in Nat :
        ForwardEdge(l, W, B, b, j) <=> ForwardEdge(m, V, B, b, j) \/ (b = u /\ j = k)
  <2> TAKE b \in AllBlocks
  <2> TAKE j \in Nat
  <2> QED BY ONLY <1>1, <1>5, <1>6, b \in AllBlocks, j \in Nat DEF ForwardEdge
<1>8. \A b \in AllBlocks : \A s : s \in Walked(l, W, B)[b] <=>
        s \in Walked(m, V, B)[b] \/ (b = u /\ s = t)
  <2> TAKE b \in AllBlocks
  <2> TAKE s
  <2>1. s \in Walked(l, W, B)[b] <=> s \in AllBlocks /\ \E j \in Nat : ForwardEdge(l, W, B, b, j) /\ fanouts[b][j] = s
    BY ONLY FanoutsOK, b \in AllBlocks, WalkedFacts
  <2>2. s \in Walked(m, V, B)[b] <=> s \in AllBlocks /\ \E j \in Nat : ForwardEdge(m, V, B, b, j) /\ fanouts[b][j] = s
    BY ONLY FanoutsOK, b \in AllBlocks, WalkedFacts
  <2> QED BY <1>1, <1>7, <2>1, <2>2
<1>9. OneByOne(l, W, B)
  <2>1. ASSUME NEW i \in 1..(n + 1) PROVE W[i].next \in 1..(Len(fanouts[W[i].block]) + 1)
    <3>1. \A b \in AllBlocks : Len(fanouts[b]) \in Nat
      BY FanoutsFacts
    <3>2. CASE i = n
      <4>1. W[i].block = u /\ W[i].next = k + 1
        BY ONLY <1>1, <1>2, <1>3, <3>2
      <4>2. k + 1 \in 1..(Len(fanouts[u]) + 1)
        BY ONLY <1>1, <3>1
      <4> QED BY ONLY <4>1, <4>2
    <3>3. CASE i = n + 1
      <4>1. W[i].block = t /\ W[i].next = 1
        BY ONLY <1>2, <3>3
      <4>2. 1 \in 1..(Len(fanouts[t]) + 1)
        BY ONLY <1>1, <3>1
      <4> QED BY ONLY <4>1, <4>2
    <3>4. CASE i \in 1..n /\ i # n
      <4>1. W[i].block = V[i].block /\ W[i].next = V[i].next
        BY ONLY <1>2, <3>4
      <4>2. V[i].next \in 1..(Len(fanouts[V[i].block]) + 1)
        BY ONLY <1>x, <3>4
      <4> QED BY ONLY <4>1, <4>2
    <3> QED BY <1>2, <3>2, <3>3, <3>4
  <2>2. ASSUME NEW i \in 2..(n + 1) PROVE W[i].block \in Walked(l, W, B)[W[i - 1].block]
    <3>1. i - 1 \in 1..n /\ (i \in 2..n \/ i = n + 1)
      BY <1>1
    <3>2. CASE i \in 2..n
      <4>1. i \in 1..n
        BY ONLY <1>1, <3>2
      <4>2. V[i].block \in Walked(m, V, B)[V[i - 1].block] /\ V[i - 1].block \in AllBlocks
        BY ONLY <1>1, <1>p, <3>1, <3>2
      <4>3. V[i].block \in Walked(l, W, B)[V[i - 1].block]
        BY ONLY <1>8, <4>2
      <4> QED BY ONLY <1>2, <3>1, <4>1, <4>3
    <3>3. CASE i = n + 1
      <4>1. W[i].block = t /\ W[i - 1].block = u
        BY ONLY <1>1, <1>2, <1>3, <3>1, <3>3
      <4> QED BY ONLY <1>1, <1>8, <4>1
    <3> QED BY <3>1, <3>2, <3>3
  <2>3. ASSUME NEW i \in 1..(n + 1), NEW s \in Walked(l, W, B)[W[i].block]
        PROVE  l[s] = "PERM" \/ (i < n + 1 /\ s = W[i + 1].block)
    <3>1. CASE i \in 1..n
      <4>1. W[i].block = V[i].block /\ V[i].block \in AllBlocks
        BY ONLY <1>1, <1>2, <3>1
      <4>2. s \in Walked(m, V, B)[V[i].block] \/ (V[i].block = u /\ s = t)
        BY ONLY <1>8, <2>3, <4>1
      <4>3. CASE s \in Walked(m, V, B)[V[i].block]
        <5>1. s \in AllBlocks
          BY ONLY FanoutsOK, <4>1, <4>3, WalkedFacts
        <5>2. m[s] = "PERM" \/ (i < n /\ s = V[i + 1].block)
          BY ONLY <1>w, <3>1, <4>3
        <5>3. m[s] = "PERM" => l[s] = "PERM"
          BY ONLY <1>4, <5>1
        <5>4. i < n => i < n + 1 /\ W[i + 1].block = V[i + 1].block
          BY ONLY <1>1, <1>2, <3>1
        <5> QED BY ONLY <5>2, <5>3, <5>4
      <4>4. CASE V[i].block = u /\ s = t
        <5>1. i = n
          BY ONLY <1>1, <1>3, <1>i, <3>1, <4>4
        <5> QED BY ONLY <1>1, <1>2, <4>4, <5>1
      <4> QED BY <4>2, <4>3, <4>4
    <3>2. CASE i = n + 1
      <4>1. s \in Walked(l, W, B)[t]
        BY ONLY <1>2, <2>3, <3>2
      <4>2. s \in Walked(m, V, B)[t]
        BY ONLY <1>1, <1>4, <1>8, <4>1
      <4>3. PICK j \in Nat : ForwardEdge(m, V, B, t, j)
        BY ONLY FanoutsOK, <1>1, <4>2, WalkedFacts
      <4>4. m[t] # "PERM" /\ Len(V) = n
        OBVIOUS
      <4> QED BY ONLY <1>4, <4>3, <4>4 DEF ForwardEdge, Explored
    <3> QED BY <1>2, <3>1, <3>2
  <2>4. \A i, j \in 1..(n + 1) : W[i].block = W[j].block => i = j
    <3> TAKE i, j \in 1..(n + 1)
    <3>1. (i \in 1..n \/ i = n + 1) /\ (j \in 1..n \/ j = n + 1)
      BY ONLY <1>2, i \in 1..(n + 1), j \in 1..(n + 1)
    <3>2. CASE i \in 1..n /\ j \in 1..n
      BY ONLY <1>2, <1>i, <3>2
    <3>3. CASE i = n + 1 /\ j \in 1..n
      BY ONLY <1>2, <1>4, <3>3
    <3>4. CASE i \in 1..n /\ j = n + 1
      BY ONLY <1>2, <1>4, <3>4
    <3> QED BY ONLY <3>1, <3>2, <3>3, <3>4
  <2>5. \A b \in AllBlocks : l[b] = "TEMP" <=> \E i \in 1..(n + 1) : W[i].block = b
    <3>1. 1..n \subseteq 1..(n + 1) /\ n + 1 \in 1..(n + 1)
      BY ONLY <1>1
    <3> TAKE b \in AllBlocks
    <3>2. l[b] = "TEMP" <=> (\E i \in 1..n : V[i].block = b) \/ b = t
      BY ONLY <1>4, <1>t, b \in AllBlocks
    <3> QED BY ONLY <1>2, <3>1, <3>2
  <2> QED BY ONLY <1>2, <2>1, <2>2, <2>3, <2>4, <2>5 DEF OneByOne
<1>10. NothingMissed(l, W)
  <2>1. NothingMissed(m, V) /\ StartBlock \in AllBlocks
    BY DEF VisitInv, NothingMissed
  <2>2. ASSUME NEW b \in AllBlocks, NEW j \in 1..Len(fanouts[b]), Explored(l, W, b, j)
        PROVE  l[fanouts[b][j]] # "NONE"
    <3>1. fanouts[b][j] \in AllBlocks
      BY ONLY FanoutsOK, b \in AllBlocks, j \in 1..Len(fanouts[b]), FanoutsFacts
    <3>2. Explored(m, V, b, j) \/ (b = u /\ j = k)
      BY <1>5, <2>2
    <3>3. CASE Explored(m, V, b, j)
      <4>1. m[fanouts[b][j]] # "NONE"
        BY ONLY <2>1, <3>3, b \in AllBlocks, j \in 1..Len(fanouts[b]) DEF NothingMissed
      <4> QED BY ONLY <1>4, <3>1, <4>1
    <3>4. CASE b = u /\ j = k
      <4>1. fanouts[b][j] = t
        BY <3>4
      <4> QED BY ONLY <1>1, <1>4, <4>1
    <3> QED BY <3>2, <3>3, <3>4
  <2>3. StartBlock \in AllBlocks /\ l[StartBlock] # "NONE"
    BY ONLY <1>4, <2>1 DEF NothingMissed
  <2> QED BY ONLY <2>2, <2>3 DEF NothingMissed
<1>11. LeftInOrder(l, W, B)
  <2>1. \A b \in AllBlocks : m[b] = "PERM" => Walked(l, W, B)[b] = Walked(m, V, B)[b]
    BY ONLY <1>4, <1>8
  <2>2. PICK rank \in [AllBlocks -> Nat], M \in Nat : \A b \in AllBlocks : m[b] = "PERM" =>
          rank[b] < M /\ \A s \in Walked(m, V, B)[b] : m[s] = "PERM" /\ rank[s] < rank[b]
    BY DEF LeftInOrder, VisitInv
  <2>3. \A b \in AllBlocks : Walked(m, V, B)[b] \subseteq AllBlocks
    BY WalkedFacts
  <2>4. \A b \in AllBlocks : l[b] = "PERM" =>
          rank[b] < M /\ \A s \in Walked(l, W, B)[b] : l[s] = "PERM" /\ rank[s] < rank[b]
    BY ONLY <1>4, <2>1, <2>2, <2>3
  <2> QED BY ONLY <2>2, <2>4 DEF LeftInOrder
<1>12. BackCloses(l, W, B)
  <2>1. BackCloses(m, V, B)
    BY DEF VisitInv
  <2>2. EdgesKept(m, V, B, l, W, B)
    <3>1. \A b \in AllBlocks : \A j \in Nat : ForwardEdge(m, V, B, b, j) => ForwardEdge(l, W, B, b, j)
      BY ONLY <1>7
    <3>2. \A b \in AllBlocks : \A j \in 1..Len(fanouts[b]) : Explored(m, V, b, j) => Explored(l, W, b, j)
      BY <1>5
    <3> QED BY ONLY <3>1, <3>2 DEF EdgesKept
  <2>3. \A b \in AllBlocks : \A j \in Nat : Closes(m, V, B, b, j) => Closes(l, W, B, b, j)
    BY ONLY FanoutsOK, <2>2, StillCloses
  <2> QED BY ONLY <2>1, <2>3 DEF BackCloses
<1> QED BY ONLY l \in [AllBlocks -> {"NONE", "TEMP", "PERM"}], <1>2, <1>9, <1>10, <1>11, <1>12 DEF VisitInv

\* V leaves its last block u, all of whose edges it has followed.
LEMMA LeaveVisit ==
  ASSUME FanoutsOK, NEW m, NEW V, NEW B, VisitInv(m, V, B), NEW n, n = Len(V), n > 0,
         NEW u, u = V[n].block, V[n].next > Len(fanouts[u]),
         NEW W, W \in Seq(Activations), Len(W) = n - 1, \A i \in 1..(n - 1) : W[i] = V[i],
         NEW l, l \in [AllBlocks -> {"NONE", "TEMP", "PERM"}],
         \A b \in AllBlocks : l[b] = IF b = u THEN "PERM" ELSE m[b]
  PROVE  VisitInv(l, W, B)
<1>1. /\ n \in Nat /\ n > 0 /\ n \in 1..n /\ n - 1 \in Nat /\ 1..(n - 1) \subseteq 1..n
      /\ \A i \in 1..n : i \in 1..(n - 1) \/ i = n
  BY VisitFacts
<1>2. Len(W) = n - 1 /\ \A i \in 1..(n - 1) : W[i] = V[i]
  OBVIOUS
<1>3. /\ u \in AllBlocks /\ Len(fanouts[u]) \in Nat /\ V[n].next \in Nat /\ V[n].next > Len(fanouts[u])
      /\ V[n].block = u /\ \A i \in 1..n : V[i].block \in AllBlocks
  <2>1. /\ \A i \in 1..n : V[i].block \in AllBlocks
        /\ V[n].next \in Nat
    BY <1>1, VisitFacts
  <2>2. u \in AllBlocks
    BY <1>1, <2>1
  <2> QED BY <2>1, <2>2, FanoutsFacts
<1>o. OneByOne(m, V, B) /\ Len(V) = n
  BY DEF VisitInv
<1>i. \A i, j \in 1..n : V[i].block = V[j].block => i = j
  BY ONLY <1>o DEF OneByOne
<1>t. \A b \in AllBlocks : m[b] = "TEMP" <=> \E i \in 1..n : V[i].block = b
  BY ONLY <1>o DEF OneByOne
<1>x. \A i \in 1..n : V[i].next \in 1..(Len(fanouts[V[i].block]) + 1)
  BY ONLY <1>o DEF OneByOne
<1>p. \A i \in 2..n : V[i].block \in Walked(m, V, B)[V[i - 1].block]
  BY ONLY <1>o DEF OneByOne
<1>w. \A i \in 1..n : \A s \in Walked(m, V, B)[V[i].block] : m[s] = "PERM" \/ (i < n /\ s = V[i + 1].block)
  BY ONLY <1>o DEF OneByOne
<1>4. /\ m[u] = "TEMP" /\ l[u] = "PERM" /\ \A b \in AllBlocks : b # u => l[b] = m[b]
      /\ \A b \in AllBlocks : m[b] = "PERM" => l[b] = "PERM" /\ b # u
      /\ \A b \in AllBlocks : m[b] # "NONE" => l[b] # "NONE"
  <2>1. m[u] = "TEMP"
    BY ONLY <1>1, <1>3, <1>t
  <2>2. \A b \in AllBlocks : l[b] = IF b = u THEN "PERM" ELSE m[b]
    OBVIOUS
  <2> QED BY ONLY <1>3, <2>1, <2>2
<1>5. ASSUME NEW b \in AllBlocks, NEW j \in 1..Len(fanouts[b])
      PROVE  Explored(l, W, b, j) <=> Explored(m, V, b, j)
  <2>1. j \in Nat
    BY ONLY FanoutsOK, FanoutsFacts, b \in AllBlocks, j \in 1..Len(fanouts[b])
  <2>2. CASE b = u
    <3>1. j < V[n].next
      BY ONLY <1>3, <2>1, <2>2, j \in 1..Len(fanouts[b])
    <3>2. Explored(m, V, b, j)
      BY ONLY <1>1, <1>3, <1>o, <2>2, <3>1 DEF Explored
    <3> QED BY ONLY <1>4, <2>2, <3>2 DEF Explored
  <2>3. CASE b # u
    <3>1. (\E i \in 1..(n - 1) : W[i].block = b /\ j < W[i].next) <=>
          (\E i \in 1..n : V[i].block = b /\ j < V[i].next)
      BY ONLY <1>1, <1>2, <1>3, <2>3
    <3>2. l[b] = m[b]
      BY ONLY <1>4, <2>3, b \in AllBlocks
    <3> QED BY ONLY <1>2, <1>o, <3>1, <3>2 DEF Explored
  <2> QED BY <2>2, <2>3
<1>7. \A b \in AllBlocks : \A j \in Nat : ForwardEdge(l, W, B, b, j) <=> ForwardEdge(m, V, B, b, j)
  BY ONLY <1>5 DEF ForwardEdge
<1>8. \A b \in AllBlocks : \A s : s \in Walked(l, W, B)[b] <=> s \in Walked(m, V, B)[b]
  <2> TAKE b \in AllBlocks
  <2> TAKE s
  <2>1. s \in Walked(l, W, B)[b] <=> s \in AllBlocks /\ \E j \in Nat : ForwardEdge(l, W, B, b, j) /\ fanouts[b][j] = s
    BY ONLY FanoutsOK, b \in AllBlocks, WalkedFacts
  <2>2. s \in Walked(m, V, B)[b] <=> s \in AllBlocks /\ \E j \in Nat : ForwardEdge(m, V, B, b, j) /\ fanouts[b][j] = s
    BY ONLY FanoutsOK, b \in AllBlocks, WalkedFacts
  <2> QED BY ONLY <1>7, <2>1, <2>2, b \in AllBlocks
<1>s. \A b \in AllBlocks : Walked(m, V, B)[b] \subseteq AllBlocks
  BY WalkedFacts
<1>9. OneByOne(l, W, B)
  <2>1. \A i \in 1..(n - 1) : W[i].next \in 1..(Len(fanouts[W[i].block]) + 1)
    BY ONLY <1>1, <1>2, <1>x
  <2>2. ASSUME NEW i \in 2..(n - 1) PROVE W[i].block \in Walked(l, W, B)[W[i - 1].block]
    <3>1. i - 1 \in 1..(n - 1) /\ i \in 1..(n - 1) /\ i - 1 \in 1..n /\ i \in 2..n
      BY ONLY <1>1, i \in 2..(n - 1)
    <3>2. V[i].block \in Walked(m, V, B)[V[i - 1].block] /\ V[i - 1].block \in AllBlocks
      BY ONLY <1>3, <1>p, <3>1
    <3>3. V[i].block \in Walked(l, W, B)[V[i - 1].block]
      BY ONLY <1>8, <3>2
    <3> QED BY ONLY <1>2, <3>1, <3>3
  <2>3. ASSUME NEW i \in 1..(n - 1), NEW s \in Walked(l, W, B)[W[i].block]
        PROVE  l[s] = "PERM" \/ (i < n - 1 /\ s = W[i + 1].block)
    <3>1. W[i] = V[i] /\ V[i].block \in AllBlocks /\ i \in 1..n /\ i + 1 \in 1..n /\ i \in Nat
      BY ONLY <1>1, <1>2, <1>3, i \in 1..(n - 1)
    <3>2. s \in Walked(m, V, B)[V[i].block] /\ s \in AllBlocks
      BY ONLY <1>8, <1>s, <2>3, <3>1
    <3>3. m[s] = "PERM" \/ (i < n /\ s = V[i + 1].block)
      BY ONLY <1>w, <3>1, <3>2
    <3>4. CASE m[s] = "PERM"
      BY ONLY <1>4, <3>2, <3>4
    <3>5. CASE i + 1 = n /\ s = V[i + 1].block
      BY ONLY <1>3, <1>4, <3>5
    <3>6. CASE i + 1 # n /\ s = V[i + 1].block
      <4>1. i + 1 \in 1..(n - 1) /\ i < n - 1
        BY ONLY <1>1, <3>1, <3>6
      <4> QED BY ONLY <1>2, <3>6, <4>1
    <3> QED BY ONLY <3>3, <3>4, <3>5, <3>6
  <2>4. \A i, j \in 1..(n - 1) : W[i].block = W[j].block => i = j
    BY ONLY <1>1, <1>2, <1>i
  <2>5. ASSUME NEW b \in AllBlocks PROVE l[b] = "TEMP" <=> \E i \in 1..(n - 1) : W[i].block = b
    <3>1. CASE b = u
      BY ONLY <1>1, <1>2, <1>3, <1>4, <1>i, <3>1
    <3>2. CASE b # u
      <4>1. l[b] = "TEMP" <=> \E i \in 1..n : V[i].block = b
        BY ONLY <1>4, <1>t, <3>2, b \in AllBlocks
      <4>2. (\E i \in 1..(n - 1) : W[i].block = b) <=> \E i \in 1..n : V[i].block = b
        BY ONLY <1>1, <1>2, <1>3, <3>2
      <4> QED BY ONLY <4>1, <4>2
    <3> QED BY <3>1, <3>2
  <2> QED BY ONLY <1>2, <2>1, <2>2, <2>3, <2>4, <2>5 DEF OneByOne
<1>10. NothingMissed(l, W)
  <2>1. NothingMissed(m, V) /\ StartBlock \in AllBlocks
    BY DEF VisitInv, NothingMissed
  <2>2. ASSUME NEW b \in AllBlocks, NEW j \in 1..Len(fanouts[b]), Explored(l, W, b, j)
        PROVE  l[fanouts[b][j]] # "NONE"
    <3>1. fanouts[b][j] \in AllBlocks
      BY ONLY FanoutsOK, b \in AllBlocks, j \in 1..Len(fanouts[b]), FanoutsFacts
    <3>2. Explored(m, V, b, j)
      BY <1>5, <2>2
    <3>3. m[fanouts[b][j]] # "NONE"
      BY ONLY <2>1, <3>2, b \in AllBlocks, j \in 1..Len(fanouts[b]) DEF NothingMissed
    <3> QED BY ONLY <1>4, <3>1, <3>3
  <2>3. StartBlock \in AllBlocks /\ l[StartBlock] # "NONE"
    BY ONLY <1>4, <2>1 DEF NothingMissed
  <2> QED BY ONLY <2>2, <2>3 DEF NothingMissed
<1>11. LeftInOrder(l, W, B)
  <2>1. \A b \in AllBlocks : Walked(l, W, B)[b] = Walked(m, V, B)[b]
    BY ONLY <1>8
  <2>2. PICK rank \in [AllBlocks -> Nat], M \in Nat : \A b \in AllBlocks : m[b] = "PERM" =>
          rank[b] < M /\ \A s \in Walked(m, V, B)[b] : m[s] = "PERM" /\ rank[s] < rank[b]
    BY DEF LeftInOrder, VisitInv
  <2> DEFINE later == [b \in AllBlocks |-> IF b = u THEN M ELSE rank[b]]
  <2>3. /\ later \in [AllBlocks -> Nat] /\ M + 1 \in Nat /\ M \in Nat
        /\ later[u] = M /\ \A b \in AllBlocks : b # u => later[b] = rank[b]
        /\ \A b \in AllBlocks : rank[b] \in Nat
    BY <1>3, <2>2
  <2> HIDE DEF later
  <2>4. \A s \in Walked(m, V, B)[u] : m[s] = "PERM" /\ s \in AllBlocks
    BY ONLY <1>1, <1>3, <1>s, <1>w
  <2>5. ASSUME NEW b \in AllBlocks, l[b] = "PERM"
        PROVE  later[b] < M + 1 /\ \A s \in Walked(l, W, B)[b] : l[s] = "PERM" /\ later[s] < later[b]
    <3>1. CASE b = u
      <4>1. \A s \in Walked(m, V, B)[u] : l[s] = "PERM" /\ later[s] = rank[s] /\ rank[s] < M
        BY ONLY <1>4, <2>2, <2>3, <2>4
      <4>2. Walked(l, W, B)[b] = Walked(m, V, B)[u]
        BY ONLY <2>1, <3>1, b \in AllBlocks
      <4> QED BY ONLY <2>3, <3>1, <4>1, <4>2
    <3>2. CASE b # u
      <4>1. m[b] = "PERM" /\ later[b] = rank[b] /\ rank[b] < M /\ rank[b] \in Nat
        BY ONLY <1>4, <2>2, <2>3, <2>5, <3>2, b \in AllBlocks
      <4>2. \A s \in Walked(m, V, B)[b] : m[s] = "PERM" /\ rank[s] < rank[b] /\ s \in AllBlocks
        BY ONLY <1>s, <2>2, <4>1, b \in AllBlocks
      <4>3. \A s \in Walked(m, V, B)[b] : l[s] = "PERM" /\ later[s] = rank[s]
        BY ONLY <1>4, <2>3, <4>2
      <4>4. Walked(l, W, B)[b] = Walked(m, V, B)[b]
        BY ONLY <2>1, b \in AllBlocks
      <4> QED BY ONLY <2>3, <4>1, <4>2, <4>3, <4>4
    <3> QED BY <3>1, <3>2
  <2> QED BY ONLY <2>3, <2>5 DEF LeftInOrder
<1>12. BackCloses(l, W, B)
  <2>1. BackCloses(m, V, B)
    BY DEF VisitInv
  <2>2. EdgesKept(m, V, B, l, W, B)
    BY ONLY <1>5, <1>7 DEF EdgesKept
  <2>3. \A b \in AllBlocks : \A j \in Nat : Closes(m, V, B, b, j) => Closes(l, W, B, b, j)
    BY ONLY FanoutsOK, <2>2, StillCloses
  <2> QED BY ONLY <2>1, <2>3 DEF BackCloses
<1> QED BY <1>9, <1>10, <1>11, <1>12 DEF VisitInv

\* The walk begins with the start block: no edge is followed yet.
LEMMA BeginVisit ==
  ASSUME FanoutsOK', StartBlock \in AllBlocks, visits' = <<[block |-> StartBlock, next |-> 1]>>, back' = {},
         mark' \in [AllBlocks -> {"NONE", "TEMP", "PERM"}],
         \A b \in AllBlocks : mark'[b] = IF b = StartBlock THEN "TEMP" ELSE "NONE"
  PROVE  VisitInv(mark, visits, back)'
<1>1. /\ Len(visits') = 1 /\ visits'[1].block = StartBlock /\ visits'[1].next = 1
      /\ visits'[1] = [block |-> StartBlock, next |-> 1] /\ visits' \in Seq({visits'[1]})
  OBVIOUS
<1>2. visits' \in Seq(Activations)
  BY <1>1 DEF Activations
<1>3. \A b \in AllBlocks : mark'[b] # "PERM"
  OBVIOUS
<1>f. \A b \in AllBlocks : Len(fanouts'[b]) \in Nat
  <2>1. \A b \in AllBlocks : fanouts'[b] \in Seq(AllBlocks)
    BY DEF FanoutsOK
  <2> QED BY <2>1
<1>4. \A b \in AllBlocks : \A k \in 1..Len(fanouts'[b]) : ~ Explored(mark', visits', b, k)
  <2>1. \A i \in 1..Len(visits') : visits'[i].next = 1
    BY ONLY <1>1
  <2>2. \A b \in AllBlocks : \A k \in 1..Len(fanouts'[b]) : k \in Nat /\ k >= 1
    BY <1>f
  <2> QED BY ONLY <1>3, <2>1, <2>2 DEF Explored
<1>5. ASSUME NEW b \in AllBlocks PROVE Walked(mark, visits, back)'[b] = {}
  <2>1. \A k \in Nat : ~ ForwardEdge(mark, visits, back, b, k)'
    BY ONLY <1>4, b \in AllBlocks DEF ForwardEdge, Explored
  <2> QED BY ONLY <2>1, b \in AllBlocks DEF Walked
<1>6. OneByOne(mark, visits, back)'
  <2>1. Len(fanouts'[StartBlock]) \in Nat
    BY <1>f
  <2>2. \A i \in 1..Len(visits') : visits'[i].next \in 1..(Len(fanouts'[visits'[i].block]) + 1)
    BY ONLY <1>1, <2>1
  <2>3. \A b \in AllBlocks : mark'[b] = "TEMP" <=> \E i \in 1..Len(visits') : visits'[i].block = b
    <3>1. \A b \in AllBlocks : mark'[b] = "TEMP" <=> b = StartBlock
      OBVIOUS
    <3> QED BY ONLY <1>1, <3>1
  <2>4. \A i \in 1..Len(visits') : Walked(mark, visits, back)'[visits'[i].block] = {}
    BY ONLY <1>1, <1>5, StartBlock \in AllBlocks
  <2>5. \A i \in 2..Len(visits') : FALSE
    BY ONLY <1>1
  <2>6. \A i, j \in 1..Len(visits') : visits'[i].block = visits'[j].block => i = j
    BY ONLY <1>1
  <2> QED BY ONLY <2>2, <2>3, <2>4, <2>5, <2>6 DEF OneByOne
<1>7. NothingMissed(mark, visits)'
  BY <1>4 DEF NothingMissed, Explored
<1>8. LeftInOrder(mark, visits, back)'
  <2>1. [b \in AllBlocks |-> 0] \in [AllBlocks -> Nat] /\ 0 \in Nat
    OBVIOUS
  <2> QED BY ONLY <1>3, <2>1 DEF LeftInOrder
<1>9. BackCloses(mark, visits, back)'
  BY DEF BackCloses
<1> QED BY <1>2, <1>6, <1>7, <1>8, <1>9 DEF VisitInv

\* The blocks that could be reached before the call.
Live == Reachable(Targets(function), {StartBlock})

\* While the first pass runs the erased blocks have lost their fanouts, the others have theirs.
Erasing ==
  /\ blocks \in Seq(Created) /\ \A i, j \in 1..Len(blocks) : blocks[i] = blocks[j] => i = j
  /\ \A b \in AllBlocks : fanouts[b] = IF b \in ToSet(blocks) THEN function[b] ELSE <<>>
  /\ mark = [b \in AllBlocks |-> "NONE"] /\ visits = <<>> /\ back = {}

\* From then on there is one exit.
Joined ==
  /\ blocks \in Seq(AllBlocks) /\ exit \in ToSet(blocks)
  /\ \A b \in ToSet(blocks) : fanouts[b] = <<>> <=> b = exit
  /\ \A b \in ToSet(blocks) \cap Created : \/ fanouts[b] = function[b]
                                           \/ function[b] = <<>> /\ fanouts[b] = <<CommonExit>> /\ exit = CommonExit

\* The inductive invariant of update_blocks().
BlocksInv ==
  /\ pc \in {"erase", "visit", "done"} /\ function \in Functions /\ it \in Nat \ {0}
  /\ FanoutsOK /\ Live \subseteq ToSet(blocks)
  /\ \A b \in AllBlocks : ToSet(fanouts[b]) \subseteq ToSet(blocks)
  /\ pc = "erase" => Erasing
  /\ pc \in {"visit", "done"} => Joined /\ VisitInv(mark, visits, back)
  /\ pc = "done" => visits = <<>>

\* What is reachable before the call.
LEMMA LiveFacts ==
  ASSUME BlockAssumption, function \in Functions
  PROVE  /\ function \in [Created -> Seq(Created)] /\ StartBlock \in Live /\ Live \subseteq Created
         /\ StartBlock \in Created /\ CommonExit \notin Created /\ Created \subseteq AllBlocks /\ CommonExit \in AllBlocks
         /\ \A b \in AllBlocks : Targets(function)[b] \subseteq Created
         /\ \A b \in Created : Targets(function)[b] = ToSet(function[b]) /\ ToSet(function[b]) \subseteq Created
         /\ \A b \in Live : ToSet(function[b]) \subseteq Live
         /\ \A T \in SUBSET AllBlocks :
              StartBlock \in T /\ (\A b \in T : Targets(function)[b] \subseteq T) => Live \subseteq T
<1>1. /\ function \in [Created -> Seq(Created)] /\ StartBlock \in Created /\ CommonExit \notin Created
      /\ Created \subseteq AllBlocks /\ CommonExit \in AllBlocks
  BY DEF BlockAssumption, AllBlocks
<1>2. \A b \in Created : function[b] \in Seq(Created)
  BY <1>1
<1>3. \A b \in Created : ToSet(function[b]) \subseteq Created
  BY <1>2 DEF ToSet
<1>4. DOMAIN function = Created
  BY <1>1
<1>5. \A b \in AllBlocks : Targets(function)[b] = IF b \in Created THEN ToSet(function[b]) ELSE {}
  BY <1>4 DEF Targets
<1> DEFINE r == Targets(function)
<1>6. (\A b \in AllBlocks : r[b] \subseteq AllBlocks) /\ (\A b \in AllBlocks : r[b] \subseteq Created)
  BY <1>1, <1>3, <1>5
<1> HIDE DEF r
<1>7. {StartBlock} \in SUBSET AllBlocks
  BY <1>1
<1>8. /\ {StartBlock} \subseteq Reachable(r, {StartBlock}) /\ Reachable(r, {StartBlock}) \subseteq AllBlocks
      /\ \A b \in Reachable(r, {StartBlock}) : r[b] \subseteq Reachable(r, {StartBlock})
      /\ \A T \in SUBSET AllBlocks :
           {StartBlock} \subseteq T /\ (\A b \in T : r[b] \subseteq T) => Reachable(r, {StartBlock}) \subseteq T
  BY ONLY <1>6, <1>7, ReachableLeast
<1>l. Live = Reachable(r, {StartBlock})
  BY DEF Live, r
<1>9. Live \subseteq Created
  <2>1. Created \in SUBSET AllBlocks /\ {StartBlock} \subseteq Created /\ \A b \in Created : r[b] \subseteq Created
    BY <1>1, <1>6
  <2> QED BY ONLY <1>8, <1>l, <2>1
<1>10. StartBlock \in Live /\ \A b \in Live : r[b] \subseteq Live
  BY ONLY <1>8, <1>l
<1>11. \A b \in Created : r[b] = ToSet(function[b])
  BY ONLY <1>1, <1>5 DEF r
<1>12. \A T \in SUBSET AllBlocks : StartBlock \in T /\ (\A b \in T : r[b] \subseteq T) => Live \subseteq T
  BY ONLY <1>8, <1>l
<1>13. \A b \in Live : ToSet(function[b]) \subseteq Live
  BY ONLY <1>9, <1>10, <1>11
<1> QED BY ONLY <1>1, <1>3, <1>6, <1>9, <1>10, <1>11, <1>12, <1>13 DEF r

LEMMA BlocksInvGraphKept ==
  ASSUME BlockAssumption, BlocksInv
  PROVE  GraphKept
<1>1. function \in Functions /\ FanoutsOK /\ Live \subseteq ToSet(blocks) /\ pc \in {"erase", "visit", "done"}
  BY DEF BlocksInv
<1>2. /\ function \in [Created -> Seq(Created)] /\ StartBlock \in Live /\ Live \subseteq Created
      /\ CommonExit \notin Created /\ Created \subseteq AllBlocks
      /\ \A b \in AllBlocks : Targets(function)[b] \subseteq Created
      /\ \A b \in Created : Targets(function)[b] = ToSet(function[b])
  BY <1>1, LiveFacts
<1>3. ReachableKept
  <2> SUFFICES ASSUME NEW b \in Live
               PROVE  /\ b \in ToSet(blocks)
                      /\ fanouts[b] = function[b] \/ (function[b] = <<>> /\ fanouts[b] = <<CommonExit>>)
    BY DEF ReachableKept, Live
  <2>1. b \in ToSet(blocks) /\ b \in Created /\ b \in AllBlocks
    BY <1>1, <1>2
  <2>2. CASE pc = "erase"
    BY <2>1, <2>2 DEF BlocksInv, Erasing
  <2>3. CASE pc \in {"visit", "done"}
    BY <2>1, <2>3 DEF BlocksInv, Joined
  <2> QED BY <1>1, <2>1, <2>2, <2>3
<1>4. ExitReached
  <2> DEFINE ends == {b \in Created : function[b] = <<>>}
  <2> SUFFICES ASSUME pc \in {"visit", "done"}
               PROVE  /\ \A b \in ToSet(blocks) : (fanouts[b] = <<>>) = (b = exit)
                      /\ \A b \in ToSet(blocks) \cap Created :
                           Reachable(Targets(function), {b}) \cap ends # {} => exit \in Reachable(Targets(fanouts), {b})
    BY DEF ExitReached
  <2>1. Joined /\ \A b \in AllBlocks : ToSet(fanouts[b]) \subseteq ToSet(blocks)
    BY DEF BlocksInv
  <2>2. \A b \in ToSet(blocks) : (fanouts[b] = <<>>) = (b = exit)
    <3>1. \A b \in ToSet(blocks) : fanouts[b] = <<>> <=> b = exit
      BY <2>1 DEF Joined
    <3> QED BY ONLY <3>1
  <2>3. ASSUME NEW b \in ToSet(blocks) \cap Created, NEW e \in ends, e \in Reachable(Targets(function), {b})
        PROVE  exit \in Reachable(Targets(fanouts), {b})
    <3> DEFINE f == Targets(function)
               r == Targets(fanouts)
               Q == Reachable(r, {b})
               T == Q \cap ToSet(blocks) \cap Created
    <3>1. /\ {b} \in SUBSET AllBlocks
          /\ \A c \in AllBlocks : f[c] \subseteq AllBlocks
          /\ \A c \in AllBlocks : r[c] = ToSet(fanouts[c]) /\ r[c] \subseteq AllBlocks
      <4>1. DOMAIN fanouts = AllBlocks /\ \A c \in AllBlocks : fanouts[c] \in Seq(AllBlocks)
        BY <1>1 DEF FanoutsOK
      <4>2. \A c \in AllBlocks : r[c] = ToSet(fanouts[c])
        BY <4>1 DEF Targets
      <4>3. \A c \in AllBlocks : ToSet(fanouts[c]) \subseteq AllBlocks
        BY <4>1 DEF ToSet
      <4> QED BY <1>2, <4>2, <4>3
    <3>2. ends \subseteq Created /\ function[e] = <<>> /\ e \in Reachable(f, {b})
      BY <2>3
    <3>f. \A c \in Created : f[c] = ToSet(function[c]) /\ f[c] \subseteq Created
      BY <1>2
    <3> HIDE DEF f, r, ends
    <3>3. b \in Q /\ Q \subseteq AllBlocks /\ \A c \in Q : r[c] \subseteq Q
      BY ONLY <3>1, ReachableLeast
    <3> HIDE DEF Q
    <3>4. \A c \in ToSet(blocks) \cap Created : fanouts[c] = function[c] \/ function[c] = <<>>
      BY <2>1 DEF Joined
    <3>5. ASSUME NEW c \in T PROVE f[c] \subseteq T
      <4>1. f[c] \subseteq r[c]
        <5>1. CASE fanouts[c] = function[c]
          BY <1>2, <3>1, <3>f, <5>1
        <5>2. CASE function[c] = <<>>
          <6>1. ToSet(function[c]) = {}
            BY ONLY <5>2 DEF ToSet
          <6> QED BY <3>f, <6>1
        <5> QED BY <3>4, <5>1, <5>2
      <4>2. r[c] \subseteq ToSet(blocks)
        BY <1>2, <2>1, <3>1
      <4> QED BY <3>3, <3>f, <4>1, <4>2
    <3>6. T \in SUBSET AllBlocks /\ {b} \subseteq T
      BY <1>2, <3>3
    <3> HIDE DEF T
    <3>7. Reachable(f, {b}) \subseteq T
      BY ONLY <3>1, <3>5, <3>6, ReachableLeast
    <3>8. e \in Q /\ e \in ToSet(blocks) /\ e \in Created /\ e \in AllBlocks
      BY <1>2, <3>2, <3>7 DEF T
    <3>9. fanouts[e] = <<>> \/ (fanouts[e] = <<CommonExit>> /\ exit = CommonExit)
      BY <2>1, <3>2, <3>8 DEF Joined
    <3>10. CASE fanouts[e] = <<>>
      BY <2>1, <3>8, <3>10 DEF Joined, Q, r
    <3>11. CASE fanouts[e] = <<CommonExit>> /\ exit = CommonExit
      <4>1. CommonExit \in ToSet(fanouts[e])
        BY ONLY <3>11 DEF ToSet
      <4> QED BY <3>1, <3>3, <3>8, <3>11, <4>1 DEF Q, r
    <3> QED BY <3>9, <3>10, <3>11
  <2>4. ASSUME NEW b \in ToSet(blocks) \cap Created, Reachable(Targets(function), {b}) \cap ends # {}
        PROVE  exit \in Reachable(Targets(fanouts), {b})
    <3>1. PICK e : e \in ends /\ e \in Reachable(Targets(function), {b})
      BY <2>4
    <3> HIDE DEF ends
    <3> QED BY <2>3, <3>1
  <2> QED BY <2>2, <2>4
<1> QED BY <1>3, <1>4 DEF GraphKept

\* In the end the walk has left what can be reached, and the ranks fall along its edges.
LEMMA BlocksInvBackEdges ==
  ASSUME BlocksInv
  PROVE  BackEdgesBreakCycles
<1> SUFFICES ASSUME pc = "done"
             PROVE  /\ \A b \in Reachable(Targets(fanouts), {StartBlock}) : b \notin Reachable(Forward, Forward[b])
                    /\ \A e \in back : e[1] \in Reachable(Forward, {fanouts[e[1]][e[2]]})
  BY DEF BackEdgesBreakCycles
<1>1. FanoutsOK /\ VisitInv(mark, visits, back) /\ visits = <<>>
  BY DEF BlocksInv
<1>2. Len(visits) = 0 /\ \A b \in AllBlocks : mark[b] \in {"NONE", "TEMP", "PERM"}
  BY <1>1 DEF VisitInv
<1>3. \A b \in AllBlocks : mark[b] # "TEMP"
  <2>1. \A b \in AllBlocks : mark[b] = "TEMP" <=> \E i \in 1..Len(visits) : visits[i].block = b
    BY <1>1 DEF VisitInv, OneByOne
  <2>2. \A i \in 1..Len(visits) : FALSE
    BY <1>2
  <2> QED BY ONLY <2>1, <2>2
<1> DEFINE P == {b \in AllBlocks : mark[b] = "PERM"}
           walked == Walked(mark, visits, back)
           forward == Forward
<1>4. \A b \in AllBlocks : \A k : Explored(mark, visits, b, k) <=> mark[b] = "PERM"
  <2>1. \A i \in 1..Len(visits) : FALSE
    BY <1>2
  <2> QED BY ONLY <2>1 DEF Explored
<1>5. \A b \in AllBlocks : \A t : t \in forward[b] <=>
        \E k \in 1..Len(fanouts[b]) : <<b, k>> \notin back /\ fanouts[b][k] = t
  <2> TAKE b \in AllBlocks
  <2>1. DOMAIN fanouts[b] = 1..Len(fanouts[b])
    BY <1>1, FanoutsFacts
  <2>2. forward[b] = {fanouts[b][j] : j \in {k \in DOMAIN fanouts[b] : <<b, k>> \notin back}}
    BY DEF Forward
  <2> HIDE DEF forward
  <2> TAKE t
  <2>3. ASSUME t \in forward[b]
        PROVE  \E k \in 1..Len(fanouts[b]) : <<b, k>> \notin back /\ fanouts[b][k] = t
    <3>1. PICK j : j \in DOMAIN fanouts[b] /\ <<b, j>> \notin back /\ fanouts[b][j] = t
      BY ONLY <2>2, <2>3
    <3> QED BY ONLY <2>1, <3>1
  <2>4. ASSUME NEW k \in 1..Len(fanouts[b]), <<b, k>> \notin back, fanouts[b][k] = t
        PROVE  t \in forward[b]
    <3>1. k \in {j \in DOMAIN fanouts[b] : <<b, j>> \notin back}
      BY ONLY <2>1, <2>4, k \in 1..Len(fanouts[b])
    <3> QED BY ONLY <2>2, <2>4, <3>1
  <2> QED BY ONLY <2>3, <2>4
<1>6. \A b \in AllBlocks : \A t : t \in walked[b] <=>
        t \in AllBlocks /\ \E k \in Nat : ForwardEdge(mark, visits, back, b, k) /\ fanouts[b][k] = t
  BY <1>1, WalkedFacts
<1>7. \A b \in AllBlocks : forward[b] \subseteq AllBlocks
  <2>1. \A b \in AllBlocks : \A k \in 1..Len(fanouts[b]) : fanouts[b][k] \in AllBlocks
    BY <1>1, FanoutsFacts
  <2> HIDE DEF forward
  <2>2. ASSUME NEW b \in AllBlocks, NEW t \in forward[b] PROVE t \in AllBlocks
    <3>1. PICK k \in 1..Len(fanouts[b]) : fanouts[b][k] = t
      BY ONLY <1>5, b \in AllBlocks, t \in forward[b]
    <3> QED BY ONLY <2>1, <3>1, b \in AllBlocks
  <2> QED BY ONLY <2>2
<1>8. \A b \in AllBlocks : walked[b] \subseteq forward[b]
  BY <1>5, <1>6 DEF ForwardEdge
<1>9. \A b \in P : forward[b] \subseteq walked[b]
  <2> SUFFICES ASSUME NEW b \in P, NEW t \in forward[b] PROVE t \in walked[b]
    OBVIOUS
  <2>1. PICK k \in 1..Len(fanouts[b]) : <<b, k>> \notin back /\ fanouts[b][k] = t
    BY <1>5
  <2>2. k \in Nat /\ b \in AllBlocks /\ mark[b] = "PERM" /\ t \in AllBlocks
    BY <1>1, <1>7, <2>1, FanoutsFacts
  <2>3. ForwardEdge(mark, visits, back, b, k)
    BY <1>4, <2>1, <2>2 DEF ForwardEdge
  <2> QED BY <1>6, <2>1, <2>2, <2>3
<1> HIDE DEF walked, forward
<1>10. StartBlock \in P /\ StartBlock \in AllBlocks
  BY <1>1, <1>2, <1>3 DEF VisitInv, NothingMissed
<1> DEFINE r == Targets(fanouts)
<1>11. \A b \in AllBlocks : r[b] \subseteq AllBlocks /\ \A t \in r[b] : \E k \in 1..Len(fanouts[b]) : fanouts[b][k] = t
  <2>1. DOMAIN fanouts = AllBlocks
    BY <1>1 DEF FanoutsOK
  <2>2. \A b \in AllBlocks : r[b] = ToSet(fanouts[b])
    BY <2>1 DEF Targets
  <2> QED BY <1>1, <2>2, FanoutsFacts DEF ToSet
<1> HIDE DEF r
<1>12. ASSUME NEW b \in P PROVE r[b] \subseteq P
  <2> SUFFICES ASSUME NEW t \in r[b] PROVE t \in P
    OBVIOUS
  <2>1. PICK k \in 1..Len(fanouts[b]) : fanouts[b][k] = t
    BY <1>11
  <2>2. mark[t] # "NONE"
    BY <1>1, <1>4, <2>1 DEF VisitInv, NothingMissed
  <2> QED BY <1>2, <1>3, <1>11, <2>2
<1>13. Reachable(r, {StartBlock}) \subseteq P
  <2> DEFINE Q == P
  <2>1. Q \in SUBSET AllBlocks /\ {StartBlock} \subseteq Q /\ {StartBlock} \in SUBSET AllBlocks /\ \A b \in Q : r[b] \subseteq Q
    BY <1>10, <1>12
  <2>2. \A b \in AllBlocks : r[b] \subseteq AllBlocks
    BY <1>11
  <2> HIDE DEF Q
  <2>3. Reachable(r, {StartBlock}) \subseteq Q
    BY ONLY <2>1, <2>2, ReachableLeast
  <2> QED BY <2>3 DEF Q
<1>14. PICK rank \in [AllBlocks -> Nat], M \in Nat : \A b \in AllBlocks : mark[b] = "PERM" =>
         rank[b] < M /\ \A t \in walked[b] : mark[t] = "PERM" /\ rank[t] < rank[b]
  BY <1>1 DEF VisitInv, LeftInOrder, walked
<1>15. ASSUME NEW b \in P PROVE b \notin Reachable(forward, forward[b])
  <2> DEFINE T == {x \in AllBlocks : mark[x] = "PERM" /\ rank[x] < rank[b]}
             A == forward[b]
  <2>1. \A x \in P : \A t \in forward[x] : t \in AllBlocks /\ mark[t] = "PERM" /\ rank[t] < rank[x]
    BY <1>7, <1>9, <1>14
  <2>2. \A x \in AllBlocks : rank[x] \in Nat
    BY <1>14
  <2>3. A \in SUBSET AllBlocks /\ A \subseteq T /\ T \in SUBSET AllBlocks
    BY <1>7, <2>1
  <2>4. \A x \in T : forward[x] \subseteq T
    BY <2>1, <2>2
  <2>5. b \notin T
    BY <2>2
  <2> HIDE DEF T, A
  <2>6. Reachable(forward, A) \subseteq T
    BY ONLY <1>7, <2>3, <2>4, ReachableLeast
  <2> QED BY <2>5, <2>6 DEF A
<1>16. ASSUME NEW e \in back PROVE e[1] \in Reachable(forward, {fanouts[e[1]][e[2]]})
  <2>1. back \subseteq AllBlocks \X Nat
    BY <1>1 DEF VisitInv, BackCloses
  <2>2. PICK b \in AllBlocks, k \in Nat : e = <<b, k>>
    BY <2>1
  <2>3. Closes(mark, visits, back, b, k)
    BY <1>1, <2>2 DEF VisitInv, BackCloses
  <2>4. k \in 1..Len(fanouts[b]) /\ b \in Reachable(walked, {fanouts[b][k]})
    BY <2>3 DEF Closes, walked
  <2>5. {fanouts[b][k]} \in SUBSET AllBlocks
    BY <1>1, <2>4, FanoutsFacts
  <2>6. Reachable(walked, {fanouts[b][k]}) \subseteq Reachable(forward, {fanouts[b][k]})
    BY ONLY <1>7, <1>8, <2>5, ReachableGrows
  <2> QED BY <2>2, <2>4, <2>6
<1> QED BY <1>13, <1>15, <1>16 DEF r, forward

\* The walk changes the marks, its path and the back edges only.
LEMMA SameBlocks ==
  ASSUME BlocksInv, pc = "visit", pc' \in {"visit", "done"}, UNCHANGED <<function, blocks, fanouts, it, exit>>,
         VisitInv(mark', visits', back'), pc' = "done" => visits' = <<>>
  PROVE  BlocksInv'
<1>1. Walked(mark, visits, back)' = Walked(mark', visits', back')
  BY DEF Walked, ForwardEdge, Explored
<1>2. OneByOne(mark, visits, back)' = OneByOne(mark', visits', back')
  BY <1>1 DEF OneByOne
<1>3. NothingMissed(mark, visits)' = NothingMissed(mark', visits')
  BY DEF NothingMissed, Explored
<1>4. LeftInOrder(mark, visits, back)' = LeftInOrder(mark', visits', back')
  BY <1>1 DEF LeftInOrder
<1>5. BackCloses(mark, visits, back)' = BackCloses(mark', visits', back')
  BY <1>1 DEF BackCloses, Closes, Explored
<1>6. VisitInv(mark, visits, back)'
  BY <1>2, <1>3, <1>4, <1>5 DEF VisitInv
<1>7. FanoutsOK' /\ Joined' /\ Live' = Live
  BY DEF BlocksInv, FanoutsOK, Joined, Live, Targets
<1>8. pc' # "erase" /\ pc' \in {"erase", "visit", "done"}
  OBVIOUS
<1>9. /\ function' \in Functions /\ it' \in Nat \ {0} /\ Live' \subseteq ToSet(blocks')
      /\ \A b \in AllBlocks : ToSet(fanouts'[b]) \subseteq ToSet(blocks')
  BY <1>7 DEF BlocksInv
<1> QED BY <1>6, <1>7, <1>8, <1>9 DEF BlocksInv

LEMMA BlocksInvReturn ==
  ASSUME BlocksInv, Return
  PROVE  BlocksInv'
<1>1. FanoutsOK /\ VisitInv(mark, visits, back) /\ visits \in Seq(Activations) /\ visits # <<>>
  BY DEF BlocksInv, Return, VisitInv
<1> DEFINE n == Len(visits)
           k == visits[n].next
<1>2. n \in Nat /\ n > 0 /\ n \in 1..n /\ visits[n] \in Activations /\ k \in Nat
  <2>1. n \in Nat /\ n > 0 /\ n \in 1..n /\ visits[n] \in Activations
    BY <1>1
  <2> QED BY <2>1 DEF Activations
<1>3. /\ k <= Len(fanouts[visits[n].block]) /\ mark[fanouts[visits[n].block][k]] # "NONE"
      /\ visits' = [visits EXCEPT ![n].next = @ + 1] /\ mark' = mark
      /\ back' = IF IsBackEdge(Target) THEN back \cup {<<visits[n].block, k>>} ELSE back
      /\ pc = "visit" /\ pc' = "visit" /\ UNCHANGED <<function, blocks, fanouts, it, exit>>
  BY DEF Return, Innermost, Target, Advance
<1>4. IsBackEdge(Target) <=> mark[fanouts[visits[n].block][k]] = "TEMP"
  BY DEF IsBackEdge, Target, Innermost
<1>5. /\ visits' \in Seq(Activations) /\ Len(visits') = n
      /\ \A i \in 1..n : visits'[i].block = visits[i].block
      /\ \A i \in 1..n : visits'[i].next = IF i = n THEN k + 1 ELSE visits[i].next
  <2> DEFINE a == [visits[n] EXCEPT !.next = @ + 1]
  <2>1. a \in Activations /\ a.block = visits[n].block /\ a.next = k + 1
    BY <1>2 DEF Activations
  <2>2. visits' = [visits EXCEPT ![n] = a]
    BY <1>3
  <2> HIDE DEF a
  <2> QED BY <1>1, <1>2, <2>1, <2>2
<1>6. back' = IF mark[fanouts[visits[n].block][k]] = "TEMP" THEN back \cup {<<visits[n].block, k>>} ELSE back
  BY <1>3, <1>4
<1>7. VisitInv(mark, visits', back')
  <2> DEFINE u == visits[n].block
             t == fanouts[u][k]
             W == visits'
             C == back'
             V == visits
             m == mark
             B == back
  <2>1. /\ FanoutsOK /\ VisitInv(m, V, B) /\ n = Len(V) /\ n > 0 /\ u = V[n].block /\ k = V[n].next
        /\ k <= Len(fanouts[u]) /\ t = fanouts[u][k] /\ m[t] # "NONE" /\ W \in Seq(Activations) /\ Len(W) = n
        /\ \A i \in 1..n : W[i].block = V[i].block
        /\ \A i \in 1..n : W[i].next = IF i = n THEN k + 1 ELSE V[i].next
        /\ C = IF m[t] = "TEMP" THEN B \cup {<<u, k>>} ELSE B
    BY <1>1, <1>2, <1>3, <1>5, <1>6
  <2> HIDE DEF n, k, u, t, V, W, C, m, B
  <2>2. VisitInv(m, W, C)
    BY ONLY <2>1, ReturnVisit, SMTT(60)
  <2> QED BY <2>2 DEF m, W, C
<1> QED BY <1>3, <1>7, SameBlocks

LEMMA BlocksInvDescend ==
  ASSUME BlocksInv, Descend
  PROVE  BlocksInv'
<1>1. FanoutsOK /\ VisitInv(mark, visits, back) /\ visits \in Seq(Activations) /\ visits # <<>>
      /\ mark \in [AllBlocks -> {"NONE", "TEMP", "PERM"}]
  BY DEF BlocksInv, Descend, VisitInv
<1> DEFINE n == Len(visits)
           k == visits[n].next
           u == visits[n].block
           t == fanouts[u][k]
<1>2. n \in Nat /\ n > 0 /\ n \in 1..n /\ visits[n] \in Activations /\ k \in Nat /\ u \in AllBlocks /\ k \in 1..(Len(fanouts[u]) + 1)
  <2>1. n \in Nat /\ n > 0 /\ n \in 1..n /\ visits[n] \in Activations
    BY <1>1
  <2> QED BY <1>1, <2>1, VisitFacts DEF Activations
<1>3. /\ k <= Len(fanouts[u]) /\ mark[t] = "NONE"
      /\ visits' = Append([visits EXCEPT ![n].next = @ + 1], [block |-> t, next |-> 1])
      /\ mark' = [mark EXCEPT ![t] = "TEMP"] /\ back' = back
      /\ pc = "visit" /\ pc' = "visit" /\ UNCHANGED <<function, blocks, fanouts, it, exit>>
  BY DEF Descend, Innermost, Target, Advance
<1>4. t \in AllBlocks
  <2>1. Len(fanouts[u]) \in Nat /\ \A j \in 1..Len(fanouts[u]) : fanouts[u][j] \in AllBlocks
    BY <1>1, <1>2, FanoutsFacts
  <2>2. k \in 1..Len(fanouts[u])
    BY <1>2, <1>3, <2>1
  <2> QED BY <2>1, <2>2
<1>5. /\ visits' \in Seq(Activations) /\ Len(visits') = n + 1
      /\ \A i \in 1..n : visits'[i].block = visits[i].block
      /\ \A i \in 1..n : visits'[i].next = IF i = n THEN k + 1 ELSE visits[i].next
      /\ visits'[n + 1].block = t /\ visits'[n + 1].next = 1
  <2> DEFINE a == [visits[n] EXCEPT !.next = @ + 1]
             c == [block |-> t, next |-> 1]
             U == [visits EXCEPT ![n] = a]
  <2>1. a \in Activations /\ a.block = u /\ a.next = k + 1 /\ c \in Activations /\ c.block = t /\ c.next = 1
    BY <1>2, <1>4 DEF Activations
  <2>2. visits' = Append(U, c)
    BY <1>3
  <2> HIDE DEF a, c, t
  <2>3. U \in Seq(Activations) /\ Len(U) = n /\ \A i \in 1..n : U[i] = IF i = n THEN a ELSE visits[i]
    BY <1>1, <1>2, <2>1
  <2> HIDE DEF U
  <2>4. /\ visits' \in Seq(Activations) /\ Len(visits') = n + 1 /\ visits'[n + 1] = c
        /\ \A i \in 1..n : visits'[i] = U[i]
    BY <1>2, <2>1, <2>2, <2>3
  <2> QED BY <1>2, <2>1, <2>3, <2>4
<1>6. mark' \in [AllBlocks -> {"NONE", "TEMP", "PERM"}] /\ \A b \in AllBlocks : mark'[b] = IF b = t THEN "TEMP" ELSE mark[b]
  BY <1>1, <1>3, <1>4
<1>7. VisitInv(mark', visits', back)
  <2> DEFINE W == visits'
             l == mark'
             V == visits
             m == mark
             B == back
  <2>1. /\ FanoutsOK /\ VisitInv(m, V, B) /\ n = Len(V) /\ n > 0 /\ u = V[n].block /\ k = V[n].next
        /\ k <= Len(fanouts[u]) /\ t = fanouts[u][k] /\ m[t] = "NONE" /\ W \in Seq(Activations) /\ Len(W) = n + 1
        /\ \A i \in 1..n : W[i].block = V[i].block
        /\ \A i \in 1..n : W[i].next = IF i = n THEN k + 1 ELSE V[i].next
        /\ W[n + 1].block = t /\ W[n + 1].next = 1
        /\ l \in [AllBlocks -> {"NONE", "TEMP", "PERM"}] /\ \A b \in AllBlocks : l[b] = IF b = t THEN "TEMP" ELSE m[b]
    BY <1>1, <1>2, <1>3, <1>5, <1>6
  <2> HIDE DEF n, k, u, t, V, W, l, m, B
  <2>2. VisitInv(l, W, B)
    BY ONLY <2>1, DescendVisit, SMTT(60)
  <2> QED BY <2>2 DEF W, l, B
<1> QED BY <1>3, <1>7, SameBlocks

LEMMA BlocksInvLeave ==
  ASSUME BlocksInv, LeaveBlock
  PROVE  BlocksInv'
<1>1. FanoutsOK /\ VisitInv(mark, visits, back) /\ visits \in Seq(Activations) /\ visits # <<>>
      /\ mark \in [AllBlocks -> {"NONE", "TEMP", "PERM"}]
  BY DEF BlocksInv, LeaveBlock, VisitInv
<1> DEFINE n == Len(visits)
           u == visits[n].block
<1>2. n \in Nat /\ n > 0 /\ n \in 1..n /\ visits[n] \in Activations /\ u \in AllBlocks
  <2>1. n \in Nat /\ n > 0 /\ n \in 1..n /\ visits[n] \in Activations
    BY <1>1
  <2> QED BY <2>1 DEF Activations
<1>3. /\ visits[n].next > Len(fanouts[u])
      /\ visits' = Front(visits) /\ mark' = [mark EXCEPT ![u] = "PERM"] /\ back' = back
      /\ pc = "visit" /\ pc' = "visit" /\ UNCHANGED <<function, blocks, fanouts, it, exit>>
  BY DEF LeaveBlock, Innermost
<1>4. visits' \in Seq(Activations) /\ Len(visits') = n - 1 /\ \A i \in 1..(n - 1) : visits'[i] = visits[i]
  <2>1. visits' = SubSeq(visits, 1, n - 1)
    BY <1>3 DEF Front
  <2>2. PICK o \in Nat : o = n - 1
    BY <1>2
  <2>3. visits' = SubSeq(visits, 1, o) /\ o <= Len(visits)
    BY <1>2, <2>1, <2>2
  <2>4. visits' \in Seq(Activations)
    BY <1>1, <2>2, <2>3
  <2>5. Len(visits') = o
    BY <1>1, <2>2, <2>3
  <2>6. \A i \in 1..o : visits'[i] = visits[i]
    BY <1>1, <2>2, <2>3
  <2> QED BY <2>2, <2>4, <2>5, <2>6
<1>5. mark' \in [AllBlocks -> {"NONE", "TEMP", "PERM"}] /\ \A b \in AllBlocks : mark'[b] = IF b = u THEN "PERM" ELSE mark[b]
  BY <1>1, <1>2, <1>3
<1>6. VisitInv(mark', visits', back)
  <2> DEFINE W == visits'
             l == mark'
             V == visits
             m == mark
             B == back
  <2>1. /\ FanoutsOK /\ VisitInv(m, V, B) /\ n = Len(V) /\ n > 0 /\ u = V[n].block /\ V[n].next > Len(fanouts[u])
        /\ W \in Seq(Activations) /\ Len(W) = n - 1 /\ \A i \in 1..(n - 1) : W[i] = V[i]
        /\ l \in [AllBlocks -> {"NONE", "TEMP", "PERM"}] /\ \A b \in AllBlocks : l[b] = IF b = u THEN "PERM" ELSE m[b]
    BY <1>1, <1>2, <1>3, <1>4, <1>5
  <2> HIDE DEF n, u, V, W, l, m, B
  <2>2. VisitInv(l, W, B)
    BY ONLY <2>1, LeaveVisit, SMTT(60)
  <2> QED BY <2>2 DEF W, l, B
<1> QED BY <1>3, <1>6, SameBlocks

LEMMA BlocksInvInit ==
  ASSUME BlockAssumption, InitBlocks
  PROVE  BlocksInv
<1>1. /\ function \in Functions /\ pc = "erase" /\ it = 1 /\ exit = CommonExit
      /\ fanouts = [b \in AllBlocks |-> IF b = CommonExit THEN <<>> ELSE function[b]]
      /\ blocks = [b \in Created |-> b]
      /\ mark = [b \in AllBlocks |-> "NONE"] /\ visits = <<>> /\ back = {}
  BY DEF InitBlocks
<1>2. /\ function \in [Created -> Seq(Created)] /\ Live \subseteq Created
      /\ StartBlock \in Created /\ CommonExit \notin Created /\ Created \subseteq AllBlocks /\ CommonExit \in AllBlocks
      /\ \A b \in Created : ToSet(function[b]) \subseteq Created
      /\ \A b \in AllBlocks : b \in Created \/ b = CommonExit
  BY <1>1, LiveFacts DEF AllBlocks
<1>3. PICK n \in Nat : Created = 1..n
  BY DEF BlockAssumption
<1>4. /\ blocks \in Seq(Created) /\ Len(blocks) = n /\ \A i \in 1..n : blocks[i] = i
  <2>1. blocks = [b \in 1..n |-> b] /\ \A b \in 1..n : b \in Created
    BY <1>1, <1>3
  <2> QED BY ONLY <2>1, <1>3
<1>5. ToSet(blocks) = Created
  <2>1. DOMAIN blocks = Created /\ \A b \in Created : blocks[b] = b
    BY <1>1
  <2> QED BY ONLY <2>1 DEF ToSet
<1>6. ToSet(<<>>) = {} /\ <<>> \in Seq(AllBlocks)
  BY DEF ToSet
<1>7. \A b \in Created : fanouts[b] = function[b] /\ function[b] \in Seq(Created)
  BY <1>1, <1>2
<1>8. fanouts[CommonExit] = <<>>
  BY <1>1, <1>2
<1>9. \A b \in AllBlocks : ToSet(fanouts[b]) \subseteq ToSet(blocks)
  BY ONLY <1>2, <1>5, <1>6, <1>7, <1>8
<1>10. FanoutsOK
  <2>1. \A b \in AllBlocks : fanouts[b] \in Seq(AllBlocks)
    <3>1. \A s \in Seq(Created) : s \in Seq(AllBlocks)
      BY <1>2
    <3> QED BY ONLY <1>2, <1>6, <1>7, <1>8, <3>1
  <2> QED BY <1>1, <2>1 DEF FanoutsOK
<1>11. Erasing
  <2>1. \A b \in AllBlocks : fanouts[b] = IF b \in ToSet(blocks) THEN function[b] ELSE <<>>
    BY ONLY <1>2, <1>5, <1>7, <1>8
  <2>2. \A i, j \in 1..Len(blocks) : blocks[i] = blocks[j] => i = j
    BY ONLY <1>4
  <2> QED BY <1>1, <1>4, <2>1, <2>2 DEF Erasing
<1> QED BY <1>1, <1>2, <1>5, <1>9, <1>10, <1>11 DEF BlocksInv

LEMMA ToSetFacts ==
  ASSUME NEW S, NEW s \in Seq(S)
  PROVE  /\ Len(s) \in Nat /\ ToSet(s) \subseteq S /\ \A i \in 1..Len(s) : s[i] \in ToSet(s)
         /\ \A x \in ToSet(s) : \E i \in 1..Len(s) : s[i] = x
  BY DEF ToSet

\* One element of a sequence without repetitions is removed.
LEMMA RemoveAtFacts ==
  ASSUME NEW S, NEW s \in Seq(S), \A i, j \in 1..Len(s) : s[i] = s[j] => i = j, NEW p \in 1..Len(s)
  PROVE  /\ RemoveAt(s, p) \in Seq(S) /\ ToSet(RemoveAt(s, p)) = ToSet(s) \ {s[p]}
         /\ \A i, j \in 1..Len(RemoveAt(s, p)) : RemoveAt(s, p)[i] = RemoveAt(s, p)[j] => i = j
<1> DEFINE l == SubSeq(s, 1, p - 1)
           r == SubSeq(s, p + 1, Len(s))
<1>0. PICK n \in Nat : n = Len(s)
  OBVIOUS
<1>1. PICK o \in Nat : o = p - 1
  BY <1>0
<1>2. PICK q \in Nat : q = p + 1
  BY <1>0
<1>3. /\ SubSeq(s, 1, o) \in Seq(S) /\ Len(SubSeq(s, 1, o)) = o /\ \A i \in 1..o : SubSeq(s, 1, o)[i] = s[i]
  <2>1. o <= Len(s)
    BY <1>0, <1>1
  <2>2. SubSeq(s, 1, o) \in Seq(S)
    BY <1>0, <1>1, <2>1
  <2>3. Len(SubSeq(s, 1, o)) = o
    BY <1>0, <1>1, <2>1
  <2>4. \A i \in 1..o : SubSeq(s, 1, o)[i] = s[i]
    BY <1>0, <1>1, <2>1
  <2> QED BY <2>2, <2>3, <2>4
<1>4. /\ SubSeq(s, q, n) \in Seq(S) /\ Len(SubSeq(s, q, n)) = n - p
      /\ \A i \in 1..(n - p) : SubSeq(s, q, n)[i] = s[p + i]
  <2>1. q >= 1 /\ q <= n + 1 /\ n - p \in Nat
    BY <1>0, <1>2
  <2>2. SubSeq(s, q, n) \in Seq(S)
    BY <1>0, <1>2, <2>1
  <2>3. Len(SubSeq(s, q, n)) = n - p
    BY <1>0, <1>2, <2>1
  <2>4. \A i \in 1..(n - p) : SubSeq(s, q, n)[i] = s[p + i]
    BY <1>0, <1>2, <2>1, <2>3
  <2> QED BY <2>2, <2>3, <2>4
<1> DEFINE R == RemoveAt(s, p)
<1>5. R = SubSeq(s, 1, o) \o SubSeq(s, q, n)
  BY <1>0, <1>1, <1>2 DEF RemoveAt
<1>6. /\ R \in Seq(S) /\ Len(R) = n - 1
      /\ \A i \in 1..(n - 1) : R[i] = IF i <= o THEN s[i] ELSE s[i + 1]
  <2> DEFINE a == SubSeq(s, 1, o)
             b == SubSeq(s, q, n)
  <2>1. a \in Seq(S) /\ Len(a) = o /\ b \in Seq(S) /\ Len(b) = n - p /\ R = a \o b
        /\ (\A i \in 1..o : a[i] = s[i]) /\ (\A i \in 1..(n - p) : b[i] = s[p + i])
        /\ p \in 1..n
    BY <1>0, <1>3, <1>4, <1>5
  <2> HIDE DEF a, b, R
  <2>2. R \in Seq(S) /\ Len(R) = Len(a) + Len(b)
    <3>1. a \in Seq(S) /\ b \in Seq(S) /\ R = a \o b
      BY ONLY <2>1
    <3>2. R \in Seq(S)
      BY ONLY <3>1
    <3>3. Len(R) = Len(a) + Len(b)
      BY ONLY <3>1
    <3> QED BY ONLY <3>2, <3>3
  <2>3. Len(R) = n - 1
    BY ONLY <1>0, <1>1, <2>1, <2>2
  <2>4. ASSUME NEW i \in 1..(n - 1), i <= o PROVE R[i] = s[i]
    <3>1. i \in 1..o
      BY ONLY <1>1, <2>4
    <3>2. R[i] = a[i]
      BY ONLY <1>0, <2>1, <2>2, <2>3, <2>4, <3>1
    <3> QED BY ONLY <2>1, <3>1, <3>2
  <2>5. ASSUME NEW i \in 1..(n - 1), ~ (i <= o) PROVE R[i] = s[i + 1]
    <3>0. n \in Nat /\ p \in 1..n /\ o = p - 1 /\ i \in 1..(n - 1) /\ ~ (i <= o)
      BY ONLY <1>0, <1>1, <2>1, <2>5, i \in 1..(n - 1)
    <3>1. PICK d \in 1..(n - p) : d = i - o
      <4>1. i - o \in 1..(n - p)
        BY ONLY <3>0
      <4> QED BY ONLY <4>1
    <3>2. p + d = i + 1
      BY ONLY <1>0, <1>1, <2>1, <2>5, <3>1
    <3>3. R[i] = b[d]
      BY ONLY <1>0, <1>1, <2>1, <2>2, <2>3, <2>5, <3>1
    <3> QED BY ONLY <2>1, <3>1, <3>2, <3>3
  <2> QED BY <2>2, <2>3, <2>4, <2>5
<1> HIDE DEF R
<1>n. n \in Nat /\ n = Len(s) /\ p \in 1..n /\ o = p - 1 /\ Len(R) = n - 1
  BY <1>0, <1>1, <1>6
<1>x. ASSUME NEW i \in 1..(n - 1)
      PROVE  \E y \in 1..n : y = (IF i <= o THEN i ELSE i + 1) /\ y # p /\ s[y] = R[i]
  <2>1. R[i] = IF i <= o THEN s[i] ELSE s[i + 1]
    BY ONLY <1>6, i \in 1..(n - 1)
  <2>2. CASE i <= o
    <3>1. i \in 1..n /\ i # p
      BY ONLY <1>n, <2>2, i \in 1..(n - 1)
    <3> QED BY ONLY <2>1, <2>2, <3>1
  <2>3. CASE ~ (i <= o)
    <3>1. i + 1 \in 1..n /\ i + 1 # p
      BY ONLY <1>n, <2>3, i \in 1..(n - 1)
    <3> QED BY ONLY <2>1, <2>3, <3>1
  <2> QED BY <2>2, <2>3
<1>7. \A i, j \in 1..Len(R) : R[i] = R[j] => i = j
  <2> TAKE i, j \in 1..Len(R)
  <2> HAVE R[i] = R[j]
  <2>1. i \in 1..(n - 1) /\ j \in 1..(n - 1)
    BY ONLY <1>n, i \in 1..Len(R), j \in 1..Len(R)
  <2>2. PICK x \in 1..n : x = (IF i <= o THEN i ELSE i + 1) /\ s[x] = R[i]
    BY ONLY <1>x, <2>1
  <2>3. PICK y \in 1..n : y = (IF j <= o THEN j ELSE j + 1) /\ s[y] = R[j]
    BY ONLY <1>x, <2>1
  <2>4. x = y
    BY <1>n, <2>2, <2>3
  <2> QED BY ONLY <1>n, <2>1, <2>2, <2>3, <2>4
<1>8. ASSUME NEW x \in ToSet(R) PROVE x \in ToSet(s) \ {s[p]}
  <2>1. PICK i \in 1..(n - 1) : R[i] = x
    <3>1. R \in Seq(S)
      BY <1>6
    <3> QED BY ONLY <1>n, <3>1, x \in ToSet(R), ToSetFacts
  <2>2. PICK y \in 1..n : y # p /\ s[y] = x
    BY ONLY <1>x, <2>1
  <2>3. s[y] # s[p]
    BY <1>n, <2>2
  <2>4. s[y] \in ToSet(s)
    BY ONLY s \in Seq(S), <1>n, <2>2, ToSetFacts
  <2> QED BY ONLY <2>2, <2>3, <2>4
<1>9. ASSUME NEW x \in ToSet(s), x # s[p] PROVE x \in ToSet(R)
  <2>1. PICK y \in 1..n : s[y] = x
    BY <1>0, ToSetFacts
  <2>2. y # p
    BY <1>9, <2>1
  <2>3. PICK i \in 1..(n - 1) : y = (IF i <= o THEN i ELSE i + 1)
    <3>1. CASE y < p
      <4>1. y \in 1..(n - 1) /\ y <= o
        BY <1>0, <1>1, <3>1
      <4> QED BY <4>1
    <3>2. CASE y > p
      <4>1. y - 1 \in 1..(n - 1) /\ ~ (y - 1 <= o) /\ y = (y - 1) + 1
        BY <1>0, <1>1, <3>2
      <4> QED BY <4>1
    <3> QED BY <1>0, <2>2, <3>1, <3>2
  <2>4. R[i] = x
    BY <1>6, <2>1, <2>3
  <2> QED BY <1>6, <2>4, ToSetFacts
<1> QED BY <1>6, <1>7, <1>8, <1>9 DEF R

\* Nothing jumps to an erased block, so that it could not be reached.
LEMMA BlocksInvErase ==
  ASSUME BlockAssumption, BlocksInv, Erase
  PROVE  BlocksInv'
<1>1. /\ pc = "erase" /\ function \in Functions /\ it \in Nat \ {0} /\ FanoutsOK /\ Live \subseteq ToSet(blocks)
      /\ \A c \in AllBlocks : ToSet(fanouts[c]) \subseteq ToSet(blocks)
  BY DEF BlocksInv, Erase
<1>2. /\ blocks \in Seq(Created) /\ \A i, j \in 1..Len(blocks) : blocks[i] = blocks[j] => i = j
      /\ \A c \in AllBlocks : fanouts[c] = IF c \in ToSet(blocks) THEN function[c] ELSE <<>>
      /\ mark = [c \in AllBlocks |-> "NONE"] /\ visits = <<>> /\ back = {}
  BY <1>1 DEF BlocksInv, Erasing
<1> DEFINE b == blocks[it]
<1>3. it \in 1..Len(blocks) /\ Fanins(b) = {} /\ b # StartBlock
  BY <1>1, <1>2 DEF Erase, Excessive
<1>4. /\ fanouts' = [fanouts EXCEPT ![b] = <<>>] /\ blocks' = RemoveAt(blocks, it)
      /\ UNCHANGED <<pc, function, it, exit, mark, visits, back>>
  BY DEF Erase
<1>5. /\ Live \subseteq Created /\ StartBlock \in Live /\ Created \subseteq AllBlocks
      /\ \A c \in Created : Targets(function)[c] = ToSet(function[c])
      /\ \A c \in Live : ToSet(function[c]) \subseteq Live
      /\ \A T \in SUBSET AllBlocks :
           StartBlock \in T /\ (\A c \in T : Targets(function)[c] \subseteq T) => Live \subseteq T
  BY <1>1, LiveFacts
<1>6. /\ blocks' \in Seq(Created) /\ ToSet(blocks') = ToSet(blocks) \ {b}
      /\ \A i, j \in 1..Len(blocks') : blocks'[i] = blocks'[j] => i = j
  <2> DEFINE R == RemoveAt(blocks, it)
  <2>1. /\ R \in Seq(Created) /\ ToSet(R) = ToSet(blocks) \ {b}
        /\ \A i, j \in 1..Len(R) : R[i] = R[j] => i = j
    BY ONLY <1>2, <1>3, RemoveAtFacts
  <2> HIDE DEF R, b
  <2> QED BY ONLY <1>4, <2>1 DEF R
<1>7. b \in Created /\ b \in ToSet(blocks) /\ b \in AllBlocks
  BY <1>2, <1>3, <1>5, ToSetFacts
<1> HIDE DEF b
<1>8. \A c \in ToSet(blocks) : b \notin ToSet(fanouts[c])
  BY <1>3 DEF Fanins
<1>9. ToSet(<<>>) = {}
  BY DEF ToSet
<1>10. \A c \in AllBlocks : b \notin ToSet(fanouts[c])
  <2> TAKE c \in AllBlocks
  <2>1. CASE c \in ToSet(blocks)
    BY ONLY <1>8, <2>1
  <2>2. CASE c \notin ToSet(blocks)
    <3>1. fanouts[c] = <<>>
      BY ONLY <1>2, <2>2, c \in AllBlocks
    <3> QED BY ONLY <1>9, <3>1
  <2> QED BY <2>1, <2>2
<1>11. b \notin Live
  <2> DEFINE T == Live \ {b}
  <2>1. T \in SUBSET AllBlocks /\ StartBlock \in T
    BY <1>3, <1>5
  <2>2. ASSUME NEW c \in T PROVE Targets(function)[c] \subseteq T
    <3>1. c \in Live /\ c \in ToSet(blocks) /\ c \in Created /\ c \in AllBlocks
      BY <1>1, <1>5
    <3>2. fanouts[c] = function[c]
      BY ONLY <1>2, <3>1
    <3>3. b \notin ToSet(function[c])
      BY ONLY <1>8, <3>1, <3>2
    <3> QED BY ONLY <1>5, <3>1, <3>3
  <2>3. Live \subseteq T
    <3> HIDE DEF T
    <3> QED BY ONLY <1>5, <2>1, <2>2
  <2> QED BY <2>3
<1>12. \A c \in AllBlocks : fanouts'[c] = IF c = b THEN <<>> ELSE fanouts[c]
  <2>1. DOMAIN fanouts = AllBlocks
    BY <1>1 DEF FanoutsOK
  <2> QED BY ONLY <1>4, <1>7, <2>1
<1>13. \A c \in AllBlocks : ToSet(fanouts'[c]) \subseteq ToSet(blocks')
  BY ONLY <1>1, <1>6, <1>9, <1>10, <1>12
<1>14. FanoutsOK'
  <2>1. <<>> \in Seq(AllBlocks)
    OBVIOUS
  <2> QED BY ONLY <1>1, <1>4, <1>7, <2>1 DEF FanoutsOK
<1>15. Live' \subseteq ToSet(blocks')
  <2>1. Live' = Live
    BY ONLY <1>4 DEF Live, Targets
  <2> QED BY ONLY <1>1, <1>6, <1>11, <2>1
<1>16. Erasing'
  <2>1. \A c \in AllBlocks : fanouts'[c] = IF c \in ToSet(blocks') THEN function'[c] ELSE <<>>
    BY ONLY <1>2, <1>4, <1>6, <1>12
  <2> QED BY ONLY <1>2, <1>4, <1>6, <2>1 DEF Erasing
<1>17. pc' = "erase" /\ function' \in Functions /\ it' \in Nat \ {0}
  BY ONLY <1>1, <1>4
<1> QED BY ONLY <1>13, <1>14, <1>15, <1>16, <1>17 DEF BlocksInv

LEMMA BlocksInvKeep ==
  ASSUME BlocksInv, Keep
  PROVE  BlocksInv'
<1>1. /\ pc = "erase" /\ pc' = "erase" /\ it' = it + 1
      /\ UNCHANGED <<function, blocks, fanouts, exit, mark, visits, back>>
  BY DEF Keep
<1>2. it' \in Nat \ {0}
  BY <1>1 DEF BlocksInv
<1>3. Live' = Live /\ (FanoutsOK => FanoutsOK') /\ (Erasing => Erasing')
  BY <1>1 DEF Live, Targets, FanoutsOK, Erasing
<1> QED BY <1>1, <1>2, <1>3 DEF BlocksInv

\* The exits are joined, and the walk begins.
LEMMA BlocksInvSingleExit ==
  ASSUME BlockAssumption, BlocksInv, SingleExit
  PROVE  BlocksInv'
<1>1. /\ pc = "erase" /\ function \in Functions /\ it \in Nat \ {0} /\ FanoutsOK /\ Live \subseteq ToSet(blocks)
      /\ \A c \in AllBlocks : ToSet(fanouts[c]) \subseteq ToSet(blocks)
  BY DEF BlocksInv, SingleExit
<1>2. /\ blocks \in Seq(Created)
      /\ \A c \in AllBlocks : fanouts[c] = IF c \in ToSet(blocks) THEN function[c] ELSE <<>>
      /\ mark = [c \in AllBlocks |-> "NONE"] /\ visits = <<>> /\ back = {}
  BY <1>1 DEF BlocksInv, Erasing
<1>3. /\ StartBlock \in Created /\ CommonExit \notin Created /\ Created \subseteq AllBlocks /\ CommonExit \in AllBlocks
      /\ \A c \in AllBlocks : c \in Created \/ c = CommonExit
  BY <1>1, LiveFacts DEF AllBlocks
<1>4. ToSet(blocks) \subseteq Created
  BY <1>2, ToSetFacts
<1>5. /\ pc' = "visit" /\ visits' = <<[block |-> StartBlock, next |-> 1]>>
      /\ mark' = [mark EXCEPT ![StartBlock] = "TEMP"] /\ UNCHANGED <<function, it, back>>
  BY DEF SingleExit
<1>6. DOMAIN fanouts = AllBlocks /\ \A c \in AllBlocks : fanouts[c] \in Seq(AllBlocks)
  BY <1>1 DEF FanoutsOK
<1>7. \A c \in ToSet(blocks) : fanouts[c] = function[c]
  BY ONLY <1>2, <1>3, <1>4
<1>8. FanoutsOK' /\ Joined' /\ ToSet(blocks) \subseteq ToSet(blocks') /\ \A c \in AllBlocks : ToSet(fanouts'[c]) \subseteq ToSet(blocks')
  <2>1. CASE Cardinality(Exits) = 1 /\ exit' \in Exits /\ UNCHANGED <<blocks, fanouts>>
    <3>1. Exits = {exit'}
      <4>1. IsFiniteSet(Created)
        <5>1. PICK n \in Nat : Created = 1..n
          BY DEF BlockAssumption
        <5> QED BY <5>1, FS_Interval
      <4>2. Exits \in SUBSET Created
        BY <1>4 DEF Exits
      <4>3. IsFiniteSet(Exits)
        BY ONLY <4>1, <4>2, FS_Subset
      <4>4. PICK x : Exits = {x}
        BY ONLY <2>1, <4>3, FS_Singleton
      <4> QED BY ONLY <2>1, <4>4
    <3>2. exit' \in ToSet(blocks) /\ \A c \in ToSet(blocks) : fanouts[c] = <<>> <=> c = exit'
      BY ONLY <3>1 DEF Exits
    <3>3. \A s \in Seq(Created) : s \in Seq(AllBlocks)
      BY <1>3
    <3>4. Joined'
      BY ONLY <1>2, <1>5, <1>7, <2>1, <3>2, <3>3 DEF Joined
    <3>5. FanoutsOK'
      BY ONLY <1>1, <2>1 DEF FanoutsOK
    <3> QED BY ONLY <1>1, <2>1, <3>4, <3>5
  <2>2. CASE exit' = CommonExit /\ blocks' = Append(blocks, CommonExit) /\ fanouts' = JoinExits(Exits)
    <3>1. /\ blocks' \in Seq(AllBlocks) /\ Len(blocks') = Len(blocks) + 1 /\ blocks'[Len(blocks) + 1] = CommonExit
          /\ \A i \in 1..Len(blocks) : blocks'[i] = blocks[i]
      <4>1. blocks \in Seq(AllBlocks)
        BY <1>2, <1>3
      <4> QED BY ONLY <1>3, <2>2, <4>1
    <3>2. ToSet(blocks') = ToSet(blocks) \cup {CommonExit}
      <4>1. ASSUME NEW x \in ToSet(blocks') PROVE x \in ToSet(blocks) \cup {CommonExit}
        <5>1. PICK i \in 1..Len(blocks') : blocks'[i] = x
          BY <3>1, ToSetFacts
        <5>2. CASE i \in 1..Len(blocks)
          BY <1>2, <3>1, <5>1, <5>2, ToSetFacts
        <5>3. CASE i = Len(blocks) + 1
          BY <3>1, <5>1, <5>3
        <5> QED BY <1>2, <3>1, <5>2, <5>3
      <4>2. ASSUME NEW x \in ToSet(blocks) PROVE x \in ToSet(blocks')
        <5>1. PICK i \in 1..Len(blocks) : blocks[i] = x
          BY <1>2, ToSetFacts
        <5>2. i \in 1..Len(blocks') /\ blocks'[i] = x
          BY <1>2, <3>1, <5>1
        <5> QED BY <3>1, <5>2, ToSetFacts
      <4>3. CommonExit \in ToSet(blocks')
        <5>1. Len(blocks) + 1 \in 1..Len(blocks')
          BY <1>2, <3>1
        <5> QED BY <3>1, <5>1, ToSetFacts
      <4> QED BY <4>1, <4>2, <4>3
    <3>3. \A c \in AllBlocks : fanouts'[c] = IF c \in Exits THEN <<CommonExit>> ELSE fanouts[c]
      BY ONLY <2>2 DEF JoinExits
    <3>4. \A c : c \in Exits <=> c \in ToSet(blocks) /\ fanouts[c] = <<>>
      BY DEF Exits
    <3>5. /\ <<CommonExit>> # <<>> /\ <<CommonExit>> \in Seq(AllBlocks) /\ ToSet(<<CommonExit>>) = {CommonExit}
      <4>1. <<CommonExit>> \in Seq(AllBlocks) /\ <<CommonExit>> # <<>>
        BY <1>3
      <4>2. ToSet(<<CommonExit>>) = {CommonExit}
        BY DEF ToSet
      <4> QED BY <4>1, <4>2
    <3>6. fanouts[CommonExit] = <<>> /\ CommonExit \notin ToSet(blocks)
      BY ONLY <1>2, <1>3, <1>4
    <3>7. \A c \in ToSet(blocks') : fanouts'[c] = <<>> <=> c = exit'
      BY ONLY <1>3, <1>4, <2>2, <3>2, <3>3, <3>4, <3>5, <3>6
    <3>8. \A c \in ToSet(blocks') \cap Created :
            fanouts'[c] = function[c] \/ (function[c] = <<>> /\ fanouts'[c] = <<CommonExit>> /\ exit' = CommonExit)
      BY ONLY <1>3, <1>7, <2>2, <3>2, <3>3, <3>4
    <3>9. Joined'
      BY ONLY <1>5, <2>2, <3>1, <3>2, <3>7, <3>8 DEF Joined
    <3>10. FanoutsOK'
      <4>1. fanouts' = [c \in AllBlocks |-> IF c \in Exits THEN <<CommonExit>> ELSE fanouts[c]]
        BY ONLY <2>2 DEF JoinExits
      <4> QED BY ONLY <1>6, <3>5, <4>1 DEF FanoutsOK
    <3>11. \A c \in AllBlocks : ToSet(fanouts'[c]) \subseteq ToSet(blocks')
      BY ONLY <1>1, <3>2, <3>3, <3>5
    <3> QED BY ONLY <3>2, <3>9, <3>10, <3>11
  <2> QED BY <2>1, <2>2 DEF SingleExit
<1>9. VisitInv(mark, visits, back)'
  <2>1. mark' \in [AllBlocks -> {"NONE", "TEMP", "PERM"}]
    BY ONLY <1>2, <1>3, <1>5
  <2>2. \A b \in AllBlocks : mark'[b] = IF b = StartBlock THEN "TEMP" ELSE "NONE"
    BY ONLY <1>2, <1>3, <1>5
  <2>3. back' = {}
    BY ONLY <1>2, <1>5
  <2> QED BY <1>3, <1>5, <1>8, <2>1, <2>2, <2>3, BeginVisit
<1>10. Live' = Live
  BY ONLY <1>5 DEF Live, Targets
<1>11. pc' = "visit" /\ function' \in Functions /\ it' \in Nat \ {0} /\ Live' \subseteq ToSet(blocks')
  BY ONLY <1>1, <1>5, <1>8, <1>10
<1> QED BY ONLY <1>8, <1>9, <1>11 DEF BlocksInv

LEMMA BlocksInvFinish ==
  ASSUME BlocksInv, Finish
  PROVE  BlocksInv'
<1>1. pc = "visit" /\ visits = <<>> /\ pc' = "done" /\ UNCHANGED <<function, blocks, fanouts, it, exit, mark, visits, back>>
  BY DEF Finish
<1>2. VisitInv(mark', visits', back')
  BY <1>1 DEF BlocksInv
<1> QED BY <1>1, <1>2, SameBlocks

LEMMA BlocksInvStep ==
  ASSUME BlockAssumption, BlocksInv, [NextBlocks]_block_vars
  PROVE  BlocksInv'
<1>1. ASSUME UNCHANGED block_vars PROVE BlocksInv'
  <2>1. UNCHANGED <<pc, function, blocks, fanouts, it, exit, mark, visits, back>>
    BY <1>1 DEF block_vars
  <2>2. Live' = Live /\ (FanoutsOK => FanoutsOK') /\ (Erasing => Erasing') /\ (Joined => Joined')
    BY <2>1 DEF Live, Targets, FanoutsOK, Erasing, Joined
  <2>3. CASE pc = "erase"
    BY <2>1, <2>2, <2>3 DEF BlocksInv
  <2>4. CASE pc \in {"visit", "done"}
    <3>1. VisitInv(mark, visits, back)' <=> VisitInv(mark, visits, back)
      BY <2>1 DEF VisitInv, OneByOne, NothingMissed, LeftInOrder, BackCloses, Closes, Walked, ForwardEdge, Explored
    <3> QED BY <2>1, <2>2, <2>4, <3>1 DEF BlocksInv
  <2> QED BY <2>3, <2>4 DEF BlocksInv
<1> QED
  BY <1>1, BlocksInvErase, BlocksInvKeep, BlocksInvSingleExit, BlocksInvReturn, BlocksInvDescend,
     BlocksInvLeave, BlocksInvFinish DEF NextBlocks

\* update_blocks() erases only what cannot be reached from the start block, changes no jump of
\* what can, but to the common exit, and gives the function one exit that every block reaches
\* that reached an exit before.
THEOREM GraphKeptAlways ==
  ASSUME BlockAssumption
  PROVE  SpecBlocks => []GraphKept
<1>1. InitBlocks => BlocksInv
  BY BlocksInvInit
<1>2. BlocksInv /\ [NextBlocks]_block_vars => BlocksInv'
  BY BlocksInvStep
<1>3. BlocksInv => GraphKept
  BY BlocksInvGraphKept
<1> QED BY <1>1, <1>2, <1>3, PTL DEF SpecBlocks

\* The back edges that compute_back_edges() flags break every cycle, and each one closes a cycle.
THEOREM BackEdgesCorrect ==
  ASSUME BlockAssumption
  PROVE  SpecBlocks => []BackEdgesBreakCycles
<1>1. InitBlocks => BlocksInv
  BY BlocksInvInit
<1>2. BlocksInv /\ [NextBlocks]_block_vars => BlocksInv'
  BY BlocksInvStep
<1>3. BlocksInv => BackEdgesBreakCycles
  BY BlocksInvBackEdges
<1> QED BY <1>1, <1>2, <1>3, PTL DEF SpecBlocks
=============================================================================
