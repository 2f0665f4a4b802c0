---------------------------- MODULE Rules_proofs ----------------------------
(***************************************************************************)
(* Facts about the circuits of Netlist: what a change does to the wires,   *)
(* when it makes no cycle, and when it keeps the function.  And what the   *)
(* rewrite rules of Theorems do to any circuit: the gate that a rule       *)
(* replaces has the value of the node that replaces it, and every pin      *)
(* stays connected.                                                        *)
(***************************************************************************)
EXTENDS Theorems, InductionFacts

\* What minimize() works on, and keeps a circuit.
Good(c) == c \in Circuit /\ WellFormed(c) /\ Acyclic(c)

\* Where the nodes of a circuit are, and that there are finitely many gates.
LEMMA Nodes ==
  ASSUME NEW c \in Circuit
  PROVE  /\ Gates(c) \subseteq Gate /\ Gates(c) \subseteq Present(c) /\ Present(c) \subseteq Node
         /\ NULL \notin Present(c) /\ IsFiniteSet(Gates(c))
         /\ ONE_GATE \in Present(c) /\ ZERO_GATE \in Present(c) /\ ONE_GATE # ZERO_GATE
         /\ ONE_GATE \notin Gate /\ ZERO_GATE \notin Gate /\ Input \cap Gate = {}
         /\ ONE_GATE \notin Input /\ ZERO_GATE \notin Input /\ NULL \notin Gate
<1>1. Gates(c) \subseteq Gate /\ Gates(c) \subseteq Present(c) /\ Present(c) \subseteq Node
  BY DEF Gates, Present, Node
<1>2. IsFiniteSet(Gates(c))
  BY <1>1, FS_Subset, NetlistAssumption
<1> QED BY <1>1, <1>2, NetlistAssumption DEF Present, Node, Const

\* The pins of a gate are connected to nodes of the circuit.
LEMMA Pins ==
  ASSUME NEW c \in Circuit, WellFormed(c), NEW g \in Gates(c)
  PROVE  /\ c.op[g] \in BinOp \cup {"NOT"}
         /\ c.fanin[g][0] \in Present(c)
         /\ c.op[g] \in BinOp => c.fanin[g][1] \in Present(c)
         /\ c.op[g] = "NOT" => c.fanin[g][1] = NULL
         /\ \A p \in Pin : c.fanin[g][p] \in Present(c) \cup {NULL}
<1>1. g \in Gate /\ c.op[g] # "FREE" /\ c.op[g] \in Op
  BY DEF Gates, Circuit
<1>2. c.op[g] \in BinOp \cup {"NOT"} /\ "NOT" \notin BinOp
  BY <1>1 DEF Op, BinOp
<1> QED BY <1>1, <1>2 DEF WellFormed, Pin

----------------------------------------------------------------------------
(* ReplaceBy.                                                              *)

\* The fields of a circuit after a gate was replaced.
LEMMA MergeFields ==
  ASSUME NEW c \in Circuit, NEW g, NEW h \in Node
  PROVE  /\ ReplaceBy(c, g, h) \in Circuit
         /\ ReplaceBy(c, g, h).op = c.op
         /\ \A k \in Gate, p \in Pin : ReplaceBy(c, g, h).fanin[k][p] =
              IF c.fanin[k][p] = g THEN h ELSE c.fanin[k][p]
         /\ \A o \in Output : ReplaceBy(c, g, h).out[o] = IF c.out[o] = g THEN h ELSE c.out[o]
  BY DEF ReplaceBy, Circuit

\* Replacing a gate neither makes nor removes one.
LEMMA MergeGates ==
  ASSUME NEW c \in Circuit, NEW g, NEW h \in Node
  PROVE  Gates(ReplaceBy(c, g, h)) = Gates(c) /\ Present(ReplaceBy(c, g, h)) = Present(c)
  BY MergeFields DEF Gates, Present

\* Replacing a gate by one of the same value changes no value.
LEMMA MergeKeepsValues ==
  ASSUME NEW c \in Circuit, NEW g, NEW h \in Node,
         NEW V, Consistent(c, V), Val(V, g) = Val(V, h)
  PROVE  /\ Consistent(ReplaceBy(c, g, h), V)
         /\ Outputs(ReplaceBy(c, g, h), V) = Outputs(c, V)
<1> DEFINE d == ReplaceBy(c, g, h)
<1>1. \A k \in Gate, p \in Pin : Val(V, d.fanin[k][p]) = Val(V, c.fanin[k][p])
  BY MergeFields
<1>2. \A o \in Output : Val(V, d.out[o]) = Val(V, c.out[o])
  BY MergeFields
<1>3. Gates(d) = Gates(c) /\ d.op = c.op
  BY MergeFields, MergeGates
<1>4. Consistent(d, V)
  <2> SUFFICES ASSUME NEW k \in Gates(d)
               PROVE  V[k] = Apply(d.op[k], Val(V, d.fanin[k][0]), Val(V, d.fanin[k][1]))
    BY DEF Consistent
  <2>1. k \in Gate /\ 0 \in Pin /\ 1 \in Pin
    BY DEF Gates, Pin
  <2>2. V[k] = Apply(c.op[k], Val(V, c.fanin[k][0]), Val(V, c.fanin[k][1]))
    BY <1>3 DEF Consistent
  <2> QED BY <2>1, <2>2, <1>1, <1>3
<1>5. Outputs(d, V) = Outputs(c, V)
  BY <1>2 DEF Outputs
<1> QED BY <1>4, <1>5

\* Replacing a gate by a node of the circuit leaves every pin connected.
LEMMA MergeKeepsWellFormed ==
  ASSUME NEW c \in Circuit, NEW g, g # NULL, NEW h \in Present(c), WellFormed(c)
  PROVE  WellFormed(ReplaceBy(c, g, h))
<1> DEFINE d == ReplaceBy(c, g, h)
<1>1. h \in Node /\ NULL \notin Node /\ h # NULL
  BY NetlistAssumption DEF Node, Present, Gates
<1>2. d.op = c.op /\ Present(d) = Present(c)
  BY <1>1, MergeFields, MergeGates
<1>3. \A k \in Gate, p \in Pin : d.fanin[k][p] = IF c.fanin[k][p] = g THEN h ELSE c.fanin[k][p]
  BY <1>1, MergeFields
<1>4. \A o \in Output : d.out[o] = IF c.out[o] = g THEN h ELSE c.out[o]
  BY <1>1, MergeFields
<1>5. 0 \in Pin /\ 1 \in Pin
  BY DEF Pin
<1> QED BY <1>1, <1>2, <1>3, <1>4, <1>5 DEF WellFormed

----------------------------------------------------------------------------
(* Which nodes do not depend on a gate.                                    *)

\* A set of nodes that holds whatever its gates read.
Closed(c, D) == \A d \in D \cap Gates(c), p \in Pin : c.fanin[d][p] \in D \cup {NULL}

\* n is a node of the circuit that does not depend on g.
Under(c, g, n) == \E D \in SUBSET Present(c) : n \in D /\ g \notin D /\ Closed(c, D)

\* What g depends on is there, and is not g.
LEMMA UnderPresent ==
  ASSUME NEW c, NEW g, NEW n, Under(c, g, n)
  PROVE  n \in Present(c) /\ n # g
  BY DEF Under

\* Inputs and constants depend on nothing.
LEMMA UnderRoot ==
  ASSUME NEW c \in Circuit, NEW g, NEW n \in Present(c) \ Gates(c), n # g
  PROVE  Under(c, g, n)
<1>1. {n} \in SUBSET Present(c) /\ Closed(c, {n})
  BY DEF Closed
<1> QED BY <1>1 DEF Under

\* What does not depend on g reads nothing that does.
LEMMA UnderRead ==
  ASSUME NEW c \in Circuit, NEW g, NEW n \in Gates(c), Under(c, g, n),
         NEW p \in Pin, c.fanin[n][p] # NULL
  PROVE  Under(c, g, c.fanin[n][p])
  BY DEF Under, Closed

\* A gate other than g that only reads nodes not depending on g does not either.
LEMMA UnderReader ==
  ASSUME NEW c \in Circuit, WellFormed(c), NEW g, NEW n \in Gates(c), n # g,
         \A p \in Pin : c.fanin[n][p] # NULL => Under(c, g, c.fanin[n][p])
  PROVE  Under(c, g, n)
<1> DEFINE Sets == {D \in SUBSET Present(c) : g \notin D /\ Closed(c, D)}
           D == {n} \cup UNION Sets
<1>1. D \in SUBSET Present(c) /\ n \in D /\ g \notin D
  BY Nodes
<1>2. \A p \in Pin : c.fanin[n][p] \in D \cup {NULL}
  BY DEF Under
<1>3. \A E \in Sets : \A d \in E \cap Gates(c), p \in Pin : c.fanin[d][p] \in D \cup {NULL}
  BY DEF Closed
<1>4. Closed(c, D)
  <2> SUFFICES ASSUME NEW d \in D \cap Gates(c), NEW p \in Pin PROVE c.fanin[d][p] \in D \cup {NULL}
    BY DEF Closed
  <2>1. CASE d = n
    BY <1>2, <2>1
  <2>2. CASE d # n
    <3>1. PICK E \in Sets : d \in E
      BY <2>2
    <3> QED BY <1>3, <3>1
  <2> QED BY <2>1, <2>2
<1> QED BY <1>1, <1>4 DEF Under

\* In a circuit without cycles a gate reads nothing that depends on it: the
\* gates that do would read one another.
LEMMA UnderOwn ==
  ASSUME NEW c, Good(c), NEW g \in Gates(c), NEW p \in Pin, c.fanin[g][p] # NULL
  PROVE  Under(c, g, c.fanin[g][p])
<1> DEFINE S == {s \in Gates(c) : ~Under(c, g, s)}
           n == c.fanin[g][p]
<1> SUFFICES ASSUME ~Under(c, g, n) PROVE FALSE
  OBVIOUS
<1>0. c \in Circuit /\ WellFormed(c)
  BY DEF Good
<1>1. n \in Present(c)
  BY <1>0, Pins
<1>2. g \in S
  BY UnderPresent
<1>3. n \in S
  <2>1. n \in Gates(c)
    BY <1>0, <1>1, <1>2, UnderRoot
  <2> QED BY <2>1
<1>4. \A s \in S : \E q \in Pin : c.fanin[s][q] \in S
  <2> SUFFICES ASSUME NEW s \in S PROVE \E q \in Pin : c.fanin[s][q] \in S
    OBVIOUS
  <2>1. CASE s = g
    BY <1>3, <2>1
  <2>2. CASE s # g
    <3>1. PICK q \in Pin : c.fanin[s][q] # NULL /\ ~Under(c, g, c.fanin[s][q])
      BY <1>0, <2>2, UnderReader
    <3>2. c.fanin[s][q] \in Present(c)
      BY <1>0, <3>1, Pins
    <3>3. c.fanin[s][q] \in Gates(c)
      BY <1>0, <1>2, <3>1, <3>2, UnderRoot
    <3> QED BY <3>1, <3>3
  <2> QED BY <2>1, <2>2
<1>5. S \in SUBSET Gates(c) /\ S # {}
  BY <1>2
<1> HIDE DEF S
<1> QED BY <1>4, <1>5 DEF Good, Acyclic

\* Replacing a gate by a node that does not depend on it makes no cycle.
LEMMA MergeKeepsAcyclic ==
  ASSUME NEW c \in Circuit, Acyclic(c), NEW g \in Gates(c), NEW h, Under(c, g, h)
  PROVE  Acyclic(ReplaceBy(c, g, h))
<1> DEFINE d == ReplaceBy(c, g, h)
<1>1. PICK D \in SUBSET Present(c) : h \in D /\ g \notin D /\ Closed(c, D)
  BY DEF Under
<1>2. h \in Node /\ g \in Gate /\ g # NULL
  BY <1>1, Nodes
<1>3. Gates(d) = Gates(c)
  BY <1>2, MergeGates
<1>4. \A k \in Gates(c), p \in Pin : d.fanin[k][p] = IF c.fanin[k][p] = g THEN h ELSE c.fanin[k][p]
  BY <1>2, MergeFields, Nodes
<1> HIDE DEF d
<1>5. ASSUME NEW S \in SUBSET Gates(c), S # {}, \A k \in S : \E p \in Pin : d.fanin[k][p] \in S
      PROVE  FALSE
  <2>1. \A k \in S \cap D : \E p \in Pin : c.fanin[k][p] \in S \cap D
    <3> SUFFICES ASSUME NEW k \in S \cap D PROVE \E p \in Pin : c.fanin[k][p] \in S \cap D
      OBVIOUS
    <3>1. PICK p \in Pin : d.fanin[k][p] \in S
      BY <1>5
    <3>2. c.fanin[k][p] \in D \cup {NULL}
      BY <1>1 DEF Closed
    <3>3. c.fanin[k][p] # g
      BY <1>1, <1>2, <3>2
    <3>4. c.fanin[k][p] \in S
      BY <1>4, <3>1, <3>3
    <3>5. c.fanin[k][p] # NULL
      BY <3>4, Nodes
    <3> QED BY <3>2, <3>4, <3>5
  <2>2. S \cap D = {}
    <3>1. S \cap D \in SUBSET Gates(c)
      OBVIOUS
    <3> QED BY <2>1, <3>1 DEF Acyclic
  <2>3. h \notin S
    BY <1>1, <2>2
  <2>4. \A k \in S : \E p \in Pin : c.fanin[k][p] \in S
    BY <1>4, <1>5, <2>3
  <2> QED BY <1>5, <2>4 DEF Acyclic
<1>6. Acyclic(d)
  BY <1>3, <1>5 DEF Acyclic
<1> QED BY <1>6 DEF d

\* Where levels increase along every wire there is no cycle: the lowest gate
\* of one would read a lower one.
LEMMA RankingAcyclic ==
  ASSUME NEW c \in Circuit, NEW L, IsRanking(c, L)
  PROVE  Acyclic(c)
<1> SUFFICES ASSUME NEW S \in SUBSET Gates(c), S # {}, \A g \in S : \E p \in Pin : c.fanin[g][p] \in S
             PROVE  FALSE
  BY DEF Acyclic
<1>1. \A g \in S : L[g] \in Nat /\ g # NULL
  BY Nodes DEF IsRanking
<1>2. {L[g] : g \in S} \in SUBSET Nat /\ {L[g] : g \in S} # {}
  BY <1>1
<1>3. PICK m \in {L[g] : g \in S} : \A n \in {L[g] : g \in S} : m <= n
  BY <1>2, Least
<1>4. PICK g \in S : m = L[g]
  BY <1>3
<1>5. PICK p \in Pin : c.fanin[g][p] \in S
  OBVIOUS
<1>6. L[c.fanin[g][p]] < L[g]
  BY <1>1, <1>5 DEF IsRanking
<1>7. L[g] <= L[c.fanin[g][p]]
  BY <1>3, <1>4, <1>5
<1> QED BY <1>1, <1>5, <1>6, <1>7

----------------------------------------------------------------------------
(* A circuit without cycles is a function: for every input it has one      *)
(* consistent valuation.                                                   *)

\* Gates with the same operation differ only if what they read does.
LEMMA ApplyDiffers ==
  ASSUME NEW op, NEW x, NEW y, NEW z, NEW w, Apply(op, x, y) # Apply(op, z, w)
  PROVE  x # z \/ y # w
  OBVIOUS

\* Two valuations with the same inputs are the same: the gates on which they
\* differ would read one another.
LEMMA OneValuation ==
  ASSUME NEW c, Good(c), NEW V \in Valuations(c), NEW W \in Valuations(c),
         \A i \in Input : V[i] = W[i]
  PROVE  V = W
<1> DEFINE S == {g \in Gates(c) : V[g] # W[g]}
<1>1. c \in Circuit /\ WellFormed(c) /\ Acyclic(c)
  BY DEF Good
<1>2. /\ V \in [Input \cup Gates(c) -> BOOLEAN] /\ Consistent(c, V)
      /\ W \in [Input \cup Gates(c) -> BOOLEAN] /\ Consistent(c, W)
  BY DEF Valuations
<1>3. ASSUME NEW g \in S PROVE \E p \in Pin : c.fanin[g][p] \in S
  <2>1. PICK p \in Pin : Val(V, c.fanin[g][p]) # Val(W, c.fanin[g][p])
    <3>1. /\ V[g] = Apply(c.op[g], Val(V, c.fanin[g][0]), Val(V, c.fanin[g][1]))
          /\ W[g] = Apply(c.op[g], Val(W, c.fanin[g][0]), Val(W, c.fanin[g][1]))
      BY <1>2 DEF Consistent
    <3>2. Val(V, c.fanin[g][0]) # Val(W, c.fanin[g][0]) \/ Val(V, c.fanin[g][1]) # Val(W, c.fanin[g][1])
      BY <3>1, ApplyDiffers
    <3> QED BY <3>2 DEF Pin
  <2> DEFINE n == c.fanin[g][p]
  <2>2. n \in Present(c) \cup {NULL}
    BY <1>1, Pins
  <2>3. n \notin Const \cup {NULL} /\ V[n] # W[n]
    BY <2>1 DEF Val, Const
  <2>4. n \in Gates(c)
    BY <2>2, <2>3 DEF Present
  <2> QED BY <2>3, <2>4
<1>4. S = {}
  <2>1. S \in SUBSET Gates(c)
    OBVIOUS
  <2> HIDE DEF S
  <2> QED BY <1>1, <1>3, <2>1 DEF Acyclic
<1>5. \A n \in Input \cup Gates(c) : V[n] = W[n]
  BY <1>4
<1> QED BY <1>2, <1>5

\* Any input extends to a valuation.  V is right about the gates of D, which
\* read no other gates; one more can be added as long as one is left.
RightAbout(c, D, V) ==
  \A g \in D : /\ \A p \in Pin : c.fanin[g][p] \in Gates(c) => c.fanin[g][p] \in D
               /\ V[g] = Apply(c.op[g], Val(V, c.fanin[g][0]), Val(V, c.fanin[g][1]))

\* Every choice of inputs belongs to a valuation of an acyclic circuit.
LEMMA SomeValuation ==
  ASSUME NEW c, Good(c), NEW input \in [Input -> BOOLEAN]
  PROVE  \E V \in Valuations(c) : \A i \in Input : V[i] = input[i]
<1> DEFINE Starts == {V \in [Input \cup Gates(c) -> BOOLEAN] : \A i \in Input : V[i] = input[i]}
           Sets == {D \in SUBSET Gates(c) : \E V \in Starts : RightAbout(c, D, V)}
           Left == {k \in Nat : \E D \in Sets : Cardinality(Gates(c) \ D) = k}
<1>1. c \in Circuit /\ WellFormed(c) /\ Acyclic(c) /\ IsFiniteSet(Gates(c))
  BY Nodes DEF Good
<1>2. {} \in Sets
  <2> DEFINE V == [n \in Input \cup Gates(c) |-> IF n \in Input THEN input[n] ELSE FALSE]
  <2>1. V \in Starts
    OBVIOUS
  <2>2. RightAbout(c, {}, V)
    BY DEF RightAbout
  <2> QED BY <2>1, <2>2
<1>3. \A D \in SUBSET Gates(c) :
        IsFiniteSet(Gates(c) \ D) /\ Cardinality(Gates(c) \ D) \in Nat
  BY <1>1, FS_Subset, FS_CardinalityType
<1>4. PICK D \in Sets : \A E \in Sets : Cardinality(Gates(c) \ D) <= Cardinality(Gates(c) \ E)
  <2>1. Left # {}
    BY <1>2, <1>3
  <2>2. Left \in SUBSET Nat
    OBVIOUS
  <2>3. \A E \in Sets : Cardinality(Gates(c) \ E) \in Left
    BY <1>3
  <2>4. \A k \in Left : \E E \in Sets : Cardinality(Gates(c) \ E) = k
    OBVIOUS
  <2> HIDE DEF Left, Sets
  <2>5. PICK k \in Left : \A j \in Left : k <= j
    BY <2>1, <2>2, Least
  <2> QED BY <2>3, <2>4, <2>5
<1>5. PICK V \in Starts : RightAbout(c, D, V)
  OBVIOUS
<1>6. D = Gates(c)
  <2> SUFFICES ASSUME D # Gates(c) PROVE FALSE
    OBVIOUS
  <2>1. PICK g \in Gates(c) \ D : \A p \in Pin : c.fanin[g][p] \notin Gates(c) \ D
    <3>1. Gates(c) \ D \in SUBSET Gates(c) /\ Gates(c) \ D # {}
      OBVIOUS
    <3> QED BY <1>1, <3>1 DEF Acyclic
  <2> DEFINE v == Apply(c.op[g], Val(V, c.fanin[g][0]), Val(V, c.fanin[g][1]))
             W == [V EXCEPT ![g] = v]
             E == D \cup {g}
  <2>2. g \notin Input /\ g \notin Const /\ g # NULL
    BY <1>1, Nodes DEF Const
  <2>3. c.fanin[g][0] \in Present(c) \cup {NULL} /\ c.fanin[g][1] \in Present(c) \cup {NULL}
    BY <1>1, Pins DEF Pin
  <2>4. \A n \in Present(c) \cup {NULL} : Val(V, n) \in BOOLEAN
    BY DEF Val, Present, Const
  <2>5. v \in BOOLEAN
    BY <2>3, <2>4 DEF Apply
  <2> HIDE DEF v
  <2>6. W \in Starts
    BY <2>2, <2>5
  <2>7. \A n : n # g => Val(W, n) = Val(V, n)
    BY DEF Val
  <2>8. ASSUME NEW k \in E
        PROVE  /\ \A p \in Pin : c.fanin[k][p] \in Gates(c) => c.fanin[k][p] \in D
               /\ W[k] = Apply(c.op[k], Val(V, c.fanin[k][0]), Val(V, c.fanin[k][1]))
    <3>1. CASE k = g
      <4>1. W[g] = v
        OBVIOUS
      <4> QED BY <2>1, <3>1, <4>1 DEF v
    <3>2. CASE k # g
      <4>1. W[k] = V[k] /\ k \in D
        BY <3>2
      <4> QED BY <1>5, <4>1 DEF RightAbout
    <3> QED BY <3>1, <3>2
  <2>9. RightAbout(c, E, W)
    <3>1. ASSUME NEW k \in E PROVE c.fanin[k][0] # g /\ c.fanin[k][1] # g
      BY <2>8 DEF Pin
    <3>2. D \subseteq E
      OBVIOUS
    <3> HIDE DEF E, W
    <3>3. ASSUME NEW k \in E
          PROVE  /\ \A p \in Pin : c.fanin[k][p] \in Gates(c) => c.fanin[k][p] \in E
                 /\ W[k] = Apply(c.op[k], Val(W, c.fanin[k][0]), Val(W, c.fanin[k][1]))
      <4>1. Val(W, c.fanin[k][0]) = Val(V, c.fanin[k][0]) /\ Val(W, c.fanin[k][1]) = Val(V, c.fanin[k][1])
        BY <2>7, <3>1
      <4> QED BY <2>8, <3>2, <4>1
    <3> QED BY <3>3 DEF RightAbout
  <2>10. E \in Sets
    BY <2>6, <2>9
  <2>11. Cardinality(Gates(c) \ E) = Cardinality(Gates(c) \ D) - 1
    <3>1. Gates(c) \ E = (Gates(c) \ D) \ {g}
      OBVIOUS
    <3>2. g \in Gates(c) \ D /\ IsFiniteSet(Gates(c) \ D)
      BY <1>3
    <3> DEFINE T == Gates(c) \ D
    <3>3. IsFiniteSet(T) /\ g \in T
      BY <3>2
    <3>4. Cardinality(T \ {g}) = Cardinality(T) - 1
      <4> HIDE DEF T
      <4> QED BY <3>3, FS_RemoveElement
    <3> QED BY <3>1, <3>4
  <2>12. Cardinality(Gates(c) \ D) <= Cardinality(Gates(c) \ E) /\ Cardinality(Gates(c) \ D) \in Nat
    BY <1>3, <1>4, <2>10
  <2> QED BY <2>11, <2>12
<1>7. Consistent(c, V)
  BY <1>5, <1>6 DEF Consistent, RightAbout
<1> QED BY <1>7 DEF Valuations

\* A circuit without cycles that can do whatever another one does computes
\* the same function.
LEMMA FunctionKept ==
  ASSUME NEW c, Good(c), NEW d, Good(d), Behaviour(c) \subseteq Behaviour(d)
  PROVE  Behaviour(d) = Behaviour(c)
<1> SUFFICES ASSUME NEW b \in Behaviour(d) PROVE b \in Behaviour(c)
  OBVIOUS
<1>1. PICK V \in Valuations(d) : b = <<[i \in Input |-> V[i]], Outputs(d, V)>>
  BY DEF Behaviour
<1>2. [i \in Input |-> V[i]] \in [Input -> BOOLEAN]
  BY DEF Valuations
<1>3. PICK W \in Valuations(c) : \A i \in Input : W[i] = V[i]
  BY <1>2, SomeValuation
<1>4. <<[i \in Input |-> W[i]], Outputs(c, W)>> \in Behaviour(c)
  BY DEF Behaviour
<1>5. PICK U \in Valuations(d) :
        <<[i \in Input |-> W[i]], Outputs(c, W)>> = <<[i \in Input |-> U[i]], Outputs(d, U)>>
  BY <1>4 DEF Behaviour
<1>6. [i \in Input |-> W[i]] = [i \in Input |-> U[i]] /\ Outputs(c, W) = Outputs(d, U)
  BY <1>5
<1>7. \A i \in Input : U[i] = W[i]
  <2> SUFFICES ASSUME NEW i \in Input PROVE U[i] = W[i]
    OBVIOUS
  <2>1. [j \in Input |-> W[j]][i] = [j \in Input |-> U[j]][i]
    BY <1>6
  <2> QED BY <2>1
<1>8. V = U
  BY <1>3, <1>7, OneValuation
<1>9. [i \in Input |-> V[i]] = [i \in Input |-> W[i]]
  BY <1>3
<1> QED BY <1>1, <1>4, <1>6, <1>8, <1>9

----------------------------------------------------------------------------
(* Levels.                                                                 *)

\* What the recursion of Levels says of a function of all nodes.
LevelAt(c, L, n) == IF n \in Input \cup {ONE_GATE, NULL} THEN 0
                    ELSE 1 + Larger(L[Fanin(c, n, 0)], L[Fanin(c, n, 1)])
LevelsFor(c, L, S) ==
  L \in [Node \cup {NULL} -> Nat] /\ \A n \in S : L[n] = LevelAt(c, L, n)

\* The larger of two levels is one of them and not below the other.
LEMMA LargerIs ==
  ASSUME NEW i \in Nat, NEW j \in Nat
  PROVE  Larger(i, j) \in Nat /\ i <= Larger(i, j) /\ j <= Larger(i, j)
  BY DEF Larger

\* What Fanin is at each kind of node.
LEMMA FaninIs ==
  ASSUME NEW c \in Circuit, WellFormed(c), NEW n \in Node \cup {NULL}, NEW p \in Pin
  PROVE  /\ Fanin(c, n, p) \in Node \cup {NULL}
         /\ n \in Gate => Fanin(c, n, p) = c.fanin[n][p]
         /\ n \in Gate \ Gates(c) => Fanin(c, n, p) = NULL
         /\ n = ZERO_GATE => Fanin(c, n, p) \in {ONE_GATE, NULL}
<1>1. n \in Gate => c.fanin[n][p] \in Node \cup {NULL}
  BY DEF Circuit
<1>2. n \in Gate \ Gates(c) => c.fanin[n][p] = NULL
  <2>1. "FREE" \notin BinOp
    BY DEF BinOp
  <2> QED BY <2>1 DEF Gates, WellFormed, Pin
<1>3. ONE_GATE \in Node /\ ZERO_GATE \notin Gate
  BY NetlistAssumption DEF Node, Const
<1> QED BY <1>1, <1>2, <1>3 DEF Fanin

\* The recursion has a solution in a circuit without cycles: levels for some
\* gates that read no others give levels for one more.
LEMMA LevelsExist ==
  ASSUME NEW c, Good(c)
  PROVE  \E L : LevelsFor(c, L, Node \cup {NULL})
<1> DEFINE Rest == (Node \cup {NULL}) \ Gates(c)
           ClosedIn(D) == \A g \in D, p \in Pin : c.fanin[g][p] \in Gates(c) => c.fanin[g][p] \in D
           Sets == {D \in SUBSET Gates(c) : ClosedIn(D) /\ \E L : LevelsFor(c, L, Rest \cup D)}
           Left == {k \in Nat : \E D \in Sets : Cardinality(Gates(c) \ D) = k}
<1>1. c \in Circuit /\ WellFormed(c) /\ Acyclic(c) /\ IsFiniteSet(Gates(c)) /\ Gates(c) \subseteq Gate
  BY Nodes DEF Good
<1>2. {} \in Sets
  <2> DEFINE L == [n \in Node \cup {NULL} |-> IF n \in Input \cup {ONE_GATE, NULL} THEN 0 ELSE 1]
  <2>1. L \in [Node \cup {NULL} -> Nat] /\ L[ONE_GATE] = 0 /\ L[NULL] = 0
    BY DEF Node, Const
  <2>2. ASSUME NEW n \in Rest PROVE L[n] = LevelAt(c, L, n)
    <3>1. CASE n \in Input \cup {ONE_GATE, NULL}
      BY <3>1 DEF LevelAt
    <3>2. CASE n \notin Input \cup {ONE_GATE, NULL}
      <4>1. n = ZERO_GATE \/ n \in Gate \ Gates(c)
        BY <3>2 DEF Node, Const
      <4>2. Fanin(c, n, 0) \in {ONE_GATE, NULL} /\ Fanin(c, n, 1) \in {ONE_GATE, NULL}
        BY <1>1, <4>1, FaninIs DEF Pin
      <4>3. L[n] = 1
        BY <3>2
      <4> HIDE DEF L
      <4>4. L[Fanin(c, n, 0)] = 0 /\ L[Fanin(c, n, 1)] = 0
        BY <2>1, <4>2
      <4> QED BY <3>2, <4>3, <4>4 DEF LevelAt, Larger
    <3> QED BY <3>1, <3>2
  <2> HIDE DEF L
  <2>3. LevelsFor(c, L, Rest \cup {})
    BY <2>1, <2>2 DEF LevelsFor
  <2> QED BY <2>3
<1>3. \A D \in SUBSET Gates(c) :
        IsFiniteSet(Gates(c) \ D) /\ Cardinality(Gates(c) \ D) \in Nat
  BY <1>1, FS_Subset, FS_CardinalityType
<1>4. PICK D \in Sets : \A E \in Sets : Cardinality(Gates(c) \ D) <= Cardinality(Gates(c) \ E)
  <2>1. Left # {}
    BY <1>2, <1>3
  <2>2. Left \in SUBSET Nat
    OBVIOUS
  <2>3. \A E \in Sets : Cardinality(Gates(c) \ E) \in Left
    BY <1>3
  <2>4. \A k \in Left : \E E \in Sets : Cardinality(Gates(c) \ E) = k
    OBVIOUS
  <2> HIDE DEF Left, Sets
  <2>5. PICK k \in Left : \A j \in Left : k <= j
    BY <2>1, <2>2, Least
  <2> QED BY <2>3, <2>4, <2>5
<1>5. PICK L : LevelsFor(c, L, Rest \cup D)
  OBVIOUS
<1>6. D = Gates(c)
  <2> SUFFICES ASSUME D # Gates(c) PROVE FALSE
    OBVIOUS
  <2>1. PICK g \in Gates(c) \ D : \A p \in Pin : c.fanin[g][p] \notin Gates(c) \ D
    <3>1. Gates(c) \ D \in SUBSET Gates(c) /\ Gates(c) \ D # {}
      OBVIOUS
    <3> QED BY <1>1, <3>1 DEF Acyclic
  <2>2. g \in Gate /\ g \in Node \cup {NULL}
    BY <1>1 DEF Node
  <2> DEFINE v == LevelAt(c, L, g)
             M == [L EXCEPT ![g] = v]
             E == D \cup {g}
  <2>3. v \in Nat
    <3>1. Fanin(c, g, 0) \in Node \cup {NULL} /\ Fanin(c, g, 1) \in Node \cup {NULL}
      BY <1>1, <2>2, FaninIs DEF Pin
    <3>2. L[Fanin(c, g, 0)] \in Nat /\ L[Fanin(c, g, 1)] \in Nat
      BY <1>5, <3>1 DEF LevelsFor
    <3>3. Larger(L[Fanin(c, g, 0)], L[Fanin(c, g, 1)]) \in Nat
      BY <3>2, LargerIs
    <3> QED BY <3>3 DEF LevelAt
  <2>4. L \in [Node \cup {NULL} -> Nat]
    BY <1>5 DEF LevelsFor
  <2> HIDE DEF v
  <2>5. M \in [Node \cup {NULL} -> Nat] /\ M[g] = v /\ \A n \in (Node \cup {NULL}) \ {g} : M[n] = L[n]
    BY <2>2, <2>3, <2>4
  <2>6. ASSUME NEW n \in Rest \cup E, NEW p \in Pin PROVE Fanin(c, n, p) # g
    <3>1. n \in Node \cup {NULL}
      BY <1>1, <2>2 DEF Node
    <3>2. g \notin {ONE_GATE, NULL, ZERO_GATE}
      BY <2>2, NetlistAssumption DEF Node, Const
    <3>3. CASE n \in Gates(c)
      <4>1. Fanin(c, n, p) = c.fanin[n][p] /\ (n = g \/ n \in D)
        BY <1>1, <3>1, <3>3, FaninIs
      <4> QED BY <2>1, <4>1
    <3>4. CASE n \notin Gates(c)
      <4>1. n \in Gate => Fanin(c, n, p) = NULL
        BY <1>1, <3>1, <3>4, FaninIs
      <4>2. n \notin Gate => Fanin(c, n, p) \in {ONE_GATE, NULL}
        BY DEF Fanin
      <4> QED BY <3>2, <4>1, <4>2
    <3> QED BY <3>3, <3>4
  <2>7. ASSUME NEW n \in Rest \cup E PROVE M[n] = LevelAt(c, M, n)
    <3>1. n \in Node \cup {NULL} /\ 0 \in Pin /\ 1 \in Pin
      BY <1>1, <2>2 DEF Node, Pin
    <3>2. /\ Fanin(c, n, 0) \in (Node \cup {NULL}) \ {g}
          /\ Fanin(c, n, 1) \in (Node \cup {NULL}) \ {g}
      BY <1>1, <2>6, <3>1, FaninIs
    <3>3. M[Fanin(c, n, 0)] = L[Fanin(c, n, 0)] /\ M[Fanin(c, n, 1)] = L[Fanin(c, n, 1)]
      BY <2>5, <3>2
    <3>4. LevelAt(c, M, n) = LevelAt(c, L, n)
      BY <3>3 DEF LevelAt
    <3>5. CASE n = g
      BY <2>5, <3>4, <3>5 DEF v
    <3>6. CASE n # g
      <4>1. n \in Rest \cup D
        BY <3>6
      <4> QED BY <1>5, <2>5, <3>1, <3>4, <3>6, <4>1 DEF LevelsFor
    <3> QED BY <3>5, <3>6
  <2>8. E \in Sets
    <3>1. LevelsFor(c, M, Rest \cup E)
      BY <2>5, <2>7 DEF LevelsFor
    <3>2. ClosedIn(E) /\ E \in SUBSET Gates(c)
      BY <2>1
    <3> HIDE DEF E, M
    <3> QED BY <3>1, <3>2
  <2>9. Cardinality(Gates(c) \ E) = Cardinality(Gates(c) \ D) - 1
    <3> DEFINE T == Gates(c) \ D
    <3>1. Gates(c) \ E = T \ {g}
      OBVIOUS
    <3>2. IsFiniteSet(T) /\ g \in T
      BY <1>3
    <3>3. Cardinality(T \ {g}) = Cardinality(T) - 1
      <4> HIDE DEF T
      <4> QED BY <3>2, FS_RemoveElement
    <3> QED BY <3>1, <3>3
  <2>10. Cardinality(Gates(c) \ D) <= Cardinality(Gates(c) \ E) /\ Cardinality(Gates(c) \ D) \in Nat
    BY <1>3, <1>4, <2>8
  <2> QED BY <2>9, <2>10
<1>7. Rest \cup Gates(c) = Node \cup {NULL}
  BY <1>1 DEF Node
<1> QED BY <1>5, <1>6, <1>7

\* Levels increase along every wire.
LEMMA LevelsRank ==
  ASSUME NEW c, Good(c)
  PROVE  IsRanking(c, Levels(c))
<1> DEFINE N == Node \cup {NULL}
           Equation(L) == L = [n \in N |-> LevelAt(c, L, n)]
           K == CHOOSE L : Equation(L)
<1>1. c \in Circuit /\ WellFormed(c) /\ Acyclic(c) /\ Present(c) \subseteq Node /\ Gates(c) \subseteq Gate
  BY Nodes DEF Good
<1>2. PICK L : LevelsFor(c, L, N)
  BY LevelsExist
<1>3. L \in [N -> Nat] /\ \A n \in N : L[n] = LevelAt(c, L, n)
  BY <1>2 DEF LevelsFor
<1>4. Equation(L)
  BY <1>3
<1>5. Equation(K)
  BY <1>4
<1>6. Levels(c) = [n \in Present(c) |-> K[n]]
  BY DEF Levels, LevelAt
<1>7. \A n \in N : K[n] = LevelAt(c, K, n)
  BY <1>5
<1> HIDE DEF K, Equation
<1>8. \A n \in N \ Gates(c) : K[n] = L[n]
  <2>1. ASSUME NEW n \in Input \cup {ONE_GATE, NULL} PROVE n \in N /\ K[n] = L[n]
    <3>1. n \in N
      BY DEF Node, Const
    <3> QED BY <1>3, <1>7, <3>1 DEF LevelAt
  <2>2. ASSUME NEW n \in N \ Gates(c), n \notin Input \cup {ONE_GATE, NULL} PROVE K[n] = L[n]
    <3>1. n = ZERO_GATE \/ n \in Gate \ Gates(c)
      BY <2>2 DEF Node, Const
    <3>2. Fanin(c, n, 0) \in {ONE_GATE, NULL} /\ Fanin(c, n, 1) \in {ONE_GATE, NULL}
      BY <1>1, <3>1, FaninIs DEF Pin
    <3>3. /\ K[Fanin(c, n, 0)] = L[Fanin(c, n, 0)]
          /\ K[Fanin(c, n, 1)] = L[Fanin(c, n, 1)]
      BY <2>1, <3>2
    <3>4. K[n] = LevelAt(c, K, n) /\ L[n] = LevelAt(c, L, n)
      BY <1>3, <1>7
    <3> QED BY <2>2, <3>3, <3>4 DEF LevelAt
  <2> QED BY <2>1, <2>2
<1>9. \A n \in N : K[n] = L[n]
  <2> DEFINE S == {g \in Gates(c) : K[g] # L[g]}
  <2>1. ASSUME NEW g \in S PROVE \E p \in Pin : c.fanin[g][p] \in S
    <3>1. /\ g \in N /\ g \in Gate /\ 0 \in Pin /\ 1 \in Pin
          /\ g \notin Input \cup {ONE_GATE, NULL}
      BY <1>1, NetlistAssumption DEF Node, Pin, Const
    <3>2. /\ Fanin(c, g, 0) = c.fanin[g][0] /\ Fanin(c, g, 1) = c.fanin[g][1]
          /\ Fanin(c, g, 0) \in N /\ Fanin(c, g, 1) \in N
      BY <1>1, <3>1, FaninIs
    <3>3. K[g] = LevelAt(c, K, g) /\ L[g] = LevelAt(c, L, g) /\ K[g] # L[g]
      BY <1>3, <1>7, <3>1
    <3>4. K[c.fanin[g][0]] # L[c.fanin[g][0]] \/ K[c.fanin[g][1]] # L[c.fanin[g][1]]
      BY <3>1, <3>2, <3>3 DEF LevelAt
    <3>5. \A n \in N : K[n] # L[n] => n \in S
      BY <1>8
    <3> QED BY <3>1, <3>2, <3>4, <3>5
  <2>2. S = {}
    <3>1. S \in SUBSET Gates(c)
      OBVIOUS
    <3> HIDE DEF S
    <3> QED BY <1>1, <2>1, <3>1 DEF Acyclic
  <2> QED BY <1>8, <2>2
<1>10. Present(c) \subseteq N /\ ZERO_GATE \in N /\ ONE_GATE \in N /\ NULL \in N
  BY <1>1 DEF Node, Const
<1>11. Levels(c) \in [Present(c) -> Nat]
  BY <1>3, <1>6, <1>9, <1>10
<1>12. \A n \in Present(c) : Levels(c)[n] = L[n]
  BY <1>6, <1>9, <1>10
<1>13. Levels(c)[ZERO_GATE] = 1
  <2>1. ZERO_GATE \in Present(c) /\ ZERO_GATE \notin Input \cup {ONE_GATE, NULL} /\ ZERO_GATE \notin Gate
    BY NetlistAssumption DEF Present, Const, Node
  <2>2. Fanin(c, ZERO_GATE, 0) = ONE_GATE /\ Fanin(c, ZERO_GATE, 1) = NULL
    BY <2>1 DEF Fanin
  <2>3. L[ONE_GATE] = 0 /\ L[NULL] = 0
    BY <1>3, <1>10 DEF LevelAt
  <2>4. L[ZERO_GATE] = 1
    BY <1>3, <1>10, <2>1, <2>2, <2>3 DEF LevelAt, Larger
  <2> QED BY <1>12, <2>1, <2>4
<1>14. ASSUME NEW g \in Gates(c), NEW p \in Pin, c.fanin[g][p] # NULL
       PROVE  Levels(c)[c.fanin[g][p]] < Levels(c)[g]
  <2>1. c.fanin[g][p] \in Present(c) /\ g \in Present(c)
    BY <1>1, <1>14, Pins DEF Present
  <2>2. g \in N /\ g \in Gate /\ g \notin Input \cup {ONE_GATE, NULL}
    BY <1>1, NetlistAssumption DEF Node, Const
  <2>3. /\ Fanin(c, g, 0) = c.fanin[g][0] /\ Fanin(c, g, 1) = c.fanin[g][1]
        /\ Fanin(c, g, 0) \in N /\ Fanin(c, g, 1) \in N
    BY <1>1, <2>2, FaninIs DEF Pin
  <2>4. L[c.fanin[g][0]] \in Nat /\ L[c.fanin[g][1]] \in Nat
    BY <1>3, <2>3
  <2>5. L[g] = 1 + Larger(L[c.fanin[g][0]], L[c.fanin[g][1]])
    BY <1>3, <2>2, <2>3 DEF LevelAt
  <2>6. p = 0 \/ p = 1
    BY DEF Pin
  <2> DEFINE i == L[c.fanin[g][0]]
             j == L[c.fanin[g][1]]
  <2>7. L[c.fanin[g][p]] = i \/ L[c.fanin[g][p]] = j
    BY <2>6
  <2>8. L[c.fanin[g][p]] < L[g]
    <3> HIDE DEF i, j
    <3>1. i \in Nat /\ j \in Nat /\ L[g] = 1 + Larger(i, j)
      BY <2>4, <2>5 DEF i, j
    <3>2. Larger(i, j) \in Nat /\ i <= Larger(i, j) /\ j <= Larger(i, j)
      BY <3>1, LargerIs
    <3> QED BY <2>7, <3>1, <3>2
  <2> QED BY <1>12, <2>1, <2>8
<1> QED BY <1>11, <1>13, <1>14 DEF IsRanking

----------------------------------------------------------------------------
(* The rewrite rules.                                                      *)

\* A consistent valuation of the gates of a circuit (and maybe of more).
Models(c, V) == Consistent(c, V) /\ \A n \in Present(c) : Val(V, n) \in BOOLEAN
True(V, n)   == Val(V, n) = TRUE

----------------------------------------------------------------------------
(* The operations and the fanins of nodes.                                 *)

\* The operators of the rules and the fields of the circuit.
LEMMA View ==
  ASSUME NEW c \in Circuit, WellFormed(c), NEW n \in Present(c)
  PROVE  /\ OpOf(c, n) \in BinOp => n \in Gates(c) /\ F0(c, n) \in Present(c) /\ F1(c, n) \in Present(c)
         /\ OpOf(c, n) = "NOT" => F0(c, n) \in Present(c) /\ F1(c, n) = NULL
         /\ n \in Gates(c) => /\ OpOf(c, n) = c.op[n] /\ OpOf(c, n) \in BinOp \cup {"NOT"}
                              /\ F0(c, n) = c.fanin[n][0] /\ F1(c, n) = c.fanin[n][1]
         /\ n \notin Gates(c) => OpOf(c, n) \notin BinOp
         /\ OpOf(c, n) = "NOT" => n \in Gates(c) \/ (n = ZERO_GATE /\ F0(c, n) = ONE_GATE)
<1>1. n \in Gates(c) \/ (n \notin Gate /\ n # NULL)
  BY Nodes, NetlistAssumption DEF Present, Gates, Const
<1>2. CASE n \in Gates(c)
  <2>1. n \in Gate
    BY <1>2, Nodes
  <2>2. OpOf(c, n) = c.op[n] /\ F0(c, n) = c.fanin[n][0] /\ F1(c, n) = c.fanin[n][1]
    BY <2>1, Nodes DEF OpOf, F0, F1, Fanin
  <2>3. c.op[n] # "FREE" /\ "NOT" \notin BinOp
    BY <1>2 DEF Gates, BinOp
  <2> QED BY <1>2, <2>2, <2>3, Pins DEF BinOp
<1>3. CASE n \notin Gates(c)
  <2>1. n \notin Gate
    BY <1>1, <1>3
  <2>2. OpOf(c, n) = IF n = ZERO_GATE THEN "NOT" ELSE IF n = ONE_GATE THEN "ONE" ELSE "INPUT"
    BY <2>1, Nodes DEF OpOf
  <2>3. OpOf(c, n) \notin BinOp /\ (OpOf(c, n) = "NOT" => n = ZERO_GATE)
    BY <2>2 DEF BinOp
  <2>4. n = ZERO_GATE => F0(c, n) = ONE_GATE /\ F1(c, n) = NULL
    BY <2>1, Nodes DEF F0, F1, Fanin, Pin
  <2> QED BY <1>3, <2>3, <2>4, Nodes
<1> QED BY <1>2, <1>3

\* Which value a node has.
LEMMA Truth ==
  ASSUME NEW c \in Circuit, WellFormed(c), NEW V, Models(c, V), NEW n \in Present(c)
  PROVE  /\ Is(c, n, "NOT") => (True(V, n) <=> ~ True(V, F0(c, n)))
         /\ Is(c, n, "AND") => (True(V, n) <=> True(V, F0(c, n)) /\ True(V, F1(c, n)))
         /\ Is(c, n, "OR") => (True(V, n) <=> True(V, F0(c, n)) \/ True(V, F1(c, n)))
         /\ Is(c, n, "XOR") => (True(V, n) <=> ~ (True(V, F0(c, n)) <=> True(V, F1(c, n))))
         /\ True(V, ONE_GATE) /\ ~ True(V, ZERO_GATE)
<1>1. True(V, ONE_GATE) /\ ~ True(V, ZERO_GATE)
  BY Nodes DEF True, Val
<1>2. CASE n \in Gates(c)
  <2> DEFINE x == Val(V, F0(c, n))
             y == Val(V, F1(c, n))
  <2>1. F0(c, n) \in Present(c) /\ x \in BOOLEAN
    BY <1>2, View DEF Models
  <2>2. OpOf(c, n) \in BinOp => F1(c, n) \in Present(c) /\ y \in BOOLEAN
    BY <1>2, View DEF Models
  <2>3. Val(V, n) = Apply(OpOf(c, n), x, y)
    <3>1. V[n] = Apply(c.op[n], Val(V, c.fanin[n][0]), Val(V, c.fanin[n][1]))
      BY <1>2 DEF Models, Consistent
    <3>2. Val(V, n) = V[n]
      BY <1>2, Nodes DEF Val
    <3> QED BY <1>2, <3>1, <3>2, View
  <2> HIDE DEF x, y
  <2>4. CASE OpOf(c, n) = "NOT"
    <3>1. Val(V, n) = ~ x
      BY <2>3, <2>4 DEF Apply
    <3> QED BY <1>1, <2>1, <2>4, <3>1 DEF True, Is, x
  <2>5. CASE OpOf(c, n) = "AND"
    <3>1. Val(V, n) = (x /\ y)
      BY <2>3, <2>5 DEF Apply
    <3> QED BY <1>1, <2>1, <2>2, <2>5, <3>1 DEF True, Is, x, y, BinOp
  <2>6. CASE OpOf(c, n) = "OR"
    <3>1. Val(V, n) = (x \/ y)
      BY <2>3, <2>6 DEF Apply
    <3> QED BY <1>1, <2>1, <2>2, <2>6, <3>1 DEF True, Is, x, y, BinOp
  <2>7. CASE OpOf(c, n) = "XOR"
    <3>1. Val(V, n) = (x # y)
      BY <2>3, <2>7 DEF Apply
    <3> QED BY <1>1, <2>1, <2>2, <2>7, <3>1 DEF True, Is, x, y, BinOp
  <2> QED BY <1>2, <2>4, <2>5, <2>6, <2>7, View DEF BinOp
<1>3. CASE n \notin Gates(c)
  <2>1. OpOf(c, n) \notin BinOp /\ (OpOf(c, n) = "NOT" => n = ZERO_GATE /\ F0(c, n) = ONE_GATE)
    BY <1>3, View
  <2> QED BY <1>1, <2>1 DEF Is, BinOp
<1> QED BY <1>2, <1>3

\* The same for the two fanins in either order.
LEMMA SideOf ==
  ASSUME NEW c \in Circuit, WellFormed(c), NEW n \in Present(c), OpOf(c, n) \in BinOp,
         NEW s \in Sides(c, n)
  PROVE  /\ s[1] \in Present(c) /\ s[2] \in Present(c)
         /\ \A V : Models(c, V) =>
              /\ Is(c, n, "AND") => (True(V, n) <=> True(V, s[1]) /\ True(V, s[2]))
              /\ Is(c, n, "OR") => (True(V, n) <=> True(V, s[1]) \/ True(V, s[2]))
              /\ Is(c, n, "XOR") => (True(V, n) <=> ~ (True(V, s[1]) <=> True(V, s[2])))
<1>1. (s[1] = F0(c, n) /\ s[2] = F1(c, n)) \/ (s[1] = F1(c, n) /\ s[2] = F0(c, n))
  BY DEF Sides
<1> QED BY <1>1, View, Truth

\* is_same_gate(): the two nodes have the same value in every valuation.
LEMMA SameGate ==
  ASSUME NEW c \in Circuit, WellFormed(c), NEW m \in Present(c), NEW n \in Present(c),
         is_same_gate(c, m, n), NEW V, Models(c, V)
  PROVE  True(V, m) <=> True(V, n)
<1>1. CASE m = n
  BY <1>1
<1>2. CASE OpOf(c, m) = OpOf(c, n) /\ OpOf(c, m) \in BinOp /\ SameInputs(c, m, n)
  <2>1. (F0(c, m) = F0(c, n) /\ F1(c, m) = F1(c, n)) \/ (F0(c, m) = F1(c, n) /\ F1(c, m) = F0(c, n))
    BY <1>2 DEF SameInputs, Sides
  <2>2. \/ Is(c, m, "AND") /\ Is(c, n, "AND")
        \/ Is(c, m, "OR") /\ Is(c, n, "OR")
        \/ Is(c, m, "XOR") /\ Is(c, n, "XOR")
    BY <1>2 DEF Is, BinOp
  <2> QED BY <2>1, <2>2, Truth
<1>3. CASE OpOf(c, m) = OpOf(c, n) /\ OpOf(c, m) = "NOT" /\ SameInputs(c, m, n)
  <2>1. Is(c, m, "NOT") /\ Is(c, n, "NOT")
    BY <1>3 DEF Is
  <2>2. F0(c, m) # NULL /\ F1(c, m) = NULL /\ F0(c, n) # NULL /\ F1(c, n) = NULL
    <3>1. OpOf(c, m) = "NOT" /\ OpOf(c, n) = "NOT"
      BY <1>3
    <3> QED BY <3>1, View, Nodes
  <2>3. F0(c, m) = F0(c, n)
    BY <1>3, <2>2 DEF SameInputs, Sides
  <2> QED BY <2>1, <2>3, Truth
<1> QED BY <1>1, <1>2, <1>3 DEF is_same_gate

\* is_NOT_same_gate(): the two nodes have opposite values in every valuation.
LEMMA OppositeGate ==
  ASSUME NEW c \in Circuit, WellFormed(c), NEW m \in Present(c), NEW n \in Present(c),
         is_NOT_same_gate(c, m, n), NEW V, Models(c, V)
  PROVE  True(V, m) <=> ~ True(V, n)
  BY Truth DEF is_NOT_same_gate
----------------------------------------------------------------------------
(* Circuits that a rule has added gates to.                                *)

\* The addresses that are free.
Spare(c) == Cardinality({f \in Gate : c.op[f] = "FREE"})

\* Every gate of c is in d as it was, and is read by the same outputs.
Keeps(c, d) ==
  /\ Gates(c) \subseteq Gates(d)
  /\ \A n \in Gates(c) : d.op[n] = c.op[n] /\ d.fanin[n] = c.fanin[n]
  /\ d.out = c.out

\* d is c with at most j new gates, whose values follow from those of c.
Agree(c, V, W) == \A n \in Present(c) : Val(W, n) = Val(V, n)
Grown(c, d, j) ==
  /\ d \in Circuit /\ WellFormed(d) /\ Keeps(c, d)
  /\ Spare(c) <= Spare(d) + j
  /\ \A V \in Valuations(c) : \E W \in Valuations(d) : Agree(c, V, W)

\* The free addresses can be counted.
LEMMA FreeIsFinite ==
  ASSUME NEW c
  PROVE  IsFiniteSet({f \in Gate : c.op[f] = "FREE"})
  BY FS_Subset, NetlistAssumption

\* So their number is a natural number.
LEMMA SpareIsNat == \A c : Spare(c) \in Nat
<1> SUFFICES ASSUME NEW c PROVE Spare(c) \in Nat
  OBVIOUS
<1> QED BY FreeIsFinite, FS_CardinalityType DEF Spare

\* The nodes of c are in d with their operations and fanins.
LEMMA KeptNodes ==
  ASSUME NEW c \in Circuit, NEW d \in Circuit, Keeps(c, d)
  PROVE  /\ Present(c) \subseteq Present(d)
         /\ \A n \in Present(c) : /\ OpOf(d, n) = OpOf(c, n)
                                  /\ F0(d, n) = F0(c, n) /\ F1(d, n) = F1(c, n)
<1>1. Present(c) \subseteq Present(d)
  BY DEF Keeps, Present
<1>2. ASSUME NEW n \in Present(c)
      PROVE  OpOf(d, n) = OpOf(c, n) /\ F0(d, n) = F0(c, n) /\ F1(d, n) = F1(c, n)
  <2>1. CASE n \in Gates(c)
    <3>1. n \in Gate
      BY <2>1, Nodes
    <3> QED BY <2>1, <3>1, Nodes DEF Keeps, OpOf, F0, F1, Fanin
  <2>2. CASE n \notin Gates(c)
    <3>1. n \notin Gate
      BY <1>2, <2>2, NetlistAssumption DEF Present, Gates, Const
    <3> QED BY <3>1, Nodes DEF OpOf, F0, F1, Fanin
  <2> QED BY <2>1, <2>2
<1> QED BY <1>1, <1>2

\* A valuation of a circuit is one of the circuit that it grew from.
LEMMA KeptModels ==
  ASSUME NEW c \in Circuit, NEW d \in Circuit, Keeps(c, d), NEW V, Models(d, V)
  PROVE  Models(c, V)
<1>1. \A n \in Present(c) : Val(V, n) \in BOOLEAN
  BY KeptNodes DEF Models
<1>2. Consistent(c, V)
  BY DEF Models, Consistent, Keeps
<1> QED BY <1>1, <1>2 DEF Models

\* The valuations of the circuit are what the rules are proved about.
LEMMA ValuationModels ==
  ASSUME NEW c \in Circuit, NEW V \in Valuations(c)
  PROVE  Models(c, V)
<1>1. \A n \in Present(c) : Val(V, n) \in BOOLEAN
  BY Nodes DEF Valuations, Val, Present, Const
<1> QED BY <1>1 DEF Models, Valuations

\* A circuit that a rule leaves alone has grown by no gate.
LEMMA GrownSelf ==
  ASSUME NEW c \in Circuit, WellFormed(c)
  PROVE  Grown(c, c, 0)
<1>1. Keeps(c, c) /\ \A V : Agree(c, V, V)
  BY DEF Keeps, Agree
<1> QED BY <1>1, SpareIsNat DEF Grown

\* One growth after another is a growth, and the new gates add up.
LEMMA GrownMore ==
  ASSUME NEW c \in Circuit, NEW d, NEW e, NEW i \in Nat, NEW j \in Nat,
         Grown(c, d, i), Grown(d, e, j)
  PROVE  Grown(c, e, i + j)
<1>1. d \in Circuit /\ e \in Circuit /\ WellFormed(e) /\ Keeps(c, d) /\ Keeps(d, e)
  BY DEF Grown
<1>2. Keeps(c, e)
  BY <1>1 DEF Keeps
<1>3. Spare(c) <= Spare(e) + (i + j)
  <2>1. Spare(c) <= Spare(d) + i /\ Spare(d) <= Spare(e) + j
    BY DEF Grown
  <2> QED BY <2>1, SpareIsNat
<1>4. ASSUME NEW V \in Valuations(c) PROVE \E W \in Valuations(e) : Agree(c, V, W)
  <2>1. PICK U \in Valuations(d) : Agree(c, V, U)
    BY DEF Grown
  <2>2. PICK W \in Valuations(e) : Agree(d, U, W)
    BY DEF Grown
  <2> QED BY <1>1, <2>1, <2>2, KeptNodes DEF Agree
<1> QED BY <1>1, <1>2, <1>3, <1>4 DEF Grown

\* More may be said to be used.
LEMMA GrownLess ==
  ASSUME NEW c \in Circuit, NEW d, NEW i \in Nat, NEW j \in Nat, i <= j, Grown(c, d, i)
  PROVE  Grown(c, d, j)
<1>1. Spare(c) <= Spare(d) + j
  BY SpareIsNat DEF Grown
<1> QED BY <1>1 DEF Grown

\* A new gate at a free address.
LEMMA NewGateGrows ==
  ASSUME NEW c \in Circuit, WellFormed(c), Spare(c) >= 1, NEW op \in BinOp \cup {"NOT"},
         NEW x \in Present(c), NEW y, IF op = "NOT" THEN y = NULL ELSE y \in Present(c),
         NEW m, m = NewGate(c, op, x, y)
  PROVE  /\ Grown(c, m.c, 1) /\ m.n \in Gates(m.c) \ Gates(c) /\ Gates(m.c) = Gates(c) \cup {m.n}
         /\ OpOf(m.c, m.n) = op /\ F0(m.c, m.n) = x /\ F1(m.c, m.n) = y
<1> DEFINE Free == {f \in Gate : c.op[f] = "FREE"}
<1>1. \E f \in Gate : c.op[f] = "FREE"
  <2>1. Free # {}
    <3>1. Free = {} => Cardinality(Free) = 0
      BY FS_EmptySet
    <3> QED BY <3>1 DEF Spare
  <2> QED BY <2>1
<1> DEFINE g0 == CHOOSE f \in Gate : c.op[f] = "FREE"
<1>2. PICK g \in Gate : g = g0 /\ c.op[g] = "FREE"
  BY <1>1
<1> DEFINE d == [c EXCEPT !.op[g] = op, !.fanin[g] = [p \in Pin |-> IF p = 0 THEN x ELSE y]]
<1>3. m.c = d /\ m.n = g
  BY <1>2 DEF NewGate, Match
<1> HIDE DEF g0
<1>4. op \in Op /\ op # "FREE" /\ x \in Node \cup {NULL} /\ y \in Node \cup {NULL}
  BY Nodes DEF Op, BinOp
<1>5. d.op = [c.op EXCEPT ![g] = op] /\ d.out = c.out
        /\ d.fanin = [c.fanin EXCEPT ![g] = [p \in Pin |-> IF p = 0 THEN x ELSE y]]
  BY DEF Circuit
<1>6. d \in Circuit
  BY <1>4 DEF Circuit
<1> HIDE DEF d
<1>7. /\ d.op[g] = op /\ d.fanin[g][0] = x /\ d.fanin[g][1] = y
      /\ \A k \in Gate \ {g} : d.op[k] = c.op[k] /\ d.fanin[k] = c.fanin[k]
  BY <1>5 DEF Circuit, Pin
<1>8. Gates(d) = Gates(c) \cup {g} /\ g \notin Gates(c)
  BY <1>2, <1>4, <1>7 DEF Gates
<1>9. Present(d) = Present(c) \cup {g}
  BY <1>8 DEF Present
<1>10. WellFormed(d)
  <2>1. "NOT" \notin BinOp /\ "FREE" \notin BinOp
    BY DEF BinOp
  <2>2. ASSUME NEW k \in Gate
        PROVE  /\ d.op[k] # "FREE" => d.fanin[k][0] \in Present(d)
               /\ d.op[k] = "FREE" => d.fanin[k][0] = NULL
               /\ d.op[k] \in BinOp => d.fanin[k][1] \in Present(d)
               /\ d.op[k] \notin BinOp => d.fanin[k][1] = NULL
    <3>1. CASE k = g
      BY <1>4, <1>7, <1>9, <2>1, <3>1
    <3>2. CASE k # g
      BY <1>7, <1>9, <3>2 DEF WellFormed
    <3> QED BY <3>1, <3>2
  <2>3. \A o \in Output : d.out[o] \in Present(d)
    BY <1>5, <1>9 DEF WellFormed
  <2> QED BY <2>2, <2>3 DEF WellFormed
<1>11. Keeps(c, d)
  BY <1>5, <1>7, <1>8, Nodes DEF Keeps
<1>12. Spare(c) <= Spare(d) + 1
  <2>1. {f \in Gate : d.op[f] = "FREE"} = Free \ {g}
    BY <1>4, <1>7
  <2>2. g \in Free /\ IsFiniteSet(Free)
    BY <1>2, FreeIsFinite
  <2>3. Cardinality(Free \ {g}) = Cardinality(Free) - 1
    BY <2>2, FS_RemoveElement
  <2>4. Spare(d) = Spare(c) - 1
    BY <2>1, <2>3 DEF Spare
  <2> QED BY <2>4, SpareIsNat
<1>13. ASSUME NEW V \in Valuations(c) PROVE \E W \in Valuations(d) : Agree(c, V, W)
  <2> DEFINE v == Apply(op, Val(V, x), Val(V, y))
             W == [n \in Input \cup Gates(d) |-> IF n = g THEN v ELSE V[n]]
  <2>1. \A n \in Present(c) : Val(V, n) \in BOOLEAN
    BY ValuationModels DEF Models
  <2>2. v \in BOOLEAN
    <3>1. Val(V, NULL) \in BOOLEAN
      BY Nodes DEF Val
    <3>2. Val(V, x) \in BOOLEAN /\ Val(V, y) \in BOOLEAN
      BY <2>1, <3>1
    <3> QED BY <3>2 DEF Apply
  <2> HIDE DEF v
  <2>3. V \in [Input \cup Gates(c) -> BOOLEAN] /\ Consistent(c, V)
    BY DEF Valuations
  <2>4. W \in [Input \cup Gates(d) -> BOOLEAN]
    BY <1>8, <2>2, <2>3
  <2>5. g \notin Input /\ g # ONE_GATE /\ g # ZERO_GATE /\ g # NULL /\ g \notin Present(c)
    BY <1>8, Nodes DEF Present, Const
  <2>6. \A n \in Present(c) \cup {NULL} : Val(W, n) = Val(V, n)
    BY <1>8, <2>5 DEF Val, Present, Const
  <2>7. W[g] = v
    BY <1>8
  <2>8. Consistent(d, W)
    <3> SUFFICES ASSUME NEW k \in Gates(d)
                 PROVE  W[k] = Apply(d.op[k], Val(W, d.fanin[k][0]), Val(W, d.fanin[k][1]))
      BY DEF Consistent
    <3>1. CASE k = g
      <4>1. Val(W, x) = Val(V, x) /\ Val(W, y) = Val(V, y)
        BY <2>6
      <4> QED BY <1>7, <2>7, <3>1, <4>1 DEF v
    <3>2. CASE k # g
      <4>1. k \in Gates(c) /\ k \in Gate
        BY <1>8, <3>2, Nodes
      <4>2. c.fanin[k][0] \in Present(c) \cup {NULL} /\ c.fanin[k][1] \in Present(c) \cup {NULL}
        BY <4>1, Pins DEF Pin
      <4>3. W[k] = V[k]
        BY <1>8, <3>2, <4>1
      <4> QED BY <1>7, <2>3, <2>6, <3>2, <4>1, <4>2, <4>3 DEF Consistent
    <3> QED BY <3>1, <3>2
  <2> HIDE DEF W
  <2> QED BY <2>4, <2>6, <2>8 DEF Valuations, Agree
<1>14. Grown(c, d, 1)
  BY <1>6, <1>10, <1>11, <1>12, <1>13 DEF Grown
<1>15. OpOf(d, g) = op /\ F0(d, g) = x /\ F1(d, g) = y
  BY <1>7, Nodes DEF OpOf, F0, F1, Fanin
<1> QED BY <1>3, <1>8, <1>14, <1>15

\* The gate op(x, y), found or created.
LEMMA GateCreated ==
  ASSUME NEW c \in Circuit, WellFormed(c), Spare(c) >= 1, NEW op \in BinOp,
         NEW x \in Present(c), NEW y \in Present(c), NEW m, m = create_this_gate(c, x, y, op)
  PROVE  /\ Grown(c, m.c, 1) /\ m.n \in Gates(m.c)
         /\ OpOf(m.c, m.n) = op /\ <<x, y>> \in Sides(m.c, m.n)
<1> DEFINE found == {g \in Gates(c) : c.op[g] = op /\ <<x, y>> \in Sides(c, g)}
<1>1. CASE found # {}
  <2>1. PICK g \in found : m = Match(c, g)
    BY <1>1 DEF create_this_gate
  <2>2. m.c = c /\ m.n = g
    BY <2>1 DEF Match
  <2>3. Grown(c, c, 1)
    BY GrownSelf, GrownLess
  <2>4. OpOf(c, g) = op
    BY <2>1, View, Nodes
  <2> QED BY <2>1, <2>2, <2>3, <2>4
<1>2. CASE found = {}
  <2>1. m = NewGate(c, op, x, y)
    BY <1>2 DEF create_this_gate
  <2>2. op # "NOT"
    BY DEF BinOp
  <2>3. /\ Grown(c, m.c, 1) /\ m.n \in Gates(m.c) \ Gates(c)
        /\ OpOf(m.c, m.n) = op /\ F0(m.c, m.n) = x /\ F1(m.c, m.n) = y
    BY <2>1, <2>2, NewGateGrows
  <2> QED BY <2>3 DEF Sides
<1> QED BY <1>1, <1>2

\* The gate NOT(x), found or created.
LEMMA NotCreated ==
  ASSUME NEW c \in Circuit, WellFormed(c), Spare(c) >= 1,
         NEW x \in Present(c), NEW m, m = create_this_NOT_gate(c, x)
  PROVE  /\ Grown(c, m.c, 1) /\ m.n \in Present(m.c)
         /\ OpOf(m.c, m.n) = "NOT" /\ F0(m.c, m.n) = x
<1> DEFINE found == {g \in Gates(c) : c.op[g] = "NOT" /\ c.fanin[g][0] = x}
<1>0. Grown(c, c, 1)
  BY GrownSelf, GrownLess
<1>1. CASE x = ONE_GATE
  <2>1. m.c = c /\ m.n = ZERO_GATE
    BY <1>1 DEF create_this_NOT_gate, Match
  <2>2. ZERO_GATE \in Present(c) /\ OpOf(c, ZERO_GATE) = "NOT" /\ F0(c, ZERO_GATE) = ONE_GATE
    BY Nodes DEF OpOf, F0, Fanin
  <2> QED BY <1>0, <1>1, <2>1, <2>2
<1>2. CASE x # ONE_GATE /\ found # {}
  <2>1. PICK g \in found : m = Match(c, g)
    BY <1>2 DEF create_this_NOT_gate
  <2>2. m.c = c /\ m.n = g /\ g \in Present(c)
    BY <2>1, Nodes DEF Match
  <2>3. OpOf(c, g) = "NOT" /\ F0(c, g) = x
    BY <2>1, <2>2, View
  <2> QED BY <1>0, <2>2, <2>3
<1>3. CASE x # ONE_GATE /\ found = {}
  <2>1. m = NewGate(c, "NOT", x, NULL)
    BY <1>3 DEF create_this_NOT_gate
  <2>2. /\ Grown(c, m.c, 1) /\ m.n \in Gates(m.c) \ Gates(c)
        /\ OpOf(m.c, m.n) = "NOT" /\ F0(m.c, m.n) = x
    BY <2>1, NewGateGrows
  <2>3. m.n \in Present(m.c)
    BY <2>2 DEF Present
  <2> QED BY <2>2, <2>3
<1> QED BY <1>1, <1>2, <1>3
----------------------------------------------------------------------------
(* Rules that add no gate.                                                 *)

\* g may be replaced by the node of the match m: it is there, and in every
\* model of the circuit it has the value of g.
Replaces(c, g, m, j) ==
  /\ Grown(c, m.c, j) /\ m.n \in Present(m.c)
  /\ \A V : Models(m.c, V) => (True(V, g) <=> True(V, m.n))

\* The same when the circuit is as it was.
Direct(c, g, m) ==
  /\ m.c = c /\ m.n \in Present(c)
  /\ \A V : Models(c, V) => (True(V, g) <=> True(V, m.n))

\* A match that adds no gate, with a node of the value of g, is direct.
LEMMA DirectMatch ==
  ASSUME NEW c, NEW g, NEW n \in Present(c), NEW m, m = Match(c, n),
         \A V : Models(c, V) => (True(V, g) <=> True(V, n))
  PROVE  Direct(c, g, m)
  BY DEF Direct, Match

\* A direct match may replace g.
LEMMA DirectReplaces ==
  ASSUME NEW c \in Circuit, WellFormed(c), NEW g, NEW m, Direct(c, g, m)
  PROVE  Replaces(c, g, m, 0)
  BY GrownSelf DEF Direct, Replaces

\* g may be replaced by the negation of what it is the negation of.
LEMMA NegatedReplaces ==
  ASSUME NEW c \in Circuit, WellFormed(c), Spare(c) >= 1, NEW g \in Gates(c), NEW n \in Present(c),
         \A V : Models(c, V) => (True(V, g) <=> ~ True(V, n)), NEW m, m = create_this_NOT_gate(c, n)
  PROVE  Replaces(c, g, m, 1)
<1>1. /\ Grown(c, m.c, 1) /\ m.n \in Present(m.c)
      /\ OpOf(m.c, m.n) = "NOT" /\ F0(m.c, m.n) = n
  BY NotCreated
<1>2. m.c \in Circuit /\ WellFormed(m.c) /\ Keeps(c, m.c)
  BY <1>1 DEF Grown
<1>3. ASSUME NEW V, Models(m.c, V) PROVE True(V, g) <=> True(V, m.n)
  <2>1. Models(c, V)
    BY <1>2, <1>3, KeptModels
  <2>2. True(V, m.n) <=> ~ True(V, n)
    BY <1>1, <1>2, <1>3, Truth DEF Is
  <2> QED BY <2>1, <2>2
<1> QED BY <1>1, <1>3 DEF Replaces

\* Constants, idempotence and complement.
LEMMA SimpleRules ==
  ASSUME NEW c \in Circuit, WellFormed(c), Spare(c) >= 1, NEW g \in Gates(c), NEW m \in Simple(c, g)
  PROVE  Replaces(c, g, m, 1)
<1>1. g \in Present(c) /\ ONE_GATE \in Present(c) /\ ZERO_GATE \in Present(c)
  BY Nodes
<1>2. \A n \in Present(c) : Grown(c, c, 0) /\ Grown(c, c, 1)
  BY GrownSelf, GrownLess
<1>3. SUFFICES Direct(c, g, m) \/ Replaces(c, g, m, 1)
  <2>1. Direct(c, g, m) => Replaces(c, g, m, 1)
    BY <1>1, <1>2 DEF Direct, Replaces
  <2> QED BY <2>1
<1>4. \/ m \in propagate_zero(c, g) \/ m \in propagate_one(c, g)
      \/ m \in transform_XOR5(c, g) \/ m \in transform3(c, g)
  BY DEF Simple, ||
<1>5. CASE m \in propagate_zero(c, g)
  <2>1. \/ Is(c, g, "NOT") /\ F0(c, g) = ZERO_GATE /\ m = Match(c, ONE_GATE)
        \/ Is(c, g, "AND") /\ ZERO_GATE \in {F0(c, g), F1(c, g)} /\ m = Match(c, ZERO_GATE)
        \/ \E s \in Sides(c, g) : /\ OpOf(c, g) \in {"OR", "XOR"} /\ s[1] = ZERO_GATE
                                  /\ m = Match(c, s[2])
    BY <1>5 DEF propagate_zero, When
  <2>2. CASE Is(c, g, "NOT") /\ F0(c, g) = ZERO_GATE /\ m = Match(c, ONE_GATE)
    BY <1>1, <2>2, Truth, DirectMatch
  <2>3. CASE Is(c, g, "AND") /\ ZERO_GATE \in {F0(c, g), F1(c, g)} /\ m = Match(c, ZERO_GATE)
    BY <1>1, <2>3, Truth, DirectMatch
  <2>4. ASSUME NEW s \in Sides(c, g), OpOf(c, g) \in {"OR", "XOR"}, s[1] = ZERO_GATE,
               m = Match(c, s[2])
        PROVE  Direct(c, g, m)
    <3>1. OpOf(c, g) \in BinOp /\ (Is(c, g, "OR") \/ Is(c, g, "XOR"))
      BY <2>4 DEF BinOp, Is
    <3>2. s[2] \in Present(c) /\ \A V : Models(c, V) => (True(V, g) <=> True(V, s[2]))
      BY <1>1, <2>4, <3>1, SideOf, Truth
    <3> QED BY <2>4, <3>2, DirectMatch
  <2> QED BY <2>1, <2>2, <2>3, <2>4
<1>6. CASE m \in propagate_one(c, g)
  <2>1. \/ Is(c, g, "NOT") /\ F0(c, g) = ONE_GATE /\ m = Match(c, ZERO_GATE)
        \/ Is(c, g, "OR") /\ ONE_GATE \in {F0(c, g), F1(c, g)} /\ m = Match(c, ONE_GATE)
        \/ \E s \in Sides(c, g) : Is(c, g, "AND") /\ s[1] = ONE_GATE /\ m = Match(c, s[2])
        \/ \E s \in Sides(c, g) : /\ Is(c, g, "XOR") /\ s[1] = ONE_GATE
                                  /\ m = create_this_NOT_gate(c, s[2])
    BY <1>6 DEF propagate_one, When
  <2>2. CASE Is(c, g, "NOT") /\ F0(c, g) = ONE_GATE /\ m = Match(c, ZERO_GATE)
    BY <1>1, <2>2, Truth, DirectMatch
  <2>3. CASE Is(c, g, "OR") /\ ONE_GATE \in {F0(c, g), F1(c, g)} /\ m = Match(c, ONE_GATE)
    BY <1>1, <2>3, Truth, DirectMatch
  <2>4. ASSUME NEW s \in Sides(c, g), Is(c, g, "AND"), s[1] = ONE_GATE, m = Match(c, s[2])
        PROVE  Direct(c, g, m)
    <3>1. OpOf(c, g) \in BinOp
      BY <2>4 DEF BinOp, Is
    <3>2. s[2] \in Present(c) /\ \A V : Models(c, V) => (True(V, g) <=> True(V, s[2]))
      BY <1>1, <2>4, <3>1, SideOf, Truth
    <3> QED BY <2>4, <3>2, DirectMatch
  <2>5. ASSUME NEW s \in Sides(c, g), Is(c, g, "XOR"), s[1] = ONE_GATE,
               m = create_this_NOT_gate(c, s[2])
        PROVE  Replaces(c, g, m, 1)
    <3>1. OpOf(c, g) \in BinOp
      BY <2>5 DEF BinOp, Is
    <3>2. s[2] \in Present(c) /\ \A V : Models(c, V) => (True(V, g) <=> ~ True(V, s[2]))
      BY <1>1, <2>5, <3>1, SideOf, Truth
    <3> QED BY <2>5, <3>2, NegatedReplaces
  <2> QED BY <2>1, <2>2, <2>3, <2>4, <2>5
<1>7. CASE m \in transform_XOR5(c, g)
  <2>1. \/ Is(c, g, "XOR") /\ is_same_gate(c, F0(c, g), F1(c, g)) /\ m = Match(c, ZERO_GATE)
        \/ Is(c, g, "XOR") /\ is_NOT_same_gate(c, F0(c, g), F1(c, g)) /\ m = Match(c, ONE_GATE)
    BY <1>7 DEF transform_XOR5, When, ||
  <2>2. Is(c, g, "XOR") /\ F0(c, g) \in Present(c) /\ F1(c, g) \in Present(c)
    BY <1>1, <2>1, View DEF Is, BinOp
  <2>3. CASE is_same_gate(c, F0(c, g), F1(c, g)) /\ m = Match(c, ZERO_GATE)
    <3>1. \A V : Models(c, V) => (True(V, g) <=> True(V, ZERO_GATE))
      BY <1>1, <2>2, <2>3, Truth, SameGate
    <3> QED BY <1>1, <2>3, <3>1, DirectMatch
  <2>4. CASE is_NOT_same_gate(c, F0(c, g), F1(c, g)) /\ m = Match(c, ONE_GATE)
    <3>1. \A V : Models(c, V) => (True(V, g) <=> True(V, ONE_GATE))
      BY <1>1, <2>2, <2>4, Truth, OppositeGate
    <3> QED BY <1>1, <2>4, <3>1, DirectMatch
  <2> QED BY <2>1, <2>3, <2>4
<1>8. CASE m \in transform3(c, g)
  <2>1. /\ OpOf(c, g) \in {"OR", "AND"} /\ is_same_gate(c, F0(c, g), F1(c, g))
        /\ m = Match(c, F0(c, g))
    BY <1>8 DEF transform3, When
  <2>2. F0(c, g) \in Present(c) /\ F1(c, g) \in Present(c) /\ (Is(c, g, "OR") \/ Is(c, g, "AND"))
    BY <1>1, <2>1, View DEF Is, BinOp
  <2>3. \A V : Models(c, V) => (True(V, g) <=> True(V, F0(c, g)))
    BY <1>1, <2>1, <2>2, Truth, SameGate
  <2> QED BY <2>1, <2>2, <2>3, DirectMatch
<1> QED BY <1>4, <1>5, <1>6, <1>7, <1>8
\* Double negation, complement and absorption.
LEMMA FaninRules ==
  ASSUME NEW c \in Circuit, WellFormed(c), NEW g \in Gates(c), NEW m \in ToFanin(c, g)
  PROVE  Direct(c, g, m)
<1>1. g \in Present(c) /\ ONE_GATE \in Present(c) /\ ZERO_GATE \in Present(c)
  BY Nodes
<1>2. \/ m \in transform4(c, g) \/ m \in transform5(c, g)
      \/ m \in transform12_1(c, g) \/ m \in transform12_2(c, g)
  BY DEF ToFanin, ||
<1>3. CASE m \in transform4(c, g)
  <2>1. Is(c, g, "NOT") /\ Is(c, F0(c, g), "NOT") /\ m = Match(c, F0(c, F0(c, g)))
    BY <1>3 DEF transform4, When
  <2>2. F0(c, g) \in Present(c) /\ F0(c, F0(c, g)) \in Present(c)
    BY <1>1, <2>1, View DEF Is
  <2>3. \A V : Models(c, V) => (True(V, g) <=> True(V, F0(c, F0(c, g))))
    BY <1>1, <2>1, <2>2, Truth
  <2> QED BY <2>1, <2>2, <2>3, DirectMatch
<1>4. CASE m \in transform5(c, g)
  <2>1. /\ OpOf(c, g) \in {"OR", "AND"} /\ is_NOT_same_gate(c, F0(c, g), F1(c, g))
        /\ m = Match(c, IF Is(c, g, "OR") THEN ONE_GATE ELSE ZERO_GATE)
    BY <1>4 DEF transform5, When
  <2>2. F0(c, g) \in Present(c) /\ F1(c, g) \in Present(c)
    BY <1>1, <2>1, View DEF BinOp
  <2>3. \A V : Models(c, V) => (True(V, F0(c, g)) <=> ~ True(V, F1(c, g)))
    BY <2>1, <2>2, OppositeGate
  <2>4. CASE Is(c, g, "OR")
    <3>1. \A V : Models(c, V) => (True(V, g) <=> True(V, ONE_GATE))
      BY <1>1, <2>3, <2>4, Truth
    <3> QED BY <1>1, <2>1, <2>4, <3>1, DirectMatch
  <2>5. CASE Is(c, g, "AND")
    <3>1. \A V : Models(c, V) => (True(V, g) <=> True(V, ZERO_GATE))
      BY <1>1, <2>3, <2>5, Truth
    <3> QED BY <1>1, <2>1, <2>5, <3>1, DirectMatch DEF Is
  <2> QED BY <2>1, <2>4, <2>5 DEF Is
<1>5. CASE m \in transform12_1(c, g)
  <2>1. PICK s \in Sides(c, g) : Is(c, g, "OR") /\ is_one_of(c, s[1], s[2], "AND") /\ m = Match(c, s[2])
    BY <1>5 DEF transform12_1
  <2>2. s[1] \in Present(c) /\ s[2] \in Present(c)
          /\ \A V : Models(c, V) => (True(V, g) <=> True(V, s[1]) \/ True(V, s[2]))
    BY <1>1, <2>1, SideOf DEF Is, BinOp
  <2>3. Is(c, s[1], "AND") /\ F0(c, s[1]) \in Present(c) /\ F1(c, s[1]) \in Present(c)
    BY <2>1, <2>2, View DEF is_one_of, Is, BinOp
  <2>4. \A V : Models(c, V) => \/ True(V, s[2]) <=> True(V, F0(c, s[1]))
                               \/ True(V, s[2]) <=> True(V, F1(c, s[1]))
    BY <2>1, <2>2, <2>3, SameGate DEF is_one_of
  <2>5. \A V : Models(c, V) => (True(V, g) <=> True(V, s[2]))
    BY <2>2, <2>3, <2>4, Truth
  <2> QED BY <2>1, <2>2, <2>5, DirectMatch
<1>6. CASE m \in transform12_2(c, g)
  <2>1. PICK s \in Sides(c, g) : Is(c, g, "AND") /\ is_one_of(c, s[1], s[2], "OR") /\ m = Match(c, s[2])
    BY <1>6 DEF transform12_2
  <2>2. s[1] \in Present(c) /\ s[2] \in Present(c)
          /\ \A V : Models(c, V) => (True(V, g) <=> True(V, s[1]) /\ True(V, s[2]))
    BY <1>1, <2>1, SideOf DEF Is, BinOp
  <2>3. Is(c, s[1], "OR") /\ F0(c, s[1]) \in Present(c) /\ F1(c, s[1]) \in Present(c)
    BY <2>1, <2>2, View DEF is_one_of, Is, BinOp
  <2>4. \A V : Models(c, V) => \/ True(V, s[2]) <=> True(V, F0(c, s[1]))
                               \/ True(V, s[2]) <=> True(V, F1(c, s[1]))
    BY <2>1, <2>2, <2>3, SameGate DEF is_one_of
  <2>5. \A V : Models(c, V) => (True(V, g) <=> True(V, s[2]))
    BY <2>2, <2>3, <2>4, Truth
  <2> QED BY <2>1, <2>2, <2>5, DirectMatch
<1> QED BY <1>2, <1>3, <1>4, <1>5, <1>6

\* A gate with the same operation and fanins is there, and has the same value
\* unless the gate reads one node twice: then any other reader of that node is
\* taken for it.
LEMMA HashingRules ==
  ASSUME NEW c \in Circuit, WellFormed(c), NEW g \in Gates(c), NEW m \in Hashing(c, g)
  PROVE  /\ m.c = c /\ m.n \in Present(c)
         /\ OpOf(c, g) \in BinOp => OpOf(c, m.n) = OpOf(c, g)
         /\ F0(c, g) # F1(c, g) \/ OpOf(c, g) = "NOT" => Direct(c, g, m)
<1>1. g \in Present(c)
  BY Nodes
<1>2. m \in structural_hashing_NOT(c, g) \/ m \in structural_hashing_BINOP(c, g)
  BY DEF Hashing, ||
<1>3. CASE m \in structural_hashing_NOT(c, g)
  <2>1. PICK f \in Fanouts(c, F0(c, g)) : Is(c, g, "NOT") /\ Is(c, f[1], "NOT") /\ m = Match(c, f[1])
    BY <1>3 DEF structural_hashing_NOT
  <2>2. F0(c, g) \in Present(c)
    BY <1>1, <2>1, View DEF Is
  <2>3. f[1] \in Present(c) /\ F0(c, f[1]) = F0(c, g)
    <3>1. CASE f \in Gates(c) \X Pin /\ c.fanin[f[1]][f[2]] = F0(c, g)
      <4>1. f[1] \in Gates(c) /\ f[1] \in Present(c) /\ f[2] \in {0, 1}
        BY <3>1, Nodes DEF Pin
      <4>2. F1(c, f[1]) = NULL /\ c.fanin[f[1]][1] = F1(c, f[1]) /\ c.fanin[f[1]][0] = F0(c, f[1])
        BY <2>1, <4>1, View DEF Is
      <4>3. F0(c, g) # NULL
        BY <2>2, Nodes
      <4> QED BY <3>1, <4>1, <4>2, <4>3
    <3>2. CASE f \in Output \X {0}
      <4>1. f[1] \in Output /\ f[1] \notin Gate /\ f[1] # ZERO_GATE
        BY <3>2, NetlistAssumption DEF Node, Const
      <4>2. OpOf(c, f[1]) # "NOT"
        BY <4>1, Nodes DEF OpOf
      <4> QED BY <2>1, <4>2 DEF Is
    <3>3. CASE f = <<ZERO_GATE, 0>> /\ F0(c, g) = ONE_GATE
      <4>1. f[1] = ZERO_GATE /\ F0(c, ZERO_GATE) = ONE_GATE
        BY <3>3, Nodes DEF F0, Fanin
      <4> QED BY <3>3, <4>1, Nodes
    <3> QED BY <3>1, <3>2, <3>3 DEF Fanouts
  <2>4. \A V : Models(c, V) => (True(V, g) <=> True(V, f[1]))
    BY <1>1, <2>1, <2>3, Truth
  <2>5. OpOf(c, g) \notin BinOp
    BY <2>1 DEF Is, BinOp
  <2>6. Direct(c, g, m)
    BY <2>1, <2>3, <2>4, DirectMatch
  <2> QED BY <2>5, <2>6 DEF Direct
<1>4. CASE m \in structural_hashing_BINOP(c, g)
  <2>1. PICK h \in Gates(c) \ {g}, p \in Pin, q \in Pin :
          /\ OpOf(c, g) \in BinOp /\ c.op[h] = c.op[g] /\ m = Match(c, h)
          /\ c.fanin[h][p] = F0(c, g) /\ c.fanin[h][q] = F1(c, g)
    BY <1>4 DEF structural_hashing_BINOP
  <2>2. h \in Present(c) /\ OpOf(c, h) = OpOf(c, g)
    BY <1>1, <2>1, View, Nodes
  <2>3. c.fanin[h][0] = F0(c, h) /\ c.fanin[h][1] = F1(c, h)
    BY <2>1, <2>2, View
  <2>4. ASSUME F0(c, g) # F1(c, g) PROVE is_same_gate(c, g, h)
    <3>1. (p = 0 /\ q = 1) \/ (p = 1 /\ q = 0)
      BY <2>1, <2>4 DEF Pin
    <3> QED BY <2>1, <2>2, <2>3, <3>1 DEF is_same_gate, SameInputs, Sides
  <2>5. ASSUME F0(c, g) # F1(c, g) PROVE Direct(c, g, m)
    <3>1. \A V : Models(c, V) => (True(V, g) <=> True(V, h))
      BY <1>1, <2>2, <2>4, <2>5, SameGate
    <3> QED BY <2>1, <2>2, <3>1, DirectMatch
  <2>6. m.c = c /\ m.n = h /\ OpOf(c, g) # "NOT"
    BY <2>1 DEF Match, BinOp
  <2> QED BY <2>2, <2>5, <2>6
<1> QED BY <1>2, <1>3, <1>4
----------------------------------------------------------------------------
(* Rules that build a gate.                                                *)

\* g may be replaced by a gate op(p.l, p.r).
Computes(c, g, op, x, y) ==
  /\ x \in Present(c) /\ y \in Present(c)
  /\ \A V : Models(c, V) =>
       /\ op = "AND" => (True(V, g) <=> True(V, x) /\ True(V, y))
       /\ op = "OR" => (True(V, g) <=> True(V, x) \/ True(V, y))
       /\ op = "XOR" => (True(V, g) <=> ~ (True(V, x) <=> True(V, y)))

BuiltFrom(c, g, p, op, j) == Grown(c, p.c, j) /\ Computes(p.c, g, op, p.l, p.r)

\* g may be replaced by a gate made with create_this_gate() from a pair of
\* nodes whose values give the value of g.
LEMMA BuiltReplaces ==
  ASSUME NEW c \in Circuit, NEW g \in Gates(c), NEW p, NEW op \in BinOp, NEW j \in Nat,
         BuiltFrom(c, g, p, op, j), Spare(p.c) >= 1,
         NEW m, m = create_this_gate(p.c, p.l, p.r, op)
  PROVE  Replaces(c, g, m, j + 1)
<1> DEFINE d == p.c
<1>1. d \in Circuit /\ WellFormed(d) /\ Computes(d, g, op, p.l, p.r)
  BY DEF BuiltFrom, Grown
<1>2. p.l \in Present(d) /\ p.r \in Present(d)
  BY <1>1 DEF Computes
<1>3. /\ Grown(d, m.c, 1) /\ m.n \in Gates(m.c)
      /\ OpOf(m.c, m.n) = op /\ <<p.l, p.r>> \in Sides(m.c, m.n)
  BY <1>1, <1>2, GateCreated
<1>4. Grown(c, m.c, j + 1)
  BY <1>3, GrownMore DEF BuiltFrom
<1>5. m.c \in Circuit /\ WellFormed(m.c) /\ Keeps(d, m.c) /\ m.n \in Present(m.c)
  BY <1>3, Nodes DEF Grown
<1>6. ASSUME NEW V, Models(m.c, V) PROVE True(V, g) <=> True(V, m.n)
  <2>1. Models(d, V)
    BY <1>1, <1>5, <1>6, KeptModels
  <2>2. /\ Is(m.c, m.n, "AND") => (True(V, m.n) <=> True(V, p.l) /\ True(V, p.r))
        /\ Is(m.c, m.n, "OR") => (True(V, m.n) <=> True(V, p.l) \/ True(V, p.r))
        /\ Is(m.c, m.n, "XOR") => (True(V, m.n) <=> ~ (True(V, p.l) <=> True(V, p.r)))
    <3> DEFINE s == <<p.l, p.r>>
    <3>1. s[1] = p.l /\ s[2] = p.r /\ s \in Sides(m.c, m.n) /\ OpOf(m.c, m.n) \in BinOp
      BY <1>3
    <3> HIDE DEF s
    <3> QED BY <1>5, <1>6, <3>1, SideOf
  <2> QED BY <1>1, <1>3, <2>1, <2>2 DEF Computes, Is, BinOp
<1> QED BY <1>4, <1>5, <1>6 DEF Replaces

\* The pair that is read as it is.
LEMMA PairBuilds ==
  ASSUME NEW c \in Circuit, WellFormed(c), NEW g, NEW op, NEW x, NEW y, Computes(c, g, op, x, y),
         NEW p, p = Pair(c, x, y)
  PROVE  BuiltFrom(c, g, p, op, 0) /\ BuiltFrom(c, g, p, op, 1)
<1>1. p.c = c /\ p.l = x /\ p.r = y
  BY DEF Pair
<1> QED BY <1>1, GrownSelf, GrownLess DEF BuiltFrom

\* A pair whose second gate NOT(y) is created first.
LEMMA WithNotBuilds ==
  ASSUME NEW c \in Circuit, WellFormed(c), Spare(c) >= 1, NEW g, NEW op \in BinOp,
         NEW x \in Present(c), NEW y \in Present(c),
         \A V : Models(c, V) =>
           /\ op = "AND" => (True(V, g) <=> True(V, x) /\ ~ True(V, y))
           /\ op = "OR" => (True(V, g) <=> True(V, x) \/ ~ True(V, y))
           /\ op = "XOR" => (True(V, g) <=> ~ (True(V, x) <=> ~ True(V, y))),
         NEW p, p = WithNot(c, x, y)
  PROVE  BuiltFrom(c, g, p, op, 1)
<1>1. PICK m : m = create_this_NOT_gate(c, y)
  OBVIOUS
<1>2. p.c = m.c /\ p.l = x /\ p.r = m.n
  BY <1>1 DEF WithNot, Pair
<1>3. /\ Grown(c, m.c, 1) /\ m.n \in Present(m.c)
      /\ OpOf(m.c, m.n) = "NOT" /\ F0(m.c, m.n) = y
  BY <1>1, NotCreated
<1>4. m.c \in Circuit /\ WellFormed(m.c) /\ Keeps(c, m.c) /\ x \in Present(m.c)
  BY <1>3, KeptNodes DEF Grown
<1>5. ASSUME NEW V, Models(m.c, V) PROVE Models(c, V) /\ (True(V, m.n) <=> ~ True(V, y))
  BY <1>3, <1>4, <1>5, KeptModels, Truth DEF Is
<1>6. Computes(m.c, g, op, x, m.n)
  BY <1>3, <1>4, <1>5 DEF Computes
<1> QED BY <1>2, <1>3, <1>6 DEF BuiltFrom

\* A pair whose second gate inner(y, z) is created first, as distributivity
\* asks for it.
LEMMA WithGateBuilds ==
  ASSUME NEW c \in Circuit, WellFormed(c), Spare(c) >= 1, NEW g, NEW op, NEW inner,
         NEW x \in Present(c), NEW y \in Present(c), NEW z \in Present(c),
         \/ /\ op = "AND" /\ inner = "OR"
            /\ \A V : Models(c, V) => (True(V, g) <=> True(V, x) /\ (True(V, y) \/ True(V, z)))
         \/ /\ op = "OR" /\ inner = "AND"
            /\ \A V : Models(c, V) => (True(V, g) <=> True(V, x) \/ (True(V, y) /\ True(V, z)))
         \/ /\ op = "AND" /\ inner = "XOR"
            /\ \A V : Models(c, V) => (True(V, g) <=> True(V, x) /\ ~ (True(V, y) <=> True(V, z))),
         NEW p, p = WithGate(c, x, y, z, inner)
  PROVE  BuiltFrom(c, g, p, op, 1)
<1>1. PICK m : m = create_this_gate(c, y, z, inner)
  OBVIOUS
<1>2. p.c = m.c /\ p.l = x /\ p.r = m.n
  BY <1>1 DEF WithGate, Pair
<1>3. /\ Grown(c, m.c, 1) /\ m.n \in Gates(m.c)
      /\ OpOf(m.c, m.n) = inner /\ <<y, z>> \in Sides(m.c, m.n)
  <2>1. inner \in BinOp
    BY DEF BinOp
  <2> QED BY <1>1, <2>1, GateCreated
<1>4. m.c \in Circuit /\ WellFormed(m.c) /\ Keeps(c, m.c) /\ x \in Present(m.c) /\ m.n \in Present(m.c)
  BY <1>3, KeptNodes, Nodes DEF Grown
<1>5. ASSUME NEW V, Models(m.c, V)
      PROVE  /\ Models(c, V)
             /\ inner = "AND" => (True(V, m.n) <=> True(V, y) /\ True(V, z))
             /\ inner = "OR" => (True(V, m.n) <=> True(V, y) \/ True(V, z))
             /\ inner = "XOR" => (True(V, m.n) <=> ~ (True(V, y) <=> True(V, z)))
  <2>1. Models(c, V)
    BY <1>4, <1>5, KeptModels
  <2> DEFINE s == <<y, z>>
  <2>2. s[1] = y /\ s[2] = z /\ s \in Sides(m.c, m.n) /\ OpOf(m.c, m.n) \in BinOp
    BY <1>3 DEF BinOp
  <2> HIDE DEF s
  <2> QED BY <1>3, <1>4, <1>5, <2>1, <2>2, SideOf DEF Is
<1>6. Computes(m.c, g, op, x, m.n)
  BY <1>4, <1>5 DEF Computes
<1> QED BY <1>2, <1>3, <1>6 DEF BuiltFrom

\* What the ways to factor a gate out of both fanins say about the values.
LEMMA FactoringOf ==
  ASSUME NEW c \in Circuit, WellFormed(c), NEW g \in Gates(c), OpOf(c, g) \in BinOp,
         NEW inner \in BinOp, NEW f \in Factorings(c, g, inner)
  PROVE  /\ f[1] \in Present(c) /\ f[2] \in Present(c) /\ f[3] \in Present(c)
         /\ \A V : Models(c, V) =>
              /\ inner = "AND" => /\ True(V, F0(c, g)) <=> True(V, f[1]) /\ True(V, f[2])
                                  /\ True(V, F1(c, g)) <=> True(V, f[1]) /\ True(V, f[3])
              /\ inner = "OR" => /\ True(V, F0(c, g)) <=> True(V, f[1]) \/ True(V, f[2])
                                 /\ True(V, F1(c, g)) <=> True(V, f[1]) \/ True(V, f[3])
<1>1. PICK s \in Sides(c, F0(c, g)), t \in Sides(c, F1(c, g)) :
        /\ Is(c, F0(c, g), inner) /\ Is(c, F1(c, g), inner) /\ s[1] = t[1]
        /\ f = <<s[1], s[2], t[2]>>
  BY DEF Factorings
<1>2. f[1] = s[1] /\ f[2] = s[2] /\ f[3] = t[2]
  BY <1>1
<1>3. F0(c, g) \in Present(c) /\ F1(c, g) \in Present(c)
  BY View, Nodes
<1>4. s[1] \in Present(c) /\ s[2] \in Present(c) /\ t[2] \in Present(c)
  BY <1>1, <1>3, SideOf DEF Is
<1>5. ASSUME NEW V, Models(c, V)
      PROVE  /\ inner = "AND" => /\ True(V, F0(c, g)) <=> True(V, s[1]) /\ True(V, s[2])
                                 /\ True(V, F1(c, g)) <=> True(V, s[1]) /\ True(V, t[2])
             /\ inner = "OR" => /\ True(V, F0(c, g)) <=> True(V, s[1]) \/ True(V, s[2])
                                /\ True(V, F1(c, g)) <=> True(V, s[1]) \/ True(V, t[2])
  <2>1. OpOf(c, F0(c, g)) \in BinOp /\ OpOf(c, F1(c, g)) \in BinOp
    BY <1>1 DEF Is
  <2>2. /\ inner = "AND" => (True(V, F0(c, g)) <=> True(V, s[1]) /\ True(V, s[2]))
        /\ inner = "OR" => (True(V, F0(c, g)) <=> True(V, s[1]) \/ True(V, s[2]))
    BY <1>1, <1>3, <1>5, <2>1, SideOf
  <2>3. /\ inner = "AND" => (True(V, F1(c, g)) <=> True(V, t[1]) /\ True(V, t[2]))
        /\ inner = "OR" => (True(V, F1(c, g)) <=> True(V, t[1]) \/ True(V, t[2]))
    BY <1>1, <1>3, <1>5, <2>1, SideOf
  <2> QED BY <1>1, <2>2, <2>3
<1> QED BY <1>2, <1>4, <1>5

\* What the ways to read g as op(inner(x, y), x) say about the values.
LEMMA AbsorbedOf ==
  ASSUME NEW c \in Circuit, WellFormed(c), NEW g \in Gates(c), OpOf(c, g) \in BinOp,
         NEW inner \in BinOp, NEW single, NEW a \in Absorbed(c, g, inner, single)
  PROVE  /\ a[1] \in Present(c) /\ a[2] \in Present(c)
         /\ \A V : Models(c, V) =>
              /\ inner = "AND" /\ Is(c, g, "XOR") =>
                   (True(V, g) <=> True(V, a[2]) /\ ~ True(V, a[1]))
              /\ inner = "XOR" /\ Is(c, g, "AND") =>
                   (True(V, g) <=> True(V, a[2]) /\ ~ True(V, a[1]))
              /\ inner = "XOR" /\ Is(c, g, "OR") => (True(V, g) <=> True(V, a[2]) \/ True(V, a[1]))
<1>0. PICK s \in Sides(c, g) : \E t \in Sides(c, s[1]) :
        Is(c, s[1], inner) /\ t[1] = s[2] /\ a = <<t[2], s[2]>>
  BY DEF Absorbed
<1>1. PICK t \in Sides(c, s[1]) : Is(c, s[1], inner) /\ t[1] = s[2] /\ a = <<t[2], s[2]>>
  BY <1>0
<1>2. a[1] = t[2] /\ a[2] = s[2]
  BY <1>1
<1>3. s[1] \in Present(c) /\ s[2] \in Present(c) /\ OpOf(c, s[1]) = inner
  BY <1>1, SideOf, Nodes DEF Is
<1>4. t[1] \in Present(c) /\ t[2] \in Present(c)
  BY <1>1, <1>3, SideOf
<1>5. ASSUME NEW V, Models(c, V)
      PROVE  /\ inner = "AND" /\ Is(c, g, "XOR") =>
                  (True(V, g) <=> True(V, s[2]) /\ ~ True(V, t[2]))
             /\ inner = "XOR" /\ Is(c, g, "AND") =>
                  (True(V, g) <=> True(V, s[2]) /\ ~ True(V, t[2]))
             /\ inner = "XOR" /\ Is(c, g, "OR") => (True(V, g) <=> True(V, s[2]) \/ True(V, t[2]))
  <2>1. /\ Is(c, g, "AND") => (True(V, g) <=> True(V, s[1]) /\ True(V, s[2]))
        /\ Is(c, g, "OR") => (True(V, g) <=> True(V, s[1]) \/ True(V, s[2]))
        /\ Is(c, g, "XOR") => (True(V, g) <=> ~ (True(V, s[1]) <=> True(V, s[2])))
    BY <1>1, <1>5, SideOf, Nodes
  <2>2. /\ inner = "AND" => (True(V, s[1]) <=> True(V, t[1]) /\ True(V, t[2]))
        /\ inner = "XOR" => (True(V, s[1]) <=> ~ (True(V, t[1]) <=> True(V, t[2])))
    BY <1>1, <1>3, <1>5, SideOf DEF Is
  <2> QED BY <1>1, <2>1, <2>2
<1> QED BY <1>2, <1>3, <1>4, <1>5
\* The ways to read g as op(x, inner(NOT(x), y)) say that g is op(x, y).
LEMMA ComplementOf ==
  ASSUME NEW c \in Circuit, WellFormed(c), NEW g \in Gates(c),
         NEW op, NEW inner, (op = "OR" /\ inner = "AND") \/ (op = "AND" /\ inner = "OR"), Is(c, g, op),
         NEW p \in Complements(c, g, inner)
  PROVE  BuiltFrom(c, g, p, op, 1)
<1>0. PICK s \in Sides(c, g) : \E t \in Sides(c, s[2]) :
        Is(c, s[2], inner) /\ is_NOT_same_gate(c, t[1], s[1]) /\ p = Pair(c, s[1], t[2])
  BY DEF Complements
<1>1. PICK t \in Sides(c, s[2]) :
        Is(c, s[2], inner) /\ is_NOT_same_gate(c, t[1], s[1]) /\ p = Pair(c, s[1], t[2])
  BY <1>0
<1>2. op \in BinOp /\ inner \in BinOp
  BY DEF BinOp
<1>3. s[1] \in Present(c) /\ s[2] \in Present(c)
  BY <1>2, SideOf, Nodes DEF Is
<1>4. t[1] \in Present(c) /\ t[2] \in Present(c)
  BY <1>1, <1>2, <1>3, SideOf DEF Is
<1>5. ASSUME NEW V, Models(c, V)
      PROVE  /\ op = "AND" => (True(V, g) <=> True(V, s[1]) /\ True(V, t[2]))
             /\ op = "OR" => (True(V, g) <=> True(V, s[1]) \/ True(V, t[2]))
             /\ op # "XOR"
  <2>1. /\ op = "AND" => (True(V, g) <=> True(V, s[1]) /\ True(V, s[2]))
        /\ op = "OR" => (True(V, g) <=> True(V, s[1]) \/ True(V, s[2]))
    BY <1>2, <1>5, SideOf, Nodes DEF Is
  <2>2. /\ inner = "AND" => (True(V, s[2]) <=> True(V, t[1]) /\ True(V, t[2]))
        /\ inner = "OR" => (True(V, s[2]) <=> True(V, t[1]) \/ True(V, t[2]))
    BY <1>1, <1>2, <1>3, <1>5, SideOf DEF Is
  <2>3. True(V, t[1]) <=> ~ True(V, s[1])
    BY <1>1, <1>3, <1>4, <1>5, OppositeGate
  <2> QED BY <2>1, <2>2, <2>3
<1>6. Computes(c, g, op, s[1], t[2])
  BY <1>3, <1>4, <1>5 DEF Computes
<1> QED BY <1>1, <1>6, PairBuilds

\* The ways to read g as op(x, NOT(op(x, y))) say that g is op(x, NOT(y)).
LEMMA NegationOf ==
  ASSUME NEW c \in Circuit, WellFormed(c), Spare(c) >= 1, NEW g \in Gates(c),
         NEW op \in {"OR", "AND"}, Is(c, g, op),
         NEW single, NEW p \in Negations(c, g, op, single)
  PROVE  BuiltFrom(c, g, p, op, 1)
<1>0. PICK s \in Sides(c, g) : \E t \in Sides(c, F0(c, s[2])) :
        /\ Is(c, s[2], "NOT") /\ Is(c, F0(c, s[2]), op) /\ t[1] = s[1]
        /\ p = WithNot(c, s[1], t[2])
  BY DEF Negations
<1>1. PICK t \in Sides(c, F0(c, s[2])) :
        /\ Is(c, s[2], "NOT") /\ Is(c, F0(c, s[2]), op) /\ t[1] = s[1]
        /\ p = WithNot(c, s[1], t[2])
  BY <1>0
<1>2. op \in BinOp
  BY DEF BinOp
<1>3. s[1] \in Present(c) /\ s[2] \in Present(c)
  BY <1>2, SideOf, Nodes DEF Is
<1>4. F0(c, s[2]) \in Present(c)
  BY <1>1, <1>3, View DEF Is
<1>5. t[1] \in Present(c) /\ t[2] \in Present(c)
  BY <1>1, <1>2, <1>4, SideOf DEF Is
<1>6. ASSUME NEW V, Models(c, V)
      PROVE  /\ op = "AND" => (True(V, g) <=> True(V, s[1]) /\ ~ True(V, t[2]))
             /\ op = "OR" => (True(V, g) <=> True(V, s[1]) \/ ~ True(V, t[2]))
             /\ op # "XOR"
  <2>1. /\ op = "AND" => (True(V, g) <=> True(V, s[1]) /\ True(V, s[2]))
        /\ op = "OR" => (True(V, g) <=> True(V, s[1]) \/ True(V, s[2]))
    BY <1>2, <1>6, SideOf, Nodes DEF Is
  <2>2. True(V, s[2]) <=> ~ True(V, F0(c, s[2]))
    BY <1>1, <1>3, <1>6, Truth
  <2>3. /\ op = "AND" => (True(V, F0(c, s[2])) <=> True(V, t[1]) /\ True(V, t[2]))
        /\ op = "OR" => (True(V, F0(c, s[2])) <=> True(V, t[1]) \/ True(V, t[2]))
    BY <1>1, <1>2, <1>4, <1>6, SideOf DEF Is
  <2> QED BY <1>1, <2>1, <2>2, <2>3
<1> QED BY <1>1, <1>2, <1>3, <1>5, <1>6, WithNotBuilds

\* The rules that end in a new OR find two nodes whose disjunction is the value
\* of g.
LEMMA OrRules ==
  ASSUME NEW c \in Circuit, WellFormed(c), Spare(c) >= 1, NEW g \in Gates(c), NEW p \in ToOr(c, g)
  PROVE  BuiltFrom(c, g, p, "OR", 1)
<1>1. g \in Present(c) /\ "OR" \in BinOp /\ "AND" \in BinOp /\ "XOR" \in BinOp
  BY Nodes DEF BinOp
<1>2. \/ p \in transform8_2(c, g) \/ p \in can_be_less_easily_replaced_by_or(c, g)
      \/ p \in simplify13(c, g) \/ p \in transform_inv9_2(c, g) \/ p \in transform11_1(c, g)
  BY DEF ToOr, ||
<1>3. CASE p \in transform8_2(c, g)
  <2>1. Is(c, g, "AND") /\ \E f \in Factorings(c, g, "OR") : p = WithGate(c, f[1], f[2], f[3], "AND")
    BY <1>3 DEF transform8_2
  <2>2. PICK f \in Factorings(c, g, "OR") : p = WithGate(c, f[1], f[2], f[3], "AND")
    BY <2>1
  <2>3. /\ f[1] \in Present(c) /\ f[2] \in Present(c) /\ f[3] \in Present(c)
        /\ \A V : Models(c, V) => /\ True(V, F0(c, g)) <=> True(V, f[1]) \/ True(V, f[2])
                                  /\ True(V, F1(c, g)) <=> True(V, f[1]) \/ True(V, f[3])
    BY <1>1, <2>1, FactoringOf DEF Is
  <2>4. \A V : Models(c, V) => (True(V, g) <=> True(V, f[1]) \/ (True(V, f[2]) /\ True(V, f[3])))
    BY <1>1, <2>1, <2>3, Truth
  <2> QED BY <2>2, <2>3, <2>4, WithGateBuilds
<1>4. CASE p \in can_be_less_easily_replaced_by_or(c, g)
  <2> DEFINE a == F0(c, g)
  <2>1. /\ Is(c, g, "NOT") /\ Is(c, a, "AND") /\ BothNot(c, a)
        /\ p = Pair(c, F0(c, F0(c, a)), F0(c, F1(c, a)))
    BY <1>4 DEF can_be_less_easily_replaced_by_or, When
  <2>2. a \in Present(c)
    BY <1>1, <2>1, View DEF Is
  <2>3. F0(c, a) \in Present(c) /\ F1(c, a) \in Present(c)
    BY <1>1, <2>1, <2>2, View DEF Is
  <2>4. F0(c, F0(c, a)) \in Present(c) /\ F0(c, F1(c, a)) \in Present(c)
    BY <2>1, <2>3, View DEF Is, BothNot
  <2>5. ASSUME NEW V, Models(c, V)
        PROVE  True(V, g) <=> True(V, F0(c, F0(c, a))) \/ True(V, F0(c, F1(c, a)))
    <3>1. True(V, g) <=> ~ True(V, a)
      BY <1>1, <2>1, <2>5, Truth
    <3>2. True(V, a) <=> True(V, F0(c, a)) /\ True(V, F1(c, a))
      BY <2>1, <2>2, <2>5, Truth
    <3>3. /\ True(V, F0(c, a)) <=> ~ True(V, F0(c, F0(c, a)))
          /\ True(V, F1(c, a)) <=> ~ True(V, F0(c, F1(c, a)))
      BY <2>1, <2>3, <2>5, Truth DEF BothNot
    <3> QED BY <3>1, <3>2, <3>3
  <2>6. Computes(c, g, "OR", F0(c, F0(c, a)), F0(c, F1(c, a)))
    BY <2>4, <2>5 DEF Computes
  <2> QED BY <2>1, <2>6, PairBuilds
<1>5. CASE p \in simplify13(c, g)
  <2>1. Is(c, g, "OR") /\ \E a \in Absorbed(c, g, "XOR", FALSE) : p = Pair(c, a[2], a[1])
    BY <1>5 DEF simplify13
  <2>2. PICK a \in Absorbed(c, g, "XOR", FALSE) : p = Pair(c, a[2], a[1])
    BY <2>1
  <2>3. Computes(c, g, "OR", a[2], a[1])
    BY <1>1, <2>1, AbsorbedOf DEF Is, Computes
  <2> QED BY <2>2, <2>3, PairBuilds
<1>6. CASE p \in transform_inv9_2(c, g)
  <2>1. PICK t \in Sides(c, F0(c, g)) :
          /\ Is(c, g, "NOT") /\ Is(c, F0(c, g), "AND") /\ Is(c, t[1], "NOT")
          /\ p = WithNot(c, F0(c, t[1]), t[2])
    BY <1>6 DEF transform_inv9_2
  <2>2. F0(c, g) \in Present(c)
    BY <1>1, <2>1, View DEF Is
  <2>3. t[1] \in Present(c) /\ t[2] \in Present(c)
    BY <1>1, <2>1, <2>2, SideOf DEF Is
  <2>4. F0(c, t[1]) \in Present(c)
    BY <2>1, <2>3, View DEF Is
  <2>5. ASSUME NEW V, Models(c, V) PROVE True(V, g) <=> True(V, F0(c, t[1])) \/ ~ True(V, t[2])
    <3>1. True(V, g) <=> ~ True(V, F0(c, g))
      BY <1>1, <2>1, <2>5, Truth
    <3>2. True(V, F0(c, g)) <=> True(V, t[1]) /\ True(V, t[2])
      BY <1>1, <2>1, <2>2, <2>5, SideOf DEF Is
    <3>3. True(V, t[1]) <=> ~ True(V, F0(c, t[1]))
      BY <2>1, <2>3, <2>5, Truth
    <3> QED BY <3>1, <3>2, <3>3
  <2> QED BY <1>1, <2>1, <2>3, <2>4, <2>5, WithNotBuilds
<1>7. CASE p \in transform11_1(c, g)
  <2>1. Is(c, g, "OR") /\ (p \in Complements(c, g, "AND") \/ p \in Negations(c, g, "OR", FALSE))
    BY <1>7 DEF transform11_1, ||
  <2>2. CASE p \in Complements(c, g, "AND")
    BY <2>1, <2>2, ComplementOf
  <2>3. CASE p \in Negations(c, g, "OR", FALSE)
    BY <2>1, <2>3, NegationOf
  <2> QED BY <2>1, <2>2, <2>3
<1> QED BY <1>2, <1>3, <1>4, <1>5, <1>6, <1>7

\* What two fanins NOT(inner(p, q)) and other(p, q) say about the values.
LEMMA TwinOf ==
  ASSUME NEW c \in Circuit, WellFormed(c), NEW g \in Gates(c), OpOf(c, g) \in BinOp,
         NEW inner, NEW other, <<inner, other>> \in {<<"OR", "AND">>, <<"AND", "OR">>},
         NEW s \in Twins(c, g, inner, other)
  PROVE  /\ s \in Sides(c, g) /\ s[1] \in Present(c) /\ s[2] \in Present(c)
         /\ OpOf(c, s[2]) = other /\ F0(c, s[2]) \in Present(c) /\ F1(c, s[2]) \in Present(c)
         /\ \A V : Models(c, V) =>
              /\ inner = "OR" => /\ True(V, s[1]) <=> ~ (True(V, F0(c, s[2])) \/ True(V, F1(c, s[2])))
                                 /\ True(V, s[2]) <=> True(V, F0(c, s[2])) /\ True(V, F1(c, s[2]))
              /\ inner = "AND" => /\ True(V, s[1]) <=> ~ (True(V, F0(c, s[2])) /\ True(V, F1(c, s[2])))
                                  /\ True(V, s[2]) <=> True(V, F0(c, s[2])) \/ True(V, F1(c, s[2]))
<1> DEFINE a == F0(c, s[1])
           x == F0(c, s[2])
           y == F1(c, s[2])
<1>1. /\ s \in Sides(c, g) /\ Is(c, s[1], "NOT") /\ Is(c, a, inner) /\ Is(c, s[2], other)
      /\ SameInputs(c, a, s[2])
  BY DEF Twins
<1>2. s[1] \in Present(c) /\ s[2] \in Present(c) /\ inner \in BinOp /\ other \in BinOp
  BY <1>1, SideOf, Nodes DEF BinOp
<1>3. a \in Present(c) /\ x \in Present(c) /\ y \in Present(c)
  BY <1>1, <1>2, View DEF Is
<1>4. (F0(c, a) = x /\ F1(c, a) = y) \/ (F0(c, a) = y /\ F1(c, a) = x)
  BY <1>1 DEF SameInputs, Sides
<1> HIDE DEF a, x, y
<1>5. ASSUME NEW V, Models(c, V)
      PROVE  /\ inner = "OR" => /\ True(V, s[1]) <=> ~ (True(V, x) \/ True(V, y))
                                /\ True(V, s[2]) <=> True(V, x) /\ True(V, y)
             /\ inner = "AND" => /\ True(V, s[1]) <=> ~ (True(V, x) /\ True(V, y))
                                 /\ True(V, s[2]) <=> True(V, x) \/ True(V, y)
  <2>1. True(V, s[1]) <=> ~ True(V, a)
    BY <1>1, <1>2, <1>5, Truth DEF a
  <2>2. /\ inner = "OR" => (True(V, a) <=> True(V, x) \/ True(V, y))
        /\ inner = "AND" => (True(V, a) <=> True(V, x) /\ True(V, y))
    BY <1>1, <1>3, <1>4, <1>5, Truth
  <2>3. /\ other = "OR" => (True(V, s[2]) <=> True(V, x) \/ True(V, y))
        /\ other = "AND" => (True(V, s[2]) <=> True(V, x) /\ True(V, y))
    BY <1>1, <1>2, <1>5, Truth DEF x, y
  <2>4. (inner = "OR" => other = "AND") /\ (inner = "AND" => other = "OR")
    OBVIOUS
  <2> QED BY <2>1, <2>2, <2>3, <2>4
<1> QED BY <1>1, <1>2, <1>3, <1>5 DEF x, y, Is

\* The rules that end in a new XOR find two nodes whose difference is the value
\* of g.
LEMMA XorRules ==
  ASSUME NEW c \in Circuit, WellFormed(c), NEW g \in Gates(c), NEW p \in ToXor(c, g)
  PROVE  BuiltFrom(c, g, p, "XOR", 0)
<1>1. g \in Present(c) /\ "OR" \in BinOp /\ "AND" \in BinOp /\ "XOR" \in BinOp
  BY Nodes DEF BinOp
<1>2. \/ p \in transform_XOR1(c, g) \/ p \in can_be_less_easily_replaced_by_xor(c, g)
      \/ p \in can_be_less_easily_replaced_by_xor2(c, g) \/ p \in transform_XOR2N(c, g)
  BY DEF ToXor, ||
<1>3. CASE p \in transform_XOR1(c, g)
  <2>1. PICK s \in Sides(c, F0(c, g)), t \in Sides(c, F1(c, g)) :
          /\ Is(c, g, "OR") /\ Is(c, F0(c, g), "AND") /\ Is(c, F1(c, g), "AND")
          /\ Is(c, s[1], "NOT") /\ F0(c, s[1]) = t[2]
          /\ Is(c, t[1], "NOT") /\ F0(c, t[1]) = s[2]
          /\ p = Pair(c, s[2], t[2])
    BY <1>3 DEF transform_XOR1
  <2>2. F0(c, g) \in Present(c) /\ F1(c, g) \in Present(c)
    BY <1>1, <2>1, View DEF Is
  <2>3. s[1] \in Present(c) /\ s[2] \in Present(c) /\ t[1] \in Present(c) /\ t[2] \in Present(c)
    BY <1>1, <2>1, <2>2, SideOf DEF Is
  <2>4. ASSUME NEW V, Models(c, V) PROVE True(V, g) <=> ~ (True(V, s[2]) <=> True(V, t[2]))
    <3>1. True(V, g) <=> True(V, F0(c, g)) \/ True(V, F1(c, g))
      BY <1>1, <2>1, <2>4, Truth
    <3>2. /\ True(V, F0(c, g)) <=> True(V, s[1]) /\ True(V, s[2])
          /\ True(V, F1(c, g)) <=> True(V, t[1]) /\ True(V, t[2])
      BY <1>1, <2>1, <2>2, <2>4, SideOf DEF Is
    <3>3. (True(V, s[1]) <=> ~ True(V, t[2])) /\ (True(V, t[1]) <=> ~ True(V, s[2]))
      BY <2>1, <2>3, <2>4, Truth
    <3> QED BY <3>1, <3>2, <3>3
  <2>5. Computes(c, g, "XOR", s[2], t[2])
    BY <2>3, <2>4 DEF Computes
  <2> QED BY <2>1, <2>5, PairBuilds
<1>4. CASE p \in can_be_less_easily_replaced_by_xor(c, g)
  <2>0. PICK s \in Twins(c, g, "OR", "AND") : \E t \in Sides(c, s[2]) :
          Is(c, g, "OR") /\ Is(c, t[1], "NOT") /\ p = Pair(c, t[2], F0(c, t[1]))
    BY <1>4 DEF can_be_less_easily_replaced_by_xor
  <2>1. PICK t \in Sides(c, s[2]) :
          Is(c, g, "OR") /\ Is(c, t[1], "NOT") /\ p = Pair(c, t[2], F0(c, t[1]))
    BY <2>0
  <2>2. /\ s \in Sides(c, g) /\ s[1] \in Present(c) /\ s[2] \in Present(c) /\ Is(c, s[2], "AND")
        /\ \A V : Models(c, V) =>
             /\ True(V, s[1]) <=> ~ (True(V, F0(c, s[2])) \/ True(V, F1(c, s[2])))
             /\ True(V, s[2]) <=> True(V, F0(c, s[2])) /\ True(V, F1(c, s[2]))
    BY <1>1, <2>1, TwinOf DEF Is
  <2>3. (t[1] = F0(c, s[2]) /\ t[2] = F1(c, s[2])) \/ (t[1] = F1(c, s[2]) /\ t[2] = F0(c, s[2]))
    BY <2>1 DEF Sides
  <2>4. t[1] \in Present(c) /\ t[2] \in Present(c)
    BY <1>1, <2>1, <2>2, SideOf DEF Is
  <2>5. F0(c, t[1]) \in Present(c)
    BY <2>1, <2>4, View DEF Is
  <2>6. ASSUME NEW V, Models(c, V) PROVE True(V, g) <=> ~ (True(V, t[2]) <=> True(V, F0(c, t[1])))
    <3>1. True(V, g) <=> True(V, s[1]) \/ True(V, s[2])
      BY <1>1, <2>1, <2>2, <2>6, SideOf DEF Is
    <3>2. True(V, t[1]) <=> ~ True(V, F0(c, t[1]))
      BY <2>1, <2>4, <2>6, Truth
    <3> QED BY <2>2, <2>3, <2>6, <3>1, <3>2
  <2>7. Computes(c, g, "XOR", t[2], F0(c, t[1]))
    BY <2>4, <2>5, <2>6 DEF Computes
  <2> QED BY <2>1, <2>7, PairBuilds
<1>5. CASE p \in can_be_less_easily_replaced_by_xor2(c, g)
  <2>1. PICK s \in Twins(c, g, "AND", "OR") :
          Is(c, g, "AND") /\ p = Pair(c, F0(c, s[2]), F1(c, s[2]))
    BY <1>5 DEF can_be_less_easily_replaced_by_xor2
  <2>2. /\ s \in Sides(c, g) /\ F0(c, s[2]) \in Present(c) /\ F1(c, s[2]) \in Present(c)
        /\ \A V : Models(c, V) =>
             /\ True(V, s[1]) <=> ~ (True(V, F0(c, s[2])) /\ True(V, F1(c, s[2])))
             /\ True(V, s[2]) <=> True(V, F0(c, s[2])) \/ True(V, F1(c, s[2]))
    BY <1>1, <2>1, TwinOf DEF Is
  <2>3. ASSUME NEW V, Models(c, V)
        PROVE  True(V, g) <=> ~ (True(V, F0(c, s[2])) <=> True(V, F1(c, s[2])))
    <3>1. True(V, g) <=> True(V, s[1]) /\ True(V, s[2])
      BY <1>1, <2>1, <2>2, <2>3, SideOf DEF Is
    <3> QED BY <2>2, <2>3, <3>1
  <2>4. Computes(c, g, "XOR", F0(c, s[2]), F1(c, s[2]))
    BY <2>2, <2>3 DEF Computes
  <2> QED BY <2>1, <2>4, PairBuilds
<1>6. CASE p \in transform_XOR2N(c, g)
  <2>1. \/ /\ Is(c, g, "XOR") /\ BothNot(c, g)
           /\ p = Pair(c, F0(c, F0(c, g)), F0(c, F1(c, g)))
        \/ \E t \in Sides(c, F0(c, g)) : /\ Is(c, g, "NOT") /\ Is(c, F0(c, g), "XOR")
                                         /\ Is(c, t[1], "NOT") /\ p = Pair(c, F0(c, t[1]), t[2])
    BY <1>6 DEF transform_XOR2N, When, ||
  <2>2. CASE /\ Is(c, g, "XOR") /\ BothNot(c, g)
             /\ p = Pair(c, F0(c, F0(c, g)), F0(c, F1(c, g)))
    <3>1. F0(c, g) \in Present(c) /\ F1(c, g) \in Present(c)
      BY <1>1, <2>2, View DEF Is
    <3>2. F0(c, F0(c, g)) \in Present(c) /\ F0(c, F1(c, g)) \in Present(c)
      BY <2>2, <3>1, View DEF BothNot, Is
    <3>3. ASSUME NEW V, Models(c, V)
          PROVE  True(V, g) <=> ~ (True(V, F0(c, F0(c, g))) <=> True(V, F0(c, F1(c, g))))
      <4>1. True(V, g) <=> ~ (True(V, F0(c, g)) <=> True(V, F1(c, g)))
        BY <1>1, <2>2, <3>3, Truth
      <4>2. /\ True(V, F0(c, g)) <=> ~ True(V, F0(c, F0(c, g)))
            /\ True(V, F1(c, g)) <=> ~ True(V, F0(c, F1(c, g)))
        BY <2>2, <3>1, <3>3, Truth DEF BothNot
      <4> QED BY <4>1, <4>2
    <3>4. Computes(c, g, "XOR", F0(c, F0(c, g)), F0(c, F1(c, g)))
      BY <3>2, <3>3 DEF Computes
    <3> QED BY <2>2, <3>4, PairBuilds
  <2>3. ASSUME NEW t \in Sides(c, F0(c, g)), Is(c, g, "NOT"), Is(c, F0(c, g), "XOR"),
               Is(c, t[1], "NOT"), p = Pair(c, F0(c, t[1]), t[2])
        PROVE  BuiltFrom(c, g, p, "XOR", 0)
    <3>1. F0(c, g) \in Present(c)
      BY <1>1, <2>3, View DEF Is
    <3>2. t[1] \in Present(c) /\ t[2] \in Present(c)
      BY <1>1, <2>3, <3>1, SideOf DEF Is
    <3>3. F0(c, t[1]) \in Present(c)
      BY <2>3, <3>2, View DEF Is
    <3>4. ASSUME NEW V, Models(c, V) PROVE True(V, g) <=> ~ (True(V, F0(c, t[1])) <=> True(V, t[2]))
      <4>1. True(V, g) <=> ~ True(V, F0(c, g))
        BY <1>1, <2>3, <3>4, Truth
      <4>2. True(V, F0(c, g)) <=> ~ (True(V, t[1]) <=> True(V, t[2]))
        BY <1>1, <2>3, <3>1, <3>4, SideOf DEF Is
      <4>3. True(V, t[1]) <=> ~ True(V, F0(c, t[1]))
        BY <2>3, <3>2, <3>4, Truth
      <4> QED BY <4>1, <4>2, <4>3
    <3>5. Computes(c, g, "XOR", F0(c, t[1]), t[2])
      BY <3>2, <3>3, <3>4 DEF Computes
    <3> QED BY <2>3, <3>5, PairBuilds
  <2> QED BY <2>1, <2>2, <2>3
<1> QED BY <1>2, <1>3, <1>4, <1>5, <1>6

\* The rules that end in a new AND find two nodes whose conjunction is the
\* value of g.
LEMMA AndRules ==
  ASSUME NEW c \in Circuit, WellFormed(c), Spare(c) >= 1, NEW g \in Gates(c), NEW p \in ToAnd(c, g)
  PROVE  BuiltFrom(c, g, p, "AND", 1)
<1>1. g \in Present(c) /\ "OR" \in BinOp /\ "AND" \in BinOp /\ "XOR" \in BinOp
  BY Nodes DEF BinOp
<1>2. \/ p \in transform8_1(c, g) \/ p \in transform11_2(c, g) \/ p \in transform_inv9_1(c, g)
      \/ p \in transform_XOR3(c, g) \/ p \in transform_XOR_Absorption(c, g)
      \/ p \in transform_XOR_Absorption2(c, g)
  BY DEF ToAnd, ||
<1>3. ASSUME NEW f \in Factorings(c, g, "AND"), OpOf(c, g) \in BinOp
      PROVE  /\ f[1] \in Present(c) /\ f[2] \in Present(c) /\ f[3] \in Present(c)
             /\ \A V : Models(c, V) => /\ True(V, F0(c, g)) <=> True(V, f[1]) /\ True(V, f[2])
                                       /\ True(V, F1(c, g)) <=> True(V, f[1]) /\ True(V, f[3])
  BY <1>1, <1>3, FactoringOf
<1>4. CASE p \in transform8_1(c, g)
  <2>1. Is(c, g, "OR") /\ \E f \in Factorings(c, g, "AND") : p = WithGate(c, f[1], f[2], f[3], "OR")
    BY <1>4 DEF transform8_1
  <2>2. PICK f \in Factorings(c, g, "AND") : p = WithGate(c, f[1], f[2], f[3], "OR")
    BY <2>1
  <2>3. /\ f[1] \in Present(c) /\ f[2] \in Present(c) /\ f[3] \in Present(c)
        /\ \A V : Models(c, V) => (True(V, g) <=> True(V, f[1]) /\ (True(V, f[2]) \/ True(V, f[3])))
    BY <1>1, <1>3, <2>1, Truth DEF Is
  <2> QED BY <2>2, <2>3, WithGateBuilds
<1>5. CASE p \in transform11_2(c, g)
  <2>1. Is(c, g, "AND") /\ (p \in Complements(c, g, "OR") \/ p \in Negations(c, g, "AND", TRUE))
    BY <1>5 DEF transform11_2, ||
  <2>2. CASE p \in Complements(c, g, "OR")
    BY <2>1, <2>2, ComplementOf
  <2>3. CASE p \in Negations(c, g, "AND", TRUE)
    BY <2>1, <2>3, NegationOf
  <2> QED BY <2>1, <2>2, <2>3
<1>6. CASE p \in transform_inv9_1(c, g)
  <2>1. PICK t \in Sides(c, F0(c, g)) :
          /\ Is(c, g, "NOT") /\ Is(c, F0(c, g), "OR") /\ Is(c, t[1], "NOT")
          /\ p = WithNot(c, F0(c, t[1]), t[2])
    BY <1>6 DEF transform_inv9_1
  <2>2. F0(c, g) \in Present(c)
    BY <1>1, <2>1, View DEF Is
  <2>3. t[1] \in Present(c) /\ t[2] \in Present(c)
    BY <1>1, <2>1, <2>2, SideOf DEF Is
  <2>4. F0(c, t[1]) \in Present(c)
    BY <2>1, <2>3, View DEF Is
  <2>5. ASSUME NEW V, Models(c, V) PROVE True(V, g) <=> True(V, F0(c, t[1])) /\ ~ True(V, t[2])
    <3>1. True(V, g) <=> ~ True(V, F0(c, g))
      BY <1>1, <2>1, <2>5, Truth
    <3>2. True(V, F0(c, g)) <=> True(V, t[1]) \/ True(V, t[2])
      BY <1>1, <2>1, <2>2, <2>5, SideOf DEF Is
    <3>3. True(V, t[1]) <=> ~ True(V, F0(c, t[1]))
      BY <2>1, <2>3, <2>5, Truth
    <3> QED BY <3>1, <3>2, <3>3
  <2> QED BY <1>1, <2>1, <2>3, <2>4, <2>5, WithNotBuilds
<1>7. CASE p \in transform_XOR3(c, g)
  <2>1. Is(c, g, "XOR") /\ \E f \in Factorings(c, g, "AND") : p = WithGate(c, f[1], f[2], f[3], "XOR")
    BY <1>7 DEF transform_XOR3
  <2>2. PICK f \in Factorings(c, g, "AND") : p = WithGate(c, f[1], f[2], f[3], "XOR")
    BY <2>1
  <2>3. /\ f[1] \in Present(c) /\ f[2] \in Present(c) /\ f[3] \in Present(c)
        /\ \A V : Models(c, V) =>
             (True(V, g) <=> True(V, f[1]) /\ ~ (True(V, f[2]) <=> True(V, f[3])))
    BY <1>1, <1>3, <2>1, Truth DEF Is
  <2> QED BY <2>2, <2>3, WithGateBuilds
<1>8. CASE p \in transform_XOR_Absorption(c, g)
  <2>1. Is(c, g, "XOR") /\ \E a \in Absorbed(c, g, "AND", FALSE) : p = WithNot(c, a[2], a[1])
    BY <1>8 DEF transform_XOR_Absorption
  <2>2. PICK a \in Absorbed(c, g, "AND", FALSE) : p = WithNot(c, a[2], a[1])
    BY <2>1
  <2>3. /\ a[1] \in Present(c) /\ a[2] \in Present(c)
        /\ \A V : Models(c, V) => (True(V, g) <=> True(V, a[2]) /\ ~ True(V, a[1]))
    BY <1>1, <2>1, AbsorbedOf DEF Is
  <2> QED BY <1>1, <2>2, <2>3, WithNotBuilds
<1>9. CASE p \in transform_XOR_Absorption2(c, g)
  <2>1. Is(c, g, "AND") /\ \E a \in Absorbed(c, g, "XOR", TRUE) : p = WithNot(c, a[2], a[1])
    BY <1>9 DEF transform_XOR_Absorption2
  <2>2. PICK a \in Absorbed(c, g, "XOR", TRUE) : p = WithNot(c, a[2], a[1])
    BY <2>1
  <2>3. /\ a[1] \in Present(c) /\ a[2] \in Present(c)
        /\ \A V : Models(c, V) => (True(V, g) <=> True(V, a[2]) /\ ~ True(V, a[1]))
    BY <1>1, <2>1, AbsorbedOf DEF Is
  <2> QED BY <1>1, <2>2, <2>3, WithNotBuilds
<1> QED BY <1>2, <1>4, <1>5, <1>6, <1>7, <1>8, <1>9
\* g is the negation of the node of the match m.
Negates(c, g, m, j) ==
  /\ Grown(c, m.c, j) /\ m.n \in Present(m.c)
  /\ \A V : Models(m.c, V) => (True(V, g) <=> ~ True(V, m.n))

\* g is the negation of op(x, y), which is found or created.
LEMMA CreatedNegates ==
  ASSUME NEW c \in Circuit, WellFormed(c), Spare(c) >= 1, NEW g \in Gates(c), NEW op \in BinOp,
         NEW x \in Present(c), NEW y \in Present(c),
         \A V : Models(c, V) =>
           /\ op = "AND" => (True(V, g) <=> ~ (True(V, x) /\ True(V, y)))
           /\ op = "OR" => (True(V, g) <=> ~ (True(V, x) \/ True(V, y)))
           /\ op = "XOR" => (True(V, g) <=> (True(V, x) <=> True(V, y))),
         NEW m, m = create_this_gate(c, x, y, op)
  PROVE  Negates(c, g, m, 1)
<1>1. /\ Grown(c, m.c, 1) /\ m.n \in Gates(m.c)
      /\ OpOf(m.c, m.n) = op /\ <<x, y>> \in Sides(m.c, m.n)
  BY GateCreated
<1>2. m.c \in Circuit /\ WellFormed(m.c) /\ Keeps(c, m.c) /\ m.n \in Present(m.c)
  BY <1>1, Nodes DEF Grown
<1>3. ASSUME NEW V, Models(m.c, V) PROVE True(V, g) <=> ~ True(V, m.n)
  <2>1. Models(c, V)
    BY <1>2, <1>3, KeptModels
  <2> DEFINE s == <<x, y>>
  <2>2. s[1] = x /\ s[2] = y /\ s \in Sides(m.c, m.n)
    BY <1>1
  <2> HIDE DEF s
  <2>3. /\ op = "AND" => (True(V, m.n) <=> True(V, x) /\ True(V, y))
        /\ op = "OR" => (True(V, m.n) <=> True(V, x) \/ True(V, y))
        /\ op = "XOR" => (True(V, m.n) <=> ~ (True(V, x) <=> True(V, y)))
    BY <1>1, <1>2, <1>3, <2>2, SideOf DEF Is
  <2> QED BY <2>1, <2>3 DEF BinOp
<1> QED BY <1>1, <1>2, <1>3 DEF Negates

\* The rules that end in a new NOT find a node whose negation is the value of
\* g.
LEMMA NotRules ==
  ASSUME NEW c \in Circuit, WellFormed(c), Spare(c) >= 1, NEW g \in Gates(c),
         NEW round2, NEW m \in ToNot(c, g, round2)
  PROVE  Negates(c, g, m, 1)
<1>1. g \in Present(c) /\ "OR" \in BinOp /\ "AND" \in BinOp /\ "XOR" \in BinOp
  BY Nodes DEF BinOp
<1>2. \/ m \in transform9_1(c, g) \/ m \in simplify15(c, g)
      \/ m \in simplify17(c, g) \/ m \in transform9_2(c, g, round2)
  BY DEF ToNot, ||
<1>3. ASSUME Is(c, g, "AND") \/ Is(c, g, "OR"), BothNot(c, g)
      PROVE  /\ F0(c, F0(c, g)) \in Present(c) /\ F0(c, F1(c, g)) \in Present(c)
             /\ \A V : Models(c, V) =>
                  /\ Is(c, g, "AND") =>
                       (True(V, g) <=> ~ (True(V, F0(c, F0(c, g))) \/ True(V, F0(c, F1(c, g)))))
                  /\ Is(c, g, "OR") =>
                       (True(V, g) <=> ~ (True(V, F0(c, F0(c, g))) /\ True(V, F0(c, F1(c, g)))))
  <2>1. F0(c, g) \in Present(c) /\ F1(c, g) \in Present(c)
    BY <1>1, <1>3, View DEF Is
  <2>2. F0(c, F0(c, g)) \in Present(c) /\ F0(c, F1(c, g)) \in Present(c)
    BY <1>3, <2>1, View DEF BothNot, Is
  <2>3. \A V : Models(c, V) => /\ True(V, F0(c, g)) <=> ~ True(V, F0(c, F0(c, g)))
                               /\ True(V, F1(c, g)) <=> ~ True(V, F0(c, F1(c, g)))
    BY <1>3, <2>1, Truth DEF BothNot
  <2>4. \A V : Models(c, V) =>
          /\ Is(c, g, "AND") => (True(V, g) <=> True(V, F0(c, g)) /\ True(V, F1(c, g)))
          /\ Is(c, g, "OR") => (True(V, g) <=> True(V, F0(c, g)) \/ True(V, F1(c, g)))
    BY <1>1, Truth
  <2> QED BY <2>2, <2>3, <2>4
<1>4. CASE m \in transform9_1(c, g)
  <2>1. /\ Is(c, g, "AND") /\ BothNot(c, g)
        /\ m = create_this_gate(c, F0(c, F0(c, g)), F0(c, F1(c, g)), "OR")
    BY <1>4 DEF transform9_1, When
  <2> QED BY <1>1, <1>3, <2>1, CreatedNegates
<1>5. CASE m \in transform9_2(c, g, round2)
  <2>1. /\ Is(c, g, "OR") /\ BothNot(c, g)
        /\ m = create_this_gate(c, F0(c, F0(c, g)), F0(c, F1(c, g)), "AND")
    BY <1>5 DEF transform9_2, When
  <2> QED BY <1>1, <1>3, <2>1, CreatedNegates
<1>6. CASE m \in simplify15(c, g)
  <2>1. Is(c, g, "OR") /\ \E s \in Twins(c, g, "OR", "AND") :
          m = create_this_gate(c, F0(c, s[2]), F1(c, s[2]), "XOR")
    BY <1>6 DEF simplify15
  <2>2. PICK s \in Twins(c, g, "OR", "AND") : m = create_this_gate(c, F0(c, s[2]), F1(c, s[2]), "XOR")
    BY <2>1
  <2>3. /\ s \in Sides(c, g) /\ F0(c, s[2]) \in Present(c) /\ F1(c, s[2]) \in Present(c)
        /\ \A V : Models(c, V) =>
             /\ True(V, s[1]) <=> ~ (True(V, F0(c, s[2])) \/ True(V, F1(c, s[2])))
             /\ True(V, s[2]) <=> True(V, F0(c, s[2])) /\ True(V, F1(c, s[2]))
    BY <1>1, <2>1, TwinOf DEF Is
  <2>4. \A V : Models(c, V) => (True(V, g) <=> True(V, s[1]) \/ True(V, s[2]))
    BY <1>1, <2>1, <2>3, SideOf DEF Is
  <2>5. \A V : Models(c, V) => (True(V, g) <=> (True(V, F0(c, s[2])) <=> True(V, F1(c, s[2]))))
    BY <2>3, <2>4
  <2> QED BY <1>1, <2>2, <2>3, <2>5, CreatedNegates
<1>7. CASE m \in simplify17(c, g)
  <2>1. PICK s \in Sides(c, g) : /\ Is(c, g, "XOR") /\ Is(c, s[1], "NOT")
                                 /\ m = create_this_gate(c, F0(c, s[1]), s[2], "XOR")
    BY <1>7 DEF simplify17
  <2>2. /\ s[1] \in Present(c) /\ s[2] \in Present(c)
        /\ \A V : Models(c, V) => (True(V, g) <=> ~ (True(V, s[1]) <=> True(V, s[2])))
    BY <1>1, <2>1, SideOf DEF Is
  <2>3. F0(c, s[1]) \in Present(c)
    BY <2>1, <2>2, View DEF Is
  <2>4. \A V : Models(c, V) => (True(V, s[1]) <=> ~ True(V, F0(c, s[1])))
    BY <2>1, <2>2, Truth
  <2>5. \A V : Models(c, V) => (True(V, g) <=> (True(V, F0(c, s[1])) <=> True(V, s[2])))
    BY <2>2, <2>4
  <2> QED BY <1>1, <2>1, <2>2, <2>3, <2>5, CreatedNegates
<1> QED BY <1>2, <1>4, <1>5, <1>6, <1>7

\* The gate whose negation replaces g.
LEMMA NegatesReplaces ==
  ASSUME NEW c \in Circuit, NEW g \in Gates(c), NEW k, Negates(c, g, k, 1), Spare(k.c) >= 1,
         NEW m, m = create_this_NOT_gate(k.c, k.n)
  PROVE  Replaces(c, g, m, 2)
<1>1. k.c \in Circuit /\ WellFormed(k.c) /\ Keeps(c, k.c) /\ k.n \in Present(k.c)
  BY DEF Negates, Grown
<1>2. g \in Gates(k.c) /\ \A V : Models(k.c, V) => (True(V, g) <=> ~ True(V, k.n))
  BY <1>1 DEF Keeps, Negates
<1>3. Replaces(k.c, g, m, 1)
  BY <1>1, <1>2, NegatedReplaces
<1>4. Grown(c, m.c, 1 + 1)
  BY <1>3, GrownMore DEF Negates, Replaces
<1> QED BY <1>3, <1>4 DEF Replaces

\* Replacing a gate by a node of the same value loses nothing that the circuit
\* can do.
LEMMA ReplacedSame ==
  ASSUME NEW c \in Circuit, WellFormed(c), NEW g \in Gates(c), NEW m, NEW j, Replaces(c, g, m, j)
  PROVE  Behaviour(c) \subseteq Behaviour(ReplaceBy(m.c, g, m.n))
<1> DEFINE e == ReplaceBy(m.c, g, m.n)
<1>1. m.c \in Circuit /\ WellFormed(m.c) /\ Keeps(c, m.c) /\ m.n \in Present(m.c) /\ m.n \in Node
  BY Nodes DEF Replaces, Grown
<1>2. Gates(e) = Gates(m.c)
  BY <1>1, MergeGates
<1> SUFFICES ASSUME NEW b \in Behaviour(c) PROVE b \in Behaviour(e)
  OBVIOUS
<1>3. PICK V \in Valuations(c) : b = <<[i \in Input |-> V[i]], Outputs(c, V)>>
  BY DEF Behaviour
<1>4. PICK W \in Valuations(m.c) : Agree(c, V, W)
  BY DEF Replaces, Grown
<1>5. Models(m.c, W) /\ g \in Present(m.c)
  BY <1>1, ValuationModels, Nodes DEF Keeps
<1>6. Val(W, g) = Val(W, m.n)
  <2>1. Val(W, g) \in BOOLEAN /\ Val(W, m.n) \in BOOLEAN
    BY <1>1, <1>5 DEF Models
  <2>2. True(W, g) <=> True(W, m.n)
    BY <1>5 DEF Replaces
  <2> QED BY <2>1, <2>2 DEF True
<1>7. W \in [Input \cup Gates(m.c) -> BOOLEAN] /\ Consistent(m.c, W)
  BY DEF Valuations
<1>8. Consistent(e, W) /\ Outputs(e, W) = Outputs(m.c, W)
  BY <1>1, <1>6, <1>7, MergeKeepsValues
<1>9. W \in Valuations(e)
  BY <1>2, <1>7, <1>8 DEF Valuations
<1>10. Outputs(m.c, W) = Outputs(c, V)
  <2>1. \A o \in Output : Val(W, c.out[o]) = Val(V, c.out[o])
    BY <1>4 DEF Agree, WellFormed
  <2> QED BY <1>1, <2>1 DEF Outputs, Keeps
<1>11. \A i \in Input : W[i] = V[i]
  <2>1. \A i \in Input : i \in Present(c) /\ i # ONE_GATE /\ i # ZERO_GATE /\ i # NULL
    BY Nodes DEF Present
  <2> QED BY <1>4, <2>1 DEF Agree, Val
<1>12. b = <<[i \in Input |-> W[i]], Outputs(e, W)>>
  BY <1>3, <1>8, <1>10, <1>11
<1> HIDE DEF e
<1> QED BY <1>9, <1>12 DEF Behaviour

----------------------------------------------------------------------------
(* No rule makes a cycle: what replaces a gate does not depend on it.      *)

\* A gate that was added changes nothing for those that were there.
LEMMA KeptUnder ==
  ASSUME NEW c \in Circuit, NEW d \in Circuit, Keeps(c, d), NEW g, NEW n, Under(c, g, n)
  PROVE  Under(d, g, n)
<1>1. PICK D \in SUBSET Present(c) : n \in D /\ g \notin D /\ Closed(c, D)
  BY DEF Under
<1>2. D \in SUBSET Present(d)
  BY KeptNodes
<1>3. ASSUME NEW k \in D \cap Gates(d) PROVE k \in Gates(c)
  BY Nodes, NetlistAssumption DEF Present, Const
<1>4. Closed(d, D)
  BY <1>1, <1>3 DEF Closed, Keeps
<1> QED BY <1>1, <1>2, <1>4 DEF Under

\* A new gate that reads only what was there before is on no cycle.
LEMMA AddedAcyclic ==
  ASSUME NEW c, Good(c), NEW d \in Circuit, Keeps(c, d),
         NEW k, k \notin Gates(c), Gates(d) = Gates(c) \cup {k},
         \A p \in Pin : d.fanin[k][p] \in Present(c) \cup {NULL}
  PROVE  Acyclic(d)
<1> SUFFICES ASSUME NEW S \in SUBSET Gates(d), S # {}, \A g \in S : \E p \in Pin : d.fanin[g][p] \in S
             PROVE  FALSE
  BY DEF Acyclic
<1>0. c \in Circuit /\ WellFormed(c) /\ Acyclic(c)
  BY DEF Good
<1>1. k \notin Present(c) /\ k # NULL
  BY <1>0, Nodes, NetlistAssumption DEF Present, Const
<1>2. S \ {k} \in SUBSET Gates(c)
  OBVIOUS
<1>3. CASE S \ {k} = {}
  BY <1>1, <1>3
<1>4. CASE S \ {k} # {}
  <2>1. PICK g \in S \ {k} : \A p \in Pin : c.fanin[g][p] \notin S \ {k}
    BY <1>0, <1>2, <1>4 DEF Acyclic
  <2>2. PICK p \in Pin : d.fanin[g][p] \in S
    OBVIOUS
  <2>3. g \in Gates(c) /\ d.fanin[g] = c.fanin[g]
    BY DEF Keeps
  <2>4. c.fanin[g][p] \in Present(c) \cup {NULL}
    BY <1>0, <2>3, Pins
  <2> QED BY <1>1, <2>1, <2>2, <2>3, <2>4
<1> QED BY <1>3, <1>4

\* The fanins of a gate, and those of what does not depend on it, do not
\* depend on it either.
LEMMA FaninsUnder ==
  ASSUME NEW c, Good(c), NEW g \in Gates(c), NEW n, n = g \/ Under(c, g, n)
  PROVE  /\ OpOf(c, n) \in BinOp =>
              /\ Under(c, g, F0(c, n)) /\ Under(c, g, F1(c, n))
              /\ \A s \in Sides(c, n) : Under(c, g, s[1]) /\ Under(c, g, s[2])
         /\ OpOf(c, n) = "NOT" => Under(c, g, F0(c, n))
<1>1. c \in Circuit /\ WellFormed(c) /\ n \in Present(c) /\ ONE_GATE # g /\ ONE_GATE \in Present(c) \ Gates(c)
  BY Nodes, UnderPresent DEF Good
<1>2. ASSUME NEW p \in Pin, n \in Gates(c), c.fanin[n][p] # NULL PROVE Under(c, g, c.fanin[n][p])
  BY <1>1, <1>2, UnderOwn, UnderRead
<1>3. ASSUME OpOf(c, n) \in BinOp
      PROVE  Under(c, g, F0(c, n)) /\ Under(c, g, F1(c, n))
  <2>1. n \in Gates(c) /\ F0(c, n) # NULL /\ F1(c, n) # NULL
    BY <1>1, <1>3, View, Nodes
  <2>2. F0(c, n) = c.fanin[n][0] /\ F1(c, n) = c.fanin[n][1]
    BY <1>1, <2>1, View
  <2> QED BY <1>2, <2>1, <2>2 DEF Pin
<1>4. ASSUME OpOf(c, n) = "NOT" PROVE Under(c, g, F0(c, n))
  <2>1. CASE n \in Gates(c)
    <3>1. F0(c, n) # NULL /\ F0(c, n) = c.fanin[n][0]
      BY <1>1, <1>4, <2>1, View, Nodes
    <3> QED BY <1>2, <2>1, <3>1 DEF Pin
  <2>2. CASE n = ZERO_GATE /\ F0(c, n) = ONE_GATE
    BY <1>1, <2>2, UnderRoot
  <2> QED BY <1>1, <1>4, <2>1, <2>2, View
<1>5. \A s \in Sides(c, n) :
        (s[1] = F0(c, n) /\ s[2] = F1(c, n)) \/ (s[1] = F1(c, n) /\ s[2] = F0(c, n))
  BY DEF Sides
<1> QED BY <1>3, <1>4, <1>5

\* A gate that the rules create does not depend on g if its fanins do not
\* and g itself is not the gate that is found.
LEMMA GateUnder ==
  ASSUME NEW c, Good(c), Spare(c) >= 1, NEW g \in Gates(c), NEW op \in BinOp,
         NEW x, Under(c, g, x), NEW y, Under(c, g, y),
         op # OpOf(c, g) \/ <<x, y>> \notin Sides(c, g), NEW m, m = create_this_gate(c, x, y, op)
  PROVE  Good(m.c) /\ Keeps(c, m.c) /\ Under(m.c, g, m.n)
<1>1. c \in Circuit /\ WellFormed(c) /\ Acyclic(c) /\ x \in Present(c) /\ y \in Present(c)
  BY UnderPresent DEF Good
<1>2. /\ m.c \in Circuit /\ WellFormed(m.c) /\ Keeps(c, m.c) /\ m.n \in Gates(m.c)
      /\ OpOf(m.c, m.n) = op /\ <<x, y>> \in Sides(m.c, m.n)
  BY <1>1, GateCreated DEF Grown
<1>3. m.n # g
  <2>1. OpOf(m.c, g) = OpOf(c, g) /\ Sides(m.c, g) = Sides(c, g)
    BY <1>1, <1>2, KeptNodes, Nodes DEF Sides
  <2> QED BY <1>2, <2>1
<1>4. \A p \in Pin : m.c.fanin[m.n][p] \in {x, y}
  <2>1. F0(m.c, m.n) = m.c.fanin[m.n][0] /\ F1(m.c, m.n) = m.c.fanin[m.n][1]
    BY <1>2, View, Nodes
  <2>2. (x = F0(m.c, m.n) /\ y = F1(m.c, m.n)) \/ (x = F1(m.c, m.n) /\ y = F0(m.c, m.n))
    BY <1>2 DEF Sides
  <2> QED BY <2>1, <2>2 DEF Pin
<1>5. Acyclic(m.c)
  <2>1. m.c = c \/ (m.n \notin Gates(c) /\ Gates(m.c) = Gates(c) \cup {m.n})
    <3> DEFINE found == {f \in Gates(c) : c.op[f] = op /\ <<x, y>> \in Sides(c, f)}
    <3>1. m = Match(c, CHOOSE f \in found : TRUE) \/ m = NewGate(c, op, x, y)
      BY DEF create_this_gate
    <3>2. op \in BinOp \cup {"NOT"} /\ op # "NOT"
      BY DEF BinOp
    <3> HIDE DEF found
    <3>3. m = NewGate(c, op, x, y) => m.n \notin Gates(c) /\ Gates(m.c) = Gates(c) \cup {m.n}
      BY <1>1, <3>2, NewGateGrows
    <3> QED BY <3>1, <3>3 DEF Match
  <2> QED BY <1>1, <1>2, <1>4, <2>1, AddedAcyclic
<1>6. Under(m.c, g, x) /\ Under(m.c, g, y)
  BY <1>1, <1>2, KeptUnder
<1>7. Under(m.c, g, m.n)
  BY <1>2, <1>3, <1>4, <1>6, UnderReader
<1> QED BY <1>2, <1>5, <1>7 DEF Good

\* The NOT of a node under g is under g, unless g is that NOT itself.
LEMMA NotUnder ==
  ASSUME NEW c, Good(c), Spare(c) >= 1, NEW g \in Gates(c), NEW x, Under(c, g, x),
         OpOf(c, g) # "NOT" \/ F0(c, g) # x, NEW m, m = create_this_NOT_gate(c, x)
  PROVE  Good(m.c) /\ Keeps(c, m.c) /\ Under(m.c, g, m.n)
<1>1. c \in Circuit /\ WellFormed(c) /\ Acyclic(c) /\ x \in Present(c)
  BY UnderPresent DEF Good
<1>2. /\ m.c \in Circuit /\ WellFormed(m.c) /\ Keeps(c, m.c) /\ m.n \in Present(m.c)
      /\ OpOf(m.c, m.n) = "NOT" /\ F0(m.c, m.n) = x
  BY <1>1, NotCreated DEF Grown
<1>3. m.n # g
  <2>1. OpOf(m.c, g) = OpOf(c, g) /\ F0(m.c, g) = F0(c, g)
    BY <1>1, <1>2, KeptNodes, Nodes
  <2> QED BY <1>2, <2>1
<1>4. m.c = c \/ (m.n \notin Gates(c) /\ Gates(m.c) = Gates(c) \cup {m.n})
  <2> DEFINE found == {f \in Gates(c) : c.op[f] = "NOT" /\ c.fanin[f][0] = x}
  <2>1. m = Match(c, ZERO_GATE) \/ m = Match(c, CHOOSE f \in found : TRUE) \/ m = NewGate(c, "NOT", x, NULL)
    BY DEF create_this_NOT_gate
  <2> HIDE DEF found
  <2>2. m = NewGate(c, "NOT", x, NULL) => m.n \notin Gates(c) /\ Gates(m.c) = Gates(c) \cup {m.n}
    BY <1>1, NewGateGrows
  <2> QED BY <2>1, <2>2 DEF Match
<1>5. ASSUME m.n \in Gates(m.c)
      PROVE  m.c.fanin[m.n][0] = x /\ m.c.fanin[m.n][1] = NULL
  <2>1. F0(m.c, m.n) = m.c.fanin[m.n][0] /\ F1(m.c, m.n) = m.c.fanin[m.n][1] /\ F1(m.c, m.n) = NULL
    BY <1>2, <1>5, View
  <2> QED BY <1>2, <2>1
<1>6. Acyclic(m.c)
  <2>1. ASSUME m.n \notin Gates(c), Gates(m.c) = Gates(c) \cup {m.n} PROVE Acyclic(m.c)
    <3>1. \A p \in Pin : m.c.fanin[m.n][p] \in Present(c) \cup {NULL}
      BY <1>1, <1>5, <2>1 DEF Pin
    <3> QED BY <1>1, <1>2, <2>1, <3>1, AddedAcyclic
  <2> QED BY <1>1, <1>4, <2>1
<1>7. Under(m.c, g, x)
  BY <1>1, <1>2, KeptUnder
<1>8. Under(m.c, g, m.n)
  <2>1. CASE m.n \in Gates(m.c)
    <3>1. \A p \in Pin : m.c.fanin[m.n][p] # NULL => Under(m.c, g, m.c.fanin[m.n][p])
      BY <1>5, <1>7, <2>1 DEF Pin
    <3> QED BY <1>2, <1>3, <2>1, <3>1, UnderReader
  <2>2. CASE m.n \notin Gates(m.c)
    BY <1>2, <1>3, <2>2, UnderRoot
  <2> QED BY <2>1, <2>2
<1> QED BY <1>2, <1>6, <1>8 DEF Good

\* What replaces g does not depend on it, and nothing else became a cycle.
Sinks(c, g, m) == Good(m.c) /\ Keeps(c, m.c) /\ Under(m.c, g, m.n)

\* The fanins of a node.
Reads(c, n, x) ==
  \/ OpOf(c, n) \in BinOp /\ x \in {F0(c, n), F1(c, n)}
  \/ OpOf(c, n) = "NOT" /\ x = F0(c, n)

\* The sides of a gate are what it reads.
LEMMA SideReads ==
  ASSUME NEW c, NEW n, OpOf(c, n) \in BinOp, NEW s \in Sides(c, n)
  PROVE  Reads(c, n, s[1]) /\ Reads(c, n, s[2])
  BY DEF Sides, Reads

\* What a node under g reads, and what g reads, is under g.
LEMMA ReadUnder ==
  ASSUME NEW c, Good(c), NEW g \in Gates(c), NEW n, n = g \/ Under(c, g, n), NEW x, Reads(c, n, x)
  PROVE  Under(c, g, x)
  BY FaninsUnder DEF Reads

\* No node reads itself, and no two read one another.
LEMMA NoLoop ==
  ASSUME NEW c, Good(c), NEW n \in Present(c), NEW x, Reads(c, n, x)
  PROVE  x # n /\ ~ Reads(c, x, n)
<1>1. c \in Circuit /\ WellFormed(c)
  BY DEF Good
<1>2. CASE n \in Gates(c)
  <2>1. Under(c, n, x)
    BY <1>2, ReadUnder
  <2>2. Reads(c, x, n) => Under(c, n, n)
    BY <1>2, <2>1, ReadUnder
  <2> QED BY <2>1, <2>2, UnderPresent
<1>3. CASE n \notin Gates(c)
  <2>1. n = ZERO_GATE /\ x = ONE_GATE
    BY <1>1, <1>3, View DEF Reads
  <2>2. ONE_GATE \in Present(c) \ Gates(c) /\ ONE_GATE # ZERO_GATE
    BY <1>1, Nodes
  <2>3. ~ Reads(c, ONE_GATE, ZERO_GATE)
    BY <1>1, <2>2, View DEF Reads
  <2> QED BY <2>1, <2>2, <2>3
<1> QED BY <1>2, <1>3

\* A match with a node under g, or with a constant, makes no cycle.
LEMMA MatchSinks ==
  ASSUME NEW c, Good(c), NEW g \in Gates(c), NEW n, n \in Const \/ Under(c, g, n), NEW m, m = Match(c, n)
  PROVE  Sinks(c, g, m)
<1>1. c \in Circuit /\ Keeps(c, c)
  BY DEF Good, Keeps
<1>2. n \in Const => Under(c, g, n)
  BY <1>1, Nodes, UnderRoot DEF Const
<1> QED BY <1>1, <1>2 DEF Match, Sinks

\* The rules that replace a gate by a constant or by something below it.
LEMMA SimpleSinks ==
  ASSUME NEW c, Good(c), Spare(c) >= 1, NEW g \in Gates(c), NEW m \in Simple(c, g)
  PROVE  Sinks(c, g, m)
<1>1. c \in Circuit /\ WellFormed(c) /\ ONE_GATE \in Const /\ ZERO_GATE \in Const
  BY DEF Good, Const
<1>2. \/ m \in propagate_zero(c, g) \/ m \in propagate_one(c, g)
      \/ m \in transform_XOR5(c, g) \/ m \in transform3(c, g)
  BY DEF Simple, ||
<1>3. ASSUME NEW s \in Sides(c, g), OpOf(c, g) \in BinOp PROVE Under(c, g, s[1]) /\ Under(c, g, s[2])
  BY <1>3, FaninsUnder
<1>4. CASE m \in propagate_zero(c, g)
  <2>1. \/ m = Match(c, ONE_GATE) \/ m = Match(c, ZERO_GATE)
        \/ \E s \in Sides(c, g) : OpOf(c, g) \in {"OR", "XOR"} /\ m = Match(c, s[2])
    BY <1>4 DEF propagate_zero, When
  <2> QED BY <1>1, <1>3, <2>1, MatchSinks DEF BinOp
<1>5. CASE m \in propagate_one(c, g)
  <2>1. \/ m = Match(c, ONE_GATE) \/ m = Match(c, ZERO_GATE)
        \/ \E s \in Sides(c, g) : Is(c, g, "AND") /\ m = Match(c, s[2])
        \/ \E s \in Sides(c, g) : Is(c, g, "XOR") /\ m = create_this_NOT_gate(c, s[2])
    BY <1>5 DEF propagate_one, When
  <2>2. ASSUME NEW s \in Sides(c, g), Is(c, g, "AND"), m = Match(c, s[2]) PROVE Sinks(c, g, m)
    BY <1>3, <2>2, MatchSinks DEF BinOp, Is
  <2>3. ASSUME NEW s \in Sides(c, g), Is(c, g, "XOR"), m = create_this_NOT_gate(c, s[2])
        PROVE  Sinks(c, g, m)
    <3>1. Under(c, g, s[2]) /\ OpOf(c, g) # "NOT"
      BY <1>3, <2>3 DEF BinOp, Is
    <3> QED BY <2>3, <3>1, NotUnder DEF Sinks
  <2> QED BY <1>1, <2>1, <2>2, <2>3, MatchSinks
<1>6. CASE m \in transform_XOR5(c, g)
  <2>1. m = Match(c, ZERO_GATE) \/ m = Match(c, ONE_GATE)
    BY <1>6 DEF transform_XOR5, When, ||
  <2> QED BY <1>1, <2>1, MatchSinks
<1>7. CASE m \in transform3(c, g)
  <2>1. OpOf(c, g) \in BinOp /\ m = Match(c, F0(c, g))
    BY <1>7 DEF transform3, When, BinOp
  <2>2. Under(c, g, F0(c, g))
    BY <2>1, FaninsUnder
  <2> QED BY <2>1, <2>2, MatchSinks
<1> QED BY <1>2, <1>4, <1>5, <1>6, <1>7

\* The rules that replace g by a node that was there choose one under g.
LEMMA FaninSinks ==
  ASSUME NEW c, Good(c), NEW g \in Gates(c), NEW m \in ToFanin(c, g)
  PROVE  Sinks(c, g, m)
<1>1. \/ m \in transform4(c, g) \/ m \in transform5(c, g)
      \/ m \in transform12_1(c, g) \/ m \in transform12_2(c, g)
  BY DEF ToFanin, ||
<1>2. CASE m \in transform4(c, g)
  <2>1. Is(c, g, "NOT") /\ Is(c, F0(c, g), "NOT") /\ m = Match(c, F0(c, F0(c, g)))
    BY <1>2 DEF transform4, When
  <2>2. Under(c, g, F0(c, g))
    BY <2>1, FaninsUnder DEF Is
  <2>3. Under(c, g, F0(c, F0(c, g)))
    BY <2>1, <2>2, FaninsUnder DEF Is
  <2> QED BY <2>1, <2>3, MatchSinks
<1>3. CASE m \in transform5(c, g)
  <2>1. m = Match(c, IF Is(c, g, "OR") THEN ONE_GATE ELSE ZERO_GATE)
    BY <1>3 DEF transform5, When
  <2> QED BY <2>1, MatchSinks DEF Const
<1>4. ASSUME NEW s \in Sides(c, g), Is(c, g, "OR") \/ Is(c, g, "AND"), m = Match(c, s[2])
      PROVE  Sinks(c, g, m)
  <2>1. Under(c, g, s[2])
    BY <1>4, FaninsUnder DEF Is, BinOp
  <2> QED BY <1>4, <2>1, MatchSinks
<1>5. CASE m \in transform12_1(c, g)
  BY <1>4, <1>5 DEF transform12_1
<1>6. CASE m \in transform12_2(c, g)
  BY <1>4, <1>6 DEF transform12_2
<1> QED BY <1>1, <1>2, <1>3, <1>5, <1>6

\* A twin reads what g reads.
LEMMA HashingSinks ==
  ASSUME NEW c, Good(c), NEW g \in Gates(c), NEW m \in Hashing(c, g),
         F0(c, g) # F1(c, g) \/ OpOf(c, g) = "NOT"
  PROVE  Sinks(c, g, m)
<1>1. c \in Circuit /\ WellFormed(c) /\ g \in Present(c)
  BY Nodes DEF Good
<1>2. m \in structural_hashing_NOT(c, g) \/ m \in structural_hashing_BINOP(c, g)
  BY DEF Hashing, ||
<1>3. CASE m \in structural_hashing_NOT(c, g)
  <2>1. PICK f \in Fanouts(c, F0(c, g)) :
          Is(c, g, "NOT") /\ Is(c, f[1], "NOT") /\ f[1] # g /\ m = Match(c, f[1])
    BY <1>3 DEF structural_hashing_NOT
  <2>2. Under(c, g, F0(c, g))
    BY <2>1, FaninsUnder DEF Is
  <2>3. m.n \in Present(c) /\ m.n = f[1]
    BY <1>1, <2>1, HashingRules DEF Match
  <2>4. CASE f[1] \in Gates(c)
    <3>1. f \in Gates(c) \X Pin /\ c.fanin[f[1]][f[2]] = F0(c, g)
      <4>1. f[1] \notin Output /\ f[1] # ZERO_GATE
        BY <1>1, <2>4, Nodes, NetlistAssumption DEF Node
      <4> QED BY <4>1 DEF Fanouts
    <3>2. F1(c, f[1]) = NULL /\ c.fanin[f[1]][1] = F1(c, f[1]) /\ c.fanin[f[1]][0] = F0(c, f[1])
      BY <1>1, <2>1, <2>4, View, Nodes DEF Is
    <3>3. \A p \in Pin : c.fanin[f[1]][p] # NULL => Under(c, g, c.fanin[f[1]][p])
      BY <1>1, <2>2, <3>1, <3>2, UnderPresent, Nodes DEF Pin
    <3>4. Under(c, g, f[1])
      BY <1>1, <2>1, <2>4, <3>3, UnderReader
    <3> QED BY <2>1, <3>4, MatchSinks
  <2>5. CASE f[1] \notin Gates(c)
    <3>1. Under(c, g, f[1])
      BY <1>1, <2>1, <2>3, <2>5, UnderRoot
    <3> QED BY <2>1, <3>1, MatchSinks
  <2> QED BY <2>4, <2>5
<1>4. CASE m \in structural_hashing_BINOP(c, g)
  <2>1. PICK h \in Gates(c) \ {g}, p \in Pin, q \in Pin :
          /\ OpOf(c, g) \in BinOp /\ c.op[h] = c.op[g] /\ m = Match(c, h)
          /\ c.fanin[h][p] = F0(c, g) /\ c.fanin[h][q] = F1(c, g)
    BY <1>4 DEF structural_hashing_BINOP
  <2>2. p # q /\ OpOf(c, g) # "NOT"
    BY <2>1 DEF BinOp
  <2>3. Under(c, g, F0(c, g)) /\ Under(c, g, F1(c, g))
    BY <2>1, FaninsUnder
  <2>4. \A r \in Pin : r = p \/ r = q
    BY <2>2 DEF Pin
  <2>5. Under(c, g, h)
    BY <1>1, <2>1, <2>3, <2>4, UnderReader
  <2> QED BY <2>1, <2>5, MatchSinks
<1> QED BY <1>2, <1>3, <1>4

\* The same for a pair of fanins: g is not the gate that they will be fanins of.
SinksBoth(c, g, p, op) ==
  /\ Good(p.c) /\ Keeps(c, p.c) /\ Under(p.c, g, p.l) /\ Under(p.c, g, p.r)
  /\ op # OpOf(c, g) \/ <<p.l, p.r>> \notin Sides(c, g)

\* A circuit kept by two steps in a row is kept by both together.
LEMMA KeepsMore ==
  ASSUME NEW c, NEW d, NEW e, Keeps(c, d), Keeps(d, e)
  PROVE  Keeps(c, e)
  BY DEF Keeps

\* A gate made from two nodes under g is under g: create_this_gate() does not
\* find g itself.
LEMMA BuiltSinks ==
  ASSUME NEW c \in Circuit, NEW g \in Gates(c), NEW op \in BinOp, NEW p, SinksBoth(c, g, p, op),
         Spare(p.c) >= 1, NEW m, m = create_this_gate(p.c, p.l, p.r, op)
  PROVE  Sinks(c, g, m)
<1> DEFINE d == p.c
<1>1. Good(d) /\ d \in Circuit /\ Keeps(c, d) /\ Under(d, g, p.l) /\ Under(d, g, p.r) /\ g \in Gates(d)
  BY DEF SinksBoth, Good, Keeps
<1>2. OpOf(d, g) = OpOf(c, g) /\ Sides(d, g) = Sides(c, g)
  BY <1>1, KeptNodes, Nodes DEF Sides
<1>3. op # OpOf(d, g) \/ <<p.l, p.r>> \notin Sides(d, g)
  BY <1>2 DEF SinksBoth
<1>4. Good(m.c) /\ Keeps(d, m.c) /\ Under(m.c, g, m.n)
  <2> DEFINE x == p.l
             y == p.r
  <2>1. Under(d, g, x) /\ Under(d, g, y) /\ m = create_this_gate(d, x, y, op) /\ Spare(d) >= 1
        /\ (op # OpOf(d, g) \/ <<x, y>> \notin Sides(d, g))
    BY <1>1, <1>3
  <2> HIDE DEF x, y, d
  <2> QED BY <1>1, <2>1, GateUnder
<1> QED BY <1>1, <1>4, KeepsMore DEF Sinks

\* A NOT made of a node under g is under g, unless g is a NOT.
LEMMA NegatedSinks ==
  ASSUME NEW c \in Circuit, NEW g \in Gates(c), OpOf(c, g) # "NOT", NEW k, Sinks(c, g, k),
         Spare(k.c) >= 1, NEW m, m = create_this_NOT_gate(k.c, k.n)
  PROVE  Sinks(c, g, m)
<1> DEFINE d == k.c
           x == k.n
<1>1. Good(d) /\ d \in Circuit /\ Keeps(c, d) /\ Under(d, g, x) /\ g \in Gates(d) /\ Spare(d) >= 1
        /\ m = create_this_NOT_gate(d, x)
  BY DEF Sinks, Good, Keeps
<1> HIDE DEF d, x
<1>2. OpOf(d, g) # "NOT"
  BY <1>1, KeptNodes, Nodes
<1>3. Good(m.c) /\ Keeps(d, m.c) /\ Under(m.c, g, m.n)
  BY <1>1, <1>2, NotUnder
<1> QED BY <1>1, <1>3, KeepsMore DEF Sinks

\* Two nodes under g that are not the sides of g, or another operator.
LEMMA PairSinks ==
  ASSUME NEW c, Good(c), NEW g, NEW x, Under(c, g, x), NEW y, Under(c, g, y),
         NEW op, op # OpOf(c, g) \/ <<x, y>> \notin Sides(c, g), NEW p, p = Pair(c, x, y)
  PROVE  SinksBoth(c, g, p, op)
  BY DEF SinksBoth, Pair, Keeps

\* The negation of y must not be the other fanin of g already.
LEMMA WithNotSinks ==
  ASSUME NEW c, Good(c), Spare(c) >= 1, NEW g \in Gates(c), NEW x, Under(c, g, x),
         NEW y, Under(c, g, y), OpOf(c, g) # "NOT" \/ F0(c, g) # y,
         NEW op \in BinOp, op # OpOf(c, g) \/ \A k : Reads(c, k, y) /\ Is(c, k, "NOT") => <<x, k>> \notin Sides(c, g),
         NEW p, p = WithNot(c, x, y)
  PROVE  SinksBoth(c, g, p, op)
<1>1. PICK m : m = create_this_NOT_gate(c, y)
  OBVIOUS
<1>2. p.c = m.c /\ p.l = x /\ p.r = m.n
  BY <1>1 DEF WithNot, Pair
<1>3. Good(m.c) /\ Keeps(c, m.c) /\ Under(m.c, g, m.n)
  BY <1>1, NotUnder
<1>4. c \in Circuit /\ WellFormed(c) /\ m.c \in Circuit /\ y \in Present(c) /\ g \in Present(c)
  BY <1>3, UnderPresent, Nodes DEF Good
<1>5. Under(m.c, g, x)
  BY <1>3, <1>4, KeptUnder
<1>6. ASSUME op = OpOf(c, g) PROVE <<x, m.n>> \notin Sides(c, g)
  <2> SUFFICES ASSUME <<x, m.n>> \in Sides(c, g) PROVE FALSE
    OBVIOUS
  <2>1. m.n \in Present(c)
    <3> DEFINE s == <<x, m.n>>
    <3>1. s \in Sides(c, g) /\ s[2] = m.n
      OBVIOUS
    <3> HIDE DEF s
    <3> QED BY <1>4, <1>6, <3>1, SideOf
  <2>2. OpOf(m.c, m.n) = "NOT" /\ F0(m.c, m.n) = y
    BY <1>1, <1>4, NotCreated
  <2>3. OpOf(c, m.n) = "NOT" /\ F0(c, m.n) = y
    BY <1>3, <1>4, <2>1, <2>2, KeptNodes
  <2> QED BY <1>6, <2>3 DEF Reads, Is
<1> QED BY <1>2, <1>3, <1>5, <1>6 DEF SinksBoth

\* A common factor: y and z are read by one fanin of g each.
LEMMA FactoringSinks ==
  ASSUME NEW c, Good(c), Spare(c) >= 1, NEW g \in Gates(c), NEW inner \in BinOp,
         NEW f \in Factorings(c, g, inner), OpOf(c, g) \in BinOp, NEW op, op # OpOf(c, g),
         NEW p, p = WithGate(c, f[1], f[2], f[3], OpOf(c, g))
  PROVE  SinksBoth(c, g, p, op)
<1> DEFINE a == F0(c, g)
           b == F1(c, g)
<1>0. Under(c, g, a) /\ Under(c, g, b) /\ c \in Circuit
  BY FaninsUnder DEF Good
<1> HIDE DEF a, b
<1>1. PICK s \in Sides(c, a), t \in Sides(c, b) :
        OpOf(c, a) = inner /\ OpOf(c, b) = inner /\ f = <<s[1], s[2], t[2]>>
  BY DEF Factorings, Is, a, b
<1>2. f[1] = s[1] /\ f[2] = s[2] /\ f[3] = t[2]
  BY <1>1
<1>3. Under(c, g, f[1]) /\ Under(c, g, f[2]) /\ Under(c, g, f[3])
  BY <1>0, <1>1, <1>2, FaninsUnder
<1>4. Reads(c, a, f[2]) /\ Reads(c, b, f[3]) /\ a \in Present(c) /\ b \in Present(c)
  BY <1>0, <1>1, <1>2, SideReads, UnderPresent
<1>5. <<f[2], f[3]>> \notin Sides(c, g)
  <2>1. f[2] # a /\ f[3] # b /\ ~ (f[2] = b /\ f[3] = a)
    BY <1>4, NoLoop
  <2>2. Sides(c, g) = {<<a, b>>, <<b, a>>}
    BY DEF Sides, a, b
  <2> QED BY <2>1, <2>2
<1>6. PICK m : m = create_this_gate(c, f[2], f[3], OpOf(c, g))
  OBVIOUS
<1>7. p.c = m.c /\ p.l = f[1] /\ p.r = m.n
  BY <1>6 DEF WithGate, Pair
<1>8. Good(m.c) /\ Keeps(c, m.c) /\ Under(m.c, g, m.n)
  <2> DEFINE y == f[2]
             z == f[3]
             o == OpOf(c, g)
  <2>1. /\ Under(c, g, y) /\ Under(c, g, z) /\ <<y, z>> \notin Sides(c, g)
        /\ m = create_this_gate(c, y, z, o) /\ o \in BinOp
    BY <1>3, <1>5, <1>6
  <2> HIDE DEF y, z, o
  <2> QED BY <2>1, GateUnder
<1>9. Under(m.c, g, f[1])
  BY <1>0, <1>3, <1>8, KeptUnder DEF Good
<1> QED BY <1>7, <1>8, <1>9 DEF SinksBoth

\* op(inner(x, y), x): y is below one side and x is the other.
LEMMA AbsorbedSinks ==
  ASSUME NEW c, Good(c), NEW g \in Gates(c), OpOf(c, g) \in BinOp, NEW inner \in BinOp,
         NEW single, NEW a \in Absorbed(c, g, inner, single)
  PROVE  /\ Under(c, g, a[1]) /\ Under(c, g, a[2]) /\ <<a[2], a[1]>> \notin Sides(c, g)
         /\ \A k : Is(c, k, "NOT") => <<a[2], k>> \notin Sides(c, g)
<1>0. PICK s \in Sides(c, g) : \E t \in Sides(c, s[1]) :
        Is(c, s[1], inner) /\ t[1] = s[2] /\ a = <<t[2], s[2]>>
  BY DEF Absorbed
<1>1. PICK t \in Sides(c, s[1]) : Is(c, s[1], inner) /\ t[1] = s[2] /\ a = <<t[2], s[2]>>
  BY <1>0
<1>2. PICK x, y : x = s[1] /\ y = s[2]
  OBVIOUS
<1>3. a[1] = t[2] /\ a[2] = y /\ OpOf(c, x) = inner /\ inner # "NOT" /\ t \in Sides(c, x) /\ t[1] = y
  BY <1>1, <1>2 DEF Is, BinOp
<1>4. Under(c, g, x) /\ Under(c, g, y)
  BY <1>2, FaninsUnder
<1>5. Under(c, g, t[2]) /\ Reads(c, x, t[2]) /\ Reads(c, x, y)
  BY <1>3, <1>4, FaninsUnder, SideReads
<1>6. t[2] # x /\ y # x
  BY <1>4, <1>5, NoLoop, UnderPresent
<1>7. Sides(c, g) = {<<x, y>>, <<y, x>>}
  BY <1>2 DEF Sides
<1> QED BY <1>3, <1>4, <1>5, <1>6, <1>7 DEF Is

\* op(x, inner(NOT(x), y)) and op(x, NOT(op(x, y))): y is below one side.
LEMMA ComplementSinks ==
  ASSUME NEW c, Good(c), NEW g \in Gates(c), NEW op \in BinOp, Is(c, g, op), NEW inner \in BinOp,
         NEW p \in Complements(c, g, inner)
  PROVE  SinksBoth(c, g, p, op)
<1>0. PICK s \in Sides(c, g) : \E t \in Sides(c, s[2]) : Is(c, s[2], inner) /\ p = Pair(c, s[1], t[2])
  BY DEF Complements
<1>1. PICK t \in Sides(c, s[2]) : Is(c, s[2], inner) /\ p = Pair(c, s[1], t[2])
  BY <1>0
<1>2. PICK x, y, z : x = s[1] /\ y = s[2] /\ z = t[2]
  OBVIOUS
<1>3. OpOf(c, y) \in BinOp /\ OpOf(c, g) \in BinOp /\ t \in Sides(c, y) /\ p = Pair(c, x, z)
  BY <1>1, <1>2 DEF Is
<1>4. Under(c, g, x) /\ Under(c, g, y)
  BY <1>2, <1>3, FaninsUnder
<1>5. Under(c, g, z) /\ Reads(c, y, z)
  BY <1>2, <1>3, <1>4, FaninsUnder, SideReads
<1>6. z # y
  BY <1>4, <1>5, NoLoop, UnderPresent
<1>7. Sides(c, g) = {<<x, y>>, <<y, x>>}
  BY <1>2 DEF Sides
<1>8. <<x, z>> \notin Sides(c, g)
  BY <1>6, <1>7
<1> QED BY <1>3, <1>4, <1>5, <1>8, PairSinks

\* The negations that transform11_1 and transform11_2 pair are under g.
LEMMA NegationSinks ==
  ASSUME NEW c, Good(c), Spare(c) >= 1, NEW g \in Gates(c), NEW op \in BinOp, Is(c, g, op),
         NEW single, NEW p \in Negations(c, g, op, single)
  PROVE  SinksBoth(c, g, p, op)
<1>0. PICK s \in Sides(c, g) : \E t \in Sides(c, F0(c, s[2])) :
        /\ Is(c, s[2], "NOT") /\ Is(c, F0(c, s[2]), op) /\ t[1] = s[1]
        /\ p = WithNot(c, s[1], t[2])
  BY DEF Negations
<1>1. PICK t \in Sides(c, F0(c, s[2])) :
        /\ Is(c, s[2], "NOT") /\ Is(c, F0(c, s[2]), op) /\ t[1] = s[1]
        /\ p = WithNot(c, s[1], t[2])
  BY <1>0
<1>2. PICK x, y, u, z : x = s[1] /\ y = s[2] /\ u = F0(c, s[2]) /\ z = t[2]
  OBVIOUS
<1>3. /\ OpOf(c, y) = "NOT" /\ u = F0(c, y) /\ OpOf(c, u) \in BinOp /\ OpOf(c, g) \in BinOp
      /\ t \in Sides(c, u) /\ t[1] = x /\ p = WithNot(c, x, z) /\ OpOf(c, g) # "NOT"
  BY <1>1, <1>2 DEF Is, BinOp
<1>4. Under(c, g, x) /\ Under(c, g, y)
  BY <1>2, <1>3, FaninsUnder
<1>5. Under(c, g, u) /\ Reads(c, y, u)
  BY <1>3, <1>4, FaninsUnder DEF Reads
<1>6. Under(c, g, z) /\ Reads(c, u, z) /\ Reads(c, u, x)
  BY <1>2, <1>3, <1>5, FaninsUnder, SideReads
<1>7. z # u /\ x # y
  BY <1>4, <1>5, <1>6, NoLoop, UnderPresent
<1>8. Sides(c, g) = {<<x, y>>, <<y, x>>}
  BY <1>2 DEF Sides
<1>9. ASSUME NEW k, Reads(c, k, z), Is(c, k, "NOT") PROVE <<x, k>> \notin Sides(c, g)
  <2>1. k # y
    BY <1>3, <1>7, <1>9 DEF Reads, Is, BinOp
  <2> QED BY <1>7, <1>8, <2>1
<1> QED BY <1>3, <1>4, <1>6, <1>9, WithNotSinks

\* The rules that end in a new OR pair nodes under g.
LEMMA OrSinks ==
  ASSUME NEW c, Good(c), Spare(c) >= 1, NEW g \in Gates(c), NEW p \in ToOr(c, g)
  PROVE  SinksBoth(c, g, p, "OR")
<1>1. "OR" \in BinOp /\ "AND" \in BinOp /\ "XOR" \in BinOp /\ "NOT" \notin BinOp
  BY DEF BinOp
<1>2. \/ p \in transform8_2(c, g) \/ p \in can_be_less_easily_replaced_by_or(c, g)
      \/ p \in simplify13(c, g) \/ p \in transform_inv9_2(c, g) \/ p \in transform11_1(c, g)
  BY DEF ToOr, ||
<1>3. CASE p \in transform8_2(c, g)
  <2>1. OpOf(c, g) = "AND" /\ \E f \in Factorings(c, g, "OR") : p = WithGate(c, f[1], f[2], f[3], "AND")
    BY <1>3 DEF transform8_2, Is
  <2>2. PICK f \in Factorings(c, g, "OR") : p = WithGate(c, f[1], f[2], f[3], OpOf(c, g))
    BY <2>1
  <2> QED BY <1>1, <2>1, <2>2, FactoringSinks
<1>4. CASE p \in can_be_less_easily_replaced_by_or(c, g)
  <2>1. PICK a : a = F0(c, g)
    OBVIOUS
  <2>2. /\ OpOf(c, g) = "NOT" /\ OpOf(c, a) = "AND"
        /\ OpOf(c, F0(c, a)) = "NOT" /\ OpOf(c, F1(c, a)) = "NOT"
        /\ p = Pair(c, F0(c, F0(c, a)), F0(c, F1(c, a)))
    BY <1>4, <2>1 DEF can_be_less_easily_replaced_by_or, When, Is, BothNot
  <2>3. Under(c, g, a)
    BY <2>1, <2>2, FaninsUnder
  <2>4. Under(c, g, F0(c, a)) /\ Under(c, g, F1(c, a))
    BY <1>1, <2>2, <2>3, FaninsUnder
  <2>5. Under(c, g, F0(c, F0(c, a))) /\ Under(c, g, F0(c, F1(c, a)))
    BY <2>2, <2>4, FaninsUnder
  <2> QED BY <2>2, <2>5, PairSinks
<1>5. CASE p \in simplify13(c, g)
  <2>1. OpOf(c, g) = "OR" /\ \E a \in Absorbed(c, g, "XOR", FALSE) : p = Pair(c, a[2], a[1])
    BY <1>5 DEF simplify13, Is
  <2>2. PICK a \in Absorbed(c, g, "XOR", FALSE) : p = Pair(c, a[2], a[1])
    BY <2>1
  <2>3. PICK x, y : x = a[2] /\ y = a[1]
    OBVIOUS
  <2>4. Under(c, g, y) /\ Under(c, g, x) /\ <<x, y>> \notin Sides(c, g)
    BY <1>1, <2>1, <2>3, AbsorbedSinks
  <2>5. p = Pair(c, x, y)
    BY <2>2, <2>3
  <2> QED BY <2>4, <2>5, PairSinks
<1>6. CASE p \in transform_inv9_2(c, g)
  <2>1. PICK t \in Sides(c, F0(c, g)) :
          /\ Is(c, g, "NOT") /\ Is(c, F0(c, g), "AND") /\ Is(c, t[1], "NOT")
          /\ p = WithNot(c, F0(c, t[1]), t[2])
    BY <1>6 DEF transform_inv9_2
  <2>2. PICK a, x, y : a = F0(c, g) /\ x = F0(c, t[1]) /\ y = t[2]
    OBVIOUS
  <2>3. OpOf(c, g) = "NOT" /\ OpOf(c, a) \in BinOp /\ OpOf(c, t[1]) = "NOT" /\ p = WithNot(c, x, y)
    BY <1>1, <2>1, <2>2 DEF Is
  <2>4. Under(c, g, a)
    BY <2>2, <2>3, FaninsUnder
  <2>5. Under(c, g, t[1]) /\ Under(c, g, y) /\ Reads(c, a, y)
    BY <2>2, <2>3, <2>4, FaninsUnder, SideReads
  <2>6. Under(c, g, x)
    BY <2>2, <2>3, <2>5, FaninsUnder
  <2>7. F0(c, g) # y
    BY <2>2, <2>4, <2>5, NoLoop, UnderPresent
  <2> QED BY <1>1, <2>3, <2>5, <2>6, <2>7, WithNotSinks
<1>7. CASE p \in transform11_1(c, g)
  <2>1. Is(c, g, "OR") /\ (p \in Complements(c, g, "AND") \/ p \in Negations(c, g, "OR", FALSE))
    BY <1>7 DEF transform11_1, ||
  <2> QED BY <1>1, <2>1, ComplementSinks, NegationSinks
<1> QED BY <1>2, <1>3, <1>4, <1>5, <1>6, <1>7

\* The rules that end in a new AND pair nodes under g.
LEMMA AndSinks ==
  ASSUME NEW c, Good(c), Spare(c) >= 1, NEW g \in Gates(c), NEW p \in ToAnd(c, g)
  PROVE  SinksBoth(c, g, p, "AND")
<1>1. "OR" \in BinOp /\ "AND" \in BinOp /\ "XOR" \in BinOp /\ "NOT" \notin BinOp
  BY DEF BinOp
<1>2. \/ p \in transform8_1(c, g) \/ p \in transform11_2(c, g) \/ p \in transform_inv9_1(c, g)
      \/ p \in transform_XOR3(c, g) \/ p \in transform_XOR_Absorption(c, g)
      \/ p \in transform_XOR_Absorption2(c, g)
  BY DEF ToAnd, ||
<1>3. CASE p \in transform8_1(c, g)
  <2>1. OpOf(c, g) = "OR" /\ \E f \in Factorings(c, g, "AND") : p = WithGate(c, f[1], f[2], f[3], "OR")
    BY <1>3 DEF transform8_1, Is
  <2>2. PICK f \in Factorings(c, g, "AND") : p = WithGate(c, f[1], f[2], f[3], OpOf(c, g))
    BY <2>1
  <2> QED BY <1>1, <2>1, <2>2, FactoringSinks
<1>4. CASE p \in transform11_2(c, g)
  <2>1. Is(c, g, "AND") /\ (p \in Complements(c, g, "OR") \/ p \in Negations(c, g, "AND", TRUE))
    BY <1>4 DEF transform11_2, ||
  <2> QED BY <1>1, <2>1, ComplementSinks, NegationSinks
<1>5. CASE p \in transform_inv9_1(c, g)
  <2>1. PICK t \in Sides(c, F0(c, g)) :
          /\ Is(c, g, "NOT") /\ Is(c, F0(c, g), "OR") /\ Is(c, t[1], "NOT")
          /\ p = WithNot(c, F0(c, t[1]), t[2])
    BY <1>5 DEF transform_inv9_1
  <2>2. PICK a, x, y : a = F0(c, g) /\ x = F0(c, t[1]) /\ y = t[2]
    OBVIOUS
  <2>3. OpOf(c, g) = "NOT" /\ OpOf(c, a) \in BinOp /\ OpOf(c, t[1]) = "NOT" /\ p = WithNot(c, x, y)
    BY <1>1, <2>1, <2>2 DEF Is
  <2>4. Under(c, g, a)
    BY <2>2, <2>3, FaninsUnder
  <2>5. Under(c, g, t[1]) /\ Under(c, g, y) /\ Reads(c, a, y)
    BY <2>2, <2>3, <2>4, FaninsUnder, SideReads
  <2>6. Under(c, g, x)
    BY <2>2, <2>3, <2>5, FaninsUnder
  <2>7. F0(c, g) # y
    BY <2>2, <2>4, <2>5, NoLoop, UnderPresent
  <2> QED BY <1>1, <2>3, <2>5, <2>6, <2>7, WithNotSinks
<1>6. CASE p \in transform_XOR3(c, g)
  <2>1. OpOf(c, g) = "XOR" /\ \E f \in Factorings(c, g, "AND") : p = WithGate(c, f[1], f[2], f[3], "XOR")
    BY <1>6 DEF transform_XOR3, Is
  <2>2. PICK f \in Factorings(c, g, "AND") : p = WithGate(c, f[1], f[2], f[3], OpOf(c, g))
    BY <2>1
  <2> QED BY <1>1, <2>1, <2>2, FactoringSinks
<1>7. CASE p \in transform_XOR_Absorption(c, g)
  <2>1. OpOf(c, g) = "XOR" /\ \E a \in Absorbed(c, g, "AND", FALSE) : p = WithNot(c, a[2], a[1])
    BY <1>7 DEF transform_XOR_Absorption, Is
  <2>2. PICK a \in Absorbed(c, g, "AND", FALSE) : p = WithNot(c, a[2], a[1])
    BY <2>1
  <2>3. PICK x, y : x = a[2] /\ y = a[1]
    OBVIOUS
  <2>4. Under(c, g, y) /\ Under(c, g, x)
    BY <1>1, <2>1, <2>3, AbsorbedSinks
  <2>5. p = WithNot(c, x, y)
    BY <2>2, <2>3
  <2> QED BY <1>1, <2>1, <2>4, <2>5, WithNotSinks
<1>8. CASE p \in transform_XOR_Absorption2(c, g)
  <2>1. OpOf(c, g) = "AND" /\ \E a \in Absorbed(c, g, "XOR", TRUE) : p = WithNot(c, a[2], a[1])
    BY <1>8 DEF transform_XOR_Absorption2, Is
  <2>2. PICK a \in Absorbed(c, g, "XOR", TRUE) : p = WithNot(c, a[2], a[1])
    BY <2>1
  <2>3. PICK x, y : x = a[2] /\ y = a[1]
    OBVIOUS
  <2>4. Under(c, g, y) /\ Under(c, g, x) /\ \A k : Is(c, k, "NOT") => <<x, k>> \notin Sides(c, g)
    BY <1>1, <2>1, <2>3, AbsorbedSinks
  <2>5. p = WithNot(c, x, y)
    BY <2>2, <2>3
  <2> QED BY <1>1, <2>1, <2>4, <2>5, WithNotSinks
<1> QED BY <1>2, <1>3, <1>4, <1>5, <1>6, <1>7, <1>8

\* The gates that two fanins NOT(inner(p, q)) and other(p, q) are built from.
LEMMA TwinUnder ==
  ASSUME NEW c, Good(c), NEW g \in Gates(c), OpOf(c, g) \in BinOp,
         NEW inner, NEW other \in BinOp, NEW s \in Twins(c, g, inner, other)
  PROVE  /\ OpOf(c, s[2]) = other
         /\ Under(c, g, s[2]) /\ Under(c, g, F0(c, s[2])) /\ Under(c, g, F1(c, s[2]))
<1>1. s \in Sides(c, g) /\ OpOf(c, s[2]) = other
  BY DEF Twins, Is
<1>2. PICK a : a = s[2]
  OBVIOUS
<1>3. Under(c, g, a) /\ OpOf(c, a) \in BinOp
  BY <1>1, <1>2, FaninsUnder
<1> QED BY <1>1, <1>2, <1>3, FaninsUnder

\* The rules that end in a new XOR pair nodes under g.
LEMMA XorSinks ==
  ASSUME NEW c, Good(c), NEW g \in Gates(c), NEW p \in ToXor(c, g)
  PROVE  SinksBoth(c, g, p, "XOR")
<1>1. "OR" \in BinOp /\ "AND" \in BinOp /\ "XOR" \in BinOp /\ "NOT" \notin BinOp
  BY DEF BinOp
<1>2. \/ p \in transform_XOR1(c, g) \/ p \in can_be_less_easily_replaced_by_xor(c, g)
      \/ p \in can_be_less_easily_replaced_by_xor2(c, g) \/ p \in transform_XOR2N(c, g)
  BY DEF ToXor, ||
<1>3. CASE p \in transform_XOR1(c, g)
  <2>1. PICK s \in Sides(c, F0(c, g)), t \in Sides(c, F1(c, g)) :
          /\ Is(c, g, "OR") /\ Is(c, F0(c, g), "AND") /\ Is(c, F1(c, g), "AND")
          /\ p = Pair(c, s[2], t[2])
    BY <1>3 DEF transform_XOR1
  <2>2. PICK a, b, x, y : a = F0(c, g) /\ b = F1(c, g) /\ x = s[2] /\ y = t[2]
    OBVIOUS
  <2>3. OpOf(c, g) = "OR" /\ OpOf(c, a) \in BinOp /\ OpOf(c, b) \in BinOp /\ p = Pair(c, x, y)
    BY <1>1, <2>1, <2>2 DEF Is
  <2>4. Under(c, g, a) /\ Under(c, g, b)
    BY <1>1, <2>2, <2>3, FaninsUnder
  <2>5. Under(c, g, x) /\ Under(c, g, y)
    BY <2>2, <2>3, <2>4, FaninsUnder
  <2> QED BY <2>3, <2>5, PairSinks
<1>4. CASE p \in can_be_less_easily_replaced_by_xor(c, g)
  <2>0. PICK s \in Twins(c, g, "OR", "AND") : \E t \in Sides(c, s[2]) :
          Is(c, g, "OR") /\ Is(c, t[1], "NOT") /\ p = Pair(c, t[2], F0(c, t[1]))
    BY <1>4 DEF can_be_less_easily_replaced_by_xor
  <2>1. PICK t \in Sides(c, s[2]) :
          Is(c, g, "OR") /\ Is(c, t[1], "NOT") /\ p = Pair(c, t[2], F0(c, t[1]))
    BY <2>0
  <2>2. PICK a, x, n, y : a = s[2] /\ x = t[2] /\ n = t[1] /\ y = F0(c, n)
    OBVIOUS
  <2>3. OpOf(c, g) = "OR" /\ OpOf(c, n) = "NOT" /\ p = Pair(c, x, y)
    BY <2>1, <2>2 DEF Is
  <2>4. Under(c, g, a) /\ OpOf(c, a) \in BinOp
    BY <1>1, <2>2, <2>3, TwinUnder
  <2>5. Under(c, g, n) /\ Under(c, g, x)
    BY <2>2, <2>4, FaninsUnder
  <2>6. Under(c, g, y)
    BY <2>2, <2>3, <2>5, FaninsUnder
  <2> QED BY <2>3, <2>5, <2>6, PairSinks
<1>5. CASE p \in can_be_less_easily_replaced_by_xor2(c, g)
  <2>1. PICK s \in Twins(c, g, "AND", "OR") :
          Is(c, g, "AND") /\ p = Pair(c, F0(c, s[2]), F1(c, s[2]))
    BY <1>5 DEF can_be_less_easily_replaced_by_xor2
  <2>2. OpOf(c, g) = "AND"
    BY <2>1 DEF Is
  <2>3. Under(c, g, F0(c, s[2])) /\ Under(c, g, F1(c, s[2]))
    BY <1>1, <2>2, TwinUnder
  <2> QED BY <2>1, <2>2, <2>3, PairSinks
<1>6. CASE p \in transform_XOR2N(c, g)
  <2>1. PICK a, b : a = F0(c, g) /\ b = F1(c, g)
    OBVIOUS
  <2>2. \/ /\ OpOf(c, g) = "XOR" /\ OpOf(c, a) = "NOT" /\ OpOf(c, b) = "NOT"
           /\ p = Pair(c, F0(c, a), F0(c, b))
        \/ \E t \in Sides(c, a) : /\ OpOf(c, g) = "NOT" /\ OpOf(c, a) = "XOR"
                                  /\ OpOf(c, t[1]) = "NOT" /\ p = Pair(c, F0(c, t[1]), t[2])
    BY <1>6, <2>1 DEF transform_XOR2N, When, ||, Is, BothNot
  <2>3. CASE OpOf(c, g) = "XOR" /\ OpOf(c, a) = "NOT" /\ OpOf(c, b) = "NOT"
               /\ p = Pair(c, F0(c, a), F0(c, b))
    <3>1. PICK x, y : x = F0(c, a) /\ y = F0(c, b)
      OBVIOUS
    <3>2. Under(c, g, a) /\ Under(c, g, b)
      BY <1>1, <2>1, <2>3, FaninsUnder
    <3>3. Under(c, g, x) /\ Under(c, g, y) /\ Reads(c, a, x) /\ Reads(c, b, y)
      BY <2>3, <3>1, <3>2, FaninsUnder DEF Reads
    <3>4. x # a /\ ~ (x = b /\ y = a)
      BY <3>2, <3>3, NoLoop, UnderPresent
    <3>5. <<x, y>> \notin Sides(c, g)
      BY <2>1, <3>4 DEF Sides
    <3> QED BY <2>3, <3>1, <3>3, <3>5, PairSinks
  <2>4. ASSUME NEW t \in Sides(c, a), OpOf(c, g) = "NOT", OpOf(c, a) = "XOR",
               OpOf(c, t[1]) = "NOT", p = Pair(c, F0(c, t[1]), t[2])
        PROVE  SinksBoth(c, g, p, "XOR")
    <3>1. PICK n, x, y : n = t[1] /\ x = F0(c, n) /\ y = t[2]
      OBVIOUS
    <3>2. Under(c, g, a)
      BY <2>1, <2>4, FaninsUnder
    <3>3. Under(c, g, n) /\ Under(c, g, y)
      BY <1>1, <2>4, <3>1, <3>2, FaninsUnder
    <3>4. Under(c, g, x)
      BY <2>4, <3>1, <3>3, FaninsUnder
    <3> QED BY <2>4, <3>1, <3>3, <3>4, PairSinks
  <2> QED BY <2>2, <2>3, <2>4
<1> QED BY <1>2, <1>3, <1>4, <1>5, <1>6

\* The gate that g is the negation of.
LEMMA NotSinks ==
  ASSUME NEW c, Good(c), Spare(c) >= 1, NEW g \in Gates(c), NEW round2, NEW m \in ToNot(c, g, round2)
  PROVE  Sinks(c, g, m) /\ OpOf(c, g) # "NOT"
<1>1. "OR" \in BinOp /\ "AND" \in BinOp /\ "XOR" \in BinOp /\ "NOT" \notin BinOp
  BY DEF BinOp
<1>2. \/ m \in transform9_1(c, g) \/ m \in simplify15(c, g)
      \/ m \in simplify17(c, g) \/ m \in transform9_2(c, g, round2)
  BY DEF ToNot, ||
<1>3. ASSUME NEW op \in BinOp, OpOf(c, g) \in BinOp, op # OpOf(c, g), BothNot(c, g),
             m = create_this_gate(c, F0(c, F0(c, g)), F0(c, F1(c, g)), op)
      PROVE  Sinks(c, g, m)
  <2>1. PICK a, b, x, y : a = F0(c, g) /\ b = F1(c, g) /\ x = F0(c, a) /\ y = F0(c, b)
    OBVIOUS
  <2>2. OpOf(c, a) = "NOT" /\ OpOf(c, b) = "NOT" /\ m = create_this_gate(c, x, y, op)
    BY <1>3, <2>1 DEF BothNot, Is
  <2>3. Under(c, g, a) /\ Under(c, g, b)
    BY <1>3, <2>1, FaninsUnder
  <2>4. Under(c, g, x) /\ Under(c, g, y)
    BY <2>1, <2>2, <2>3, FaninsUnder
  <2> QED BY <1>3, <2>2, <2>4, GateUnder DEF Sinks
<1>4. CASE m \in transform9_1(c, g)
  <2>1. /\ OpOf(c, g) = "AND" /\ BothNot(c, g)
        /\ m = create_this_gate(c, F0(c, F0(c, g)), F0(c, F1(c, g)), "OR")
    BY <1>4 DEF transform9_1, When, Is
  <2> QED BY <1>1, <1>3, <2>1
<1>5. CASE m \in transform9_2(c, g, round2)
  <2>1. /\ OpOf(c, g) = "OR" /\ BothNot(c, g)
        /\ m = create_this_gate(c, F0(c, F0(c, g)), F0(c, F1(c, g)), "AND")
    BY <1>5 DEF transform9_2, When, Is
  <2> QED BY <1>1, <1>3, <2>1
<1>6. CASE m \in simplify15(c, g)
  <2>1. OpOf(c, g) = "OR" /\ \E s \in Twins(c, g, "OR", "AND") :
          m = create_this_gate(c, F0(c, s[2]), F1(c, s[2]), "XOR")
    BY <1>6 DEF simplify15, Is
  <2>2. PICK s \in Twins(c, g, "OR", "AND") : m = create_this_gate(c, F0(c, s[2]), F1(c, s[2]), "XOR")
    BY <2>1
  <2>3. PICK x, y : x = F0(c, s[2]) /\ y = F1(c, s[2])
    OBVIOUS
  <2>4. Under(c, g, x) /\ Under(c, g, y)
    BY <1>1, <2>1, <2>3, TwinUnder
  <2>5. m = create_this_gate(c, x, y, "XOR")
    BY <2>2, <2>3
  <2> QED BY <1>1, <2>1, <2>4, <2>5, GateUnder DEF Sinks
<1>7. CASE m \in simplify17(c, g)
  <2>1. PICK s \in Sides(c, g) : /\ Is(c, g, "XOR") /\ Is(c, s[1], "NOT")
                                 /\ m = create_this_gate(c, F0(c, s[1]), s[2], "XOR")
    BY <1>7 DEF simplify17
  <2>2. PICK n, x, y : n = s[1] /\ x = F0(c, n) /\ y = s[2]
    OBVIOUS
  <2>3. OpOf(c, g) = "XOR" /\ OpOf(c, n) = "NOT" /\ m = create_this_gate(c, x, y, "XOR")
    BY <2>1, <2>2 DEF Is
  <2>4. Under(c, g, n) /\ Under(c, g, y)
    BY <1>1, <2>2, <2>3, FaninsUnder
  <2>5. Under(c, g, x) /\ Reads(c, n, x)
    BY <2>2, <2>3, <2>4, FaninsUnder DEF Reads
  <2>6. x # n
    BY <2>4, <2>5, NoLoop, UnderPresent
  <2>7. Sides(c, g) = {<<n, y>>, <<y, n>>}
    BY <2>2 DEF Sides
  <2>8. <<x, y>> \notin Sides(c, g)
    BY <2>6, <2>7
  <2> QED BY <1>1, <2>3, <2>4, <2>5, <2>8, GateUnder DEF Sinks
<1> QED BY <1>1, <1>2, <1>4, <1>5, <1>6, <1>7
  
\* The negation of g does not depend on the other gate that it replaces.
LEMMA XorPairSinks ==
  ASSUME NEW c, Good(c), Spare(c) >= 1, NEW g \in Gates(c), Is(c, g, "XOR"),
         NEW h \in Gates(c) \ {g}, c.op[h] = "XOR",
         \E s \in Sides(c, g), t \in Sides(c, h) :
           t[1] = s[1] /\ Is(c, t[2], "NOT") /\ F0(c, t[2]) = s[2],
         NEW m, m = NewGate(c, "NOT", g, NULL)
  PROVE  Sinks(c, h, m)
<1>1. c \in Circuit /\ WellFormed(c) /\ g \in Present(c) /\ h \in Present(c)
      /\ OpOf(c, g) \in BinOp /\ OpOf(c, h) \in BinOp
  BY View, Nodes DEF Good, Is, BinOp
<1>2. PICK s \in Sides(c, g), t \in Sides(c, h) :
        t[1] = s[1] /\ Is(c, t[2], "NOT") /\ F0(c, t[2]) = s[2]
  OBVIOUS
<1>3. PICK a, b, n : a = s[1] /\ b = s[2] /\ n = t[2]
  OBVIOUS
<1>4. Under(c, h, a) /\ Under(c, h, n) /\ OpOf(c, n) = "NOT" /\ F0(c, n) = b
  BY <1>1, <1>2, <1>3, FaninsUnder DEF Is
<1>5. Under(c, h, b)
  BY <1>4, FaninsUnder
<1>6. Under(c, h, g)
  <2>1. Sides(c, g) = {<<a, b>>, <<b, a>>}
    BY <1>3 DEF Sides
  <2>2. {F0(c, g), F1(c, g)} = {a, b}
    BY <1>3 DEF Sides
  <2>3. c.fanin[g][0] = F0(c, g) /\ c.fanin[g][1] = F1(c, g)
    BY <1>1, View
  <2>4. \A p \in Pin : Under(c, h, c.fanin[g][p])
    BY <1>4, <1>5, <2>2, <2>3 DEF Pin
  <2> QED BY <1>1, <2>4, UnderReader
<1>7. /\ m.c \in Circuit /\ WellFormed(m.c) /\ Keeps(c, m.c) /\ m.n \in Gates(m.c)
      /\ OpOf(m.c, m.n) = "NOT" /\ F0(m.c, m.n) = g
      /\ m.n \notin Gates(c) /\ Gates(m.c) = Gates(c) \cup {m.n}
  BY <1>1, NewGateGrows DEF Grown
<1>8. m.c.fanin[m.n][0] = g /\ m.c.fanin[m.n][1] = NULL
  <2>1. F0(m.c, m.n) = m.c.fanin[m.n][0] /\ F1(m.c, m.n) = m.c.fanin[m.n][1] /\ F1(m.c, m.n) = NULL
    BY <1>7, View, Nodes
  <2> QED BY <1>7, <2>1
<1>9. Acyclic(m.c)
  <2>1. \A p \in Pin : m.c.fanin[m.n][p] \in Present(c) \cup {NULL}
    BY <1>1, <1>8 DEF Pin
  <2> QED BY <1>7, <2>1, AddedAcyclic
<1>10. Under(m.c, h, m.n)
  <2>1. Under(m.c, h, g)
    BY <1>1, <1>6, <1>7, KeptUnder
  <2>2. \A p \in Pin : m.c.fanin[m.n][p] # NULL => Under(m.c, h, m.c.fanin[m.n][p])
    BY <1>8, <2>1 DEF Pin
  <2>3. m.n # h
    BY <1>7
  <2> QED BY <1>7, <2>2, <2>3, UnderReader
<1> QED BY <1>7, <1>9, <1>10 DEF Sinks, Good

\* The other gate of simplify11 may be replaced by the new NOT of g.
LEMMA XorPairRule ==
  ASSUME NEW c \in Circuit, WellFormed(c), Spare(c) >= 1, NEW g \in Gates(c), NEW e \in simplify11(c, g)
  PROVE  \E h \in Gates(c) \ {g} : \E m :
           e = ReplaceBy(m.c, h, m.n) /\ Replaces(c, h, m, 1) /\ (Good(c) => Sinks(c, h, m))
<1>1. PICK m : m = NewGate(c, "NOT", g, NULL)
  OBVIOUS
<1>2. PICK h \in Gates(c) \ {g} :
        /\ Is(c, g, "XOR") /\ c.op[h] = "XOR" /\ e = ReplaceBy(m.c, h, m.n)
        /\ \E s \in Sides(c, g), t \in Sides(c, h) :
             t[1] = s[1] /\ Is(c, t[2], "NOT") /\ F0(c, t[2]) = s[2]
  BY <1>1 DEF simplify11
<1>3. PICK s \in Sides(c, g), t \in Sides(c, h) :
        t[1] = s[1] /\ Is(c, t[2], "NOT") /\ F0(c, t[2]) = s[2]
  BY <1>2
<1>4. g \in Present(c) /\ h \in Present(c) /\ Is(c, h, "XOR") /\ "XOR" \in BinOp
  BY <1>2, View, Nodes DEF Is, BinOp
<1>5. t[2] \in Present(c) /\ \A V : Models(c, V) =>
        /\ True(V, g) <=> ~ (True(V, s[1]) <=> True(V, s[2]))
        /\ True(V, h) <=> ~ (True(V, t[1]) <=> True(V, t[2]))
  BY <1>2, <1>3, <1>4, SideOf DEF Is
<1>6. \A V : Models(c, V) => (True(V, h) <=> ~ True(V, g))
  BY <1>3, <1>5, Truth
<1>7. /\ Grown(c, m.c, 1) /\ m.n \in Gates(m.c)
      /\ OpOf(m.c, m.n) = "NOT" /\ F0(m.c, m.n) = g
  BY <1>1, <1>4, NewGateGrows
<1>8. m.c \in Circuit /\ WellFormed(m.c) /\ Keeps(c, m.c) /\ m.n \in Present(m.c)
  BY <1>7, Nodes DEF Grown
<1>9. ASSUME NEW V, Models(m.c, V) PROVE True(V, h) <=> True(V, m.n)
  <2>1. Models(c, V)
    BY <1>8, <1>9, KeptModels
  <2> QED BY <1>6, <1>7, <1>8, <1>9, <2>1, Truth DEF Is
<1>10. Replaces(c, h, m, 1)
  BY <1>7, <1>8, <1>9 DEF Replaces
<1>11. Good(c) => Sinks(c, h, m)
  BY <1>1, <1>2, XorPairSinks
<1> QED BY <1>2, <1>10, <1>11
=============================================================================
