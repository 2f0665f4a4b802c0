--------------------------- MODULE FrontEnd_proofs ---------------------------
(***************************************************************************)
(* Proofs about CircuitCreator, for every program: the literals that are   *)
(* folded have the value of the operation, the circuit computes what the   *)
(* program assigns, and nothing is converted twice.                        *)
(***************************************************************************)
EXTENDS CircuitCreator, InductionFacts, SequenceTheorems

----------------------------------------------------------------------------
(* The inductive invariant.                                                *)

BinOps   == {"AND", "OR", "XOR"}
Lits     == [var : Int, sign : BOOLEAN]
Below(v) == {l \in Lits : l.var \in 1 .. v - 1} \cup {True, False}
Inputs   == [DOMAIN InTypes -> BOOLEAN]

\* A node reads nodes that were made before it.
GraphOK ==
  /\ \E n \in 0 .. MaxNode : DOMAIN graph = 1 .. n
  /\ \A v \in DOMAIN graph :
       \/ graph[v].op = "input"
       \/ graph[v].op \in BinOps /\ graph[v].left \in Below(v) /\ graph[v].right \in Below(v)

\* The bits of the inputs are distinct variables of the graph.
Bit(k) == 0 .. Width(InTypes[k]) - 1
InputsOK ==
  /\ inLits \in Seq(UNION {[0 .. w - 1 -> Lits] : w \in Nat})
  /\ Len(inLits) <= Len(InTypes)
  /\ \A k \in DOMAIN inLits :
       /\ inLits[k] \in [Bit(k) -> Lits]
       /\ \A b \in Bit(k) : /\ inLits[k][b].var \in DOMAIN graph /\ ~ inLits[k][b].sign
                            /\ graph[inLits[k][b].var].op = "input"
  /\ \A k, j \in DOMAIN inLits : \A b \in Bit(k), c \in Bit(j) :
       inLits[k][b].var = inLits[j][c].var => k = j /\ b = c

PhaseOK ==
  /\ phase \in {"build", "inputs", "outputs", "done"}
  /\ next \in Nat \ {0}
  /\ phase = "build" => next = 1 /\ gates = << >> /\ outputs = << >> /\ map = << >> /\ calls = << >>
  /\ phase # "build" => Len(inLits) = Len(InTypes) /\ outLits \in [DOMAIN OutTypes -> Literal]
  /\ phase = "inputs" => /\ Len(gates) = next - 1 /\ next <= Len(InTypes) + 1
                         /\ outputs = << >> /\ calls = << >>
  /\ phase \in {"outputs", "done"} => Len(outputs) = next - 1 /\ next <= Len(OutTypes) + 1
  /\ phase = "done" => next = Len(OutTypes) + 1
  /\ calls # << >> => phase = "outputs" /\ next <= Len(OutTypes)

\* The gates that are complete: the others are being converted.
Finished == DOMAIN gates \ {calls[i].gate : i \in DOMAIN calls}
Sources  == {ONE, ZERO} \cup Finished
Arity(op) == CASE op = "INPUT" -> 0 [] op \in {"NOT", "OUTPUT"} -> 1 [] OTHER -> 2

GateRecord == [op : BinOps \cup {"INPUT", "NOT", "OUTPUT"}, fanins : Seq(Int)]
CallRecord == [lit : Lits, gate : Nat, todo : Seq(Lits)]

\* The gates F of the circuit gs can be put in an order in which none reads one
\* that comes later.
Ordered(F, gs) ==
  \A S \in SUBSET F : S # {} => \E g \in S : \A j \in DOMAIN gs[g].fanins : gs[g].fanins[j] \notin S

\* Only complete gates are read, and there is no cycle.
CircuitOK ==
  /\ gates \in Seq(GateRecord) /\ outputs \in Seq(Nat) /\ calls \in Seq(CallRecord)
  /\ map = [d \in DOMAIN map |-> map[d]] /\ DOMAIN map \subseteq Int
  /\ \A g \in DOMAIN gates : gates[g].op = "INPUT" => g \in DOMAIN InTypes
  /\ \A g \in Finished : Len(gates[g].fanins) = Arity(gates[g].op)
  /\ \A g \in DOMAIN gates : \A j \in DOMAIN gates[g].fanins : gates[g].fanins[j] \in Sources
  /\ \A d \in DOMAIN map : map[d] \in {ZERO} \cup Finished
  /\ \A k \in DOMAIN outputs : outputs[k] \in Finished
  /\ Ordered(Finished, gates)

\* The fanins fs that a gate has so far, and the literals of those to come.
Left(l)  == graph[l.var].left
Right(l) == graph[l.var].right
OneFanin(l, fs, todo) ==
  \/ Len(fs) = 0 /\ todo = <<l>>
  \/ Len(fs) = 1 /\ todo = << >>
TwoFanins(l, r, fs, todo) ==
  \/ Len(fs) = 0 /\ todo = <<l, r>>
  \/ Len(fs) = 1 /\ todo = <<r>>
  \/ Len(fs) = 2 /\ todo = << >>

\* The activation at the bottom is that of an OUTPUT gate, the others are those
\* of literals that the one below is waiting for.
Bottom(c) ==
  /\ gates[c.gate].op = "OUTPUT" /\ c.lit = outLits[next]
  /\ OneFanin(c.lit, gates[c.gate].fanins, c.todo)
  /\ c.todo = << >> => Constant(c.lit) \/ Mapped(c.lit)
Inner(c, below) ==
  /\ below.todo # << >> /\ c.lit = Head(below.todo) /\ ~ Constant(c.lit)
  /\ graph[c.lit.var].op \in BinOps /\ gates[c.gate].op = graph[c.lit.var].op
  /\ ~ Mapped(c.lit) /\ ~ Mapped(Not(c.lit))
  /\ TwoFanins(Left(c.lit), Right(c.lit), gates[c.gate].fanins, c.todo)
Activation(i) ==
  /\ calls[i].gate \in DOMAIN gates
  /\ \A j \in DOMAIN calls : j < i => calls[j].gate < calls[i].gate
  /\ \A j \in DOMAIN calls : 1 < j /\ j < i => calls[j].lit.var > calls[i].lit.var
  /\ i = 1 => Bottom(calls[i])
  /\ i > 1 => Inner(calls[i], calls[i - 1])
StackOK == \A i \in DOMAIN calls : calls[i].lit \in Literal /\ Activation(i)

\* W gives every variable of the graph, V every complete gate the value that
\* they have for the inputs in.
Of(W, l)  == IF Constant(l) THEN l.sign ELSE W[l.var] # l.sign
Pin(V, f) == IF f = ONE THEN TRUE ELSE IF f = ZERO THEN FALSE ELSE V[f]
ValuesOfGraph(in, W) ==
  /\ W \in [DOMAIN graph -> BOOLEAN]
  /\ \A v \in DOMAIN graph :
       graph[v].op # "input" => W[v] = Apply(graph[v].op, Of(W, graph[v].left), Of(W, graph[v].right))
  /\ \A k \in DOMAIN inLits : \A b \in Bit(k) : W[inLits[k][b].var] = (b = 0 /\ in[k])
ValueOfGate(in, V, g) ==
  LET f == gates[g].fanins
  IN  CASE gates[g].op = "INPUT"  -> in[g]
        [] gates[g].op = "NOT"    -> ~ Pin(V, f[1])
        [] gates[g].op = "OUTPUT" -> Pin(V, f[1])
        [] OTHER                  -> Apply(gates[g].op, Pin(V, f[1]), Pin(V, f[2]))
ValuesOfGates(in, V) ==
  V \in [Nat -> BOOLEAN] /\ \A g \in Finished : V[g] = ValueOfGate(in, V, g)

\* The map, the fanins of the open gates and the outputs have the values of the
\* literals they stand for.
MapRight(W, V) ==
  \A l \in Literal : ~ Constant(l) /\ Mapped(l) => Pin(V, map[Dimacs(l)]) = Of(W, l)
CallsRight(W, V) ==
  \A i \in DOMAIN calls :
    LET l == calls[i].lit  fanins == gates[calls[i].gate].fanins
    IN  /\ i = 1 /\ Len(fanins) = 1 => Pin(V, fanins[1]) = Of(W, l)
        /\ i > 1 /\ Len(fanins) >= 1 => Pin(V, fanins[1]) = Of(W, Left(l))
        /\ i > 1 /\ Len(fanins) = 2 => Pin(V, fanins[2]) = Of(W, Right(l))
OutputsRight(W, V) ==
  \A k \in DOMAIN outputs : V[outputs[k]] = Of(W, outLits[k])
Meaning ==
  \A in \in Inputs : \A W, V : ValuesOfGraph(in, W) /\ ValuesOfGates(in, V) =>
    MapRight(W, V) /\ CallsRight(W, V) /\ OutputsRight(W, V)

\* Which literal, by its number, a gate was made for: a NOT gate reads the gate
\* of the negation, and every literal has at most one.
MadeFor(of) ==
  /\ \A d \in DOMAIN map : map[d] \in DOMAIN gates => of[map[d]] = d
  /\ \A g \in DOMAIN gates : gates[g].op = "NOT" =>
       /\ of[g] \in DOMAIN map
       /\ gates[g].fanins[1] = ZERO \/ (gates[g].fanins[1] \in DOMAIN gates /\ of[gates[g].fanins[1]] = -of[g])
       /\ \A h \in DOMAIN gates : gates[h].op = "NOT" /\ of[g] = of[h] => g = h
NotsOK == \E of \in [Nat -> Int] : MadeFor(of)

\* The nodes that have a gate, one each.
BinaryGates == {g \in DOMAIN gates : gates[g].op \in BinOps}
OpenVars    == {calls[i].lit.var : i \in 2 .. Len(calls)}
Converted   == {v \in DOMAIN graph :
                  graph[v].op # "input" /\ (v \in DOMAIN map \/ -v \in DOMAIN map \/ v \in OpenVars)}
NodesOK == Cardinality(BinaryGates) <= Cardinality(Converted)

\* Without a _Bool among the outputs no OUTPUT gate is in the map.
NoBool == \A k \in DOMAIN OutTypes : OutTypes[k] # "bool"
MapOK ==
  NoBool =>
    /\ \A d \in DOMAIN map : map[d] \in DOMAIN gates => gates[map[d]].op # "OUTPUT"
    /\ OutputsAreNotRead

IInv == /\ GraphOK /\ InputsOK /\ PhaseOK /\ CircuitOK /\ StackOK
        /\ Meaning /\ NotsOK /\ NodesOK /\ MapOK

----------------------------------------------------------------------------
(* Literals and values.                                                    *)

\* The constants of the module.
LEMMA Bounds ==
  /\ CHAR_BIT \in Nat \ {0} /\ MaxNode \in Nat /\ ConstVar \in Nat \ {0} /\ MaxNode < ConstVar
  /\ InTypes \in Seq({"int", "bool"}) /\ OutTypes \in Seq({"int", "bool"})
<1>1. CHAR_BIT \in Nat \ {0} /\ InTypes \in Seq({"int", "bool"}) /\ OutTypes \in Seq({"int", "bool"})
  BY CreatorAssumption, SMT
<1>2. MaxNode \in Nat /\ ConstVar \in Nat \ {0} /\ MaxNode < ConstVar
  BY CreatorAssumption, SMT DEF ConstVar
<1> QED BY <1>1, <1>2

\* The variables of the graph are 1 up to the number of its nodes, and ConstVar
\* is none of them.
LEMMA Variables ==
  ASSUME GraphOK
  PROVE  \E n \in 0 .. MaxNode :
           /\ DOMAIN graph = 1 .. n /\ Cardinality(DOMAIN graph) = n /\ IsFiniteSet(DOMAIN graph)
           /\ NewVariable = n + 1 /\ n < ConstVar
           /\ Literal = {l \in Lits : l.var \in 1 .. n} \cup {True, False}
           /\ True \in Lits /\ False \in Lits
<1>1. PICK n \in 0 .. MaxNode : DOMAIN graph = 1 .. n
  BY DEF GraphOK
<1>2. n \in Nat /\ n < ConstVar
  BY Bounds
<1>3. Cardinality(DOMAIN graph) = n /\ IsFiniteSet(DOMAIN graph)
  BY <1>1, <1>2, FS_Interval
<1>4. True \in Lits /\ False \in Lits
  BY Bounds DEF True, False, Lits
<1>5. {[var |-> v, sign |-> s] : v \in DOMAIN graph, s \in BOOLEAN} = {l \in Lits : l.var \in 1 .. n}
  <2>1. ASSUME NEW v \in 1 .. n, NEW s \in BOOLEAN
        PROVE  [var |-> v, sign |-> s] \in Lits /\ [var |-> v, sign |-> s].var = v
    BY <1>2 DEF Lits
  <2>2. ASSUME NEW l \in Lits, l.var \in 1 .. n
        PROVE  \E v \in 1 .. n, s \in BOOLEAN : l = [var |-> v, sign |-> s]
    <3>1. l = [var |-> l.var, sign |-> l.sign] /\ l.sign \in BOOLEAN
      BY DEF Lits
    <3> QED BY <2>2, <3>1
  <2> QED BY <1>1, <2>1, <2>2
<1> QED BY <1>1, <1>2, <1>3, <1>4, <1>5 DEF Literal, NewVariable, FirstVariable

\* A literal is a constant or has a variable of the graph.
LEMMA Literals ==
  ASSUME GraphOK, NEW l \in Literal
  PROVE  /\ l \in Lits /\ l.var \in Int /\ l.sign \in BOOLEAN
         /\ Constant(l) => l \in {True, False}
         /\ ~ Constant(l) => l.var \in DOMAIN graph /\ l.var \in Nat /\ l.var > 0 /\ l.var < ConstVar
         /\ Not(l) \in Literal /\ Not(l).var = l.var /\ Not(l).sign = ~ l.sign
         /\ Not(Not(l)) = l /\ (Constant(l) <=> Constant(Not(l)))
         /\ Dimacs(l) \in Int /\ Dimacs(Not(l)) = -Dimacs(l)
<1>1. PICK n \in 0 .. MaxNode :
           /\ DOMAIN graph = 1 .. n /\ n < ConstVar
           /\ Literal = {m \in Lits : m.var \in 1 .. n} \cup {True, False}
           /\ True \in Lits /\ False \in Lits
  BY Variables
<1>2. l \in Lits /\ l.var \in Int /\ l.sign \in BOOLEAN
  BY <1>1 DEF Lits
<1>3. \A m \in Lits : m.var = ConstVar => m \in {True, False}
  BY DEF True, False, Lits
<1>4. ~ Constant(l) => l.var \in 1 .. n
  BY <1>1 DEF Constant, True, False
<1>5. /\ Not(l) \in Lits /\ Not(l).var = l.var /\ Not(l).sign = ~ l.sign /\ Not(Not(l)) = l
  BY <1>2 DEF Not, Lits
<1>6. Not(l) \in Literal
  <2>1. CASE l.var \in 1 .. n
    BY <1>1, <1>5, <2>1
  <2>2. CASE l \in {True, False}
    <3>1. Not(l).var = ConstVar
      BY <1>5, <2>2 DEF True, False
    <3>2. Not(l) \in {True, False}
      BY <1>3, <1>5, <3>1
    <3> QED BY <1>1, <3>2
  <2> QED BY <1>1, <2>1, <2>2
<1>7. Constant(l) <=> Constant(Not(l))
  BY <1>5 DEF Constant
<1>8. Dimacs(l) \in Int /\ Dimacs(Not(l)) = -Dimacs(l)
  <2>1. \A m : (m.sign = TRUE => Dimacs(m) = -m.var) /\ (m.sign = FALSE => Dimacs(m) = m.var)
    BY DEF Dimacs
  <2>2. CASE l.sign
    <3>1. l.sign = TRUE /\ Not(l).sign = FALSE
      BY <1>2, <1>5, <2>2
    <3> QED BY <1>2, <1>5, <2>1, <3>1
  <2>3. CASE ~ l.sign
    <3>1. l.sign = FALSE /\ Not(l).sign = TRUE
      BY <1>2, <1>5, <2>3
    <3> QED BY <1>2, <1>5, <2>1, <3>1
  <2> QED BY <2>2, <2>3
<1>9. Constant(l) => l \in {True, False}
  BY <1>2, <1>3 DEF Constant
<1>10. ~ Constant(l) => l.var \in DOMAIN graph /\ l.var \in Nat /\ l.var > 0 /\ l.var < ConstVar
  BY <1>1, <1>4, Bounds
<1> QED BY <1>2, <1>5, <1>6, <1>7, <1>8, <1>9, <1>10

\* dimacs() gives different literals different numbers.
LEMMA DimacsInjective ==
  ASSUME GraphOK, NEW l \in Literal, NEW m \in Literal, ~ Constant(l), Dimacs(l) = Dimacs(m)
  PROVE  l = m
<1>1. /\ l \in Lits /\ m \in Lits /\ l.var \in Nat /\ l.var > 0
      /\ m.var \in Nat /\ m.var > 0 /\ l.sign \in BOOLEAN /\ m.sign \in BOOLEAN
  <2>1. Constant(m) => m.var \in Nat /\ m.var > 0
    BY Bounds DEF Constant
  <2> QED BY <2>1, Literals
<1>2. l.sign = m.sign /\ l.var = m.var
  <2>1. \A k : (k.sign = TRUE => Dimacs(k) = -k.var) /\ (k.sign = FALSE => Dimacs(k) = k.var)
    BY DEF Dimacs
  <2>2. CASE l.sign = TRUE
    <3>1. m.sign = TRUE
      BY <1>1, <2>1, <2>2
    <3> QED BY <1>1, <2>1, <2>2, <3>1
  <2>3. CASE l.sign = FALSE
    <3>1. m.sign = FALSE
      BY <1>1, <2>1, <2>3
    <3> QED BY <1>1, <2>1, <2>3, <3>1
  <2> QED BY <1>1, <2>2, <2>3
<1> QED BY <1>1, <1>2 DEF Lits

\* The literals that a node reads, and what a literal below it is.
LEMMA Fanins ==
  ASSUME GraphOK, NEW v \in DOMAIN graph, graph[v].op # "input"
  PROVE  /\ graph[v].op \in BinOps
         /\ \A l \in {graph[v].left, graph[v].right} :
              l \in Literal /\ (~ Constant(l) => l.var < v)
<1>1. PICK n \in 0 .. MaxNode :
           /\ DOMAIN graph = 1 .. n /\ n < ConstVar
           /\ Literal = {m \in Lits : m.var \in 1 .. n} \cup {True, False}
  BY Variables
<1>2. graph[v].op \in BinOps /\ graph[v].left \in Below(v) /\ graph[v].right \in Below(v)
  BY DEF GraphOK
<1>3. ASSUME NEW l \in Below(v) PROVE l \in Literal /\ (~ Constant(l) => l.var < v)
  <2>1. CASE l \in {True, False}
    BY <1>1, <2>1 DEF Constant, True, False
  <2>2. CASE l \in Lits /\ l.var \in 1 .. v - 1
    BY <1>1, <2>2
  <2> QED BY <2>1, <2>2 DEF Below
<1> QED BY <1>2, <1>3

\* The value of a literal is a Boolean, and that of its negation the other one.
LEMMA Values ==
  ASSUME GraphOK, NEW W \in [DOMAIN graph -> BOOLEAN], NEW l \in Literal
  PROVE  Of(W, l) \in BOOLEAN /\ Of(W, Not(l)) = ~ Of(W, l)
<1>1. CASE Constant(l)
  <2>1. l.sign \in BOOLEAN /\ Not(l).sign = ~ l.sign /\ Constant(Not(l))
    BY <1>1, Literals
  <2>2. Of(W, l) = l.sign /\ Of(W, Not(l)) = Not(l).sign
    BY <1>1, <2>1 DEF Of
  <2> QED BY <2>1, <2>2
<1>2. CASE ~ Constant(l)
  <2>1. l.var \in DOMAIN graph /\ W[l.var] \in BOOLEAN /\ l.sign \in BOOLEAN
    BY <1>2, Literals
  <2>2. Of(W, l) = (W[l.var] # l.sign) /\ Of(W, Not(l)) = (W[l.var] # ~ l.sign)
    BY <1>2, Literals DEF Of
  <2> QED BY <2>1, <2>2
<1> QED BY <1>1, <1>2

\* What an operation computes is a Boolean.
LEMMA Applied ==
  ASSUME NEW op \in BinOps, NEW x \in BOOLEAN, NEW y \in BOOLEAN
  PROVE  Apply(op, x, y) \in BOOLEAN
BY DEF Apply, BinOps

\* VarValue gives the variables the values that the operations compute.
LEMMA GraphHasValues ==
  ASSUME GraphOK, InputsOK, NEW in \in Inputs
  PROVE  ValuesOfGraph(in, VarValue(in)) /\ \A l : LitValue(in, l) = Of(VarValue(in), l)
<1> DEFINE First(n) == \E k \in DOMAIN inLits : n = inLits[k][0].var
           Key(n)   == CHOOSE k \in DOMAIN inLits : n = inLits[k][0].var
           Expr(V, n) == IF graph[n].op = "input" THEN First(n) /\ in[Key(n)]
                         ELSE Apply(graph[n].op, Of(V, graph[n].left), Of(V, graph[n].right))
           N    == DOMAIN graph
           deps == [n \in N |-> {m \in N : m < n}]
           step == [n \in N |-> [V \in [N -> BOOLEAN] |-> Expr(V, n)]]
<1>1. VarValue(in) = CHOOSE V : V = [n \in N |-> Expr(V, n)]
  BY DEF VarValue, Of
<1>2. IsFiniteSet(N) /\ N \subseteq Nat
  BY Variables
<1>3. DOMAIN inLits = 1 .. Len(inLits) /\ DOMAIN inLits \subseteq DOMAIN InTypes
  BY Bounds DEF InputsOK
<1>4. \A k \in DOMAIN inLits : 0 \in Bit(k)
  BY <1>3, Bounds DEF Bit, Width
<1>5. ASSUME NEW n \in N, First(n) PROVE Key(n) \in DOMAIN inLits /\ n = inLits[Key(n)][0].var
  BY <1>5
<1>6. ASSUME NEW V, NEW n \in N, \A m \in N : m < n => V[m] \in BOOLEAN PROVE Expr(V, n) \in BOOLEAN
  <2>1. CASE graph[n].op = "input" /\ First(n)
    <3>1. in[Key(n)] \in BOOLEAN
      BY <1>3, <1>5, <2>1 DEF Inputs
    <3> HIDE DEF Key
    <3> QED BY <2>1, <3>1
  <2>2. CASE graph[n].op = "input" /\ ~ First(n)
    BY <2>2
  <2>3. CASE graph[n].op # "input"
    <3>1. ASSUME NEW l \in {graph[n].left, graph[n].right} PROVE Of(V, l) \in BOOLEAN
      <4>1. /\ l \in Literal /\ l.sign \in BOOLEAN
            /\ ~ Constant(l) => l.var \in N /\ l.var < n
        BY <2>3, Fanins, Literals
      <4>2. ~ Constant(l) => V[l.var] \in BOOLEAN
        BY <1>6, <4>1
      <4> QED BY <4>1, <4>2 DEF Of
    <3>2. graph[n].op \in BinOps
      BY <2>3, Fanins
    <3> QED BY <2>3, <3>1, <3>2, Applied
  <2> QED BY <2>1, <2>2, <2>3
<1>7. ASSUME NEW n \in N, NEW V \in [N -> BOOLEAN], NEW U \in [N -> BOOLEAN],
             \A m \in deps[n] : V[m] = U[m]
      PROVE  Expr(V, n) = Expr(U, n)
  <2>1. CASE graph[n].op = "input"
    BY <2>1
  <2>2. CASE graph[n].op # "input"
    <3>1. ASSUME NEW l \in {graph[n].left, graph[n].right} PROVE Of(V, l) = Of(U, l)
      <4>1. l \in Literal /\ (~ Constant(l) => l.var < n)
        BY <2>2, Fanins
      <4>2. ~ Constant(l) => l.var \in deps[n]
        BY <4>1, Literals
      <4> QED BY <1>7, <4>2 DEF Of
    <3> QED BY <2>2, <3>1
  <2> QED BY <2>1, <2>2
<1>8. PICK V \in [N -> BOOLEAN] : \A n \in N : V[n] = step[n][V]
  <2>1. deps \in [N -> SUBSET N]
    OBVIOUS
  <2>2. ASSUME NEW S \in SUBSET N, S # {} PROVE \E n \in S : deps[n] \cap S = {}
    <3>1. PICK n \in S : \A m \in S : n <= m
      BY <1>2, <2>2, Least
    <3>2. deps[n] \cap S = {}
      BY <1>2, <3>1
    <3> QED BY <3>2
  <2>3. \A n \in N : \A V \in [N -> BOOLEAN] : step[n][V] = Expr(V, n)
    OBVIOUS
  <2> HIDE DEF N, deps, step, Expr
  <2>4. Founded(N, deps)
    BY <2>1, <2>2 DEF Founded
  <2>5. Local(N, deps, step)
    <3>1. \A V \in [N -> BOOLEAN] : \A m \in N : V[m] \in BOOLEAN
      OBVIOUS
    <3>2. \A n \in N : \A V \in [N -> BOOLEAN] : step[n][V] \in BOOLEAN
      BY <1>6, <2>3, <3>1
    <3>3. \A n \in N : \A V, U \in [N -> BOOLEAN] :
            (\A m \in deps[n] : V[m] = U[m]) => step[n][V] = step[n][U]
      BY <1>7, <2>3
    <3> QED BY <3>2, <3>3 DEF Local
  <2>6. IsFiniteSet(N)
    BY <1>2
  <2> QED BY <2>4, <2>5, <2>6, Solution
<1>9. V = [n \in N |-> Expr(V, n)]
  <2>1. \A n \in N : V[n] = Expr(V, n)
    BY <1>8
  <2> HIDE DEF N, Expr
  <2> QED BY <2>1
<1> DEFINE W == VarValue(in)
<1>10. W = [n \in N |-> Expr(W, n)]
  <2> HIDE DEF N, Expr
  <2> QED BY <1>1, <1>9
<1>11. \A n \in N : W[n] = Expr(W, n)
  <2> HIDE DEF N, Expr, W
  <2> QED BY <1>10
<1>12. W \in [N -> BOOLEAN]
  <2> DEFINE Odd == {n \in N : W[n] \notin BOOLEAN}
  <2>1. Odd = {}
    <3> SUFFICES ASSUME Odd # {} PROVE FALSE
      OBVIOUS
    <3>1. PICK n \in Odd : \A m \in Odd : n <= m
      <4>1. Odd \in SUBSET Nat
        BY <1>2
      <4> HIDE DEF Odd
      <4> QED BY <4>1, Least
    <3> HIDE DEF W, Expr
    <3>2. \A m \in N : m < n => W[m] \in BOOLEAN
      BY <1>2, <3>1
    <3>3. Expr(W, n) \in BOOLEAN
      BY <1>6, <3>1, <3>2
    <3> QED BY <1>11, <3>1, <3>3
  <2>2. \A n \in N : W[n] \in BOOLEAN
    BY <2>1
  <2> HIDE DEF N, Expr, W
  <2> QED BY <1>10, <2>2
<1>13. ASSUME NEW v \in DOMAIN graph, graph[v].op # "input"
       PROVE  W[v] = Apply(graph[v].op, Of(W, graph[v].left), Of(W, graph[v].right))
  <2>1. W[v] = Expr(W, v)
    BY <1>11
  <2> HIDE DEF W
  <2> QED BY <1>13, <2>1
<1>14. ASSUME NEW k \in DOMAIN inLits, NEW b \in Bit(k)
       PROVE  W[inLits[k][b].var] = (b = 0 /\ in[k])
  <2> DEFINE v == inLits[k][b].var
  <2>1. v \in N /\ graph[v].op = "input"
    BY DEF InputsOK
  <2>2. W[v] = (First(v) /\ in[Key(v)])
    <3>1. W[v] = Expr(W, v)
      BY <1>11, <2>1
    <3> HIDE DEF W, First, Key, v
    <3> QED BY <2>1, <3>1
  <2>3. \A j \in DOMAIN inLits : v = inLits[j][0].var => j = k /\ b = 0
    BY <1>4 DEF InputsOK
  <2>4. CASE b = 0
    <3>1. First(v)
      BY <2>4
    <3>2. Key(v) = k
      BY <1>5, <2>1, <2>3, <3>1
    <3> HIDE DEF W, Key, First, v
    <3>3. in[k] \in BOOLEAN
      BY <1>3 DEF Inputs
    <3> QED BY <2>2, <2>4, <3>1, <3>2, <3>3 DEF v
  <2>5. CASE b # 0
    <3>1. ~ First(v)
      BY <2>3, <2>5
    <3> HIDE DEF W, Key, First
    <3> QED BY <2>2, <2>5, <3>1
  <2> QED BY <2>4, <2>5
<1>15. \A l : LitValue(in, l) = Of(VarValue(in), l)
  BY DEF LitValue, Of
<1> QED BY <1>12, <1>13, <1>14, <1>15 DEF ValuesOfGraph

\* land(), lor() and lxor(): the literal that an operation is folded to has the
\* value of the operation.
LEMMA Folded ==
  ASSUME GraphOK, NEW W \in [DOMAIN graph -> BOOLEAN], NEW op \in BinOps,
         NEW x \in Literal, NEW y \in Literal, NEW l \in Fold(op, x, y)
  PROVE  l \in Literal /\ Of(W, l) = Apply(op, Of(W, x), Of(W, y))
<1>1. /\ Of(W, x) \in BOOLEAN /\ Of(W, y) \in BOOLEAN
      /\ Of(W, Not(x)) = ~ Of(W, x) /\ Of(W, Not(y)) = ~ Of(W, y)
      /\ Not(x) \in Literal /\ Not(y) \in Literal
  BY Values, Literals
<1>2. /\ True \in Literal /\ False \in Literal
      /\ Of(W, True) = TRUE /\ Of(W, False) = FALSE
  BY DEF Of, Constant, True, False, Literal
<1>3. /\ Constant(x) => x \in {True, False}
      /\ Constant(y) => y \in {True, False}
  BY Literals
<1>4. CASE op = "AND"
  <2>1. \/ (x = False \/ y = False) /\ l = False
        \/ x = True /\ l = y
        \/ y = True /\ l = x
        \/ x = y /\ l = x
        \/ x = Not(y) /\ l = False
    BY <1>4 DEF Fold, FoldAnd
  <2>2. Apply(op, Of(W, x), Of(W, y)) = (Of(W, x) /\ Of(W, y))
    BY <1>4 DEF Apply
  <2> QED BY <1>1, <1>2, <2>1, <2>2
<1>5. CASE op = "OR"
  <2>1. \/ (x = True \/ y = True) /\ l = True
        \/ x = False /\ l = y
        \/ y = False /\ l = x
        \/ x = y /\ l = x
        \/ x = Not(y) /\ l = True
    BY <1>5 DEF Fold, FoldOr
  <2>2. Apply(op, Of(W, x), Of(W, y)) = (Of(W, x) \/ Of(W, y))
    BY <1>5 DEF Apply
  <2> QED BY <1>1, <1>2, <2>1, <2>2
<1>6. CASE op = "XOR"
  <2>1. \/ Constant(y) /\ l = (IF y = True THEN Not(x) ELSE x)
        \/ Constant(x) /\ l = (IF x = True THEN Not(y) ELSE y)
        \/ x = y /\ l = False
        \/ x = Not(y) /\ l = True
    BY <1>6 DEF Fold, FoldXor
  <2>2. Apply(op, Of(W, x), Of(W, y)) = (Of(W, x) # Of(W, y))
    BY <1>6 DEF Apply
  <2>3. \/ y = True /\ l = Not(x)
        \/ y = False /\ l = x
        \/ x = True /\ l = Not(y)
        \/ x = False /\ l = y
        \/ x = y /\ l = False
        \/ x = Not(y) /\ l = True
    BY <1>3, <2>1
  <2> QED BY <1>1, <1>2, <2>2, <2>3
<1> QED BY <1>4, <1>5, <1>6 DEF BinOps

LEMMA FoldingFollows ==
  ASSUME GraphOK, InputsOK
  PROVE  FoldingIsRight
<1> SUFFICES ASSUME NEW op \in BinOps, NEW x \in Literal, NEW y \in Literal, NEW in \in Inputs,
                    NEW l \in Fold(op, x, y)
             PROVE  LitValue(in, l) = Apply(op, LitValue(in, x), LitValue(in, y))
  BY DEF FoldingIsRight, BinOps, Inputs
<1> DEFINE W == VarValue(in)
<1>1. W \in [DOMAIN graph -> BOOLEAN] /\ \A m : LitValue(in, m) = Of(W, m)
  BY GraphHasValues DEF ValuesOfGraph
<1> HIDE DEF W
<1>2. Of(W, l) = Apply(op, Of(W, x), Of(W, y))
  BY <1>1, Folded
<1> QED BY <1>1, <1>2

\* GateValue gives every gate of a circuit without open gates the value that its
\* fanins make.
LEMMA GatesHaveValues ==
  ASSUME CircuitOK, calls = << >>, NEW in \in Inputs
  PROVE  \E V : ValuesOfGates(in, V) /\ \A g \in DOMAIN gates : V[g] = GateValue(in)[g]
<1> DEFINE N == DOMAIN gates
           Reads(g) == {f \in N : \E j \in DOMAIN gates[g].fanins : gates[g].fanins[j] = f}
           C(V, f) == CASE f = ONE -> TRUE [] f = ZERO -> FALSE [] OTHER -> V[f]
           Expr(V, g) == CASE gates[g].op = "INPUT"  -> in[g]
                           [] gates[g].op = "NOT"    -> ~ C(V, gates[g].fanins[1])
                           [] gates[g].op = "OUTPUT" -> C(V, gates[g].fanins[1])
                           [] OTHER -> Apply(gates[g].op, C(V, gates[g].fanins[1]), C(V, gates[g].fanins[2]))
           deps == [g \in N |-> Reads(g)]
           step == [g \in N |-> [V \in [N -> BOOLEAN] |-> Expr(V, g)]]
<1>1. GateValue(in) = CHOOSE V : V = [g \in N |-> Expr(V, g)]
  BY DEF GateValue
<1>2. /\ N = 1 .. Len(gates) /\ Len(gates) \in Nat /\ IsFiniteSet(N)
      /\ Finished = N /\ Sources = {ONE, ZERO} \cup N /\ ONE \notin N /\ ZERO \notin N
  <2>1. N = 1 .. Len(gates) /\ Len(gates) \in Nat
    BY DEF CircuitOK
  <2>2. Finished = N
    <3>1. DOMAIN calls = {}
      OBVIOUS
    <3> QED BY <3>1 DEF Finished
  <2>3. IsFiniteSet(1 .. Len(gates))
    BY <2>1, FS_Interval
  <2>4. ONE \notin N /\ ZERO \notin N
    BY <2>1 DEF ONE, ZERO
  <2> HIDE DEF N
  <2> QED BY <2>1, <2>2, <2>3, <2>4 DEF Sources
<1>3. ASSUME NEW V, NEW f PROVE C(V, f) = Pin(V, f)
  <2>1. ONE # ZERO
    BY DEF ONE, ZERO
  <2>2. CASE f = ONE
    BY <2>1, <2>2 DEF Pin
  <2>3. CASE f = ZERO
    BY <2>1, <2>3 DEF Pin
  <2>4. CASE f # ONE /\ f # ZERO
    BY <2>4 DEF Pin
  <2> QED BY <2>2, <2>3, <2>4
<1>4. \A V : \A g \in N : Expr(V, g) = ValueOfGate(in, V, g)
  BY <1>3 DEF ValueOfGate
<1> HIDE DEF Expr, C
\* What the pins of a gate are.
<1>5. ASSUME NEW g \in N
      PROVE  /\ gates[g].op \in BinOps \cup {"INPUT", "NOT", "OUTPUT"}
             /\ gates[g].op = "INPUT" => in[g] \in BOOLEAN
             /\ gates[g].op # "INPUT" => gates[g].fanins[1] \in {ONE, ZERO} \cup Reads(g)
             /\ gates[g].op \in BinOps => gates[g].fanins[2] \in {ONE, ZERO} \cup Reads(g)
  <2>1. gates[g] \in GateRecord
    BY DEF CircuitOK
  <2>2. /\ gates[g].op \in BinOps \cup {"INPUT", "NOT", "OUTPUT"} /\ gates[g].fanins \in Seq(Int)
        /\ Len(gates[g].fanins) = Arity(gates[g].op)
    BY <1>2, <2>1 DEF CircuitOK, GateRecord
  <2>3. gates[g].op = "INPUT" => in[g] \in BOOLEAN
    BY DEF CircuitOK, Inputs
  <2>4. DOMAIN gates[g].fanins = 1 .. Arity(gates[g].op)
    BY <2>2
  <2>5. /\ gates[g].op # "INPUT" => 1 \in DOMAIN gates[g].fanins
        /\ gates[g].op \in BinOps => 2 \in DOMAIN gates[g].fanins
    BY <2>2, <2>4 DEF Arity, BinOps
  <2>6. \A j \in DOMAIN gates[g].fanins : gates[g].fanins[j] \in {ONE, ZERO} \cup Reads(g)
    BY <1>2 DEF CircuitOK
  <2> QED BY <2>2, <2>3, <2>5, <2>6
<1> HIDE DEF Reads
<1>6. ASSUME NEW V, NEW g \in N, \A f \in Reads(g) : V[f] \in BOOLEAN
      PROVE  Expr(V, g) \in BOOLEAN
  <2>1. /\ gates[g].op # "INPUT" => Pin(V, gates[g].fanins[1]) \in BOOLEAN
        /\ gates[g].op \in BinOps => Pin(V, gates[g].fanins[2]) \in BOOLEAN
    BY <1>5, <1>6 DEF Pin
  <2>2. CASE gates[g].op = "INPUT"
    BY <1>4, <1>5, <2>2 DEF ValueOfGate
  <2>3. CASE gates[g].op = "NOT"
    BY <1>4, <2>1, <2>3 DEF ValueOfGate
  <2>4. CASE gates[g].op = "OUTPUT"
    BY <1>4, <2>1, <2>4 DEF ValueOfGate
  <2>5. CASE gates[g].op \in BinOps
    <3>1. ValueOfGate(in, V, g) = Apply(gates[g].op, Pin(V, gates[g].fanins[1]), Pin(V, gates[g].fanins[2]))
      BY <2>5 DEF ValueOfGate, BinOps
    <3>2. gates[g].op # "INPUT"
      BY <2>5 DEF BinOps
    <3> QED BY <1>4, <2>1, <2>5, <3>1, <3>2, Applied
  <2> QED BY <1>5, <2>2, <2>3, <2>4, <2>5
<1>7. ASSUME NEW g \in N, NEW V, NEW U, \A f \in Reads(g) : V[f] = U[f]
      PROVE  Expr(V, g) = Expr(U, g)
  <2>1. /\ gates[g].op # "INPUT" => Pin(V, gates[g].fanins[1]) = Pin(U, gates[g].fanins[1])
        /\ gates[g].op \in BinOps => Pin(V, gates[g].fanins[2]) = Pin(U, gates[g].fanins[2])
    BY <1>5, <1>7 DEF Pin
  <2>2. gates[g].op \in {"INPUT", "NOT", "OUTPUT"} \/ gates[g].op \in BinOps
    BY <1>5
  <2>3. ValueOfGate(in, V, g) = ValueOfGate(in, U, g)
    BY <2>1, <2>2 DEF ValueOfGate
  <2> QED BY <1>4, <2>3
<1>8. Founded(N, deps)
  <2>1. ASSUME NEW S \in SUBSET N, S # {} PROVE \E g \in S : Reads(g) \cap S = {}
    <3>1. PICK g \in S : \A j \in DOMAIN gates[g].fanins : gates[g].fanins[j] \notin S
      BY <1>2, <2>1 DEF CircuitOK, Ordered
    <3>2. Reads(g) \cap S = {}
      BY <3>1 DEF Reads
    <3> QED BY <3>2
  <2>2. \A g \in N : Reads(g) \in SUBSET N
    BY DEF Reads
  <2>3. deps \in [N -> SUBSET N] /\ \A g \in N : deps[g] = Reads(g)
    BY <2>2
  <2>4. \A S \in SUBSET N : S # {} => \E g \in S : deps[g] \cap S = {}
    <3> HIDE DEF deps
    <3> QED BY <2>1, <2>3
  <2> QED BY <2>3, <2>4 DEF Founded
<1>9. Local(N, deps, step)
  <2>1. /\ \A g \in N : \A V \in [N -> BOOLEAN] : step[g][V] = Expr(V, g)
        /\ \A g \in N : deps[g] = Reads(g) /\ Reads(g) \subseteq N
    BY DEF Reads
  <2> HIDE DEF deps, step, N
  <2>2. \A g \in N : \A V \in [N -> BOOLEAN] : step[g][V] \in BOOLEAN
    <3>1. \A V \in [N -> BOOLEAN] : \A m \in N : V[m] \in BOOLEAN
      OBVIOUS
    <3> QED BY <1>6, <2>1, <3>1
  <2>3. \A g \in N : \A V, U \in [N -> BOOLEAN] :
          (\A m \in deps[g] : V[m] = U[m]) => step[g][V] = step[g][U]
    BY <1>7, <2>1
  <2> QED BY <2>2, <2>3 DEF Local
<1>10. PICK Y \in [N -> BOOLEAN] : \A g \in N : Y[g] = step[g][Y]
  <2>1. IsFiniteSet(N)
    BY <1>2
  <2> HIDE DEF N, deps, step
  <2> QED BY <1>8, <1>9, <2>1, Solution
<1>11. Y = [g \in N |-> Expr(Y, g)]
  <2>1. \A g \in N : Y[g] = Expr(Y, g)
    BY <1>10
  <2> HIDE DEF N
  <2> QED BY <2>1
<1> DEFINE X == GateValue(in)
<1>12. X = [g \in N |-> Expr(X, g)]
  BY <1>1, <1>11
<1>13. \A g \in N : X[g] = Expr(X, g)
  <2> HIDE DEF N, X
  <2> QED BY <1>12
<1>14. \A g \in N : X[g] \in BOOLEAN
  <2> DEFINE Odd == {g \in N : X[g] \notin BOOLEAN}
  <2> SUFFICES ASSUME Odd # {} PROVE FALSE
    OBVIOUS
  <2>1. PICK g \in Odd : \A j \in DOMAIN gates[g].fanins : gates[g].fanins[j] \notin Odd
    <3>1. Odd \in SUBSET Finished
      BY <1>2
    <3>2. \A S \in SUBSET Finished : S # {} =>
            \E g \in S : \A j \in DOMAIN gates[g].fanins : gates[g].fanins[j] \notin S
      BY DEF CircuitOK, Ordered
    <3> HIDE DEF Odd
    <3> QED BY <3>1, <3>2
  <2> HIDE DEF X
  <2>2. \A f \in Reads(g) : X[f] \in BOOLEAN
    BY <2>1 DEF Reads
  <2> QED BY <1>6, <1>13, <2>1, <2>2
<1> DEFINE V == [n \in Nat |-> IF n \in N THEN X[n] ELSE FALSE]
<1>15. V \in [Nat -> BOOLEAN] /\ \A g \in N : V[g] = X[g]
  <2>1. N \subseteq Nat
    BY <1>2
  <2> HIDE DEF N, X
  <2> QED BY <1>14, <2>1
<1> HIDE DEF V, X
<1>16. ASSUME NEW g \in N PROVE V[g] = ValueOfGate(in, V, g)
  <2>1. \A f \in Reads(g) : V[f] = X[f]
    BY <1>15 DEF Reads
  <2> QED BY <1>4, <1>7, <1>13, <1>15, <2>1
<1>17. ValuesOfGates(in, V)
  BY <1>2, <1>15, <1>16 DEF ValuesOfGates
<1> QED BY <1>15, <1>17 DEF X

----------------------------------------------------------------------------
(* The program is built.                                                   *)

\* The types of the inputs and their widths.
LEMMA Widths ==
  /\ DOMAIN InTypes = 1 .. Len(InTypes) /\ Len(InTypes) \in Nat
  /\ DOMAIN OutTypes = 1 .. Len(OutTypes) /\ Len(OutTypes) \in Nat
  /\ \A type : Width(type) \in Nat \ {0}
BY Bounds DEF Width

\* A variable is added, or more than one: those there were are as they were.
LEMMA GraphGrows ==
  ASSUME GraphOK, InputsOK, phase = "build", DeclareInput \/ Operation
  PROVE  GraphOK' /\ \A v \in DOMAIN graph : v \in DOMAIN graph' /\ graph'[v] = graph[v]
<1>1. PICK n \in 0 .. MaxNode :
           /\ DOMAIN graph = 1 .. n /\ Cardinality(DOMAIN graph) = n
           /\ NewVariable = n + 1
           /\ Literal = {l \in Lits : l.var \in 1 .. n} \cup {True, False}
  BY Variables
<1>2. n \in Nat /\ MaxNode \in Nat
  BY Bounds
<1>3. CASE DeclareInput
  <2> DEFINE w == Width(InTypes[Len(inLits) + 1])
  <2>1. w \in Nat \ {0} /\ n + w <= MaxNode
    BY <1>1, <1>3, Widths DEF DeclareInput
  <2> HIDE DEF w
  <2>2. graph' = [v \in DOMAIN graph \cup n + 1 .. n + 1 + w - 1 |->
                    IF v \in DOMAIN graph THEN graph[v] ELSE [op |-> "input"]]
    BY <1>1, <1>3 DEF DeclareInput, w
  <2>3. DOMAIN graph' = 1 .. n + w
    BY <1>1, <1>2, <2>1, <2>2
  <2>4. \A v \in DOMAIN graph : v \in DOMAIN graph' /\ graph'[v] = graph[v]
    BY <2>2
  <2>5. \A v \in DOMAIN graph' : v \notin DOMAIN graph => graph'[v].op = "input"
    BY <2>2
  <2>6. \E k \in 0 .. MaxNode : DOMAIN graph' = 1 .. k
    BY <1>2, <2>1, <2>3
  <2> QED BY <2>4, <2>5, <2>6 DEF GraphOK
<1>4. CASE Operation
  <2>1. n < MaxNode
    BY <1>1, <1>4 DEF Operation
  <2>2. PICK op \in BinOps, x \in Literal, y \in Literal : graph' = Made(op, x, y)
    BY <1>4 DEF Operation, BinOps
  <2>3. CASE graph' = graph
    BY <2>3 DEF GraphOK
  <2>4. CASE graph' = [v \in DOMAIN graph \cup {n + 1} |->
                         IF v = n + 1 THEN [op |-> op, left |-> x, right |-> y] ELSE graph[v]]
    <3>1. DOMAIN graph' = 1 .. n + 1 /\ n + 1 \in 0 .. MaxNode
      BY <1>1, <1>2, <2>1, <2>4
    <3>2. \A v \in DOMAIN graph : v \in DOMAIN graph' /\ graph'[v] = graph[v]
      BY <1>1, <1>2, <2>4
    <3>3. graph'[n + 1] = [op |-> op, left |-> x, right |-> y]
      BY <2>4
    <3>4. x \in Below(n + 1) /\ y \in Below(n + 1)
      BY <1>1, <1>2 DEF Below
    <3>5. \A v \in DOMAIN graph' : v \in DOMAIN graph \/ v = n + 1
      BY <2>4
    <3>6. \E k \in 0 .. MaxNode : DOMAIN graph' = 1 .. k
      BY <3>1
    <3> QED BY <3>2, <3>3, <3>4, <3>5, <3>6 DEF GraphOK
  <2>5. Fold(op, x, y) # {} => graph' = graph
    BY <2>2 DEF Made
  <2>6. Fold(op, x, y) = {} =>
          graph' = [v \in DOMAIN graph \cup {n + 1} |->
                      IF v = n + 1 THEN [op |-> op, left |-> x, right |-> y] ELSE graph[v]]
    BY <1>1, <2>2 DEF Made
  <2> QED BY <2>3, <2>4, <2>5, <2>6
<1> QED BY <1>3, <1>4

\* The bits of a new input are new variables.
LEMMA InputsStep ==
  ASSUME GraphOK, InputsOK, [Next]_vars
  PROVE  InputsOK'
<1>1. CASE DeclareInput
  <2>1. PICK n \in 0 .. MaxNode :
           /\ DOMAIN graph = 1 .. n /\ Cardinality(DOMAIN graph) = n
           /\ NewVariable = n + 1
    BY Variables
  <2>2. n \in Nat
    BY Bounds
  <2> DEFINE m == Len(inLits) + 1
             w == Width(InTypes[m])
             bits == [b \in 0 .. w - 1 |-> [var |-> n + 1 + b, sign |-> FALSE]]
  <2>3. /\ inLits \in Seq(UNION {[0 .. u - 1 -> Lits] : u \in Nat})
        /\ Len(inLits) \in Nat /\ DOMAIN inLits = 1 .. Len(inLits)
    BY DEF InputsOK
  <2>4. w \in Nat \ {0} /\ m \in Nat /\ m <= Len(InTypes)
    BY <1>1, <2>3, Widths DEF DeclareInput
  <2> HIDE DEF w
  <2>5. /\ inLits' = Append(inLits, bits)
        /\ graph' = [v \in DOMAIN graph \cup n + 1 .. n + 1 + w - 1 |->
                       IF v \in DOMAIN graph THEN graph[v] ELSE [op |-> "input"]]
    BY <1>1, <2>1 DEF DeclareInput, w
  <2>6. /\ bits \in [0 .. w - 1 -> Lits]
        /\ \A b \in 0 .. w - 1 : bits[b].var = n + 1 + b /\ bits[b].sign = FALSE
    BY <2>2, <2>4 DEF Lits
  <2> HIDE DEF bits
  <2>7. bits \in UNION {[0 .. u - 1 -> Lits] : u \in Nat}
    BY <2>4, <2>6
  <2>8. /\ inLits' \in Seq(UNION {[0 .. u - 1 -> Lits] : u \in Nat})
        /\ Len(inLits') = m /\ DOMAIN inLits' = 1 .. m
        /\ inLits'[m] = bits
        /\ \A k \in DOMAIN inLits : inLits'[k] = inLits[k] /\ k # m
        /\ \A k \in DOMAIN inLits' : k \in DOMAIN inLits \/ k = m
    BY <2>3, <2>5, <2>7
  <2>9. \A v \in DOMAIN graph : v \in DOMAIN graph' /\ graph'[v] = graph[v]
    BY <2>5
  <2>10. \A v \in n + 1 .. n + 1 + w - 1 : v \in DOMAIN graph' /\ v \notin DOMAIN graph /\ graph'[v].op = "input"
    BY <2>1, <2>2, <2>4, <2>5
  <2>11. Bit(m) = 0 .. w - 1 /\ \A b \in Bit(m) : n + 1 + b \in n + 1 .. n + 1 + w - 1
    BY <2>2, <2>4 DEF Bit, w
  <2> HIDE DEF m
  <2>12. ASSUME NEW k \in DOMAIN inLits'
         PROVE  /\ inLits'[k] \in [Bit(k) -> Lits]
                /\ \A b \in Bit(k) : /\ inLits'[k][b].var \in DOMAIN graph' /\ ~ inLits'[k][b].sign
                                     /\ graph'[inLits'[k][b].var].op = "input"
    <3>1. CASE k \in DOMAIN inLits
      <4>1. /\ inLits[k] \in [Bit(k) -> Lits]
            /\ \A b \in Bit(k) : /\ inLits[k][b].var \in DOMAIN graph /\ ~ inLits[k][b].sign
                                 /\ graph[inLits[k][b].var].op = "input"
        BY <3>1 DEF InputsOK
      <4>2. inLits'[k] = inLits[k]
        BY <2>8, <3>1
      <4>3. ASSUME NEW b \in Bit(k)
            PROVE  /\ inLits'[k][b].var \in DOMAIN graph' /\ ~ inLits'[k][b].sign
                   /\ graph'[inLits'[k][b].var].op = "input"
        <5> DEFINE v == inLits[k][b].var
        <5>1. v \in DOMAIN graph /\ graph[v].op = "input" /\ ~ inLits[k][b].sign
          BY <4>1
        <5>2. v \in DOMAIN graph' /\ graph'[v] = graph[v]
          BY <2>9, <5>1
        <5>3. inLits'[k][b] = inLits[k][b]
          BY <4>2
        <5> HIDE DEF v
        <5> QED BY <5>1, <5>2, <5>3 DEF v
      <4> QED BY <4>1, <4>2, <4>3
    <3>2. CASE k = m
      BY <2>6, <2>8, <2>10, <2>11, <3>2
    <3> QED BY <2>8, <3>1, <3>2
  <2>13. ASSUME NEW k \in DOMAIN inLits', NEW j \in DOMAIN inLits', NEW b \in Bit(k), NEW c \in Bit(j),
                inLits'[k][b].var = inLits'[j][c].var
         PROVE  k = j /\ b = c
    <3>9. ASSUME NEW i \in DOMAIN inLits, NEW d \in Bit(i) PROVE inLits'[i][d].var \in DOMAIN graph
      <4>1. inLits[i][d].var \in DOMAIN graph
        BY DEF InputsOK
      <4>2. inLits'[i] = inLits[i]
        BY <2>8
      <4> QED BY <4>1, <4>2
    <3>10. ASSUME NEW d \in Bit(m)
          PROVE  inLits'[m][d].var = n + 1 + d /\ inLits'[m][d].var \notin DOMAIN graph
      <4>1. inLits'[m] = bits /\ bits[d].var = n + 1 + d
        BY <2>6, <2>8, <2>11
      <4>2. n + 1 + d \notin DOMAIN graph
        BY <2>10, <2>11
      <4> QED BY <4>1, <4>2
    <3>1. /\ \A i \in DOMAIN inLits : \A d \in Bit(i) : inLits'[i][d].var \in DOMAIN graph
          /\ \A d \in Bit(m) : inLits'[m][d].var = n + 1 + d /\ inLits'[m][d].var \notin DOMAIN graph
      BY <3>9, <3>10
    <3>2. CASE k \in DOMAIN inLits /\ j \in DOMAIN inLits
      <4>1. inLits'[k] = inLits[k] /\ inLits'[j] = inLits[j]
        BY <2>8, <3>2
      <4>2. inLits[k][b].var = inLits[j][c].var
        BY <2>13, <4>1
      <4> QED BY <3>2, <4>2 DEF InputsOK
    <3>3. CASE k = m /\ j = m
      <4>1. b \in Int /\ c \in Int
        BY <2>4, <2>11, <3>3
      <4> QED BY <2>2, <2>13, <3>1, <3>3, <4>1
    <3> QED BY <2>8, <2>13, <3>1, <3>2, <3>3
  <2>14. Len(inLits') <= Len(InTypes)
    BY <2>4, <2>8
  <2> QED BY <2>8, <2>12, <2>13, <2>14 DEF InputsOK
<1>2. CASE Operation
  <2>1. inLits' = inLits /\ \A v \in DOMAIN graph : v \in DOMAIN graph' /\ graph'[v] = graph[v]
    BY <1>2, GraphGrows DEF Operation
  <2> QED BY <2>1 DEF InputsOK
<1>3. CASE UNCHANGED <<graph, inLits>>
  BY <1>3 DEF InputsOK
<1>4. DeclareInput \/ Operation \/ UNCHANGED <<graph, inLits>>
  BY DEF Next, vars, StartCircuit, ConvertInput, EndInputs, CreateOutput, ConvertNode, EndOutput,
         EndOutputs, Return, Connect, Negate, Descend
<1> QED BY <1>1, <1>2, <1>3, <1>4

\* GraphOK is kept.
LEMMA GraphStep ==
  ASSUME GraphOK, InputsOK, [Next]_vars
  PROVE  GraphOK'
<1>1. CASE DeclareInput \/ Operation
  BY <1>1, GraphGrows DEF DeclareInput, Operation
<1>2. CASE UNCHANGED graph
  BY <1>2 DEF GraphOK
<1>3. DeclareInput \/ Operation \/ UNCHANGED graph
  BY DEF Next, vars, StartCircuit, ConvertInput, EndInputs, CreateOutput, ConvertNode, EndOutput,
         EndOutputs, Return, Connect, Negate, Descend
<1> QED BY <1>1, <1>2, <1>3

\* As long as nothing is converted, what is said of the circuit holds.
LEMMA Nothing ==
  GraphOK /\ gates = << >> /\ outputs = << >> /\ map = << >> /\ calls = << >> =>
    CircuitOK /\ StackOK /\ Meaning /\ NotsOK /\ NodesOK /\ MapOK
<1> SUFFICES ASSUME GraphOK, gates = << >>, outputs = << >>, map = << >>, calls = << >>
             PROVE  CircuitOK /\ StackOK /\ Meaning /\ NotsOK /\ NodesOK /\ MapOK
  OBVIOUS
<1>1. /\ DOMAIN gates = {} /\ DOMAIN outputs = {} /\ DOMAIN map = {} /\ DOMAIN calls = {}
      /\ gates \in Seq(GateRecord) /\ outputs \in Seq(Nat) /\ calls \in Seq(CallRecord)
      /\ map = [d \in DOMAIN map |-> map[d]]
  OBVIOUS
<1>2. CircuitOK
  BY <1>1 DEF CircuitOK, Finished, Ordered
<1>3. StackOK
  BY <1>1 DEF StackOK
<1>4. Meaning
  BY <1>1 DEF Meaning, MapRight, CallsRight, OutputsRight, Mapped
<1>5. NotsOK
  <2>1. [n \in Nat |-> 0] \in [Nat -> Int]
    OBVIOUS
  <2>2. \A of : MadeFor(of)
    BY <1>1 DEF MadeFor
  <2> QED BY <2>1, <2>2 DEF NotsOK
<1>6. NodesOK
  <2>1. BinaryGates = {}
    BY <1>1 DEF BinaryGates
  <2>2. IsFiniteSet(Converted)
    <3>1. Converted \subseteq DOMAIN graph
      BY DEF Converted
    <3> QED BY <3>1, Variables, FS_Subset
  <2> QED BY <2>1, <2>2, FS_EmptySet, FS_CardinalityType DEF NodesOK
<1>7. MapOK
  BY <1>1 DEF MapOK, OutputsAreNotRead
<1> QED BY <1>2, <1>3, <1>4, <1>5, <1>6, <1>7

LEMMA Initially == Init => IInv
<1> SUFFICES ASSUME Init PROVE IInv
  OBVIOUS
<1>1. GraphOK
  <2>1. DOMAIN graph = {} /\ 1 .. 0 = {}
    BY DEF Init
  <2> QED BY <2>1, Bounds DEF GraphOK
<1>2. InputsOK
  <2>1. DOMAIN inLits = {} /\ Len(inLits) = 0 /\ inLits \in Seq(UNION {[0 .. w - 1 -> Lits] : w \in Nat})
    BY DEF Init
  <2> QED BY <2>1, Widths DEF InputsOK
<1>3. PhaseOK
  BY DEF Init, PhaseOK
<1> QED BY <1>1, <1>2, <1>3, Nothing DEF Init, IInv

\* The steps of the program leave the circuit empty.
LEMMA BuildStep ==
  ASSUME IInv, DeclareInput \/ Operation \/ StartCircuit
  PROVE  PhaseOK' /\ CircuitOK' /\ StackOK' /\ Meaning' /\ NotsOK' /\ NodesOK' /\ MapOK'
<1>1. GraphOK /\ InputsOK /\ PhaseOK
  BY DEF IInv
<1>2. /\ gates = << >> /\ outputs = << >> /\ map = << >> /\ calls = << >> /\ next = 1
      /\ gates' = << >> /\ outputs' = << >> /\ map' = << >> /\ calls' = << >> /\ next' = 1
  BY <1>1 DEF PhaseOK, DeclareInput, Operation, StartCircuit
<1>3. GraphOK'
  <2>1. [Next]_vars
    BY DEF Next
  <2> QED BY <1>1, <2>1, GraphStep
<1>4. (GraphOK /\ gates = << >> /\ outputs = << >> /\ map = << >> /\ calls = << >> =>
         CircuitOK /\ StackOK /\ Meaning /\ NotsOK /\ NodesOK /\ MapOK)'
  BY Nothing, PTL
<1>5. PhaseOK'
  <2>1. CASE DeclareInput \/ Operation
    <3>1. phase' = "build"
      BY <2>1 DEF DeclareInput, Operation
    <3> QED BY <1>2, <3>1 DEF PhaseOK
  <2>2. CASE StartCircuit
    <3>1. /\ phase' = "inputs" /\ Len(inLits') = Len(InTypes)
          /\ outLits' \in [DOMAIN OutTypes -> Literal] /\ graph' = graph
      BY <2>2 DEF StartCircuit
    <3>2. Literal' = Literal
      BY <3>1 DEF Literal
    <3>3. Len(gates') = 0 /\ 1 <= Len(InTypes) + 1
      BY <1>2, Widths
    <3> QED BY <1>2, <3>1, <3>2, <3>3 DEF PhaseOK
  <2> QED BY <2>1, <2>2
<1> QED BY <1>2, <1>3, <1>4, <1>5

----------------------------------------------------------------------------
(* What the steps of the conversion do to the gates and the activations.   *)

\* The types of the parts of the state.
LEMMA State ==
  ASSUME CircuitOK
  PROVE  /\ Len(gates) \in Nat /\ DOMAIN gates = 1 .. Len(gates)
         /\ Len(calls) \in Nat /\ DOMAIN calls = 1 .. Len(calls)
         /\ Len(outputs) \in Nat /\ DOMAIN outputs = 1 .. Len(outputs)
         /\ \A g \in DOMAIN gates :
              /\ gates[g] \in GateRecord /\ gates[g].op \in BinOps \cup {"INPUT", "NOT", "OUTPUT"}
              /\ gates[g].fanins \in Seq(Int) /\ Len(gates[g].fanins) \in Nat
              /\ DOMAIN gates[g].fanins = 1 .. Len(gates[g].fanins)
         /\ \A i \in DOMAIN calls :
              /\ calls[i] \in CallRecord /\ calls[i].lit \in Lits /\ calls[i].gate \in Nat
              /\ calls[i].todo \in Seq(Lits)
         /\ Finished \subseteq DOMAIN gates /\ ONE \in Int /\ ZERO \in Int /\ ONE # ZERO
         /\ ONE \notin DOMAIN gates /\ ZERO \notin DOMAIN gates /\ Sources \subseteq Int
<1>1. /\ Len(gates) \in Nat /\ DOMAIN gates = 1 .. Len(gates)
      /\ Len(calls) \in Nat /\ DOMAIN calls = 1 .. Len(calls)
      /\ Len(outputs) \in Nat /\ DOMAIN outputs = 1 .. Len(outputs)
  BY DEF CircuitOK
<1>2. ASSUME NEW g \in DOMAIN gates
      PROVE  /\ gates[g] \in GateRecord /\ gates[g].op \in BinOps \cup {"INPUT", "NOT", "OUTPUT"}
             /\ gates[g].fanins \in Seq(Int) /\ Len(gates[g].fanins) \in Nat
             /\ DOMAIN gates[g].fanins = 1 .. Len(gates[g].fanins)
  <2>1. gates[g] \in GateRecord
    BY DEF CircuitOK
  <2>2. gates[g].op \in BinOps \cup {"INPUT", "NOT", "OUTPUT"} /\ gates[g].fanins \in Seq(Int)
    BY <2>1 DEF GateRecord
  <2> QED BY <2>1, <2>2
<1>3. ASSUME NEW i \in DOMAIN calls
      PROVE  /\ calls[i] \in CallRecord /\ calls[i].lit \in Lits /\ calls[i].gate \in Nat
             /\ calls[i].todo \in Seq(Lits)
  <2>1. calls[i] \in CallRecord
    BY DEF CircuitOK
  <2> QED BY <2>1 DEF CallRecord
<1>4. Finished \subseteq DOMAIN gates
  BY DEF Finished
<1>5. /\ ONE \in Int /\ ZERO \in Int /\ ONE # ZERO
      /\ ONE \notin DOMAIN gates /\ ZERO \notin DOMAIN gates
  BY <1>1 DEF ONE, ZERO
<1>6. Sources \subseteq Int
  BY <1>1, <1>4, <1>5 DEF Sources
<1> QED BY <1>1, <1>2, <1>3, <1>4, <1>5, <1>6

\* The activation on top, and those under it.
LEMMA TopOf ==
  ASSUME IInv, calls # << >>
  PROVE  /\ Len(calls) \in Nat \ {0} /\ Len(calls) \in DOMAIN calls /\ Top = calls[Len(calls)]
         /\ Top.gate \in DOMAIN gates /\ Top.gate \notin Finished /\ Top.lit \in Literal
         /\ \A i \in DOMAIN calls : calls[i].gate = Top.gate => i = Len(calls)
         /\ phase = "outputs" /\ next \in DOMAIN OutTypes /\ outLits[next] \in Literal
         /\ outLits \in [DOMAIN OutTypes -> Literal]
         /\ Activation(Len(calls)) /\ Top \in CallRecord
<1>1. CircuitOK /\ StackOK /\ PhaseOK
  BY DEF IInv
<1>2. Len(calls) \in Nat \ {0} /\ Len(calls) \in DOMAIN calls /\ Top = calls[Len(calls)]
  <2>1. Len(calls) # 0
    BY <1>1 DEF CircuitOK
  <2> QED BY <1>1, <2>1, State DEF Top
<1>3. Top.gate \in DOMAIN gates /\ Top.lit \in Literal /\ Activation(Len(calls))
  BY <1>1, <1>2 DEF StackOK, Activation
<1>4. Top.gate \notin Finished
  BY <1>2 DEF Finished
<1>5. ASSUME NEW i \in DOMAIN calls, calls[i].gate = Top.gate PROVE i = Len(calls)
  <2>1. i < Len(calls) => calls[i].gate < Top.gate
    BY <1>2, <1>3 DEF Activation
  <2>2. calls[i].gate \in Nat /\ i \in 1 .. Len(calls)
    BY <1>1, State
  <2> QED BY <1>2, <1>5, <2>1, <2>2
<1>6. /\ phase = "outputs" /\ next \in DOMAIN OutTypes /\ outLits \in [DOMAIN OutTypes -> Literal]
  BY <1>1, Widths DEF PhaseOK
<1> QED BY <1>1, <1>2, <1>3, <1>4, <1>5, <1>6, State

\* The literal that is wanted is one of those that the node on top reads, or the
\* output: it is below the literals of all activations.
LEMMA WantedOf ==
  ASSUME IInv, NEW l, Wanted(l)
  PROVE  /\ calls # << >> /\ Top.todo # << >> /\ l = Head(Top.todo) /\ l \in Literal
         /\ Len(calls) = 1 => l = Top.lit
         /\ ~ Constant(l) => \A i \in 2 .. Len(calls) : l.var < calls[i].lit.var
<1>1. calls # << >> /\ Top.todo # << >> /\ l = Head(Top.todo)
  BY DEF Wanted
<1> DEFINE n == Len(calls)
           c == Top
<1>2. n \in Nat \ {0} /\ n \in DOMAIN calls /\ c = calls[n] /\ c.lit \in Literal /\ Activation(n)
  BY <1>1, TopOf
<1>3. CASE n = 1
  <2>1. c.todo = <<c.lit>>
    BY <1>1, <1>2, <1>3 DEF Activation, Bottom, OneFanin
  <2>2. l = c.lit
    BY <1>1, <2>1
  <2> QED BY <1>1, <1>2, <1>3, <2>2
<1>4. CASE n > 1
  <2>1. /\ c.todo \in {<<Left(c.lit), Right(c.lit)>>, <<Right(c.lit)>>}
        /\ ~ Constant(c.lit) /\ graph[c.lit.var].op \in BinOps
        /\ \A j \in DOMAIN calls : 1 < j /\ j < n => calls[j].lit.var > c.lit.var
    BY <1>1, <1>2, <1>4 DEF Activation, Inner, TwoFanins
  <2>2. l \in {Left(c.lit), Right(c.lit)}
    BY <1>1, <2>1
  <2>3. GraphOK /\ CircuitOK /\ graph[c.lit.var].op # "input"
    BY <2>1 DEF IInv, BinOps
  <2>4. c.lit.var \in DOMAIN graph
    BY <1>2, <2>1, <2>3, Literals
  <2>5. l \in Literal /\ (~ Constant(l) => l.var < c.lit.var)
    BY <2>2, <2>3, <2>4, Fanins DEF Left, Right
  <2>6. ASSUME NEW i \in 2 .. n, ~ Constant(l) PROVE l.var < calls[i].lit.var
    <3>1. i \in DOMAIN calls /\ calls[i].lit \in Lits /\ c.lit \in Lits /\ l \in Lits
      BY <1>2, <2>3, <2>5, State, Literals
    <3>2. calls[i].lit.var \in Int /\ c.lit.var \in Int /\ l.var \in Int
      BY <3>1 DEF Lits
    <3>3. i = n \/ calls[i].lit.var > c.lit.var
      BY <1>2, <2>1, <3>1
    <3>4. l.var < c.lit.var
      BY <2>5, <2>6
    <3> HIDE DEF c
    <3>5. CASE i = n
      BY <1>2, <3>4, <3>5
    <3>6. CASE calls[i].lit.var > c.lit.var
      BY <3>2, <3>4, <3>6
    <3> QED BY <3>3, <3>5, <3>6
  <2> QED BY <1>1, <1>2, <1>4, <2>5, <2>6
<1>5. n = 1 \/ n > 1
  <2>1. n \in Nat \ {0}
    BY <1>2
  <2> HIDE DEF n
  <2> QED BY <2>1
<1> QED BY <1>3, <1>4, <1>5

\* A literal that has a gate, or is a constant, is connected to a complete one.
LEMMA GateOfLiteral ==
  ASSUME CircuitOK, GraphOK, NEW l \in Literal, Constant(l) \/ Mapped(l)
  PROVE  /\ GateOf(l) \in Sources /\ GateOf(l) \in Int
         /\ ~ Constant(l) => GateOf(l) = map[Dimacs(l)] /\ GateOf(l) # ONE
         /\ \A W, V : MapRight(W, V) => Pin(V, GateOf(l)) = Of(W, l)
<1>1. ONE # ZERO /\ Sources \subseteq Int /\ ONE \notin DOMAIN gates /\ Finished \subseteq DOMAIN gates
  BY State
<1>2. CASE Constant(l)
  <2>1. l \in {True, False} /\ True # False
    BY <1>2, Literals DEF True, False
  <2>2. CASE l = True
    BY <1>1, <1>2, <2>2 DEF GateOf, Sources, Pin, Of, True
  <2>3. CASE l = False
    BY <1>1, <1>2, <2>1, <2>3 DEF GateOf, Sources, Pin, Of, False
  <2> QED BY <2>1, <2>2, <2>3
<1>3. CASE ~ Constant(l)
  <2>1. Mapped(l) /\ GateOf(l) = map[Dimacs(l)]
    BY <1>3 DEF GateOf, Constant, True, False
  <2>2. map[Dimacs(l)] \in {ZERO} \cup Finished
    BY <2>1 DEF CircuitOK, Mapped
  <2> QED BY <1>1, <1>3, <2>1, <2>2 DEF Sources, MapRight
<1> QED BY <1>2, <1>3

\* add_fanin(): the gate on top has one more fanin.
LEMMA ConnectEffect ==
  ASSUME IInv, NEW l, Connect(l)
  PROVE  LET g == Top.gate  n == Len(calls)  f == GateOf(l)  s == gates[g].fanins
         IN  /\ gates' \in Seq(GateRecord) /\ Len(gates') = Len(gates) /\ DOMAIN gates' = DOMAIN gates
             /\ \A h \in DOMAIN gates : gates'[h].op = gates[h].op /\ (h # g => gates'[h] = gates[h])
             /\ Len(gates'[g].fanins) = Len(s) + 1
             /\ \A j \in 1 .. Len(s) : gates'[g].fanins[j] = s[j]
             /\ gates'[g].fanins[Len(s) + 1] = f
             /\ calls' \in Seq(CallRecord) /\ Len(calls') = n /\ DOMAIN calls' = DOMAIN calls
             /\ \A i \in DOMAIN calls : /\ calls'[i].lit = calls[i].lit /\ calls'[i].gate = calls[i].gate
                                        /\ i # n => calls'[i] = calls[i]
             /\ calls'[n].todo = Tail(Top.todo)
             /\ Finished' = Finished /\ Sources' = Sources
<1>1. CircuitOK /\ GraphOK
  BY DEF IInv
<1>2. /\ Wanted(l) /\ (Constant(l) \/ Mapped(l))
      /\ gates' = [gates EXCEPT ![Top.gate].fanins = Append(@, GateOf(l))]
      /\ calls' = [calls EXCEPT ![Len(calls)].todo = Tail(@)]
  BY DEF Connect
<1> DEFINE g == Top.gate
           n == Len(calls)
           f == GateOf(l)
           s == gates[g].fanins
<1>3. /\ g \in DOMAIN gates /\ n \in DOMAIN calls /\ Top = calls[n] /\ l \in Literal
      /\ Top.todo # << >> /\ Top \in CallRecord
  BY <1>2, TopOf, WantedOf
<1>4. f \in Int /\ s \in Seq(Int) /\ gates[g] \in GateRecord /\ Len(s) \in Nat
  BY <1>1, <1>2, <1>3, State, GateOfLiteral
<1> HIDE DEF f
<1>5. /\ Append(s, f) \in Seq(Int) /\ Len(Append(s, f)) = Len(s) + 1
      /\ \A j \in 1 .. Len(s) : Append(s, f)[j] = s[j]
      /\ Append(s, f)[Len(s) + 1] = f
  BY <1>4
<1>6. /\ DOMAIN gates' = DOMAIN gates
      /\ gates'[g] = [gates[g] EXCEPT !.fanins = Append(s, f)]
      /\ \A h \in DOMAIN gates : h # g => gates'[h] = gates[h]
  BY <1>2, <1>3 DEF f
<1>7. /\ gates'[g] \in GateRecord /\ gates'[g].op = gates[g].op /\ gates'[g].fanins = Append(s, f)
  BY <1>4, <1>5, <1>6 DEF GateRecord
<1>8. gates' \in Seq(GateRecord) /\ Len(gates') = Len(gates)
  <2>1. \A h \in DOMAIN gates : gates'[h] \in GateRecord
    BY <1>1, <1>6, <1>7, State
  <2>2. gates' = [h \in 1 .. Len(gates) |-> gates'[h]] /\ Len(gates) \in Nat
    BY <1>1, <1>2, State
  <2>3. gates' \in [1 .. Len(gates) -> GateRecord]
    BY <1>1, <2>1, <2>2, State
  <2> QED BY <2>2, <2>3
<1>9. /\ Tail(Top.todo) \in Seq(Lits)
  BY <1>3 DEF CallRecord
<1>10. /\ DOMAIN calls' = DOMAIN calls
       /\ calls'[n] = [Top EXCEPT !.todo = Tail(Top.todo)]
       /\ \A i \in DOMAIN calls : i # n => calls'[i] = calls[i]
  BY <1>2, <1>3
<1>11. /\ calls'[n] \in CallRecord /\ calls'[n].lit = Top.lit /\ calls'[n].gate = Top.gate
       /\ calls'[n].todo = Tail(Top.todo)
  BY <1>3, <1>9, <1>10 DEF CallRecord
<1>12. calls' \in Seq(CallRecord) /\ Len(calls') = Len(calls)
  <2>1. \A i \in DOMAIN calls : calls'[i] \in CallRecord
    BY <1>1, <1>10, <1>11, State
  <2>2. calls' = [i \in 1 .. Len(calls) |-> calls'[i]] /\ Len(calls) \in Nat
    BY <1>1, <1>2, State
  <2>3. calls' \in [1 .. Len(calls) -> CallRecord]
    BY <1>1, <2>1, <2>2, State
  <2> QED BY <2>2, <2>3
<1>13. \A i \in DOMAIN calls : calls'[i].lit = calls[i].lit /\ calls'[i].gate = calls[i].gate
  BY <1>3, <1>10, <1>11
<1>14. Finished' = Finished
  BY <1>6, <1>10, <1>13 DEF Finished
<1>15. Sources' = Sources
  BY <1>14 DEF Sources
<1> QED BY <1>5, <1>6, <1>7, <1>8, <1>10, <1>11, <1>12, <1>13, <1>14, <1>15 DEF f

\* A gate is created.
LEMMA GateCreated ==
  ASSUME CircuitOK, NEW op \in BinOps \cup {"INPUT", "NOT", "OUTPUT"}, NEW fs \in Seq(Int),
         gates' = Append(gates, [op |-> op, fanins |-> fs])
  PROVE  LET g == Len(gates) + 1
         IN  /\ gates' \in Seq(GateRecord) /\ Len(gates') = g /\ g \in Nat /\ g \in Int
             /\ DOMAIN gates' = DOMAIN gates \cup {g} /\ g \notin DOMAIN gates
             /\ g # ONE /\ g # ZERO
             /\ \A h \in DOMAIN gates : gates'[h] = gates[h] /\ h < g
             /\ gates'[g].op = op /\ gates'[g].fanins = fs
<1>1. /\ gates \in Seq(GateRecord) /\ Len(gates) \in Nat /\ DOMAIN gates = 1 .. Len(gates)
  BY State DEF CircuitOK
<1>2. [op |-> op, fanins |-> fs] \in GateRecord
  BY DEF GateRecord
<1> DEFINE r == [op |-> op, fanins |-> fs]
<1>3. r.op = op /\ r.fanins = fs /\ r \in GateRecord
  BY <1>2
<1> HIDE DEF r
<1>4. /\ gates' \in Seq(GateRecord) /\ Len(gates') = Len(gates) + 1
      /\ gates'[Len(gates) + 1] = r /\ \A h \in 1 .. Len(gates) : gates'[h] = gates[h]
  BY <1>1, <1>3 DEF r
<1>5. DOMAIN gates' = 1 .. Len(gates) + 1
  BY <1>1, <1>4
<1> QED BY <1>1, <1>3, <1>4, <1>5 DEF ONE, ZERO

\* It is to be converted: an activation is put on top.
LEMMA OpenEffect ==
  ASSUME CircuitOK, StackOK, NEW op \in BinOps \cup {"OUTPUT"}, NEW l \in Lits, NEW todo \in Seq(Lits),
         gates' = Append(gates, [op |-> op, fanins |-> << >>]),
         calls' = Append(calls, Call(l, todo))
  PROVE  LET g == Len(gates) + 1  n == Len(calls) + 1
         IN  /\ calls' \in Seq(CallRecord) /\ Len(calls') = n /\ n \in Nat
             /\ DOMAIN calls' = DOMAIN calls \cup {n} /\ n \notin DOMAIN calls
             /\ \A i \in DOMAIN calls : calls'[i] = calls[i] /\ i < n
             /\ calls'[n].lit = l /\ calls'[n].gate = g /\ calls'[n].todo = todo
             /\ Finished' = Finished /\ Sources' = Sources
<1> DEFINE g == Len(gates) + 1
           n == Len(calls) + 1
<1>1. /\ calls \in Seq(CallRecord) /\ Len(calls) \in Nat /\ DOMAIN calls = 1 .. Len(calls)
      /\ Len(gates) \in Nat
  BY State DEF CircuitOK
<1> DEFINE c == Call(l, todo)
<1>2. c \in CallRecord /\ c.lit = l /\ c.gate = g /\ c.todo = todo
  BY <1>1 DEF CallRecord, Call
<1> HIDE DEF c
<1>3. /\ calls' \in Seq(CallRecord) /\ Len(calls') = n /\ calls'[n] = c
      /\ \A i \in 1 .. Len(calls) : calls'[i] = calls[i]
  BY <1>1, <1>2 DEF c
<1>4. DOMAIN calls' = 1 .. n
  BY <1>1, <1>3
<1>5. /\ DOMAIN gates' = DOMAIN gates \cup {g} /\ g \notin DOMAIN gates
  <2>1. << >> \in Seq(Int)
    OBVIOUS
  <2> QED BY <2>1, GateCreated
<1>6. Finished' = Finished
  <2>1. {calls'[i].gate : i \in DOMAIN calls'} = {calls[i].gate : i \in DOMAIN calls} \cup {g}
    <3>1. \A i \in DOMAIN calls' : i \in DOMAIN calls \/ i = n
      BY <1>1, <1>4
    <3>2. \A i \in DOMAIN calls : i \in DOMAIN calls' /\ calls'[i] = calls[i]
      BY <1>1, <1>3, <1>4
    <3>3. n \in DOMAIN calls' /\ calls'[n].gate = g
      BY <1>1, <1>2, <1>3, <1>4
    <3> QED BY <3>1, <3>2, <3>3
  <2> QED BY <1>5, <2>1 DEF Finished
<1>7. Sources' = Sources
  BY <1>6 DEF Sources
<1> QED BY <1>1, <1>2, <1>3, <1>4, <1>6, <1>7

\* It is complete when it is created.
LEMMA MakeEffect ==
  ASSUME CircuitOK, StackOK, NEW op \in BinOps \cup {"INPUT", "NOT", "OUTPUT"}, NEW fs \in Seq(Int),
         gates' = Append(gates, [op |-> op, fanins |-> fs]), calls' = calls
  PROVE  Finished' = Finished \cup {Len(gates) + 1}
<1> DEFINE g == Len(gates) + 1
<1>1. DOMAIN gates' = DOMAIN gates \cup {g} /\ g \notin DOMAIN gates
  BY GateCreated
<1>2. g \notin {calls[i].gate : i \in DOMAIN calls}
  BY <1>1 DEF StackOK, Activation
<1> HIDE DEF g
<1>3. Finished' = Finished \cup {g}
  BY <1>1, <1>2 DEF Finished
<1> QED BY <1>3 DEF g

\* The activation on top ends: its gate is complete, with those that are new.
LEMMA CloseEffect ==
  ASSUME IInv, calls # << >>, DOMAIN gates \subseteq DOMAIN gates',
         calls' = SubSeq(calls, 1, Len(calls) - 1)
  PROVE  /\ calls' \in Seq(CallRecord) /\ Len(calls') = Len(calls) - 1
         /\ DOMAIN calls' = 1 .. Len(calls) - 1
         /\ DOMAIN calls = DOMAIN calls' \cup {Len(calls)}
         /\ \A i \in DOMAIN calls' : i \in DOMAIN calls /\ i # Len(calls) /\ calls'[i] = calls[i]
         /\ Finished' = Finished \cup {Top.gate} \cup (DOMAIN gates' \ DOMAIN gates)
<1> DEFINE n == Len(calls)
<1>1. CircuitOK /\ StackOK
  BY DEF IInv
<1>2. /\ calls \in Seq(CallRecord) /\ n \in Nat \ {0} /\ DOMAIN calls = 1 .. n
      /\ Top = calls[n] /\ Top.gate \in DOMAIN gates
      /\ \A i \in DOMAIN calls : calls[i].gate = Top.gate => i = n
  BY <1>1, TopOf, State DEF CircuitOK
<1> HIDE DEF n
<1>3. calls' = SubSeq(calls, 1, n - 1)
  BY DEF n
<1>4. /\ calls' \in Seq(CallRecord) /\ Len(calls') = n - 1
      /\ \A i \in 1 .. n - 1 : calls'[i] = calls[i]
  <2>1. 1 \in 1 .. Len(calls) + 1 /\ n - 1 \in 0 .. Len(calls)
    BY <1>2 DEF n
  <2> QED BY <1>2, <1>3, <2>1, SubSeqProperties DEF n
<1>5. DOMAIN calls' = 1 .. n - 1
  BY <1>2, <1>4
<1>6. /\ \A i \in DOMAIN calls' : i \in DOMAIN calls /\ i # n /\ calls'[i] = calls[i]
      /\ DOMAIN calls = DOMAIN calls' \cup {n}
  BY <1>2, <1>4, <1>5
<1>7. Finished' = Finished \cup {Top.gate} \cup (DOMAIN gates' \ DOMAIN gates)
  <2>1. {calls'[i].gate : i \in DOMAIN calls'} = {calls[i].gate : i \in DOMAIN calls} \ {Top.gate}
    <3>1. \A i \in DOMAIN calls' : i \in DOMAIN calls /\ calls'[i].gate = calls[i].gate /\ calls[i].gate # Top.gate
      BY <1>2, <1>6
    <3>2. \A i \in DOMAIN calls : calls[i].gate = Top.gate \/ i \in DOMAIN calls'
      BY <1>2, <1>6
    <3> QED BY <3>1, <3>2
  <2>2. {calls[i].gate : i \in DOMAIN calls} \subseteq DOMAIN gates
    BY <1>1 DEF StackOK, Activation
  <2> QED BY <1>2, <2>1, <2>2 DEF Finished
<1> QED BY <1>2, <1>4, <1>5, <1>6, <1>7 DEF n

\* Complete gates stay in an order when one more reads only them.
LEMMA OrderedSame ==
  ASSUME NEW F, NEW gs, NEW hs, Ordered(F, gs), \A g \in F : hs[g] = gs[g]
  PROVE  Ordered(F, hs)
BY DEF Ordered

LEMMA OrderedAdd ==
  ASSUME NEW F, NEW gs, NEW a, Ordered(F, gs),
         \A g \in F \cup {a} : \A j \in DOMAIN gs[g].fanins : gs[g].fanins[j] # a
  PROVE  Ordered(F \cup {a}, gs)
<1> SUFFICES ASSUME NEW S \in SUBSET (F \cup {a}), S # {}
             PROVE  \E g \in S : \A j \in DOMAIN gs[g].fanins : gs[g].fanins[j] \notin S
  BY DEF Ordered
<1> DEFINE T == S \ {a}
<1>1. CASE T = {}
  <2>1. S = {a}
    BY <1>1
  <2> QED BY <2>1
<1>2. CASE T # {}
  <2>1. T \in SUBSET F
    OBVIOUS
  <2>2. PICK g \in T : \A j \in DOMAIN gs[g].fanins : gs[g].fanins[j] \notin T
    <3> HIDE DEF T
    <3> QED BY <1>2, <2>1 DEF Ordered
  <2> QED BY <2>2
<1> QED BY <1>1, <1>2

\* What the gates had for values they have for the gates that were complete.
LEMMA ValuesBefore ==
  ASSUME NEW in \in Inputs, NEW W, NEW V, UNCHANGED <<graph, inLits>>,
         Finished \subseteq Finished', \A g \in Finished : gates'[g] = gates[g],
         ValuesOfGraph(in, W)', ValuesOfGates(in, V)'
  PROVE  ValuesOfGraph(in, W) /\ ValuesOfGates(in, V)
<1>1. ValuesOfGraph(in, W)
  BY DEF ValuesOfGraph
<1>2. ASSUME NEW g \in Finished PROVE V[g] = ValueOfGate(in, V, g)
  <2>1. V[g] = ValueOfGate(in, V, g)'
    BY DEF ValuesOfGates
  <2>2. gates'[g] = gates[g]
    OBVIOUS
  <2> QED BY <2>1, <2>2 DEF ValueOfGate
<1>3. V \in [Nat -> BOOLEAN]
  BY DEF ValuesOfGates
<1> QED BY <1>1, <1>2, <1>3 DEF ValuesOfGates

\* The map after Remember().
LEMMA Remembered ==
  ASSUME NEW m, NEW l, NEW g
  PROVE  LET R == Remember(m, l, g)
         IN  /\ DOMAIN R = DOMAIN m \cup {Dimacs(l)} /\ R[Dimacs(l)] = g
             /\ \A d \in DOMAIN m : d # Dimacs(l) => R[d] = m[d]
             /\ R = [d \in DOMAIN R |-> R[d]]
BY DEF Remember

----------------------------------------------------------------------------
(* Every step of the conversion keeps the invariant.                       *)

Kept == PhaseOK /\ CircuitOK /\ StackOK /\ Meaning /\ NotsOK /\ NodesOK /\ MapOK

LEMMA ConnectKeeps ==
  ASSUME IInv, NEW l, Connect(l)
  PROVE  Kept'
<1> DEFINE g == Top.gate
           n == Len(calls)
           f == GateOf(l)
           s == gates[g].fanins
<1>1. /\ GraphOK /\ PhaseOK /\ CircuitOK /\ StackOK /\ Meaning /\ NotsOK /\ NodesOK /\ MapOK
  BY DEF IInv
<1>2. /\ Wanted(l) /\ (Constant(l) \/ Mapped(l))
      /\ UNCHANGED <<graph, inLits, outLits, phase, next, outputs, map>>
  BY DEF Connect
<1>3. /\ gates' \in Seq(GateRecord) /\ Len(gates') = Len(gates) /\ DOMAIN gates' = DOMAIN gates
      /\ \A h \in DOMAIN gates : gates'[h].op = gates[h].op /\ (h # g => gates'[h] = gates[h])
      /\ Len(gates'[g].fanins) = Len(s) + 1
      /\ \A j \in 1 .. Len(s) : gates'[g].fanins[j] = s[j]
      /\ gates'[g].fanins[Len(s) + 1] = f
      /\ calls' \in Seq(CallRecord) /\ Len(calls') = n /\ DOMAIN calls' = DOMAIN calls
      /\ \A i \in DOMAIN calls : /\ calls'[i].lit = calls[i].lit /\ calls'[i].gate = calls[i].gate
                                 /\ i # n => calls'[i] = calls[i]
      /\ calls'[n].todo = Tail(Top.todo)
      /\ Finished' = Finished /\ Sources' = Sources
  BY ConnectEffect
<1>4. /\ calls # << >> /\ Top.todo # << >> /\ l = Head(Top.todo) /\ l \in Literal
      /\ n = 1 => l = Top.lit
  BY <1>2, WantedOf
<1>5. /\ n \in Nat \ {0} /\ n \in DOMAIN calls /\ Top = calls[n]
      /\ g \in DOMAIN gates /\ g \notin Finished /\ Top.lit \in Literal
      /\ \A i \in DOMAIN calls : calls[i].gate = g => i = n
      /\ phase = "outputs" /\ Activation(n) /\ Top \in CallRecord
      /\ gates[g].op \in BinOps \cup {"OUTPUT"}
  <2>1. Activation(n) /\ n \in Nat \ {0} /\ Top = calls[n]
    BY <1>4, TopOf
  <2>2. gates[Top.gate].op \in BinOps \cup {"OUTPUT"}
    <3>1. n = 1 => Bottom(Top)
      BY <2>1 DEF Activation
    <3>2. n > 1 => Inner(Top, calls[n - 1])
      BY <2>1 DEF Activation
    <3>3. n = 1 \/ n > 1
      <4>1. n \in Nat \ {0}
        BY <2>1
      <4> HIDE DEF n
      <4> QED BY <4>1
    <3> QED BY <3>1, <3>2, <3>3 DEF Bottom, Inner
  <2> QED BY <1>4, <2>2, TopOf
<1>6. /\ Len(s) \in Nat /\ DOMAIN s = 1 .. Len(s) /\ DOMAIN gates'[g].fanins = 1 .. Len(s) + 1
  <2>1. gates'[g] \in GateRecord
    BY <1>3, <1>5
  <2>2. gates'[g].fanins \in Seq(Int)
    BY <2>1 DEF GateRecord
  <2>3. Len(s) \in Nat /\ DOMAIN s = 1 .. Len(s)
    BY <1>1, <1>5, State
  <2>4. DOMAIN gates'[g].fanins = 1 .. Len(gates'[g].fanins)
    BY <2>2
  <2> QED BY <1>3, <2>3, <2>4
<1>7. /\ f \in Sources /\ (~ Constant(l) => f = map[Dimacs(l)])
      /\ \A W, V : MapRight(W, V) => Pin(V, f) = Of(W, l)
  BY <1>1, <1>2, <1>4, GateOfLiteral
<1> HIDE DEF g, f, s, n
<1>8. PhaseOK'
  BY <1>1, <1>2, <1>3, <1>5 DEF PhaseOK, Literal
<1>9. CircuitOK'
  <2>1. \A h \in DOMAIN gates' : gates'[h].op = "INPUT" => h \in DOMAIN InTypes
    BY <1>1, <1>3 DEF CircuitOK
  <2>2. \A h \in Finished' : Len(gates'[h].fanins) = Arity(gates'[h].op)
    BY <1>1, <1>3, <1>5, State DEF CircuitOK
  <2>3. ASSUME NEW h \in DOMAIN gates', NEW j \in DOMAIN gates'[h].fanins
        PROVE  gates'[h].fanins[j] \in Sources'
    <3>1. CASE h # g
      BY <1>1, <1>3, <3>1 DEF CircuitOK
    <3>2. CASE h = g
      <4>1. j \in 1 .. Len(s) \/ j = Len(s) + 1
        BY <1>6, <3>2
      <4>2. CASE j \in 1 .. Len(s)
        <5>1. gates'[h].fanins[j] = s[j] /\ j \in DOMAIN s
          BY <1>3, <1>6, <3>2, <4>2
        <5>2. s[j] \in Sources
          BY <1>1, <1>5, <5>1 DEF CircuitOK, s
        <5> QED BY <1>3, <5>1, <5>2
      <4>3. CASE j = Len(s) + 1
        BY <1>3, <1>7, <3>2, <4>3
      <4> QED BY <4>1, <4>2, <4>3
    <3> QED BY <3>1, <3>2
  <2>4. Ordered(Finished', gates')
    <3>1. \A h \in Finished : gates'[h] = gates[h]
      BY <1>1, <1>3, <1>5, State
    <3>2. Ordered(Finished, gates)
      BY <1>1 DEF CircuitOK
    <3>3. Ordered(Finished, gates')
      BY <3>1, <3>2, OrderedSame
    <3> QED BY <1>3, <3>3
  <2> QED BY <1>1, <1>2, <1>3, <2>1, <2>2, <2>3, <2>4 DEF CircuitOK
<1>10. StackOK'
  <2> SUFFICES ASSUME NEW i \in DOMAIN calls PROVE calls'[i].lit \in Literal' /\ Activation(i)'
    BY <1>3 DEF StackOK
  <2>1. calls[i].lit \in Literal /\ Activation(i) /\ Literal' = Literal
    BY <1>1, <1>2 DEF StackOK, Literal
  <2>2. i \in Nat /\ i >= 1 /\ i <= n
    BY <1>1, <1>5, State DEF n
  <2>3. calls'[i].lit = calls[i].lit /\ calls'[i].gate = calls[i].gate
    BY <1>3
  <2>4. /\ calls'[i].gate \in DOMAIN gates'
        /\ \A j \in DOMAIN calls' : j < i => calls'[j].gate < calls'[i].gate
        /\ \A j \in DOMAIN calls' : 1 < j /\ j < i => calls'[j].lit.var > calls'[i].lit.var
    BY <1>3, <2>1 DEF Activation
  <2>5. CASE i # n
    <3>1. calls'[i] = calls[i] /\ calls[i].gate # g /\ calls[i].gate \in DOMAIN gates
      BY <1>3, <1>5, <2>1, <2>5 DEF Activation
    <3>2. gates'[calls[i].gate] = gates[calls[i].gate]
      BY <1>3, <3>1
    <3>3. i > 1 => i - 1 \in DOMAIN calls /\ i - 1 # n
      BY <1>1, <2>2, <2>5, State DEF n
    <3>4. i > 1 => calls'[i - 1] = calls[i - 1]
      BY <1>3, <3>3
    <3>5. i = 1 => Bottom(calls[i])'
      BY <1>2, <2>1, <3>1, <3>2 DEF Activation, Bottom, Mapped
    <3>6. i > 1 => Inner(calls[i], calls[i - 1])'
      BY <1>2, <2>1, <3>1, <3>2, <3>4 DEF Activation, Inner, Mapped, Left, Right
    <3> QED BY <2>1, <2>3, <2>4, <3>5, <3>6 DEF Activation
  <2>6. CASE i = n
    <3> DEFINE c == calls[i]
               d == calls'[i]
    <3>1. /\ d.lit = c.lit /\ d.gate = g /\ d.todo = Tail(c.todo) /\ c.gate = g /\ c = Top
          /\ s = gates[c.gate].fanins
      BY <1>3, <1>5, <2>6 DEF g, s
    <3>2. Len(gates'[g].fanins) = Len(s) + 1 /\ gates'[g].op = gates[g].op
      BY <1>3, <1>5
    <3>3. \A x : Left(x)' = Left(x) /\ Right(x)' = Right(x) /\ (Mapped(x)' <=> Mapped(x))
      BY <1>2 DEF Left, Right, Mapped
    <3> HIDE DEF c, d
    <3>4. ASSUME i = 1 PROVE Bottom(calls[i])'
      <4>1. Bottom(c)
        BY <2>1, <3>4 DEF Activation, c
      <4>2. c.todo = <<c.lit>> /\ Len(s) = 0 /\ l = c.lit
        BY <1>4, <2>6, <3>1, <3>4, <4>1 DEF Bottom, OneFanin
      <4>3. OneFanin(d.lit, gates'[g].fanins, d.todo)
        BY <3>1, <3>2, <4>2 DEF OneFanin
      <4>4. gates'[g].op = "OUTPUT" /\ d.lit = outLits'[next'] /\ (Constant(d.lit) \/ Mapped(d.lit))
        BY <1>2, <3>1, <3>2, <4>1, <4>2 DEF Bottom
      <4> QED BY <3>1, <3>3, <4>3, <4>4 DEF Bottom, d
    <3>5. ASSUME i > 1 PROVE Inner(calls[i], calls[i - 1])'
      <4>1. Inner(c, calls[i - 1])
        BY <2>1, <3>5 DEF Activation, c
      <4>2. i - 1 \in DOMAIN calls /\ i - 1 # n
        BY <1>1, <1>5, <2>6, <3>5, State DEF n
      <4>3. calls'[i - 1] = calls[i - 1]
        BY <1>3, <4>2
      <4>4. \/ Len(s) = 0 /\ c.todo = <<Left(c.lit), Right(c.lit)>>
            \/ Len(s) = 1 /\ c.todo = <<Right(c.lit)>>
        BY <1>4, <3>1, <4>1 DEF Inner, TwoFanins
      <4>5. TwoFanins(Left(d.lit), Right(d.lit), gates'[g].fanins, d.todo)
        <5> DEFINE x == Left(c.lit)
                   y == Right(c.lit)
        <5>1. /\ Left(d.lit) = x /\ Right(d.lit) = y
              /\ \/ Len(s) = 0 /\ c.todo = <<x, y>>
                 \/ Len(s) = 1 /\ c.todo = <<y>>
          BY <3>1, <4>4
        <5> HIDE DEF x, y
        <5>2. Tail(<<x, y>>) = <<y>> /\ Tail(<<y>>) = << >>
          OBVIOUS
        <5>3. CASE Len(s) = 0
          <6>1. c.todo = <<x, y>>
            BY <5>1, <5>3
          <6>2. d.todo = <<y>>
            BY <3>1, <5>2, <6>1
          <6>3. Len(gates'[g].fanins) = 1
            BY <3>2, <5>3
          <6> QED BY <5>1, <6>2, <6>3 DEF TwoFanins
        <5>4. CASE Len(s) = 1
          <6>1. c.todo = <<y>>
            BY <5>1, <5>4
          <6>2. d.todo = << >>
            BY <3>1, <5>2, <6>1
          <6>3. Len(gates'[g].fanins) = 2
            BY <3>2, <5>4
          <6> QED BY <5>1, <6>2, <6>3 DEF TwoFanins
        <5> QED BY <5>1, <5>3, <5>4
      <4>6. /\ calls[i - 1].todo # << >> /\ d.lit = Head(calls[i - 1].todo) /\ ~ Constant(d.lit)
            /\ graph'[d.lit.var].op \in BinOps /\ gates'[d.gate].op = graph'[d.lit.var].op
            /\ ~ Mapped(d.lit) /\ ~ Mapped(Not(d.lit))
        BY <1>2, <3>1, <3>2, <4>1 DEF Inner
      <4> QED BY <3>1, <3>3, <4>3, <4>5, <4>6 DEF Inner, d
    <3> QED BY <2>1, <2>3, <2>4, <3>4, <3>5 DEF Activation
  <2> QED BY <2>5, <2>6
<1>11. Meaning'
  <2> SUFFICES ASSUME NEW in \in Inputs, NEW W, NEW V, ValuesOfGraph(in, W)', ValuesOfGates(in, V)'
               PROVE  MapRight(W, V)' /\ CallsRight(W, V)' /\ OutputsRight(W, V)'
    BY DEF Meaning
  <2>1. ValuesOfGraph(in, W) /\ ValuesOfGates(in, V)
    <3>1. \A h \in Finished : gates'[h] = gates[h]
      BY <1>1, <1>3, <1>5, State
    <3> QED BY <1>2, <1>3, <3>1, ValuesBefore
  <2>2. MapRight(W, V) /\ CallsRight(W, V) /\ OutputsRight(W, V)
    BY <1>1, <2>1 DEF Meaning
  <2>3. MapRight(W, V)' /\ OutputsRight(W, V)'
    BY <1>2, <2>2 DEF MapRight, OutputsRight, Literal, Mapped
  <2>4. Pin(V, f) = Of(W, l)
    BY <1>7, <2>2
  <2>5. ASSUME NEW i \in DOMAIN calls, i # n
        PROVE  /\ calls'[i].lit = calls[i].lit
               /\ gates'[calls'[i].gate].fanins = gates[calls[i].gate].fanins
    <3>1. calls'[i] = calls[i] /\ calls[i].gate # g /\ calls[i].gate \in DOMAIN gates
      BY <1>1, <1>3, <1>5, <2>5 DEF StackOK, Activation
    <3> QED BY <1>3, <3>1
  <2>6. /\ calls'[n].lit = Top.lit /\ calls'[n].gate = g /\ calls[n].gate = g
    BY <1>3, <1>5 DEF g
  <2>7. CASE n = 1
    <3>1. Len(s) = 0 /\ l = Top.lit
      BY <1>4, <1>5, <2>7 DEF Activation, Bottom, Inner, OneFanin, TwoFanins, s, g
    <3>2. DOMAIN calls = {n}
      BY <1>1, <2>7, State DEF n
    <3> QED BY <1>3, <2>3, <2>4, <2>6, <2>7, <3>1, <3>2 DEF CallsRight
  <2>8. CASE n > 1
    <3>1. \/ Len(s) = 0 /\ l = Left(Top.lit)
          \/ Len(s) = 1 /\ l = Right(Top.lit)
      BY <1>4, <1>5, <2>8 DEF Activation, Bottom, Inner, OneFanin, TwoFanins, s, g
    <3>2. ASSUME NEW i \in DOMAIN calls'
          PROVE  LET lit == calls'[i].lit  fanins == gates'[calls'[i].gate].fanins
                 IN  /\ i = 1 /\ Len(fanins) = 1 => Pin(V, fanins[1]) = Of(W, lit)
                     /\ i > 1 /\ Len(fanins) >= 1 => Pin(V, fanins[1]) = Of(W, Left(lit))
                     /\ i > 1 /\ Len(fanins) = 2 => Pin(V, fanins[2]) = Of(W, Right(lit))
      <4>1. CASE i # n
        BY <1>3, <2>2, <2>5, <4>1 DEF CallsRight
      <4>2. CASE i = n
        <5>1. Len(s) = 1 => Pin(V, s[1]) = Of(W, Left(Top.lit))
          BY <1>5, <2>2, <2>6, <2>8 DEF CallsRight, s
        <5>2. Len(s) = 1 => gates'[g].fanins[1] = s[1]
          BY <1>3
        <5>3. i > 1 /\ ~ i = 1 /\ calls'[i].lit = Top.lit /\ calls'[i].gate = g
          BY <1>5, <2>6, <2>8, <4>2
        <5>4. CASE Len(s) = 0
          <6>1. Len(gates'[g].fanins) = 1 /\ gates'[g].fanins[1] = f /\ l = Left(Top.lit)
            BY <1>3, <3>1, <5>4
          <6> QED BY <2>4, <5>3, <6>1
        <5>5. CASE Len(s) = 1
          <6>1. Len(gates'[g].fanins) = 2 /\ gates'[g].fanins[2] = f /\ l = Right(Top.lit)
            BY <1>3, <3>1, <5>5
          <6> QED BY <2>4, <5>1, <5>2, <5>3, <5>5, <6>1
        <5> QED BY <3>1, <5>4, <5>5
      <4> QED BY <4>1, <4>2
    <3>3. UNCHANGED graph
      BY <1>2
    <3> QED BY <2>3, <3>2, <3>3 DEF CallsRight, Left, Right
  <2> QED BY <1>5, <2>7, <2>8
<1>12. NotsOK'
  <2>1. PICK of \in [Nat -> Int] : MadeFor(of)
    BY <1>1 DEF NotsOK
  <2>2. \A h \in DOMAIN gates : gates[h].op = "NOT" => gates'[h] = gates[h]
    BY <1>3, <1>5 DEF BinOps
  <2>3. MadeFor(of)'
    BY <1>2, <1>3, <2>1, <2>2 DEF MadeFor
  <2> QED BY <2>3 DEF NotsOK
<1>13. NodesOK'
  <2>1. BinaryGates' = BinaryGates
    BY <1>3 DEF BinaryGates
  <2>2. OpenVars' = OpenVars
    <3>1. \A i \in 2 .. n : calls'[i].lit = calls[i].lit
      BY <1>1, <1>3, State DEF n
    <3>2. Len(calls) = n /\ Len(calls') = n
      BY <1>3 DEF n
    <3> HIDE DEF n
    <3> QED BY <3>1, <3>2 DEF OpenVars
  <2>3. Converted' = Converted
    BY <1>2, <2>2 DEF Converted
  <2> QED BY <1>1, <2>1, <2>3 DEF NodesOK
<1>14. MapOK'
  <2> SUFFICES ASSUME NoBool
               PROVE  /\ \A d \in DOMAIN map' : map'[d] \in DOMAIN gates' => gates'[map'[d]].op # "OUTPUT"
                      /\ OutputsAreNotRead'
    BY DEF MapOK
  <2>1. /\ \A d \in DOMAIN map : map[d] \in DOMAIN gates => gates[map[d]].op # "OUTPUT"
        /\ \A h, k \in DOMAIN gates : gates[k].op = "OUTPUT" => k \notin ToSet(gates[h].fanins)
    BY <1>1 DEF MapOK, OutputsAreNotRead, NoBool
  <2>2. \A d \in DOMAIN map' : map'[d] \in DOMAIN gates' => gates'[map'[d]].op # "OUTPUT"
    BY <1>2, <1>3, <2>1
  <2>3. f \in DOMAIN gates => gates[f].op # "OUTPUT"
    <3>1. CASE Constant(l)
      BY <1>1, <1>4, <3>1, State, Literals DEF f, GateOf
    <3>2. CASE ~ Constant(l)
      BY <1>2, <1>7, <2>1, <3>2 DEF Mapped
    <3> QED BY <3>1, <3>2
  <2>4. ASSUME NEW h \in DOMAIN gates, NEW k \in DOMAIN gates, gates'[k].op = "OUTPUT"
        PROVE  k \notin ToSet(gates'[h].fanins)
    <3>1. gates[k].op = "OUTPUT"
      BY <1>3, <2>4
    <3>2. CASE h # g
      BY <1>3, <2>1, <3>1, <3>2
    <3>3. CASE h = g
      <4>1. ASSUME NEW j \in DOMAIN gates'[g].fanins
            PROVE  (j \in DOMAIN s /\ gates'[g].fanins[j] = s[j]) \/ gates'[g].fanins[j] = f
        <5>1. j \in 1 .. Len(s) \/ j = Len(s) + 1
          BY <1>6
        <5> QED BY <1>3, <1>6, <5>1
      <4>2. k \notin ToSet(s) /\ k # f
        BY <1>5, <2>1, <2>3, <3>1 DEF s
      <4> QED BY <3>3, <4>1, <4>2 DEF ToSet
    <3> QED BY <3>2, <3>3
  <2>5. OutputsAreNotRead'
    BY <1>3, <2>4 DEF OutputsAreNotRead
  <2> QED BY <2>2, <2>5
<1> QED BY <1>8, <1>9, <1>10, <1>11, <1>12, <1>13, <1>14 DEF Kept

\* A gate is opened: what is complete stays as it is.
Opened(op, l, todo) ==
  /\ gates' = Append(gates, [op |-> op, fanins |-> << >>])
  /\ calls' = Append(calls, Call(l, todo))
  /\ UNCHANGED <<graph, inLits, outLits, next, outputs, map>>

LEMMA OpenKeeps ==
  ASSUME IInv, NEW op \in BinOps \cup {"OUTPUT"}, NEW l \in Literal, NEW todo \in Seq(Lits),
         Opened(op, l, todo)
  PROVE  /\ CircuitOK' /\ Meaning' /\ NotsOK' /\ MapOK'
         /\ \A i \in DOMAIN calls : calls'[i].lit \in Literal' /\ Activation(i)'
<1> DEFINE g == Len(gates) + 1
           n == Len(calls) + 1
<1>1. /\ GraphOK /\ CircuitOK /\ StackOK /\ Meaning /\ NotsOK /\ MapOK
  BY DEF IInv
<1>2. /\ gates' \in Seq(GateRecord) /\ g \in Nat
      /\ DOMAIN gates' = DOMAIN gates \cup {g} /\ g \notin DOMAIN gates
      /\ g # ONE /\ g # ZERO
      /\ \A h \in DOMAIN gates : gates'[h] = gates[h] /\ h < g
      /\ gates'[g].op = op /\ gates'[g].fanins = << >>
  <2>1. << >> \in Seq(Int)
    OBVIOUS
  <2> QED BY <1>1, <2>1, GateCreated DEF Opened
<1>3. /\ calls' \in Seq(CallRecord) /\ n \in Nat
      /\ DOMAIN calls' = DOMAIN calls \cup {n} /\ n \notin DOMAIN calls
      /\ \A i \in DOMAIN calls : calls'[i] = calls[i] /\ i < n
      /\ calls'[n].lit = l /\ calls'[n].gate = g
      /\ Finished' = Finished /\ Sources' = Sources
  <2>1. l \in Lits
    BY <1>1, Literals
  <2> QED BY <1>1, <2>1, OpenEffect DEF Opened
<1>11. UNCHANGED <<graph, inLits, outLits, next, outputs, map>>
  BY DEF Opened
<1>4. DOMAIN gates'[g].fanins = {} /\ Len(gates'[g].fanins) = 0 /\ op \notin {"INPUT", "NOT"}
  BY <1>2 DEF BinOps
<1>5. /\ Finished \subseteq DOMAIN gates /\ Sources = {ONE, ZERO} \cup Finished
      /\ ONE \notin DOMAIN gates /\ ZERO \notin DOMAIN gates
  BY <1>1, State DEF Sources
<1> HIDE DEF g, n
<1>6. CircuitOK'
  <2>1. \A h \in DOMAIN gates' : gates'[h].op = "INPUT" => h \in DOMAIN InTypes
    BY <1>1, <1>2, <1>4 DEF CircuitOK
  <2>2. \A h \in Finished' : Len(gates'[h].fanins) = Arity(gates'[h].op)
    BY <1>1, <1>2, <1>3, <1>5 DEF CircuitOK
  <2>3. ASSUME NEW h \in DOMAIN gates', NEW j \in DOMAIN gates'[h].fanins
        PROVE  gates'[h].fanins[j] \in Sources'
    <3>1. CASE h \in DOMAIN gates
      BY <1>1, <1>2, <1>3, <3>1 DEF CircuitOK
    <3>2. CASE h = g
      BY <1>4, <3>2
    <3> QED BY <1>2, <3>1, <3>2
  <2>4. Ordered(Finished', gates')
    <3>1. \A h \in Finished : gates'[h] = gates[h]
      BY <1>2, <1>5
    <3>2. Ordered(Finished, gates)
      BY <1>1 DEF CircuitOK
    <3>3. Ordered(Finished, gates')
      BY <3>1, <3>2, OrderedSame
    <3> QED BY <1>3, <3>3
  <2> QED BY <1>1, <1>2, <1>3, <1>11, <2>1, <2>2, <2>3, <2>4 DEF CircuitOK
<1>7. Meaning'
  <2> SUFFICES ASSUME NEW in \in Inputs, NEW W, NEW V, ValuesOfGraph(in, W)', ValuesOfGates(in, V)'
               PROVE  MapRight(W, V)' /\ CallsRight(W, V)' /\ OutputsRight(W, V)'
    BY DEF Meaning
  <2>1. ValuesOfGraph(in, W) /\ ValuesOfGates(in, V)
    <3>1. \A h \in Finished : gates'[h] = gates[h]
      BY <1>2, <1>5
    <3> QED BY <1>3, <1>11, <3>1, ValuesBefore
  <2>2. MapRight(W, V) /\ CallsRight(W, V) /\ OutputsRight(W, V)
    BY <1>1, <2>1 DEF Meaning
  <2>3. MapRight(W, V)' /\ OutputsRight(W, V)'
    BY <1>11, <2>2 DEF MapRight, OutputsRight, Literal, Mapped
  <2>4. ASSUME NEW i \in DOMAIN calls'
        PROVE  LET lit == calls'[i].lit  fanins == gates'[calls'[i].gate].fanins
               IN  /\ i = 1 /\ Len(fanins) = 1 => Pin(V, fanins[1]) = Of(W, lit)
                   /\ i > 1 /\ Len(fanins) >= 1 => Pin(V, fanins[1]) = Of(W, Left(lit))
                   /\ i > 1 /\ Len(fanins) = 2 => Pin(V, fanins[2]) = Of(W, Right(lit))
    <3>1. CASE i \in DOMAIN calls
      <4>1. calls'[i] = calls[i] /\ gates'[calls[i].gate] = gates[calls[i].gate]
        BY <1>1, <1>2, <1>3, <3>1 DEF StackOK, Activation
      <4> QED BY <2>2, <3>1, <4>1 DEF CallsRight
    <3>2. CASE i = n
      BY <1>3, <1>4, <3>2
    <3> QED BY <1>3, <3>1, <3>2
  <2> QED BY <1>11, <2>3, <2>4 DEF CallsRight, Left, Right
<1>8. NotsOK'
  <2>1. PICK of \in [Nat -> Int] : MadeFor(of)
    BY <1>1 DEF NotsOK
  <2>2. \A d \in DOMAIN map : map[d] # g
    BY <1>1, <1>2, <1>5 DEF CircuitOK
  <2>3. \A h \in DOMAIN gates' : gates'[h].op = "NOT" => h \in DOMAIN gates /\ gates[h].op = "NOT" /\ gates'[h] = gates[h]
    BY <1>2, <1>4
  <2>4. MadeFor(of)'
    BY <1>2, <1>11, <2>1, <2>2, <2>3 DEF MadeFor
  <2> QED BY <2>4 DEF NotsOK
<1>9. MapOK'
  <2> SUFFICES ASSUME NoBool
               PROVE  /\ \A d \in DOMAIN map' : map'[d] \in DOMAIN gates' => gates'[map'[d]].op # "OUTPUT"
                      /\ OutputsAreNotRead'
    BY DEF MapOK
  <2>1. /\ \A d \in DOMAIN map : map[d] \in DOMAIN gates => gates[map[d]].op # "OUTPUT"
        /\ \A h, k \in DOMAIN gates : gates[k].op = "OUTPUT" => k \notin ToSet(gates[h].fanins)
    BY <1>1 DEF MapOK, OutputsAreNotRead, NoBool
  <2>2. \A d \in DOMAIN map : map[d] # g
    BY <1>1, <1>2, <1>5 DEF CircuitOK
  <2>3. \A d \in DOMAIN map' : map'[d] \in DOMAIN gates' => gates'[map'[d]].op # "OUTPUT"
    BY <1>2, <1>11, <2>1, <2>2
  <2>4. ASSUME NEW h \in DOMAIN gates', NEW k \in DOMAIN gates', gates'[k].op = "OUTPUT"
        PROVE  k \notin ToSet(gates'[h].fanins)
    <3>1. CASE h = g
      BY <1>4, <3>1 DEF ToSet
    <3>2. CASE h \in DOMAIN gates /\ k \in DOMAIN gates
      BY <1>2, <2>1, <2>4, <3>2
    <3>3. CASE h \in DOMAIN gates /\ k = g
      <4>1. \A j \in DOMAIN gates[h].fanins : gates[h].fanins[j] # g
        BY <1>1, <1>2, <1>5, <3>3 DEF CircuitOK
      <4> QED BY <1>2, <3>3, <4>1 DEF ToSet
    <3> QED BY <1>2, <3>1, <3>2, <3>3
  <2>5. OutputsAreNotRead'
    BY <2>4 DEF OutputsAreNotRead
  <2> QED BY <2>3, <2>5
<1>10. ASSUME NEW i \in DOMAIN calls
       PROVE  calls'[i].lit \in Literal' /\ Activation(i)'
  <2>1. calls[i].lit \in Literal /\ Activation(i) /\ Literal' = Literal
    BY <1>1, <1>11 DEF StackOK, Literal
  <2>2. calls'[i] = calls[i] /\ gates'[calls[i].gate] = gates[calls[i].gate] /\ calls[i].gate \in DOMAIN gates
    BY <1>2, <1>3, <2>1 DEF Activation
  <2>3. i > 1 => i - 1 \in DOMAIN calls /\ calls'[i - 1] = calls[i - 1]
    <3>1. i > 1 => i - 1 \in DOMAIN calls
      BY <1>1, State
    <3> QED BY <1>3, <3>1
  <2>4. \A j \in DOMAIN calls' : j < i => j \in DOMAIN calls /\ calls'[j] = calls[j]
    <3>1. i < n /\ i \in Int /\ n \in Int
      BY <1>1, <1>3, State
    <3> QED BY <1>3, <3>1
  <2>5. i = 1 => Bottom(calls[i])'
    BY <1>11, <2>1, <2>2 DEF Activation, Bottom, Mapped
  <2>6. i > 1 => Inner(calls[i], calls[i - 1])'
    BY <1>11, <2>1, <2>2, <2>3 DEF Activation, Inner, Mapped, Left, Right
  <2> QED BY <1>2, <2>1, <2>2, <2>4, <2>5, <2>6 DEF Activation
<1> QED BY <1>6, <1>7, <1>8, <1>9, <1>10

LEMMA CreateOutputKeeps ==
  ASSUME IInv, CreateOutput
  PROVE  Kept'
<1> DEFINE l == outLits[next]
           g == Len(gates) + 1
<1>1. /\ phase = "outputs" /\ next <= Len(OutTypes) /\ calls = << >>
      /\ gates' = Append(gates, [op |-> "OUTPUT", fanins |-> << >>])
      /\ calls' = <<Call(l, <<l>>)>>
      /\ UNCHANGED <<graph, inLits, outLits, phase, next, outputs, map>>
  BY DEF CreateOutput
<1>2. GraphOK /\ PhaseOK /\ CircuitOK /\ StackOK /\ NodesOK
  BY DEF IInv
<1>3. next \in DOMAIN OutTypes /\ l \in Literal /\ l \in Lits /\ <<l>> \in Seq(Lits)
  <2>1. next \in DOMAIN OutTypes /\ l \in Literal
    <3>1. next \in DOMAIN OutTypes
      BY <1>1, <1>2, Widths DEF PhaseOK
    <3>2. outLits \in [DOMAIN OutTypes -> Literal]
      BY <1>1, <1>2 DEF PhaseOK
    <3> QED BY <3>1, <3>2
  <2>2. l \in Lits
    BY <1>2, <2>1, Literals
  <2> HIDE DEF l
  <2> QED BY <2>1, <2>2
<1>4. calls' = Append(calls, Call(l, <<l>>)) /\ Len(calls) = 0 /\ DOMAIN calls = {}
  BY <1>1
<1> HIDE DEF l
<1>5. CircuitOK' /\ Meaning' /\ NotsOK' /\ MapOK'
  BY <1>1, <1>2, <1>3, <1>4, OpenKeeps DEF Opened
<1>6. /\ calls' \in Seq(CallRecord) /\ Len(calls') = 1 /\ DOMAIN calls' = {1}
      /\ calls'[1].lit = l /\ calls'[1].gate = g /\ calls'[1].todo = <<l>>
  <2>1. /\ calls' \in Seq(CallRecord) /\ Len(calls') = 0 + 1 /\ DOMAIN calls' = {} \cup {0 + 1}
        /\ calls'[0 + 1].lit = l /\ calls'[0 + 1].gate = g /\ calls'[0 + 1].todo = <<l>>
    BY <1>1, <1>2, <1>3, <1>4, OpenEffect
  <2>2. 0 + 1 = 1
    OBVIOUS
  <2> QED BY <2>1, <2>2
<1>7. /\ DOMAIN gates' = DOMAIN gates \cup {g} /\ g \notin DOMAIN gates
      /\ \A h \in DOMAIN gates : gates'[h] = gates[h]
      /\ gates'[g].op = "OUTPUT" /\ gates'[g].fanins = << >>
  <2>1. << >> \in Seq(Int)
    OBVIOUS
  <2> QED BY <1>1, <1>2, <2>1, GateCreated
<1> HIDE DEF g
<1>8. PhaseOK'
  BY <1>1, <1>2, <1>6 DEF PhaseOK, Literal
<1>9. StackOK'
  <2>1. Bottom(calls[1])'
    <3>1. OneFanin(l, gates'[g].fanins, <<l>>)
      BY <1>7 DEF OneFanin
    <3>2. <<l>> # << >>
      OBVIOUS
    <3> QED BY <1>1, <1>6, <1>7, <3>1, <3>2 DEF Bottom, l
  <2>2. Activation(1)'
    BY <1>6, <1>7, <2>1 DEF Activation
  <2>3. Literal' = Literal
    BY <1>1 DEF Literal
  <2> QED BY <1>3, <1>6, <2>2, <2>3 DEF StackOK
<1>10. NodesOK'
  <2>1. BinaryGates' = BinaryGates
    BY <1>7 DEF BinaryGates, BinOps
  <2>2. OpenVars = {} /\ OpenVars' = {}
    BY <1>4, <1>6 DEF OpenVars
  <2>3. Converted' = Converted
    BY <1>1, <2>2 DEF Converted
  <2> QED BY <1>2, <2>1, <2>3 DEF NodesOK
<1> QED BY <1>5, <1>8, <1>9, <1>10 DEF Kept

LEMMA DescendKeeps ==
  ASSUME IInv, NEW l, Descend(l)
  PROVE  Kept'
<1> DEFINE g == Len(gates) + 1
           n == Len(calls) + 1
           op == graph[l.var].op
           todo == <<Left(l), Right(l)>>
<1>1. /\ Wanted(l) /\ ~ Constant(l) /\ ~ Mapped(l) /\ ~ Mapped(Not(l)) /\ op # "input"
      /\ gates' = Append(gates, [op |-> op, fanins |-> << >>])
      /\ calls' = Append(calls, Call(l, todo))
      /\ UNCHANGED <<graph, inLits, outLits, phase, next, outputs, map>>
  BY DEF Descend, Left, Right
<1>2. GraphOK /\ PhaseOK /\ CircuitOK /\ StackOK /\ NodesOK
  BY DEF IInv
<1>3. /\ calls # << >> /\ Top.todo # << >> /\ l = Head(Top.todo) /\ l \in Literal
      /\ \A i \in 2 .. Len(calls) : l.var < calls[i].lit.var
      /\ Len(calls) \in Nat \ {0} /\ Top = calls[Len(calls)] /\ phase = "outputs"
  BY <1>1, WantedOf, TopOf
<1>4. /\ l.var \in DOMAIN graph /\ l \in Lits /\ op \in BinOps /\ l.var \in Int /\ l.sign \in BOOLEAN
      /\ Left(l) \in Lits /\ Right(l) \in Lits
  <2>1. l.var \in DOMAIN graph /\ l \in Lits /\ l.var \in Int /\ l.sign \in BOOLEAN
    BY <1>1, <1>2, <1>3, Literals
  <2>2. op \in BinOps /\ Left(l) \in Literal /\ Right(l) \in Literal
    BY <1>1, <1>2, <2>1, Fanins DEF Left, Right
  <2> QED BY <1>2, <2>1, <2>2, Literals
<1>5. todo \in Seq(Lits)
  <2> DEFINE x == Left(l)
             y == Right(l)
  <2>1. x \in Lits /\ y \in Lits
    BY <1>4
  <2> HIDE DEF x, y
  <2>2. <<x, y>> \in Seq(Lits)
    BY <2>1
  <2> QED BY <2>2 DEF x, y
<1> HIDE DEF todo
<1>6. /\ CircuitOK' /\ Meaning' /\ NotsOK' /\ MapOK'
      /\ \A i \in DOMAIN calls : calls'[i].lit \in Literal' /\ Activation(i)'
  <2>1. op \in BinOps \cup {"OUTPUT"}
    BY <1>4
  <2> HIDE DEF op
  <2> QED BY <1>1, <1>2, <1>3, <1>5, <2>1, OpenKeeps DEF Opened
<1>7. /\ calls' \in Seq(CallRecord) /\ Len(calls') = n /\ DOMAIN calls' = DOMAIN calls \cup {n}
      /\ n \notin DOMAIN calls /\ \A i \in DOMAIN calls : calls'[i] = calls[i] /\ i < n
      /\ calls'[n].lit = l /\ calls'[n].gate = g /\ calls'[n].todo = todo
  <2>1. op \in BinOps \cup {"OUTPUT"}
    BY <1>4
  <2> HIDE DEF op
  <2> QED BY <1>1, <1>2, <1>4, <1>5, <2>1, OpenEffect
<1>8. /\ DOMAIN gates' = DOMAIN gates \cup {g} /\ g \notin DOMAIN gates
      /\ \A h \in DOMAIN gates : gates'[h] = gates[h] /\ h < g
      /\ gates'[g].op = op /\ gates'[g].fanins = << >>
  <2>1. << >> \in Seq(Int) /\ op \in BinOps \cup {"INPUT", "NOT", "OUTPUT"}
    BY <1>4
  <2> HIDE DEF op
  <2> QED BY <1>1, <1>2, <2>1, GateCreated
<1>9. /\ n \in Nat /\ n > 1 /\ n - 1 = Len(calls) /\ n - 1 \in DOMAIN calls
  BY <1>2, <1>3, State
<1> HIDE DEF g, n
<1>10. PhaseOK'
  BY <1>1, <1>2, <1>3, Widths DEF PhaseOK, Literal
<1>11. StackOK'
  <2>1. ASSUME NEW i, i = n PROVE calls'[i].lit \in Literal' /\ Activation(i)'
    <3>1. calls'[i - 1] = Top /\ i > 1
      BY <1>3, <1>7, <1>9, <2>1
    <3>2. TwoFanins(Left(l), Right(l), gates'[g].fanins, todo)
      BY <1>8 DEF TwoFanins, todo
    <3>3. Literal' = Literal /\ Left(l)' = Left(l) /\ Right(l)' = Right(l)
      BY <1>1 DEF Literal, Left, Right
    <3>4. \A x : (Mapped(x)' <=> Mapped(x)) /\ Left(x)' = Left(x) /\ Right(x)' = Right(x)
      BY <1>1 DEF Mapped, Left, Right
    <3>5. Inner(calls[i], calls[i - 1])'
      BY <1>1, <1>3, <1>4, <1>7, <1>8, <2>1, <3>1, <3>2, <3>4 DEF Inner
    <3>6. \A j \in DOMAIN calls' : j < i => j \in DOMAIN calls /\ calls'[j] = calls[j]
      BY <1>7, <2>1
    <3>7. \A j \in DOMAIN calls : calls[j].gate \in DOMAIN gates
      BY <1>2 DEF StackOK, Activation
    <3>8. \A j \in DOMAIN calls : 1 < j => j \in 2 .. Len(calls)
      BY <1>2, State
    <3>9. \A j \in DOMAIN calls' : j < i => calls'[j].gate < calls'[i].gate
      BY <1>7, <1>8, <2>1, <3>6, <3>7
    <3>10. \A j \in DOMAIN calls' : 1 < j /\ j < i => calls'[j].lit.var > calls'[i].lit.var
      <4> SUFFICES ASSUME NEW j \in DOMAIN calls, 1 < j PROVE calls[j].lit.var > l.var
        BY <1>7, <2>1, <3>6
      <4>1. l.var < calls[j].lit.var
        BY <1>3, <3>8
      <4>2. calls[j].lit \in Lits
        BY <1>2, State
      <4>3. calls[j].lit.var \in Int
        BY <4>2 DEF Lits
      <4> QED BY <1>4, <4>1, <4>3
    <3>11. calls'[i].gate \in DOMAIN gates'
      BY <1>7, <1>8, <2>1
    <3>12. calls'[i].lit \in Literal'
      BY <1>3, <1>7, <2>1, <3>3
    <3> QED BY <3>1, <3>5, <3>9, <3>10, <3>11, <3>12 DEF Activation
  <2> QED BY <1>6, <1>7, <2>1 DEF StackOK
<1>12. NodesOK'
  <2>1. BinaryGates' = BinaryGates \cup {g} /\ g \notin BinaryGates
    BY <1>4, <1>8 DEF BinaryGates
  <2>2. OpenVars' = OpenVars \cup {l.var}
    <3>1. 2 .. n = 2 .. Len(calls) \cup {n}
      BY <1>3, <1>9 DEF n
    <3>2. \A i \in 2 .. Len(calls) : calls'[i] = calls[i]
      BY <1>2, <1>7, State
    <3> QED BY <1>7, <3>1, <3>2 DEF OpenVars
  <2>3. Converted' = Converted \cup {l.var}
    BY <1>1, <1>4, <2>2 DEF Converted
  <2>4. l.var \notin Converted
    <3>1. l.var \notin DOMAIN map /\ -l.var \notin DOMAIN map
      <4>1. /\ l.sign = TRUE => Dimacs(l) = -l.var /\ Dimacs(Not(l)) = l.var
            /\ l.sign = FALSE => Dimacs(l) = l.var /\ Dimacs(Not(l)) = -l.var
        <5>1. /\ l.sign = TRUE => Dimacs(l) = -l.var
              /\ l.sign = FALSE => Dimacs(l) = l.var
          BY DEF Dimacs
        <5>2. Dimacs(Not(l)) = -Dimacs(l)
          BY <1>2, <1>3, Literals
        <5> QED BY <1>4, <5>1, <5>2
      <4> QED BY <1>1, <1>4, <4>1 DEF Mapped
    <3>2. l.var \notin OpenVars
      <4> SUFFICES ASSUME NEW i \in 2 .. Len(calls), l.var = calls[i].lit.var PROVE FALSE
        BY DEF OpenVars
      <4> QED BY <1>3, <1>4
    <3> QED BY <3>1, <3>2 DEF Converted
  <2>5. IsFiniteSet(BinaryGates) /\ IsFiniteSet(Converted)
    <3>1. BinaryGates \subseteq 1 .. Len(gates) /\ Len(gates) \in Nat
      BY <1>2, State DEF BinaryGates
    <3>2. Converted \subseteq DOMAIN graph
      BY DEF Converted
    <3>3. IsFiniteSet(1 .. Len(gates))
      BY <3>1, FS_Interval
    <3>4. IsFiniteSet(DOMAIN graph)
      BY <1>2, Variables
    <3> QED BY <3>1, <3>2, <3>3, <3>4, FS_Subset
  <2>6. /\ Cardinality(BinaryGates') = Cardinality(BinaryGates) + 1
        /\ Cardinality(Converted') = Cardinality(Converted) + 1
        /\ Cardinality(BinaryGates) \in Nat /\ Cardinality(Converted) \in Nat
    BY <2>1, <2>3, <2>4, <2>5, FS_AddElement, FS_CardinalityType
  <2> QED BY <1>2, <2>6 DEF NodesOK
<1> QED BY <1>6, <1>10, <1>11, <1>12 DEF Kept

----------------------------------------------------------------------------
(* The steps that complete gates: a, and then b, which may be the same.    *)

Settled(a, b) ==
  /\ gates' \in Seq(GateRecord) /\ calls' \in Seq(CallRecord)
  /\ \A h \in DOMAIN gates : h \in DOMAIN gates' /\ gates'[h] = gates[h]
  /\ DOMAIN gates' = DOMAIN gates \cup {a, b}
  /\ Finished' = Finished \cup {a, b} /\ a \notin Finished /\ b \notin Finished
  /\ \A g \in {a, b} : /\ Len(gates'[g].fanins) = Arity(gates'[g].op)
                       /\ gates'[g].op = "INPUT" => g \in DOMAIN InTypes
  /\ \A j \in DOMAIN gates'[a].fanins : gates'[a].fanins[j] \in Sources
  /\ \A j \in DOMAIN gates'[b].fanins : gates'[b].fanins[j] \in Sources \cup {a}
  /\ outputs' \in Seq(Nat) /\ \A k \in DOMAIN outputs' : outputs'[k] \in Finished \cup {a, b}
  /\ map' = [d \in DOMAIN map' |-> map'[d]] /\ DOMAIN map' \subseteq Int
  /\ DOMAIN map \subseteq DOMAIN map'
  /\ \A d \in DOMAIN map' : map'[d] \in {a, b, ZERO} \/ (d \in DOMAIN map /\ map'[d] = map[d])
  /\ UNCHANGED <<graph, inLits, outLits>>

\* What is new about them: they are gates, and nothing has read them.
LEMMA NewGates ==
  ASSUME CircuitOK, NEW a, NEW b, Settled(a, b)
  PROVE  \A g \in {a, b} :
           /\ g \in DOMAIN gates' /\ g \in Nat /\ g # ONE /\ g # ZERO /\ g \notin Sources
           /\ \A h \in DOMAIN gates : \A j \in DOMAIN gates[h].fanins : gates[h].fanins[j] # g
           /\ \A d \in DOMAIN map : map[d] # g
<1>1. ASSUME NEW g \in {a, b} PROVE g \in DOMAIN gates' /\ g \in Nat /\ g # ONE /\ g # ZERO
  <2>1. g \in DOMAIN gates' /\ gates' \in Seq(GateRecord)
    BY DEF Settled
  <2>2. g \in 1 .. Len(gates') /\ Len(gates') \in Nat
    BY <2>1
  <2> QED BY <2>1, <2>2 DEF ONE, ZERO
<1>2. \A g \in {a, b} : g \notin Sources
  BY <1>1 DEF Settled, Sources
<1>3. /\ \A h \in DOMAIN gates : \A j \in DOMAIN gates[h].fanins : gates[h].fanins[j] \in Sources
      /\ \A d \in DOMAIN map : map[d] \in Sources
  BY DEF CircuitOK, Sources
<1> QED BY <1>1, <1>2, <1>3

LEMMA CircuitSettled ==
  ASSUME CircuitOK, NEW a, NEW b, Settled(a, b)
  PROVE  CircuitOK'
<1>1. /\ gates' \in Seq(GateRecord) /\ calls' \in Seq(CallRecord)
      /\ \A h \in DOMAIN gates : h \in DOMAIN gates' /\ gates'[h] = gates[h]
      /\ DOMAIN gates' = DOMAIN gates \cup {a, b}
      /\ Finished' = Finished \cup {a, b} /\ a \notin Finished /\ b \notin Finished
      /\ \A g \in {a, b} : /\ Len(gates'[g].fanins) = Arity(gates'[g].op)
                           /\ gates'[g].op = "INPUT" => g \in DOMAIN InTypes
      /\ \A j \in DOMAIN gates'[a].fanins : gates'[a].fanins[j] \in Sources
      /\ \A j \in DOMAIN gates'[b].fanins : gates'[b].fanins[j] \in Sources \cup {a}
  BY DEF Settled
<1>2. Finished \subseteq DOMAIN gates /\ Sources' = Sources \cup {a, b}
  BY <1>1 DEF Finished, Sources
<1>3. \A h \in DOMAIN gates' : gates'[h].op = "INPUT" => h \in DOMAIN InTypes
  BY <1>1 DEF CircuitOK
<1>4. \A h \in Finished' : Len(gates'[h].fanins) = Arity(gates'[h].op)
  BY <1>1, <1>2 DEF CircuitOK
<1>5. ASSUME NEW h \in DOMAIN gates', NEW j \in DOMAIN gates'[h].fanins
      PROVE  gates'[h].fanins[j] \in Sources'
  <2>1. CASE h \in {a, b}
    BY <1>1, <1>2, <2>1
  <2>2. CASE h \in DOMAIN gates
    BY <1>1, <1>2, <2>2 DEF CircuitOK
  <2> QED BY <1>1, <2>1, <2>2
<1>6. /\ outputs' \in Seq(Nat) /\ map' = [d \in DOMAIN map' |-> map'[d]] /\ DOMAIN map' \subseteq Int
      /\ \A k \in DOMAIN outputs' : outputs'[k] \in Finished'
  BY <1>1 DEF Settled
<1>7. \A d \in DOMAIN map' : map'[d] \in {ZERO} \cup Finished'
  BY <1>1 DEF Settled, CircuitOK
<1>8. Ordered(Finished', gates')
  <2>1. Ordered(Finished, gates')
    <3>1. \A h \in Finished : gates'[h] = gates[h]
      BY <1>1, <1>2
    <3>2. Ordered(Finished, gates)
      BY DEF CircuitOK
    <3> QED BY <3>1, <3>2, OrderedSame
  <2>2. \A h \in Finished : \A j \in DOMAIN gates'[h].fanins : gates'[h].fanins[j] \in Sources
    BY <1>1, <1>2 DEF CircuitOK
  <2>3. a \notin Sources /\ b \notin Sources
    BY NewGates
  <2>4. Ordered(Finished \cup {a}, gates')
    <3>1. \A g \in Finished \cup {a} : \A j \in DOMAIN gates'[g].fanins : gates'[g].fanins[j] # a
      BY <1>1, <2>2, <2>3
    <3> QED BY <2>1, <3>1, OrderedAdd
  <2>5. CASE a = b
    <3>1. Finished' = Finished \cup {a}
      BY <1>1, <2>5
    <3> QED BY <2>4, <3>1
  <2>6. CASE a # b
    <3>1. \A g \in Finished \cup {a} \cup {b} : \A j \in DOMAIN gates'[g].fanins : gates'[g].fanins[j] # b
      BY <1>1, <2>2, <2>3, <2>6
    <3>2. Ordered((Finished \cup {a}) \cup {b}, gates')
      BY <2>4, <3>1, OrderedAdd
    <3>3. Finished' = (Finished \cup {a}) \cup {b}
      BY <1>1
    <3> QED BY <3>2, <3>3
  <2> QED BY <2>5, <2>6
<1> QED BY <1>1, <1>3, <1>4, <1>5, <1>6, <1>7, <1>8 DEF CircuitOK

\* The activations that stay.
Stays == /\ DOMAIN calls' = 1 .. Len(calls') /\ Len(calls') \in Nat
         /\ \A i \in DOMAIN calls' : i \in DOMAIN calls /\ calls'[i] = calls[i]

\* The literals of a variable v get gates, and no activation that stays is for it.
LEMMA StackSettled ==
  ASSUME IInv, NEW a, NEW b, Settled(a, b), Stays, next' = next,
         NEW v \in Nat \ {0}, \A i \in 2 .. Len(calls') : calls[i].lit.var # v,
         \A d \in DOMAIN map' : d \in DOMAIN map \/ d = v \/ d = -v
  PROVE  StackOK'
<1> SUFFICES ASSUME NEW i \in DOMAIN calls' PROVE calls'[i].lit \in Literal' /\ Activation(i)'
  BY DEF StackOK
<1>1. GraphOK /\ CircuitOK /\ StackOK
  BY DEF IInv
<1>2. /\ UNCHANGED <<graph, inLits, outLits>> /\ DOMAIN map \subseteq DOMAIN map'
      /\ \A h \in DOMAIN gates : h \in DOMAIN gates' /\ gates'[h] = gates[h]
  BY DEF Settled
<1>3. i \in DOMAIN calls /\ calls'[i] = calls[i] /\ i \in 1 .. Len(calls') /\ DOMAIN calls' = 1 .. Len(calls') /\ Len(calls') \in Nat
  BY DEF Stays
<1>4. calls[i].lit \in Literal /\ Activation(i) /\ Literal' = Literal
  BY <1>1, <1>2, <1>3 DEF StackOK, Literal
<1>5. calls[i].gate \in DOMAIN gates /\ gates'[calls[i].gate] = gates[calls[i].gate] /\ calls[i].gate \in DOMAIN gates'
  BY <1>2, <1>4 DEF Activation
<1>6. \A x : (Mapped(x) => Mapped(x)') /\ Left(x)' = Left(x) /\ Right(x)' = Right(x)
  BY <1>2 DEF Mapped, Left, Right
<1>7. \A j \in DOMAIN calls' : j \in DOMAIN calls /\ calls'[j] = calls[j]
  BY DEF Stays
<1>8. i = 1 => Bottom(calls[i])'
  BY <1>2, <1>3, <1>4, <1>5, <1>6 DEF Activation, Bottom
<1>9. ASSUME i > 1 PROVE Inner(calls[i], calls[i - 1])'
  <2> DEFINE l == calls[i].lit
  <2>1. i - 1 \in DOMAIN calls'
    BY <1>3, <1>9
  <2>2. calls'[i - 1] = calls[i - 1] /\ Inner(calls[i], calls[i - 1])
    BY <1>4, <1>7, <1>9, <2>1 DEF Activation
  <2>3. l.var # v
    BY <1>3, <1>9
  <2>4. l \in Literal /\ ~ Constant(l) /\ ~ Mapped(l) /\ ~ Mapped(Not(l))
    BY <1>4, <2>2 DEF Inner
  <2> HIDE DEF l
  <2>5. l.var \in Nat /\ l.var > 0 /\ Dimacs(Not(l)) = -Dimacs(l) /\ l.sign \in BOOLEAN
    BY <1>1, <2>4, Literals
  <2>6. Dimacs(l) = l.var \/ Dimacs(l) = -l.var
    BY DEF Dimacs
  <2>7. Dimacs(l) # v /\ Dimacs(l) # -v /\ -Dimacs(l) # v /\ -Dimacs(l) # -v
    BY <2>3, <2>5, <2>6
  <2>8. Dimacs(l) \notin DOMAIN map' /\ Dimacs(Not(l)) \notin DOMAIN map'
    BY <2>4, <2>5, <2>7 DEF Mapped
  <2> QED BY <1>2, <1>3, <1>5, <1>6, <2>2, <2>8 DEF Inner, Mapped, l
<1> QED BY <1>3, <1>4, <1>5, <1>7, <1>8, <1>9 DEF Activation

LEMMA MeaningSettled ==
  ASSUME IInv, NEW a, NEW b, Settled(a, b), Stays,
         \A in \in Inputs : \A W, V :
           ValuesOfGraph(in, W) /\ ValuesOfGates(in, V)' /\ MapRight(W, V) /\ CallsRight(W, V) /\ OutputsRight(W, V) =>
             MapRight(W, V)' /\ OutputsRight(W, V)'
  PROVE  Meaning'
<1> SUFFICES ASSUME NEW in \in Inputs, NEW W, NEW V, ValuesOfGraph(in, W)', ValuesOfGates(in, V)'
             PROVE  MapRight(W, V)' /\ CallsRight(W, V)' /\ OutputsRight(W, V)'
  BY DEF Meaning
<1>1. CircuitOK /\ StackOK /\ Meaning
  BY DEF IInv
<1>2. /\ UNCHANGED <<graph, inLits>> /\ Finished \subseteq Finished'
      /\ \A h \in DOMAIN gates : h \in DOMAIN gates' /\ gates'[h] = gates[h]
  BY DEF Settled
<1>3. ValuesOfGraph(in, W) /\ ValuesOfGates(in, V)
  <2>1. \A h \in Finished : gates'[h] = gates[h]
    BY <1>2 DEF Finished
  <2> QED BY <1>2, <2>1, ValuesBefore
<1>4. MapRight(W, V) /\ CallsRight(W, V) /\ OutputsRight(W, V)
  BY <1>1, <1>3 DEF Meaning
<1>5. MapRight(W, V)' /\ OutputsRight(W, V)'
  BY <1>3, <1>4
<1>6. ASSUME NEW i \in DOMAIN calls'
      PROVE  LET lit == calls'[i].lit  fanins == gates'[calls'[i].gate].fanins
             IN  /\ i = 1 /\ Len(fanins) = 1 => Pin(V, fanins[1]) = Of(W, lit)
                 /\ i > 1 /\ Len(fanins) >= 1 => Pin(V, fanins[1]) = Of(W, Left(lit))
                 /\ i > 1 /\ Len(fanins) = 2 => Pin(V, fanins[2]) = Of(W, Right(lit))
  <2>1. i \in DOMAIN calls /\ calls'[i] = calls[i]
    BY DEF Stays
  <2>2. gates'[calls[i].gate] = gates[calls[i].gate]
    BY <1>1, <1>2, <2>1 DEF StackOK, Activation
  <2> QED BY <1>4, <2>1, <2>2 DEF CallsRight
<1>7. CallsRight(W, V)'
  BY <1>2, <1>6 DEF CallsRight, Left, Right
<1> QED BY <1>5, <1>7

\* The gates that are being converted are no NOT gates.
LEMMA NotsComplete ==
  ASSUME CircuitOK, StackOK, NEW h \in DOMAIN gates, gates[h].op = "NOT"
  PROVE  h \in Finished /\ 1 \in DOMAIN gates[h].fanins
<1>1. ASSUME NEW i \in DOMAIN calls PROVE calls[i].gate # h
  <2>1. i \in 1 .. Len(calls) /\ Len(calls) \in Nat /\ Activation(i)
    BY State DEF StackOK
  <2>2. i = 1 \/ i > 1
    BY <2>1
  <2>3. gates[calls[i].gate].op \in BinOps \cup {"OUTPUT"}
    BY <2>1, <2>2 DEF Activation, Bottom, Inner
  <2> QED BY <2>3 DEF BinOps
<1>2. h \in Finished
  BY <1>1 DEF Finished
<1>3. Len(gates[h].fanins) = 1
  BY <1>2 DEF CircuitOK, Arity
<1> QED BY <1>2, <1>3, State

LEMMA NotsSettled ==
  ASSUME CircuitOK, StackOK, NEW a, NEW b, Settled(a, b),
         NEW of \in [Nat -> Int], MadeFor(of), NEW new \in [Nat -> Int],
         \A h \in Nat : h \notin {a, b} => new[h] = of[h],
         \A d \in DOMAIN map' : map'[d] \in {a, b} => new[map'[d]] = d,
         gates'[a].op = "NOT" => a = b,
         gates'[b].op = "NOT" =>
           /\ new[b] \in DOMAIN map' /\ new[b] \notin DOMAIN map
           /\ gates'[b].fanins[1] = ZERO \/ (gates'[b].fanins[1] \in DOMAIN gates' /\ new[gates'[b].fanins[1]] = -new[b])
  PROVE  NotsOK'
<1>1. /\ \A h \in DOMAIN gates : h \in DOMAIN gates' /\ gates'[h] = gates[h]
      /\ DOMAIN gates' = DOMAIN gates \cup {a, b}
      /\ DOMAIN map \subseteq DOMAIN map'
      /\ \A d \in DOMAIN map' : map'[d] \in {a, b, ZERO} \/ (d \in DOMAIN map /\ map'[d] = map[d])
  BY DEF Settled
<1>2. /\ DOMAIN gates \subseteq Nat /\ ZERO \notin DOMAIN gates'
  <2>1. DOMAIN gates \subseteq Nat
    BY State
  <2>3. ZERO \notin DOMAIN gates'
    BY <1>1, State, NewGates
  <2> QED BY <2>1, <2>3
<1>3. ASSUME NEW d \in DOMAIN map', map'[d] \in DOMAIN gates' PROVE new[map'[d]] = d
  <2>1. CASE map'[d] \in {a, b}
    BY <2>1
  <2>2. CASE map'[d] \notin {a, b}
    <3>1. d \in DOMAIN map /\ map'[d] = map[d] /\ map[d] \in DOMAIN gates
      BY <1>1, <1>2, <1>3, <2>2
    <3>2. of[map[d]] = d
      BY <3>1 DEF MadeFor
    <3> QED BY <1>2, <2>2, <3>1, <3>2
  <2> QED BY <2>1, <2>2
<1>4. \A h \in DOMAIN gates' : gates'[h].op = "NOT" => h = b \/ (h \in DOMAIN gates /\ h \notin {a, b} /\ gates[h].op = "NOT")
  BY <1>1
<1>5. ASSUME NEW h \in DOMAIN gates, h \notin {a, b}, gates[h].op = "NOT"
      PROVE  /\ new[h] = of[h] /\ new[h] \in DOMAIN map
             /\ gates'[h].fanins[1] = ZERO \/ (gates'[h].fanins[1] \in DOMAIN gates' /\ new[gates'[h].fanins[1]] = -new[h])
  <2>1. new[h] = of[h] /\ gates'[h] = gates[h]
    BY <1>1, <1>2, <1>5
  <2>2. /\ of[h] \in DOMAIN map
        /\ gates[h].fanins[1] = ZERO \/ (gates[h].fanins[1] \in DOMAIN gates /\ of[gates[h].fanins[1]] = -of[h])
    BY <1>5 DEF MadeFor
  <2>3. CASE gates[h].fanins[1] = ZERO
    BY <2>1, <2>2, <2>3
  <2>4. CASE gates[h].fanins[1] # ZERO
    <3> DEFINE f == gates[h].fanins[1]
    <3>1. f \in DOMAIN gates /\ of[f] = -of[h]
      BY <2>2, <2>4
    <3>2. 1 \in DOMAIN gates[h].fanins
      BY <1>5, NotsComplete
    <3>3. f \notin {a, b}
      BY <3>2, NewGates
    <3>4. new[f] = of[f]
      BY <1>2, <3>1, <3>3
    <3> QED BY <1>1, <2>1, <2>2, <3>1, <3>4
  <2> QED BY <2>3, <2>4
<1>6. ASSUME NEW h \in DOMAIN gates', gates'[h].op = "NOT"
      PROVE  /\ new[h] \in DOMAIN map'
             /\ gates'[h].fanins[1] = ZERO \/ (gates'[h].fanins[1] \in DOMAIN gates' /\ new[gates'[h].fanins[1]] = -new[h])
  BY <1>1, <1>4, <1>5, <1>6
<1>7. ASSUME NEW h \in DOMAIN gates', NEW k \in DOMAIN gates', gates'[h].op = "NOT", gates'[k].op = "NOT", new[h] = new[k]
      PROVE  h = k
  <2>1. CASE h = b /\ k = b
    BY <2>1
  <2>2. CASE h # b /\ k # b
    <3>1. h \in DOMAIN gates /\ h \notin {a, b} /\ gates[h].op = "NOT" /\ k \in DOMAIN gates /\ k \notin {a, b} /\ gates[k].op = "NOT"
      BY <1>4, <1>7, <2>2
    <3>2. of[h] = of[k]
      BY <1>5, <1>7, <3>1
    <3> QED BY <3>1, <3>2 DEF MadeFor
  <2>3. CASE h = b /\ k # b
    BY <1>4, <1>5, <1>7, <2>3
  <2>4. CASE h # b /\ k = b
    BY <1>4, <1>5, <1>7, <2>4
  <2> QED BY <2>1, <2>2, <2>3, <2>4
<1>8. MadeFor(new)'
  BY <1>3, <1>6, <1>7 DEF MadeFor
<1> QED BY <1>8 DEF NotsOK

LEMMA NodesSettled ==
  ASSUME GraphOK, CircuitOK, NodesOK, UNCHANGED graph, BinaryGates' = BinaryGates, Converted \subseteq Converted'
  PROVE  NodesOK'
<1>1. Converted' \subseteq DOMAIN graph
  BY DEF Converted
<1>2. IsFiniteSet(Converted')
  BY <1>1, Variables, FS_Subset
<1>3. Cardinality(Converted) <= Cardinality(Converted') /\ IsFiniteSet(Converted)
  BY <1>2, FS_Subset
<1>4. IsFiniteSet(BinaryGates)
  <2>1. BinaryGates \subseteq 1 .. Len(gates) /\ Len(gates) \in Nat
    BY State DEF BinaryGates
  <2>2. IsFiniteSet(1 .. Len(gates))
    BY <2>1, FS_Interval
  <2> QED BY <2>1, <2>2, FS_Subset
<1>5. Cardinality(Converted) \in Int /\ Cardinality(Converted') \in Int /\ Cardinality(BinaryGates) \in Int
  BY <1>2, <1>3, <1>4, FS_CardinalityType
<1> QED BY <1>3, <1>5 DEF NodesOK

\* A complete gate has the value that its fanins make.
LEMMA ValueOf ==
  ASSUME NEW in, NEW V, ValuesOfGates(in, V)', NEW g \in Finished'
  PROVE  LET op == gates'[g].op  f == gates'[g].fanins
         IN  /\ op = "INPUT" => V[g] = in[g]
             /\ op = "NOT" => V[g] = ~ Pin(V, f[1])
             /\ op = "OUTPUT" => V[g] = Pin(V, f[1])
             /\ op \in BinOps => V[g] = Apply(op, Pin(V, f[1]), Pin(V, f[2]))
<1>1. V[g] = ValueOfGate(in, V, g)'
  BY DEF ValuesOfGates
<1> QED BY <1>1 DEF ValueOfGate, BinOps

LEMMA MapSettled ==
  ASSUME CircuitOK, MapOK, NEW a, NEW b, Settled(a, b),
         NoBool => \A d \in DOMAIN map' : map'[d] \in {a, b} => gates'[map'[d]].op # "OUTPUT",
         \A h \in {a, b} : h \notin DOMAIN gates =>
           /\ gates'[h].op # "OUTPUT"
           /\ NoBool => \A j \in DOMAIN gates'[h].fanins :
                gates'[h].fanins[j] \in DOMAIN gates => gates[gates'[h].fanins[j]].op # "OUTPUT"
  PROVE  MapOK'
<1> SUFFICES ASSUME NoBool
             PROVE  /\ \A d \in DOMAIN map' : map'[d] \in DOMAIN gates' => gates'[map'[d]].op # "OUTPUT"
                    /\ OutputsAreNotRead'
  BY DEF MapOK
<1>1. /\ \A d \in DOMAIN map : map[d] \in DOMAIN gates => gates[map[d]].op # "OUTPUT"
      /\ \A h, k \in DOMAIN gates : gates[k].op = "OUTPUT" => k \notin ToSet(gates[h].fanins)
  BY DEF MapOK, OutputsAreNotRead, NoBool
<1>2. /\ \A h \in DOMAIN gates : h \in DOMAIN gates' /\ gates'[h] = gates[h]
      /\ DOMAIN gates' = DOMAIN gates \cup {a, b}
      /\ \A d \in DOMAIN map' : map'[d] \in {a, b, ZERO} \/ (d \in DOMAIN map /\ map'[d] = map[d])
      /\ \A j \in DOMAIN gates'[a].fanins : gates'[a].fanins[j] \in Sources
      /\ \A j \in DOMAIN gates'[b].fanins : gates'[b].fanins[j] \in Sources \cup {a}
  BY DEF Settled
<1>3. ZERO \notin DOMAIN gates' /\ ZERO \notin {a, b}
  BY <1>2, State, NewGates
<1>4. \A d \in DOMAIN map' : map'[d] \in DOMAIN gates' => gates'[map'[d]].op # "OUTPUT"
  BY <1>1, <1>2, <1>3
<1>5. ASSUME NEW h \in DOMAIN gates', NEW k \in DOMAIN gates', gates'[k].op = "OUTPUT"
      PROVE  k \notin ToSet(gates'[h].fanins)
  <2>1. k \in DOMAIN gates /\ gates[k].op = "OUTPUT"
    BY <1>2, <1>5
  <2>2. CASE h \in DOMAIN gates
    BY <1>1, <1>2, <2>1, <2>2
  <2>3. CASE h \notin DOMAIN gates
    BY <1>2, <2>1, <2>3 DEF ToSet
  <2> QED BY <2>2, <2>3
<1>6. OutputsAreNotRead'
  BY <1>5 DEF OutputsAreNotRead
<1> QED BY <1>4, <1>6

\* The negation of the literal has a gate: a NOT gate reads it.
LEMMA NegateKeeps ==
  ASSUME IInv, NEW l, Negate(l)
  PROVE  Kept'
<1> DEFINE g == Len(gates) + 1
           f == map[Dimacs(Not(l))]
<1>1. /\ Wanted(l) /\ ~ Constant(l) /\ ~ Mapped(l) /\ Mapped(Not(l))
      /\ gates' = Append(gates, [op |-> "NOT", fanins |-> <<f>>])
      /\ map' = Remember(map, l, g)
      /\ UNCHANGED <<graph, inLits, outLits, phase, next, outputs, calls>>
  BY DEF Negate
<1>2. GraphOK /\ PhaseOK /\ CircuitOK /\ StackOK /\ NotsOK /\ NodesOK /\ MapOK
  BY DEF IInv
<1>3. /\ calls # << >> /\ l \in Literal /\ \A i \in 2 .. Len(calls) : l.var < calls[i].lit.var
      /\ phase = "outputs"
  BY <1>1, WantedOf, TopOf
<1>4. /\ l.var \in DOMAIN graph /\ l.var \in Nat \ {0} /\ Dimacs(l) \in Int /\ Dimacs(Not(l)) = -Dimacs(l)
      /\ Not(l) \in Literal /\ ~ Constant(Not(l)) /\ l.sign \in BOOLEAN
      /\ (Dimacs(l) = l.var \/ Dimacs(l) = -l.var)
  <2>1. Dimacs(l) = l.var \/ Dimacs(l) = -l.var
    BY DEF Dimacs
  <2> QED BY <1>1, <1>2, <1>3, <2>1, Literals
<1>5. f \in {ZERO} \cup Finished /\ f \in Sources /\ f \in Int
  <2>1. f \in {ZERO} \cup Finished
    BY <1>1, <1>2 DEF CircuitOK, Mapped
  <2>2. f \in Sources
    BY <2>1 DEF Sources
  <2> QED BY <1>2, <2>1, <2>2, State
<1>6. <<f>> \in Seq(Int) /\ Len(<<f>>) = 1 /\ <<f>>[1] = f /\ DOMAIN <<f>> = {1}
  <2> HIDE DEF f
  <2> QED BY <1>5
<1> DEFINE fs == <<f>>
<1>7. fs \in Seq(Int) /\ Len(fs) = 1 /\ fs[1] = f /\ DOMAIN fs = {1}
  BY <1>6
<1>8. gates' = Append(gates, [op |-> "NOT", fanins |-> fs]) /\ calls' = calls
  BY <1>1
<1> HIDE DEF fs, f
<1>9. /\ gates' \in Seq(GateRecord) /\ g \in Nat
      /\ DOMAIN gates' = DOMAIN gates \cup {g} /\ g \notin DOMAIN gates
      /\ g # ONE /\ g # ZERO
      /\ \A h \in DOMAIN gates : gates'[h] = gates[h]
      /\ gates'[g].op = "NOT" /\ gates'[g].fanins = fs
  BY <1>2, <1>7, <1>8, GateCreated
<1>10. Finished' = Finished \cup {g} /\ g \notin Finished
  <2>1. Finished' = Finished \cup {g}
    BY <1>2, <1>7, <1>8, MakeEffect
  <2> QED BY <1>2, <1>9, <2>1, State
<1> HIDE DEF g
<1>11. /\ DOMAIN map' = DOMAIN map \cup {Dimacs(l)} /\ map'[Dimacs(l)] = g
       /\ \A d \in DOMAIN map : d # Dimacs(l) => map'[d] = map[d]
       /\ map' = [d \in DOMAIN map' |-> map'[d]]
  BY <1>1 DEF Remember
<1>12. Settled(g, g)
  <2>1. outputs' \in Seq(Nat) /\ \A k \in DOMAIN outputs' : outputs'[k] \in Finished
    BY <1>1, <1>2 DEF CircuitOK
  <2>2. DOMAIN map' \subseteq Int
    BY <1>2, <1>4, <1>11 DEF CircuitOK
  <2>3. calls' \in Seq(CallRecord)
    BY <1>1, <1>2 DEF CircuitOK
  <2>4. Len(gates'[g].fanins) = Arity(gates'[g].op) /\ gates'[g].op # "INPUT"
    BY <1>7, <1>9 DEF Arity
  <2>5. \A j \in DOMAIN gates'[g].fanins : gates'[g].fanins[j] \in Sources
    BY <1>5, <1>7, <1>9
  <2>6. \A d \in DOMAIN map' : map'[d] = g \/ (d \in DOMAIN map /\ map'[d] = map[d])
    BY <1>11
  <2> QED BY <1>1, <1>9, <1>10, <1>11, <2>1, <2>2, <2>3, <2>4, <2>5, <2>6 DEF Settled
<1>13. Stays
  BY <1>1, <1>2, State DEF Stays
<1>14. PhaseOK'
  <2>1. calls' = calls /\ UNCHANGED <<graph, inLits, outLits, phase, next, outputs>>
    BY <1>1
  <2> QED BY <1>2, <1>3, <2>1 DEF PhaseOK, Literal
<1>15. CircuitOK'
  BY <1>2, <1>12, CircuitSettled
<1>16. StackOK'
  <2> DEFINE v == l.var
  <2>1. \A i \in 2 .. Len(calls') : calls[i].lit.var # v
    <3> SUFFICES ASSUME NEW i \in 2 .. Len(calls) PROVE calls[i].lit.var # v
      BY <1>1
    <3> QED BY <1>3, <1>4
  <2>2. \A d \in DOMAIN map' : d \in DOMAIN map \/ d = v \/ d = -v
    BY <1>4, <1>11
  <2>3. v \in Nat \ {0} /\ next' = next
    BY <1>1, <1>4
  <2> HIDE DEF v
  <2> QED BY <1>12, <1>13, <2>1, <2>2, <2>3, StackSettled
<1>17. Meaning'
  <2> SUFFICES ASSUME NEW in \in Inputs, NEW W, NEW V, ValuesOfGraph(in, W), ValuesOfGates(in, V)',
                      MapRight(W, V), CallsRight(W, V), OutputsRight(W, V)
               PROVE  MapRight(W, V)' /\ OutputsRight(W, V)'
    BY <1>12, <1>13, MeaningSettled
  <2>1. OutputsRight(W, V)'
    BY <1>1 DEF OutputsRight
  <2>2. W \in [DOMAIN graph -> BOOLEAN]
    BY DEF ValuesOfGraph
  <2>3. V[g] = ~ Pin(V, f)
    <3>1. gates'[g].op = "NOT" /\ gates'[g].fanins[1] = f /\ g \in Finished'
      BY <1>7, <1>9, <1>10
    <3> QED BY <3>1, ValueOf
  <2>4. Pin(V, f) = Of(W, Not(l)) /\ Of(W, Not(l)) = ~ Of(W, l) /\ Of(W, l) \in BOOLEAN
    <3>1. Pin(V, f) = Of(W, Not(l))
      BY <1>1, <1>4 DEF MapRight, f
    <3> QED BY <1>2, <1>3, <2>2, <3>1, Values
  <2>5. Pin(V, g) = Of(W, l)
    BY <1>9, <2>3, <2>4 DEF Pin
  <2>6. ASSUME NEW m \in Literal, ~ Constant(m), Dimacs(m) \in DOMAIN map'
        PROVE  Pin(V, map'[Dimacs(m)]) = Of(W, m)
    <3>1. CASE Dimacs(m) = Dimacs(l)
      <4>1. m = l
        BY <1>2, <1>3, <2>6, <3>1, DimacsInjective
      <4> QED BY <1>11, <2>5, <4>1
    <3>2. CASE Dimacs(m) # Dimacs(l)
      BY <1>11, <2>6, <3>2 DEF MapRight, Mapped
    <3> QED BY <3>1, <3>2
  <2>7. MapRight(W, V)'
    BY <1>1, <2>6 DEF MapRight, Mapped, Literal
  <2> QED BY <2>1, <2>7
<1>18. NotsOK'
  <2>1. PICK of \in [Nat -> Int] : MadeFor(of)
    BY <1>2 DEF NotsOK
  <2> DEFINE new == [of EXCEPT ![g] = Dimacs(l)]
  <2>2. /\ new \in [Nat -> Int] /\ new[g] = Dimacs(l)
        /\ \A h \in Nat : h # g => new[h] = of[h]
    BY <1>4, <1>9
  <2> HIDE DEF new
  <2>3. \A d \in DOMAIN map' : map'[d] = g => new[map'[d]] = d
    <3>1. \A d \in DOMAIN map : map[d] # g
      BY <1>2, <1>12, NewGates
    <3> QED BY <1>11, <2>2, <3>1
  <2>4. new[g] \in DOMAIN map' /\ new[g] \notin DOMAIN map
    BY <1>1, <1>11, <2>2 DEF Mapped
  <2>5. gates'[g].fanins[1] = ZERO \/ (gates'[g].fanins[1] \in DOMAIN gates' /\ new[gates'[g].fanins[1]] = -new[g])
    <3>1. CASE f = ZERO
      BY <1>7, <1>9, <3>1
    <3>2. CASE f \in Finished
      <4>1. f \in DOMAIN gates /\ f # g /\ f \in Nat
        <5>1. f \in DOMAIN gates /\ DOMAIN gates = 1 .. Len(gates) /\ Len(gates) \in Nat
          BY <1>2, <3>2, State
        <5> QED BY <1>9, <5>1
      <4>2. of[f] = Dimacs(Not(l))
        BY <1>1, <2>1, <4>1 DEF MadeFor, Mapped, f
      <4> QED BY <1>4, <1>7, <1>9, <2>2, <4>1, <4>2
    <3> QED BY <1>5, <3>1, <3>2
  <2> QED BY <1>2, <1>12, <2>1, <2>2, <2>3, <2>4, <2>5, NotsSettled
<1>19. NodesOK'
  <2>1. BinaryGates' = BinaryGates
    BY <1>9 DEF BinaryGates, BinOps
  <2>2. Converted \subseteq Converted'
    BY <1>1, <1>11 DEF Converted, OpenVars
  <2> QED BY <1>1, <1>2, <2>1, <2>2, NodesSettled
<1>20. MapOK'
  <2>1. NoBool => (f \in DOMAIN gates => gates[f].op # "OUTPUT")
    BY <1>1, <1>2 DEF MapOK, Mapped, f
  <2>2. \A d \in DOMAIN map' : map'[d] = g => gates'[map'[d]].op # "OUTPUT"
    BY <1>9
  <2> QED BY <1>2, <1>7, <1>9, <1>12, <2>1, <2>2, MapSettled
<1> QED BY <1>14, <1>15, <1>16, <1>17, <1>18, <1>19, <1>20 DEF Kept

\* The node of the literal l has got its gate t, and l the gate b, which is t
\* or a NOT gate over it.
Returned(t, l, b) ==
  /\ t \in DOMAIN gates /\ t \notin Finished /\ gates[t].op \in BinOps
  /\ Len(gates[t].fanins) = 2 /\ gates[t].op = graph[l.var].op
  /\ l \in Literal /\ ~ Constant(l) /\ ~ Mapped(l) /\ ~ Mapped(Not(l))
  /\ l.var \in DOMAIN graph /\ l.var \in Nat \ {0} /\ l.sign \in BOOLEAN
  /\ t = Top.gate /\ l = Top.lit
  /\ gates' \in Seq(GateRecord) /\ \A h \in DOMAIN gates : h \in DOMAIN gates' /\ gates'[h] = gates[h]
  /\ DOMAIN gates' = DOMAIN gates \cup {b}
  /\ Finished' = Finished \cup {t, b} /\ b \notin Finished
  /\ l.sign => /\ b # t /\ b \notin DOMAIN gates /\ Dimacs(l) = -l.var
               /\ gates'[b].op = "NOT" /\ Len(gates'[b].fanins) = 1
               /\ DOMAIN gates'[b].fanins = {1} /\ gates'[b].fanins[1] = t
  /\ ~ l.sign => b = t /\ Dimacs(l) = l.var
  /\ map' = [d \in DOMAIN map' |-> map'[d]]
  /\ DOMAIN map' = DOMAIN map \cup {Dimacs(l), l.var}
  /\ map'[Dimacs(l)] = b /\ map'[l.var] = t
  /\ \A d \in DOMAIN map : d # Dimacs(l) /\ d # l.var => map'[d] = map[d]

LEMMA ReturnEffect ==
  ASSUME IInv, Return
  PROVE  /\ \E t, l, b : Returned(t, l, b)
         /\ calls' \in Seq(CallRecord) /\ Len(calls') = Len(calls) - 1
         /\ DOMAIN calls' = 1 .. Len(calls) - 1 /\ Len(calls) \in Nat /\ Len(calls) > 1
         /\ \A i \in DOMAIN calls' : i \in DOMAIN calls /\ calls'[i] = calls[i]
         /\ \A i \in 2 .. Len(calls') : calls[i].lit.var # Top.lit.var
<1> DEFINE n == Len(calls)
           t == Top.gate
           l == Top.lit
           g == Len(gates) + 1
<1>1. /\ n > 1 /\ Top.todo = << >> /\ calls' = SubSeq(calls, 1, n - 1)
      /\ UNCHANGED <<graph, inLits, outLits, phase, next, outputs>>
  BY DEF Return
<1>2. GraphOK /\ CircuitOK /\ StackOK
  BY DEF IInv
<1>3. n \in Nat /\ calls # << >>
  <2>1. n \in Nat
    BY <1>2, State
  <2>2. Len(<< >>) = 0
    OBVIOUS
  <2>3. n # 0
    BY <1>1
  <2> QED BY <2>1, <2>2, <2>3
<1>4. /\ n \in DOMAIN calls /\ Top = calls[n] /\ t \in DOMAIN gates /\ t \notin Finished
      /\ l \in Literal /\ Activation(n)
  BY <1>3, TopOf
<1>5. Inner(Top, calls[n - 1])
  BY <1>1, <1>4 DEF Activation
<1>6. /\ ~ Constant(l) /\ ~ Mapped(l) /\ ~ Mapped(Not(l))
      /\ gates[t].op = graph[l.var].op /\ gates[t].op \in BinOps /\ Len(gates[t].fanins) = 2
  BY <1>1, <1>5 DEF Inner, TwoFanins
<1>7. /\ l.var \in DOMAIN graph /\ l.var \in Nat \ {0} /\ l.sign \in BOOLEAN
      /\ (l.sign => Dimacs(l) = -l.var) /\ (~ l.sign => Dimacs(l) = l.var) /\ Dimacs(Not(l)) = -Dimacs(l)
      /\ map = [d \in DOMAIN map |-> map[d]]
  <2>1. (l.sign => Dimacs(l) = -l.var) /\ (~ l.sign => Dimacs(l) = l.var)
    BY DEF Dimacs
  <2> QED BY <1>2, <1>4, <1>6, <2>1, Literals DEF CircuitOK
<1>8. /\ \A i \in DOMAIN calls : calls[i].lit \in Literal /\ calls[i].gate \in DOMAIN gates
      /\ \A i \in DOMAIN calls : 1 < i /\ i < n => calls[i].lit.var > l.var
  BY <1>2, <1>4 DEF StackOK, Activation
<1>9. \A i \in 2 .. n - 1 : calls[i].lit.var # l.var
  <2> SUFFICES ASSUME NEW i \in 2 .. n - 1 PROVE calls[i].lit.var # l.var
    OBVIOUS
  <2>1. i \in DOMAIN calls /\ 1 < i /\ i < n
    BY <1>2, <1>3, State
  <2>2. calls[i].lit.var > l.var
    BY <1>8, <2>1
  <2> QED BY <1>7, <2>2
<1> HIDE DEF n, t, l
<1>10. ASSUME DOMAIN gates \subseteq DOMAIN gates'
          PROVE  /\ calls' \in Seq(CallRecord) /\ Len(calls') = n - 1
                 /\ DOMAIN calls' = 1 .. n - 1
                 /\ \A i \in DOMAIN calls' : i \in DOMAIN calls /\ calls'[i] = calls[i]
                 /\ Finished' = Finished \cup {t} \cup (DOMAIN gates' \ DOMAIN gates)
  BY <1>1, <1>3, <1>10, CloseEffect DEF n, t
<1>11. CASE ~ l.sign
  <2>1. gates' = gates /\ map' = Remember(map, l, t)
    BY <1>11 DEF Return, l, t
  <2>2. DOMAIN gates' \ DOMAIN gates = {}
    BY <2>1
  <2>3. Finished' = Finished \cup {t}
    BY <1>10, <2>1, <2>2
  <2>4. /\ DOMAIN map' = DOMAIN map \cup {l.var} /\ map'[l.var] = t
        /\ \A d \in DOMAIN map : d # l.var => map'[d] = map[d]
        /\ map' = [d \in DOMAIN map' |-> map'[d]]
    BY <1>7, <1>11, <2>1 DEF Remember
  <2>5. gates' \in Seq(GateRecord) /\ DOMAIN gates' = DOMAIN gates \cup {t}
    BY <1>2, <1>4, <2>1 DEF CircuitOK, t
  <2>6. Returned(t, l, t)
    BY <1>4, <1>6, <1>7, <1>11, <2>1, <2>3, <2>4, <2>5 DEF Returned, t, l
  <2> QED BY <1>1, <1>3, <1>9, <1>10, <2>1, <2>6 DEF n, l
<1>12. CASE l.sign
  <2> DEFINE fs == <<t>>
  <2>1. gates' = Append(gates, [op |-> "NOT", fanins |-> fs]) /\ map' = RememberBoth(map, l, g, t)
    BY <1>12 DEF Return, l, t
  <2>2. fs \in Seq(Int) /\ Len(fs) = 1 /\ DOMAIN fs = {1} /\ fs[1] = t
    <3>1. t \in Int
      BY <1>2, <1>4, State DEF t
    <3> QED BY <3>1
  <2> HIDE DEF fs
  <2>3. /\ gates' \in Seq(GateRecord) /\ DOMAIN gates' = DOMAIN gates \cup {g} /\ g \notin DOMAIN gates
        /\ \A h \in DOMAIN gates : gates'[h] = gates[h]
        /\ gates'[g].op = "NOT" /\ gates'[g].fanins = fs
    BY <1>2, <2>1, <2>2, GateCreated
  <2> HIDE DEF g
  <2>4. Finished' = Finished \cup {t, g} /\ g \notin Finished /\ g # t
    <3>1. DOMAIN gates' \ DOMAIN gates = {g}
      BY <2>3
    <3>2. Finished' = Finished \cup {t} \cup {g}
      BY <1>10, <2>3, <3>1
    <3>3. g # t
      BY <1>4, <2>3 DEF t
    <3> QED BY <1>2, <2>3, <3>2, <3>3, State
  <2>5. Dimacs(l) = -l.var /\ Dimacs(Not(l)) = l.var /\ -l.var # l.var
    BY <1>7, <1>12
  <2>6. /\ DOMAIN map' = DOMAIN map \cup {-l.var, l.var} /\ map'[l.var] = t /\ map'[-l.var] = g
        /\ \A d \in DOMAIN map : d # l.var /\ d # -l.var => map'[d] = map[d]
        /\ map' = [d \in DOMAIN map' |-> map'[d]]
    <3> DEFINE x == -l.var
               y == l.var
    <3>1. map' = Remember(Remember(map, l, g), Not(l), t)
      BY <2>1 DEF RememberBoth
    <3>2. Dimacs(l) = x /\ Dimacs(Not(l)) = y /\ x # y
      BY <2>5
    <3> HIDE DEF x, y
    <3> DEFINE m == Remember(map, l, g)
    <3>3. /\ DOMAIN m = DOMAIN map \cup {x} /\ m[x] = g
          /\ \A d \in DOMAIN map : d # x => m[d] = map[d]
      BY <3>2 DEF Remember
    <3> HIDE DEF m
    <3>4. /\ DOMAIN map' = DOMAIN m \cup {y} /\ map'[y] = t
          /\ \A d \in DOMAIN m : d # y => map'[d] = m[d]
          /\ map' = [d \in DOMAIN map' |-> map'[d]]
      BY <3>1, <3>2 DEF Remember, m
    <3>5. DOMAIN map' = DOMAIN map \cup {x, y} /\ map'[y] = t /\ map'[x] = g
      BY <3>2, <3>3, <3>4
    <3>6. \A d \in DOMAIN map : d # x /\ d # y => map'[d] = map[d]
      BY <3>3, <3>4
    <3> QED BY <3>4, <3>5, <3>6 DEF x, y
  <2>7. Returned(t, l, g)
    <3>1. \A h \in DOMAIN gates : h \in DOMAIN gates' /\ gates'[h] = gates[h]
      BY <2>3
    <3>2. Len(gates'[g].fanins) = 1 /\ DOMAIN gates'[g].fanins = {1} /\ gates'[g].fanins[1] = t
      BY <2>2, <2>3
    <3> QED BY <1>4, <1>6, <1>7, <1>12, <2>3, <2>4, <2>5, <2>6, <3>1, <3>2 DEF Returned, t, l
  <2> QED BY <1>1, <1>3, <1>9, <1>10, <2>3, <2>7 DEF n, l
<1> QED BY <1>7, <1>11, <1>12

LEMMA ReturnKeeps ==
  ASSUME IInv, Return
  PROVE  Kept'
<1>1. /\ UNCHANGED <<graph, inLits, outLits, phase, next, outputs>> /\ Top.todo = << >>
  BY DEF Return
<1>2. GraphOK /\ PhaseOK /\ CircuitOK /\ StackOK /\ NotsOK /\ NodesOK /\ MapOK
  BY DEF IInv
<1>3. PICK t, l, b : Returned(t, l, b)
  BY ReturnEffect
<1>4. /\ t \in DOMAIN gates /\ t \notin Finished /\ gates[t].op \in BinOps
      /\ Len(gates[t].fanins) = 2 /\ gates[t].op = graph[l.var].op
      /\ l \in Literal /\ ~ Constant(l) /\ ~ Mapped(l) /\ ~ Mapped(Not(l))
      /\ l.var \in DOMAIN graph /\ l.var \in Nat \ {0} /\ l.sign \in BOOLEAN
      /\ t = Top.gate /\ l = Top.lit
      /\ gates' \in Seq(GateRecord) /\ \A h \in DOMAIN gates : h \in DOMAIN gates' /\ gates'[h] = gates[h]
      /\ DOMAIN gates' = DOMAIN gates \cup {b}
      /\ Finished' = Finished \cup {t, b} /\ b \notin Finished
      /\ l.sign => /\ b # t /\ b \notin DOMAIN gates /\ Dimacs(l) = -l.var
                   /\ gates'[b].op = "NOT" /\ Len(gates'[b].fanins) = 1
                   /\ DOMAIN gates'[b].fanins = {1} /\ gates'[b].fanins[1] = t
      /\ ~ l.sign => b = t /\ Dimacs(l) = l.var
      /\ map' = [d \in DOMAIN map' |-> map'[d]]
      /\ DOMAIN map' = DOMAIN map \cup {Dimacs(l), l.var}
      /\ map'[Dimacs(l)] = b /\ map'[l.var] = t
      /\ \A d \in DOMAIN map : d # Dimacs(l) /\ d # l.var => map'[d] = map[d]
  BY <1>3 DEF Returned
<1>5. /\ calls' \in Seq(CallRecord) /\ Len(calls') = Len(calls) - 1
      /\ DOMAIN calls' = 1 .. Len(calls) - 1 /\ Len(calls) \in Nat /\ Len(calls) > 1
      /\ \A i \in DOMAIN calls' : i \in DOMAIN calls /\ calls'[i] = calls[i]
      /\ \A i \in 2 .. Len(calls') : calls[i].lit.var # l.var
  BY <1>4, ReturnEffect
<1>6. /\ Dimacs(l) = l.var \/ Dimacs(l) = -l.var
      /\ gates'[t] = gates[t]
      /\ gates'[t].op \notin {"INPUT", "NOT", "OUTPUT"}
      /\ Left(l) \in Literal /\ Right(l) \in Literal /\ graph[l.var].op # "input"
  <2>1. graph[l.var].op # "input"
    BY <1>4 DEF BinOps
  <2>2. Left(l) \in Literal /\ Right(l) \in Literal
    BY <1>2, <1>4, <2>1, Fanins DEF Left, Right
  <2> QED BY <1>4, <2>1, <2>2 DEF BinOps
<1>7. Settled(t, b)
  <2>1. outputs' \in Seq(Nat) /\ \A k \in DOMAIN outputs' : outputs'[k] \in Finished
    BY <1>1, <1>2 DEF CircuitOK
  <2>2. DOMAIN map' \subseteq Int
    BY <1>2, <1>4, <1>6 DEF CircuitOK
  <2>3. Len(gates'[t].fanins) = Arity(gates'[t].op)
    BY <1>4, <1>6 DEF Arity
  <2>4. Len(gates'[b].fanins) = Arity(gates'[b].op) /\ gates'[b].op # "INPUT"
    BY <1>4, <1>6, <2>3 DEF Arity
  <2>5. \A j \in DOMAIN gates'[t].fanins : gates'[t].fanins[j] \in Sources
    BY <1>2, <1>4, <1>6 DEF CircuitOK
  <2>6. \A j \in DOMAIN gates'[b].fanins : gates'[b].fanins[j] \in Sources \cup {t}
    BY <1>4, <2>5
  <2>7. \A d \in DOMAIN map' : map'[d] \in {t, b} \/ (d \in DOMAIN map /\ map'[d] = map[d])
    BY <1>4
  <2>8. DOMAIN gates' = DOMAIN gates \cup {t, b}
    BY <1>4
  <2> QED BY <1>1, <1>4, <1>5, <1>6, <2>1, <2>2, <2>3, <2>4, <2>5, <2>6, <2>7, <2>8 DEF Settled
<1>8. Stays
  BY <1>5 DEF Stays
<1>9. /\ phase = "outputs" /\ calls # << >>
  <2>1. calls # << >>
    <3>1. Len(<< >>) = 0
      OBVIOUS
    <3> QED BY <1>5, <3>1
  <2> QED BY <2>1, TopOf
<1>10. PhaseOK'
  <2>1. next <= Len(OutTypes)
    BY <1>2, <1>9 DEF PhaseOK
  <2> QED BY <1>1, <1>2, <1>9, <2>1 DEF PhaseOK, Literal
<1>11. CircuitOK'
  BY <1>2, <1>7, CircuitSettled
<1>12. StackOK'
  <2> DEFINE v == l.var
  <2>1. \A i \in 2 .. Len(calls') : calls[i].lit.var # v
    BY <1>5
  <2>2. \A d \in DOMAIN map' : d \in DOMAIN map \/ d = v \/ d = -v
    BY <1>4, <1>6
  <2>3. v \in Nat \ {0} /\ next' = next
    BY <1>1, <1>4
  <2> HIDE DEF v
  <2> QED BY <1>7, <1>8, <2>1, <2>2, <2>3, StackSettled
<1>13. Meaning'
  <2> SUFFICES ASSUME NEW in \in Inputs, NEW W, NEW V, ValuesOfGraph(in, W), ValuesOfGates(in, V)',
                      MapRight(W, V), CallsRight(W, V), OutputsRight(W, V)
               PROVE  MapRight(W, V)' /\ OutputsRight(W, V)'
    BY <1>7, <1>8, MeaningSettled
  <2>1. OutputsRight(W, V)'
    BY <1>1 DEF OutputsRight
  <2>2. W \in [DOMAIN graph -> BOOLEAN]
    BY DEF ValuesOfGraph
  <2>3. V[t] = W[l.var] /\ W[l.var] \in BOOLEAN
    <3> DEFINE f == gates[t].fanins
    <3>1. V[t] = Apply(gates[t].op, Pin(V, f[1]), Pin(V, f[2]))
      BY <1>4, <1>6, ValueOf
    <3>2. Pin(V, f[1]) = Of(W, Left(l)) /\ Pin(V, f[2]) = Of(W, Right(l))
      <4> DEFINE n == Len(calls)
      <4>1. n \in DOMAIN calls /\ n > 1 /\ calls[n].lit = l /\ calls[n].gate = t
        BY <1>4, <1>5, <1>9, TopOf
      <4> HIDE DEF n
      <4> QED BY <1>4, <4>1 DEF CallsRight
    <3>3. W[l.var] = Apply(graph[l.var].op, Of(W, Left(l)), Of(W, Right(l)))
      BY <1>4, <1>6 DEF ValuesOfGraph, Left, Right
    <3> QED BY <1>4, <2>2, <3>1, <3>2, <3>3
  <2>4. /\ t # ONE /\ t # ZERO /\ b # ONE /\ b # ZERO
    BY <1>2, <1>7, NewGates
  <2>5. Pin(V, t) = W[l.var] /\ Pin(V, b) = Of(W, l)
    <3>1. Of(W, l) = (W[l.var] # l.sign)
      BY <1>4 DEF Of
    <3>2. CASE l.sign
      <4>1. V[b] = ~ Pin(V, t)
        BY <1>4, <3>2, ValueOf
      <4> QED BY <2>3, <2>4, <3>1, <3>2, <4>1 DEF Pin
    <3>3. CASE ~ l.sign
      <4>1. l.sign = FALSE /\ b = t
        BY <1>4, <3>3
      <4> QED BY <2>3, <2>4, <3>1, <4>1 DEF Pin
    <3> QED BY <3>2, <3>3
  <2>6. ASSUME NEW m \in Literal, ~ Constant(m), Dimacs(m) \in DOMAIN map'
        PROVE  Pin(V, map'[Dimacs(m)]) = Of(W, m)
    <3>1. CASE Dimacs(m) = Dimacs(l)
      <4>1. m = l
        BY <1>2, <1>4, <2>6, <3>1, DimacsInjective
      <4> QED BY <1>4, <2>5, <4>1
    <3>2. CASE Dimacs(m) # Dimacs(l) /\ Dimacs(m) = l.var
      <4>1. l.sign = TRUE /\ Dimacs(Not(l)) = l.var /\ Not(l) \in Literal /\ ~ Constant(Not(l))
        BY <1>2, <1>4, <3>2, Literals
      <4>2. m = Not(l)
        BY <1>2, <2>6, <3>2, <4>1, DimacsInjective
      <4>3. Of(W, Not(l)) = (W[l.var] # FALSE)
        <5>1. Not(l).var = l.var /\ Not(l).sign = ~ l.sign
          BY <1>2, <1>4, Literals
        <5> QED BY <4>1, <5>1 DEF Of
      <4>4. Of(W, m) = W[l.var]
        BY <2>3, <4>2, <4>3
      <4>5. map'[Dimacs(m)] = t
        BY <1>4, <3>2
      <4> QED BY <2>5, <4>4, <4>5
    <3>3. CASE Dimacs(m) # Dimacs(l) /\ Dimacs(m) # l.var
      BY <1>4, <2>6, <3>3 DEF MapRight, Mapped
    <3> QED BY <3>1, <3>2, <3>3
  <2>7. MapRight(W, V)'
    BY <1>1, <2>6 DEF MapRight, Mapped, Literal
  <2> QED BY <2>1, <2>7
<1>14. NotsOK'
  <2>1. PICK of \in [Nat -> Int] : MadeFor(of)
    BY <1>2 DEF NotsOK
  <2> DEFINE new == [[of EXCEPT ![t] = l.var] EXCEPT ![b] = Dimacs(l)]
  <2>2. /\ new \in [Nat -> Int] /\ new[b] = Dimacs(l) /\ new[t] = l.var
        /\ \A h \in Nat : h \notin {t, b} => new[h] = of[h]
    <3>1. t \in Nat /\ b \in Nat
      BY <1>2, <1>7, NewGates
    <3>2. l.var \in Int /\ Dimacs(l) \in Int
      BY <1>4, <1>6
    <3>3. CASE b = t
      <4>1. Dimacs(l) = l.var
        BY <1>4, <3>3
      <4> QED BY <3>1, <3>2, <3>3, <4>1
    <3>4. CASE b # t
      BY <3>1, <3>2, <3>4
    <3> QED BY <3>3, <3>4
  <2> HIDE DEF new
  <2>3. \A d \in DOMAIN map' : map'[d] \in {t, b} => new[map'[d]] = d
    <3>1. \A d \in DOMAIN map : map[d] # t /\ map[d] # b
      BY <1>2, <1>7, NewGates
    <3> SUFFICES ASSUME NEW d \in DOMAIN map', map'[d] \in {t, b} PROVE new[map'[d]] = d
      OBVIOUS
    <3>2. CASE d = Dimacs(l)
      BY <1>4, <2>2, <3>2
    <3>3. CASE d = l.var
      BY <1>4, <2>2, <3>3
    <3>4. CASE d # Dimacs(l) /\ d # l.var
      <4>1. d \in DOMAIN map /\ map'[d] = map[d]
        BY <1>4, <3>4
      <4> QED BY <3>1, <4>1
    <3> QED BY <3>2, <3>3, <3>4
  <2>4. gates'[b].op = "NOT" => new[b] \in DOMAIN map' /\ new[b] \notin DOMAIN map
    BY <1>4, <2>2 DEF Mapped
  <2>5. gates'[b].op = "NOT" => gates'[b].fanins[1] \in DOMAIN gates' /\ new[gates'[b].fanins[1]] = -new[b]
    <3> SUFFICES ASSUME gates'[b].op = "NOT"
                 PROVE  gates'[b].fanins[1] \in DOMAIN gates' /\ new[gates'[b].fanins[1]] = -new[b]
      OBVIOUS
    <3>1. l.sign
      BY <1>4, <1>6
    <3>2. gates'[b].fanins[1] = t /\ Dimacs(l) = -l.var /\ l.var \in Nat
      BY <1>4, <3>1
    <3>3. t \in DOMAIN gates'
      BY <1>4
    <3>4. new[t] = l.var /\ new[b] = -l.var
      BY <2>2, <3>2
    <3>5. l.var = -(-l.var)
      BY <3>2
    <3> QED BY <3>2, <3>3, <3>4, <3>5
  <2>6. gates'[t].op = "NOT" => t = b
    BY <1>6
  <2> QED BY <1>2, <1>7, <2>1, <2>2, <2>3, <2>4, <2>5, <2>6, NotsSettled
<1>15. NodesOK'
  <2>1. BinaryGates' = BinaryGates
    <3>1. b \in DOMAIN gates \/ gates'[b].op \notin BinOps
      BY <1>4 DEF BinOps
    <3> QED BY <1>4, <3>1 DEF BinaryGates
  <2>2. Converted \subseteq Converted'
    <3> SUFFICES ASSUME NEW v \in Converted PROVE v \in Converted'
      OBVIOUS
    <3>1. v \in DOMAIN graph /\ graph[v].op # "input"
      BY DEF Converted
    <3>2. CASE v \in DOMAIN map \/ -v \in DOMAIN map
      BY <1>1, <1>4, <3>1, <3>2 DEF Converted
    <3>3. CASE v \in OpenVars
      <4>1. PICK i \in 2 .. Len(calls) : v = calls[i].lit.var
        BY <3>3 DEF OpenVars
      <4>2. CASE i = Len(calls)
        <5>1. v = l.var
          BY <1>4, <1>9, <4>1, <4>2, TopOf
        <5> QED BY <1>1, <1>4, <3>1, <5>1 DEF Converted
      <4>3. CASE i # Len(calls)
        <5>1. i \in 2 .. Len(calls') /\ i \in DOMAIN calls'
          BY <1>5, <4>1, <4>3
        <5>2. v \in OpenVars'
          BY <1>5, <4>1, <5>1 DEF OpenVars
        <5> QED BY <1>1, <3>1, <5>2 DEF Converted
      <4> QED BY <4>2, <4>3
    <3> QED BY <3>2, <3>3 DEF Converted
  <2> QED BY <1>1, <1>2, <2>1, <2>2, NodesSettled
<1>16. MapOK'
  <2>1. \A h \in {t, b} : gates'[h].op # "OUTPUT"
    BY <1>4, <1>6
  <2>2. b \notin DOMAIN gates => \A j \in DOMAIN gates'[b].fanins : gates'[b].fanins[j] = t /\ gates[t].op # "OUTPUT"
    BY <1>4, <1>6
  <2> QED BY <1>2, <1>4, <1>7, <2>1, <2>2, MapSettled
<1> QED BY <1>10, <1>11, <1>12, <1>13, <1>14, <1>15, <1>16 DEF Kept

\* The OUTPUT gate is connected: it is complete, and a _Bool puts it in the map.
LEMMA EndOutputKeeps ==
  ASSUME IInv, EndOutput
  PROVE  Kept'
<1>1. /\ Len(calls) = 1 /\ Top.todo = << >>
      /\ map' = IF OutTypes[next] = "bool" THEN Remember(map, Top.lit, Top.gate) ELSE map
      /\ outputs' = Append(outputs, Top.gate)
      /\ next' = next + 1 /\ calls' = << >>
      /\ UNCHANGED <<graph, inLits, outLits, phase, gates>>
  BY DEF EndOutput
<1>2. GraphOK /\ PhaseOK /\ CircuitOK /\ StackOK /\ NotsOK /\ NodesOK /\ MapOK
  BY DEF IInv
<1>3. calls # << >>
  <2>1. Len(<< >>) = 0
    OBVIOUS
  <2> QED BY <1>1, <2>1
<1>4. PICK o, l : o = Top.gate /\ l = Top.lit
  OBVIOUS
<1>5. /\ 1 \in DOMAIN calls /\ Top = calls[1] /\ o \in DOMAIN gates /\ o \notin Finished
      /\ l \in Literal /\ Activation(1) /\ phase = "outputs" /\ next \in DOMAIN OutTypes
      /\ outLits \in [DOMAIN OutTypes -> Literal]
  BY <1>1, <1>3, <1>4, TopOf
<1>6. /\ gates[o].op = "OUTPUT" /\ l = outLits[next] /\ Len(gates[o].fanins) = 1
      /\ Constant(l) \/ Mapped(l)
  <2>1. Bottom(Top) /\ Top.todo = << >>
    BY <1>1, <1>5 DEF Activation
  <2>2. <<Top.lit>> # << >>
    OBVIOUS
  <2>3. gates[o].op = "OUTPUT" /\ l = outLits[next] /\ OneFanin(l, gates[o].fanins, Top.todo)
        /\ (Constant(l) \/ Mapped(l))
    BY <1>4, <2>1 DEF Bottom
  <2>4. Len(gates[o].fanins) = 1
    BY <1>4, <2>1, <2>2, <2>3 DEF OneFanin
  <2> QED BY <2>3, <2>4
<1>7. Finished' = Finished \cup {o} /\ DOMAIN calls' = {} /\ Len(calls') = 0
  <2>1. calls' = SubSeq(calls, 1, Len(calls) - 1)
    <3>1. calls \in Seq(CallRecord)
      BY <1>2 DEF CircuitOK
    <3>2. SubSeq(calls, 1, 0) = << >>
      BY <3>1, SubSeqEmpty
    <3> QED BY <1>1, <3>2
  <2>2. DOMAIN gates' = DOMAIN gates
    BY <1>1
  <2>3. Finished' = Finished \cup {Top.gate} \cup (DOMAIN gates' \ DOMAIN gates)
    BY <1>3, <2>1, <2>2, CloseEffect
  <2>4. DOMAIN calls' = {} /\ Len(calls') = 0
    BY <1>1
  <2> QED BY <1>4, <2>2, <2>3, <2>4
<1>8. /\ OutTypes[next] \in {"int", "bool"} /\ Len(outputs) = next - 1 /\ next \in Nat \ {0}
      /\ next <= Len(OutTypes) /\ outputs \in Seq(Nat)
  <2>1. OutTypes[next] \in {"int", "bool"}
    BY <1>5, Bounds
  <2>2. next <= Len(OutTypes) /\ Len(outputs) = next - 1
    BY <1>2, <1>5, Widths DEF PhaseOK
  <2> QED BY <1>2, <2>1, <2>2 DEF PhaseOK, CircuitOK
<1>9. /\ outputs' \in Seq(Nat) /\ Len(outputs') = next
      /\ DOMAIN outputs' = DOMAIN outputs \cup {next} /\ next \notin DOMAIN outputs
      /\ outputs'[next] = o /\ \A k \in DOMAIN outputs : outputs'[k] = outputs[k]
  <2>1. o \in Nat /\ outputs' = Append(outputs, o)
    BY <1>1, <1>2, <1>4, <1>5, State
  <2> QED BY <1>8, <2>1
<1>10. Dimacs(l) \in Int /\ l.var \in Int
  BY <1>2, <1>5, Literals
<1>11. /\ DOMAIN map' \subseteq DOMAIN map \cup {Dimacs(l)} /\ DOMAIN map \subseteq DOMAIN map'
       /\ \A d \in DOMAIN map' : (d = Dimacs(l) /\ map'[d] = o) \/ (d \in DOMAIN map /\ map'[d] = map[d])
       /\ map' = [d \in DOMAIN map' |-> map'[d]]
       /\ NoBool => map' = map
  <2>1. CASE OutTypes[next] = "bool"
    <3>1. map' = Remember(map, l, o) /\ ~ NoBool
      BY <1>1, <1>4, <1>5, <2>1 DEF NoBool
    <3> QED BY <3>1 DEF Remember
  <2>2. CASE OutTypes[next] # "bool"
    BY <1>1, <1>2, <2>2 DEF CircuitOK
  <2> QED BY <2>1, <2>2
<1>12. Settled(o, o)
  <2>1. \A k \in DOMAIN outputs' : outputs'[k] \in Finished \cup {o}
    BY <1>2, <1>9 DEF CircuitOK
  <2>2. DOMAIN map' \subseteq Int
    BY <1>2, <1>10, <1>11 DEF CircuitOK
  <2>3. Len(gates'[o].fanins) = Arity(gates'[o].op) /\ gates'[o].op # "INPUT"
    BY <1>1, <1>6 DEF Arity
  <2>4. \A j \in DOMAIN gates'[o].fanins : gates'[o].fanins[j] \in Sources
    BY <1>1, <1>2, <1>5 DEF CircuitOK
  <2>5. gates' \in Seq(GateRecord) /\ calls' \in Seq(CallRecord)
    BY <1>1, <1>2 DEF CircuitOK
  <2>6. \A d \in DOMAIN map' : map'[d] = o \/ (d \in DOMAIN map /\ map'[d] = map[d])
    BY <1>11
  <2>7. UNCHANGED <<graph, inLits, outLits, gates>>
    BY <1>1
  <2>8. DOMAIN gates = DOMAIN gates \cup {o}
    BY <1>5
  <2> QED BY <1>5, <1>7, <1>9, <1>11, <2>1, <2>2, <2>3, <2>4, <2>5, <2>6, <2>7, <2>8 DEF Settled
<1>13. Stays
  BY <1>7 DEF Stays
<1>14. PhaseOK'
  <2>1. phase' = "outputs" /\ next' = next + 1 /\ Len(outputs') = next' - 1 /\ next' <= Len(OutTypes) + 1
    BY <1>1, <1>5, <1>8, <1>9, Widths
  <2>2. Literal' = Literal /\ UNCHANGED <<inLits, outLits>> /\ calls' = << >> /\ next' \in Nat \ {0}
    BY <1>1, <1>8 DEF Literal
  <2>3. Len(inLits') = Len(InTypes) /\ outLits' \in [DOMAIN OutTypes -> Literal']
    BY <1>2, <1>5, <2>2 DEF PhaseOK
  <2> QED BY <2>1, <2>2, <2>3 DEF PhaseOK
<1>15. CircuitOK'
  BY <1>2, <1>12, CircuitSettled
<1>16. StackOK'
  BY <1>7 DEF StackOK
<1>17. Meaning'
  <2> SUFFICES ASSUME NEW in \in Inputs, NEW W, NEW V, ValuesOfGraph(in, W), ValuesOfGates(in, V)',
                      MapRight(W, V), CallsRight(W, V), OutputsRight(W, V)
               PROVE  MapRight(W, V)' /\ OutputsRight(W, V)'
    BY <1>12, <1>13, MeaningSettled
  <2>1. V[o] = Of(W, l)
    <3>1. V[o] = Pin(V, gates[o].fanins[1])
      BY <1>1, <1>6, <1>7, ValueOf
    <3>2. Pin(V, gates[o].fanins[1]) = Of(W, l)
      BY <1>4, <1>5, <1>6 DEF CallsRight
    <3> QED BY <3>1, <3>2
  <2>2. Pin(V, o) = Of(W, l)
    <3>1. o # ONE /\ o # ZERO
      BY <1>2, <1>12, NewGates
    <3> QED BY <2>1, <3>1 DEF Pin
  <2>3. OutputsRight(W, V)'
    <3>1. \A k \in DOMAIN outputs' : V[outputs'[k]] = Of(W, outLits[k])
      BY <1>6, <1>9, <2>1 DEF OutputsRight
    <3> QED BY <1>1, <3>1 DEF OutputsRight
  <2>4. ASSUME NEW m \in Literal, ~ Constant(m), Dimacs(m) \in DOMAIN map'
        PROVE  Pin(V, map'[Dimacs(m)]) = Of(W, m)
    <3>1. CASE Dimacs(m) \in DOMAIN map /\ map'[Dimacs(m)] = map[Dimacs(m)]
      BY <2>4, <3>1 DEF MapRight, Mapped
    <3>2. CASE Dimacs(m) = Dimacs(l) /\ map'[Dimacs(m)] = o
      <4>1. m = l
        BY <1>2, <1>5, <2>4, <3>2, DimacsInjective
      <4> QED BY <2>2, <3>2, <4>1
    <3> QED BY <1>11, <2>4, <3>1, <3>2
  <2>5. MapRight(W, V)'
    BY <1>1, <2>4 DEF MapRight, Mapped, Literal
  <2> QED BY <2>3, <2>5
<1>18. NotsOK'
  <2>1. PICK of \in [Nat -> Int] : MadeFor(of)
    BY <1>2 DEF NotsOK
  <2> DEFINE new == [of EXCEPT ![o] = Dimacs(l)]
  <2>2. /\ new \in [Nat -> Int] /\ new[o] = Dimacs(l)
        /\ \A h \in Nat : h # o => new[h] = of[h]
    <3>1. o \in Nat
      BY <1>2, <1>12, NewGates
    <3> QED BY <1>10, <3>1
  <2> HIDE DEF new
  <2>3. \A d \in DOMAIN map' : map'[d] = o => new[map'[d]] = d
    <3>1. \A d \in DOMAIN map : map[d] # o
      BY <1>2, <1>12, NewGates
    <3> QED BY <1>11, <2>2, <3>1
  <2>4. gates'[o].op # "NOT"
    BY <1>1, <1>6
  <2> QED BY <1>2, <1>12, <2>1, <2>2, <2>3, <2>4, NotsSettled
<1>19. NodesOK'
  <2>1. BinaryGates' = BinaryGates
    BY <1>1 DEF BinaryGates
  <2>2. OpenVars = {}
    BY <1>1 DEF OpenVars
  <2>3. Converted \subseteq Converted'
    BY <1>1, <1>11, <2>2 DEF Converted
  <2> QED BY <1>1, <1>2, <2>1, <2>3, NodesSettled
<1>20. MapOK'
  <2>1. NoBool => \A d \in DOMAIN map' : map'[d] # o
    <3>1. \A d \in DOMAIN map : map[d] # o
      BY <1>2, <1>12, NewGates
    <3> QED BY <1>11, <3>1
  <2> QED BY <1>2, <1>5, <1>12, <2>1, MapSettled
<1> QED BY <1>14, <1>15, <1>16, <1>17, <1>18, <1>19, <1>20 DEF Kept

\* literals_to_io_gates(): an INPUT gate for the first bit of an input.
LEMMA ConvertInputKeeps ==
  ASSUME IInv, ConvertInput
  PROVE  Kept'
<1>1. PICK g, k : g = Len(gates) + 1 /\ k = next
  OBVIOUS
<1> DEFINE bits == {inLits[k][b].var : b \in Bit(k)}
<1>2. /\ phase = "inputs" /\ k <= Len(InTypes)
      /\ gates' = Append(gates, [op |-> "INPUT", fanins |-> << >>])
      /\ map' = [d \in DOMAIN map \cup bits |->
                   IF d = inLits[k][0].var THEN g ELSE IF d \in bits THEN ZERO ELSE map[d]]
      /\ next' = k + 1
      /\ UNCHANGED <<graph, inLits, outLits, phase, outputs, calls>>
  BY <1>1 DEF ConvertInput, Bit, UpperBit
<1>3. GraphOK /\ InputsOK /\ PhaseOK /\ CircuitOK /\ StackOK /\ NotsOK /\ NodesOK /\ MapOK
  BY DEF IInv
<1>4. /\ calls = << >> /\ outputs = << >> /\ Len(gates) = k - 1 /\ g = k /\ k \in Nat \ {0}
      /\ Len(inLits) = Len(InTypes) /\ k \in DOMAIN inLits /\ k \in DOMAIN InTypes
      /\ outLits \in [DOMAIN OutTypes -> Literal] /\ DOMAIN calls = {}
  <2>1. /\ calls = << >> /\ outputs = << >> /\ Len(gates) = k - 1 /\ k \in Nat \ {0}
        /\ Len(inLits) = Len(InTypes) /\ outLits \in [DOMAIN OutTypes -> Literal]
    BY <1>1, <1>2, <1>3 DEF PhaseOK
  <2>2. k \in DOMAIN inLits /\ k \in DOMAIN InTypes
    BY <1>2, <1>3, <2>1, Widths DEF InputsOK
  <2> QED BY <1>1, <2>1, <2>2
<1>5. /\ 0 \in Bit(k) /\ Bit(k) \subseteq Nat /\ bits \subseteq DOMAIN graph /\ bits \subseteq Int
      /\ \A b \in Bit(k) : /\ inLits[k][b] \in Literal /\ ~ Constant(inLits[k][b])
                           /\ Dimacs(inLits[k][b]) = inLits[k][b].var /\ inLits[k][b].sign = FALSE
                           /\ graph[inLits[k][b].var].op = "input"
  <2>1. 0 \in Bit(k) /\ Bit(k) \subseteq Nat
    BY Widths DEF Bit
  <2>2. PICK n \in 0 .. MaxNode :
           /\ DOMAIN graph = 1 .. n /\ n < ConstVar
           /\ Literal = {m \in Lits : m.var \in 1 .. n} \cup {True, False}
    BY <1>3, Variables
  <2>3. ASSUME NEW b \in Bit(k)
        PROVE  /\ inLits[k][b] \in Literal /\ ~ Constant(inLits[k][b])
               /\ Dimacs(inLits[k][b]) = inLits[k][b].var /\ inLits[k][b].sign = FALSE
               /\ inLits[k][b].var \in DOMAIN graph /\ graph[inLits[k][b].var].op = "input"
    <3>1. PICK m : m = inLits[k][b]
      OBVIOUS
    <3>2. m \in Lits /\ m.var \in DOMAIN graph /\ ~ m.sign /\ graph[m.var].op = "input"
      <4>1. /\ inLits[k] \in [Bit(k) -> Lits] /\ inLits[k][b].var \in DOMAIN graph /\ ~ inLits[k][b].sign
            /\ graph[inLits[k][b].var].op = "input"
        BY <1>3, <1>4 DEF InputsOK
      <4> QED BY <3>1, <4>1
    <3>3. m \in Literal
      BY <2>2, <3>2
    <3>4. ~ Constant(m)
      BY <2>2, <3>2, Bounds DEF Constant
    <3>5. m.sign = FALSE /\ Dimacs(m) = m.var
      BY <3>2 DEF Dimacs, Lits
    <3> QED BY <3>1, <3>2, <3>3, <3>4, <3>5
  <2>4. bits \subseteq DOMAIN graph
    BY <2>3
  <2>5. DOMAIN graph \subseteq Int
    BY <2>2
  <2> HIDE DEF bits
  <2> QED BY <2>1, <2>3, <2>4, <2>5
<1>6. /\ gates' \in Seq(GateRecord) /\ Len(gates') = g
      /\ DOMAIN gates' = DOMAIN gates \cup {g} /\ g \notin DOMAIN gates
      /\ g # ONE /\ g # ZERO /\ g \in Nat
      /\ \A h \in DOMAIN gates : gates'[h] = gates[h]
      /\ gates'[g].op = "INPUT" /\ gates'[g].fanins = << >>
      /\ Finished' = Finished \cup {g} /\ g \notin Finished
  <2>1. << >> \in Seq(Int) /\ calls' = calls
    BY <1>2
  <2>2. /\ gates' \in Seq(GateRecord) /\ Len(gates') = g
        /\ DOMAIN gates' = DOMAIN gates \cup {g} /\ g \notin DOMAIN gates
        /\ g # ONE /\ g # ZERO /\ g \in Nat
        /\ \A h \in DOMAIN gates : gates'[h] = gates[h]
        /\ gates'[g].op = "INPUT" /\ gates'[g].fanins = << >>
    BY <1>1, <1>2, <1>3, <2>1, GateCreated
  <2>3. Finished' = Finished \cup {g}
    BY <1>1, <1>2, <1>3, <2>1, MakeEffect
  <2>4. g \notin Finished
    BY <1>3, <2>2, State
  <2> QED BY <2>2, <2>3, <2>4
<1>7. PICK first : first = inLits[k][0].var
  OBVIOUS
<1>8. /\ DOMAIN map' = DOMAIN map \cup bits /\ first \in bits
      /\ \A d \in DOMAIN map' : \/ d = first /\ map'[d] = g
                                \/ d # first /\ d \in bits /\ map'[d] = ZERO
                                \/ d \notin bits /\ d \in DOMAIN map /\ map'[d] = map[d]
      /\ map' = [d \in DOMAIN map' |-> map'[d]]
  <2>1. first \in bits
    BY <1>5, <1>7
  <2> HIDE DEF bits
  <2> QED BY <1>2, <1>7, <2>1
<1> HIDE DEF bits
<1>9. Settled(g, g)
  <2>1. outputs' \in Seq(Nat) /\ \A j \in DOMAIN outputs' : outputs'[j] \in Finished
    BY <1>2, <1>3 DEF CircuitOK
  <2>2. DOMAIN map' \subseteq Int
    BY <1>3, <1>5, <1>8 DEF CircuitOK
  <2>3. Len(gates'[g].fanins) = Arity(gates'[g].op) /\ g \in DOMAIN InTypes /\ DOMAIN gates'[g].fanins = {}
    BY <1>4, <1>6 DEF Arity
  <2>4. calls' \in Seq(CallRecord)
    BY <1>2, <1>3 DEF CircuitOK
  <2>5. \A d \in DOMAIN map' : map'[d] \in {g, ZERO} \/ (d \in DOMAIN map /\ map'[d] = map[d])
    BY <1>8
  <2> QED BY <1>2, <1>6, <1>8, <2>1, <2>2, <2>3, <2>4, <2>5 DEF Settled
<1>10. Stays
  BY <1>2, <1>3, State DEF Stays
<1>11. PhaseOK'
  <2>1. /\ phase' = "inputs" /\ next' = k + 1 /\ Len(gates') = next' - 1 /\ next' <= Len(InTypes) + 1
        /\ next' \in Nat \ {0} /\ outputs' = << >> /\ calls' = << >>
    BY <1>2, <1>4, <1>6, Widths
  <2>2. Literal' = Literal /\ UNCHANGED <<inLits, outLits>>
    BY <1>2 DEF Literal
  <2> QED BY <1>4, <2>1, <2>2 DEF PhaseOK
<1>12. CircuitOK'
  BY <1>3, <1>9, CircuitSettled
<1>13. StackOK'
  BY <1>2, <1>4 DEF StackOK
<1>14. Meaning'
  <2> SUFFICES ASSUME NEW in \in Inputs, NEW W, NEW V, ValuesOfGraph(in, W), ValuesOfGates(in, V)',
                      MapRight(W, V), CallsRight(W, V), OutputsRight(W, V)
               PROVE  MapRight(W, V)' /\ OutputsRight(W, V)'
    BY <1>9, <1>10, MeaningSettled
  <2>1. OutputsRight(W, V)'
    BY <1>2, <1>4 DEF OutputsRight
  <2>2. V[g] = in[k] /\ in[k] \in BOOLEAN
    <3>1. V[g] = in[g]
      BY <1>6, ValueOf
    <3> QED BY <1>4, <3>1 DEF Inputs
  <2>3. \A b \in Bit(k) : W[inLits[k][b].var] = (b = 0 /\ in[k])
    BY <1>4 DEF ValuesOfGraph
  <2>4. ASSUME NEW m \in Literal, ~ Constant(m), Dimacs(m) \in DOMAIN map'
        PROVE  Pin(V, map'[Dimacs(m)]) = Of(W, m)
    <3>1. CASE Dimacs(m) \notin bits
      BY <1>8, <2>4, <3>1 DEF MapRight, Mapped
    <3>2. CASE Dimacs(m) \in bits
      <4>1. PICK b \in Bit(k) : Dimacs(m) = inLits[k][b].var
        BY <3>2 DEF bits
      <4>2. m = inLits[k][b]
        BY <1>3, <1>5, <2>4, <4>1, DimacsInjective
      <4>3. Of(W, m) = (W[m.var] # FALSE) /\ W[m.var] = (b = 0 /\ in[k])
        BY <1>5, <2>3, <2>4, <4>2 DEF Of
      <4>4. Of(W, m) = (b = 0 /\ in[k])
        BY <2>2, <4>3
      <4>5. CASE b = 0
        <5>1. Dimacs(m) = first
          BY <1>7, <4>1, <4>5
        <5>2. map'[Dimacs(m)] = g
          BY <1>8, <2>4, <5>1
        <5>3. Pin(V, g) = in[k]
          BY <1>6, <2>2 DEF Pin
        <5> QED BY <2>2, <4>4, <4>5, <5>2, <5>3
      <4>6. CASE b # 0
        <5>1. Dimacs(m) # first
          BY <1>3, <1>4, <1>5, <1>7, <4>1, <4>6 DEF InputsOK
        <5>2. map'[Dimacs(m)] = ZERO
          BY <1>8, <2>4, <3>2, <5>1
        <5>3. Pin(V, ZERO) = FALSE
          BY DEF Pin, ONE, ZERO
        <5> QED BY <4>4, <4>6, <5>2, <5>3
      <4> QED BY <4>5, <4>6
    <3> QED BY <3>1, <3>2
  <2>5. MapRight(W, V)'
    <3>1. graph' = graph
      BY <1>2
    <3> QED BY <2>4, <3>1 DEF MapRight, Mapped, Literal
  <2> QED BY <2>1, <2>5
<1>15. NotsOK'
  <2>1. PICK of \in [Nat -> Int] : MadeFor(of)
    BY <1>3 DEF NotsOK
  <2> DEFINE new == [of EXCEPT ![g] = first]
  <2>2. /\ new \in [Nat -> Int] /\ new[g] = first
        /\ \A h \in Nat : h # g => new[h] = of[h]
    <3>1. first \in Int
      BY <1>5, <1>8
    <3> QED BY <1>6, <3>1
  <2> HIDE DEF new
  <2>3. \A d \in DOMAIN map' : map'[d] = g => new[map'[d]] = d
    <3>1. \A d \in DOMAIN map : map[d] # g
      BY <1>3, <1>9, NewGates
    <3> QED BY <1>6, <1>8, <2>2, <3>1
  <2>4. gates'[g].op # "NOT"
    BY <1>6
  <2> QED BY <1>3, <1>9, <2>1, <2>2, <2>3, <2>4, NotsSettled
<1>16. NodesOK'
  <2>1. BinaryGates' = BinaryGates
    BY <1>6 DEF BinaryGates, BinOps
  <2>2. OpenVars' = OpenVars
    BY <1>2 DEF OpenVars
  <2>3. Converted \subseteq Converted'
    BY <1>2, <1>8, <2>2 DEF Converted
  <2> QED BY <1>2, <1>3, <2>1, <2>3, NodesSettled
<1>17. MapOK'
  <2>1. DOMAIN gates'[g].fanins = {}
    BY <1>6
  <2> QED BY <1>3, <1>6, <1>9, <2>1, MapSettled
<1> QED BY <1>11, <1>12, <1>13, <1>14, <1>15, <1>16, <1>17 DEF Kept

\* The ends of the two loops of create_circuit().
LEMMA EndsKeep ==
  ASSUME IInv, EndInputs \/ EndOutputs
  PROVE  Kept'
<1>1. /\ UNCHANGED <<graph, inLits, outLits, gates, outputs, map, calls>> /\ calls = << >>
      /\ \/ phase' = "outputs" /\ next' = 1 /\ outputs = << >> /\ Len(inLits) = Len(InTypes)
            /\ outLits \in [DOMAIN OutTypes -> Literal]
         \/ phase = "outputs" /\ phase' = "done" /\ next' = next /\ next > Len(OutTypes)
  <2>1. CASE EndInputs
    BY <2>1 DEF EndInputs, IInv, PhaseOK
  <2>2. CASE EndOutputs
    <3>1. phase = "outputs" /\ next > Len(OutTypes) /\ next \in Nat
      BY <2>2 DEF EndOutputs, IInv, PhaseOK
    <3>2. calls = << >>
      BY <3>1, Widths DEF IInv, PhaseOK
    <3> QED BY <2>2, <3>1, <3>2 DEF EndOutputs
  <2> QED BY <2>1, <2>2
<1>2. PhaseOK /\ CircuitOK /\ StackOK /\ Meaning /\ NotsOK /\ NodesOK /\ MapOK
  BY DEF IInv
<1>3. DOMAIN calls = {} /\ calls' = << >> /\ Literal' = Literal
  BY <1>1 DEF Literal
<1>4. PhaseOK'
  <2>1. CASE phase' = "outputs" /\ next' = 1 /\ outputs = << >> /\ Len(inLits) = Len(InTypes)
            /\ outLits \in [DOMAIN OutTypes -> Literal]
    <3>1. Len(outputs') = 0 /\ 1 <= Len(OutTypes) + 1
      BY <1>1, <2>1, Widths
    <3> QED BY <1>1, <1>3, <2>1, <3>1 DEF PhaseOK
  <2>2. CASE phase = "outputs" /\ phase' = "done" /\ next' = next /\ next > Len(OutTypes)
    <3>1. next = Len(OutTypes) + 1
      BY <1>2, <2>2, Widths DEF PhaseOK
    <3> QED BY <1>1, <1>2, <1>3, <2>2, <3>1 DEF PhaseOK
  <2> QED BY <1>1, <2>1, <2>2
<1>5. CircuitOK'
  <2>1. Finished' = Finished /\ Sources' = Sources
    BY <1>1 DEF Finished, Sources
  <2> QED BY <1>1, <1>2, <2>1 DEF CircuitOK
<1>6. StackOK'
  BY <1>1, <1>3 DEF StackOK
<1>7. Meaning'
  BY <1>1, <1>2 DEF Meaning, ValuesOfGraph, ValuesOfGates, ValueOfGate, Finished, MapRight, Mapped,
                    CallsRight, OutputsRight, Left, Right, Literal
<1>8. NotsOK' /\ NodesOK' /\ MapOK'
  BY <1>1, <1>2 DEF NotsOK, MadeFor, NodesOK, BinaryGates, Converted, OpenVars, MapOK, OutputsAreNotRead
<1> QED BY <1>4, <1>5, <1>6, <1>7, <1>8 DEF Kept

LEMMA Step == IInv /\ [Next]_vars => IInv'
<1> SUFFICES ASSUME IInv, [Next]_vars PROVE IInv'
  OBVIOUS
<1>1. GraphOK' /\ InputsOK'
  BY GraphStep, InputsStep DEF IInv
<1>2. CASE DeclareInput \/ Operation \/ StartCircuit
  BY <1>1, <1>2, BuildStep DEF IInv
<1>3. CASE ConvertInput
  BY <1>1, <1>3, ConvertInputKeeps DEF IInv, Kept
<1>4. CASE EndInputs \/ EndOutputs
  BY <1>1, <1>4, EndsKeep DEF IInv, Kept
<1>5. CASE CreateOutput
  BY <1>1, <1>5, CreateOutputKeeps DEF IInv, Kept
<1>6. CASE ConvertNode
  <2>1. CASE Return
    BY <1>1, <2>1, ReturnKeeps DEF IInv, Kept
  <2>2. ASSUME NEW l \in Literal, Connect(l) \/ Negate(l) \/ Descend(l)
        PROVE  Kept'
    BY <2>2, ConnectKeeps, NegateKeeps, DescendKeeps
  <2> QED BY <1>1, <1>6, <2>1, <2>2 DEF ConvertNode, IInv, Kept
<1>7. CASE EndOutput
  BY <1>1, <1>7, EndOutputKeeps DEF IInv, Kept
<1>8. CASE UNCHANGED vars
  <2>1. /\ UNCHANGED <<graph, inLits, outLits, phase, next, gates, outputs, map, calls>>
    BY <1>8 DEF vars
  <2>2. PhaseOK' /\ CircuitOK' /\ StackOK'
    <3>1. Finished' = Finished /\ Sources' = Sources /\ Literal' = Literal
      BY <2>1 DEF Finished, Sources, Literal
    <3>2. PhaseOK' /\ CircuitOK'
      BY <2>1, <3>1 DEF IInv, PhaseOK, CircuitOK
    <3>3. StackOK'
      BY <2>1, <3>1 DEF IInv, StackOK, Activation, Bottom, Inner, Mapped, Left, Right
    <3> QED BY <3>2, <3>3
  <2>3. Meaning'
    BY <2>1 DEF IInv, Meaning, ValuesOfGraph, ValuesOfGates, ValueOfGate, Finished, MapRight, Mapped,
                CallsRight, OutputsRight, Left, Right, Literal
  <2>4. NotsOK' /\ NodesOK' /\ MapOK'
    BY <2>1 DEF IInv, NotsOK, MadeFor, NodesOK, BinaryGates, Converted, OpenVars, MapOK, OutputsAreNotRead
  <2> QED BY <1>1, <2>2, <2>3, <2>4 DEF IInv
<1> QED BY <1>2, <1>3, <1>4, <1>5, <1>6, <1>7, <1>8 DEF Next

----------------------------------------------------------------------------
(* What it means.                                                          *)

LEMMA Follows == IInv => SameAsProgram /\ ConvertedOnce
<1> SUFFICES ASSUME IInv PROVE SameAsProgram /\ ConvertedOnce
  OBVIOUS
<1>1. GraphOK /\ InputsOK /\ PhaseOK /\ CircuitOK /\ StackOK /\ Meaning /\ NotsOK /\ NodesOK /\ MapOK
  BY DEF IInv
<1>2. TypeOK
  <2>1. Sources \subseteq {ONE, ZERO} \cup DOMAIN gates /\ Finished \subseteq DOMAIN gates
    BY DEF Sources, Finished
  <2>2. \A g \in DOMAIN gates : \A j \in DOMAIN gates[g].fanins : gates[g].fanins[j] \in {ONE, ZERO} \cup DOMAIN gates
    BY <1>1, <2>1 DEF CircuitOK
  <2>3. \A g \in DOMAIN gates : ToSet(gates[g].fanins) \subseteq {ONE, ZERO} \cup DOMAIN gates
    BY <2>2 DEF ToSet
  <2>4. \A d \in DOMAIN map : map[d] \in {ONE, ZERO} \cup DOMAIN gates
    BY <1>1, <2>1 DEF CircuitOK
  <2> QED BY <1>1, <2>3, <2>4 DEF TypeOK, PhaseOK
<1>3. OutputsAreNotRead
  <2>1. CASE NoBool
    BY <1>1, <2>1 DEF MapOK
  <2>2. CASE ~ NoBool
    BY <2>2 DEF OutputsAreNotRead, NoBool
  <2> QED BY <2>1, <2>2
<1>4. FoldingIsRight
  BY <1>1, FoldingFollows
<1>5. ComputesTheProgram
  <2> SUFFICES ASSUME phase = "done", NEW in \in Inputs
               PROVE  [k \in DOMAIN outputs |-> GateValue(in)[outputs[k]]]
                        = [k \in DOMAIN outLits |-> LitValue(in, outLits[k])]
    BY DEF ComputesTheProgram, Inputs
  <2>1. /\ calls = << >> /\ outLits \in [DOMAIN OutTypes -> Literal]
        /\ Len(outputs) = next - 1 /\ next = Len(OutTypes) + 1
    BY <1>1 DEF PhaseOK
  <2>2. DOMAIN outputs = DOMAIN outLits
    <3>1. Len(outputs) = Len(OutTypes) /\ DOMAIN outputs = 1 .. Len(outputs)
      BY <1>1, <2>1, State, Widths
    <3> QED BY <2>1, <3>1, Widths
  <2>3. PICK V : ValuesOfGates(in, V) /\ \A g \in DOMAIN gates : V[g] = GateValue(in)[g]
    BY <1>1, <2>1, GatesHaveValues
  <2>4. PICK W : W = VarValue(in)
    OBVIOUS
  <2>5. ValuesOfGraph(in, W) /\ \A l : LitValue(in, l) = Of(W, l)
    BY <1>1, <2>4, GraphHasValues
  <2>6. OutputsRight(W, V)
    BY <1>1, <2>3, <2>5 DEF Meaning
  <2>7. ASSUME NEW k \in DOMAIN outputs PROVE GateValue(in)[outputs[k]] = LitValue(in, outLits[k])
    <3>1. outputs[k] \in DOMAIN gates
      BY <1>1, State DEF CircuitOK
    <3> QED BY <2>3, <2>5, <2>6, <3>1 DEF OutputsRight
  <2> QED BY <2>2, <2>7
<1>6. Cardinality(BinaryGates) <= Cardinality({n \in DOMAIN graph : graph[n].op # "input"})
  <2> DEFINE Nodes == {n \in DOMAIN graph : graph[n].op # "input"}
  <2>1. Nodes \subseteq DOMAIN graph /\ Converted \subseteq Nodes
    BY DEF Converted
  <2>2. IsFiniteSet(DOMAIN graph)
    BY <1>1, Variables
  <2> HIDE DEF Nodes
  <2>3. IsFiniteSet(Nodes)
    BY <2>1, <2>2, FS_Subset
  <2>4. Cardinality(Converted) <= Cardinality(Nodes) /\ IsFiniteSet(Converted)
    BY <2>1, <2>3, FS_Subset
  <2>5. IsFiniteSet(BinaryGates)
    <3>1. BinaryGates \subseteq 1 .. Len(gates) /\ Len(gates) \in Nat
      BY <1>1, State DEF BinaryGates
    <3>2. IsFiniteSet(1 .. Len(gates))
      BY <3>1, FS_Interval
    <3> QED BY <3>1, <3>2, FS_Subset
  <2>6. Cardinality(Converted) \in Int /\ Cardinality(Nodes) \in Int /\ Cardinality(BinaryGates) \in Int
    BY <2>3, <2>4, <2>5, FS_CardinalityType
  <2>7. Cardinality(BinaryGates) <= Cardinality(Nodes)
    BY <1>1, <2>4, <2>6 DEF NodesOK
  <2> QED BY <2>7 DEF Nodes
<1>7. ASSUME NEW g \in DOMAIN gates, NEW h \in DOMAIN gates, gates[g].op = "NOT", gates[h].op = "NOT",
             gates[g].fanins = gates[h].fanins
      PROVE  g = h \/ gates[g].fanins = <<ZERO>>
  <2>1. PICK of \in [Nat -> Int] : MadeFor(of)
    BY <1>1 DEF NotsOK
  <2> DEFINE f == gates[g].fanins
  <2>2. CASE f[1] = ZERO
    <3>1. f \in Seq(Int) /\ Len(f) = 1
      <4>1. g \in Finished
        BY <1>1, <1>7, NotsComplete
      <4> QED BY <1>1, <1>7, <4>1, State DEF CircuitOK, Arity
    <3> HIDE DEF f
    <3>2. f = <<ZERO>>
      BY <2>2, <3>1
    <3> QED BY <3>2 DEF f
  <2>3. CASE f[1] # ZERO
    <3>1. f[1] \in DOMAIN gates /\ of[f[1]] = -of[g] /\ of[f[1]] = -of[h]
      <4>1. f[1] \in DOMAIN gates /\ of[f[1]] = -of[g]
        BY <1>7, <2>1, <2>3 DEF MadeFor
      <4>2. gates[h].fanins[1] # ZERO /\ gates[h].fanins[1] = f[1]
        BY <1>7, <2>3
      <4>3. of[f[1]] = -of[h]
        BY <1>7, <2>1, <4>2 DEF MadeFor
      <4> QED BY <4>1, <4>3
    <3>2. of[g] \in Int /\ of[h] \in Int
      <4>1. g \in Nat /\ h \in Nat
        <5>1. DOMAIN gates = 1 .. Len(gates) /\ Len(gates) \in Nat
          BY <1>1, State
        <5> QED BY <5>1
      <4> QED BY <4>1
    <3>3. of[g] = of[h]
      BY <3>1, <3>2
    <3> QED BY <1>7, <2>1, <3>3 DEF MadeFor
  <2> QED BY <2>2, <2>3
<1>8. ConvertedOnce
  BY <1>6, <1>7 DEF ConvertedOnce, BinaryGates, BinOps
<1> QED BY <1>2, <1>3, <1>4, <1>5, <1>8 DEF SameAsProgram

LEMMA Inductive == Spec => []IInv
<1>1. Init => IInv
  BY Initially
<1>2. IInv /\ [Next]_vars => IInv'
  BY Step
<1> QED BY <1>1, <1>2, PTL DEF Spec

\* The circuit computes what the program assigns to its outputs: for every
\* program, every width of a _Bool and every input (create_circuit(),
\* convert_node(), land(), lor() and lxor()).
THEOREM SameAsProgramCorrect == Spec => []SameAsProgram
<1>1. IInv => SameAsProgram
  BY Follows
<1> QED BY <1>1, Inductive, PTL

\* No node of the graph gets two gates, whatever signs it is read with, and no
\* gate two NOT gates: convert_node().
THEOREM ConvertedOnceCorrect == Spec => []ConvertedOnce
<1>1. IInv => ConvertedOnce
  BY Follows
<1> QED BY <1>1, Inductive, PTL
=============================================================================
