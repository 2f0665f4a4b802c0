------------------------------ MODULE Netlist ------------------------------
(***************************************************************************)
(* Boolean circuits as values, the data that the minimizer of              *)
(* src/libcircuit works on (simple_circuitt in simple_circuit.h).  A       *)
(* circuit maps every gate of the gate list to its operation and to the    *)
(* gates on its fanin pins, and every OUTPUT gate to the gate that drives  *)
(* it.  Fanouts are derived: the module CircuitGraph shows that the two    *)
(* directions that the code stores agree.  Gates of the minimizer have one *)
(* output pin and width 1, so an endpoint is a gate.                       *)
(***************************************************************************)
EXTENDS Integers, FiniteSets

CONSTANTS
  Input,      \* the INPUT gates
  Output,     \* the OUTPUT gates
  Gate,       \* the addresses a gate of the gate list may have
  ONE_GATE,   \* the constant true
  ZERO_GATE,  \* the constant false, which the code builds as NOT(ONE_GATE)
  NULL        \* the null pointer of an unconnected fanin

Const == {ONE_GATE, ZERO_GATE}
Node  == Input \cup Gate \cup Const
Pin   == {0, 1}

ASSUME NetlistAssumption ==
  /\ IsFiniteSet(Input) /\ IsFiniteSet(Gate) /\ IsFiniteSet(Output)
  /\ Input \cap Gate = {} /\ Const \cap (Input \cup Gate) = {}
  /\ Output \cap Node = {}
  /\ ONE_GATE # ZERO_GATE
  /\ NULL \notin Node

BinOp == {"AND", "OR", "XOR"}
Op    == BinOp \cup {"NOT", "FREE"}  \* "FREE": no gate lives at this address

Circuit == [op    : [Gate -> Op],
            fanin : [Gate -> [Pin -> Node \cup {NULL}]],
            out   : [Output -> Node]]

\* The gates in the gate list, and everything a fanin may be connected to.
Gates(c)   == {g \in Gate : c.op[g] # "FREE"}
Present(c) == Input \cup Const \cup Gates(c)

OpOf(c, n) ==
  CASE n \in Gate    -> c.op[n]
    [] n = ZERO_GATE -> "NOT"
    [] n = ONE_GATE  -> "ONE"
    [] OTHER         -> "INPUT"

Fanin(c, n, p) ==
  CASE n \in Gate               -> c.fanin[n][p]
    [] n = ZERO_GATE /\ p = 0   -> ONE_GATE
    [] OTHER                    -> NULL

\* The consumers of n, a pair of a gate and one of its pins each.
Fanouts(c, n) ==
  {f \in Gates(c) \X Pin : c.fanin[f[1]][f[2]] = n}
    \cup {f \in Output \X {0} : c.out[f[1]] = n}
    \cup {f \in {<<ZERO_GATE, 0>>} : n = ONE_GATE}

\* Every pin that an operation has is connected to a gate that is in the
\* circuit, and no other pin is.
WellFormed(c) ==
  /\ \A g \in Gate :
       /\ c.op[g] # "FREE" => c.fanin[g][0] \in Present(c)
       /\ c.op[g] = "FREE" => c.fanin[g][0] = NULL
       /\ c.op[g] \in BinOp => c.fanin[g][1] \in Present(c)
       /\ c.op[g] \notin BinOp => c.fanin[g][1] = NULL
  /\ \A o \in Output : c.out[o] \in Present(c)

----------------------------------------------------------------------------
(* Changes of a circuit.                                                   *)

\* Every consumer of g reads h from now on.
ReplaceBy(c, g, h) ==
  [op    |-> c.op,
   fanin |-> [k \in Gate |-> [p \in Pin |->
                IF c.fanin[k][p] = g THEN h ELSE c.fanin[k][p]]],
   out   |-> [o \in Output |-> IF c.out[o] = g THEN h ELSE c.out[o]]]

\* Take g, which has no consumer, out of the circuit.
RemoveGate(c, g) ==
  [c EXCEPT !.op[g] = "FREE", !.fanin[g] = [p \in Pin |-> NULL]]

----------------------------------------------------------------------------
(* Levels.  The code walks the fanins recursively and throws when it meets *)
(* a gate that it is still working on.                                     *)

Larger(i, j) == IF i < j THEN j ELSE i

Levels(c) ==
  LET L[n \in Node \cup {NULL}] ==
        IF n \in Input \cup {ONE_GATE, NULL} THEN 0
        ELSE 1 + Larger(L[Fanin(c, n, 0)], L[Fanin(c, n, 1)])
  IN  [n \in Present(c) |-> L[n]]

\* A level map that strictly increases along every wire: there is no cycle.
\* ZERO_GATE is a NOT of ONE_GATE, one level above it.
IsRanking(c, L) ==
  /\ L \in [Present(c) -> Nat]
  /\ L[ZERO_GATE] = 1
  /\ \A g \in Gates(c), p \in Pin :
       c.fanin[g][p] # NULL => L[c.fanin[g][p]] < L[g]

Deepest(L, S)    == {g \in S : \A h \in S : L[h] <= L[g]}
Shallowest(L, S) == {g \in S : \A h \in S : L[g] <= L[h]}

\* The same without levels: no set of gates in which each reads another.
Acyclic(c) ==
  ~ \E S \in SUBSET Gates(c) :
      S # {} /\ \A g \in S : \E p \in Pin : c.fanin[g][p] \in S

----------------------------------------------------------------------------
(* What a circuit computes.  A valuation gives every input and gate a      *)
(* value; it is consistent when every gate has the value its operation     *)
(* gives to the values of its fanins.  In a circuit without cycles there   *)
(* is exactly one for every input.                                         *)

Apply(op, x, y) ==
  CASE op = "AND" -> x /\ y
    [] op = "OR"  -> x \/ y
    [] op = "XOR" -> x # y
    [] OTHER      -> ~x

Val(V, n) == IF n = ONE_GATE THEN TRUE
             ELSE IF n \in {ZERO_GATE, NULL} THEN FALSE ELSE V[n]

Consistent(c, V) ==
  \A g \in Gates(c) :
    V[g] = Apply(c.op[g], Val(V, c.fanin[g][0]), Val(V, c.fanin[g][1]))

Valuations(c) ==
  {V \in [Input \cup Gates(c) -> BOOLEAN] : Consistent(c, V)}

Outputs(c, V) == [o \in Output |-> Val(V, c.out[o])]

\* The function from inputs to outputs, as a relation.
Behaviour(c) ==
  {<<[i \in Input |-> V[i]], Outputs(c, V)>> : V \in Valuations(c)}
=============================================================================
