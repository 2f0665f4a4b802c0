--------------------------- MODULE CircuitCreator ---------------------------
(***************************************************************************)
(* circuit_creator_defaultt (cbmc-gc/circuit_creator_default.h and .cpp):  *)
(* while the program is executed symbolically, CBMC builds a graph of      *)
(* AND, OR and XOR nodes over literals, a variable with a sign each; then  *)
(* create_circuit() turns the literals of the inputs, of the calls and of  *)
(* the outputs into gates, with a map from literals to gates under the     *)
(* number that dimacs() gives a literal.                                   *)
(*                                                                         *)
(* A variable of the program is an integer of one bit or a _Bool, whose    *)
(* CHAR_BIT bits share one gate.  Calls return inputs and take outputs, so *)
(* they go the way of the circuit's own variables.                         *)
(***************************************************************************)
EXTENDS Integers, Sequences, FiniteSets, SequencesExt

CONSTANTS
  CHAR_BIT,    \* the bits of a _Bool
  InTypes,     \* the types of the inputs, a sequence of "int" and "bool"
  OutTypes,    \* the types of the outputs
  MaxNode      \* bound on the nodes of the graph

ASSUME CreatorAssumption ==
  /\ CHAR_BIT \in Nat \ {0} /\ MaxNode \in Nat /\ MaxNode < 2147483647
  /\ InTypes \in Seq({"int", "bool"}) /\ OutTypes \in Seq({"int", "bool"})

VARIABLES
  graph,      \* m_literal_to_node: the node of each variable
  inLits,     \* the literals of each input, its lowest bit at 0
  outLits,    \* the literals that the outputs are assigned
  phase,      \* "build", then "inputs", "outputs" and "done"
  next,       \* the variable of the program that is converted next
  gates,      \* the gates of the circuit, in the order they are created
  outputs,    \* the OUTPUT gates of the output variables
  map,        \* literal_to_gate
  calls       \* the OUTPUT gate that is made and the activations of convert_node():
              \* the literal, its gate, and the literals of the fanins to come
vars == <<graph, inLits, outLits, phase, next, gates, outputs, map, calls>>

----------------------------------------------------------------------------
(* Literals.                                                               *)

\* const_var_no(), and the two gates that every circuit has.
ConstVar == 2147483647
ONE  == 0
ZERO == -1

True  == [var |-> ConstVar, sign |-> TRUE]
False == [var |-> ConstVar, sign |-> FALSE]
Not(l)     == [l EXCEPT !.sign = ~ @]
Dimacs(l)  == IF l.sign THEN -l.var ELSE l.var
Constant(l) == l.var = ConstVar

Width(type) == IF type = "bool" THEN CHAR_BIT ELSE 1

\* The number of the first variable of an input.  Variable 0, which is its own
\* negation under dimacs(), belongs to what __CPROVER_initialize sets.
\* Fault: nothing has taken variable 0.
FirstVariable_zero == 0
FirstVariable == 1
NewVariable == FirstVariable + Cardinality(DOMAIN graph)

Literal == {[var |-> v, sign |-> s] : v \in DOMAIN graph, s \in BOOLEAN} \cup {True, False}

----------------------------------------------------------------------------
(* The graph of literals: land(), lor() and lxor().                  *)

\* What a node is folded to when it needs none; {} when it needs one.
FoldAnd(x, y) ==
  CASE False \in {x, y} -> {False}
    [] x = True -> {y} [] y = True -> {x}
    [] x = y -> {x}    [] x = Not(y) -> {False}
    [] OTHER -> {}
FoldOr(x, y) ==
  CASE True \in {x, y} -> {True}
    [] x = False -> {y} [] y = False -> {x}
    [] x = y -> {x}     [] x = Not(y) -> {True}
    [] OTHER -> {}
FoldXor(x, y) ==
  CASE Constant(y) -> {IF y = True THEN Not(x) ELSE x}
    [] Constant(x) -> {IF x = True THEN Not(y) ELSE y}
    [] x = y -> {False} [] x = Not(y) -> {True}
    [] OTHER -> {}

Fold(op, x, y) ==
  CASE op = "AND" -> FoldAnd(x, y) [] op = "OR" -> FoldOr(x, y) [] op = "XOR" -> FoldXor(x, y)

\* The graph after op(x, y).
Made(op, x, y) ==
  LET v == NewVariable
  IN  IF Fold(op, x, y) # {} THEN graph
      ELSE [n \in DOMAIN graph \cup {v} |->
              IF n = v THEN [op |-> op, left |-> x, right |-> y] ELSE graph[n]]

----------------------------------------------------------------------------
(* The program is built.                                                   *)

Init ==
  /\ graph = << >> /\ inLits = << >> /\ outLits = << >>
  /\ phase = "build" /\ next = 1
  /\ gates = << >> /\ outputs = << >> /\ map = << >> /\ calls = << >>

\* An input is read for the first time: a variable for each of its bits.
DeclareInput ==
  /\ phase = "build" /\ Len(inLits) < Len(InTypes)
  /\ LET w == Width(InTypes[Len(inLits) + 1])
         bits == [b \in 0 .. w - 1 |-> [var |-> NewVariable + b, sign |-> FALSE]]
     IN  /\ Cardinality(DOMAIN graph) + w <= MaxNode
         /\ inLits' = Append(inLits, bits)
         /\ graph' = [n \in DOMAIN graph \cup NewVariable .. NewVariable + w - 1 |->
                        IF n \in DOMAIN graph THEN graph[n] ELSE [op |-> "input"]]
  /\ UNCHANGED <<outLits, phase, next, gates, outputs, map, calls>>

\* A binary operation of the program on two literals.
Operation ==
  /\ phase = "build"
  /\ Cardinality(DOMAIN graph) < MaxNode
  /\ \E op \in {"AND", "OR", "XOR"}, x, y \in Literal : graph' = Made(op, x, y)
  /\ UNCHANGED <<inLits, outLits, phase, next, gates, outputs, map, calls>>

\* The outputs have been assigned: one literal each, and zeros in the upper
\* bits of a _Bool.
StartCircuit ==
  /\ phase = "build" /\ Len(inLits) = Len(InTypes)
  /\ outLits' \in [DOMAIN OutTypes -> Literal]
  /\ phase' = "inputs"
  /\ UNCHANGED <<graph, inLits, next, gates, outputs, map, calls>>

----------------------------------------------------------------------------
(* create_circuit().                                                       *)

\* literals_to_io_gates() for input number next: one INPUT gate, and ZERO for
\* the bits of a _Bool but the first.
UpperBit == ZERO
ConvertInput ==
  /\ phase = "inputs" /\ next <= Len(InTypes)
  /\ gates' = Append(gates, [op |-> "INPUT", fanins |-> << >>])
  /\ LET bits == {inLits[next][b].var : b \in 0 .. Width(InTypes[next]) - 1}
     IN  map' = [d \in DOMAIN map \cup bits |->
                   IF d = inLits[next][0].var THEN Len(gates) + 1
                   ELSE IF d \in bits THEN UpperBit ELSE map[d]]
  /\ next' = next + 1
  /\ UNCHANGED <<graph, inLits, outLits, phase, outputs, calls>>

EndInputs ==
  /\ phase = "inputs" /\ next > Len(InTypes)
  /\ phase' = "outputs" /\ next' = 1
  /\ UNCHANGED <<graph, inLits, outLits, gates, outputs, map, calls>>

Top == calls[Len(calls)]
Call(l, todo) == [lit |-> l, gate |-> Len(gates) + 1, todo |-> todo]
Remember(m, l, g) == [d \in DOMAIN m \cup {Dimacs(l)} |-> IF d = Dimacs(l) THEN g ELSE m[d]]

\* The OUTPUT gate of output number next is created, then what it reads.
CreateOutput ==
  /\ phase = "outputs" /\ next <= Len(OutTypes) /\ calls = << >>
  /\ gates' = Append(gates, [op |-> "OUTPUT", fanins |-> << >>])
  /\ calls' = <<Call(outLits[next], <<outLits[next]>>)>>
  /\ UNCHANGED <<graph, inLits, outLits, phase, next, outputs, map>>

\* It is done.  A _Bool puts its OUTPUT gate into the map, in the place of the
\* gate that drives it; an OUTPUT gate of an integer is not put there.
EndOutput ==
  /\ Len(calls) = 1 /\ Top.todo = << >>
  /\ map' = IF OutTypes[next] = "bool" THEN Remember(map, Top.lit, Top.gate) ELSE map
  /\ outputs' = Append(outputs, Top.gate)
  /\ next' = next + 1 /\ calls' = << >>
  /\ UNCHANGED <<graph, inLits, outLits, phase, gates>>

EndOutputs ==
  /\ phase = "outputs" /\ next > Len(OutTypes)
  /\ phase' = "done"
  /\ UNCHANGED <<graph, inLits, outLits, next, gates, outputs, map, calls>>

----------------------------------------------------------------------------
(* convert_node(): the gate of a literal, made with those it depends on.   *)

Wanted(l)  == calls # << >> /\ Top.todo # << >> /\ l = Head(Top.todo)
Mapped(l)  == Dimacs(l) \in DOMAIN map
GateOf(l)  == IF l = True THEN ONE ELSE IF l = False THEN ZERO ELSE map[Dimacs(l)]

\* It has a gate, or has got one: add_fanin().
Connect(l) ==
  /\ Wanted(l) /\ (Constant(l) \/ Mapped(l))
  /\ gates' = [gates EXCEPT ![Top.gate].fanins = Append(@, GateOf(l))]
  /\ calls' = [calls EXCEPT ![Len(calls)].todo = Tail(@)]
  /\ UNCHANGED <<graph, inLits, outLits, phase, next, outputs, map>>

\* Its negation has a gate.
Negate(l) ==
  /\ Wanted(l) /\ ~ Constant(l) /\ ~ Mapped(l) /\ Mapped(Not(l))
  /\ gates' = Append(gates, [op |-> "NOT", fanins |-> <<map[Dimacs(Not(l))]>>])
  /\ map' = Remember(map, l, Len(gates) + 1)
  /\ UNCHANGED <<graph, inLits, outLits, phase, next, outputs, calls>>

\* It has a node: the gate is created, and convert_node() called for the fanins.
Descend(l) ==
  /\ Wanted(l) /\ ~ Constant(l) /\ ~ Mapped(l) /\ ~ Mapped(Not(l))
  /\ graph[l.var].op # "input"
  /\ gates' = Append(gates, [op |-> graph[l.var].op, fanins |-> << >>])
  /\ calls' = Append(calls, Call(l, <<graph[l.var].left, graph[l.var].right>>))
  /\ UNCHANGED <<graph, inLits, outLits, phase, next, outputs, map>>

\* Fault: only the gate under the NOT gate is remembered.
RememberBoth_under(m, l, gate, under) == Remember(m, Not(l), under)
RememberBoth(m, l, gate, under) == Remember(Remember(m, l, gate), Not(l), under)

\* Both fanins are connected; a negated literal gets a NOT gate.
Return ==
  /\ Len(calls) > 1 /\ Top.todo = << >>
  /\ \/ /\ Top.lit.sign
        /\ gates' = Append(gates, [op |-> "NOT", fanins |-> <<Top.gate>>])
        /\ map' = RememberBoth(map, Top.lit, Len(gates) + 1, Top.gate)
     \/ /\ ~ Top.lit.sign
        /\ map' = Remember(map, Top.lit, Top.gate)
        /\ UNCHANGED gates
  /\ calls' = SubSeq(calls, 1, Len(calls) - 1)
  /\ UNCHANGED <<graph, inLits, outLits, phase, next, outputs>>

ConvertNode == Return \/ \E l \in Literal : Connect(l) \/ Negate(l) \/ Descend(l)

Next == \/ DeclareInput \/ Operation \/ StartCircuit
        \/ ConvertInput \/ EndInputs \/ CreateOutput \/ ConvertNode \/ EndOutput \/ EndOutputs

Spec == Init /\ [][Next]_vars

----------------------------------------------------------------------------
(* Properties.                                                             *)

\* What an operation computes, for the graph and for the gates.
Apply(op, x, y) ==
  CASE op = "AND" -> x /\ y [] op = "OR" -> x \/ y [] op = "XOR" -> x # y

\* The value of a variable of the graph when the inputs have the values in.
\* In a program that is well behaved the upper bits of a _Bool are zero.
VarValue(in) ==
  LET IsFirst(n) == \E k \in DOMAIN inLits : n = inLits[k][0].var
      Key(n)     == CHOOSE k \in DOMAIN inLits : n = inLits[k][0].var
      V[n \in DOMAIN graph] ==
        LET Of(l) == IF Constant(l) THEN l.sign ELSE V[l.var] # l.sign
        IN  IF graph[n].op = "input" THEN IsFirst(n) /\ in[Key(n)]
            ELSE Apply(graph[n].op, Of(graph[n].left), Of(graph[n].right))
  IN  V

LitValue(in, l) == IF Constant(l) THEN l.sign ELSE VarValue(in)[l.var] # l.sign

\* The value of a gate; the INPUT gates come first, in the order of the inputs.
GateValue(in) ==
  LET V[g \in DOMAIN gates] ==
        LET Of(f) == CASE f = ONE -> TRUE [] f = ZERO -> FALSE [] OTHER -> V[f]
            gate  == gates[g]
        IN  CASE gate.op = "INPUT"  -> in[g]
              [] gate.op = "NOT"    -> ~ Of(gate.fanins[1])
              [] gate.op = "OUTPUT" -> Of(gate.fanins[1])
              [] OTHER              -> Apply(gate.op, Of(gate.fanins[1]), Of(gate.fanins[2]))
  IN  V

\* What is in the circuit and in the map are gates of it.
TypeOK ==
  /\ phase \in {"build", "inputs", "outputs", "done"}
  /\ \A g \in DOMAIN gates : ToSet(gates[g].fanins) \subseteq {ONE, ZERO} \cup DOMAIN gates
  /\ \A d \in DOMAIN map : map[d] \in {ONE, ZERO} \cup DOMAIN gates

\* A literal that an operation returns without a node has the operation's value,
\* whatever signs and constants it is applied to: land(), lor() and lxor().
FoldingIsRight ==
  phase = "build" =>
    \A op \in {"AND", "OR", "XOR"}, x, y \in Literal, in \in [DOMAIN InTypes -> BOOLEAN] :
      \A l \in Fold(op, x, y) : LitValue(in, l) = Apply(op, LitValue(in, x), LitValue(in, y))

\* The circuit computes what the program assigns: for every input, the OUTPUT
\* gates have the values of the literals of the outputs, with the signs, the
\* shared gates and the _Bool variables (create_circuit(), convert_node()).
ComputesTheProgram ==
  phase = "done" =>
    \A in \in [DOMAIN InTypes -> BOOLEAN] :
      [k \in DOMAIN outputs |-> GateValue(in)[outputs[k]]]
        = [k \in DOMAIN outLits |-> LitValue(in, outLits[k])]

\* No gate reads an OUTPUT gate, which has no output pin: get_pin_counts() of
\* simple_circuit.h, and the assertion of assign_gate_to_block().  With a _Bool
\* among the outputs it may.
OutputsAreNotRead ==
  (\A k \in DOMAIN OutTypes : OutTypes[k] # "bool") =>
    \A g, k \in DOMAIN gates : gates[k].op = "OUTPUT" => k \notin ToSet(gates[g].fanins)

\* From the literals of the program to the gates of the circuit nothing changes.
SameAsProgram == TypeOK /\ OutputsAreNotRead /\ FoldingIsRight /\ ComputesTheProgram

\* A node becomes at most one gate, and its negation at most one NOT gate,
\* whichever of the two is converted first: convert_node() looks for both.  The
\* upper bits of several _Bools share ZERO, but not its negation.
ConvertedOnce ==
  /\ Cardinality({g \in DOMAIN gates : gates[g].op \in {"AND", "OR", "XOR"}})
       <= Cardinality({n \in DOMAIN graph : graph[n].op # "input"})
  /\ \A g, h \in DOMAIN gates :
       gates[g].op = "NOT" /\ gates[h].op = "NOT" /\ gates[g].fanins = gates[h].fanins =>
         g = h \/ gates[g].fanins = <<ZERO>>
=============================================================================
