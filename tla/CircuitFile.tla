----------------------------- MODULE CircuitFile -----------------------------
(***************************************************************************)
(* simple_circuitt::write() and read(): how a circuit gets from the        *)
(* compiler to the ABY adapter.  The file names no gate.  A gate's inputs  *)
(* are numbers, which the writer and the reader give to the pins that they *)
(* meet, each by its own counting.                                         *)
(*                                                                         *)
(* A circuit is a record: op, fanin (a sequence of endpoints <<gate,       *)
(* pin>>), width and value of every gate; ins and outs, its variables as   *)
(* sequences of gates, the latter in the order of their names; and the     *)
(* variables of its calls.  "one" and "zero" are its constant gates.       *)
(* Names and types of variables are left out, but for their widths.        *)
(***************************************************************************)
EXTENDS Integers, Sequences, FiniteSets, SequencesExt

CONSTANT Circuits   \* circuits to write, without gates that nothing needs

VARIABLES
  circuit,    \* the circuit that is written
  stage,      \* what is written or read next
  waiting,    \* the gates that are still to be written
  label,      \* gate_label
  counter,
  file,
  read,       \* the gates that read() made
  variables,  \* and what gates the variables and those of calls have
  ids,        \* m_id_to_endpoint: number n is at n + 1; << >> was not set yet
  cur,        \* m_cur_id
  at          \* what of the file was read: gates, then output variables

vars == <<circuit, stage, waiting, label, counter, file, read, variables, ids, cur, at>>

Binary == {"AND", "OR", "XOR", "ADD", "SUB", "MUL"}
Unary  == {"NOT", "NEG"}

Total(s) == FoldLeft(LAMBDA sum, n : sum + n, 0, s)
Returns(c) == FlattenSeq([n \in DOMAIN c.calls |-> c.calls[n].returns])
Args(c)    == FlattenSeq([n \in DOMAIN c.calls |-> c.calls[n].args])
\* Variables in the order of the file.
InputVars(c)  == c.ins \o Returns(c)
OutputVars(c) == c.outs \o Args(c)
WidthsOf(c, vs) == [v \in DOMAIN vs |-> [n \in DOMAIN vs[v] |-> c.width[vs[v][n]]]]

Init ==
  /\ circuit \in Circuits
  /\ stage = "header" /\ waiting = {} /\ label = << >> /\ counter = 0 /\ file = << >>
  /\ read = << >> /\ variables = << >> /\ ids = << >> /\ cur = 0 /\ at = 0

----------------------------------------------------------------------------
(* write().                                                                *)

Readers(g) == {h \in DOMAIN circuit.op : \E n \in DOMAIN circuit.fanin[h] : circuit.fanin[h][n][1] = g}

\* gates_SIZE does not count the constant gates.  The one gate always has a
\* fanout to the zero gate.
Counted == {g \in DOMAIN circuit.op : circuit.op[g] \notin {"INPUT", "OUTPUT"}} \ {"one", "zero"}
NumGates ==
  Cardinality(Counted) + (IF Readers("zero") # {} THEN 2 ELSE IF Readers("one") # {"zero"} THEN 1 ELSE 0)

\* What topological_traversal() comes to: every gate that is listed, for no
\* gate is without need, and the constant gates where something reads them.
Needed == Counted \cup {g \in {"zero"} : Readers(g) # {}}
                  \cup {g \in {"one"} : Readers("zero") # {} \/ Readers(g) # {"zero"}}

\* Input gates and returns of calls get the first numbers.
WriteHeader ==
  /\ stage = "header"
  /\ LET first == FlattenSeq(InputVars(circuit))
     IN  /\ label' = [g \in ToSet(first) |-> (CHOOSE n \in DOMAIN first : first[n] = g) - 1]
         /\ counter' = Len(first)
         /\ file' = [num_gates  |-> NumGates,
                     num_inputs |-> Cardinality({g \in DOMAIN circuit.op : circuit.op[g] = "INPUT"}),
                     partition  |-> WidthsOf(circuit, InputVars(circuit)),
                     types      |-> [v \in DOMAIN OutputVars(circuit) |->
                                       Total(WidthsOf(circuit, OutputVars(circuit))[v])],
                     gates |-> << >>, outputs |-> << >>]
  /\ waiting' = Needed /\ stage' = "gates"
  /\ UNCHANGED <<circuit, read, variables, ids, cur, at>>

Number(e) == label[e[1]] + e[2]
Ready(g) == \A n \in DOMAIN circuit.fanin[g] : circuit.fanin[g][n][1] \in DOMAIN label

Record(g) == [op |-> circuit.op[g], width |-> circuit.width[g], value |-> circuit.value[g],
              fanin |-> [n \in DOMAIN circuit.fanin[g] |-> Number(circuit.fanin[g][n])]]

\* Fault: a SPLIT gate has one number.
WriteGate_one(g) ==
  /\ stage = "gates" /\ g \in waiting /\ Ready(g)
  /\ waiting' = waiting \ {g}
  /\ label' = [h \in DOMAIN label \cup {g} |-> IF h = g THEN counter ELSE label[h]]
  /\ counter' = counter + 1
  /\ file' = [file EXCEPT !.gates = Append(@, Record(g))]
  /\ UNCHANGED <<circuit, stage, read, variables, ids, cur, at>>

\* In any topological order; each bit that a SPLIT gate takes apart has its
\* own number.
WriteGate(g) ==
  /\ stage = "gates" /\ g \in waiting /\ Ready(g)
  /\ waiting' = waiting \ {g}
  /\ label' = [h \in DOMAIN label \cup {g} |-> IF h = g THEN counter ELSE label[h]]
  /\ counter' = counter + (IF circuit.op[g] = "SPLIT" THEN circuit.width[circuit.fanin[g][1][1]] ELSE 1)
  /\ file' = [file EXCEPT !.gates = Append(@, Record(g))]
  /\ UNCHANGED <<circuit, stage, read, variables, ids, cur, at>>

WriteOutputs ==
  /\ stage = "gates" /\ waiting = {}
  /\ LET last == FlattenSeq(OutputVars(circuit))
     IN  file' = [file EXCEPT !.outputs = [n \in DOMAIN last |-> Number(circuit.fanin[last[n]][1])]]
  /\ stage' = "read header"
  /\ UNCHANGED <<circuit, waiting, label, counter, read, variables, ids, cur, at>>

----------------------------------------------------------------------------
(* read().  The gates that it makes are numbered in the order of making.   *)

ONE  == 0
ZERO == -1
OneGate  == [op |-> "ONE", width |-> 1, fanin |-> << >>, value |-> 0]
ZeroGate == [op |-> "NOT", width |-> 1, fanin |-> <<<<ONE, 0>>>>, value |-> 0]
GateAt(g) == IF g = ONE THEN OneGate ELSE IF g = ZERO THEN ZeroGate ELSE read[g]

\* Input gates from the partitioning, which are assigned to the variables in
\* the same order; room for as many numbers as the header promises, a SPLIT
\* gate counted as one.
ReadHeader ==
  /\ stage = "read header"
  /\ LET widths == FlattenSeq(file.partition)
         before(v) == Total([u \in 1 .. v - 1 |-> Len(file.partition[u])])
     IN  /\ read' = [n \in DOMAIN widths |->
                       [op |-> "INPUT", width |-> widths[n], fanin |-> << >>, value |-> 0]]
         /\ variables' = [v \in DOMAIN file.partition |->
                            [n \in DOMAIN file.partition[v] |-> before(v) + n]]
         /\ ids' = [n \in 1 .. file.num_inputs + file.num_gates |->
                      IF n <= Len(widths) THEN <<n, 0>> ELSE << >>]
         /\ cur' = Len(widths)
  /\ at' = 0 /\ stage' = "read gates"
  /\ UNCHANGED <<circuit, waiting, label, counter, file>>

\* IDConverter; get() asserts that the number is in range.
InRange(id) == id + 1 \in DOMAIN ids
Get(id) == ids[id + 1]
WidthAt(id) == GateAt(Get(id)[1]).width

\* add(), for each pin of a gate, with its assertion; a SPLIT gate first makes
\* room for its further pins.
AddIds(endpoints) ==
  LET room == Len(ids) + Len(endpoints) - 1
  IN  /\ cur + Len(endpoints) <= room
      /\ ids' = [n \in 1 .. room |-> IF n \in cur + 1 .. cur + Len(endpoints) THEN endpoints[n - cur]
                                     ELSE IF n <= Len(ids) THEN ids[n] ELSE << >>]
      /\ cur' = cur + Len(endpoints)

\* The width of a gate without one in the file; a SPLIT gate has the width 1.
WidthOf(r) ==
  CASE r.op \in Binary \cup Unary -> WidthAt(r.fanin[1])
    [] r.op = "COMBINE" -> Len(r.fanin)
    [] r.op = "SPLIT" -> 1
    [] OTHER -> r.width

\* The constant gates are there already.
Constant(r) == IF r.op = "ONE" THEN {ONE}
               ELSE IF r.op = "NOT" /\ Get(r.fanin[1])[1] = ONE THEN {ZERO} ELSE {}

\* What follows the gates is no gate.
ReadGate ==
  /\ stage = "read gates" /\ at < file.num_gates /\ at < Len(file.gates)
  /\ LET r == file.gates[at + 1]
         own == Len(read) + 1
         pins == IF r.op = "SPLIT" THEN WidthAt(r.fanin[1]) ELSE 1
     IN  /\ \A n \in DOMAIN r.fanin : InRange(r.fanin[n])
         /\ \/ /\ Constant(r) # {}
               /\ AddIds(<<<<CHOOSE g \in Constant(r) : TRUE, 0>>>>)
               /\ UNCHANGED read
            \/ /\ Constant(r) = {}
               /\ AddIds([n \in 1 .. pins |-> <<own, n - 1>>])
               /\ read' = Append(read, [op |-> r.op, width |-> WidthOf(r), value |-> r.value,
                                        fanin |-> [n \in DOMAIN r.fanin |-> Get(r.fanin[n])]])
  /\ at' = at + 1
  /\ UNCHANGED <<circuit, stage, waiting, label, counter, file, variables>>

GatesRead ==
  /\ stage = "read gates" /\ at = file.num_gates
  /\ at' = 0 /\ stage' = "read outputs"
  /\ UNCHANGED <<circuit, waiting, label, counter, file, read, variables, ids, cur>>

\* An output variable, or an argument of a call: gates until its width is reached.
ReadVariable ==
  /\ stage = "read outputs" /\ at < Len(file.types)
  /\ LET done == Total([v \in 1 .. at |-> Len(variables[Len(file.partition) + v])])
     IN  \E n \in 1 .. Len(file.outputs) - done :
           LET new == SubSeq(file.outputs, done + 1, done + n)
           IN  /\ \A m \in DOMAIN new : InRange(new[m])
               /\ Total([m \in DOMAIN new |-> WidthAt(new[m])]) = file.types[at + 1]
               /\ read' = read \o [m \in DOMAIN new |-> [op |-> "OUTPUT", width |-> WidthAt(new[m]),
                                                         fanin |-> <<Get(new[m])>>, value |-> 0]]
               /\ variables' = Append(variables, [m \in DOMAIN new |-> Len(read) + m])
  /\ at' = at + 1
  /\ UNCHANGED <<circuit, stage, waiting, label, counter, file, ids, cur>>

AllRead ==
  /\ stage = "read outputs" /\ at = Len(file.types)
  /\ stage' = "done"
  /\ UNCHANGED <<circuit, waiting, label, counter, file, read, variables, ids, cur, at>>

Next == \/ WriteHeader \/ WriteOutputs \/ \E g \in waiting : WriteGate(g)
        \/ ReadHeader \/ ReadGate \/ GatesRead \/ ReadVariable \/ AllRead

\* One thread writes, and one reads; neither waits.
Spec == Init /\ [][Next]_vars /\ WF_vars(Next)

----------------------------------------------------------------------------

\* The pin that the reader takes for a pin of the written circuit.
Image(e) == Get(Number(e))
Same(g, h) == GateAt(h) = [op |-> circuit.op[g], width |-> circuit.width[g], value |-> circuit.value[g],
                           fanin |-> [n \in DOMAIN circuit.fanin[g] |-> Image(circuit.fanin[g][n])]]

\* Reading what was written gives the circuit back: following each of its pins
\* to the one that has its number, every gate has its operation, width, value
\* and inputs, and every variable, also those of calls, its gates.
ReadBack ==
  stage = "done" =>
    LET vs == InputVars(circuit) \o OutputVars(circuit)
    IN  /\ \A g \in Needed : Same(g, Image(<<g, 0>>)[1])
        /\ DOMAIN variables = DOMAIN vs
        /\ \A v \in DOMAIN vs :
             /\ DOMAIN variables[v] = DOMAIN vs[v]
             /\ \A n \in DOMAIN vs[v] : Same(vs[v][n], variables[v][n])
        /\ \A v \in DOMAIN InputVars(circuit) : \A n \in DOMAIN vs[v] :
             Image(<<vs[v][n], 0>>) = <<variables[v][n], 0>>
=============================================================================
