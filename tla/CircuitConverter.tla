-------------------------- MODULE CircuitConverter --------------------------
(***************************************************************************)
(* CircuitConverter of the ABY adapter, after the combiners of inputs were *)
(* replaced: every gate becomes a gate of one of ABY's three circuits.     *)
(* aby remembers for each endpoint the wire that it has in a sharing: what *)
(* put it there and the values that it carries.  The gates are converted   *)
(* in every topological order.  An assertion that fails leaves the model   *)
(* without a step.  NEG and LUT gates, and arithmetic gates of different   *)
(* widths, make the adapter throw and are left out.                        *)
(***************************************************************************)
EXTENDS InputCombiners

VARIABLES
  converted,    \* the gates that were visited
  aby,          \* m_cbmc_to_aby
  conversions,  \* the conversion gates of the ABY circuits, and what they read
  results       \* the map of outputs

vars == <<linked, circuit, pos, converted, aby, conversions, results>>

InitConverter ==
  /\ Init
  /\ converted = {} /\ aby = << >> /\ conversions = {} /\ results = << >>

BooleanOp == {"NOT", "AND", "OR", "XOR", "ONE"}
ArithOp   == {"ADD", "SUB", "MUL", "CONST"}

\* get_sharing.
SharingOf(g) == IF circuit.op[g] \in ArithOp \cup {"COMBINE"} THEN "ARITH" ELSE circuit.tag[g]

WireOf(put, sharing, val) == [put |-> put, sharing |-> sharing, val |-> val]
Entry(e, s, wire) == [p \in {<<e, s>>} |-> wire]
With(f, g) == [p \in DOMAIN f \cup DOMAIN g |-> IF p \in DOMAIN g THEN g[p] ELSE f[p]]

----------------------------------------------------------------------------
(* get_aby_gate: the wire of endpoint e in sharing s.                      *)

Known(e, s) == <<e, s>> \in DOMAIN aby
IsInput(e)  == circuit.op[e[1]] = "INPUT"

\* An INPUT gate is made for the first reader, and again for a GMW reader if
\* there is only the one for Yao.
Created(e, s) == IsInput(e) /\ \A t \in {"YAO", "BOOL", "ARITH"} :
                                 Known(e, t) => t = "YAO" /\ s = "BOOL"

Convertible(e, s) == /\ ~Known(e, s) /\ ~Created(e, s)
                     /\ \/ s = "YAO"  /\ Known(e, "BOOL")
                        \/ s = "BOOL" /\ Known(e, "YAO")
Gettable(e, s) == Known(e, s) \/ Created(e, s) \/ Convertible(e, s)

Source(e, s) == aby[<<e, IF s = "YAO" THEN "BOOL" ELSE "YAO">>]
Conversion(s) == IF s = "YAO" THEN "B2Y" ELSE "Y2B"

Wire(e, s) ==
  IF Known(e, s) THEN aby[<<e, s>>]
  ELSE IF Created(e, s) THEN WireOf("IN", s, [x \in Values |-> InputValue(circuit, x, e[1])])
  ELSE WireOf(Conversion(s), s, Source(e, s).val)

\* Getting the wires of a gate's fanins: inputs that are made are remembered,
\* conversions are not, since get_aby_gate() stores them in a copy.
Fanins(g) == ToSet(circuit.fanin[g])
Wires(g, s) == [n \in DOMAIN circuit.fanin[g] |-> Wire(circuit.fanin[g][n], s)]
NewInputs(g, s) ==
  LET new == {e \in Fanins(g) : Created(e, s)}
  IN  [p \in new \X {s} |-> Wire(p[1], s)]
NewConversions(g, s) ==
  {<<Conversion(s), Source(e, s).put>> : e \in {f \in Fanins(g) : Convertible(f, s)}}

\* The values that a gate computes from the wires.
Computed(op, w, wires) ==
  [x \in Values |-> Apply(op, w, [n \in DOMAIN wires |-> wires[n].val[x]])]

\* Gate g is visited: the wires of its fanins in sharing s, and what it adds.
Convert(g, s, entries, more) ==
  /\ \A e \in Fanins(g) : Gettable(e, s)
  /\ aby' = With(With(aby, NewInputs(g, s)), entries)
  /\ conversions' = conversions \cup NewConversions(g, s) \cup more
  /\ converted' = converted \cup {g}

----------------------------------------------------------------------------
(* operator(): one gate.                                                   *)

\* Converted on the fly, when it is read.
Visited(g) == g \in converted \/ circuit.op[g] = "INPUT"
Ready(g) ==
  Replaced /\ ~Visited(g) /\ \A e \in Fanins(g) : Visited(e[1])

\* Fault: OR as the XOR alone.
GateValues_or(op, wires) == Computed(IF op = "OR" THEN "XOR" ELSE op, 1, wires)
\* ABY has no OR: (a AND b) XOR (a XOR b).
GateValues(op, wires) ==
  IF op # "OR" THEN Computed(op, 1, wires)
  ELSE LET and == WireOf("AND", "", Computed("AND", 1, wires))
           xor == WireOf("XOR", "", Computed("XOR", 1, wires))
       IN  Computed("XOR", 1, <<and, xor>>)

ConvertBoolean(g) ==
  /\ Ready(g) /\ circuit.op[g] \in BooleanOp
  /\ SharingOf(g) \in {"YAO", "BOOL"}
  /\ LET s == SharingOf(g)
     IN  Convert(g, s, Entry(<<g, 0>>, s, WireOf(circuit.op[g], s,
                                                 GateValues(circuit.op[g], Wires(g, s)))), {})
  /\ UNCHANGED <<linked, circuit, pos, results>>

ConvertArith(g) ==
  /\ Ready(g) /\ circuit.op[g] \in ArithOp
  /\ Convert(g, "ARITH",
             Entry(<<g, 0>>, "ARITH",
                   WireOf(circuit.op[g], "ARITH",
                          Computed(circuit.op[g], Bits, Wires(g, "ARITH")))), {})
  /\ UNCHANGED <<linked, circuit, pos, results>>

Number(g, s) == Cardinality({n \in DOMAIN circuit.fanin[g] : Known(circuit.fanin[g][n], s)})

\* Fault: an INPUT gate counts like any other.
SharingForCombine_any(g) == IF Number(g, "YAO") > Number(g, "BOOL") THEN "YAO" ELSE "BOOL"
\* choose_sharing_for_combine: the one that more fanins have; GMW if one of
\* them is an input.
SharingForCombine(g) ==
  IF (\A e \in Fanins(g) : ~IsInput(e)) /\ Number(g, "YAO") > Number(g, "BOOL")
  THEN "YAO" ELSE "BOOL"

ConvertCombine(g) ==
  /\ Ready(g) /\ circuit.op[g] = "COMBINE"
  /\ LET s == SharingForCombine(g)
         wires == Wires(g, s)
         kind  == IF s = "YAO" THEN "Y2A" ELSE "B2A"
     IN  Convert(g, s, Entry(<<g, 0>>, "ARITH", WireOf(kind, "ARITH", Computed("COMBINE", Bits, wires))),
                 {<<kind, wires[n].put>> : n \in DOMAIN wires})
  /\ UNCHANGED <<linked, circuit, pos, results>>

\* The sharing of one of the readers that are not COMBINE gates, else Yao.
SharingsForSplit(g) ==
  LET readers == {SharingOf(pin[1]) : pin \in Fanouts(g)} \ {"ARITH"}
  IN  IF readers = {} THEN {"YAO"} ELSE readers

\* set_sharing() adds bits to those of a tag it finds: GMW has none, Yao one.
Tagged(tag, s) == IF tag = "YAO" THEN tag ELSE s

ConvertSplit(g) ==
  /\ Ready(g) /\ circuit.op[g] = "SPLIT"
  /\ \E s \in SharingsForSplit(g) :
       LET kind == IF s = "YAO" THEN "A2Y" ELSE "A2B"
           from == Wire(circuit.fanin[g][1], "ARITH")
           bit(p) == [x \in Values |-> (from.val[x] \div 2 ^ p[1][2]) % 2]
       IN  /\ Convert(g, "ARITH",
                      [p \in {<<<<g, n>>, s>> : n \in 0 .. Bits - 1} |-> WireOf(kind, s, bit(p))],
                      {<<kind, from.put>>})
           /\ circuit' = [circuit EXCEPT !.tag[g] = Tagged(@, s)]
  /\ UNCHANGED <<linked, pos, results>>

\* A single bit leaves in the output's sharing, anything wider in arithmetic.
ConvertOutput(g) ==
  /\ Ready(g) /\ circuit.op[g] = "OUTPUT"
  /\ LET e == circuit.fanin[g][1]
         s == IF circuit.width[e[1]] = 1 THEN SharingOf(g) ELSE "ARITH"
     IN  /\ circuit.width[e[1]] = 1 => s \in {"YAO", "BOOL"}
         /\ Convert(g, s, Entry(<<g, 0>>, s, WireOf("OUT", s, Wire(e, s).val)), {})
  /\ UNCHANGED <<linked, circuit, pos, results>>

\* create_output_map.
ReadResults ==
  /\ circuit.out \subseteq converted /\ results = << >>
  /\ \A o \in circuit.out : Known(<<o, 0>>, SharingOf(o))
  /\ results' = [o \in circuit.out |-> aby[<<<<o, 0>>, SharingOf(o)>>].val]
  /\ UNCHANGED <<linked, circuit, pos, converted, aby, conversions>>

ConvertStep ==
  \/ ReadResults
  \/ \E g \in DOMAIN circuit.op :
       ConvertBoolean(g) \/ ConvertArith(g) \/ ConvertCombine(g) \/ ConvertSplit(g) \/ ConvertOutput(g)

Finished == results # << >>

Next ==
  \/ ReplaceStep /\ UNCHANGED <<converted, aby, conversions, results>>
  \/ ConvertStep

\* One thread, which works until all outputs are converted.
SpecConverter == InitConverter /\ [][Next]_vars /\ WF_vars(Next)

----------------------------------------------------------------------------
(* Properties.                                                             *)

\* Whatever was converted before for other readers, a wire that was remembered
\* for an endpoint and a sharing carries what the endpoint carries, and the
\* results are those of the linked circuit.
WiresRight ==
  Finished =>
    \A x \in Values :
      LET now == Meaning(circuit, x)  then == Meaning(linked, x)
          bit(e) == IF circuit.op[e[1]] = "SPLIT" THEN (now[e[1]] \div 2 ^ e[2]) % 2 ELSE now[e[1]]
      IN  /\ \A p \in DOMAIN aby : aby[p].sharing = p[2] /\ aby[p].val[x] = bit(p[1])
          /\ \A o \in linked.out : results[o][x] = then[o]

\* "PutY2BCONVGate() does not work if the source gate is an INPUT", and a
\* conversion from Yao to arithmetic goes by GMW: neither reads an input.
NoInputConverted == {<<"Y2B", "IN">>, <<"Y2A", "IN">>} \cap conversions = {}
=============================================================================
