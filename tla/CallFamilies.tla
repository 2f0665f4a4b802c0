---------------------------- MODULE CallFamilies ----------------------------
(***************************************************************************)
(* Circuits to merge: a boolean circuit that calls an arithmetic, a        *)
(* boolean and an arithmetic circuit, with every choice of what drives the *)
(* arguments; and an arithmetic circuit that calls two boolean ones.  And  *)
(* circuits with two calls whose gates are grouped for execution.          *)
(***************************************************************************)
EXTENDS Integers, Sequences

ONE(k)  == <<"ONE", k, 0>>
ZERO(k) == <<"ZERO", k, 0>>
Inp(k, n) == <<"INPUT", k, n>>
Out(k, n) == <<"OUTPUT", k, n>>
Gate(k, n) == <<"GATE", k, n>>

\* Gates from number 20 on and what is named in wide have two bits.
Widths(wide) ==
  [g \in {"INPUT", "OUTPUT", "GATE", "ONE", "ZERO"} \X (0 .. 3) \X (0 .. 30) |->
     IF g \in wide \/ (g[1] = "GATE" /\ g[3] >= 20) THEN 2 ELSE 1]

Link(pins) == [p \in {q[1] : q \in pins} |-> (CHOOSE q \in pins : q[1] = p)[2]]
Wire(g, d) == <<<<g, 0>>, <<d, 0>>>>
Constants(k) == {Wire(ZERO(k), ONE(k)), Wire(Gate(k, 1), ZERO(k)), Wire(Gate(k, 2), ONE(k))}

----------------------------------------------------------------------------
(* The boolean caller: f(x1 x2) returns two bits, g(y, z) returns y, and   *)
(* f(x3 x4) is called again.                                               *)

BoolCalls ==
  << << [from |-> <<Out(0, 1), Out(0, 2)>>, to |-> <<Inp(1, 1)>>],
        [from |-> <<Out(1, 1)>>, to |-> <<Inp(0, 1), Inp(0, 2)>>] >>,
     << [from |-> <<Out(0, 3)>>, to |-> <<Inp(2, 1)>>],
        [from |-> <<Out(0, 4)>>, to |-> <<Inp(2, 2)>>],
        [from |-> <<Out(2, 1)>>, to |-> <<Inp(0, 3)>>] >>,
     << [from |-> <<Out(0, 5), Out(0, 6)>>, to |-> <<Inp(3, 1)>>],
        [from |-> <<Out(3, 1)>>, to |-> <<Inp(0, 4), Inp(0, 5)>>] >> >>
BoolWidth == Widths({Inp(1, 1), Out(1, 1), Inp(3, 1), Out(3, 1)})

Sources == {Gate(0, 3), Gate(0, 4), ONE(0), ZERO(0)}
Returned == {Inp(0, 1), Inp(0, 2)}

BoolCaller(d, f) ==
  Link({Wire(Out(0, n), d[n]) : n \in 1 .. 6}
       \cup {Wire(Gate(0, 10 + n), Inp(0, n)) : n \in 1 .. 5}
       \cup {Wire(Out(k, 1), f[k]) : k \in 1 .. 3}
       \cup {Wire(Gate(1, 21), Inp(1, 1)), Wire(Gate(3, 21), Inp(3, 1)), Wire(Gate(2, 5), Inp(2, 2))}
       \cup Constants(1) \cup Constants(2) \cup Constants(3) \cup {Wire(ZERO(0), ONE(0))})

Drivers == {d \in [1 .. 6 -> Sources \cup Returned \cup {Inp(0, 3)}] :
              /\ d[1] \in {Gate(0, 3), ONE(0)} /\ d[2] \in Sources \ {ONE(0)}
              /\ d[3] \in {Gate(0, 3), ONE(0), Inp(0, 2)} /\ d[4] = Inp(0, 1) }
Bodies == {[k \in 1 .. 3 |-> IF k = 2 THEN Inp(2, 1) ELSE Gate(k, 20)],
           [k \in 1 .. 3 |-> IF k = 2 THEN ZERO(2) ELSE Inp(k, 1)]}

\* What g returns, and the gate that a bit is read from once f was merged.
Resolved(d, f, g) == IF g # Inp(0, 3) THEN g ELSE IF f[2] = ZERO(2) THEN ZERO(0) ELSE d[3]
ReadFrom(g) == IF g \in Returned THEN Inp(0, 1) ELSE g

\* The two calls of f get the same bits in the same order or have none in common.
SameOrUnshared(d, f) ==
  LET d5 == Resolved(d, f, d[5])  d6 == Resolved(d, f, d[6])
  IN  (d[1] = d5 /\ d[2] = d6) \/ {ReadFrom(d5), ReadFrom(d6)} \cap {d[1], d[2]} = {}

BoolCallers ==
  {BoolCaller(c[1], c[2]) : c \in {e \in Drivers \X Bodies : SameOrUnshared(e[1], e[2])}}

\* f(1) and f(3), or f(2): constants.
ConstantCallers ==
  {BoolCaller([n \in 1 .. 6 |-> c[n]], f) : c \in [1 .. 6 -> {ONE(0), ZERO(0)}], f \in Bodies}

----------------------------------------------------------------------------
(* The arithmetic caller: h(x) on two bits returns two bits, twice, and an *)
(* arithmetic circuit is called with what h returned.                      *)

ArithCalls ==
  << << [from |-> <<Out(0, 1)>>, to |-> <<Inp(1, 1), Inp(1, 2)>>],
        [from |-> <<Out(1, 1), Out(1, 2)>>, to |-> <<Inp(0, 1)>>] >>,
     << [from |-> <<Out(0, 2)>>, to |-> <<Inp(2, 1)>>],
        [from |-> <<Out(2, 1)>>, to |-> <<Inp(0, 2)>>] >>,
     << [from |-> <<Out(0, 3)>>, to |-> <<Inp(3, 1), Inp(3, 2)>>],
        [from |-> <<Out(3, 1), Out(3, 2)>>, to |-> <<Inp(0, 3)>>] >> >>
ArithWidth ==
  Widths({Out(0, 1), Inp(0, 1), Out(0, 2), Inp(0, 2), Inp(2, 1), Out(2, 1), Out(0, 3), Inp(0, 3)})

ArithCaller(d, f) ==
  Link({Wire(Out(0, n), d[n]) : n \in 1 .. 3}
       \cup {Wire(Gate(0, 20 + n), Inp(0, n)) : n \in 1 .. 3}
       \cup {Wire(Out(2, 1), f[5])} \cup {Wire(Gate(2, 22), Inp(2, 1))}
       \cup {Wire(Out(1, n), f[n]) : n \in 1 .. 2}
       \cup {Wire(Out(3, n), f[n + 2]) : n \in 1 .. 2}
       \cup {Wire(Gate(k, 5 + n), Inp(k, n)) : n \in 1 .. 2, k \in {1, 3}}
       \cup Constants(1) \cup Constants(3) \cup {Wire(ZERO(2), ONE(2)), Wire(ZERO(0), ONE(0))})

Wide == {Gate(0, 25), Gate(0, 26)}
Results(k) == {<<Gate(k, 3), Inp(k, 1)>>, <<Inp(k, 1), Inp(k, 2)>>, <<Inp(k, 2), Inp(k, 1)>>,
               <<Inp(k, 2), Inp(k, 2)>>, <<ONE(k), Gate(k, 3)>>}
ArithCallers ==
  {ArithCaller(d, f \o g \o <<h>>) :
     d \in {e \in [1 .. 3 -> Wide \cup {Inp(0, 1), Inp(0, 2)}] : e[1] \in Wide /\ e[2] # Inp(0, 2)},
     f \in Results(1), g \in Results(3), h \in {Gate(2, 24), Inp(2, 1)}}

----------------------------------------------------------------------------
(* Circuits to group, for ParallelGraph: with an input, two calls in a row *)
(* or next to each other, gates before, between and after them, an output, *)
(* and with every small choice of what reads what.                         *)

\* An element reads only elements before it; a call's returns follow its args.
Order == <<"in", "x", "y", "a1", "r1", "r2", "z", "a2", "s", "w", "out">>
Elements == {Order[n] : n \in DOMAIN Order}
CallOf == [e \in Elements |-> CASE e \in {"a1", "r1", "r2"} -> 1
                                [] e \in {"a2", "s"} -> 2
                                [] OTHER -> 0]
Ops(x, y, z, w) ==
  [e \in Elements |-> CASE e \in {"in", "r1", "r2", "s"} -> "INPUT"
                        [] e \in {"a1", "a2", "out"} -> "OUTPUT"
                        [] e = "x" -> x [] e = "y" -> y [] e = "z" -> z [] OTHER -> w]

Reading(y, a1, z, a2, w) ==
  [e \in Elements |-> CASE e = "x" -> {"in"} [] e = "y" -> y [] e = "a1" -> {a1}
                        [] e = "z" -> z [] e = "a2" -> {a2} [] e = "w" -> w
                        [] e = "out" -> {"w"} [] OTHER -> {}]

SomeCircuits ==
  {[op |-> Ops("AND", o[1], o[2], o[3]), fanin |-> f, call |-> CallOf] :
     o \in {<<"XOR", "AND", "XOR">>, <<"AND", "XOR", "AND">>, <<"ONE", "XOR", "XOR">>},
     f \in {Reading(y, a1, z, a2, w) :
              y \in {{}, {"x"}, {"in", "x"}}, a1 \in {"x", "y"},
              z \in {{"x"}, {"x", "r1"}, {"r1", "r2"}, {"y", "r2"}},
              a2 \in {"y", "z", "r1"},
              w \in {{"z", "s"}, {"x", "s"}, {"y", "z"}, {"s", "r2"}}}}
Grouped == {c \in SomeCircuits : (c.fanin["y"] = {}) = (c.op["y"] = "ONE")}
=============================================================================
