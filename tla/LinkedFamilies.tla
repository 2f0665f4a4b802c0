--------------------------- MODULE LinkedFamilies ---------------------------
(***************************************************************************)
(* Circuits for what happens after linking: those that are written to a    *)
(* file, and those that are handed to ABY.                                 *)
(***************************************************************************)
EXTENDS Integers, Sequences

P(g) == <<g, 0>>
S(n) == <<"s", n>>
T(n) == <<"t", n>>

----------------------------------------------------------------------------
(* To write: an input variable of single bits and a wide one, three output *)
(* variables and a call with two arguments and a return.  A COMBINE gate,  *)
(* an arithmetic gate, a SPLIT gate with two bits and two gates of single  *)
(* bits.  Every gate is read by one of the outputs.                        *)

Outs == <<<<"o1">>, <<"o2", "o3">>, <<"o4">>>>
Call == [args |-> <<<<"a1">>, <<"a2", "a3">>>>, returns |-> <<<<"r">>>>]
Inputs  == {"x1", "x2", "y", "r"}
Outputs == {"o1", "o2", "o3", "o4", "a1", "a2", "a3"}

\* c: the bits that are combined; m: the arithmetic gate, its second operand a
\* CONST gate or not; g: a gate behind the SPLIT gate; a1: one gate more.
Ops(m, h) ==
  [one |-> "ONE", zero |-> "NOT", c |-> "COMBINE", m |-> m, s |-> "SPLIT", g |-> "AND", h |-> h]
Fanins(c, m, g, h) ==
  [one |-> << >>, zero |-> <<P("one")>>, c |-> c, m |-> m, s |-> <<P("m")>>, g |-> g, h |-> h]
Drivers(o4, a1) ==
  [o1 |-> P("g"), o2 |-> P("h"), o3 |-> S(1), o4 |-> P(o4), a1 |-> a1, a2 |-> S(0), a3 |-> P("x2")]

ToWrite(ops, fanins, drivers, const) ==
  LET inner == DOMAIN ops \cup const
      gates == Inputs \cup Outputs \cup inner
  IN  [op    |-> [g \in gates |-> CASE g \in Inputs -> "INPUT" [] g \in Outputs -> "OUTPUT"
                                    [] g \in const -> "CONST" [] OTHER -> ops[g]],
       fanin |-> [g \in gates |-> CASE g \in Inputs \cup const -> << >> [] g \in Outputs -> <<drivers[g]>>
                                    [] OTHER -> fanins[g]],
       width |-> [g \in gates |-> IF g \in {"y", "c", "k", "m", "o4"} THEN 2 ELSE 1],
       value |-> [g \in gates |-> IF g = "k" THEN 3 ELSE 0],
       ins   |-> <<<<"x1", "x2">>, <<"y">>>>, outs |-> Outs, calls |-> <<Call>>]

FileCircuits ==
  {ToWrite(Ops("SUB", "NOT"), Fanins(c, <<P("c"), P("y")>>, g, <<S(1)>>), Drivers(o4, a1), {}) :
     c \in {<<P("x2"), P("x1")>>, <<P("r"), P("zero")>>}, g \in {<<S(1), P("r")>>, <<S(0), P("one")>>},
     o4 \in {"m", "y"}, a1 \in {P("h"), P("zero")}}
  \cup
  {ToWrite(Ops("MUL", "XOR"), Fanins(<<P("x1"), P("r")>>, m, <<S(1), P("x2")>>, <<P("g"), S(0)>>),
        Drivers("c", a1), {"k"}) :
     m \in {<<P("k"), P("c")>>, <<P("c"), P("k")>>}, a1 \in {P("x2"), P("one")}}

----------------------------------------------------------------------------
(* To hand to ABY, as link() leaves them: a boolean one, in Yao or GMW,    *)
(* that called an arithmetic module, whose arguments go through COMBINE    *)
(* gates and whose result through SPLIT gates, and a boolean module in Yao *)
(* or GMW; and an arithmetic one that called a boolean module.             *)

OpOf(g, ops) ==
  CASE g \in {"x1", "x2", "x3", "y1", "y2", "x", "y"} -> "INPUT"
    [] g \in {"o1", "o2"} -> "OUTPUT"
    [] g = "one" -> "ONE" [] g = "zero" -> "NOT" [] g = "k" -> "CONST"
    [] g \in {"c1", "c2", "c3"} -> "COMBINE"
    [] g \in {"s", "t"} -> "SPLIT"
    [] OTHER -> ops[g]

\* Only what an output needs is there, besides the inputs: link() cleans up.
Needed(fanin) ==
  LET reach[n \in 0 .. 9] ==
        IF n = 0 THEN {"o1", "o2"}
        ELSE LET r == reach[n - 1]
             IN  r \cup UNION {{fanin[g][m][1] : m \in DOMAIN fanin[g]} : g \in r}
  IN  reach[9]

Made(ops, fanin, wide, tag, var) ==
  LET gates == Needed(fanin) \cup UNION {{var[v][n] : n \in DOMAIN var[v]} : v \in DOMAIN var}
  IN  [op    |-> [g \in gates |-> OpOf(g, ops)],
       fanin |-> [g \in gates |-> fanin[g]],
       width |-> [g \in gates |-> IF g \in wide THEN 2 ELSE 1],
       tag   |-> [g \in gates |-> tag[g]],
       var   |-> var, out |-> {"o1", "o2"}]

Names == {"x1", "x2", "x3", "y1", "y2", "x", "y", "o1", "o2", "one", "zero", "k", "c1", "c2", "c3",
          "s", "t", "g", "h", "m", "n"}
Wide == {"x", "y", "k", "c1", "c2", "c3", "m", "n"}

----------------------------------------------------------------------------
(* main: g of its own, m = c1 op c2 of the arithmetic module, its result   *)
(* split; h of the boolean module; and a second call, n = c3 - c1.         *)

BoolTags(main, callee) ==
  [g \in Names |-> IF g = "h" THEN callee ELSE IF g \in {"s", "t"} THEN "none" ELSE main]
BoolVar == <<<<"x1", "x2", "x3">>, <<"y1", "y2">>>>

BoolFanin(c1, c2, h, c3, o1, o2) ==
  [g \in Names |->
     CASE g = "g" -> <<P("x1"), P("y1")>> [] g = "zero" -> <<P("one")>>
       [] g = "c1" -> c1 [] g = "c2" -> c2 [] g = "c3" -> c3
       [] g = "m" -> <<P("c1"), P("c2")>> [] g = "s" -> <<P("m")>>
       [] g = "h" -> h
       [] g = "n" -> <<P("c3"), P("c1")>> [] g = "t" -> <<P("n")>>
       [] g = "o1" -> <<o1>> [] g = "o2" -> <<o2>>
       [] OTHER -> << >>]

Boolean == {"YAO", "BOOL"}
OpsWith(callee) == IF callee = "YAO" THEN [g |-> "AND", h |-> "OR", m |-> "MUL", n |-> "SUB"]
                   ELSE [g |-> "XOR", h |-> "XOR", m |-> "ADD", n |-> "SUB"]
BoolMain(main, callee, fanin) ==
  Made(OpsWith(callee), fanin, Wide, BoolTags(main, callee), BoolVar)

InOrder == {<<P("x1"), P("x2")>>, <<P("x2"), P("x3")>>, <<P("x1"), P("x3")>>, <<P("x3"), P("y1")>>,
            <<P("g"), P("x2")>>, <<P("x2"), P("x2")>>}

BoolCircuits(first) ==
  {BoolMain(main, callee, BoolFanin(c1, c2, h, c3, o1, o2)) :
     main \in Boolean, callee \in Boolean, c1 \in first,
     c2 \in {<<P("y1"), P("y2")>>, <<P("zero"), P("g")>>},
     h \in {<<S(0), S(1)>>, <<P("x3"), S(1)>>, <<P("g"), P("x1")>>},
     c3 \in {<<S(0), S(1)>>, <<P("h"), P("x1")>>, <<P("h"), S(0)>>},
     o1 \in {P("h"), T(0)}, o2 \in {S(1), T(1), P("x3")}}

----------------------------------------------------------------------------
(* An arithmetic main, with wide inputs and outputs.                       *)

ArithFanin(c3, h, m, o2) ==
  [g \in Names |->
     CASE g = "m" -> m [] g = "s" -> <<P("m")>> [] g = "h" -> h [] g = "c3" -> c3
       [] g = "n" -> <<P("c3"), P("x")>>
       [] g = "o1" -> <<P("n")>> [] g = "o2" -> <<P(o2)>>
       [] OTHER -> << >>]

ArithCircuits ==
  {Made([g \in {"h", "m", "n"} |-> CASE g = "h" -> "OR" [] g = "m" -> "MUL" [] OTHER -> "SUB"],
        ArithFanin(c3, <<S(0), S(1)>>, m, o2), Wide \cup {"o1", "o2"},
        [g \in Names |-> IF g = "h" THEN callee ELSE IF g = "s" THEN "none" ELSE "ARITH"],
        <<<<"x">>, <<"y">>>>) :
     callee \in Boolean, c3 \in {<<P("h"), S(0)>>, <<S(1), S(0)>>, <<P("h"), P("h")>>},
     m \in {<<P("x"), P("y")>>, <<P("y"), P("k")>>}, o2 \in {"n", "m", "c3", "y"}}

----------------------------------------------------------------------------

AbyCircuits == BoolCircuits(InOrder) \cup ArithCircuits

\* Values of the input variables.
Tried == {0, 3, 5, 6} \X {1, 2, 3}

\* An argument that is a variable's bits in another order.
Rotated == BoolCircuits({<<P("x2"), P("x1")>>, <<P("x3"), P("x2")>>})
=============================================================================
