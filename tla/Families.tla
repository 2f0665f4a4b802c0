------------------------------ MODULE Families ------------------------------
(***************************************************************************)
(* Small circuits for the models: families given by the operations of      *)
(* their gates in topological order, with every way of connecting them.    *)
(* The inputs are 1, 2, .. and the gates 11, 12, .. so that one order of   *)
(* the two fanins of a gate can be picked.                                 *)
(***************************************************************************)
EXTENDS Netlist, Sequences

GateAt(i) == 10 + i
Before(i) == Input \cup {GateAt(j) : j \in 1 .. (i - 1)}

\* The circuit with these operations and fanins whose outputs are outs; the
\* other addresses are free.
Build(ops, fanins, outs) ==
  [op    |-> [g \in Gate |-> IF g - 10 \in DOMAIN ops THEN ops[g - 10] ELSE "FREE"],
   fanin |-> [g \in Gate |-> [p \in Pin |->
                IF g - 10 \in DOMAIN ops THEN fanins[g - 10][p + 1] ELSE NULL]],
   out   |-> outs]

Reads(op, S) == IF op = "NOT" THEN {<<n, NULL>> : n \in S}
                ELSE {r \in S \X S : r[1] <= r[2]}

\* Every way to connect these gates, and the outputs in one of these ways, so
\* that each gate is read by a later one or by an output.
Connected(ops, outs) ==
  LET F[n \in 0 .. Len(ops)] ==
        IF n = 0 THEN {<<>>}
        ELSE {Append(f, r) : f \in F[n - 1], r \in Reads(ops[n], Before(n))}
      read(f, g) == \E j \in 1 .. Len(ops), p \in {1, 2} : f[j][p] = g
      gates == {GateAt(i) : i \in 1 .. Len(ops)}
  IN  {Build(ops, w[1], w[2]) : w \in
         {w \in F[Len(ops)] \X outs :
            \A g \in gates : read(w[1], g) \/ \E o \in Output : w[2][o] = g}}

\* With each output at any gate, and with all of them at the last one.
Family(ops) == Connected(ops, [Output -> {GateAt(i) : i \in 1 .. Len(ops)}])
Tree(ops)   == Connected(ops, {[o \in Output |-> GateAt(Len(ops))]})

AllOps(n) == [1 .. n -> BinOp \cup {"NOT"}]
AllOf(n)  == UNION {Family(ops) : ops \in AllOps(n)}
UpTo(n)   == UNION {AllOf(i) : i \in 1 .. n}
=============================================================================
