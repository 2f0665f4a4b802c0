--------------------------- MODULE InputCombiners ---------------------------
(***************************************************************************)
(* replace_input_combiners() of the ABY adapter: before a linked circuit   *)
(* is converted, a COMBINE gate that only collects the bits of an input    *)
(* variable is replaced by one wide INPUT gate.                            *)
(*                                                                         *)
(* A circuit is a record: op, fanin (a sequence of endpoints <<gate,       *)
(* pin>>), width and tag (the sharing that update_sharing_kind() gave it)  *)
(* of every gate, var (the INPUT gates of each input variable, lowest bit  *)
(* first) and out (its OUTPUT gates).                                      *)
(***************************************************************************)
EXTENDS Integers, Sequences, FiniteSets, SequencesExt

CONSTANTS
  Linked,   \* the circuits that link() may leave
  Bits,     \* the width of all arithmetic gates
  Values,   \* values of the input variables to try
  None

VARIABLES
  linked,   \* the circuit that link() left
  circuit,  \* the circuit now
  pos       \* input_it: a variable and a place in it

Init ==
  /\ linked \in Linked /\ circuit = linked
  /\ pos = [var |-> 1, at |-> 1]

Inputs   == circuit.var[pos.var]
HasInput == pos.var <= Len(circuit.var) /\ pos.at <= Len(Inputs)
Replaced == pos.var > Len(circuit.var)

\* The pins that read a gate.
Fanouts(g) ==
  UNION {{<<h, n>> : n \in {m \in DOMAIN circuit.fanin[h] : circuit.fanin[h][m][1] = g}} :
           h \in DOMAIN circuit.op}

\* get_combiner_of_input: the COMBINE gate, if it is the only reader.
Combiner(i) ==
  LET readers == Fanouts(i)
      gates == {pin[1] : pin \in readers}
  IN  IF Cardinality(readers) = 1 /\ \A k \in gates : circuit.op[k] = "COMBINE"
      THEN CHOOSE k \in gates : TRUE ELSE None

Count(k) == Len(circuit.fanin[k])

\* combiner_replaceable_by_new_input: as many inputs as it has pins, from this
\* one on, go to the combiner.  Where they go is not looked at.
Replaceable(k) ==
  /\ k # None
  /\ pos.at + Count(k) - 1 <= Len(Inputs)
  /\ \A n \in 0 .. Count(k) - 1 : Combiner(Inputs[pos.at + n]) = k

\* The new INPUT gate has the combiner's name here, which its readers keep.
Replace ==
  /\ HasInput /\ Replaceable(Combiner(Inputs[pos.at]))
  /\ LET k == Combiner(Inputs[pos.at])
         gone == {Inputs[pos.at + n] : n \in 0 .. Count(k) - 1}
         kept == DOMAIN circuit.op \ gone
         var  == SubSeq(Inputs, 1, pos.at - 1) \o <<k>>
                 \o SubSeq(Inputs, pos.at + Count(k), Len(Inputs))
     IN  circuit' =
           [circuit EXCEPT !.op    = [g \in kept |-> IF g = k THEN "INPUT" ELSE @[g]],
                           !.fanin = [g \in kept |-> IF g = k THEN << >> ELSE @[g]],
                           !.width = [g \in kept |-> @[g]],
                           !.tag   = [g \in kept |-> IF g = k THEN "ARITH" ELSE @[g]],
                           !.var[pos.var] = var]
  /\ UNCHANGED <<linked, pos>>

\* Nothing to replace at this input.
Pass ==
  /\ HasInput /\ ~Replaceable(Combiner(Inputs[pos.at]))
  /\ pos' = [pos EXCEPT !.at = @ + 1]
  /\ UNCHANGED <<linked, circuit>>

NextVariable ==
  /\ ~Replaced /\ ~HasInput
  /\ pos' = [var |-> pos.var + 1, at |-> 1]
  /\ UNCHANGED <<linked, circuit>>

ReplaceStep == Replace \/ Pass \/ NextVariable

Spec == Init /\ [][ReplaceStep]_<<linked, circuit, pos>>

----------------------------------------------------------------------------
(* What a circuit computes.                                                *)

\* get_bits: what an INPUT gate has of its variable's value.
InputValue(c, x, g) ==
  LET v == CHOOSE u \in DOMAIN c.var : g \in ToSet(c.var[u])
      n == CHOOSE m \in DOMAIN c.var[v] : c.var[v][m] = g
      offset == FoldSeq(LAMBDA h, sum : sum + c.width[h], 0, SubSeq(c.var[v], 1, n - 1))
  IN  (x[v] \div 2 ^ offset) % 2 ^ c.width[g]

\* Bits as numbers; the one value of CONST gates here is 1.
Apply(op, w, a) ==
  CASE op = "ONE"   -> 1
    [] op = "CONST" -> 1
    [] op = "NOT"   -> 1 - a[1]
    [] op = "AND"   -> a[1] * a[2]
    [] op = "OR"    -> a[1] + a[2] - a[1] * a[2]
    [] op = "XOR"   -> (a[1] + a[2]) % 2
    [] op = "ADD"   -> (a[1] + a[2]) % 2 ^ w
    [] op = "SUB"   -> (a[1] - a[2]) % 2 ^ w
    [] op = "MUL"   -> (a[1] * a[2]) % 2 ^ w
    [] op = "COMBINE" -> FoldLeft(LAMBDA sum, n : sum + a[n] * 2 ^ (n - 1), 0,
                                  [n \in DOMAIN a |-> n])
    [] op \in {"OUTPUT", "SPLIT"} -> a[1]

\* The value of every gate for the values x of the variables, those first that
\* read nothing; a SPLIT gate has the value that it takes apart.
Meaning(c, x) ==
  LET At(val, e) == IF c.op[e[1]] = "SPLIT" THEN (val[e[1]] \div 2 ^ e[2]) % 2 ELSE val[e[1]]
      Of(val, g) ==
        IF c.op[g] = "INPUT" THEN InputValue(c, x, g)
        ELSE Apply(c.op[g], c.width[g], [n \in DOMAIN c.fanin[g] |-> At(val, c.fanin[g][n])])
      upTo[n \in 0 .. Cardinality(DOMAIN c.op)] ==
        IF n = 0 THEN << >>
        ELSE LET val == upTo[n - 1]
                 next == {g \in DOMAIN c.op \ DOMAIN val :
                            \A m \in DOMAIN c.fanin[g] : c.fanin[g][m][1] \in DOMAIN val}
             IN  IF next = {} THEN val
                 ELSE [g \in DOMAIN val \cup next |-> IF g \in next THEN Of(val, g) ELSE val[g]]
  IN  upTo[Cardinality(DOMAIN c.op)]

\* Replacing combiners changes no output, for any values of the variables: the
\* wide INPUT gate gets the bits that the combiner put together, in its order.
OutputsKept ==
  \A x \in Values :
    LET now == Meaning(circuit, x)  then == Meaning(linked, x)
    IN  \A o \in linked.out : now[o] = then[o]
=============================================================================
