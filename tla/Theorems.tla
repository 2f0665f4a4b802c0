------------------------------ MODULE Theorems ------------------------------
(***************************************************************************)
(* The rewrite rules of src/libcircuit/simple_circuit_theorems.cpp and the *)
(* patterns of simple_circuit_rewriting(_old).cpp that use_theorems calls. *)
(* A rule is a set of matches, empty when the pattern is absent; A || B is *)
(* the code's short-circuit: B is tried when A does not match.  When a     *)
(* pattern matches in several symmetric ways the code takes the first one, *)
(* the model any.                                                          *)
(***************************************************************************)
EXTENDS Netlist, Sequences

MAX_STEPS == 10

A || B == IF A # {} THEN A ELSE B
When(condition, match) == IF condition THEN {match} ELSE {}

Match(c, n)   == [c |-> c, n |-> n]              \* replace the gate by n
Pair(c, l, r) == [c |-> c, l |-> l, r |-> r]     \* by a gate with fanins l, r

F0(c, n) == Fanin(c, n, 0)
F1(c, n) == Fanin(c, n, 1)
Sides(c, n) == {<<F0(c, n), F1(c, n)>>, <<F1(c, n), F0(c, n)>>}

Is(c, n, op)      == OpOf(c, n) = op
Single(c, n)      == Cardinality(Fanouts(c, n)) = 1
SameInputs(c, m, n) == <<F0(c, m), F1(c, m)>> \in Sides(c, n)

\* The same address, or the same operation on the same gates.
is_same_gate(c, m, n) ==
  \/ m = n
  \/ /\ OpOf(c, m) = OpOf(c, n)
     /\ OpOf(c, m) \in BinOp \cup {"NOT"}
     /\ SameInputs(c, m, n)

is_NOT_same_gate(c, m, n) ==
  \/ Is(c, m, "NOT") /\ F0(c, m) = n
  \/ Is(c, n, "NOT") /\ F0(c, n) = m

get_other_input(c, g, n) ==
  IF is_same_gate(c, F0(c, g), n) THEN F1(c, g) ELSE F0(c, g)

is_one_of(c, n, m, op) ==
  /\ Is(c, n, op)
  /\ is_same_gate(c, m, F0(c, n)) \/ is_same_gate(c, m, F1(c, n))

\* A gate at a free address.
NewGate(c, op, x, y) ==
  LET g == CHOOSE f \in Gate : c.op[f] = "FREE"
  IN  Match([c EXCEPT !.op[g] = op, !.fanin[g] = [p \in Pin |-> IF p = 0 THEN x ELSE y]], g)

\* The gate with this operation and these fanins, created if there is none.
create_this_gate(c, x, y, op) ==
  LET found == {g \in Gates(c) : c.op[g] = op /\ <<x, y>> \in Sides(c, g)}
  IN  IF found # {} THEN Match(c, CHOOSE g \in found : TRUE) ELSE NewGate(c, op, x, y)

create_this_NOT_gate(c, x) ==
  LET found == {g \in Gates(c) : c.op[g] = "NOT" /\ c.fanin[g][0] = x}
  IN  IF x = ONE_GATE THEN Match(c, ZERO_GATE)
      ELSE IF found # {} THEN Match(c, CHOOSE g \in found : TRUE) ELSE NewGate(c, "NOT", x, NULL)

\* Pairs of a gate that is read as it is and one that is created first.
WithNot(c, x, y) == LET m == create_this_NOT_gate(c, y) IN Pair(m.c, x, m.n)
WithGate(c, x, y, z, op) == LET m == create_this_gate(c, y, z, op) IN Pair(m.c, x, m.n)

----------------------------------------------------------------------------
(* Constants, idempotence and complement.                                  *)

\* Fault: OR and XOR are forgotten.
propagate_zero_and_only(c, g) ==
       When(Is(c, g, "NOT") /\ F0(c, g) = ZERO_GATE, Match(c, ONE_GATE))
  \cup When(Is(c, g, "AND") /\ ZERO_GATE \in {F0(c, g), F1(c, g)}, Match(c, ZERO_GATE))

propagate_zero(c, g) ==
       When(Is(c, g, "NOT") /\ F0(c, g) = ZERO_GATE, Match(c, ONE_GATE))
  \cup When(Is(c, g, "AND") /\ ZERO_GATE \in {F0(c, g), F1(c, g)}, Match(c, ZERO_GATE))
  \cup {Match(c, s[2]) : s \in {s \in Sides(c, g) :
          OpOf(c, g) \in {"OR", "XOR"} /\ s[1] = ZERO_GATE}}

propagate_one(c, g) ==
       When(Is(c, g, "NOT") /\ F0(c, g) = ONE_GATE, Match(c, ZERO_GATE))
  \cup When(Is(c, g, "OR") /\ ONE_GATE \in {F0(c, g), F1(c, g)}, Match(c, ONE_GATE))
  \cup {Match(c, s[2]) : s \in {s \in Sides(c, g) : Is(c, g, "AND") /\ s[1] = ONE_GATE}}
  \cup {create_this_NOT_gate(c, s[2]) : s \in {s \in Sides(c, g) :
          Is(c, g, "XOR") /\ s[1] = ONE_GATE}}

transform3(c, g) ==
  When(OpOf(c, g) \in {"OR", "AND"} /\ is_same_gate(c, F0(c, g), F1(c, g)), Match(c, F0(c, g)))

\* Fault: one NOT too few is taken away.
transform4_one_not(c, g) ==
  When(Is(c, g, "NOT") /\ Is(c, F0(c, g), "NOT"), Match(c, F0(c, g)))

transform4(c, g) ==
  When(Is(c, g, "NOT") /\ Is(c, F0(c, g), "NOT"), Match(c, F0(c, F0(c, g))))

transform5(c, g) ==
  When(OpOf(c, g) \in {"OR", "AND"} /\ is_NOT_same_gate(c, F0(c, g), F1(c, g)),
       Match(c, IF Is(c, g, "OR") THEN ONE_GATE ELSE ZERO_GATE))

transform_XOR5(c, g) ==
     When(Is(c, g, "XOR") /\ is_same_gate(c, F0(c, g), F1(c, g)), Match(c, ZERO_GATE))
  || When(Is(c, g, "XOR") /\ is_NOT_same_gate(c, F0(c, g), F1(c, g)), Match(c, ONE_GATE))

\* OR(AND(x, y), x) = x, and its dual.
transform12_1(c, g) ==
  {Match(c, s[2]) : s \in {s \in Sides(c, g) :
     Is(c, g, "OR") /\ is_one_of(c, s[1], s[2], "AND") /\ Single(c, s[1])}}

transform12_2(c, g) ==
  {Match(c, s[2]) : s \in {s \in Sides(c, g) : Is(c, g, "AND") /\ is_one_of(c, s[1], s[2], "OR")}}

\* Fault: the gate itself counts as another gate.
structural_hashing_BINOP_self(c, g) ==
  {Match(c, h) : h \in {h \in Gates(c) :
     /\ OpOf(c, g) \in BinOp /\ c.op[h] = c.op[g]
     /\ \E p, q \in Pin : c.fanin[h][p] = F0(c, g) /\ c.fanin[h][q] = F1(c, g)}}

\* Another gate with the same operation and fanins.
structural_hashing_NOT(c, g) ==
  {Match(c, f[1]) : f \in {f \in Fanouts(c, F0(c, g)) :
     Is(c, g, "NOT") /\ Is(c, f[1], "NOT") /\ f[1] # g}}

structural_hashing_BINOP(c, g) ==
  {Match(c, h) : h \in {h \in Gates(c) \ {g} :
     /\ OpOf(c, g) \in BinOp /\ c.op[h] = c.op[g]
     /\ \E p, q \in Pin : c.fanin[h][p] = F0(c, g) /\ c.fanin[h][q] = F1(c, g)}}

----------------------------------------------------------------------------
(* Distributivity and De Morgan.                                           *)

\* The ways to read both fanins of g as inner(x, y) and inner(x, z).
Factorings(c, g, inner) ==
  {<<st[1][1], st[1][2], st[2][2]>> :
     st \in {st \in Sides(c, F0(c, g)) \X Sides(c, F1(c, g)) :
               Is(c, F0(c, g), inner) /\ Is(c, F1(c, g), inner) /\ st[1][1] = st[2][1]}}

transform8_1(c, g) ==
  IF Is(c, g, "OR") /\ Single(c, F0(c, g)) /\ Single(c, F1(c, g))
  THEN {WithGate(c, f[1], f[2], f[3], "OR") : f \in Factorings(c, g, "AND")} ELSE {}

transform8_2(c, g) ==
  IF Is(c, g, "AND")
  THEN {WithGate(c, f[1], f[2], f[3], "AND") : f \in Factorings(c, g, "OR")} ELSE {}

transform_XOR3(c, g) ==
  IF Is(c, g, "XOR")
  THEN {WithGate(c, f[1], f[2], f[3], "XOR") : f \in Factorings(c, g, "AND")} ELSE {}

BothNot(c, g) == Is(c, F0(c, g), "NOT") /\ Is(c, F1(c, g), "NOT")
OneSingle(c, g) == Single(c, F0(c, g)) \/ Single(c, F1(c, g))

transform9_1(c, g) ==
  When(Is(c, g, "AND") /\ BothNot(c, g) /\ OneSingle(c, g),
       create_this_gate(c, F0(c, F0(c, g)), F0(c, F1(c, g)), "OR"))

transform9_2(c, g, round2) ==
  When(Is(c, g, "OR") /\ BothNot(c, g) /\ (OneSingle(c, g) \/ round2),
       create_this_gate(c, F0(c, F0(c, g)), F0(c, F1(c, g)), "AND"))

\* NOT(OR(NOT(x), y)) = AND(x, NOT(y)).  In both symmetric cases the code
\* counts the fanouts of the first fanin of the OR.
transform_inv9_1(c, g) ==
  {WithNot(c, F0(c, t[1]), t[2]) : t \in {t \in Sides(c, F0(c, g)) :
     /\ Is(c, g, "NOT") /\ Is(c, F0(c, g), "OR") /\ Single(c, F0(c, g))
     /\ Is(c, t[1], "NOT") /\ Single(c, F0(c, F0(c, g)))}}

transform_inv9_2(c, g) ==
  {WithNot(c, F0(c, t[1]), t[2]) : t \in {t \in Sides(c, F0(c, g)) :
     /\ Is(c, g, "NOT") /\ Is(c, F0(c, g), "AND") /\ Single(c, F0(c, g))
     /\ Is(c, t[1], "NOT") /\ Single(c, t[1])}}

can_be_less_easily_replaced_by_or(c, g) ==
  LET a == F0(c, g)
  IN  When(Is(c, g, "NOT") /\ Is(c, a, "AND") /\ Single(c, a) /\ BothNot(c, a),
           Pair(c, F0(c, F0(c, a)), F0(c, F1(c, a))))

----------------------------------------------------------------------------
(* Absorption.                                                             *)

\* op(x, inner(NOT(x), y)) with x on either side.
Complements(c, g, inner) ==
  {Pair(c, st[1][1], st[2][2]) : st \in
     {st \in UNION {{s} \X Sides(c, s[2]) : s \in Sides(c, g)} :
        Is(c, st[1][2], inner) /\ is_NOT_same_gate(c, st[2][1], st[1][1])}}

\* op(x, NOT(inner(x, y))) with x on either side, as op(x, NOT(y)).
\* single says whether both absorbed gates must have no other consumer.
Negations(c, g, inner, single) ==
  {WithNot(c, st[1][1], st[2][2]) : st \in
     {st \in UNION {{s} \X Sides(c, F0(c, s[2])) : s \in Sides(c, g)} :
        /\ Is(c, st[1][2], "NOT") /\ Is(c, F0(c, st[1][2]), inner)
        /\ single => Single(c, st[1][2]) /\ Single(c, F0(c, st[1][2]))
        /\ st[2][1] = st[1][1]}}

transform11_1(c, g) ==
  IF Is(c, g, "OR") THEN Complements(c, g, "AND") || Negations(c, g, "OR", FALSE) ELSE {}

transform11_2(c, g) ==
  IF Is(c, g, "AND") THEN Complements(c, g, "OR") || Negations(c, g, "AND", TRUE) ELSE {}

\* The ways to read g as op(inner(x, y), x), as the pair of y and x.
Absorbed(c, g, inner, single) ==
  {<<st[2][2], st[1][2]>> : st \in
     {st \in UNION {{s} \X Sides(c, s[1]) : s \in Sides(c, g)} :
        /\ Is(c, st[1][1], inner) /\ st[2][1] = st[1][2]
        /\ single => Single(c, st[1][1])}}

transform_XOR_Absorption(c, g) ==
  IF Is(c, g, "XOR") THEN {WithNot(c, a[2], a[1]) : a \in Absorbed(c, g, "AND", FALSE)} ELSE {}

transform_XOR_Absorption2(c, g) ==
  IF Is(c, g, "AND") THEN {WithNot(c, a[2], a[1]) : a \in Absorbed(c, g, "XOR", TRUE)} ELSE {}

simplify13(c, g) ==
  IF Is(c, g, "OR") THEN {Pair(c, a[2], a[1]) : a \in Absorbed(c, g, "XOR", FALSE)} ELSE {}

----------------------------------------------------------------------------
(* Exclusive or.                                                           *)

\* OR(AND(NOT(x), y), AND(NOT(y), x)) = XOR(x, y)
transform_XOR1(c, g) ==
  {Pair(c, st[1][2], st[2][2]) : st \in
     {st \in Sides(c, F0(c, g)) \X Sides(c, F1(c, g)) :
        /\ Is(c, g, "OR") /\ Is(c, F0(c, g), "AND") /\ Is(c, F1(c, g), "AND")
        /\ Is(c, st[1][1], "NOT") /\ F0(c, st[1][1]) = st[2][2]
        /\ Is(c, st[2][1], "NOT") /\ F0(c, st[2][1]) = st[1][2]}}

\* The sides of g that are NOT(inner(p, q)) and other(p, q), both read once.
Twins(c, g, inner, other) ==
  {s \in Sides(c, g) :
     /\ Is(c, s[1], "NOT") /\ Single(c, s[1]) /\ Is(c, F0(c, s[1]), inner)
     /\ Is(c, s[2], other) /\ Single(c, s[2])
     /\ SameInputs(c, F0(c, s[1]), s[2])}

\* OR(NOT(OR(p, q)), AND(p, q)) with p = NOT(z) is XOR(q, z).
can_be_less_easily_replaced_by_xor(c, g) ==
  IF Is(c, g, "OR")
  THEN {Pair(c, t[2], F0(c, t[1])) : t \in
          {t \in UNION {Sides(c, s[2]) : s \in Twins(c, g, "OR", "AND")} : Is(c, t[1], "NOT")}}
  ELSE {}

can_be_less_easily_replaced_by_xor2(c, g) ==
  IF Is(c, g, "AND")
  THEN {Pair(c, F0(c, s[2]), F1(c, s[2])) : s \in Twins(c, g, "AND", "OR")} ELSE {}

transform_XOR2N(c, g) ==
     When(Is(c, g, "XOR") /\ BothNot(c, g), Pair(c, F0(c, F0(c, g)), F0(c, F1(c, g))))
  || {Pair(c, F0(c, t[1]), t[2]) : t \in {t \in Sides(c, F0(c, g)) :
        Is(c, g, "NOT") /\ Is(c, F0(c, g), "XOR") /\ Is(c, t[1], "NOT")}}

\* OR(AND(p, q), NOT(OR(p, q))) = NOT(XOR(p, q))
simplify15(c, g) ==
  IF Is(c, g, "OR")
  THEN {create_this_gate(c, F0(c, s[2]), F1(c, s[2]), "XOR") : s \in
          {s \in Twins(c, g, "OR", "AND") : Single(c, F0(c, s[1]))}}
  ELSE {}

\* Fault: the gate itself is negated, not the XOR without the NOT.
simplify17_self(c, g) ==
  {Match(c, g) : s \in {s \in Sides(c, g) : Is(c, g, "XOR") /\ Is(c, s[1], "NOT") /\ Single(c, s[1])}}

\* XOR(NOT(x), y) = NOT(XOR(x, y))
simplify17(c, g) ==
  {create_this_gate(c, F0(c, s[1]), s[2], "XOR") : s \in {s \in Sides(c, g) :
     Is(c, g, "XOR") /\ Is(c, s[1], "NOT") /\ Single(c, s[1])}}

\* Another gate XOR(a, NOT(b)) becomes the negation of g = XOR(a, b).
simplify11(c, g) ==
  LET not_gate == NewGate(c, "NOT", g, NULL)
      others   == {h \in Gates(c) \ {g} : c.op[h] = "XOR" /\
                     \E s \in Sides(c, g), t \in Sides(c, h) :
                        t[1] = s[1] /\ Is(c, t[2], "NOT") /\ F0(c, t[2]) = s[2]}
  IN  IF Is(c, g, "XOR") THEN {ReplaceBy(not_gate.c, h, not_gate.n) : h \in others} ELSE {}

----------------------------------------------------------------------------
(* Cascades and trees of one operation.                                    *)

\* The direct matches for a gate x below parent and a gate a of the cascade
\* on the other side: a repeats x, or negates it.
rek_match(c, x, a, parent, op, round2) ==
  LET without(y) == ReplaceBy(c, a, y)
      sides == {s \in Sides(c, a) : Is(c, a, "XOR")}
  IN  IF op = "XOR"
      THEN    {ReplaceBy(without(s[2]), parent, get_other_input(without(s[2]), parent, x)) :
                 s \in {s \in sides : is_same_gate(c, s[1], x)}}
           || {ReplaceBy(without(s[2]), x, ONE_GATE) :
                 s \in {s \in sides : is_NOT_same_gate(c, s[1], x) /\ Single(c, x)}}
      ELSE    When(is_same_gate(c, a, x), ReplaceBy(c, parent, get_other_input(c, parent, x)))
           || When(is_NOT_same_gate(c, a, x) /\ round2,
                   ReplaceBy(c, parent, IF op = "OR" THEN ONE_GATE ELSE ZERO_GATE))

\* One call of transform_rek for x and a, with R the results of the calls it
\* makes: down the cascade on the other side, then, when x has the operation
\* too, for each fanin of x with x as the parent.  k is the counter that the
\* whole search shares.
Found(k, found) == [k |-> k, found |-> found]
rek_call(c, op, round2, R, x, a, parent, k) ==
  LET here  == rek_match(c, x, a, parent, op, round2)
      left  == R[<<x, F0(c, a), parent, k + 1>>]
      right == R[<<x, F1(c, a), parent, left.k>>]
      lower == R[<<F0(c, x), a, x, right.k + 1>>]
      upper == R[<<F1(c, x), a, x, lower.k>>]
  IN  IF k > MAX_STEPS \/ (op = "XOR" /\ Is(c, a, "XOR") /\ ~Single(c, a)) THEN Found(k, {})
      ELSE IF here # {} THEN Found(k, here)
      ELSE IF ~Is(c, a, op) THEN Found(k, {})
      ELSE IF left.found # {} THEN left
      ELSE IF right.found # {} \/ op = "XOR" \/ ~Is(c, x, op) THEN right
      ELSE IF lower.found # {} THEN lower ELSE upper

Search(c, op, round2) ==
  LET R[s \in Node \X Node \X Node \X Nat] ==
        rek_call(c, op, round2, R, s[1], s[2], s[3], s[4])
  IN  R

transform_rek(c, g, x0, a0, op, round2) == Search(c, op, round2)[<<x0, a0, g, 0>>].found

----------------------------------------------------------------------------
(* use_theorems: the if-statements in their order, a group of rules each.  *)

Replaced(matches, g) == {ReplaceBy(m.c, g, m.n) : m \in matches}
Built(pairs, op)     == {create_this_gate(m.c, m.l, m.r, op) : m \in pairs}
Negated(matches)     == {create_this_NOT_gate(m.c, m.n) : m \in matches}

Cascade(c, g, round2) ==
  IF OpOf(c, g) \notin {"OR", "XOR"} THEN {}
  ELSE    transform_rek(c, g, F0(c, g), F1(c, g), OpOf(c, g), round2)
       || transform_rek(c, g, F1(c, g), F0(c, g), OpOf(c, g), round2)

Simple(c, g) ==
  propagate_zero(c, g) || propagate_one(c, g) || transform_XOR5(c, g) || transform3(c, g)
ToFanin(c, g) ==
  transform4(c, g) || transform5(c, g) || transform12_1(c, g) || transform12_2(c, g)
Hashing(c, g) == structural_hashing_NOT(c, g) || structural_hashing_BINOP(c, g)
ToOr(c, g) ==
  transform8_2(c, g) || can_be_less_easily_replaced_by_or(c, g) || simplify13(c, g)
    || transform_inv9_2(c, g) || transform11_1(c, g)
ToXor(c, g) ==
  transform_XOR1(c, g) || can_be_less_easily_replaced_by_xor(c, g)
    || can_be_less_easily_replaced_by_xor2(c, g) || transform_XOR2N(c, g)
ToAnd(c, g) ==
  transform8_1(c, g) || transform11_2(c, g) || transform_inv9_1(c, g)
    || transform_XOR3(c, g) || transform_XOR_Absorption(c, g)
    || transform_XOR_Absorption2(c, g)
ToNot(c, g, round2) ==
  transform9_1(c, g) || simplify15(c, g) || simplify17(c, g) || transform9_2(c, g, round2)

\* The circuits that one if-statement may lead to.
Outcomes(group, c, g, round2) ==
  CASE group = "simple"  -> Replaced(Simple(c, g), g)
    [] group = "cascade" -> Cascade(c, g, round2)
    [] group = "fanin"   -> Replaced(ToFanin(c, g), g)
    [] group = "hashing" -> Replaced(Hashing(c, g), g)
    [] group = "or"      -> Replaced(Built(ToOr(c, g), "OR"), g)
    [] group = "xor"     -> Replaced(Built(ToXor(c, g), "XOR"), g)
    [] group = "and"     -> Replaced(Built(ToAnd(c, g), "AND"), g)
    [] group = "xors"    -> simplify11(c, g)
    [] group = "not"     -> Replaced(Negated(ToNot(c, g, round2)), g)

\* One if-statement: the circuits it leads to and whether it changed any.
Attempt(results, group, g, round2) ==
  UNION {LET found == Outcomes(group, r.c, g, round2)
         IN  IF found = {} THEN {r} ELSE {[c |-> d, changed |-> TRUE] : d \in found} :
           r \in results}

GroupOrder == <<"simple", "cascade", "fanin", "hashing", "or", "xor", "and", "xors", "not">>
Tried(c, g, round2) ==
  LET T[i \in 0..Len(GroupOrder)] ==
        IF i = 0 THEN {[c |-> c, changed |-> FALSE]}
        ELSE Attempt(T[i - 1], GroupOrder[i], g, round2)
  IN  T

use_theorems(c, g, round2) == Tried(c, g, round2)[Len(GroupOrder)]
=============================================================================
