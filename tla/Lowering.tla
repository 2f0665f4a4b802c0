------------------------------ MODULE Lowering ------------------------------
(***************************************************************************)
(* The lowering of C expressions over bit vectors to gates: the [CBMC-GC]  *)
(* parts of cbmc-gc/boolean_expr_lowering.cpp with the two sets of blocks  *)
(* of building_blocks.h.  An expression is a record with its operands'     *)
(* bits, the way one evaluation of the circuit sees them; one action per   *)
(* convert function computes the bits that the built gates output.         *)
(***************************************************************************)
EXTENDS LowDepth

CONSTANTS
  Exprs,   \* the expressions to convert
  NONE     \* no result yet

VARIABLES
  blocks,         \* the building blocks: "size", or "depth" with --low-depth-bb
  optimization,   \* of sums: "size", or "depth" with --low-depth-expr
  expr,           \* the expression
  result          \* the bits that its circuit outputs
vars == <<blocks, optimization, expr, result>>

\* building_blockst as get_default_building_blocks() and
\* get_lowdepth_building_blocks() fill it in.
ConvNegator(v)     == IF blocks = "size" THEN Negator(v) ELSE NegatorLowdepth(v)
ConvAdder(a, b)    == IF blocks = "size" THEN Adder(a, b) ELSE AdderLowdepth(a, b)
ConvSubtractor(a, b) ==
  IF blocks = "size" THEN Subtractor(a, b) ELSE SubtractorLowdepth(a, b)
ConvMultiplier(a, b) ==
  IF blocks = "size" THEN Multiplier(a, b) ELSE MultiplierLowdepth(a, b)
ConvDivider(a, b, signed) ==
  CASE ~ signed                     -> UnsignedDivider(a, b)
    [] signed /\ blocks = "size"    -> SignedDivider(a, b)
    [] signed /\ blocks = "depth"   -> SignedDividerLowdepth(a, b)
ConvShifter(v, kind, dist) ==
  IF blocks = "size" THEN Shifter(v, kind, dist) ELSE ShifterLowdepth(v, kind, dist)
ConvLessThan(a, b, signed) ==
  IF blocks = "size" THEN LessThan(a, b, signed) ELSE LessThanLowdepth(a, b, signed)
ConvMultiplexer(selector, inputs) ==
  IF blocks = "size"
  THEN Multiplexer([i \in DOMAIN selector |-> selector[i].value], inputs)
  ELSE MultiplexerLowdepth(selector, inputs)

AdderSubtractor(a, b, subtract) ==
  IF subtract THEN ConvSubtractor(a, b).sum ELSE ConvAdder(a, b).sum

Comparer(id, a, b, signed) ==
  CASE id = "=="  -> EqualLowdepth(a, b)
    [] id = "!="  -> ~ EqualLowdepth(a, b)
    [] id = "<="  -> ~ ConvLessThan(b, a, signed)
    [] id = "<"   -> ConvLessThan(a, b, signed)
    [] id = ">="  -> ~ ConvLessThan(a, b, signed)
    [] id = ">"   -> ConvLessThan(b, a, signed)

\* convert_mult(): a tree, here of at most three factors.
MultTree(factors) == FoldLeft(ConvMultiplier, factors[1], SubSeq(factors, 2, Len(factors)))

----------------------------------------------------------------------------
Init ==
  /\ blocks \in {"size", "depth"}
  /\ optimization \in {"size", "depth"}
  /\ expr \in Exprs
  /\ result = NONE

Convert(kind) == expr.kind = kind /\ result = NONE /\ UNCHANGED <<blocks, optimization, expr>>

\* A sum has terms, each perhaps under a unary minus, each a product of
\* factors.  A difference is a sum whose second term has the unary minus when
\* the simplifier has seen it, and an expression of its own otherwise.
Negate(term) ==
  IF term.subtract THEN ConvNegator(MultTree(term.factors)) ELSE MultTree(term.factors)

AddTerm(bits, term) ==
  AdderSubtractor(bits, MultTree(term.factors), expr.minus \/ term.subtract)

ConvertAddSub ==
  /\ Convert("sum")
  /\ optimization = "size"
  /\ result' = FoldLeft(AddTerm, Negate(expr.terms[1]), SubSeq(expr.terms, 2, Len(expr.terms)))

IsMult(term)    == Len(term.factors) > 1
IsSummand(term) == Len(term.factors) = 1

ConvertAddSubLowdepth ==
  /\ Convert("sum")
  /\ optimization = "depth"
  /\ ~ expr.minus
  /\ LET summands == SelectSeq(expr.terms, IsSummand)
     IN  result' = MultiplierAdderLowdepth(
                     Width(expr.terms[1].factors[1]),
                     [k \in DOMAIN summands |-> [subtract |-> summands[k].subtract,
                                                 bits     |-> summands[k].factors[1]]],
                     SelectSeq(expr.terms, IsMult))

ConvertUnaryMinus == Convert("neg") /\ result' = ConvNegator(expr.op0)

ConvertMult == Convert("mult") /\ result' = MultTree(expr.factors)

ConvertDiv == Convert("div") /\ result' = ConvDivider(expr.op0, expr.op1, expr.signed).quotient

ConvertMod == Convert("mod") /\ result' = ConvDivider(expr.op0, expr.op1, expr.signed).rem

ConvertShift == Convert("shift") /\ result' = ConvShifter(expr.op0, expr.id, expr.op1)

ConvertBvRel ==
  Convert("rel") /\ result' = <<Comparer(expr.id, expr.op0, expr.op1, expr.signed)>>

ConvertIndex == Convert("index") /\ result' = <<ConvMultiplexer(expr.selector, expr.array)>>

Next == \/ ConvertAddSub \/ ConvertAddSubLowdepth \/ ConvertUnaryMinus \/ ConvertMult
        \/ ConvertDiv \/ ConvertMod \/ ConvertShift \/ ConvertBvRel \/ ConvertIndex

Spec == Init /\ [][Next]_vars

----------------------------------------------------------------------------
(* The references: arithmetic on the numbers that the bits stand for.      *)

Unsigned(v) == FoldSet(LAMBDA i, n : n + IF v[i] THEN 2^i ELSE 0, 0, DOMAIN v)
Signed(v)   == IF Top(v) THEN Unsigned(v) - 2^Width(v) ELSE Unsigned(v)
Bits(n, w)  == [i \in 0 .. w - 1 |-> (n \div 2^i) % 2 = 1]

ProductOf(factors) == FoldLeft(LAMBDA n, v : n * Unsigned(v), 1, factors)
SumOf(terms)       == FoldLeft(LAMBDA n, t : IF t.subtract THEN n - ProductOf(t.factors)
                                             ELSE n + ProductOf(t.factors), 0, terms)
\* A minus expression subtracts its second term, whatever sign that has.
Value(e) == IF e.minus THEN SumOf(<<e.terms[1]>>) - SumOf(Tail(e.terms)) ELSE SumOf(e.terms)

Abs(n) == IF n < 0 THEN -n ELSE n
\* Division in C rounds towards zero.
Quotient(n, d) == IF (n < 0) = (d < 0) THEN Abs(n) \div Abs(d) ELSE -(Abs(n) \div Abs(d))
Number(v, signed) == IF signed THEN Signed(v) ELSE Unsigned(v)

Related(id, m, n) ==
  CASE id = "==" -> m = n [] id = "!=" -> m # n [] id = "<=" -> m <= n
    [] id = "<" -> m < n  [] id = ">=" -> m >= n [] id = ">" -> m > n

Done(kinds) == result # NONE /\ expr.kind \in kinds

\* Every result is a vector of the width that its expression has.
TypeOK ==
  /\ blocks \in {"size", "depth"} /\ optimization \in {"size", "depth"}
  /\ Done({"sum"}) => result \in [DOMAIN expr.terms[1].factors[1] -> BOOLEAN]
  /\ Done({"mult"}) => result \in [DOMAIN expr.factors[1] -> BOOLEAN]
  /\ Done({"neg", "div", "mod", "shift"}) => result \in [DOMAIN expr.op0 -> BOOLEAN]
  /\ Done({"rel", "index"}) => result \in [1 .. 1 -> BOOLEAN]

\* Sums, differences, negation and products are right modulo 2^w, with either
\* set of blocks and either optimization: convert_add_sub(), its low-depth
\* variant with the carry-save adder, convert_unary_minus() and convert_mult().
SumsAreRight ==
  /\ Done({"sum"}) =>
       result = Bits(Value(expr) % 2^Width(result), Width(result))
  /\ Done({"neg"}) => result = Bits((-Unsigned(expr.op0)) % 2^Width(result), Width(result))
  /\ Done({"mult"}) => result = Bits(ProductOf(expr.factors) % 2^Width(result), Width(result))

\* Quotient and remainder are those of C, for both signs of each operand:
\* convert_div() and convert_mod().
DivisionIsRight ==
  Done({"div", "mod"}) =>
    LET m == Number(expr.op0, expr.signed)
        d == Number(expr.op1, expr.signed)
        w == Width(result)
        q == Quotient(m, d)
    IN  result = Bits((IF expr.kind = "div" THEN q ELSE m - q * d) % 2^w, w)

\* A shift by a distance that is less than the width moves every bit by that
\* distance and fills with zeros, or with the sign: convert_shift().
ShiftsAreRight ==
  Done({"shift"}) =>
    LET d == Unsigned(expr.op1)
        w == Width(result)
    IN  result = CASE expr.id = "LEFT"   -> Bits((Unsigned(expr.op0) * 2^d) % 2^w, w)
                   [] expr.id = "LRIGHT" -> Bits(Unsigned(expr.op0) \div 2^d, w)
                   [] expr.id = "ARIGHT" -> Bits((Signed(expr.op0) \div 2^d) % 2^w, w)

\* The six relations agree with the order of the numbers: convert_bv_rel().
ComparisonsAreRight ==
  Done({"rel"}) =>
    result[1] = Related(expr.id, Number(expr.op0, expr.signed), Number(expr.op1, expr.signed))

\* An index below the length of the array selects its element, whether or not
\* the length is a power of two: convert_index() with the tree and with the
\* AND-OR network.
ElementIsRight ==
  Done({"index"}) =>
    result[1] = expr.array[1 + Unsigned([i \in DOMAIN expr.selector |-> expr.selector[i].value])]
=============================================================================
