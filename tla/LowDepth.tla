------------------------------ MODULE LowDepth ------------------------------
(***************************************************************************)
(* The depth-optimized building blocks of cbmc-gc                          *)
(* (building_blocks/boolean_depth_optimized.cpp): prefix networks,         *)
(* carry-save addition, the sum of products, the shifter and the           *)
(* multiplexer.  The multiplexer depends on how a literal is represented:  *)
(* its index is a sequence of literals, each with the sign bit of literalt *)
(* and the value it has for the inputs at hand.                            *)
(***************************************************************************)
EXTENDS BuildingBlocks, FiniteSetsExt, SequencesExt

\* Fault: one stage too few when the size is a power of two.
Stages_short(size) == {j \in 1 .. size : 2^j < size}

\* The stages that sklansky_PPA() runs over size bits, and the nodes that it
\* visits in stage j: every second block of 2^(j - 1) of them.
Stages(size)      == {j \in 1 .. size : 2^j <= size}
Visited(j, size)  ==
  LET offset == 2^(j - 1)
  IN  {i \in offset .. size + offset - 1 :
         (i \div offset) % 2 = 1 /\ (i \div offset) * offset < size}

\* func1: what node i becomes when it is combined with the node before its block.
Combine(kind, g, p, before) ==
  CASE kind = "carry" -> Xor(g, p /\ before)
    [] kind = "land"  -> g /\ before
    [] kind = "lor"   -> g \/ before

\* The nodes after all stages, with the propagate bits of the blocks that do
\* not reach the first node yet.
SklanskyPPA(kind, size, generate, propagate) ==
  LET N[j \in 0 .. Cardinality(Stages(size))] ==
        IF j = 0 THEN [g |-> generate, p |-> propagate]
        ELSE LET prev   == N[j - 1]
                 offset == 2^(j - 1)
                 Seen(i)   == i \in Visited(j, size)
                 Before(i) == (i \div offset) * offset - 1
             IN  [g |-> [i \in DOMAIN generate |->
                           IF Seen(i) THEN Combine(kind, prev.g[i], prev.p[i], prev.g[Before(i)])
                           ELSE prev.g[i]],
                  p |-> [i \in DOMAIN propagate |->
                           IF Seen(i) /\ i >= 2 * offset THEN prev.p[i] /\ prev.p[Before(i)]
                           ELSE prev.p[i]]]
  IN  N[Cardinality(Stages(size))].g

\* The bits that func2 writes: those of the first block of some stage.
Written(size) == UNION {2^(j - 1) .. 2^j - 1 : j \in Stages(size)}

BasicAdderLowdepth(a, b, carryIn) ==
  LET w        == Width(a)
      generate == [i \in 0 .. w |-> IF i = 0 THEN carryIn ELSE a[i - 1] /\ b[i - 1]]
      propI    == [i \in 0 .. w |-> i # 0 /\ Xor(a[i - 1], b[i - 1])]
      G        == SklanskyPPA("carry", w, generate, propI)
  IN  [sum   |-> [i \in DOMAIN a |-> IF i = 0 \/ i \in Written(w)
                                     THEN Xor(propI[i + 1], G[i]) ELSE a[i]],
       carry |-> Combine("carry", G[w], propI[w], G[w - 1])]

AdderLowdepth(a, b)      == BasicAdderLowdepth(a, b, FALSE)
SubtractorLowdepth(a, b) == BasicAdderLowdepth(a, Inverter(b), TRUE)

NegatorLowdepth(a) ==
  LET bits == Inverter(a)
      G    == SklanskyPPA("land", Width(a), bits, bits)
  IN  [i \in DOMAIN a |-> IF i = 0 THEN ~ bits[0]
                          ELSE IF i \in Written(Width(a)) THEN Xor(G[i - 1], bits[i])
                          ELSE bits[i]]

CondNegateLowdepth(v, c) == [i \in DOMAIN v |-> IF c THEN NegatorLowdepth(v)[i] ELSE v[i]]

SignedDividerLowdepth(a, b) ==
  LET r == UnsignedDivider(CondNegateLowdepth(a, Top(a)), CondNegateLowdepth(b, Top(b)))
  IN  [quotient |-> CondNegateLowdepth(r.quotient, Xor(Top(a), Top(b))),
       rem      |-> CondNegateLowdepth(r.rem, Top(a))]

EqualLowdepth(a, b) ==
  LET differ == [i \in DOMAIN a |-> Xor(a[i], b[i])]
  IN  ~ SklanskyPPA("lor", Width(a), differ, b)[Width(a) - 1]

LessThanLowdepth(a, b, signed) == BasicLessThan(SubtractorLowdepth(a, b).carry, a, b, signed)

----------------------------------------------------------------------------
(* Carry-save addition: columns[i] holds the bits of significance i.       *)

\* Compressors (3,2) and, for the last step, (2,2), on the column c until it
\* is no higher than height; the carries go to the column on its left.
RECURSIVE Compress(_, _, _)
Compress(column, carries, height) ==
  IF Len(column) <= height THEN [column |-> column, carries |-> carries]
  ELSE IF Len(column) = height + 1
    THEN Compress(SubSeq(column, 3, Len(column)) \o <<Xor(column[1], column[2])>>,
                  Append(carries, column[1] /\ column[2]), height)
    ELSE LET f == FullAdder(column[1], column[2], column[3])
         IN  Compress(SubSeq(column, 4, Len(column)) \o <<f.sum>>,
                      Append(carries, f.carry), height)

\* compress_csa_summands(): the columns from right to left.
CompressColumns(columns, w, height) ==
  LET C[i \in 0 .. w] ==
        IF i = 0 THEN columns
        ELSE LET before == C[i - 1]
                 done   == Compress(before[i - 1], <<>>, height)
             IN  [before EXCEPT ![i - 1] = done.column,
                                ![i]     = @ \o done.carries]
  IN  C[w]

\* Dadda's heights 2, 3, 4, 6, 9, ...; NextHeight is the largest below height.
RECURSIVE NextHeight(_, _)
NextHeight(d, height) ==
  IF (3 * d) \div 2 >= height THEN d ELSE NextHeight((3 * d) \div 2, height)

RECURSIVE CarrySaveAdd(_, _, _)
CarrySaveAdd(columns, w, height) ==
  IF height >= 3
  THEN LET h == NextHeight(2, height) IN CarrySaveAdd(CompressColumns(columns, w, h), w, h)
  ELSE AdderLowdepth([i \in 0 .. w - 1 |-> Len(columns[i]) > 0 /\ columns[i][1]],
                     [i \in 0 .. w - 1 |-> Len(columns[i]) = 2 /\ columns[i][2]]).sum

\* The partial products of significance i.
PartialProducts(a, b, i) ==
  LET w    == Width(a)
      rows == SetToSortSeq({r \in DOMAIN a : i - r \in DOMAIN b}, LAMBDA x, y : x < y)
  IN  [k \in DOMAIN rows |-> a[rows[k]] /\ b[i - rows[k]]]

MultiplierLowdepth(a, b) ==
  LET w == Width(a)
  IN  CarrySaveAdd([i \in 0 .. w |-> IF i < w THEN PartialProducts(a, b, i) ELSE <<>>], w, w)

\* build_tree() over multiplications; the products of at most three factors
\* that the runs use have the tree's shape.
ProductTree(factors) == FoldLeft(MultiplierLowdepth, factors[1], SubSeq(factors, 2, Len(factors)))

ConstBv(w, n) == [i \in 0 .. w - 1 |-> (n \div 2^i) % 2 = 1]

\* A sum of vectors and of products, each added or subtracted.  Subtracting a
\* vector adds its inverse, and the number of such vectors as a constant;
\* subtracting a product inverts the last factor and adds the other factors'
\* product as the correction.
MultiplierAdderLowdepth(w, summands, mults) ==
  LET Product(m)   == ProductTree(SubSeq(m.factors, 1, Len(m.factors) - 1))
      LastFactor(m) == IF m.subtract THEN Inverter(m.factors[Len(m.factors)])
                       ELSE m.factors[Len(m.factors)]
      corrections == [k \in DOMAIN SelectSeq(mults, LAMBDA m : m.subtract) |->
                        [subtract |-> FALSE,
                         bits     |-> Product(SelectSeq(mults, LAMBDA m : m.subtract)[k])]]
      negative    == Len(SelectSeq(summands, LAMBDA s : s.subtract))
      constant    == IF negative = 0 THEN <<>>
                     ELSE <<[subtract |-> FALSE, bits |-> ConstBv(w, negative)]>>
      all         == summands \o corrections \o constant
      Products(i) == FlattenSeq([k \in DOMAIN mults |->
                        PartialProducts(Product(mults[k]), LastFactor(mults[k]), i)])
      Bits(i)     == [k \in DOMAIN all |-> Xor(all[k].bits[i], all[k].subtract)]
      columns     == [i \in 0 .. w |-> IF i < w THEN Products(i) \o Bits(i) ELSE Products(i)]
  IN  IF Len(summands) = 2 /\ mults = <<>> /\ negative = 1
      THEN LET minuend    == CHOOSE s \in ToSet(summands) : ~ s.subtract
               subtrahend == CHOOSE s \in ToSet(summands) : s.subtract
           IN  SubtractorLowdepth(minuend.bits, subtrahend.bits).sum
      ELSE CarrySaveAdd(columns, w, Len(columns[w - 1]))

----------------------------------------------------------------------------
(* Shifting and selecting with an AND-OR network over all distances.       *)

\* Whether the literal of bit i of the distance is inverted in the term for
\* digit k: a counter that flips the flag whenever it has run down.
Inverted(i, k) ==
  LET C[n \in 0 .. k + 1] ==
        IF n = 0 THEN [left |-> 2^i, inverted |-> TRUE]
        ELSE LET c == C[n - 1]
             IN  IF c.left = 0 THEN [left |-> 2^i - 1, inverted |-> ~ c.inverted]
                 ELSE [c EXCEPT !.left = @ - 1]
  IN  C[k + 1].inverted

ConvertIndexMux(dist, digits) ==
  LET size == CHOOSE s \in 1 .. Len(digits) + 1 :
                /\ 2^s > Len(digits)
                /\ \A t \in 1 .. s - 1 : 2^t <= Len(digits)
      on == {k \in DOMAIN digits :
               digits[k] /\ \A i \in 0 .. size - 1 : Xor(dist[i], Inverted(i, k - 1))}
  IN  Cardinality(on) % 2 = 1

ShifterLowdepth(v, kind, dist) ==
  LET w       == Width(v)
      sDist   == [i \in DOMAIN v |-> 2^i < w /\ dist[i]]
      Digits(i) ==
        CASE kind = "LEFT"   -> [k \in 1 .. w |-> k - 1 <= i /\ v[i - (k - 1)]]
          [] kind = "ARIGHT" -> [k \in 1 .. w |-> IF i + k - 1 < w THEN v[i + k - 1] ELSE Top(v)]
          [] kind = "LRIGHT" -> [k \in 1 .. w |-> i + k - 1 < w /\ v[i + k - 1]]
  IN  [i \in DOMAIN v |-> ConvertIndexMux(sDist, Digits(i))]

Negated(l) == [sign |-> ~ l.sign, value |-> ~ l.value]

\* Flip literals from the lowest one up to the first that has no sign then.
NextPermutation(selector) ==
  LET stops == {i \in DOMAIN selector : selector[i].sign}
      end   == IF stops = {} THEN Width(selector) - 1 ELSE Min(stops)
  IN  [i \in DOMAIN selector |-> IF i <= end THEN Negated(selector[i]) ELSE selector[i]]

Log2Ceil(n) == CHOOSE r \in 1 .. n : 2^r >= n /\ \A t \in 1 .. r - 1 : 2^t < n

\* The terms of the inputs, the first with every literal of the index negated.
SelectorTerm(selector, n) ==
  LET S[k \in 1 .. n] == IF k = 1 THEN [i \in DOMAIN selector |-> Negated(selector[i])]
                         ELSE NextPermutation(S[k - 1])
  IN  [k \in 1 .. n |-> \A i \in 0 .. Log2Ceil(n) - 1 : S[k][i].value]

\* The XOR of all inputs, each switched on by its term.
MultiplexerLowdepth(selector, inputs) ==
  LET on == {k \in DOMAIN inputs : inputs[k] /\ SelectorTerm(selector, Len(inputs))[k]}
  IN  Cardinality(on) % 2 = 1
=============================================================================
