--------------------------- MODULE BuildingBlocks ---------------------------
(***************************************************************************)
(* The size-optimized building blocks of cbmc-gc                           *)
(* (building_blocks/common.cpp and boolean_size_optimized.cpp): the adder, *)
(* the subtractor, the multiplier, the restoring divider, the barrel       *)
(* shifter, the multiplexer tree and the comparer, each as the function    *)
(* that the gates it builds compute.  A bit vector of width w is a         *)
(* function on 0 .. w - 1, bit 0 the least significant one.  Which         *)
(* literals are constant changes the gates and not the function, so the    *)
(* cases of the code that skip a constant are not repeated here.           *)
(***************************************************************************)
EXTENDS Integers, Sequences, FiniteSets

Width(v)    == Cardinality(DOMAIN v)
Lower(v, n) == [i \in 0 .. n - 1 |-> v[i]]
Zeros(w)    == [i \in 0 .. w - 1 |-> FALSE]
Xor(x, y)   == x # y

Inverter(v)         == [i \in DOMAIN v |-> ~ v[i]]
SelectBv(c, v1, v2) == IF c THEN v1 ELSE v2

FullAdder(x, y, c) ==
  [sum   |-> Xor(x, Xor(y, c)),
   carry |-> Xor(Xor(x, c) /\ Xor(y, c), c)]

\* A ripple-carry adder: the carry out of one bit is the carry into the next.
BasicAdder(a, b, carryIn) ==
  LET C[i \in 0 .. Width(a)] ==
        IF i = 0 THEN carryIn ELSE FullAdder(a[i - 1], b[i - 1], C[i - 1]).carry
  IN  [sum   |-> [i \in DOMAIN a |-> FullAdder(a[i], b[i], C[i]).sum],
       carry |-> C[Width(a)]]

Adder(a, b)      == BasicAdder(a, b, FALSE)
Subtractor(a, b) == BasicAdder(a, Inverter(b), TRUE)

\* The CBMC incrementer applied to the inverted bits: a carry that starts at 1.
Negator(a) ==
  LET C[i \in 0 .. Width(a)] == IF i = 0 THEN TRUE ELSE C[i - 1] /\ ~ a[i - 1]
  IN  [i \in DOMAIN a |-> Xor(~ a[i], C[i])]

CondNegate(v, c) == [i \in DOMAIN v |-> IF c THEN Negator(v)[i] ELSE v[i]]

\* One row per bit of a: b shifted by that bit's place, or zero.
Multiplier(a, b) ==
  LET Row(s) == [i \in DOMAIN a |-> i >= s /\ b[i - s] /\ a[s]]
      P[s \in 0 .. Width(a)] ==
        IF s = 0 THEN Zeros(Width(a)) ELSE Adder(P[s - 1], Row(s - 1)).sum
  IN  P[Width(a)]

\* Restoring division.  Round n subtracts the n low bits of the divisor from
\* the n low bits of the partial remainder; the bits of the divisor above
\* them only decide whether the subtraction counts.
DividerRound(b, i, bit, rem) ==
  LET w     == Width(b)
      n     == w - i
      moved == [j \in DOMAIN b |-> IF j = 0 THEN bit ELSE rem[j - 1]]
      diff  == BasicAdder(Lower(moved, n), Inverter(Lower(b, n)), TRUE)
      above == \E j \in n .. w - 1 : b[j]
      fits  == diff.carry /\ ~ above
  IN  [fits |-> fits,
       rem  |-> [j \in DOMAIN b |-> IF j < n /\ fits THEN diff.sum[j] ELSE moved[j]]]

UnsignedDivider(a, b) ==
  LET w == Width(a)
      R[n \in 0 .. w] ==
        IF n = 0 THEN [fits |-> FALSE, rem |-> Zeros(w)]
        ELSE LET before == R[n - 1] IN DividerRound(b, w - n, a[w - n], before.rem)
  IN  [quotient |-> [i \in DOMAIN a |-> R[w - i].fits], rem |-> R[w].rem]

Top(v) == v[Width(v) - 1]

\* The magnitudes are divided, and the signs put back.
SignedDivider(a, b) ==
  LET r == UnsignedDivider(CondNegate(a, Top(a)), CondNegate(b, Top(b)))
  IN  [quotient |-> CondNegate(r.quotient, Xor(Top(a), Top(b))),
       rem      |-> CondNegate(r.rem, Top(a))]

\* What bit i of v becomes when v is shifted by d < Width(v).
Shifted(v, kind, d, i) ==
  CASE kind = "LEFT"   -> i >= d /\ v[i - d]
    [] kind = "ARIGHT" -> IF i + d < Width(v) THEN v[i + d] ELSE Top(v)
    [] kind = "LRIGHT" -> i + d < Width(v) /\ v[i + d]

\* A stage for each bit of the distance that counts less than the width.
Shifter(v, kind, dist) ==
  LET Stages == {s \in DOMAIN dist : \A t \in 0 .. s : 2^t < Width(v)}
      S[n \in 0 .. Cardinality(Stages)] ==
        IF n = 0 THEN v
        ELSE LET before == S[n - 1]
             IN  [i \in DOMAIN v |-> IF dist[n - 1]
                                     THEN Shifted(before, kind, 2^(n - 1), i)
                                     ELSE before[i]]
  IN  S[Cardinality(Stages)]

\* combine_pairs() keeps the last element of an odd range as it is.
Pairs(n) == (n + 1) \div 2

\* A tree of two-to-one multiplexers; a level reads one bit of the selector.
Multiplexer(selector, inputs) ==
  LET n == Len(inputs)
      L[k \in 0 .. n] ==
        IF k = 0 THEN inputs
        ELSE LET row == L[k - 1]
             IN  [i \in 1 .. Pairs(Len(row)) |->
                    IF 2 * i > Len(row) THEN row[2 * i - 1]
                    ELSE IF selector[k - 1] THEN row[2 * i] ELSE row[2 * i - 1]]
      depth == CHOOSE k \in 0 .. n : 2^k >= n /\ \A j \in 0 .. k - 1 : 2^j < n
  IN  L[depth][1]

\* basic_less_than() on the carry of a subtractor.
BasicLessThan(carry, a, b, signed) ==
  IF signed THEN Xor(Top(a) = Top(b), carry) ELSE ~ carry

LessThan(a, b, signed) == BasicLessThan(Subtractor(a, b).carry, a, b, signed)
=============================================================================
