--------------------------- MODULE Rewrite_proofs ---------------------------
(***************************************************************************)
(* Rewriting as a whole: what use_theorems does to a circuit, and that no  *)
(* state of the specification has a dangling pin, a cycle, or another      *)
(* function than the circuit at the start.                                 *)
(***************************************************************************)
EXTENDS Rewrite, Rules_proofs

----------------------------------------------------------------------------
(* The search through cascades and trees.                                  *)

\* e has every gate that c has, every pin is connected, and at most j of the
\* free addresses are taken.
Kept(c, e, j) ==
  /\ e \in Circuit /\ WellFormed(e)
  /\ Gates(c) \subseteq Gates(e) /\ \A n \in Gates(c) : e.op[n] = c.op[n]
  /\ Spare(c) <= Spare(e) + j

\* Two steps that keep the gates keep them together, and their costs add up.
LEMMA KeptMore ==
  ASSUME NEW c, NEW d, NEW e, NEW i \in Nat, NEW j \in Nat, Kept(c, d, i), Kept(d, e, j)
  PROVE  Kept(c, e, i + j)
<1>1. Spare(c) <= Spare(d) + i /\ Spare(d) <= Spare(e) + j
  BY DEF Kept
<1>2. Spare(c) <= Spare(e) + (i + j)
  BY <1>1, SpareIsNat
<1> QED BY <1>2 DEF Kept

\* Replacing a gate in a grown circuit keeps every pin connected.
LEMMA ReplacedKept ==
  ASSUME NEW c \in Circuit, NEW d, NEW j \in Nat, Grown(c, d, j), NEW g, g # NULL, NEW n \in Present(d)
  PROVE  Kept(c, ReplaceBy(d, g, n), j)
<1>1. d \in Circuit /\ WellFormed(d) /\ Keeps(c, d) /\ n \in Node
  BY Nodes DEF Grown
<1> DEFINE e == ReplaceBy(d, g, n)
<1>2. e \in Circuit /\ WellFormed(e) /\ Gates(e) = Gates(d) /\ e.op = d.op
  BY <1>1, MergeFields, MergeGates, MergeKeepsWellFormed
<1>3. Spare(e) = Spare(d)
  BY <1>2 DEF Spare
<1> QED BY <1>1, <1>2, <1>3 DEF Kept, Keeps, Grown

\* A node with a binary operator is a gate with two fanins.
LEMMA OpIsGate ==
  ASSUME NEW c \in Circuit, WellFormed(c), NEW n \in Node, OpOf(c, n) \in BinOp
  PROVE  n \in Gates(c) /\ F0(c, n) \in Present(c) /\ F1(c, n) \in Present(c)
<1>1. n \in Gate
  <2>1. ASSUME n \notin Gate PROVE OpOf(c, n) \in {"NOT", "ONE", "INPUT"}
    BY <2>1 DEF OpOf
  <2> QED BY <2>1 DEF BinOp
<1>2. OpOf(c, n) = c.op[n] /\ "FREE" \notin BinOp
  BY <1>1 DEF OpOf, BinOp
<1>3. n \in Gates(c)
  BY <1>1, <1>2 DEF Gates
<1> QED BY <1>3, View, Nodes

\* A direct match replaces a gate by a node that is there.
LEMMA MatchKept ==
  ASSUME NEW c \in Circuit, WellFormed(c), NEW op \in {"OR", "XOR"}, NEW round2,
         NEW x \in Present(c), NEW a \in Present(c), NEW parent \in Gates(c),
         OpOf(c, parent) \in BinOp, NEW e \in rek_match(c, x, a, parent, op, round2)
  PROVE  Kept(c, e, 0)
<1>1. /\ x # NULL /\ a # NULL /\ parent # NULL /\ parent \in Present(c)
      /\ ONE_GATE \in Present(c) /\ Grown(c, c, 0)
  BY Nodes, GrownSelf
<1>2. ASSUME NEW d \in Circuit, WellFormed(d), Gates(d) = Gates(c), d.op = c.op
      PROVE  get_other_input(d, parent, x) \in Present(d)
  <2>1. parent \in Present(d) /\ OpOf(d, parent) \in BinOp
    BY <1>1, <1>2, View, Nodes
  <2> QED BY <1>2, <2>1, View DEF get_other_input
<1>3. ASSUME NEW s \in Sides(c, a), Is(c, a, "XOR")
      PROVE  /\ ReplaceBy(c, a, s[2]) \in Circuit /\ WellFormed(ReplaceBy(c, a, s[2]))
             /\ Gates(ReplaceBy(c, a, s[2])) = Gates(c) /\ ReplaceBy(c, a, s[2]).op = c.op
             /\ Present(ReplaceBy(c, a, s[2])) = Present(c) /\ Kept(c, ReplaceBy(c, a, s[2]), 0)
  <2>1. s[2] \in Present(c) /\ s[2] \in Node
    BY <1>3, SideOf, Nodes DEF Is, BinOp
  <2> QED BY <1>1, <2>1, MergeFields, MergeGates, MergeKeepsWellFormed, ReplacedKept
<1>4. ASSUME NEW d, d \in Circuit, WellFormed(d), Kept(c, d, 0), NEW h, h # NULL, NEW n \in Present(d)
      PROVE  Kept(c, ReplaceBy(d, h, n), 0)
  <2>1. Kept(d, ReplaceBy(d, h, n), 0)
    BY <1>4, GrownSelf, ReplacedKept
  <2>2. Kept(c, ReplaceBy(d, h, n), 0 + 0)
    BY <1>4, <2>1, KeptMore
  <2> QED BY <2>2
<1>5. CASE op = "XOR"
  <2>1. PICK s \in Sides(c, a) : /\ Is(c, a, "XOR")
          /\ \/ e = ReplaceBy(ReplaceBy(c, a, s[2]), parent,
                              get_other_input(ReplaceBy(c, a, s[2]), parent, x))
             \/ e = ReplaceBy(ReplaceBy(c, a, s[2]), x, ONE_GATE)
    BY <1>5 DEF rek_match, ||
  <2> DEFINE d == ReplaceBy(c, a, s[2])
  <2>2. d \in Circuit /\ WellFormed(d) /\ Gates(d) = Gates(c) /\ d.op = c.op
          /\ Present(d) = Present(c) /\ Kept(c, d, 0)
    BY <1>3, <2>1
  <2>3. e = ReplaceBy(d, parent, get_other_input(d, parent, x)) \/ e = ReplaceBy(d, x, ONE_GATE)
    BY <2>1
  <2> HIDE DEF d
  <2> QED BY <1>1, <1>2, <1>4, <2>2, <2>3
<1>6. CASE op = "OR"
  <2>1. \/ e = ReplaceBy(c, parent, get_other_input(c, parent, x))
        \/ e = ReplaceBy(c, parent, ONE_GATE)
    BY <1>6 DEF rek_match, ||, When
  <2> QED BY <1>1, <1>2, <2>1, ReplacedKept
<1> QED BY <1>5, <1>6

\* What the result r of a call is good for.
Calls == Node \X Node \X Node \X Nat
SoundResult(c, x, a, parent, k, r) ==
  /\ r.k \in Nat /\ r.k >= k
  /\ /\ x \in Present(c) /\ a \in Present(c)
     /\ parent \in Gates(c) /\ OpOf(c, parent) \in BinOp
     => \A e \in r.found : Kept(c, e, 0)

\* The results from the k-th step of the counter on are sound.
SoundFrom(c, R, j) ==
  \A x, a, parent \in Node, k \in Nat : k >= j => SoundResult(c, x, a, parent, k, R[<<x, a, parent, k>>])

\* A call is sound if the calls with a larger counter are, and depends on no
\* other.
LEMMA CallSound ==
  ASSUME NEW c \in Circuit, WellFormed(c), NEW op \in {"OR", "XOR"}, NEW round2,
         NEW x \in Node, NEW a \in Node, NEW parent \in Node, NEW k \in Nat,
         NEW R, SoundFrom(c, R, k + 1)
  PROVE  /\ SoundResult(c, x, a, parent, k, rek_call(c, op, round2, R, x, a, parent, k))
         /\ \A Q : (\A y, b, q \in Node, j \in Nat : j > k => Q[<<y, b, q, j>>] = R[<<y, b, q, j>>]) =>
              rek_call(c, op, round2, Q, x, a, parent, k) = rek_call(c, op, round2, R, x, a, parent, k)
<1> DEFINE here == rek_match(c, x, a, parent, op, round2)
           left == R[<<x, F0(c, a), parent, k + 1>>]
           right == R[<<x, F1(c, a), parent, left.k>>]
           lower == R[<<F0(c, x), a, x, right.k + 1>>]
           upper == R[<<F1(c, x), a, x, lower.k>>]
<1>1. op \in BinOp
  BY DEF BinOp
<1>2. ASSUME Is(c, a, op)
      PROVE  /\ F0(c, a) \in Present(c) /\ F1(c, a) \in Present(c)
             /\ F0(c, a) \in Node /\ F1(c, a) \in Node
             /\ SoundResult(c, x, F0(c, a), parent, k + 1, left)
             /\ SoundResult(c, x, F1(c, a), parent, left.k, right)
             /\ left.k \in Nat /\ left.k > k /\ right.k \in Nat /\ right.k > k
  <2>1. F0(c, a) \in Present(c) /\ F1(c, a) \in Present(c) /\ F0(c, a) \in Node /\ F1(c, a) \in Node
    BY <1>1, <1>2, OpIsGate, Nodes DEF Is
  <2>2. SoundResult(c, x, F0(c, a), parent, k + 1, left)
    BY <2>1 DEF SoundFrom
  <2>3. left.k \in Nat /\ left.k >= k + 1
    BY <2>2 DEF SoundResult
  <2> HIDE DEF left
  <2>4. SoundResult(c, x, F1(c, a), parent, left.k, right)
    BY <2>1, <2>3 DEF SoundFrom
  <2>5. right.k \in Nat /\ right.k >= left.k
    BY <2>4 DEF SoundResult
  <2> QED BY <2>1, <2>2, <2>3, <2>4, <2>5
<1>3. ASSUME Is(c, a, op), Is(c, x, op)
      PROVE  /\ F0(c, x) \in Present(c) /\ F1(c, x) \in Present(c)
             /\ F0(c, x) \in Node /\ F1(c, x) \in Node /\ x \in Gates(c)
             /\ SoundResult(c, F0(c, x), a, x, right.k + 1, lower)
             /\ SoundResult(c, F1(c, x), a, x, lower.k, upper)
             /\ lower.k \in Nat /\ lower.k > k /\ upper.k \in Nat /\ upper.k > k
  <2>1. /\ F0(c, x) \in Present(c) /\ F1(c, x) \in Present(c) /\ x \in Gates(c)
        /\ F0(c, x) \in Node /\ F1(c, x) \in Node
    BY <1>1, <1>3, OpIsGate, Nodes DEF Is
  <2>2. right.k \in Nat /\ right.k > k
    BY <1>2, <1>3
  <2> HIDE DEF right
  <2>3. SoundResult(c, F0(c, x), a, x, right.k + 1, lower)
    BY <2>1, <2>2 DEF SoundFrom
  <2>4. lower.k \in Nat /\ lower.k >= right.k + 1
    BY <2>3 DEF SoundResult
  <2> HIDE DEF lower
  <2>5. SoundResult(c, F1(c, x), a, x, lower.k, upper)
    BY <2>1, <2>2, <2>4 DEF SoundFrom
  <2>6. upper.k \in Nat /\ upper.k >= lower.k
    BY <2>5 DEF SoundResult
  <2> QED BY <2>1, <2>2, <2>3, <2>4, <2>5, <2>6
<1>4. SoundResult(c, x, a, parent, k, rek_call(c, op, round2, R, x, a, parent, k))
  <2> DEFINE r == rek_call(c, op, round2, R, x, a, parent, k)
  <2>1. \/ r = Found(k, {})
        \/ r = Found(k, here)
        \/ Is(c, a, op) /\ (r = left \/ r = right)
        \/ Is(c, a, op) /\ Is(c, x, op) /\ (r = lower \/ r = upper)
    BY DEF rek_call
  <2> SUFFICES SoundResult(c, x, a, parent, k, r)
    OBVIOUS
  <2> HIDE DEF r, here, left, right, lower, upper
  <2>2. CASE r = Found(k, {})
    BY <2>2 DEF Found, SoundResult
  <2>3. CASE r = Found(k, here)
    <3>1. r.k = k /\ r.found = here
      BY <2>3 DEF Found
    <3> QED BY <3>1, MatchKept DEF SoundResult, here
  <2>4. CASE Is(c, a, op) /\ r = left
    BY <1>2, <2>4 DEF SoundResult
  <2>5. CASE Is(c, a, op) /\ r = right
    BY <1>2, <2>5 DEF SoundResult
  <2>6. CASE Is(c, a, op) /\ Is(c, x, op) /\ r = lower
    BY <1>1, <1>3, <2>6 DEF SoundResult, Is
  <2>7. CASE Is(c, a, op) /\ Is(c, x, op) /\ r = upper
    BY <1>1, <1>3, <2>7 DEF SoundResult, Is
  <2> QED BY <2>1, <2>2, <2>3, <2>4, <2>5, <2>6, <2>7
<1>5. ASSUME NEW Q, \A y, b, q \in Node, j \in Nat : j > k => Q[<<y, b, q, j>>] = R[<<y, b, q, j>>]
      PROVE  rek_call(c, op, round2, Q, x, a, parent, k) = rek_call(c, op, round2, R, x, a, parent, k)
  <2>1. ASSUME Is(c, a, op)
        PROVE  /\ Q[<<x, F0(c, a), parent, k + 1>>] = left
               /\ Q[<<x, F1(c, a), parent, left.k>>] = right
    BY <1>2, <1>5, <2>1
  <2>2. ASSUME Is(c, a, op), Is(c, x, op)
        PROVE  /\ Q[<<F0(c, x), a, x, right.k + 1>>] = lower
               /\ Q[<<F1(c, x), a, x, lower.k>>] = upper
    <3>1. /\ F0(c, x) \in Node /\ F1(c, x) \in Node
          /\ right.k \in Nat /\ right.k > k /\ lower.k \in Nat /\ lower.k > k
      BY <1>2, <1>3, <2>2
    <3> HIDE DEF left, right
    <3>2. Q[<<F0(c, x), a, x, right.k + 1>>] = lower
      BY <1>5, <3>1
    <3> HIDE DEF lower
    <3>3. Q[<<F1(c, x), a, x, lower.k>>] = upper
      BY <1>5, <3>1
    <3> QED BY <3>2, <3>3
  <2>3. CASE ~ Is(c, a, op)
    BY <2>3 DEF rek_call
  <2>4. CASE Is(c, a, op) /\ ~ Is(c, x, op)
    BY <2>1, <2>4 DEF rek_call
  <2>5. CASE Is(c, a, op) /\ Is(c, x, op)
    BY <2>1, <2>2, <2>5 DEF rek_call
  <2> QED BY <2>3, <2>4, <2>5
<1> QED BY <1>4, <1>5
\* A function of the calls that satisfies the recursion from the j-th step of
\* the counter on.
Solves(c, op, round2, R, j) ==
  /\ R = [s \in Calls |-> R[s]]
  /\ \A x, a, parent \in Node, k \in Nat :
       k >= j => R[<<x, a, parent, k>>] = rek_call(c, op, round2, R, x, a, parent, k)

\* Beyond MAX_STEPS a call finds nothing.
LEMMA LastCall ==
  ASSUME NEW c, NEW op, NEW round2, NEW R, NEW x, NEW a, NEW parent, NEW k \in Nat, k >= 11
  PROVE  /\ rek_call(c, op, round2, R, x, a, parent, k) = Found(k, {})
         /\ SoundResult(c, x, a, parent, k, Found(k, {}))
<1>1. k > MAX_STEPS
  BY DEF MAX_STEPS
<1> QED BY <1>1 DEF rek_call, Found, SoundResult

\* The recursion has a solution: the counter only grows, so a solution from
\* one step on gives one from the step before.
LEMMA SearchExists ==
  ASSUME NEW c \in Circuit, WellFormed(c), NEW op \in {"OR", "XOR"}, NEW round2
  PROVE  \E R : Solves(c, op, round2, R, 0)
<1> DEFINE J == {j \in Nat : \E R : Solves(c, op, round2, R, j) /\ SoundFrom(c, R, j)}
<1>1. 11 \in J
  <2> DEFINE R == [s \in Calls |-> Found(s[4], {})]
  <2>1. \A x, a, parent \in Node, k \in Nat : R[<<x, a, parent, k>>] = Found(k, {})
    BY DEF Calls
  <2>2. R = [s \in Calls |-> R[s]]
    OBVIOUS
  <2> HIDE DEF R
  <2>3. Solves(c, op, round2, R, 11) /\ SoundFrom(c, R, 11)
    BY <2>1, <2>2, LastCall DEF Solves, SoundFrom
  <2> QED BY <2>3
<1>2. PICK m \in J : \A j \in J : m <= j
  <2> HIDE DEF J
  <2>1. J \in SUBSET Nat /\ J # {}
    BY <1>1 DEF J
  <2> QED BY <2>1, Least
<1>3. PICK R : Solves(c, op, round2, R, m) /\ SoundFrom(c, R, m)
  BY <1>2
<1>4. ASSUME m > 0 PROVE FALSE
  <2> DEFINE n == m - 1
             Call(s) == rek_call(c, op, round2, R, s[1], s[2], s[3], s[4])
             Q == [s \in Calls |-> IF s[4] = n THEN Call(s) ELSE R[s]]
  <2>1. n \in Nat /\ m = n + 1
    BY <1>2, <1>4
  <2>2. \A x, a, parent \in Node, k \in Nat : Q[<<x, a, parent, k>>] =
          IF k = n THEN rek_call(c, op, round2, R, x, a, parent, k) ELSE R[<<x, a, parent, k>>]
    BY DEF Calls
  <2>3. Q = [s \in Calls |-> Q[s]]
    OBVIOUS
  <2> HIDE DEF Q, n
  <2>4. ASSUME NEW x \in Node, NEW a \in Node, NEW parent \in Node, NEW k \in Nat, k >= n
        PROVE  /\ Q[<<x, a, parent, k>>] = rek_call(c, op, round2, Q, x, a, parent, k)
               /\ SoundResult(c, x, a, parent, k, Q[<<x, a, parent, k>>])
    <3>1. SoundFrom(c, R, k + 1)
      BY <1>3, <2>1, <2>4 DEF SoundFrom
    <3>2. \A y, b, q \in Node, j \in Nat : j > k => Q[<<y, b, q, j>>] = R[<<y, b, q, j>>]
      BY <2>1, <2>2, <2>4
    <3>3. rek_call(c, op, round2, Q, x, a, parent, k) = rek_call(c, op, round2, R, x, a, parent, k)
      BY <3>1, <3>2, CallSound
    <3>4. SoundResult(c, x, a, parent, k, rek_call(c, op, round2, R, x, a, parent, k))
      BY <3>1, CallSound
    <3>5. Q[<<x, a, parent, k>>] = rek_call(c, op, round2, R, x, a, parent, k)
      <4>1. CASE k = n
        BY <2>2, <4>1
      <4>2. CASE k # n
        <5>1. k >= m /\ Q[<<x, a, parent, k>>] = R[<<x, a, parent, k>>]
          BY <2>1, <2>2, <2>4, <4>2
        <5> QED BY <1>3, <5>1 DEF Solves
      <4> QED BY <4>1, <4>2
    <3> QED BY <3>3, <3>4, <3>5
  <2>5. Solves(c, op, round2, Q, n) /\ SoundFrom(c, Q, n)
    BY <2>3, <2>4 DEF Solves, SoundFrom
  <2>6. n \in J
    BY <2>1, <2>5
  <2> QED BY <1>2, <2>1, <2>6
<1>5. m = 0
  BY <1>2, <1>4
<1> QED BY <1>3, <1>5

\* The search is such a solution.
LEMMA SearchSolves ==
  ASSUME NEW c \in Circuit, WellFormed(c), NEW op \in {"OR", "XOR"}, NEW round2
  PROVE  Solves(c, op, round2, Search(c, op, round2), 0)
<1> DEFINE Equation(R) ==
             R = [s \in Calls |-> rek_call(c, op, round2, R, s[1], s[2], s[3], s[4])]
           S == Search(c, op, round2)
<1>1. \E R : Equation(R)
  <2>1. PICK R : Solves(c, op, round2, R, 0)
    BY SearchExists
  <2>2. \A s \in Calls : R[s] = rek_call(c, op, round2, R, s[1], s[2], s[3], s[4])
    <3>1. \A s \in Calls : /\ s = <<s[1], s[2], s[3], s[4]>>
                           /\ s[1] \in Node /\ s[2] \in Node /\ s[3] \in Node /\ s[4] \in Nat
      BY DEF Calls
    <3> QED BY <2>1, <3>1 DEF Solves
  <2>3. R = [s \in Calls |-> R[s]]
    BY <2>1 DEF Solves
  <2>4. Equation(R)
    BY <2>2, <2>3
  <2> QED BY <2>4
<1>2. S = CHOOSE R : Equation(R)
  BY DEF Search, Calls
<1>3. Equation(S)
  BY <1>1, <1>2
<1> HIDE DEF S
<1>4. \A x, a, parent \in Node, k \in Nat :
        S[<<x, a, parent, k>>] = rek_call(c, op, round2, S, x, a, parent, k)
  BY <1>3 DEF Calls
<1>5. S = [s \in Calls |-> S[s]]
  BY <1>3
<1>6. Solves(c, op, round2, S, 0)
  <2> HIDE DEF Equation
  <2> QED BY <1>4, <1>5 DEF Solves
<1> QED BY <1>6 DEF S

\* Whatever the search finds keeps every pin connected.
LEMMA SearchSound ==
  ASSUME NEW c \in Circuit, WellFormed(c), NEW op \in {"OR", "XOR"}, NEW round2
  PROVE  SoundFrom(c, Search(c, op, round2), 0)
<1>1. PICK S : S = Search(c, op, round2)
  OBVIOUS
<1>2. \A x, a, parent \in Node, k \in Nat :
        S[<<x, a, parent, k>>] = rek_call(c, op, round2, S, x, a, parent, k)
  <2>1. Solves(c, op, round2, S, 0)
    BY <1>1, SearchSolves
  <2>2. \A k \in Nat : k >= 0
    OBVIOUS
  <2> QED BY <2>1, <2>2 DEF Solves
<1> DEFINE J == {j \in Nat : SoundFrom(c, S, j)}
<1>3. 11 \in J
  BY <1>2, LastCall DEF SoundFrom
<1>4. PICK m \in J : \A j \in J : m <= j
  <2> HIDE DEF J
  <2>1. J \in SUBSET Nat /\ J # {}
    BY <1>3 DEF J
  <2> QED BY <2>1, Least
<1>5. ASSUME m > 0 PROVE FALSE
  <2>1. m - 1 \in Nat /\ m \in Nat /\ SoundFrom(c, S, m)
    BY <1>4, <1>5
  <2>2. ASSUME NEW x \in Node, NEW a \in Node, NEW parent \in Node, NEW k \in Nat, k >= m - 1
        PROVE  SoundResult(c, x, a, parent, k, S[<<x, a, parent, k>>])
    <3>1. SoundFrom(c, S, k + 1)
      BY <2>1, <2>2 DEF SoundFrom
    <3> QED BY <1>2, <3>1, CallSound
  <2>3. m - 1 \in J
    BY <2>1, <2>2 DEF SoundFrom
  <2> QED BY <1>4, <2>1, <2>3
<1>6. m = 0 /\ SoundFrom(c, S, m)
  BY <1>4, <1>5
<1> QED BY <1>1, <1>6

\* Whatever the search in a cascade or tree replaces, every pin stays
\* connected.
LEMMA CascadeKept ==
  ASSUME NEW c \in Circuit, WellFormed(c), NEW g \in Gates(c), NEW round2, NEW e \in Cascade(c, g, round2)
  PROVE  Kept(c, e, 0)
<1>1. PICK op : op = OpOf(c, g)
  OBVIOUS
<1>2. /\ op \in {"OR", "XOR"} /\ op \in BinOp
      /\ \/ e \in transform_rek(c, g, F0(c, g), F1(c, g), op, round2)
         \/ e \in transform_rek(c, g, F1(c, g), F0(c, g), op, round2)
  BY <1>1 DEF Cascade, ||, BinOp
<1>3. F0(c, g) \in Present(c) /\ F1(c, g) \in Present(c) /\ g \in Node
  BY <1>1, <1>2, View, Nodes
<1>4. ASSUME NEW x \in Present(c), NEW a \in Present(c), e \in transform_rek(c, g, x, a, op, round2)
      PROVE  Kept(c, e, 0)
  <2> DEFINE r == Search(c, op, round2)[<<x, a, g, 0>>]
  <2>1. x \in Node /\ a \in Node
    BY Nodes
  <2>2. SoundResult(c, x, a, g, 0, r)
    BY <1>2, <1>3, <2>1, SearchSound DEF SoundFrom
  <2>3. e \in r.found
    BY <1>4 DEF transform_rek
  <2> QED BY <1>1, <1>2, <2>2, <2>3 DEF SoundResult
<1> QED BY <1>2, <1>3, <1>4
----------------------------------------------------------------------------
(* use_theorems.                                                           *)

Groups == {"simple", "cascade", "fanin", "hashing", "or", "xor", "and", "xors", "not"}

\* How many gates an if-statement creates at most.
Cost(group) == IF group \in {"cascade", "fanin", "hashing"} THEN 0
               ELSE IF group \in {"simple", "xor", "xors"} THEN 1 ELSE 2

\* Every outcome comes from the cascades, or replaces one gate by a node that
\* has its value and does not depend on it; structural hashing only if it
\* compares two fanins.
LEMMA OutcomeReplaces ==
  ASSUME NEW c \in Circuit, WellFormed(c), NEW g \in Gates(c), NEW round2,
         NEW group \in Groups \ {"cascade"}, Spare(c) >= Cost(group),
         NEW e \in Outcomes(group, c, g, round2)
  PROVE  \E h \in Gates(c) : \E m :
           /\ Grown(c, m.c, Cost(group)) /\ m.n \in Present(m.c) /\ e = ReplaceBy(m.c, h, m.n)
           /\ group # "xors" => h = g
           /\ \/ Replaces(c, h, m, Cost(group)) /\ (Good(c) => Sinks(c, h, m))
              \/ group = "hashing" /\ m.c = c /\ OpOf(c, g) \in BinOp /\ F0(c, g) = F1(c, g)
<1> SUFFICES \E h \in Gates(c) : \E m :
           /\ e = ReplaceBy(m.c, h, m.n)
           /\ group # "xors" => h = g
           /\ \/ Replaces(c, h, m, Cost(group)) /\ (Good(c) => Sinks(c, h, m))
              \/ /\ group = "hashing" /\ m.c = c /\ m.n \in Present(c)
                 /\ OpOf(c, g) \in BinOp /\ F0(c, g) = F1(c, g)
  <2>1. group = "hashing" => Cost(group) = 0
    BY DEF Cost
  <2>2. Grown(c, c, 0)
    BY GrownSelf
  <2> QED BY <2>1, <2>2 DEF Replaces
<1>1. Spare(c) \in Nat /\ \A d : Spare(d) \in Nat
  BY SpareIsNat
<1>2. CASE group = "simple"
  <2>1. Cost(group) = 1
    BY <1>2 DEF Cost
  <2>2. PICK m \in Simple(c, g) : e = ReplaceBy(m.c, g, m.n)
    BY <1>2 DEF Outcomes, Replaced
  <2> QED BY <2>1, <2>2, SimpleRules, SimpleSinks
<1>3. CASE group = "fanin"
  <2>1. Cost(group) = 0
    BY <1>3 DEF Cost
  <2>2. PICK m \in ToFanin(c, g) : e = ReplaceBy(m.c, g, m.n)
    BY <1>3 DEF Outcomes, Replaced
  <2> QED BY <2>1, <2>2, FaninRules, DirectReplaces, FaninSinks
<1>4. CASE group = "hashing"
  <2>1. Cost(group) = 0
    BY <1>4 DEF Cost
  <2>2. PICK m \in Hashing(c, g) : e = ReplaceBy(m.c, g, m.n)
    BY <1>4 DEF Outcomes, Replaced
  <2>3. g \in Present(c) /\ OpOf(c, g) \in BinOp \cup {"NOT"}
    BY View, Nodes
  <2>4. m.c = c /\ m.n \in Present(c)
          /\ (F0(c, g) # F1(c, g) \/ OpOf(c, g) = "NOT" =>
                Replaces(c, g, m, 0) /\ (Good(c) => Sinks(c, g, m)))
    BY <2>2, HashingRules, DirectReplaces, HashingSinks
  <2> QED BY <1>4, <2>1, <2>2, <2>3, <2>4
<1>5. ASSUME NEW op \in BinOp, NEW p, NEW j \in {0, 1}, BuiltFrom(c, g, p, op, j), Cost(group) = j + 1,
             Good(c) => SinksBoth(c, g, p, op),
             NEW m, m = create_this_gate(p.c, p.l, p.r, op), e = ReplaceBy(m.c, g, m.n)
      PROVE  Replaces(c, g, m, Cost(group)) /\ (Good(c) => Sinks(c, g, m))
  <2>1. Spare(c) <= Spare(p.c) + j
    BY <1>5 DEF BuiltFrom, Grown
  <2>2. Spare(p.c) >= 1
    BY <1>1, <1>5, <2>1
  <2> QED BY <1>5, <2>2, BuiltReplaces, BuiltSinks
<1>6. "OR" \in BinOp /\ "XOR" \in BinOp /\ "AND" \in BinOp
  BY DEF BinOp
<1>7. CASE group = "or"
  <2>1. Cost(group) = 1 + 1 /\ Spare(c) >= 1
    BY <1>1, <1>7 DEF Cost
  <2>0. PICK p \in ToOr(c, g) : \E m :
          m = create_this_gate(p.c, p.l, p.r, "OR") /\ e = ReplaceBy(m.c, g, m.n)
    BY <1>7 DEF Outcomes, Replaced, Built
  <2>2. PICK m : m = create_this_gate(p.c, p.l, p.r, "OR") /\ e = ReplaceBy(m.c, g, m.n)
    BY <2>0
  <2>3. BuiltFrom(c, g, p, "OR", 1) /\ (Good(c) => SinksBoth(c, g, p, "OR"))
    BY <2>1, <2>2, OrRules, OrSinks
  <2> QED BY <1>5, <1>6, <2>1, <2>2, <2>3
<1>8. CASE group = "xor"
  <2>1. Cost(group) = 0 + 1
    BY <1>8 DEF Cost
  <2>0. PICK p \in ToXor(c, g) : \E m :
          m = create_this_gate(p.c, p.l, p.r, "XOR") /\ e = ReplaceBy(m.c, g, m.n)
    BY <1>8 DEF Outcomes, Replaced, Built
  <2>2. PICK m : m = create_this_gate(p.c, p.l, p.r, "XOR") /\ e = ReplaceBy(m.c, g, m.n)
    BY <2>0
  <2>3. BuiltFrom(c, g, p, "XOR", 0) /\ (Good(c) => SinksBoth(c, g, p, "XOR"))
    BY <2>2, XorRules, XorSinks
  <2> QED BY <1>5, <1>6, <2>1, <2>2, <2>3
<1>9. CASE group = "and"
  <2>1. Cost(group) = 1 + 1 /\ Spare(c) >= 1
    BY <1>1, <1>9 DEF Cost
  <2>0. PICK p \in ToAnd(c, g) : \E m :
          m = create_this_gate(p.c, p.l, p.r, "AND") /\ e = ReplaceBy(m.c, g, m.n)
    BY <1>9 DEF Outcomes, Replaced, Built
  <2>2. PICK m : m = create_this_gate(p.c, p.l, p.r, "AND") /\ e = ReplaceBy(m.c, g, m.n)
    BY <2>0
  <2>3. BuiltFrom(c, g, p, "AND", 1) /\ (Good(c) => SinksBoth(c, g, p, "AND"))
    BY <2>1, <2>2, AndRules, AndSinks
  <2> QED BY <1>5, <1>6, <2>1, <2>2, <2>3
<1>10. CASE group = "xors"
  <2>1. Cost(group) = 1
    BY <1>10 DEF Cost
  <2>2. e \in simplify11(c, g)
    BY <1>10 DEF Outcomes
  <2>3. Spare(c) >= 1
    BY <2>1
  <2>4. PICK h \in Gates(c) \ {g} : \E m :
          e = ReplaceBy(m.c, h, m.n) /\ Replaces(c, h, m, 1) /\ (Good(c) => Sinks(c, h, m))
    BY <2>2, <2>3, XorPairRule
  <2> QED BY <1>10, <2>1, <2>4
<1>11. CASE group = "not"
  <2>1. Cost(group) = 2 /\ Spare(c) >= 1
    BY <1>1, <1>11 DEF Cost
  <2>0. PICK k \in ToNot(c, g, round2) : \E m :
          m = create_this_NOT_gate(k.c, k.n) /\ e = ReplaceBy(m.c, g, m.n)
    BY <1>11 DEF Outcomes, Replaced, Negated
  <2>2. PICK m : m = create_this_NOT_gate(k.c, k.n) /\ e = ReplaceBy(m.c, g, m.n)
    BY <2>0
  <2>3. Negates(c, g, k, 1) /\ (Good(c) => Sinks(c, g, k) /\ OpOf(c, g) # "NOT")
    BY <2>1, <2>2, NotRules, NotSinks
  <2>4. Spare(c) <= Spare(k.c) + 1
    BY <2>3 DEF Negates, Grown
  <2>5. Spare(k.c) >= 1
    BY <1>1, <2>1, <2>4
  <2> QED BY <2>1, <2>2, <2>3, <2>5, NegatesReplaces, NegatedSinks
<1> QED BY <1>2, <1>3, <1>4, <1>7, <1>8, <1>9, <1>10, <1>11 DEF Groups

\* So does each group of rules, with the new gates that it may need.
LEMMA OutcomeKept ==
  ASSUME NEW c \in Circuit, WellFormed(c), NEW g \in Gates(c), NEW round2,
         NEW group \in Groups, Spare(c) >= Cost(group), NEW e \in Outcomes(group, c, g, round2)
  PROVE  Kept(c, e, Cost(group))
<1>1. CASE group = "cascade"
  <2>1. e \in Cascade(c, g, round2) /\ Cost(group) = 0
    BY <1>1 DEF Outcomes, Cost
  <2> QED BY <2>1, CascadeKept
<1>2. CASE group # "cascade"
  <2>0. PICK h \in Gates(c) : \E m : /\ Grown(c, m.c, Cost(group)) /\ m.n \in Present(m.c)
                                     /\ e = ReplaceBy(m.c, h, m.n)
    BY <1>2, OutcomeReplaces
  <2>1. PICK m : /\ Grown(c, m.c, Cost(group)) /\ m.n \in Present(m.c)
                 /\ e = ReplaceBy(m.c, h, m.n)
    BY <2>0
  <2>2. h # NULL /\ Cost(group) \in Nat
    BY Nodes DEF Cost
  <2> QED BY <2>1, <2>2, ReplacedKept
<1> QED BY <1>1, <1>2

\* One if-statement after others that created at most n gates.
LEMMA AttemptKept ==
  ASSUME NEW c \in Circuit, NEW g \in Gates(c), NEW round2, NEW results, NEW n \in Nat,
         \A r \in results : Kept(c, r.c, n) /\ r.changed \in BOOLEAN,
         NEW group \in Groups, Spare(c) >= n + Cost(group)
  PROVE  \A r \in Attempt(results, group, g, round2) :
           Kept(c, r.c, n + Cost(group)) /\ r.changed \in BOOLEAN
<1> SUFFICES ASSUME NEW r \in Attempt(results, group, g, round2)
             PROVE  Kept(c, r.c, n + Cost(group)) /\ r.changed \in BOOLEAN
  OBVIOUS
<1>1. PICK q \in results :
        r = q \/ \E d \in Outcomes(group, q.c, g, round2) : r = [c |-> d, changed |-> TRUE]
  BY DEF Attempt
<1>2. Kept(c, q.c, n) /\ q.changed \in BOOLEAN /\ Cost(group) \in Nat /\ \A d : Spare(d) \in Nat
  BY SpareIsNat DEF Cost
<1>3. CASE r = q
  <2>1. Spare(c) <= Spare(q.c) + (n + Cost(group))
    BY <1>2 DEF Kept
  <2> QED BY <1>2, <1>3, <2>1 DEF Kept
<1>4. ASSUME NEW d \in Outcomes(group, q.c, g, round2), r = [c |-> d, changed |-> TRUE]
      PROVE  Kept(c, r.c, n + Cost(group)) /\ r.changed \in BOOLEAN
  <2>1. q.c \in Circuit /\ WellFormed(q.c) /\ g \in Gates(q.c) /\ Spare(c) <= Spare(q.c) + n
    BY <1>2 DEF Kept
  <2>2. Spare(q.c) >= Cost(group)
    BY <1>2, <2>1
  <2>3. Kept(q.c, d, Cost(group))
    BY <2>1, <2>2, OutcomeKept
  <2> QED BY <1>2, <1>4, <2>3, KeptMore
<1> QED BY <1>1, <1>3, <1>4

\* All if-statements, one after another.
InOrder(c, g, round2) ==
  LET Try(results, group) == Attempt(results, group, g, round2)
  IN  Try(Try(Try(Try(Try(Try(Try(Try(Try({[c |-> c, changed |-> FALSE]}, "simple"), "cascade"),
        "fanin"), "hashing"), "or"), "xor"), "and"), "xors"), "not")

LEMMA UseTheoremsInOrder ==
  ASSUME NEW c, NEW g, NEW round2
  PROVE  use_theorems(c, g, round2) = InOrder(c, g, round2)
<1> DEFINE Try(results, group) == Attempt(results, group, g, round2)
           t0 == {[c |-> c, changed |-> FALSE]}
           Equation(T) == T = [i \in 0..9 |-> IF i = 0 THEN t0 ELSE Try(T[i - 1], GroupOrder[i])]
           t1 == Try(t0, "simple")
           t2 == Try(t1, "cascade")
           t3 == Try(t2, "fanin")
           t4 == Try(t3, "hashing")
           t5 == Try(t4, "or")
           t6 == Try(t5, "xor")
           t7 == Try(t6, "and")
           t8 == Try(t7, "xors")
           t9 == Try(t8, "not")
<1>1. /\ Len(GroupOrder) = 9
      /\ GroupOrder[1] = "simple" /\ GroupOrder[2] = "cascade" /\ GroupOrder[3] = "fanin"
      /\ GroupOrder[4] = "hashing" /\ GroupOrder[5] = "or" /\ GroupOrder[6] = "xor"
      /\ GroupOrder[7] = "and" /\ GroupOrder[8] = "xors" /\ GroupOrder[9] = "not"
  BY DEF GroupOrder
<1>2. Tried(c, g, round2) = CHOOSE T : Equation(T)
  BY <1>1 DEF Tried
<1>3. use_theorems(c, g, round2) = Tried(c, g, round2)[9]
  BY <1>1 DEF use_theorems
<1>4. InOrder(c, g, round2) = t9
  BY DEF InOrder
<1> HIDE DEF Try, t0
<1>5. \E T : Equation(T)
  <2> DEFINE T == [i \in 0..9 |-> IF i = 0 THEN t0 ELSE IF i = 1 THEN t1 ELSE IF i = 2 THEN t2
                                  ELSE IF i = 3 THEN t3 ELSE IF i = 4 THEN t4 ELSE IF i = 5 THEN t5
                                  ELSE IF i = 6 THEN t6 ELSE IF i = 7 THEN t7
                                  ELSE IF i = 8 THEN t8 ELSE t9]
  <2>1. /\ T[0] = t0 /\ T[1] = t1 /\ T[2] = t2 /\ T[3] = t3 /\ T[4] = t4
        /\ T[5] = t5 /\ T[6] = t6 /\ T[7] = t7 /\ T[8] = t8 /\ T[9] = t9
    <3> HIDE DEF t1, t2, t3, t4, t5, t6, t7, t8, t9
    <3> QED OBVIOUS
  <2>2. T = [i \in 0..9 |-> T[i]]
    OBVIOUS
  <2> HIDE DEF T
  <2>3. ASSUME NEW i \in 0..9 PROVE T[i] = IF i = 0 THEN t0 ELSE Try(T[i - 1], GroupOrder[i])
    <3>1. \/ i = 0 \/ i = 1 \/ i = 2 \/ i = 3 \/ i = 4 \/ i = 5 \/ i = 6 \/ i = 7 \/ i = 8 \/ i = 9
      OBVIOUS
    <3>2. /\ T[1] = Try(T[0], GroupOrder[1]) /\ T[2] = Try(T[1], GroupOrder[2])
          /\ T[3] = Try(T[2], GroupOrder[3]) /\ T[4] = Try(T[3], GroupOrder[4])
          /\ T[5] = Try(T[4], GroupOrder[5]) /\ T[6] = Try(T[5], GroupOrder[6])
          /\ T[7] = Try(T[6], GroupOrder[7]) /\ T[8] = Try(T[7], GroupOrder[8])
          /\ T[9] = Try(T[8], GroupOrder[9])
      BY <1>1, <2>1
    <3> QED BY <2>1, <3>1, <3>2
  <2>4. Equation(T)
    <3> HIDE DEF t1, t2, t3, t4, t5, t6, t7, t8, t9
    <3> QED BY <2>2, <2>3
  <2> QED BY <2>4
<1>6. PICK T : T = Tried(c, g, round2) /\ Equation(T)
  <2> HIDE DEF Equation
  <2> QED BY <1>2, <1>5
<1>7. /\ T[0] = t0 /\ T[1] = Try(T[0], "simple") /\ T[2] = Try(T[1], "cascade")
      /\ T[3] = Try(T[2], "fanin") /\ T[4] = Try(T[3], "hashing") /\ T[5] = Try(T[4], "or")
      /\ T[6] = Try(T[5], "xor") /\ T[7] = Try(T[6], "and") /\ T[8] = Try(T[7], "xors")
      /\ T[9] = Try(T[8], "not")
  <2>1. \A i \in 0..9 : T[i] = IF i = 0 THEN t0 ELSE Try(T[i - 1], GroupOrder[i])
    BY <1>6
  <2>2. T[0] = t0
    BY <2>1
  <2>3. \A i \in 1..9 : T[i] = Try(T[i - 1], GroupOrder[i])
    BY <2>1
  <2> HIDE DEF Equation
  <2>4. /\ T[1] = Try(T[0], GroupOrder[1]) /\ T[2] = Try(T[1], GroupOrder[2])
        /\ T[3] = Try(T[2], GroupOrder[3]) /\ T[4] = Try(T[3], GroupOrder[4])
        /\ T[5] = Try(T[4], GroupOrder[5]) /\ T[6] = Try(T[5], GroupOrder[6])
        /\ T[7] = Try(T[6], GroupOrder[7]) /\ T[8] = Try(T[7], GroupOrder[8])
        /\ T[9] = Try(T[8], GroupOrder[9])
    BY <2>3
  <2> QED BY <1>1, <2>2, <2>4
<1>8. T[9] = t9
  BY <1>7
<1> QED BY <1>3, <1>4, <1>6, <1>8

\* All of use_theorems for one gate.
LEMMA UseTheoremsKept ==
  ASSUME NEW c \in Circuit, WellFormed(c), Spare(c) >= 9, NEW g \in Gates(c), NEW round2,
         NEW r \in use_theorems(c, g, round2)
  PROVE  Kept(c, r.c, 9) /\ r.changed \in BOOLEAN
<1> DEFINE OK(results, n) == \A q \in results : Kept(c, q.c, n) /\ q.changed \in BOOLEAN
           Try(results, group) == Attempt(results, group, g, round2)
           r0 == {[c |-> c, changed |-> FALSE]}
<1>1. OK(r0, 0)
  <2>1. Kept(c, c, 0)
    BY SpareIsNat DEF Kept
  <2>2. \A q \in r0 : q.c = c /\ q.changed = FALSE
    OBVIOUS
  <2> QED BY <2>1, <2>2
<1>2. ASSUME NEW results, NEW n \in Nat, OK(results, n), NEW group \in Groups, Spare(c) >= n + Cost(group)
      PROVE  OK(Try(results, group), n + Cost(group))
  BY <1>2, AttemptKept
<1>3. /\ Cost("simple") = 1 /\ Cost("cascade") = 0 /\ Cost("fanin") = 0 /\ Cost("hashing") = 0
      /\ Cost("or") = 2 /\ Cost("xor") = 1 /\ Cost("and") = 2 /\ Cost("xors") = 1 /\ Cost("not") = 2
  BY DEF Cost
<1>4. /\ "simple" \in Groups /\ "cascade" \in Groups /\ "fanin" \in Groups /\ "hashing" \in Groups
      /\ "or" \in Groups /\ "xor" \in Groups /\ "and" \in Groups /\ "xors" \in Groups /\ "not" \in Groups
  BY DEF Groups
<1>5. Spare(c) \in Nat
  BY SpareIsNat
<1>6. use_theorems(c, g, round2) =
        Try(Try(Try(Try(Try(Try(Try(Try(Try(r0, "simple"), "cascade"), "fanin"), "hashing"), "or"),
          "xor"), "and"), "xors"), "not")
  BY UseTheoremsInOrder DEF InOrder
<1> HIDE DEF OK, Try, r0
<1>7. PICK r1 : r1 = Try(r0, "simple") /\ OK(r1, 1)
  BY <1>1, <1>2, <1>3, <1>4, <1>5
<1>8. PICK r2 : r2 = Try(r1, "cascade") /\ OK(r2, 1)
  BY <1>2, <1>3, <1>4, <1>5, <1>7
<1>9. PICK r3 : r3 = Try(r2, "fanin") /\ OK(r3, 1)
  BY <1>2, <1>3, <1>4, <1>5, <1>8
<1>10. PICK r4 : r4 = Try(r3, "hashing") /\ OK(r4, 1)
  BY <1>2, <1>3, <1>4, <1>5, <1>9
<1>11. PICK r5 : r5 = Try(r4, "or") /\ OK(r5, 3)
  BY <1>2, <1>3, <1>4, <1>5, <1>10
<1>12. PICK r6 : r6 = Try(r5, "xor") /\ OK(r6, 4)
  BY <1>2, <1>3, <1>4, <1>5, <1>11
<1>13. PICK r7 : r7 = Try(r6, "and") /\ OK(r7, 6)
  BY <1>2, <1>3, <1>4, <1>5, <1>12
<1>14. PICK r8 : r8 = Try(r7, "xors") /\ OK(r8, 7)
  BY <1>2, <1>3, <1>4, <1>5, <1>13
<1>15. OK(Try(r8, "not"), 9)
  BY <1>2, <1>3, <1>4, <1>5, <1>14
<1>16. r \in Try(r8, "not")
  BY <1>6, <1>7, <1>8, <1>9, <1>10, <1>11, <1>12, <1>13, <1>14
<1> QED BY <1>15, <1>16 DEF OK

----------------------------------------------------------------------------
(* Every state of rewriting is a circuit without a dangling pin.           *)

\* cleanup() may take a gate that nothing reads out of the circuit.
LEMMA RemoveKeeps ==
  ASSUME NEW c \in Circuit, WellFormed(c), NEW g \in Gates(c), Fanouts(c, g) = {},
         NEW d, d = RemoveGate(c, g)
  PROVE  d \in Circuit /\ WellFormed(d) /\ Gates(d) = Gates(c) \ {g}
<1>1. g \in Gate /\ "FREE" \in Op /\ "FREE" \notin BinOp
  BY Nodes DEF Op, BinOp
<1>2. /\ d.op = [c.op EXCEPT ![g] = "FREE"] /\ d.out = c.out
      /\ d.fanin = [c.fanin EXCEPT ![g] = [p \in Pin |-> NULL]]
  BY DEF RemoveGate, Circuit
<1>3. d \in Circuit
  BY <1>1 DEF RemoveGate, Circuit
<1>4. /\ d.op[g] = "FREE" /\ d.fanin[g][0] = NULL /\ d.fanin[g][1] = NULL
      /\ \A k \in Gate \ {g} : d.op[k] = c.op[k] /\ d.fanin[k] = c.fanin[k]
  BY <1>1, <1>2 DEF Circuit, Pin
<1>5. Gates(d) = Gates(c) \ {g} /\ Present(c) \ {g} \subseteq Present(d)
  BY <1>4 DEF Gates, Present
<1>6. ASSUME NEW k \in Gates(c), NEW p \in Pin PROVE c.fanin[k][p] # g
  <2>1. <<k, p>> \in Gates(c) \X Pin /\ <<k, p>>[1] = k /\ <<k, p>>[2] = p
    OBVIOUS
  <2>2. c.fanin[<<k, p>>[1]][<<k, p>>[2]] = g => <<k, p>> \in Fanouts(c, g)
    BY <2>1 DEF Fanouts
  <2> QED BY <2>1, <2>2
<1>7. ASSUME NEW o \in Output PROVE c.out[o] # g
  <2>1. <<o, 0>> \in Output \X {0} /\ <<o, 0>>[1] = o
    OBVIOUS
  <2>2. c.out[<<o, 0>>[1]] = g => <<o, 0>> \in Fanouts(c, g)
    BY <2>1 DEF Fanouts
  <2> QED BY <2>1, <2>2
<1>8. ASSUME NEW k \in Gate
      PROVE  /\ d.op[k] # "FREE" => d.fanin[k][0] \in Present(d)
             /\ d.op[k] = "FREE" => d.fanin[k][0] = NULL
             /\ d.op[k] \in BinOp => d.fanin[k][1] \in Present(d)
             /\ d.op[k] \notin BinOp => d.fanin[k][1] = NULL
  <2>1. CASE k = g
    BY <1>1, <1>4, <2>1
  <2>2. CASE k # g /\ c.op[k] = "FREE"
    BY <1>1, <1>4, <2>2 DEF WellFormed
  <2>3. CASE k # g /\ c.op[k] # "FREE"
    <3>1. k \in Gates(c) /\ d.op[k] = c.op[k] /\ d.fanin[k] = c.fanin[k]
      BY <1>4, <2>3 DEF Gates
    <3>2. c.fanin[k][0] # g /\ c.fanin[k][1] # g
      BY <1>6, <3>1 DEF Pin
    <3> QED BY <1>5, <2>3, <3>1, <3>2 DEF WellFormed
  <2> QED BY <2>1, <2>2, <2>3
<1>9. \A o \in Output : d.out[o] \in Present(d)
  BY <1>2, <1>5, <1>7 DEF WellFormed
<1> QED BY <1>3, <1>5, <1>8, <1>9 DEF WellFormed

\* One call of use_theorems creates at most nine gates; in the code operator
\* new finds an address for each.
Room == Spare(circuit) >= 9

\* Besides StateOK: the worklists of rewrite() and cleanup() only name gates
\* that are still in the circuit.
RewriteInv == TypeOK /\ WellFormed(circuit) /\ worklist \subseteq Gates(circuit)

\* minimize() begins in the invariant.
LEMMA RewriteInvInit == Init => RewriteInv
  BY MinimizerAssumption DEF Init, RewriteInv, TypeOK, Locations

\* Every step keeps it, with room for the new gates of one gate's rules.
LEMMA RewriteInvStep == RewriteInv /\ Room /\ [Next]_vars => RewriteInv'
<1> SUFFICES ASSUME RewriteInv, Room, [Next]_vars PROVE RewriteInv'
  OBVIOUS
<1> USE DEF RewriteInv, TypeOK
<1>1. Gates(circuit) \subseteq Gate
  BY Nodes
<1>2. CASE BeginRewrite
  BY <1>1, <1>2 DEF BeginRewrite, ComputeLevels, Locations
<1>3. CASE RewriteGate
  <2>1. PICK g \in Deepest(level, worklist) :
          /\ \E r \in use_theorems(circuit, g, min_op = "THEOREMS2") :
               circuit' = r.c /\ changed_circuit' = r.changed
          /\ worklist' = worklist \ {g}
    BY <1>3 DEF RewriteGate
  <2>2. g \in Gates(circuit)
    BY DEF Deepest
  <2>3. PICK r \in use_theorems(circuit, g, min_op = "THEOREMS2") :
          circuit' = r.c /\ changed_circuit' = r.changed
    BY <2>1
  <2>4. Kept(circuit, r.c, 9) /\ r.changed \in BOOLEAN
    BY <2>2, UseTheoremsKept DEF Room
  <2> QED BY <1>1, <1>3, <2>1, <2>3, <2>4 DEF RewriteGate, Kept
<1>4. CASE BeginCleanup
  BY <1>1, <1>4 DEF BeginCleanup, ComputeLevels, Locations
<1>5. CASE CleanupGate
  <2>1. PICK g \in Deepest(level, worklist) :
          worklist' = worklist \ {g} /\ RemoveIf(Fanouts(circuit, g) = {}, g)
    BY <1>5 DEF CleanupGate
  <2>2. g \in Gates(circuit)
    BY DEF Deepest
  <2>3. /\ circuit' \in Circuit /\ WellFormed(circuit') /\ changed_circuit' \in BOOLEAN
        /\ Gates(circuit) \ {g} \subseteq Gates(circuit')
    BY <2>1, <2>2, RemoveKeeps DEF RemoveIf
  <2> QED BY <1>5, <2>1, <2>3 DEF CleanupGate
<1>6. CASE EndRewrite
  BY <1>6 DEF EndRewrite, Locations
<1>7. CASE Stop
  BY <1>7 DEF Stop, rewrite_vars, Locations
<1>8. CASE TimeExpires
  BY <1>8 DEF TimeExpires, rewrite_vars
<1>9. CASE UNCHANGED vars
  BY <1>9 DEF vars, rewrite_vars
<1> QED BY <1>2, <1>3, <1>4, <1>5, <1>6, <1>7, <1>8, <1>9 DEF Next, RewriteStep, Finished

\* As long as there is memory for the gates that the rules create, no rule
\* and no removal by cleanup() leaves a pin or an OUTPUT connected to a gate
\* that is gone, or open: for every circuit that minimize() may be called
\* with, in every order of the gates, wherever the time runs out.
THEOREM StateOKCorrect == Spec /\ []Room => []StateOK
<1>1. RewriteInv => StateOK
  BY DEF RewriteInv, StateOK, NoDangling
<1> QED BY <1>1, RewriteInvInit, RewriteInvStep, PTL DEF Spec

----------------------------------------------------------------------------
(* Rewriting keeps the function and makes no cycle.                        *)

\* Nothing reads g.
Unread(c, g) == (\A k \in Gate, p \in Pin : c.fanin[k][p] # g) /\ \A o \in Output : c.out[o] # g

\* The circuit has a gate that nothing reads, which cleanup() will find.
Spent(c) == \E g \in Gates(c) : Unread(c, g)

\* A gate that nothing reads stays so when another one takes a place.
LEMMA StaysUnread ==
  ASSUME NEW c \in Circuit, NEW a, Unread(c, a), NEW g, NEW n \in Node, n # a
  PROVE  Unread(ReplaceBy(c, g, n), a)
  BY MergeFields DEF Unread

\* The state of a circuit in which use_theorems may hash g: the gate does not
\* read one node twice, or has been replaced already.
Hashable(c, g) == F0(c, g) # F1(c, g) \/ OpOf(c, g) = "NOT" \/ Unread(c, g)

\* After g is replaced nothing reads it.
LEMMA ReplacedUnread ==
  ASSUME NEW c \in Circuit, NEW g, NEW h \in Node, h # g
  PROVE  Unread(ReplaceBy(c, g, h), g)
  BY MergeFields DEF Unread

\* To replace a gate that nothing reads changes nothing.
LEMMA UnreadSame ==
  ASSUME NEW c \in Circuit, NEW g, Unread(c, g), NEW h
  PROVE  ReplaceBy(c, g, h) = c
<1>1. [k \in Gate |-> [p \in Pin |-> IF c.fanin[k][p] = g THEN h ELSE c.fanin[k][p]]] = c.fanin
  <2>1. c.fanin \in [Gate -> [Pin -> Node \cup {NULL}]]
    BY DEF Circuit
  <2>2. \A k \in Gate : [p \in Pin |-> IF c.fanin[k][p] = g THEN h ELSE c.fanin[k][p]] = c.fanin[k]
    BY <2>1 DEF Unread
  <2> QED BY <2>1, <2>2
<1>2. [o \in Output |-> IF c.out[o] = g THEN h ELSE c.out[o]] = c.out
  BY DEF Unread, Circuit
<1>3. c = [op |-> c.op, fanin |-> c.fanin, out |-> c.out]
  BY DEF Circuit
<1> QED BY <1>1, <1>2, <1>3 DEF ReplaceBy

\* A node of the same value that does not depend on the gate takes its place.
LEMMA ReplacedGood ==
  ASSUME NEW c, Good(c), NEW g \in Gates(c), NEW m, NEW j, Replaces(c, g, m, j), Sinks(c, g, m),
         NEW e, e = ReplaceBy(m.c, g, m.n)
  PROVE  Good(e) /\ Behaviour(e) = Behaviour(c) /\ Unread(e, g)
<1>1. /\ c \in Circuit /\ WellFormed(c) /\ m.c \in Circuit /\ WellFormed(m.c) /\ Acyclic(m.c)
      /\ g \in Gates(m.c) /\ Under(m.c, g, m.n)
  BY DEF Good, Sinks, Keeps
<1>2. m.n \in Present(m.c) /\ m.n \in Node /\ m.n # g /\ g # NULL
  BY <1>1, UnderPresent, Nodes
<1>3. Good(e)
  BY <1>1, <1>2, MergeFields, MergeKeepsWellFormed, MergeKeepsAcyclic DEF Good
<1>4. Behaviour(c) \subseteq Behaviour(e)
  BY <1>1, ReplacedSame
<1>5. Behaviour(e) = Behaviour(c)
  BY <1>3, <1>4, FunctionKept
<1> QED BY <1>1, <1>2, <1>3, <1>5, ReplacedUnread

\* One rule, for every circuit, gate and order of the fanins: the outcome has
\* no cycle and computes what the circuit computed.
LEMMA OutcomeSame ==
  ASSUME NEW c, Good(c), NEW g \in Gates(c), NEW round2,
         NEW group \in Groups \ {"cascade"}, Spare(c) >= Cost(group), group = "hashing" => Hashable(c, g),
         NEW e \in Outcomes(group, c, g, round2)
  PROVE  /\ Good(e) /\ Behaviour(e) = Behaviour(c) /\ Spent(e)
         /\ group \in {"simple", "fanin", "hashing"} => Unread(e, g)
<1>0. c \in Circuit /\ WellFormed(c)
  BY DEF Good
<1>1. PICK h \in Gates(c) : \E m :
        /\ m.n \in Present(m.c) /\ e = ReplaceBy(m.c, h, m.n)
        /\ group # "xors" => h = g
        /\ \/ Replaces(c, h, m, Cost(group)) /\ (Good(c) => Sinks(c, h, m))
           \/ group = "hashing" /\ m.c = c /\ OpOf(c, g) \in BinOp /\ F0(c, g) = F1(c, g)
  BY <1>0, OutcomeReplaces
<1>2. PICK m :
        /\ m.n \in Present(m.c) /\ e = ReplaceBy(m.c, h, m.n)
        /\ group # "xors" => h = g
        /\ \/ Replaces(c, h, m, Cost(group)) /\ (Good(c) => Sinks(c, h, m))
           \/ group = "hashing" /\ m.c = c /\ OpOf(c, g) \in BinOp /\ F0(c, g) = F1(c, g)
  BY <1>1
<1>3. CASE Replaces(c, h, m, Cost(group)) /\ (Good(c) => Sinks(c, h, m))
  <2>1. Good(e) /\ Behaviour(e) = Behaviour(c) /\ Unread(e, h)
    BY <1>2, <1>3, ReplacedGood
  <2>2. h \in Gates(m.c) /\ m.c \in Circuit /\ m.n \in Node
    BY <1>2, <1>3, Nodes DEF Sinks, Keeps, Good
  <2>3. h \in Gates(e)
    BY <1>2, <2>2, MergeGates
  <2> QED BY <1>2, <2>1, <2>3 DEF Spent
<1>4. CASE group = "hashing" /\ m.c = c /\ OpOf(c, g) \in BinOp /\ F0(c, g) = F1(c, g)
  <2>1. Unread(c, g)
    BY <1>4 DEF Hashable, BinOp
  <2>2. e = c
    BY <1>0, <1>2, <1>4, <2>1, UnreadSame
  <2> QED BY <2>1, <2>2 DEF Spent
<1> QED BY <1>2, <1>3, <1>4

\* A gate that no rule of the first group replaces does not read one node twice.
LEMMA SimpleComplete ==
  ASSUME NEW c, Good(c), NEW g \in Gates(c), Simple(c, g) = {}
  PROVE  F0(c, g) # F1(c, g) \/ OpOf(c, g) = "NOT"
<1> SUFFICES ASSUME F0(c, g) = F1(c, g), OpOf(c, g) # "NOT" PROVE FALSE
  OBVIOUS
<1>1. OpOf(c, g) \in {"AND", "OR", "XOR"}
  BY View, Nodes DEF Good, BinOp
<1>2. is_same_gate(c, F0(c, g), F1(c, g))
  BY DEF is_same_gate
<1>3. CASE OpOf(c, g) = "XOR"
  BY <1>2, <1>3 DEF Simple, transform_XOR5, ||, When, Is
<1>4. CASE OpOf(c, g) \in {"AND", "OR"}
  BY <1>2, <1>4 DEF Simple, transform3, ||, When
<1> QED BY <1>1, <1>3, <1>4


----------------------------------------------------------------------------
(* What the search does to the function.                                   *)

\* There is one consumer if there is a single one.
LEMMA OneReader ==
  ASSUME NEW c \in Circuit, NEW n, Single(c, n), NEW k \in Gates(c), NEW p \in Pin, c.fanin[k][p] = n
  PROVE  /\ \A h \in Gates(c), q \in Pin : c.fanin[h][q] = n => h = k /\ q = p
         /\ \A o \in Output : c.out[o] # n
<1> DEFINE F == Fanouts(c, n)
<1>1. IsFiniteSet(F)
  <2>1. IsFiniteSet(Gates(c)) /\ IsFiniteSet(Pin) /\ IsFiniteSet({0}) /\ IsFiniteSet(Output)
    <3>1. Pin = {0} \cup {1}
      BY DEF Pin
    <3> QED BY <3>1, Nodes, FS_Singleton, FS_Union, NetlistAssumption
  <2>2. IsFiniteSet(Gates(c) \X Pin) /\ IsFiniteSet(Output \X {0}) /\ IsFiniteSet({<<ZERO_GATE, 0>>})
    BY <2>1, FS_Product, FS_Singleton
  <2>3. IsFiniteSet(((Gates(c) \X Pin) \cup (Output \X {0})) \cup {<<ZERO_GATE, 0>>})
    BY <2>2, FS_Union
  <2>4. F \subseteq ((Gates(c) \X Pin) \cup (Output \X {0})) \cup {<<ZERO_GATE, 0>>}
    BY DEF Fanouts
  <2> QED BY <2>3, <2>4, FS_Subset
<1>2. PICK f : F = {f}
  <2> HIDE DEF F
  <2>1. Cardinality(F) = 1
    BY DEF Single, F
  <2> QED BY <1>1, <2>1, FS_Singleton
<1>3. \A h \in Gates(c), q \in Pin : c.fanin[h][q] = n => <<h, q>> \in F
  BY DEF Fanouts
<1>4. \A o \in Output : c.out[o] = n => <<o, 0>> \in F
  BY DEF Fanouts
<1> HIDE DEF F
<1>5. <<k, p>> = f
  BY <1>2, <1>3
<1>6. ASSUME NEW h \in Gates(c), NEW q \in Pin, c.fanin[h][q] = n PROVE h = k /\ q = p
  <2>1. <<h, q>> = <<k, p>>
    BY <1>2, <1>3, <1>5, <1>6
  <2> QED BY <2>1
<1>7. ASSUME NEW o \in Output, c.out[o] = n PROVE FALSE
  <2>1. <<o, 0>> = <<k, p>>
    BY <1>2, <1>4, <1>5, <1>7
  <2>2. o = k /\ k \in Node
    BY <2>1, Nodes DEF Present
  <2> QED BY <2>2, NetlistAssumption
<1> QED BY <1>6, <1>7

\* The gates A of one operation, one below the other, that lead from a pin of
\* g to b: each reads the next with one pin, and nothing else reads them.  The
\* other pin of g reads y.
Thread(c, op, g, y, A, b) ==
  /\ A \subseteq Gates(c) /\ b \in A /\ g \in Gates(c) \ A /\ y \notin A
  /\ \A k \in A : Is(c, k, op)
  /\ \E z \in A : <<z, y>> \in Sides(c, g)
  /\ \A k \in A \ {b} : \E s \in Sides(c, k) : s[1] \in A /\ s[2] \notin A
  /\ F0(c, b) \notin A /\ F1(c, b) \notin A
  /\ \A k \in Gates(c) \ (A \cup {g}), p \in Pin : c.fanin[k][p] \notin A
  /\ \A o \in Output : c.out[o] \notin A

\* The fields of a binary gate.
LEMMA BinaryFields ==
  ASSUME NEW c, Good(c), NEW k \in Gates(c)
  PROVE  /\ F0(c, k) = c.fanin[k][0] /\ F1(c, k) = c.fanin[k][1]
         /\ F0(c, k) # k /\ F1(c, k) # k
<1>1. c \in Circuit /\ WellFormed(c) /\ k \in Present(c) /\ NULL \notin Gates(c) /\ 0 \in Pin /\ 1 \in Pin
  BY Nodes DEF Good, Pin
<1>2. F0(c, k) = c.fanin[k][0] /\ F1(c, k) = c.fanin[k][1]
  BY <1>1, View
<1>3. \A p \in Pin : c.fanin[k][p] # k
  BY <1>1, UnderOwn, UnderPresent
<1> QED BY <1>1, <1>2, <1>3

\* A gate of g's operation that only g reads is such a line of gates.
LEMMA ThreadStart ==
  ASSUME NEW c, Good(c), NEW g \in Gates(c), NEW op, NEW z \in Gates(c), NEW y,
         <<z, y>> \in Sides(c, g), Is(c, z, op), Single(c, z)
  PROVE  Thread(c, op, g, y, {z}, z)
<1>1. c \in Circuit /\ 0 \in Pin /\ 1 \in Pin /\ 0 # 1
  BY DEF Good, Pin
<1>2. PICK p \in Pin : c.fanin[g][p] = z /\ \E q \in Pin : q # p /\ c.fanin[g][q] = y
  BY <1>1, BinaryFields DEF Sides
<1>3. /\ \A h \in Gates(c), q \in Pin : c.fanin[h][q] = z => h = g /\ q = p
      /\ \A o \in Output : c.out[o] # z
  BY <1>1, <1>2, OneReader
<1>4. y # z
  BY <1>2, <1>3
<1>5. g # z /\ F0(c, z) # z /\ F1(c, z) # z
  <2>1. c.fanin[z][p] # z
    BY <1>1, BinaryFields, <1>2 DEF Pin
  <2> QED BY <1>2, <2>1, BinaryFields
<1> QED BY <1>3, <1>4, <1>5 DEF Thread

\* It goes on with a gate of the same operation that only its end reads.
LEMMA ThreadMore ==
  ASSUME NEW c, Good(c), NEW g, NEW op, NEW y, NEW A, NEW b, Thread(c, op, g, y, A, b),
         NEW u \in Gates(c), u \in {F0(c, b), F1(c, b)}, Is(c, u, op), Single(c, u), y # u, g # u
  PROVE  Thread(c, op, g, y, A \cup {u}, u)
<1>1. c \in Circuit /\ 0 \in Pin /\ 1 \in Pin /\ 0 # 1 /\ b \in Gates(c) /\ b \in A /\ g \in Gates(c) /\ g # b
  BY DEF Good, Pin, Thread
<1>2. PICK p \in Pin : c.fanin[b][p] = u
  BY <1>1, BinaryFields
<1>3. /\ \A h \in Gates(c), q \in Pin : c.fanin[h][q] = u => h = b /\ q = p
      /\ \A o \in Output : c.out[o] # u
  BY <1>1, <1>2, OneReader
<1>4. u \notin A /\ u # b
  BY <1>1, BinaryFields DEF Thread
<1>5. \A k \in Gates(c) : k # b => F0(c, k) # u /\ F1(c, k) # u
  BY <1>1, <1>3, BinaryFields
<1>6. \E s \in Sides(c, b) : s[1] = u /\ s[2] \notin A \cup {u}
  <2>1. F0(c, b) = c.fanin[b][0] /\ F1(c, b) = c.fanin[b][1]
    BY <1>1, BinaryFields
  <2>2. ~ (F0(c, b) = u /\ F1(c, b) = u)
    BY <1>1, <1>3, <2>1
  <2>3. F0(c, b) \notin A /\ F1(c, b) \notin A
    BY DEF Thread
  <2> QED BY <2>2, <2>3 DEF Sides
<1>7. ASSUME NEW k \in (A \cup {u}) \ {u}
      PROVE  \E s \in Sides(c, k) : s[1] \in A \cup {u} /\ s[2] \notin A \cup {u}
  <2>1. CASE k = b
    BY <1>6, <2>1
  <2>2. CASE k # b
    <3>1. PICK s \in Sides(c, k) : s[1] \in A /\ s[2] \notin A
      BY <1>7, <2>2 DEF Thread
    <3>2. s[2] \in {F0(c, k), F1(c, k)} /\ k \in Gates(c)
      BY <1>7 DEF Sides, Thread
    <3>3. s[2] # u
      BY <1>5, <2>2, <3>2
    <3> QED BY <3>1, <3>3
  <2> QED BY <2>1, <2>2
<1>8. F0(c, u) \notin A \cup {u} /\ F1(c, u) \notin A \cup {u}
  BY <1>1, <1>4, BinaryFields DEF Thread
<1>9. \A k \in Gates(c) \ ((A \cup {u}) \cup {g}), q \in Pin : c.fanin[k][q] \notin A \cup {u}
  BY <1>1, <1>3 DEF Thread
<1> QED BY <1>3, <1>4, <1>7, <1>8, <1>9 DEF Thread

\* A constant depends on nothing: to put it in the place of a node makes no
\* cycle.
LEMMA ConstKeepsAcyclic ==
  ASSUME NEW c \in Circuit, Acyclic(c), NEW x
  PROVE  Acyclic(ReplaceBy(c, x, ONE_GATE))
<1>1. /\ Gates(ReplaceBy(c, x, ONE_GATE)) = Gates(c)
      /\ \A k \in Gate, p \in Pin : ReplaceBy(c, x, ONE_GATE).fanin[k][p] =
           IF c.fanin[k][p] = x THEN ONE_GATE ELSE c.fanin[k][p]
      /\ Gates(c) \subseteq Gate /\ ONE_GATE \notin Gate
  BY Nodes, MergeFields, MergeGates
<1> SUFFICES ASSUME NEW S \in SUBSET Gates(c), S # {},
                    \A k \in S : \E p \in Pin : ReplaceBy(c, x, ONE_GATE).fanin[k][p] \in S
             PROVE  FALSE
  BY <1>1 DEF Acyclic
<1>2. \A k \in S : \E p \in Pin : c.fanin[k][p] \in S
  BY <1>1
<1> QED BY <1>2 DEF Acyclic

\* What the end of the line reads does not lead back to g.
LEMMA ThreadEnds ==
  ASSUME NEW c, Good(c), NEW op, NEW g, NEW y, NEW A, NEW b, Thread(c, op, g, y, A, b)
  PROVE  F0(c, b) # g /\ F1(c, b) # g /\ b # g
<1>1. /\ A \subseteq Gates(c) /\ b \in A /\ g \in Gates(c) \ A
      /\ 0 \in Pin /\ 1 \in Pin
  BY DEF Thread, Pin
<1>2. \A k \in Gates(c) : \A n \in {F0(c, k), F1(c, k)} : \E p \in Pin : c.fanin[k][p] = n
  BY <1>1, BinaryFields
<1>3. \A k \in (A \ {b}) \cup {g} : \E p \in Pin : c.fanin[k][p] \in A
  <2>1. ASSUME NEW k \in A \ {b} PROVE \E p \in Pin : c.fanin[k][p] \in A
    <3>1. PICK s \in Sides(c, k) : s[1] \in A
      BY <2>1 DEF Thread
    <3>2. s[1] \in {F0(c, k), F1(c, k)}
      BY DEF Sides
    <3> QED BY <1>1, <1>2, <3>1, <3>2
  <2>2. \E p \in Pin : c.fanin[g][p] \in A
    <3>1. PICK z \in A : <<z, y>> \in Sides(c, g)
      BY DEF Thread
    <3>2. z \in {F0(c, g), F1(c, g)}
      BY <3>1 DEF Sides
    <3> QED BY <1>1, <1>2, <3>2
  <2> QED BY <2>1, <2>2
<1>4. ASSUME F0(c, b) = g \/ F1(c, b) = g PROVE FALSE
  <2>1. \E p \in Pin : c.fanin[b][p] = g
    BY <1>1, <1>2, <1>4
  <2>2. \A k \in A \cup {g} : \E p \in Pin : c.fanin[k][p] \in A \cup {g}
    BY <1>3, <2>1
  <2>3. A \cup {g} \in SUBSET Gates(c) /\ A \cup {g} # {}
    BY <1>1
  <2> QED BY <2>2, <2>3 DEF Acyclic, Good
<1> QED BY <1>1, <1>4

\* W has the values of V, but those of a line of XOR gates flipped if flip, and
\* that of g if one of its two pins flips.
Flipped(c, g, A, a, V, W, flip, other) ==
  \A k \in Gates(c) : W[k] = IF k \in A \ {a} THEN V[k] # flip
                             ELSE IF k = g THEN V[k] # (flip # other) ELSE V[k]

\* The same of what the pins read.
PinsFlipped(c, e, g, A, V, W, flip, other) ==
  \A k \in Gates(c), p \in Pin :
    Val(W, e.fanin[k][p]) = IF c.fanin[k][p] \in A THEN Val(V, c.fanin[k][p]) # flip
                            ELSE IF k = g THEN Val(V, c.fanin[k][p]) # other
                            ELSE Val(V, c.fanin[k][p])

\* When the values of a line of XOR gates change together, the gate at its end
\* stays consistent with g, whose value changes as the other pin allows.
LEMMA FlipKeeps ==
  ASSUME NEW c, Good(c), NEW g, NEW x, NEW A, NEW a, Thread(c, "XOR", g, x, A, a), Is(c, g, "XOR"),
         NEW V \in Valuations(c), NEW e \in Circuit, Gates(e) = Gates(c), e.op = c.op,
         NEW W \in [Input \cup Gates(c) -> BOOLEAN], NEW flip \in BOOLEAN, NEW other \in BOOLEAN,
         \A i \in Input : W[i] = V[i], Flipped(c, g, A, a, V, W, flip, other),
         PinsFlipped(c, e, g, A, V, W, flip, other),
         \A o \in Output : Val(W, e.out[o]) = Val(V, c.out[o])
  PROVE  W \in Valuations(e) /\ Outputs(e, W) = Outputs(c, V)
<1> USE DEF Flipped, PinsFlipped
<1>1. /\ c \in Circuit /\ WellFormed(c) /\ 0 \in Pin /\ 1 \in Pin
      /\ V \in [Input \cup Gates(c) -> BOOLEAN] /\ Consistent(c, V)
  BY DEF Good, Pin, Valuations
<1>2. \A n \in Present(c) : Val(V, n) \in BOOLEAN
  BY <1>1, ValuationModels DEF Models
<1> SUFFICES ASSUME NEW k \in Gates(c)
             PROVE  W[k] = Apply(e.op[k], Val(W, e.fanin[k][0]), Val(W, e.fanin[k][1]))
  <2>1. Outputs(e, W) = Outputs(c, V)
    BY DEF Outputs
  <2> QED BY <2>1 DEF Valuations, Consistent
<1>3. V[k] = Apply(c.op[k], Val(V, c.fanin[k][0]), Val(V, c.fanin[k][1])) /\ V[k] \in BOOLEAN
  BY <1>1 DEF Consistent
<1>4. CASE k \notin A \cup {g}
  <2>1. \A p \in Pin : c.fanin[k][p] \notin A
    BY <1>4 DEF Thread
  <2>2. Val(W, e.fanin[k][0]) = Val(V, c.fanin[k][0]) /\ Val(W, e.fanin[k][1]) = Val(V, c.fanin[k][1])
    BY <1>1, <1>4, <2>1
  <2> QED BY <1>3, <1>4, <2>2
<1>5. CASE k = a
  <2>1. k # g /\ a \in A /\ F0(c, a) \notin A /\ F1(c, a) \notin A
    BY <1>5, ThreadEnds DEF Thread
  <2>2. c.fanin[k][0] \notin A /\ c.fanin[k][1] \notin A
    BY <1>5, <2>1, BinaryFields
  <2>3. Val(W, e.fanin[k][0]) = Val(V, c.fanin[k][0]) /\ Val(W, e.fanin[k][1]) = Val(V, c.fanin[k][1])
    BY <1>1, <2>1, <2>2
  <2> QED BY <1>3, <1>5, <2>1, <2>3
<1>6. CASE k \in A \/ k = g
  <2> DEFINE v0 == Val(V, c.fanin[k][0])
             v1 == Val(V, c.fanin[k][1])
             w0 == Val(W, e.fanin[k][0])
             w1 == Val(W, e.fanin[k][1])
  <2>1. c.op[k] = "XOR" /\ c.fanin[k][0] \in Present(c) /\ c.fanin[k][1] \in Present(c)
    <3>1. Is(c, k, "XOR") /\ k \in Gate
      BY <1>1, <1>6, Nodes DEF Thread
    <3>2. c.op[k] = "XOR"
      BY <3>1 DEF Is, OpOf
    <3> QED BY <1>1, <3>2, Pins DEF BinOp
  <2>2. v0 \in BOOLEAN /\ v1 \in BOOLEAN
    BY <1>2, <2>1
  <2>3. V[k] = (v0 # v1) /\ Apply(e.op[k], w0, w1) = (w0 # w1)
    BY <1>3, <2>1 DEF Apply
  <2>4. \/ c.fanin[k][0] \in A /\ c.fanin[k][1] \notin A
        \/ c.fanin[k][1] \in A /\ c.fanin[k][0] \notin A
        \/ k = a
    <3>1. CASE k = g
      <4>1. PICK z \in A : <<z, x>> \in Sides(c, g) /\ x \notin A
        BY DEF Thread
      <4> QED BY <3>1, <4>1, BinaryFields DEF Sides
    <3>2. CASE k \in A \ {a}
      <4>1. PICK s \in Sides(c, k) : s[1] \in A /\ s[2] \notin A
        BY <3>2 DEF Thread
      <4> QED BY <4>1, BinaryFields DEF Sides
    <3> QED BY <1>6, <3>1, <3>2
  <2>5. CASE k = g
    <3>0. g # a /\ g \notin A
      BY ThreadEnds DEF Thread
    <3>1. W[k] = (V[k] # (flip # other))
      BY <2>5, <3>0
    <3>2. \/ w0 = (v0 # flip) /\ w1 = (v1 # other)
          \/ w1 = (v1 # flip) /\ w0 = (v0 # other)
      BY <1>1, <2>4, <2>5, <3>0
    <3> HIDE DEF v0, v1, w0, w1
    <3> QED BY <2>2, <2>3, <3>1, <3>2 DEF w0, w1
  <2>6. CASE k \in A \ {a}
    <3>0. k # g
      BY <2>6 DEF Thread
    <3>1. W[k] = (V[k] # flip)
      BY <2>6
    <3>2. \/ w0 = (v0 # flip) /\ w1 = v1
          \/ w1 = (v1 # flip) /\ w0 = v0
      BY <1>1, <2>4, <2>6, <3>0
    <3> HIDE DEF v0, v1, w0, w1
    <3> QED BY <2>2, <2>3, <3>1, <3>2 DEF w0, w1
  <2> QED BY <1>5, <1>6, <2>5, <2>6
<1> QED BY <1>4, <1>5, <1>6

\* What the nodes read after a replacement.
LEMMA MergeReads ==
  ASSUME NEW c \in Circuit, WellFormed(c), NEW g \in Gates(c), NEW h \in Present(c),
         NEW e, e = ReplaceBy(c, g, h)
  PROVE  /\ e \in Circuit /\ WellFormed(e) /\ Gates(e) = Gates(c) /\ Present(e) = Present(c)
         /\ \A q \in Present(c) : /\ OpOf(e, q) = OpOf(c, q)
                                  /\ F0(e, q) = IF F0(c, q) = g THEN h ELSE F0(c, q)
                                  /\ F1(e, q) = IF F1(c, q) = g THEN h ELSE F1(c, q)
<1>1. h \in Node /\ g # NULL /\ g # ONE_GATE /\ Gates(c) \subseteq Gate /\ 0 \in Pin /\ 1 \in Pin
  BY Nodes DEF Pin
<1>2. e \in Circuit /\ WellFormed(e) /\ Gates(e) = Gates(c) /\ Present(e) = Present(c)
  BY <1>1, MergeFields, MergeGates, MergeKeepsWellFormed
<1>3. /\ e.op = c.op
      /\ \A k \in Gate, p \in Pin : e.fanin[k][p] = IF c.fanin[k][p] = g THEN h ELSE c.fanin[k][p]
  BY <1>1, MergeFields
<1>4. ASSUME NEW q \in Present(c)
      PROVE  /\ OpOf(e, q) = OpOf(c, q)
             /\ F0(e, q) = IF F0(c, q) = g THEN h ELSE F0(c, q)
             /\ F1(e, q) = IF F1(c, q) = g THEN h ELSE F1(c, q)
  <2>1. OpOf(e, q) = OpOf(c, q)
    BY <1>3 DEF OpOf
  <2>2. CASE q \in Gate
    BY <1>1, <1>3, <2>1, <2>2 DEF F0, F1, Fanin
  <2>3. CASE q \notin Gate
    BY <1>1, <2>1, <2>3 DEF F0, F1, Fanin
  <2> QED BY <2>1, <2>2, <2>3
<1> QED BY <1>2, <1>4

\* Gates that are the same stay the same.
LEMMA SameMerged ==
  ASSUME NEW c \in Circuit, WellFormed(c), NEW g \in Gates(c), NEW h \in Present(c),
         NEW m \in Present(c), NEW n \in Present(c), is_same_gate(c, m, n)
  PROVE  is_same_gate(ReplaceBy(c, g, h), m, n)
<1>1. PICK e : e = ReplaceBy(c, g, h)
  OBVIOUS
<1>2. \A q \in Present(c) : /\ OpOf(e, q) = OpOf(c, q)
                            /\ F0(e, q) = IF F0(c, q) = g THEN h ELSE F0(c, q)
                            /\ F1(e, q) = IF F1(c, q) = g THEN h ELSE F1(c, q)
  BY <1>1, MergeReads
<1>3. is_same_gate(e, m, n)
  BY <1>2 DEF is_same_gate, SameInputs, Sides
<1> QED BY <1>1, <1>3

\* The node that get_other_input() returns: one that g reads, and when it is x
\* itself, one that is the same as the other side.
LEMMA OtherInput ==
  ASSUME NEW c, NEW g, NEW t, NEW x, <<t, x>> \in Sides(c, g)
  PROVE  /\ get_other_input(c, g, x) \in {F0(c, g), F1(c, g)}
         /\ get_other_input(c, g, x) = t \/ (get_other_input(c, g, x) = x /\ is_same_gate(c, t, x))
<1>1. is_same_gate(c, x, x)
  BY DEF is_same_gate
<1> QED BY <1>1 DEF get_other_input, Sides

\* An XOR gate a of a cascade below g that reads, as well as g does, the node x
\* is replaced by its other side, and g by what the cascade then computes.
LEMMA SameInCascade ==
  ASSUME NEW c, Good(c), NEW g, NEW x \in Present(c), NEW A, NEW a,
         Thread(c, "XOR", g, x, A, a), Is(c, g, "XOR"),
         NEW s \in Sides(c, a), is_same_gate(c, s[1], x),
         NEW d, d = ReplaceBy(c, a, s[2]),
         NEW e, e = ReplaceBy(d, g, get_other_input(d, g, x))
  PROVE  Good(e) /\ Behaviour(e) = Behaviour(c)
<1>1. /\ c \in Circuit /\ WellFormed(c) /\ Acyclic(c) /\ 0 \in Pin /\ 1 \in Pin
      /\ A \subseteq Gates(c) /\ a \in A /\ g \in Gates(c) /\ g \notin A /\ x \notin A
      /\ Is(c, a, "XOR") /\ OpOf(c, a) \in BinOp
  BY DEF Good, Pin, Thread, Is, BinOp
<1>2. /\ s[1] \in Present(c) /\ s[2] \in Present(c) /\ s[2] \notin A /\ s[2] # g
      /\ s[2] \in {F0(c, a), F1(c, a)}
      /\ \A V : Models(c, V) => (True(V, a) <=> ~ (True(V, s[1]) <=> True(V, s[2])))
  <2>1. s[2] \in {F0(c, a), F1(c, a)}
    BY DEF Sides
  <2>2. s[2] # g /\ s[2] \notin A
    BY <2>1, ThreadEnds DEF Thread
  <2>3. a \in Present(c)
    BY <1>1, Nodes
  <2> QED BY <1>1, <2>1, <2>2, <2>3, SideOf
<1>3. Good(d) /\ Gates(d) = Gates(c) /\ Present(d) = Present(c) /\ d.op = c.op
  <2>1. Under(c, a, s[2])
    <3>1. \E p \in Pin : c.fanin[a][p] = s[2]
      BY <1>1, <1>2, BinaryFields
    <3> QED BY <1>1, <1>2, <3>1, UnderOwn, Nodes
  <2>2. s[2] \in Node /\ a # NULL
    BY <1>1, <1>2, Nodes
  <2> QED BY <1>1, <1>2, <2>1, <2>2, MergeFields, MergeGates, MergeKeepsWellFormed, MergeKeepsAcyclic
        DEF Good
<1>4. PICK z \in A : <<z, x>> \in Sides(c, g)
  BY DEF Thread
<1>5. PICK t : t = IF z = a THEN s[2] ELSE z
  OBVIOUS
<1>6. <<t, x>> \in Sides(d, g) /\ OpOf(d, g) = "XOR"
  <2>1. g \in Present(c) /\ a \in Gates(c) /\ OpOf(c, g) = "XOR"
    BY <1>1, Nodes DEF Is
  <2>2. /\ F0(d, g) = IF F0(c, g) = a THEN s[2] ELSE F0(c, g)
        /\ F1(d, g) = IF F1(c, g) = a THEN s[2] ELSE F1(c, g)
        /\ OpOf(d, g) = OpOf(c, g)
    BY <1>1, <1>2, <2>1, MergeReads
  <2>3. x # a
    BY <1>1
  <2> QED BY <1>4, <1>5, <2>1, <2>2, <2>3 DEF Sides
<1>7. PICK n : n = get_other_input(d, g, x)
  OBVIOUS
<1>8. n \in {F0(d, g), F1(d, g)} /\ (n = t \/ (n = x /\ is_same_gate(d, t, x)))
  BY <1>6, <1>7, OtherInput
<1>9. ASSUME NEW m \in {F0(d, g), F1(d, g)}
      PROVE  /\ m \in Present(c) /\ m # g /\ Good(ReplaceBy(d, g, m))
             /\ Gates(ReplaceBy(d, g, m)) = Gates(c) /\ ReplaceBy(d, g, m).op = c.op
             /\ \A k \in Gates(c), p \in Pin : ReplaceBy(d, g, m).fanin[k][p] =
                  IF d.fanin[k][p] = g THEN m ELSE d.fanin[k][p]
             /\ \A o \in Output : ReplaceBy(d, g, m).out[o] = IF d.out[o] = g THEN m ELSE d.out[o]
  <2>1. d \in Circuit /\ WellFormed(d) /\ Acyclic(d) /\ g \in Gates(d) /\ g # NULL /\ NULL \notin Present(d)
        /\ Gates(c) \subseteq Gate
    BY <1>1, <1>3, Nodes DEF Good
  <2>2. m \in Present(d)
    <3>1. g \in Present(d) /\ OpOf(d, g) \in BinOp
      BY <1>6, <2>1, Nodes DEF BinOp
    <3> QED BY <2>1, <3>1, View
  <2>3. Under(d, g, m)
    <3>1. \E p \in Pin : d.fanin[g][p] = m
      BY <1>1, <1>3, <2>1, BinaryFields
    <3> QED BY <1>3, <2>1, <2>2, <3>1, UnderOwn
  <2>4. m # g /\ m \in Node
    BY <2>1, <2>2, <2>3, UnderPresent, Nodes
  <2> QED BY <1>3, <2>1, <2>2, <2>3, <2>4, MergeFields, MergeGates, MergeKeepsWellFormed,
             MergeKeepsAcyclic DEF Good
<1>10. ASSUME NEW V \in Valuations(c)
       PROVE  \E W \in Valuations(e) : Outputs(e, W) = Outputs(c, V) /\ \A i \in Input : W[i] = V[i]
  <2> DEFINE flip == Val(V, x)
             W == [q \in Input \cup Gates(c) |->
                     IF q \in A \ {a} THEN V[q] # flip
                     ELSE IF q = g THEN V[q] # (flip # FALSE) ELSE V[q]]
  <2>1. /\ Models(c, V) /\ V \in [Input \cup Gates(c) -> BOOLEAN]
        /\ \A q \in Present(c) : Val(V, q) \in BOOLEAN
    BY <1>1, ValuationModels DEF Valuations, Models
  <2>2. flip \in BOOLEAN /\ W \in [Input \cup Gates(c) -> BOOLEAN]
    BY <2>1
  <2>3. /\ \A i \in Input : W[i] = V[i]
        /\ \A k \in Gates(c) : W[k] = IF k \in A \ {a} THEN V[k] # flip
                                      ELSE IF k = g THEN V[k] # (flip # FALSE) ELSE V[k]
    BY <1>1, Nodes
  <2>4. /\ \A q \in A \ {a} : Val(W, q) = (Val(V, q) # flip)
        /\ Val(W, g) = (Val(V, g) # flip)
        /\ \A q \in (Present(c) \cup {NULL}) \ (A \cup {g}) : Val(W, q) = Val(V, q)
        /\ Val(W, a) = Val(V, a)
    <3>1. \A q \in Gates(c) : Val(W, q) = W[q] /\ Val(V, q) = V[q]
      BY <1>1, Nodes DEF Val
    <3>2. \A q \in (Present(c) \cup {NULL}) \ Gates(c) : Val(W, q) = Val(V, q)
      <4>1. \A q \in Present(c) \ Gates(c) : q \in Const \/ q \in Input
        BY DEF Present
      <4> QED BY <2>3, <4>1 DEF Val, Const
    <3>3. (Val(V, g) # (flip # FALSE)) = (Val(V, g) # flip)
      BY <2>2
    <3> HIDE DEF W, flip
    <3> QED BY <1>1, <2>3, <3>1, <3>2, <3>3
  <2>5. Val(V, s[2]) = (Val(V, a) # flip)
    <3>1. True(V, s[1]) <=> True(V, x)
      BY <1>1, <1>2, <2>1, SameGate
    <3>2. True(V, a) <=> ~ (True(V, s[1]) <=> True(V, s[2]))
      BY <1>2, <2>1
    <3>3. Val(V, a) \in BOOLEAN /\ Val(V, s[2]) \in BOOLEAN /\ Val(V, s[1]) \in BOOLEAN
          /\ Val(V, x) \in BOOLEAN
      BY <1>1, <1>2, <2>1, Nodes
    <3> QED BY <3>1, <3>2, <3>3 DEF True
  <2>6. Val(V, g) = (Val(V, z) # Val(V, x))
    <3>1. True(V, g) <=> ~ (True(V, z) <=> True(V, x))
      <4>1. g \in Present(c) /\ OpOf(c, g) \in BinOp
        BY <1>1, Nodes DEF Is, BinOp
      <4> QED BY <1>1, <1>4, <2>1, <4>1, SideOf
    <3>2. Val(V, g) \in BOOLEAN /\ Val(V, z) \in BOOLEAN /\ Val(V, x) \in BOOLEAN
      BY <1>1, <2>1, Nodes
    <3> QED BY <3>1, <3>2 DEF True
  <2>7. Val(W, t) = Val(V, g)
    <3>1. CASE z = a
      <4>1. Val(W, t) = Val(V, s[2])
        BY <1>2, <1>5, <2>4, <3>1
      <4> HIDE DEF W
      <4> QED BY <2>5, <2>6, <3>1, <4>1
    <3>2. CASE z # a
      <4>1. Val(W, t) = (Val(V, z) # flip)
        BY <1>5, <2>4, <3>2
      <4> HIDE DEF W
      <4> QED BY <2>6, <4>1
    <3> QED BY <3>1, <3>2
  <2> HIDE DEF W, flip
  <2>8. ASSUME NEW m \in {F0(d, g), F1(d, g)}, Val(W, m) = Val(V, g)
        PROVE  /\ W \in Valuations(ReplaceBy(d, g, m))
               /\ Outputs(ReplaceBy(d, g, m), W) = Outputs(c, V)
    <3>1. PICK f : f = ReplaceBy(d, g, m)
      OBVIOUS
    <3>2. /\ f \in Circuit /\ Gates(f) = Gates(c) /\ f.op = c.op
          /\ \A k \in Gates(c), p \in Pin : f.fanin[k][p] =
                  IF d.fanin[k][p] = g THEN m ELSE d.fanin[k][p]
          /\ \A o \in Output : f.out[o] = IF d.out[o] = g THEN m ELSE d.out[o]
      BY <1>9, <3>1 DEF Good
    <3>3. /\ \A k \in Gates(c), p \in Pin : d.fanin[k][p] =
                  IF c.fanin[k][p] = a THEN s[2] ELSE c.fanin[k][p]
          /\ \A o \in Output : d.out[o] = IF c.out[o] = a THEN s[2] ELSE c.out[o]
      <4>1. s[2] \in Node /\ Gates(c) \subseteq Gate
        BY <1>1, <1>2, Nodes
      <4> QED BY <1>1, <4>1, MergeFields
    <3>4. /\ \A k \in Gates(c), p \in Pin : c.fanin[k][p] \in Present(c) \cup {NULL}
          /\ \A o \in Output : c.out[o] \in Present(c) /\ c.out[o] \notin A
      BY <1>1, Pins DEF WellFormed, Thread
    <3>5. ASSUME NEW r \in Present(c) \cup {NULL}, NEW r1, r1 = (IF r = a THEN s[2] ELSE r),
                 NEW r2, r2 = IF r1 = g THEN m ELSE r1
          PROVE  Val(W, r2) = IF r \in A THEN Val(V, r) # flip ELSE Val(V, r)
      <4>1. CASE r = a
        <5>1. r2 = s[2]
          BY <1>2, <3>5, <4>1
        <5>2. Val(W, r2) = Val(V, s[2])
          BY <1>2, <2>4, <5>1
        <5> QED BY <1>1, <2>5, <4>1, <5>2
      <4>2. CASE r # a /\ r = g
        <5>1. r2 = m
          BY <3>5, <4>2
        <5> QED BY <1>1, <2>8, <4>2, <5>1
      <4>3. CASE r # a /\ r # g
        <5>1. r2 = r
          BY <3>5, <4>3
        <5> QED BY <1>1, <2>4, <4>3, <5>1
      <4> QED BY <4>1, <4>2, <4>3
    <3>6. PinsFlipped(c, f, g, A, V, W, flip, FALSE)
      <4> SUFFICES ASSUME NEW k \in Gates(c), NEW p \in Pin
                   PROVE  Val(W, f.fanin[k][p]) =
                            IF c.fanin[k][p] \in A THEN Val(V, c.fanin[k][p]) # flip
                            ELSE IF k = g THEN Val(V, c.fanin[k][p]) # FALSE
                            ELSE Val(V, c.fanin[k][p])
        BY DEF PinsFlipped
      <4>1. c.fanin[k][p] \in Present(c) \cup {NULL}
        BY <3>4
      <4>2. Val(W, f.fanin[k][p]) =
              IF c.fanin[k][p] \in A THEN Val(V, c.fanin[k][p]) # flip ELSE Val(V, c.fanin[k][p])
        BY <3>2, <3>3, <3>5, <4>1
      <4>3. Val(V, c.fanin[k][p]) \in BOOLEAN
        BY <2>1, <4>1 DEF Val
      <4>4. (Val(V, c.fanin[k][p]) # FALSE) = Val(V, c.fanin[k][p])
        BY <4>3
      <4> QED BY <4>2, <4>4
    <3>7. \A o \in Output : Val(W, f.out[o]) = Val(V, c.out[o])
      BY <3>2, <3>3, <3>4, <3>5
    <3>8. W \in Valuations(f) /\ Outputs(f, W) = Outputs(c, V)
      <4>1. PICK other \in BOOLEAN : other = FALSE
        OBVIOUS
      <4>2. Flipped(c, g, A, a, V, W, flip, other)
        BY <2>3, <4>1 DEF Flipped
      <4>3. PinsFlipped(c, f, g, A, V, W, flip, other)
        BY <3>6, <4>1
      <4>4. /\ f \in Circuit /\ Gates(f) = Gates(c) /\ f.op = c.op
            /\ W \in [Input \cup Gates(c) -> BOOLEAN] /\ \A i \in Input : W[i] = V[i]
        BY <2>2, <2>3, <3>2
      <4> HIDE DEF W, flip
      <4> QED BY <4>2, <4>3, <4>4, <2>2, <3>7, FlipKeeps
    <3> QED BY <3>1, <3>8
  <2>9. t \in {F0(d, g), F1(d, g)} /\ x \in {F0(d, g), F1(d, g)}
    BY <1>6 DEF Sides
  <2>10. Val(W, n) = Val(V, g)
    <3>1. CASE n = t
      BY <2>7, <3>1
    <3>2. CASE n = x /\ is_same_gate(d, t, x)
      <4>1. PICK f : f = ReplaceBy(d, g, t)
        OBVIOUS
      <4>2. W \in Valuations(f) /\ f \in Circuit /\ WellFormed(f) /\ Gates(f) = Gates(c)
        BY <1>9, <2>7, <2>8, <2>9, <4>1 DEF Good
      <4>3. t \in Present(d) /\ x \in Present(d) /\ d \in Circuit /\ WellFormed(d) /\ g \in Gates(d)
        BY <1>1, <1>3, <1>9, <2>9 DEF Good
      <4>4. is_same_gate(f, t, x) /\ t \in Present(f) /\ x \in Present(f)
        BY <3>2, <4>1, <4>2, <4>3, SameMerged, MergeReads
      <4>5. Models(f, W)
        BY <4>2, ValuationModels
      <4>6. True(W, t) <=> True(W, x)
        BY <4>2, <4>4, <4>5, SameGate
      <4>7. Val(W, t) \in BOOLEAN /\ Val(W, x) \in BOOLEAN
        BY <4>4, <4>5 DEF Models
      <4> QED BY <2>7, <3>2, <4>6, <4>7 DEF True
    <3> QED BY <1>8, <3>1, <3>2
  <2>11. W \in Valuations(e) /\ Outputs(e, W) = Outputs(c, V)
    BY <1>7, <1>8, <2>8, <2>10
  <2> QED BY <2>3, <2>11
<1>11. Good(e)
  BY <1>7, <1>8, <1>9
<1>12. Behaviour(c) \subseteq Behaviour(e)
  <2> SUFFICES ASSUME NEW b \in Behaviour(c) PROVE b \in Behaviour(e)
    OBVIOUS
  <2>1. PICK V \in Valuations(c) : b = <<[i \in Input |-> V[i]], Outputs(c, V)>>
    BY DEF Behaviour
  <2>2. PICK W \in Valuations(e) : Outputs(e, W) = Outputs(c, V) /\ \A i \in Input : W[i] = V[i]
    BY <1>10
  <2>3. b = <<[i \in Input |-> W[i]], Outputs(e, W)>>
    BY <2>1, <2>2
  <2> QED BY <2>3 DEF Behaviour
<1> QED BY <1>11, <1>12, FunctionKept

\* The other direct match: a reads the negation of x, which only g reads.  a
\* is replaced by its other side, and g reads ONE_GATE in the place of x.
LEMMA NegatedInCascade ==
  ASSUME NEW c, Good(c), NEW g, NEW x \in Present(c), NEW A, NEW a,
         Thread(c, "XOR", g, x, A, a), Is(c, g, "XOR"), Single(c, x),
         NEW s \in Sides(c, a), is_NOT_same_gate(c, s[1], x),
         NEW d, d = ReplaceBy(c, a, s[2]), NEW e, e = ReplaceBy(d, x, ONE_GATE)
  PROVE  Good(e) /\ Behaviour(e) = Behaviour(c)
<1>1. /\ c \in Circuit /\ WellFormed(c) /\ Acyclic(c) /\ 0 \in Pin /\ 1 \in Pin
      /\ A \subseteq Gates(c) /\ a \in A /\ g \in Gates(c) /\ g \notin A /\ x \notin A
      /\ Is(c, a, "XOR") /\ OpOf(c, a) \in BinOp
  BY DEF Good, Pin, Thread, Is, BinOp
<1>2. PICK z \in A : <<z, x>> \in Sides(c, g)
  BY DEF Thread
<1>3. PICK p0 \in Pin : c.fanin[g][p0] = x
  BY <1>1, <1>2, BinaryFields DEF Sides
<1>4. /\ \A h \in Gates(c), q \in Pin : c.fanin[h][q] = x => h = g /\ q = p0
      /\ \A o \in Output : c.out[o] # x
  BY <1>1, <1>3, OneReader
<1>5. /\ s[1] \in Present(c) /\ s[2] \in Present(c) /\ s[2] \notin A /\ s[2] # g /\ s[2] # x
      /\ \A V : Models(c, V) => (True(V, a) <=> ~ (True(V, s[1]) <=> True(V, s[2])))
  <2>1. s[2] \in {F0(c, a), F1(c, a)}
    BY DEF Sides
  <2>2. s[2] # g /\ s[2] \notin A
    BY <2>1, ThreadEnds DEF Thread
  <2>3. a \in Present(c) /\ a \in Gates(c) /\ a # g
    BY <1>1, Nodes
  <2>4. \E p \in Pin : c.fanin[a][p] = s[2]
    BY <1>1, <2>1, <2>3, BinaryFields
  <2>5. s[2] # x
    BY <1>4, <2>3, <2>4
  <2> QED BY <1>1, <2>2, <2>3, <2>5, SideOf
<1>6. /\ \A q \in Pin : c.fanin[g][q] \in A \/ c.fanin[g][q] = x
      /\ \A k \in Gates(c) \ {g}, q \in Pin : c.fanin[k][q] # x
  <2>1. \A q \in Pin : c.fanin[g][q] \in A \/ c.fanin[g][q] = x
    BY <1>1, <1>2, BinaryFields DEF Sides, Pin
  <2> QED BY <1>4, <2>1
<1>7. Good(d) /\ Gates(d) = Gates(c) /\ Present(d) = Present(c) /\ d.op = c.op
  <2>1. Under(c, a, s[2])
    <3>1. s[2] \in {F0(c, a), F1(c, a)}
      BY DEF Sides
    <3>2. \E p \in Pin : c.fanin[a][p] = s[2]
      BY <1>1, <3>1, BinaryFields
    <3> QED BY <1>1, <1>5, <3>2, UnderOwn, Nodes
  <2>2. s[2] \in Node /\ a # NULL
    BY <1>1, <1>5, Nodes
  <2> QED BY <1>1, <1>5, <2>1, <2>2, MergeFields, MergeGates, MergeKeepsWellFormed, MergeKeepsAcyclic
        DEF Good
<1>8. Good(e) /\ e \in Circuit /\ Gates(e) = Gates(c) /\ e.op = c.op
  <2>1. d \in Circuit /\ WellFormed(d) /\ Acyclic(d) /\ ONE_GATE \in Present(d) /\ ONE_GATE \in Node /\ x # NULL
    BY <1>1, <1>7, Nodes DEF Good
  <2> QED BY <1>7, <2>1, MergeFields, MergeGates, MergeKeepsWellFormed, ConstKeepsAcyclic DEF Good
<1>9. ASSUME NEW V \in Valuations(c)
      PROVE  \E W \in Valuations(e) : Outputs(e, W) = Outputs(c, V) /\ \A i \in Input : W[i] = V[i]
  <2> DEFINE flip == Val(V, s[1])
             W == [q \in Input \cup Gates(c) |-> IF q \in A \ {a} THEN V[q] # flip ELSE V[q]]
  <2>1. /\ Models(c, V) /\ V \in [Input \cup Gates(c) -> BOOLEAN]
        /\ \A q \in Present(c) : Val(V, q) \in BOOLEAN
    BY <1>1, ValuationModels DEF Valuations, Models
  <2>2. flip \in BOOLEAN /\ W \in [Input \cup Gates(c) -> BOOLEAN]
    BY <1>5, <2>1
  <2>3. /\ \A i \in Input : W[i] = V[i]
        /\ \A k \in Gates(c) : W[k] = IF k \in A \ {a} THEN V[k] # flip ELSE V[k]
    BY <1>1, Nodes
  <2>4. \A q \in (Present(c) \cup {NULL}) \ (A \ {a}) : Val(W, q) = Val(V, q)
    <3>1. \A q \in Gates(c) : Val(W, q) = W[q] /\ Val(V, q) = V[q]
      BY <1>1, Nodes DEF Val
    <3>2. \A q \in (Present(c) \cup {NULL}) \ Gates(c) : Val(W, q) = Val(V, q)
      <4>1. \A q \in Present(c) \ Gates(c) : q \in Const \/ q \in Input
        BY DEF Present
      <4> QED BY <2>3, <4>1 DEF Val, Const
    <3> HIDE DEF W, flip
    <3> QED BY <1>1, <2>3, <3>1, <3>2
  <2>5. \A q \in A \ {a} : Val(W, q) = (Val(V, q) # flip)
    <3>1. \A q \in Gates(c) : Val(W, q) = W[q] /\ Val(V, q) = V[q]
      BY <1>1, Nodes DEF Val
    <3> HIDE DEF W, flip
    <3> QED BY <1>1, <2>3, <3>1
  <2>6. Val(V, s[2]) = (Val(V, a) # flip)
    <3>1. True(V, a) <=> ~ (True(V, s[1]) <=> True(V, s[2]))
      BY <1>5, <2>1
    <3>2. Val(V, a) \in BOOLEAN /\ Val(V, s[2]) \in BOOLEAN /\ Val(V, s[1]) \in BOOLEAN
      BY <1>1, <1>5, <2>1, Nodes
    <3> QED BY <3>1, <3>2 DEF True
  <2>7. (Val(V, x) # flip) = TRUE
    <3>1. True(V, s[1]) <=> ~ True(V, x)
      BY <1>1, <1>5, <2>1, OppositeGate
    <3>2. Val(V, s[1]) \in BOOLEAN /\ Val(V, x) \in BOOLEAN
      BY <1>5, <2>1
    <3> QED BY <3>1, <3>2 DEF True
  <2> HIDE DEF W, flip
  <2>8. Flipped(c, g, A, a, V, W, flip, flip)
    <3>1. (V[g] # (flip # flip)) = V[g]
      BY <1>1, <2>1
    <3> QED BY <1>1, <2>1, <2>2, <2>3 DEF Flipped
  <2>9. /\ \A k \in Gates(c), p \in Pin : e.fanin[k][p] = IF d.fanin[k][p] = x THEN ONE_GATE ELSE d.fanin[k][p]
        /\ \A o \in Output : e.out[o] = IF d.out[o] = x THEN ONE_GATE ELSE d.out[o]
        /\ \A k \in Gates(c), p \in Pin : d.fanin[k][p] = IF c.fanin[k][p] = a THEN s[2] ELSE c.fanin[k][p]
        /\ \A o \in Output : d.out[o] = IF c.out[o] = a THEN s[2] ELSE c.out[o]
    <3>1. s[2] \in Node /\ Gates(c) \subseteq Gate /\ ONE_GATE \in Node
      BY <1>1, <1>5, Nodes
    <3> QED BY <1>1, <1>7, <3>1, MergeFields DEF Good
  <2>10. /\ \A k \in Gates(c), p \in Pin : c.fanin[k][p] \in Present(c) \cup {NULL}
         /\ \A o \in Output : c.out[o] \in Present(c) /\ c.out[o] \notin A
    BY <1>1, Pins DEF WellFormed, Thread
  <2>11. PinsFlipped(c, e, g, A, V, W, flip, flip)
    <3> SUFFICES ASSUME NEW k \in Gates(c), NEW p \in Pin
                 PROVE  Val(W, e.fanin[k][p]) = IF c.fanin[k][p] \in A THEN Val(V, c.fanin[k][p]) # flip
                                                ELSE IF k = g THEN Val(V, c.fanin[k][p]) # flip
                                                ELSE Val(V, c.fanin[k][p])
      BY DEF PinsFlipped
    <3>1. PICK r \in Present(c) \cup {NULL} : r = c.fanin[k][p]
      BY <2>10
    <3>2. CASE r = a
      <4>0. c.fanin[k][p] = a /\ s[2] # x
        BY <1>5, <3>1, <3>2
      <4>3. d.fanin[k][p] = s[2]
        BY <2>9, <4>0
      <4>1. e.fanin[k][p] = s[2]
        BY <2>9, <4>0, <4>3
      <4>2. Val(W, s[2]) = Val(V, s[2])
        BY <1>5, <2>4
      <4> QED BY <1>1, <2>6, <3>1, <3>2, <4>1, <4>2
    <3>3. CASE r \in A \ {a}
      <4>1. e.fanin[k][p] = r
        BY <1>1, <2>9, <3>1, <3>3
      <4> QED BY <2>5, <3>1, <3>3, <4>1
    <3>4. CASE r \notin A /\ k = g
      <4>1. r = x /\ e.fanin[k][p] = ONE_GATE
        BY <1>1, <1>6, <2>9, <3>1, <3>4
      <4>2. Val(W, ONE_GATE) = TRUE
        BY DEF Val
      <4> QED BY <2>7, <3>1, <3>4, <4>1, <4>2
    <3>5. CASE r \notin A /\ k # g
      <4>1. e.fanin[k][p] = r
        BY <1>1, <1>6, <2>9, <3>1, <3>5
      <4> QED BY <2>4, <3>1, <3>5, <4>1
    <3> QED BY <1>1, <3>2, <3>3, <3>4, <3>5
  <2>12. \A o \in Output : Val(W, e.out[o]) = Val(V, c.out[o])
    <3> SUFFICES ASSUME NEW o \in Output PROVE Val(W, e.out[o]) = Val(V, c.out[o])
      OBVIOUS
    <3>1. c.out[o] \in Present(c) /\ c.out[o] \notin A /\ c.out[o] # x
      BY <1>4, <2>10
    <3>2. e.out[o] = c.out[o]
      BY <1>1, <2>9, <3>1
    <3> QED BY <2>4, <3>1, <3>2
  <2>13. W \in Valuations(e) /\ Outputs(e, W) = Outputs(c, V)
    BY <1>8, <2>2, <2>3, <2>8, <2>11, <2>12, FlipKeeps
  <2> QED BY <2>3, <2>13
<1>10. Behaviour(c) \subseteq Behaviour(e)
  <2> SUFFICES ASSUME NEW b \in Behaviour(c) PROVE b \in Behaviour(e)
    OBVIOUS
  <2>1. PICK V \in Valuations(c) : b = <<[i \in Input |-> V[i]], Outputs(c, V)>>
    BY DEF Behaviour
  <2>2. PICK W \in Valuations(e) : Outputs(e, W) = Outputs(c, V) /\ \A i \in Input : W[i] = V[i]
    BY <1>9
  <2>3. b = <<[i \in Input |-> W[i]], Outputs(e, W)>>
    BY <2>1, <2>2
  <2> QED BY <2>3 DEF Behaviour
<1> QED BY <1>8, <1>10, FunctionKept

\* In a tree of ORs, a gate b that implies y, the other side of g, repeats what
\* g reads, or negates it.
LEMMA MatchedAtRoot ==
  ASSUME NEW c, Good(c), NEW g \in Gates(c), Is(c, g, "OR"), NEW x, NEW y, <<x, y>> \in Sides(c, g),
         NEW a \in Present(c), \A V : Models(c, V) => (True(V, a) => True(V, y)),
         NEW n, \/ is_same_gate(c, a, x) /\ n = get_other_input(c, g, x)
                \/ is_NOT_same_gate(c, a, x) /\ n = ONE_GATE,
         NEW e, e = ReplaceBy(c, g, n)
  PROVE  Good(e) /\ Behaviour(e) = Behaviour(c)
<1>1. c \in Circuit /\ WellFormed(c) /\ g \in Present(c) /\ OpOf(c, g) \in BinOp /\ ONE_GATE \in Present(c)
  BY Nodes DEF Good, Is, BinOp
<1>2. /\ x \in Present(c) /\ y \in Present(c)
      /\ \A V : Models(c, V) => (True(V, g) <=> True(V, x) \/ True(V, y))
  BY <1>1, SideOf
<1>3. ASSUME NEW V, Models(c, V) PROVE True(V, g) <=> True(V, n)
  <2>1. (True(V, g) <=> True(V, x) \/ True(V, y)) /\ (True(V, a) => True(V, y))
    BY <1>2, <1>3
  <2>2. CASE is_same_gate(c, a, x) /\ n = get_other_input(c, g, x)
    <3>1. True(V, a) <=> True(V, x)
      BY <1>1, <1>2, <1>3, <2>2, SameGate
    <3>2. <<y, x>> \in Sides(c, g)
      BY DEF Sides
    <3>3. n = y \/ (n = x /\ is_same_gate(c, y, x))
      BY <2>2, <3>2, OtherInput
    <3>4. is_same_gate(c, y, x) => (True(V, y) <=> True(V, x))
      BY <1>1, <1>2, <1>3, SameGate
    <3> QED BY <2>1, <3>1, <3>3, <3>4
  <2>3. CASE is_NOT_same_gate(c, a, x) /\ n = ONE_GATE
    <3>1. True(V, a) <=> ~ True(V, x)
      BY <1>1, <1>2, <1>3, <2>3, OppositeGate
    <3>2. True(V, n)
      BY <2>3 DEF True, Val
    <3> QED BY <2>1, <3>1, <3>2
  <2> QED BY <2>2, <2>3
<1>4. n \in Present(c) /\ (n \in Const \/ Under(c, g, n))
  <2>1. CASE n = ONE_GATE
    BY <1>1, <2>1 DEF Const
  <2>2. CASE n = get_other_input(c, g, x)
    <3>1. n \in {F0(c, g), F1(c, g)} /\ n \in Present(c)
      BY <1>2, <2>2 DEF get_other_input, Sides
    <3>2. \E p \in Pin : c.fanin[g][p] = n
      BY <3>1, BinaryFields DEF Pin
    <3> QED BY <1>1, <3>1, <3>2, UnderOwn, Nodes
  <2> QED BY <2>1, <2>2
<1>5. PICK m : m = Match(c, n)
  OBVIOUS
<1>6. Replaces(c, g, m, 0) /\ Sinks(c, g, m) /\ e = ReplaceBy(m.c, g, m.n)
  <2>1. Direct(c, g, m)
    BY <1>3, <1>4, <1>5, DirectMatch
  <2>2. Sinks(c, g, m)
    BY <1>4, <1>5, MatchSinks
  <2>3. e = ReplaceBy(m.c, g, m.n)
    BY <1>5 DEF Match
  <2> QED BY <1>1, <2>1, <2>2, <2>3, DirectReplaces
<1> QED BY <1>6, ReplacedGood

\* In a line of ORs that nothing else reads, the gate at the end may be
\* replaced by what it is equal to whenever y, the other side of g, is false:
\* when y is true g does not depend on the line.
LEMMA MatchedInTree ==
  ASSUME NEW c, Good(c), NEW g, NEW y, NEW A, NEW b, Thread(c, "OR", g, y, A, b), Is(c, g, "OR"),
         NEW n \in Present(c), n \notin A, Under(c, b, n),
         \A V : Models(c, V) /\ ~ True(V, y) => (True(V, b) <=> True(V, n)),
         NEW d, d = ReplaceBy(c, b, n)
  PROVE  Good(d) /\ Behaviour(d) = Behaviour(c)
<1>1. /\ c \in Circuit /\ WellFormed(c) /\ Acyclic(c) /\ 0 \in Pin /\ 1 \in Pin
      /\ A \subseteq Gates(c) /\ b \in A /\ g \in Gates(c) /\ g \notin A /\ y \notin A
  BY DEF Good, Pin, Thread
<1>2. n \in Node /\ b # NULL /\ Gates(c) \subseteq Gate
  BY <1>1, Nodes
<1>3. /\ Good(d) /\ Gates(d) = Gates(c) /\ d.op = c.op
      /\ \A k \in Gates(c), p \in Pin : d.fanin[k][p] = IF c.fanin[k][p] = b THEN n ELSE c.fanin[k][p]
      /\ \A o \in Output : d.out[o] = IF c.out[o] = b THEN n ELSE c.out[o]
  BY <1>1, <1>2, MergeFields, MergeGates, MergeKeepsWellFormed, MergeKeepsAcyclic DEF Good
<1>4. PICK z \in A : <<z, y>> \in Sides(c, g)
  BY DEF Thread
<1>5. y \in Present(c) /\ \E p \in Pin : c.fanin[g][p] = y
  <2>1. g \in Present(c) /\ OpOf(c, g) \in BinOp
    BY <1>1, Nodes DEF Is, BinOp
  <2>2. \E p \in Pin : c.fanin[g][p] = y
    BY <1>1, <1>4, BinaryFields DEF Sides
  <2> QED BY <1>1, <1>4, <2>1, <2>2, SideOf
<1>6. /\ \A k \in Gates(c) \ (A \cup {g}), p \in Pin : c.fanin[k][p] \notin A
      /\ \A o \in Output : c.out[o] \notin A
  BY DEF Thread
<1>7. ASSUME NEW V \in Valuations(c)
      PROVE  \E W \in Valuations(d) : Outputs(d, W) = Outputs(c, V) /\ \A i \in Input : W[i] = V[i]
  <2>1. /\ Models(c, V) /\ V \in [Input \cup Gates(c) -> BOOLEAN] /\ Consistent(c, V)
        /\ \A q \in Present(c) : Val(V, q) \in BOOLEAN
    BY <1>1, ValuationModels DEF Valuations, Models
  <2>2. PICK W \in Valuations(d) : \A i \in Input : W[i] = V[i]
    <3>1. [i \in Input |-> V[i]] \in [Input -> BOOLEAN]
      BY <2>1
    <3> QED BY <1>3, <3>1, SomeValuation
  <2>3. W \in [Input \cup Gates(c) -> BOOLEAN] /\ Consistent(d, W)
    BY <1>3 DEF Valuations
  <2>4. PICK S \in SUBSET Gates(c) :
          \A k \in Gates(c) : k \in S <=> V[k] # W[k] /\ (k \in A => ~ Val(V, y))
    <3>1. {k \in Gates(c) : V[k] # W[k] /\ (k \in A => ~ Val(V, y))} \in SUBSET Gates(c)
      OBVIOUS
    <3> QED BY <3>1
  <2>5. ASSUME NEW q \in Present(c) \cup {NULL}, q \notin S, q \in A => ~ Val(V, y)
        PROVE  Val(W, q) = Val(V, q)
    <3>1. CASE q \in Gates(c)
      <4>1. Val(W, q) = W[q] /\ Val(V, q) = V[q]
        BY <1>1, <3>1, Nodes DEF Val
      <4> QED BY <2>4, <2>5, <3>1, <4>1
    <3>2. CASE q \notin Gates(c)
      <4>1. q \in Const \/ q \in Input \/ q = NULL
        BY <2>5, <3>2 DEF Present
      <4> QED BY <2>2, <4>1 DEF Val, Const
    <3> QED BY <3>1, <3>2
  <2>6. ASSUME NEW k \in S, \A p \in Pin : d.fanin[k][p] \notin S PROVE FALSE
    <3>1. /\ k \in Gates(c) /\ V[k] # W[k] /\ (k \in A => ~ Val(V, y))
          /\ V[k] = Apply(c.op[k], Val(V, c.fanin[k][0]), Val(V, c.fanin[k][1]))
          /\ W[k] = Apply(c.op[k], Val(W, d.fanin[k][0]), Val(W, d.fanin[k][1]))
      BY <1>3, <2>1, <2>3, <2>4 DEF Consistent
    <3>2. \A p \in Pin : c.fanin[k][p] \in Present(c) \cup {NULL}
      BY <1>1, <3>1, Pins
    <3>3. ASSUME NEW p \in Pin, c.fanin[k][p] \notin A \/ ~ Val(V, y)
          PROVE  Val(W, d.fanin[k][p]) = Val(V, c.fanin[k][p])
      <4>1. CASE c.fanin[k][p] = b
        <5>1. d.fanin[k][p] = n /\ n \notin S
          BY <1>3, <2>6, <3>1, <4>1
        <5>2. Val(W, n) = Val(V, n)
          BY <2>5, <5>1
        <5>3. ~ Val(V, y)
          BY <1>1, <3>3, <4>1
        <5>4. ~ True(V, y)
          BY <5>3 DEF True
        <5>5. True(V, b) <=> True(V, n)
          BY <2>1, <5>4
        <5>6. Val(V, b) \in BOOLEAN /\ Val(V, n) \in BOOLEAN
          BY <1>1, <2>1, Nodes
        <5> QED BY <4>1, <5>1, <5>2, <5>5, <5>6 DEF True
      <4>2. CASE c.fanin[k][p] # b
        <5>1. d.fanin[k][p] = c.fanin[k][p] /\ c.fanin[k][p] \notin S
          BY <1>3, <2>6, <3>1, <4>2
        <5> QED BY <2>5, <3>2, <3>3, <5>1
      <4> QED BY <4>1, <4>2
    <3>4. (\A p \in Pin : c.fanin[k][p] \notin A) \/ ~ Val(V, y) => FALSE
      <4> SUFFICES ASSUME (\A p \in Pin : c.fanin[k][p] \notin A) \/ ~ Val(V, y) PROVE FALSE
        OBVIOUS
      <4>1. Val(W, d.fanin[k][0]) = Val(V, c.fanin[k][0]) /\ Val(W, d.fanin[k][1]) = Val(V, c.fanin[k][1])
        BY <1>1, <3>3
      <4> QED BY <3>1, <4>1
    <3>5. Val(V, y) /\ k = g
      BY <1>6, <3>1, <3>4
    <3>6. PICK p \in Pin : c.fanin[g][p] = y
      BY <1>5
    <3>7. Val(W, d.fanin[g][p]) = TRUE /\ Val(V, c.fanin[g][p]) = TRUE
      <4>1. Val(W, d.fanin[g][p]) = Val(V, c.fanin[g][p])
        BY <1>1, <3>3, <3>5, <3>6
      <4>2. Val(V, y) = TRUE
        BY <1>5, <2>1, <3>5
      <4> QED BY <3>6, <4>1, <4>2
    <3>8. c.op[g] = "OR"
      BY <1>1, <1>2 DEF Is, OpOf
    <3>9. Apply("OR", Val(V, c.fanin[g][0]), Val(V, c.fanin[g][1])) = TRUE
      <4>1. Val(V, c.fanin[g][0]) = TRUE \/ Val(V, c.fanin[g][1]) = TRUE
        BY <3>7 DEF Pin
      <4> QED BY <4>1 DEF Apply
    <3>10. Apply("OR", Val(W, d.fanin[g][0]), Val(W, d.fanin[g][1])) = TRUE
      <4>1. Val(W, d.fanin[g][0]) = TRUE \/ Val(W, d.fanin[g][1]) = TRUE
        BY <3>7 DEF Pin
      <4> QED BY <4>1 DEF Apply
    <3> QED BY <3>1, <3>5, <3>8, <3>9, <3>10
  <2>7. S = {}
    <3> SUFFICES ASSUME S # {} PROVE FALSE
      OBVIOUS
    <3>1. \A k \in S : \E p \in Pin : d.fanin[k][p] \in S
      BY <2>6
    <3> QED BY <1>3, <3>1 DEF Good, Acyclic
  <2>8. \A o \in Output : Val(W, d.out[o]) = Val(V, c.out[o])
    <3> SUFFICES ASSUME NEW o \in Output PROVE Val(W, d.out[o]) = Val(V, c.out[o])
      OBVIOUS
    <3>1. c.out[o] \notin A /\ c.out[o] \in Present(c)
      BY <1>1, <1>6 DEF WellFormed
    <3>2. d.out[o] = c.out[o]
      BY <1>1, <1>3, <3>1
    <3> QED BY <2>5, <2>7, <3>1, <3>2
  <2>9. Outputs(d, W) = Outputs(c, V)
    BY <2>8 DEF Outputs
  <2> QED BY <2>2, <2>9
<1>8. Behaviour(c) \subseteq Behaviour(d)
  <2> SUFFICES ASSUME NEW v \in Behaviour(c) PROVE v \in Behaviour(d)
    OBVIOUS
  <2>1. PICK V \in Valuations(c) : v = <<[i \in Input |-> V[i]], Outputs(c, V)>>
    BY DEF Behaviour
  <2>2. PICK W \in Valuations(d) : Outputs(d, W) = Outputs(c, V) /\ \A i \in Input : W[i] = V[i]
    BY <1>7
  <2>3. v = <<[i \in Input |-> W[i]], Outputs(d, W)>>
    BY <2>1, <2>2
  <2> QED BY <2>3 DEF Behaviour
<1> QED BY <1>3, <1>8, FunctionKept

----------------------------------------------------------------------------
(* Where the search goes, and what it finds there.                         *)

\* A set of gates below g, with g, that has every gate of g's operation that
\* one of them reads, and nothing else reads those.
Private(c, g, T) ==
  /\ T \subseteq Gates(c) /\ g \in T
  /\ \A h \in T : \A q \in {F0(c, h), F1(c, h)} : Is(c, q, OpOf(c, g)) => q \in T /\ Single(c, q)

\* The tree of g's operation below g is g's own.
OwnTree(c, g) == \E T \in SUBSET Gates(c) : Private(c, g, T)

\* A call in a cascade of XORs: x is the one side of g, and a line of XORs leads
\* from g to a unless the call returns at once.
XorPlace(c, g, x0, x, a, parent) ==
  /\ parent = g /\ x = x0 /\ x0 \in Present(c) /\ a \in Present(c) /\ Is(c, g, "XOR")
  /\ Is(c, a, "XOR") /\ Single(c, a) => \E A : Thread(c, "XOR", g, x0, A, a)

\* A call in trees of ORs: a implies the other side a0 of g, and x is read by
\* parent, which is g or the end of a line of ORs.
OrPlace(c, g, x0, a0, x, a, parent) ==
  /\ x \in Present(c) /\ a \in Present(c) /\ parent \in Gates(c)
  /\ Is(c, g, "OR") /\ <<x0, a0>> \in Sides(c, g)
  /\ \A V : Models(c, V) => (True(V, a) => True(V, a0))
  /\ Under(c, g, x)
  /\ \/ parent = g /\ x = x0
     \/ /\ parent # g /\ Is(c, parent, "OR") /\ x \in {F0(c, parent), F1(c, parent)}
        /\ \A T : Private(c, g, T) => parent \in T /\ \E A : Thread(c, "OR", g, a0, A, parent)

Place(c, op, g, x0, a0, x, a, parent) ==
  /\ op = "XOR" => XorPlace(c, g, x0, x, a, parent)
  /\ op = "OR" => OrPlace(c, g, x0, a0, x, a, parent)

\* What a match may do: no cycle, a gate that nothing reads any more, and the
\* same function unless a tree of ORs is changed in which others take part.
FoundRight(c, op, g, e) ==
  /\ Good(e) /\ Spent(e)
  /\ op = "XOR" \/ OwnTree(c, g) \/ (\E n \in Node : e = ReplaceBy(c, g, n)) =>
       Behaviour(e) = Behaviour(c)

\* What a gate with two pins reads.
LEMMA ReadsPin ==
  ASSUME NEW c, Good(c), NEW k \in Gates(c), OpOf(c, k) \in BinOp, NEW n \in {F0(c, k), F1(c, k)}
  PROVE  n \in Present(c) /\ n # k /\ Under(c, k, n) /\ \E p \in Pin : c.fanin[k][p] = n
<1>1. c \in Circuit /\ WellFormed(c) /\ k \in Present(c) /\ 0 \in Pin /\ 1 \in Pin /\ NULL \notin Present(c)
  BY Nodes DEF Good, Pin
<1>2. n \in Present(c)
  BY <1>1, View
<1>3. PICK p \in Pin : c.fanin[k][p] = n
  BY <1>1, BinaryFields
<1>4. Under(c, k, n)
  BY <1>1, <1>2, <1>3, UnderOwn
<1> QED BY <1>2, <1>3, <1>4, UnderPresent

\* The search starts at g.
LEMMA PlaceStart ==
  ASSUME NEW c, Good(c), NEW g \in Gates(c), NEW op \in {"OR", "XOR"}, Is(c, g, op),
         NEW x0, NEW a0, <<x0, a0>> \in Sides(c, g)
  PROVE  Place(c, op, g, x0, a0, x0, a0, g)
<1>1. c \in Circuit /\ WellFormed(c) /\ OpOf(c, g) \in BinOp
  BY DEF Good, Is, BinOp
<1>2. x0 \in {F0(c, g), F1(c, g)} /\ a0 \in {F0(c, g), F1(c, g)} /\ <<a0, x0>> \in Sides(c, g)
  BY DEF Sides
<1>3. x0 \in Present(c) /\ a0 \in Present(c) /\ Under(c, g, x0)
  BY <1>1, <1>2, ReadsPin
<1>4. op = "OR" => OrPlace(c, g, x0, a0, x0, a0, g)
  BY <1>3 DEF OrPlace
<1>5. op = "XOR" => XorPlace(c, g, x0, x0, a0, g)
  <2> SUFFICES ASSUME op = "XOR", Is(c, a0, "XOR"), Single(c, a0)
               PROVE  \E A : Thread(c, "XOR", g, x0, A, a0)
    BY <1>3 DEF XorPlace
  <2>1. a0 \in Gates(c)
    BY <1>1, <1>3, View DEF Is, BinOp
  <2> QED BY <1>2, <2>1, ThreadStart
<1> QED BY <1>4, <1>5 DEF Place

\* It goes down on a's side.
LEMMA PlaceDown ==
  ASSUME NEW c, Good(c), NEW g \in Gates(c), NEW op \in {"OR", "XOR"}, NEW x0, NEW a0,
         NEW x, NEW a, NEW parent, Place(c, op, g, x0, a0, x, a, parent),
         Is(c, a, op), op = "XOR" => Single(c, a), NEW u \in {F0(c, a), F1(c, a)}
  PROVE  Place(c, op, g, x0, a0, x, u, parent)
<1>1. c \in Circuit /\ WellFormed(c) /\ OpOf(c, a) \in BinOp
  BY DEF Good, Is, BinOp
<1>2. a \in Present(c)
  BY DEF Place, XorPlace, OrPlace
<1>3. a \in Gates(c)
  BY <1>1, <1>2, View
<1>4. u \in Present(c) /\ \E p \in Pin : c.fanin[a][p] = u
  BY <1>1, <1>3, ReadsPin
<1>5. CASE op = "OR"
  <2>1. OrPlace(c, g, x0, a0, x, a, parent)
    BY <1>5 DEF Place
  <2>2. ASSUME NEW V, Models(c, V), True(V, u) PROVE True(V, a0)
    <3>1. PICK w : <<u, w>> \in Sides(c, a)
      BY DEF Sides
    <3>2. True(V, a) <=> True(V, u) \/ True(V, w)
      BY <1>1, <1>2, <1>5, <2>2, <3>1, SideOf
    <3> QED BY <2>1, <2>2, <3>2 DEF OrPlace
  <2>3. OrPlace(c, g, x0, a0, x, u, parent)
    BY <1>4, <2>1, <2>2 DEF OrPlace
  <2> QED BY <1>5, <2>3 DEF Place
<1>6. CASE op = "XOR"
  <2>1. XorPlace(c, g, x0, x, a, parent) /\ Is(c, a, "XOR") /\ Single(c, a)
    BY <1>6 DEF Place
  <2>2. PICK A : Thread(c, "XOR", g, x0, A, a)
    BY <2>1 DEF XorPlace
  <2>3. ASSUME Is(c, u, "XOR"), Single(c, u) PROVE \E B : Thread(c, "XOR", g, x0, B, u)
    <3>1. u \in Gates(c)
      BY <1>1, <1>4, <2>3, View DEF Is, BinOp
    <3>2. g # u /\ a # g
      BY <2>2, ThreadEnds
    <3>3. x0 # u
      <4>1. x0 \in {F0(c, g), F1(c, g)} /\ OpOf(c, g) \in BinOp
        BY <2>1, <2>2 DEF Thread, Sides, XorPlace, Is, BinOp
      <4>2. \E p \in Pin : c.fanin[g][p] = x0
        BY <4>1, ReadsPin
      <4>3. \A h \in Gates(c), q \in Pin : c.fanin[h][q] = u => h = a
        BY <1>1, <1>3, <1>4, <2>3, OneReader
      <4> QED BY <3>2, <4>2, <4>3
    <3> QED BY <2>2, <2>3, <3>1, <3>2, <3>3, ThreadMore
  <2>4. XorPlace(c, g, x0, x, u, parent)
    BY <1>4, <2>1, <2>3 DEF XorPlace
  <2> QED BY <1>6, <2>4 DEF Place
<1> QED BY <1>5, <1>6

\* And, in trees of ORs, down on x's side, with x as the parent.
LEMMA PlaceBelow ==
  ASSUME NEW c, Good(c), NEW g \in Gates(c), NEW x0, NEW a0,
         NEW x, NEW a, NEW parent, Place(c, "OR", g, x0, a0, x, a, parent),
         Is(c, x, "OR"), NEW u \in {F0(c, x), F1(c, x)}
  PROVE  Place(c, "OR", g, x0, a0, u, a, x)
<1>1. c \in Circuit /\ WellFormed(c) /\ OpOf(c, x) \in BinOp /\ OrPlace(c, g, x0, a0, x, a, parent)
  BY DEF Good, Is, BinOp, Place
<1>2. x \in Present(c) /\ Under(c, g, x) /\ x # g
  BY <1>1, UnderPresent DEF OrPlace
<1>3. x \in Gates(c)
  BY <1>1, <1>2, View
<1>4. u \in Present(c) /\ \E p \in Pin : c.fanin[x][p] = u
  BY <1>1, <1>3, ReadsPin
<1>5. Under(c, g, u)
  BY <1>1, <1>2, <1>3, <1>4, UnderRead, Nodes
<1>6. ASSUME NEW T, Private(c, g, T) PROVE x \in T /\ \E A : Thread(c, "OR", g, a0, A, x)
  <2>0. /\ Is(c, g, "OR") /\ <<x0, a0>> \in Sides(c, g) /\ OpOf(c, g) = "OR" /\ g \in T
        /\ x0 \in {F0(c, g), F1(c, g)} /\ a0 \in {F0(c, g), F1(c, g)}
    BY <1>1, <1>6 DEF OrPlace, Sides, Is, Private
  <2>1. CASE parent = g /\ x = x0
    <3>1. x \in T /\ Single(c, x)
      BY <1>6, <2>0, <2>1 DEF Private
    <3> QED BY <1>3, <2>0, <2>1, <3>1, ThreadStart
  <2>2. CASE ~ (parent = g /\ x = x0)
    <3>1. /\ parent \in Gates(c) /\ parent # g /\ Is(c, parent, "OR") /\ parent \in T
          /\ x \in {F0(c, parent), F1(c, parent)}
      BY <1>1, <1>6, <2>2 DEF OrPlace
    <3>2. PICK A : Thread(c, "OR", g, a0, A, parent)
      BY <1>1, <1>6, <2>2 DEF OrPlace
    <3>3. x \in T /\ Single(c, x)
      BY <1>6, <2>0, <3>1 DEF Private
    <3>4. a0 # x
      <4>1. \E p \in Pin : c.fanin[g][p] = a0
        BY <2>0, ReadsPin DEF BinOp
      <4>2. \E p \in Pin : c.fanin[parent][p] = x
        BY <3>1, ReadsPin DEF BinOp, Is
      <4>3. \A h \in Gates(c), q \in Pin : c.fanin[h][q] = x => h = parent
        BY <1>1, <3>1, <3>3, <4>2, OneReader
      <4> QED BY <3>1, <4>1, <4>3
    <3> QED BY <1>2, <1>3, <3>1, <3>2, <3>3, <3>4, ThreadMore
  <2> QED BY <2>1, <2>2
<1> QED BY <1>1, <1>2, <1>3, <1>4, <1>5, <1>6 DEF Place, OrPlace

\* A match in a cascade of XORs keeps the function.
LEMMA XorMatch ==
  ASSUME NEW c, Good(c), NEW g \in Gates(c), NEW round2, NEW x0, NEW x, NEW a, NEW parent,
         XorPlace(c, g, x0, x, a, parent), Is(c, a, "XOR") => Single(c, a),
         NEW e \in rek_match(c, x, a, parent, "XOR", round2)
  PROVE  Good(e) /\ Behaviour(e) = Behaviour(c) /\ Spent(e)
<1>1. PICK s \in Sides(c, a) : /\ Is(c, a, "XOR")
        /\ \/ /\ is_same_gate(c, s[1], x)
              /\ e = ReplaceBy(ReplaceBy(c, a, s[2]), parent,
                               get_other_input(ReplaceBy(c, a, s[2]), parent, x))
           \/ /\ is_NOT_same_gate(c, s[1], x) /\ Single(c, x)
              /\ e = ReplaceBy(ReplaceBy(c, a, s[2]), x, ONE_GATE)
  BY DEF rek_match, ||
<1>2. PICK A : Thread(c, "XOR", g, x, A, a)
  BY <1>1 DEF XorPlace
<1>3. parent = g /\ x \in Present(c) /\ Is(c, g, "XOR")
  BY DEF XorPlace
<1>4. PICK d : d = ReplaceBy(c, a, s[2])
  OBVIOUS
<1>7. /\ c \in Circuit /\ WellFormed(c) /\ a \in Gates(c) /\ OpOf(c, a) \in BinOp
      /\ ONE_GATE \in Node /\ ONE_GATE \notin Gates(c)
  <2>1. a \in Node
    BY Nodes DEF XorPlace, Good
  <2> QED BY <1>1, <2>1, OpIsGate, Nodes DEF Good, Is, BinOp
<1>8. s[2] \in Present(c) /\ s[2] # a
  <2>1. s[2] \in {F0(c, a), F1(c, a)}
    BY DEF Sides
  <2> QED BY <1>7, <2>1, ReadsPin
<1>9. Unread(d, a)
  BY <1>4, <1>7, <1>8, Nodes, ReplacedUnread
<1>10. /\ d \in Circuit /\ WellFormed(d) /\ Gates(d) = Gates(c) /\ Present(d) = Present(c)
       /\ OpOf(d, g) = OpOf(c, g)
  BY <1>4, <1>7, <1>8, Nodes, MergeReads
<1>11. ASSUME NEW k, NEW n \in Node, n # a, e = ReplaceBy(d, k, n) PROVE Spent(e)
  <2>1. Unread(e, a)
    BY <1>9, <1>10, <1>11, StaysUnread
  <2>2. a \in Gates(e)
    BY <1>7, <1>10, <1>11, MergeGates
  <2> QED BY <2>1, <2>2 DEF Spent
<1>5. CASE is_same_gate(c, s[1], x) /\ e = ReplaceBy(d, g, get_other_input(d, g, x))
  <2>1. Good(e) /\ Behaviour(e) = Behaviour(c)
    BY <1>2, <1>3, <1>4, <1>5, SameInCascade
  <2>2. get_other_input(d, g, x) \in {F0(d, g), F1(d, g)}
    BY DEF get_other_input
  <2>3. /\ F0(d, g) \in Present(d) /\ F1(d, g) \in Present(d)
        /\ F0(d, g) = d.fanin[g][0] /\ F1(d, g) = d.fanin[g][1]
    <3>1. g \in Present(d) /\ g \in Gates(d) /\ OpOf(d, g) \in BinOp
      BY <1>3, <1>10, Nodes DEF Is, BinOp
    <3> QED BY <1>10, <3>1, View
  <2>4. F0(d, g) # a /\ F1(d, g) # a
    <3>1. g \in Gate /\ 0 \in Pin /\ 1 \in Pin
      BY <1>7, Nodes DEF Pin
    <3> QED BY <1>9, <2>3, <3>1 DEF Unread
  <2>5. get_other_input(d, g, x) \in Node
    BY <1>10, <2>2, <2>3, Nodes
  <2>6. Spent(e)
    BY <1>5, <1>11, <2>2, <2>4, <2>5
  <2> QED BY <2>1, <2>6
<1>6. CASE is_NOT_same_gate(c, s[1], x) /\ Single(c, x) /\ e = ReplaceBy(d, x, ONE_GATE)
  <2>1. Good(e) /\ Behaviour(e) = Behaviour(c)
    BY <1>2, <1>3, <1>4, <1>6, NegatedInCascade
  <2>2. Spent(e)
    BY <1>6, <1>7, <1>11
  <2> QED BY <2>1, <2>2
<1> QED BY <1>1, <1>3, <1>4, <1>5, <1>6

\* Two gates of which only one is replaced: if replacing the other does the
\* same, it does nothing.
LEMMA OtherReplaced ==
  ASSUME NEW c \in Circuit, NEW g, NEW h, NEW m \in Node, NEW n \in Node, g # h,
         ReplaceBy(c, h, m) = ReplaceBy(c, g, n)
  PROVE  ReplaceBy(c, g, n) = c
<1>1. CASE n = g
  <2>1. [k \in Gate |-> [p \in Pin |-> IF c.fanin[k][p] = g THEN n ELSE c.fanin[k][p]]] = c.fanin
    <3>1. c.fanin \in [Gate -> [Pin -> Node \cup {NULL}]]
      BY DEF Circuit
    <3>2. \A k \in Gate : [p \in Pin |-> IF c.fanin[k][p] = g THEN n ELSE c.fanin[k][p]] = c.fanin[k]
      BY <1>1, <3>1
    <3> QED BY <3>1, <3>2
  <2>2. [o \in Output |-> IF c.out[o] = g THEN n ELSE c.out[o]] = c.out
    BY <1>1 DEF Circuit
  <2>3. c = [op |-> c.op, fanin |-> c.fanin, out |-> c.out]
    BY DEF Circuit
  <2> QED BY <2>1, <2>2, <2>3 DEF ReplaceBy
<1>2. CASE n # g
  <2>1. Unread(ReplaceBy(c, h, m), g)
    BY <1>2, ReplacedUnread
  <2>2. Unread(c, g)
    BY <2>1, MergeFields DEF Unread
  <2> QED BY <2>2, UnreadSame
<1> QED BY <1>1, <1>2

\* A match in trees of ORs makes no cycle, and keeps the function if the gate
\* that it replaces is g, or in a tree of g's own.
LEMMA OrMatch ==
  ASSUME NEW c, Good(c), NEW g \in Gates(c), NEW round2, NEW x0, NEW a0, NEW x, NEW a, NEW parent,
         OrPlace(c, g, x0, a0, x, a, parent),
         NEW e \in rek_match(c, x, a, parent, "OR", round2)
  PROVE  FoundRight(c, "OR", g, e)
<1>1. PICK n : /\ e = ReplaceBy(c, parent, n)
               /\ \/ is_same_gate(c, a, x) /\ n = get_other_input(c, parent, x)
                  \/ is_NOT_same_gate(c, a, x) /\ n = ONE_GATE
  <2>1. \/ e = ReplaceBy(c, parent, get_other_input(c, parent, x)) /\ is_same_gate(c, a, x)
        \/ e = ReplaceBy(c, parent, ONE_GATE) /\ is_NOT_same_gate(c, a, x)
    BY DEF rek_match, ||, When
  <2> QED BY <2>1
<1>2. /\ c \in Circuit /\ WellFormed(c) /\ Acyclic(c) /\ ONE_GATE \in Present(c) /\ ONE_GATE \in Node
      /\ ONE_GATE \notin Gates(c) /\ parent \in Gates(c) /\ parent \in Present(c)
      /\ a \in Present(c) /\ x \in Present(c) /\ Is(c, g, "OR") /\ <<x0, a0>> \in Sides(c, g)
      /\ \A V : Models(c, V) => (True(V, a) => True(V, a0))
  BY Nodes DEF Good, OrPlace
<1>3. CASE parent = g /\ x = x0
  <2>1. Good(e) /\ Behaviour(e) = Behaviour(c)
    BY <1>1, <1>2, <1>3, MatchedAtRoot
  <2>2. n \in Node /\ n # parent
    <3>1. n = ONE_GATE \/ n \in {F0(c, parent), F1(c, parent)}
      <4>1. PICK t : <<t, x>> \in Sides(c, g)
        BY <1>2, <1>3 DEF Sides
      <4> QED BY <1>1, <1>3, <4>1, OtherInput
    <3>2. OpOf(c, parent) \in BinOp
      BY <1>2, <1>3 DEF Is, BinOp
    <3> QED BY <1>2, <3>1, <3>2, ReadsPin, Nodes
  <2>3. Spent(e)
    BY <1>1, <1>2, <2>2, ReplacedUnread, MergeGates DEF Spent
  <2> QED BY <2>1, <2>3 DEF FoundRight
<1>4. CASE ~ (parent = g /\ x = x0)
  <2>1. /\ parent # g /\ Is(c, parent, "OR") /\ OpOf(c, parent) \in BinOp
        /\ x \in {F0(c, parent), F1(c, parent)}
        /\ \A T : Private(c, g, T) => \E A : Thread(c, "OR", g, a0, A, parent)
    BY <1>4 DEF OrPlace, Is, BinOp
  <2>2. PICK t : <<t, x>> \in Sides(c, parent) /\ <<x, t>> \in Sides(c, parent)
    BY <2>1 DEF Sides
  <2>3. n \in {F0(c, parent), F1(c, parent)} \/ n = ONE_GATE
    BY <1>1, <2>2, OtherInput
  <2>4. n \in Present(c) /\ n \in Node /\ Under(c, parent, n)
    <3>1. CASE n = ONE_GATE
      BY <1>2, <3>1, UnderRoot
    <3>2. CASE n \in {F0(c, parent), F1(c, parent)}
      BY <1>2, <2>1, <3>2, ReadsPin, Nodes
    <3> QED BY <2>3, <3>1, <3>2
  <2>5. Good(e)
    BY <1>1, <1>2, <2>4, Nodes, MergeFields, MergeKeepsWellFormed, MergeKeepsAcyclic DEF Good
  <2>6. ASSUME OwnTree(c, g) PROVE Behaviour(e) = Behaviour(c)
    <3>1. PICK A : Thread(c, "OR", g, a0, A, parent)
      BY <2>1, <2>6 DEF OwnTree
    <3>2. n \notin A
      BY <1>2, <2>3, <3>1 DEF Thread
    <3>3. ASSUME NEW V, Models(c, V), ~ True(V, a0) PROVE True(V, parent) <=> True(V, n)
      <4>1. ~ True(V, a) /\ (True(V, parent) <=> True(V, x) \/ True(V, t))
        BY <1>2, <2>1, <2>2, <3>3, SideOf
      <4>2. t \in Present(c)
        BY <1>2, <2>1, <2>2, SideOf
      <4>3. CASE is_same_gate(c, a, x) /\ n = get_other_input(c, parent, x)
        <5>1. True(V, a) <=> True(V, x)
          BY <1>2, <3>3, <4>3, SameGate
        <5>2. n = t \/ (n = x /\ is_same_gate(c, t, x))
          BY <2>2, <4>3, OtherInput
        <5>3. is_same_gate(c, t, x) => (True(V, t) <=> True(V, x))
          BY <1>2, <3>3, <4>2, SameGate
        <5> QED BY <4>1, <5>1, <5>2, <5>3
      <4>4. CASE is_NOT_same_gate(c, a, x) /\ n = ONE_GATE
        <5>1. True(V, a) <=> ~ True(V, x)
          BY <1>2, <3>3, <4>4, OppositeGate
        <5>2. True(V, n)
          BY <4>4 DEF True, Val
        <5> QED BY <4>1, <5>1, <5>2
      <4> QED BY <1>1, <4>3, <4>4
    <3> QED BY <1>1, <1>2, <2>4, <3>1, <3>2, <3>3, MatchedInTree
  <2>7. ASSUME NEW q \in Node, e = ReplaceBy(c, g, q) PROVE Behaviour(e) = Behaviour(c)
    <3>0. ReplaceBy(c, parent, n) = ReplaceBy(c, g, q) /\ g # parent
      BY <1>1, <2>1, <2>7
    <3>1. e = c
      <4>1. ReplaceBy(c, g, q) = c
        BY ONLY <1>2, <2>4, <2>7, <3>0, OtherReplaced
      <4> QED BY <2>7, <4>1
    <3> QED BY <3>1
  <2>8. ~ ("OR" = "XOR")
    OBVIOUS
  <2>9. (\E q \in Node : e = ReplaceBy(c, g, q)) => Behaviour(e) = Behaviour(c)
    BY <2>7
  <2>10. Spent(e)
    <3>1. n # parent
      BY <2>4, UnderPresent
    <3> QED BY <1>1, <1>2, <2>4, <3>1, ReplacedUnread, MergeGates DEF Spent
  <2> QED BY <2>5, <2>6, <2>8, <2>9, <2>10 DEF FoundRight
<1> QED BY <1>3, <1>4

\* The same of either.
LEMMA PlaceMatch ==
  ASSUME NEW c, Good(c), NEW g \in Gates(c), NEW op \in {"OR", "XOR"}, NEW round2, NEW x0, NEW a0,
         NEW x, NEW a, NEW parent, Place(c, op, g, x0, a0, x, a, parent),
         op = "XOR" /\ Is(c, a, "XOR") => Single(c, a),
         NEW e \in rek_match(c, x, a, parent, op, round2)
  PROVE  FoundRight(c, op, g, e)
<1>1. CASE op = "OR"
  BY <1>1, OrMatch DEF Place
<1>2. CASE op = "XOR"
  <2>1. Good(e) /\ Behaviour(e) = Behaviour(c) /\ Spent(e)
    BY <1>2, XorMatch DEF Place
  <2> QED BY <2>1 DEF FoundRight
<1> QED BY <1>1, <1>2

\* Every result of the search from the j-th step of the counter on is right.
RightResult(c, op, g, x0, a0, x, a, parent, r) ==
  Place(c, op, g, x0, a0, x, a, parent) => \A e \in r.found : FoundRight(c, op, g, e)
RightFrom(c, op, g, x0, a0, R, j) ==
  \A x, a, parent \in Node, k \in Nat :
    k >= j => RightResult(c, op, g, x0, a0, x, a, parent, R[<<x, a, parent, k>>])

\* A call finds what is right if the calls with a larger counter do.
LEMMA CallRight ==
  ASSUME NEW c, Good(c), NEW g \in Gates(c), NEW op \in {"OR", "XOR"}, NEW round2, NEW x0, NEW a0,
         NEW x \in Node, NEW a \in Node, NEW parent \in Node, NEW k \in Nat,
         NEW R, SoundFrom(c, R, k + 1), RightFrom(c, op, g, x0, a0, R, k + 1)
  PROVE  RightResult(c, op, g, x0, a0, x, a, parent, rek_call(c, op, round2, R, x, a, parent, k))
<1> DEFINE here == rek_match(c, x, a, parent, op, round2)
           left == R[<<x, F0(c, a), parent, k + 1>>]
           right == R[<<x, F1(c, a), parent, left.k>>]
           lower == R[<<F0(c, x), a, x, right.k + 1>>]
           upper == R[<<F1(c, x), a, x, lower.k>>]
           r == rek_call(c, op, round2, R, x, a, parent, k)
<1> SUFFICES ASSUME Place(c, op, g, x0, a0, x, a, parent), NEW e \in r.found
             PROVE  FoundRight(c, op, g, e)
  BY DEF RightResult
<1>1. c \in Circuit /\ WellFormed(c) /\ op \in BinOp
  BY DEF Good, BinOp
<1>2. \/ r = Found(k, {})
      \/ r = Found(k, here) /\ (op = "XOR" /\ Is(c, a, "XOR") => Single(c, a))
      \/ /\ Is(c, a, op) /\ (op = "XOR" => Single(c, a))
         /\ \/ r = left \/ r = right
            \/ op = "OR" /\ Is(c, x, op) /\ (r = lower \/ r = upper)
  BY DEF rek_call
<1>3. ASSUME Is(c, a, op)
      PROVE  /\ F0(c, a) \in Node /\ F1(c, a) \in Node
             /\ left.k \in Nat /\ left.k > k /\ right.k \in Nat /\ right.k > k
  <2>1. F0(c, a) \in Node /\ F1(c, a) \in Node
    BY <1>1, <1>3, OpIsGate, Nodes DEF Is
  <2>2. left.k \in Nat /\ left.k >= k + 1
    BY <2>1 DEF SoundFrom, SoundResult
  <2> HIDE DEF left
  <2>3. right.k \in Nat /\ right.k >= left.k
    BY <2>1, <2>2 DEF SoundFrom, SoundResult
  <2> QED BY <2>1, <2>2, <2>3
<1>4. ASSUME Is(c, a, op), Is(c, x, op)
      PROVE  /\ F0(c, x) \in Node /\ F1(c, x) \in Node
             /\ right.k + 1 \in Nat /\ right.k + 1 >= k + 1 /\ lower.k \in Nat /\ lower.k >= k + 1
  <2>1. F0(c, x) \in Node /\ F1(c, x) \in Node
    BY <1>1, <1>4, OpIsGate, Nodes DEF Is
  <2>2. right.k + 1 \in Nat /\ right.k + 1 >= k + 1
    BY <1>3, <1>4
  <2> HIDE DEF right
  <2>3. lower.k \in Nat /\ lower.k >= right.k + 1
    BY <2>1, <2>2 DEF SoundFrom, SoundResult
  <2> HIDE DEF lower
  <2> QED BY <2>1, <2>2, <2>3
<1> HIDE DEF r, here
<1>5. CASE r = Found(k, {})
  BY <1>5 DEF Found
<1>6. CASE r = Found(k, here) /\ (op = "XOR" /\ Is(c, a, "XOR") => Single(c, a))
  <2>1. e \in here
    BY <1>6 DEF Found
  <2> QED BY <1>6, <2>1, PlaceMatch DEF here
<1>7. ASSUME Is(c, a, op), op = "XOR" => Single(c, a), r = left \/ r = right
      PROVE  FoundRight(c, op, g, e)
  <2>1. Place(c, op, g, x0, a0, x, F0(c, a), parent) /\ Place(c, op, g, x0, a0, x, F1(c, a), parent)
    BY <1>7, PlaceDown
  <2>2. RightResult(c, op, g, x0, a0, x, F0(c, a), parent, left)
    BY <1>3, <1>7 DEF RightFrom
  <2>3. left.k \in Nat /\ left.k >= k + 1 /\ F1(c, a) \in Node
    BY <1>3, <1>7
  <2>4. RightResult(c, op, g, x0, a0, x, F1(c, a), parent, right)
    <3> HIDE DEF left
    <3> QED BY <2>3 DEF RightFrom
  <2> HIDE DEF left, right
  <2> QED BY <1>7, <2>1, <2>2, <2>4 DEF RightResult
<1>8. ASSUME Is(c, a, op), op = "OR", Is(c, x, op), r = lower \/ r = upper
      PROVE  FoundRight(c, op, g, e)
  <2>1. Place(c, op, g, x0, a0, F0(c, x), a, x) /\ Place(c, op, g, x0, a0, F1(c, x), a, x)
    BY <1>8, PlaceBelow
  <2>2. /\ F0(c, x) \in Node /\ F1(c, x) \in Node
        /\ right.k + 1 \in Nat /\ right.k + 1 >= k + 1 /\ lower.k \in Nat /\ lower.k >= k + 1
    BY <1>4, <1>8
  <2> HIDE DEF left, right
  <2>3. RightResult(c, op, g, x0, a0, F0(c, x), a, x, lower)
    BY <2>2 DEF RightFrom
  <2> HIDE DEF lower
  <2>4. RightResult(c, op, g, x0, a0, F1(c, x), a, x, upper)
    BY <2>2 DEF RightFrom
  <2> HIDE DEF upper
  <2> QED BY <1>8, <2>1, <2>3, <2>4 DEF RightResult
<1> HIDE DEF left, right, lower, upper
<1> QED BY <1>2, <1>5, <1>6, <1>7, <1>8

\* Whatever the search finds is right.
LEMMA SearchRight ==
  ASSUME NEW c, Good(c), NEW g \in Gates(c), NEW op \in {"OR", "XOR"}, NEW round2, NEW x0, NEW a0
  PROVE  RightFrom(c, op, g, x0, a0, Search(c, op, round2), 0)
<1>1. PICK S : S = Search(c, op, round2)
  OBVIOUS
<1>2. c \in Circuit /\ WellFormed(c)
  BY DEF Good
<1>3. \A x, a, parent \in Node, k \in Nat :
        S[<<x, a, parent, k>>] = rek_call(c, op, round2, S, x, a, parent, k)
  <2>1. Solves(c, op, round2, S, 0)
    BY <1>1, <1>2, SearchSolves
  <2>2. \A k \in Nat : k >= 0
    OBVIOUS
  <2> QED BY <2>1, <2>2 DEF Solves
<1>4. \A j \in Nat : SoundFrom(c, S, j)
  <2>1. SoundFrom(c, S, 0)
    BY <1>1, <1>2, SearchSound
  <2> QED BY <2>1 DEF SoundFrom
<1> DEFINE J == {j \in Nat : RightFrom(c, op, g, x0, a0, S, j)}
<1>5. 11 \in J
  <2>1. ASSUME NEW x \in Node, NEW a \in Node, NEW parent \in Node, NEW k \in Nat, k >= 11
        PROVE  RightResult(c, op, g, x0, a0, x, a, parent, S[<<x, a, parent, k>>])
    <3>1. S[<<x, a, parent, k>>] = Found(k, {})
      BY <1>3, <2>1, LastCall
    <3> QED BY <3>1 DEF RightResult, Found
  <2> QED BY <2>1 DEF RightFrom
<1>6. PICK m \in J : \A j \in J : m <= j
  <2> HIDE DEF J
  <2>1. J \in SUBSET Nat /\ J # {}
    BY <1>5 DEF J
  <2> QED BY <2>1, Least
<1>7. ASSUME m > 0 PROVE FALSE
  <2>1. m - 1 \in Nat /\ m \in Nat /\ RightFrom(c, op, g, x0, a0, S, m)
    BY <1>6, <1>7
  <2>2. ASSUME NEW x \in Node, NEW a \in Node, NEW parent \in Node, NEW k \in Nat, k >= m - 1
        PROVE  RightResult(c, op, g, x0, a0, x, a, parent, S[<<x, a, parent, k>>])
    <3>1. RightFrom(c, op, g, x0, a0, S, k + 1)
      BY <2>1, <2>2 DEF RightFrom
    <3>2. SoundFrom(c, S, k + 1)
      BY <1>4
    <3> QED BY <1>3, <3>1, <3>2, CallRight
  <2>3. m - 1 \in J
    BY <2>1, <2>2 DEF RightFrom
  <2> QED BY <1>6, <2>1, <2>3
<1>8. m = 0 /\ RightFrom(c, op, g, x0, a0, S, m)
  BY <1>6, <1>7
<1> QED BY <1>1, <1>8

\* Whatever the search in the cascades and trees below g replaces, there is no
\* cycle, and the function stays unless a tree of ORs is changed in which
\* others take part.
LEMMA CascadeIsRight ==
  ASSUME NEW c, Good(c), NEW g \in Gates(c), NEW round2, NEW e \in Cascade(c, g, round2)
  PROVE  FoundRight(c, OpOf(c, g), g, e)
<1>1. PICK op : op = OpOf(c, g)
  OBVIOUS
<1>2. /\ op \in {"OR", "XOR"} /\ op \in BinOp /\ Is(c, g, op)
      /\ \/ e \in transform_rek(c, g, F0(c, g), F1(c, g), op, round2)
         \/ e \in transform_rek(c, g, F1(c, g), F0(c, g), op, round2)
  BY <1>1 DEF Cascade, ||, BinOp, Is
<1>3. F0(c, g) \in Node /\ F1(c, g) \in Node /\ g \in Node
  BY <1>1, <1>2, View, Nodes DEF Good
<1>4. ASSUME NEW x \in Node, NEW a \in Node, <<x, a>> \in Sides(c, g),
             e \in transform_rek(c, g, x, a, op, round2)
      PROVE  FoundRight(c, op, g, e)
  <2>1. PICK r : r = Search(c, op, round2)[<<x, a, g, 0>>]
    OBVIOUS
  <2>2. RightResult(c, op, g, x, a, x, a, g, r)
    <3>1. PICK S : S = Search(c, op, round2)
      OBVIOUS
    <3>2. RightFrom(c, op, g, x, a, S, 0)
      BY <1>2, <3>1, SearchRight
    <3>3. RightResult(c, op, g, x, a, x, a, g, S[<<x, a, g, 0>>])
      BY <1>3, <3>2 DEF RightFrom
    <3> QED BY <2>1, <3>1, <3>3
  <2>3. Place(c, op, g, x, a, x, a, g)
    BY <1>2, <1>4, PlaceStart
  <2>4. e \in r.found
    BY <1>4, <2>1 DEF transform_rek
  <2> QED BY <2>2, <2>3, <2>4 DEF RightResult
<1>5. <<F0(c, g), F1(c, g)>> \in Sides(c, g) /\ <<F1(c, g), F0(c, g)>> \in Sides(c, g)
  BY DEF Sides
<1> QED BY <1>1, <1>2, <1>3, <1>4, <1>5

----------------------------------------------------------------------------
(* use_theorems, once more.                                                *)

\* A result of some if-statements that has no cycle, is either the circuit
\* itself or has a gate that nothing reads and, if that is to be shown,
\* computes what the circuit computed.
Aims == {"order", "function"}
Same(c, q, n, aim) ==
  /\ Kept(c, q.c, n) /\ Good(q.c)
  /\ IF q.changed THEN Spent(q.c) ELSE q.c = c
  /\ aim = "function" => Behaviour(q.c) = Behaviour(c)

\* One if-statement, other than the search through the cascades, after others.
LEMMA AttemptSame ==
  ASSUME NEW c, Good(c), NEW g \in Gates(c), NEW round2, NEW aim, NEW results, NEW n \in Nat,
         \A q \in results : Same(c, q, n, aim),
         NEW group \in Groups \ {"cascade"}, Spare(c) >= n + Cost(group),
         group = "hashing" => \A q \in results : Hashable(q.c, g)
  PROVE  \A r \in Attempt(results, group, g, round2) : Same(c, r, n + Cost(group), aim)
<1> SUFFICES ASSUME NEW r \in Attempt(results, group, g, round2) PROVE Same(c, r, n + Cost(group), aim)
  OBVIOUS
<1>1. PICK q \in results :
        r = q \/ \E d \in Outcomes(group, q.c, g, round2) : r = [c |-> d, changed |-> TRUE]
  BY DEF Attempt
<1>2. /\ Kept(c, q.c, n) /\ Good(q.c) /\ (aim = "function" => Behaviour(q.c) = Behaviour(c))
      /\ Cost(group) \in Nat /\ \A d : Spare(d) \in Nat
  BY SpareIsNat DEF Same, Cost
<1>3. CASE r = q
  <2>1. Spare(c) <= Spare(q.c) + (n + Cost(group))
    BY <1>2 DEF Kept
  <2> QED BY <1>2, <1>3, <2>1 DEF Kept, Same
<1>4. ASSUME NEW d \in Outcomes(group, q.c, g, round2), r = [c |-> d, changed |-> TRUE]
      PROVE  Same(c, r, n + Cost(group), aim)
  <2>1. q.c \in Circuit /\ WellFormed(q.c) /\ g \in Gates(q.c) /\ Spare(c) <= Spare(q.c) + n
    BY <1>2 DEF Kept
  <2>2. Spare(q.c) >= Cost(group)
    BY <1>2, <2>1
  <2>3. Kept(q.c, d, Cost(group))
    BY <2>1, <2>2, OutcomeKept
  <2>4. Good(d) /\ Behaviour(d) = Behaviour(q.c) /\ Spent(d)
    BY <1>2, <2>1, <2>2, OutcomeSame
  <2>5. Kept(c, d, n + Cost(group))
    BY <1>2, <2>3, KeptMore
  <2> QED BY <1>2, <1>4, <2>4, <2>5 DEF Same
<1> QED BY <1>1, <1>3, <1>4

\* When use_theorems reaches the search through the cascades of g, the match
\* that it takes does not make g read one node twice and leave it in use.
HashApart(c, g, round2) ==
  \A r \in Attempt({[c |-> c, changed |-> FALSE]}, "simple", g, round2) :
    \A d \in Cascade(r.c, g, round2) : Hashable(d, g)

\* There, the tree of ORs below g is g's own, or the match replaces g.
TreeApart(c, g, round2) ==
  \A r \in Attempt({[c |-> c, changed |-> FALSE]}, "simple", g, round2) :
    Is(r.c, g, "OR") =>
      \/ OwnTree(r.c, g)
      \/ \A d \in Cascade(r.c, g, round2) : \E n \in Node : d = ReplaceBy(r.c, g, n)

\* The first group leaves g unread or reading two nodes.
LEMMA SimpleHashable ==
  ASSUME NEW c, Good(c), Spare(c) >= 1, NEW g \in Gates(c), NEW round2,
         NEW r \in Attempt({[c |-> c, changed |-> FALSE]}, "simple", g, round2)
  PROVE  Hashable(r.c, g)
<1>1. PICK q \in {[c |-> c, changed |-> FALSE]} :
        r \in LET found == Outcomes("simple", q.c, g, round2)
              IN  IF found = {} THEN {q} ELSE {[c |-> d, changed |-> TRUE] : d \in found}
  BY DEF Attempt
<1>2. q.c = c
  OBVIOUS
<1>3. CASE Outcomes("simple", c, g, round2) = {}
  <2>1. Simple(c, g) = {}
    BY <1>3 DEF Outcomes, Replaced
  <2>2. r = q
    BY <1>1, <1>2, <1>3
  <2> QED BY <1>2, <2>1, <2>2, SimpleComplete DEF Hashable
<1>4. CASE Outcomes("simple", c, g, round2) # {}
  <2>1. PICK d \in Outcomes("simple", c, g, round2) : r = [c |-> d, changed |-> TRUE]
    BY <1>1, <1>2, <1>4
  <2>2. Cost("simple") = 1 /\ "simple" \in Groups \ {"cascade"}
    BY DEF Cost, Groups
  <2>3. Unread(d, g)
    BY <2>2, OutcomeSame
  <2> QED BY <2>1, <2>3 DEF Hashable
<1> QED BY <1>3, <1>4

\* Nor does the third.
LEMMA FaninHashable ==
  ASSUME NEW c, Good(c), NEW g \in Gates(c), NEW round2, NEW aim, NEW results, NEW n \in Nat,
         \A q \in results : Same(c, q, n, aim) /\ Hashable(q.c, g), Spare(c) >= n,
         NEW r \in Attempt(results, "fanin", g, round2)
  PROVE  Hashable(r.c, g)
<1>1. PICK q \in results :
        r = q \/ \E d \in Outcomes("fanin", q.c, g, round2) : r = [c |-> d, changed |-> TRUE]
  BY DEF Attempt
<1>2. CASE r = q
  BY <1>2
<1>3. ASSUME NEW d \in Outcomes("fanin", q.c, g, round2), r = [c |-> d, changed |-> TRUE]
      PROVE  Hashable(r.c, g)
  <2>1. Cost("fanin") = 0 /\ "fanin" \in Groups \ {"cascade"}
    BY DEF Cost, Groups
  <2>2. Good(q.c) /\ g \in Gates(q.c) /\ Spare(q.c) >= 0
    BY SpareIsNat DEF Same, Kept
  <2>3. Unread(d, g)
    BY <2>1, <2>2, OutcomeSame
  <2> QED BY <1>3, <2>3 DEF Hashable
<1> QED BY <1>1, <1>2, <1>3

\* The first two groups of rules make no cycle, leave g so that structural
\* hashing does not either, and keep the function where the trees are apart.
LEMMA CascadeSame ==
  ASSUME NEW c, Good(c), Spare(c) >= 1, NEW g \in Gates(c), NEW round2, NEW aim \in Aims,
         HashApart(c, g, round2), aim = "function" => TreeApart(c, g, round2),
         NEW r1, r1 = Attempt({[c |-> c, changed |-> FALSE]}, "simple", g, round2),
         \A q \in r1 : Same(c, q, 1, aim),
         NEW r \in Attempt(r1, "cascade", g, round2)
  PROVE  Same(c, r, 1, aim) /\ Hashable(r.c, g)
<1>1. PICK q \in r1 :
        r = q \/ \E d \in Outcomes("cascade", q.c, g, round2) : r = [c |-> d, changed |-> TRUE]
  BY DEF Attempt
<1>2. CASE r = q
  BY <1>1, <1>2, SimpleHashable
<1>3. ASSUME NEW d \in Outcomes("cascade", q.c, g, round2), r = [c |-> d, changed |-> TRUE]
      PROVE  Same(c, r, 1, aim) /\ Hashable(r.c, g)
  <2>1. d \in Cascade(q.c, g, round2)
    BY <1>3 DEF Outcomes
  <2>2. Kept(c, q.c, 1) /\ Good(q.c) /\ q.c \in Circuit /\ WellFormed(q.c) /\ g \in Gates(q.c)
    BY DEF Same, Kept, Good
  <2>3. Hashable(d, g)
    BY <2>1 DEF HashApart
  <2>4. Good(d) /\ Spent(d) /\ FoundRight(q.c, OpOf(q.c, g), g, d)
    BY <2>1, <2>2, CascadeIsRight DEF FoundRight
  <2>5. Kept(c, d, 1)
    <3>1. Kept(q.c, d, 0)
      BY <2>1, <2>2, CascadeKept
    <3>2. Kept(c, d, 1 + 0)
      BY <2>2, <3>1, KeptMore
    <3> QED BY <3>2
  <2>6. ASSUME aim = "function" PROVE Behaviour(d) = Behaviour(c)
    <3>1. OpOf(q.c, g) \in {"OR", "XOR"}
      BY <2>1 DEF Cascade
    <3>2. OpOf(q.c, g) = "OR" => OwnTree(q.c, g) \/ \E n \in Node : d = ReplaceBy(q.c, g, n)
      BY <2>1, <2>6 DEF TreeApart, Is
    <3>3. Behaviour(d) = Behaviour(q.c)
      BY <2>4, <3>1, <3>2 DEF FoundRight
    <3> QED BY <2>6, <3>3 DEF Same
  <2> QED BY <1>3, <2>3, <2>4, <2>5, <2>6 DEF Same
<1> QED BY <1>1, <1>2, <1>3

\* All of use_theorems for one gate.
LEMMA UseTheoremsSame ==
  ASSUME NEW c, Good(c), Spare(c) >= 9, NEW g \in Gates(c), NEW round2, NEW aim \in Aims,
         HashApart(c, g, round2), aim = "function" => TreeApart(c, g, round2),
         NEW r \in use_theorems(c, g, round2)
  PROVE  Same(c, r, 9, aim)
<1> DEFINE OK(results, n) == \A q \in results : Same(c, q, n, aim)
           Hash(results) == \A q \in results : Hashable(q.c, g)
           Try(results, group) == Attempt(results, group, g, round2)
           r0 == {[c |-> c, changed |-> FALSE]}
<1>1. OK(r0, 0)
  <2>1. Kept(c, c, 0)
    BY SpareIsNat DEF Kept, Good
  <2>2. \A q \in r0 : q.c = c /\ q.changed = FALSE
    OBVIOUS
  <2> QED BY <2>1, <2>2 DEF Same
<1>2. ASSUME NEW results, NEW n \in Nat, OK(results, n), NEW group \in Groups \ {"cascade"},
             Spare(c) >= n + Cost(group), group = "hashing" => Hash(results)
      PROVE  OK(Try(results, group), n + Cost(group))
  BY <1>2, AttemptSame
<1>3. /\ Cost("simple") = 1 /\ Cost("fanin") = 0 /\ Cost("hashing") = 0 /\ Cost("or") = 2
      /\ Cost("xor") = 1 /\ Cost("and") = 2 /\ Cost("xors") = 1 /\ Cost("not") = 2
  BY DEF Cost
<1>4. {"simple", "fanin", "hashing", "or", "xor", "and", "xors", "not"} \subseteq Groups \ {"cascade"}
  BY DEF Groups
<1>5. Spare(c) \in Nat
  BY SpareIsNat
<1>6. use_theorems(c, g, round2) =
        Try(Try(Try(Try(Try(Try(Try(Try(Try(r0, "simple"), "cascade"), "fanin"), "hashing"), "or"),
          "xor"), "and"), "xors"), "not")
  BY UseTheoremsInOrder DEF InOrder
<1> HIDE DEF OK, Hash, Try, r0
<1>7. PICK r1 : r1 = Try(r0, "simple")
  OBVIOUS
<1>8. OK(r1, 1)
  BY <1>1, <1>2, <1>3, <1>4, <1>5, <1>7
<1>9. PICK r2 : r2 = Try(r1, "cascade")
  OBVIOUS
<1>10. OK(r2, 1) /\ Hash(r2)
  <2>1. \A q \in r1 : Same(c, q, 1, aim)
    BY <1>8 DEF OK
  <2>2. r1 = Attempt({[c |-> c, changed |-> FALSE]}, "simple", g, round2)
    BY <1>7 DEF Try, r0
  <2>3. Spare(c) >= 1
    BY <1>5
  <2>4. \A q \in Attempt(r1, "cascade", g, round2) : Same(c, q, 1, aim) /\ Hashable(q.c, g)
    BY <2>1, <2>2, <2>3, CascadeSame
  <2> QED BY <1>9, <2>4 DEF OK, Hash, Try
<1>11. PICK r3 : r3 = Try(r2, "fanin")
  OBVIOUS
<1>12. OK(r3, 1)
  BY <1>2, <1>3, <1>4, <1>5, <1>10, <1>11
<1>13. Hash(r3)
  <2>1. \A q \in r2 : Same(c, q, 1, aim) /\ Hashable(q.c, g)
    BY <1>10 DEF OK, Hash
  <2>2. r3 = Attempt(r2, "fanin", g, round2) /\ Spare(c) >= 1
    BY <1>5, <1>11 DEF Try
  <2>3. \A q \in r3 : Hashable(q.c, g)
    BY <2>1, <2>2, FaninHashable
  <2> QED BY <2>3 DEF Hash
<1>14. PICK r4 : r4 = Try(r3, "hashing") /\ OK(r4, 1)
  BY <1>2, <1>3, <1>4, <1>5, <1>12, <1>13
<1>15. PICK r5 : r5 = Try(r4, "or") /\ OK(r5, 3)
  BY <1>2, <1>3, <1>4, <1>5, <1>14
<1>16. PICK r6 : r6 = Try(r5, "xor") /\ OK(r6, 4)
  BY <1>2, <1>3, <1>4, <1>5, <1>15
<1>17. PICK r7 : r7 = Try(r6, "and") /\ OK(r7, 6)
  BY <1>2, <1>3, <1>4, <1>5, <1>16
<1>18. PICK r8 : r8 = Try(r7, "xors") /\ OK(r8, 7)
  BY <1>2, <1>3, <1>4, <1>5, <1>17
<1>19. OK(Try(r8, "not"), 9)
  BY <1>2, <1>3, <1>4, <1>5, <1>18
<1>20. r \in Try(r8, "not")
  BY <1>6, <1>7, <1>9, <1>11, <1>14, <1>15, <1>16, <1>17, <1>18
<1> QED BY <1>19, <1>20 DEF OK

\* A gate that nothing reads takes no part in a cycle or in the function.
LEMMA RemoveSame ==
  ASSUME NEW c, Good(c), NEW g \in Gates(c), Fanouts(c, g) = {}, NEW d, d = RemoveGate(c, g)
  PROVE  Good(d) /\ Behaviour(d) = Behaviour(c)
<1>1. /\ c \in Circuit /\ WellFormed(c) /\ Acyclic(c) /\ g \in Gate
      /\ d \in Circuit /\ WellFormed(d) /\ Gates(d) = Gates(c) \ {g}
  BY RemoveKeeps, Nodes DEF Good
<1>2. /\ \A k \in Gates(d) : d.op[k] = c.op[k] /\ d.fanin[k] = c.fanin[k]
      /\ d.out = c.out
  BY <1>1 DEF RemoveGate, Circuit, Gates
<1>3. Acyclic(d)
  BY <1>1, <1>2 DEF Acyclic
<1>4. ASSUME NEW b \in Behaviour(c) PROVE b \in Behaviour(d)
  <2>1. PICK V \in Valuations(c) : b = <<[i \in Input |-> V[i]], Outputs(c, V)>>
    BY DEF Behaviour
  <2>2. PICK W : W = [n \in Input \cup Gates(d) |-> V[n]]
    OBVIOUS
  <2>3. V \in [Input \cup Gates(c) -> BOOLEAN] /\ Consistent(c, V)
    BY DEF Valuations
  <2>4. \A n \in Present(d) \cup {NULL} : Val(W, n) = Val(V, n)
    <3>1. \A n \in Present(d) : n \in Const \/ n \in Input \cup Gates(d)
      BY DEF Present
    <3> QED BY <2>2, <3>1 DEF Val, Const
  <2>5. Consistent(d, W)
    <3> SUFFICES ASSUME NEW k \in Gates(d)
                 PROVE  W[k] = Apply(d.op[k], Val(W, d.fanin[k][0]), Val(W, d.fanin[k][1]))
      BY DEF Consistent
    <3>1. V[k] = Apply(c.op[k], Val(V, c.fanin[k][0]), Val(V, c.fanin[k][1]))
      BY <1>1, <2>3 DEF Consistent
    <3>2. \A p \in Pin : d.fanin[k][p] \in Present(d) \cup {NULL}
      BY <1>1, Pins
    <3>3. 0 \in Pin /\ 1 \in Pin /\ W[k] = V[k]
      BY <2>2 DEF Pin
    <3> QED BY <1>2, <2>4, <3>1, <3>2, <3>3
  <2>6. W \in Valuations(d)
    BY <1>1, <2>2, <2>3, <2>5 DEF Valuations
  <2>7. \A o \in Output : Val(W, d.out[o]) = Val(V, c.out[o])
    BY <1>1, <1>2, <2>4 DEF WellFormed
  <2>8. Outputs(d, W) = Outputs(c, V)
    BY <2>7 DEF Outputs
  <2>9. [i \in Input |-> W[i]] = [i \in Input |-> V[i]]
    BY <2>2
  <2> QED BY <2>1, <2>6, <2>8, <2>9 DEF Behaviour
<1>5. Good(d)
  BY <1>1, <1>3 DEF Good
<1> QED BY <1>4, <1>5, FunctionKept

\* No rule but structural hashing is left to compare the fanins of a gate that
\* the search has just made equal: a condition on the circuits that come up.
HashingApart ==
  pc = "worklist" => \A g \in worklist : HashApart(circuit, g, min_op = "THEOREMS2")

\* The search changes no tree of ORs in which others take part: README.md and
\* MCRewriteShared show what happens otherwise.
TreesApart ==
  pc = "worklist" => \A g \in worklist : TreeApart(circuit, g, min_op = "THEOREMS2")

\* The circuit has no cycle; RewriteInv gives the rules a circuit to work on.
OrderInv == RewriteInv /\ Acyclic(circuit)

\* And it computes what it computed when minimize() was called.
FunctionInv == OrderInv /\ Behaviour(circuit) = function

\* minimize() begins with an acyclic circuit that computes its function.
LEMMA FunctionInvInit == Init => FunctionInv
<1> SUFFICES ASSUME Init PROVE FunctionInv
  OBVIOUS
<1>1. RewriteInv
  BY RewriteInvInit
<1>2. Acyclic(circuit) /\ function = Behaviour(circuit)
  BY MinimizerAssumption DEF Init
<1> QED BY <1>1, <1>2 DEF FunctionInv, OrderInv

\* What a step does to the circuit, for either aim.
LEMMA CircuitStep ==
  ASSUME OrderInv, Room, HashingApart, [Next]_vars, NEW aim \in Aims, aim = "function" => TreesApart
  PROVE  /\ Acyclic(circuit') /\ function' = function
         /\ aim = "function" => Behaviour(circuit') = Behaviour(circuit)
<1>1. Good(circuit) /\ worklist \subseteq Gates(circuit)
  BY DEF OrderInv, RewriteInv, TypeOK, Good
<1>2. CASE UNCHANGED <<circuit, function>>
  BY <1>1, <1>2 DEF Good
<1>3. CASE RewriteGate
  <2>1. PICK g \in Deepest(level, worklist) :
          \E r \in use_theorems(circuit, g, min_op = "THEOREMS2") :
            circuit' = r.c /\ changed_circuit' = r.changed
    BY <1>3 DEF RewriteGate
  <2>2. g \in worklist /\ g \in Gates(circuit) /\ pc = "worklist"
    BY <1>1, <1>3 DEF Deepest, RewriteGate
  <2>3. PICK r \in use_theorems(circuit, g, min_op = "THEOREMS2") : circuit' = r.c
    BY <2>1
  <2>4. /\ HashApart(circuit, g, min_op = "THEOREMS2")
        /\ aim = "function" => TreeApart(circuit, g, min_op = "THEOREMS2")
    BY <2>2 DEF HashingApart, TreesApart
  <2>5. Same(circuit, r, 9, aim)
    BY <1>1, <2>2, <2>4, UseTheoremsSame DEF Room
  <2>6. function' = function
    BY <1>3 DEF RewriteGate
  <2> QED BY <2>3, <2>5, <2>6 DEF Same, Good
<1>4. CASE CleanupGate
  <2>1. PICK g \in Deepest(level, worklist) : RemoveIf(Fanouts(circuit, g) = {}, g)
    BY <1>4 DEF CleanupGate
  <2>2. g \in Gates(circuit)
    BY <1>1 DEF Deepest
  <2>3. function' = function
    BY <1>4 DEF CleanupGate
  <2>4. CASE Fanouts(circuit, g) = {}
    <3>1. circuit' = RemoveGate(circuit, g)
      BY <2>1, <2>4 DEF RemoveIf
    <3>2. Good(circuit') /\ Behaviour(circuit') = Behaviour(circuit)
      BY <1>1, <2>2, <2>4, <3>1, RemoveSame
    <3> QED BY <2>3, <3>2 DEF Good
  <2>5. CASE Fanouts(circuit, g) # {}
    BY <1>1, <2>1, <2>3, <2>5 DEF RemoveIf, Good
  <2> QED BY <2>4, <2>5
<1>5. CASE BeginRewrite \/ BeginCleanup \/ EndRewrite \/ Stop \/ TimeExpires \/ UNCHANGED vars
  BY <1>2, <1>5 DEF BeginRewrite, BeginCleanup, EndRewrite, Stop, TimeExpires, vars
<1> QED BY <1>3, <1>4, <1>5 DEF Next, RewriteStep, Finished

\* No step makes a cycle.
LEMMA OrderInvStep == OrderInv /\ Room /\ HashingApart /\ [Next]_vars => OrderInv'
<1> SUFFICES ASSUME OrderInv, Room, HashingApart, [Next]_vars PROVE OrderInv'
  OBVIOUS
<1>1. RewriteInv'
  BY RewriteInvStep DEF OrderInv
<1>2. PICK aim \in Aims : aim # "function"
  BY DEF Aims
<1>3. Acyclic(circuit')
  BY <1>2, CircuitStep
<1> QED BY <1>1, <1>3 DEF OrderInv

\* Nor does a step change the function, where the trees are apart.
LEMMA FunctionInvStep ==
  FunctionInv /\ Room /\ HashingApart /\ TreesApart /\ [Next]_vars => FunctionInv'
<1> SUFFICES ASSUME FunctionInv, Room, HashingApart, TreesApart, [Next]_vars PROVE FunctionInv'
  OBVIOUS
<1>1. OrderInv'
  BY OrderInvStep DEF FunctionInv
<1>2. PICK aim \in Aims : aim = "function"
  BY DEF Aims
<1>3. Behaviour(circuit') = Behaviour(circuit) /\ function' = function
  BY <1>2, CircuitStep DEF FunctionInv
<1> QED BY <1>1, <1>3 DEF FunctionInv

\* Neither a rule nor cleanup() makes a cycle, so the walks over the levels
\* never throw: for every circuit, every order of the gates and every search
\* through cascades and trees, shared or not.
THEOREM NoCycleCorrect == Spec /\ []Room /\ []HashingApart => []NoCycle
<1>1. OrderInv => NoCycle
  BY DEF OrderInv, NoCycle
<1>2. Init => OrderInv
  BY FunctionInvInit DEF FunctionInv
<1> QED BY <1>1, <1>2, OrderInvStep, PTL DEF Spec

\* At every moment the circuit computes what it computed when minimize() was
\* called: each of the rules, the search through the cascades among them, is
\* right for every circuit, every gate and every order of fanins, alone and
\* after one another, as long as the trees of ORs that the search changes are
\* read by nothing else.
THEOREM FunctionPreservedCorrect ==
  Spec /\ []Room /\ []HashingApart /\ []TreesApart => []FunctionPreserved
<1>1. FunctionInv => FunctionPreserved
  BY DEF FunctionInv, FunctionPreserved
<1> QED BY <1>1, FunctionInvInit, FunctionInvStep, PTL DEF Spec

----------------------------------------------------------------------------
(* What the end of rewriting leaves.                                       *)

\* No rule of this round applies to the gate.
Quiet(c, g, round2) == \A r \in use_theorems(c, g, round2) : ~r.changed

\* Either no if-statement applied, or each of the possible results is a change.
Unchanged(results, c) == results = {[c |-> c, changed |-> FALSE]}
Changed(results) == results # {} /\ \A r \in results : r.changed

\* One if-statement: what was changed stays so, and what was not is not
\* unless the statement applies, whatever the order of gates.
LEMMA AttemptUniform ==
  ASSUME NEW c, NEW results, Unchanged(results, c) \/ Changed(results), NEW group, NEW g, NEW round2
  PROVE  /\ Unchanged(Attempt(results, group, g, round2), c)
              \/ Changed(Attempt(results, group, g, round2))
         /\ Changed(results) => Changed(Attempt(results, group, g, round2))
         /\ Outcomes(group, c, g, round2) # {} => Changed(Attempt(results, group, g, round2))
<1> DEFINE Then(r) == Outcomes(group, r.c, g, round2)
           After(r) == IF Then(r) = {} THEN {r} ELSE {[c |-> d, changed |-> TRUE] : d \in Then(r)}
           next == Attempt(results, group, g, round2)
<1>1. next = UNION {After(r) : r \in results}
  BY DEF Attempt
<1>2. ASSUME NEW r PROVE /\ After(r) # {}
                         /\ r.changed \/ Then(r) # {} => \A q \in After(r) : q.changed
  <2>1. PICK S : S = Then(r)
    OBVIOUS
  <2>2. After(r) = IF S = {} THEN {r} ELSE {[c |-> d, changed |-> TRUE] : d \in S}
    BY <2>1
  <2> HIDE DEF After, Then
  <2>3. CASE S = {}
    BY <2>1, <2>2, <2>3
  <2>4. CASE S # {}
    <3>1. After(r) = {[c |-> d, changed |-> TRUE] : d \in S}
      BY <2>2, <2>4
    <3>2. PICK d : d \in S
      BY <2>4
    <3>3. [c |-> d, changed |-> TRUE] \in After(r)
      BY <3>1, <3>2
    <3>4. ASSUME NEW q \in After(r) PROVE q.changed = TRUE
      <4>1. PICK e \in S : q = [c |-> e, changed |-> TRUE]
        BY <3>1
      <4> QED BY <4>1
    <3> QED BY <3>3, <3>4
  <2> QED BY <2>3, <2>4
<1>3. CASE Unchanged(results, c)
  <2> DEFINE q == [c |-> c, changed |-> FALSE]
  <2>1. next = After(q) /\ q.c = c /\ ~q.changed
    BY <1>1, <1>3 DEF Unchanged
  <2>2. Then(q) = {} => Unchanged(next, c)
    BY <2>1 DEF Unchanged
  <2>3. Then(q) # {} => Changed(next)
    BY <1>2, <2>1 DEF Changed
  <2>4. ~Changed(results)
    BY <1>3 DEF Unchanged, Changed
  <2> QED BY <2>1, <2>2, <2>3, <2>4
<1>4. CASE Changed(results)
  <2> HIDE DEF After
  <2>1. next # {}
    BY <1>1, <1>2, <1>4 DEF Changed
  <2>2. \A q \in next : q.changed
    BY <1>1, <1>2, <1>4 DEF Changed
  <2> QED BY <2>1, <2>2 DEF Changed
<1> QED BY <1>3, <1>4

\* All of use_theorems: the choices it has do not matter to whether it changes
\* the circuit, and it does where a rule of the first group applies.
LEMMA UseTheoremsUniform ==
  ASSUME NEW c, NEW g, NEW round2
  PROVE  /\ Unchanged(use_theorems(c, g, round2), c) \/ Changed(use_theorems(c, g, round2))
         /\ Outcomes("simple", c, g, round2) # {} => Changed(use_theorems(c, g, round2))
<1> DEFINE OK(results) == Unchanged(results, c) \/ Changed(results)
           Try(results, group) == Attempt(results, group, g, round2)
           r0 == {[c |-> c, changed |-> FALSE]}
           Applies == Outcomes("simple", c, g, round2) # {}
<1>1. OK(r0)
  BY DEF Unchanged
<1>2. ASSUME NEW results, OK(results), NEW group
      PROVE  OK(Try(results, group)) /\ (Changed(results) => Changed(Try(results, group)))
  BY <1>2, AttemptUniform
<1>3. Applies => Changed(Try(r0, "simple"))
  BY <1>1, AttemptUniform
<1>4. use_theorems(c, g, round2) =
        Try(Try(Try(Try(Try(Try(Try(Try(Try(r0, "simple"), "cascade"), "fanin"), "hashing"), "or"),
          "xor"), "and"), "xors"), "not")
  BY UseTheoremsInOrder DEF InOrder
<1> HIDE DEF OK, Try, r0, Applies
<1> DEFINE Fine(results) == OK(results) /\ (Applies => Changed(results))
<1>5. Fine(Try(r0, "simple"))
  BY <1>1, <1>2, <1>3
<1>6. ASSUME NEW results, Fine(results), NEW group PROVE Fine(Try(results, group))
  BY <1>2, <1>6
<1> HIDE DEF Fine
<1>7. PICK r1 : r1 = Try(r0, "simple") /\ Fine(r1)
  BY <1>5
<1>8. PICK r2 : r2 = Try(r1, "cascade") /\ Fine(r2)
  BY <1>6, <1>7
<1>9. PICK r3 : r3 = Try(r2, "fanin") /\ Fine(r3)
  BY <1>6, <1>8
<1>10. PICK r4 : r4 = Try(r3, "hashing") /\ Fine(r4)
  BY <1>6, <1>9
<1>11. PICK r5 : r5 = Try(r4, "or") /\ Fine(r5)
  BY <1>6, <1>10
<1>12. PICK r6 : r6 = Try(r5, "xor") /\ Fine(r6)
  BY <1>6, <1>11
<1>13. PICK r7 : r7 = Try(r6, "and") /\ Fine(r7)
  BY <1>6, <1>12
<1>14. PICK r8 : r8 = Try(r7, "xors") /\ Fine(r8)
  BY <1>6, <1>13
<1>15. Fine(Try(r8, "not"))
  BY <1>6, <1>14
<1>16. Fine(use_theorems(c, g, round2))
  BY <1>4, <1>7, <1>8, <1>9, <1>10, <1>11, <1>12, <1>13, <1>14, <1>15
<1> QED BY <1>16 DEF Fine, OK, Applies

\* One result that is no change means that there is no other.
LEMMA QuietIfUnchanged ==
  ASSUME NEW c, NEW g, NEW round2, NEW r \in use_theorems(c, g, round2), ~r.changed
  PROVE  Quiet(c, g, round2)
<1>1. Unchanged(use_theorems(c, g, round2), c)
  BY UseTheoremsUniform DEF Changed
<1> QED BY <1>1 DEF Unchanged, Quiet

\* Where no rule applies, none of the first group does.
LEMMA QuietIsComplete ==
  ASSUME NEW c, NEW g, NEW round2, Quiet(c, g, round2)
  PROVE  Simple(c, g) = {}
<1>1. ~Changed(use_theorems(c, g, round2))
  BY DEF Quiet, Changed
<1>2. Outcomes("simple", c, g, round2) = {}
  BY <1>1, UseTheoremsUniform
<1> QED BY <1>2 DEF Outcomes, Replaced

\* What cleanup() asks of a gate: whether nothing reads it.
LEMMA NoFanouts ==
  ASSUME NEW c \in Circuit, WellFormed(c), NEW g \in Gates(c)
  PROVE  Fanouts(c, g) = {} <=> Unread(c, g)
<1>1. g \in Gate /\ g # NULL /\ g # ONE_GATE /\ "FREE" \notin BinOp
  BY Nodes DEF BinOp
<1>2. ASSUME NEW k \in Gate, NEW p \in Pin, c.fanin[k][p] = g PROVE Fanouts(c, g) # {}
  <2>1. k \in Gates(c)
    <3>1. p = 0 \/ p = 1
      BY DEF Pin
    <3> QED BY <1>1, <1>2, <3>1 DEF WellFormed, Gates
  <2>2. <<k, p>> \in Gates(c) \X Pin /\ c.fanin[<<k, p>>[1]][<<k, p>>[2]] = g
    BY <1>2, <2>1
  <2> QED BY <2>2 DEF Fanouts
<1>3. ASSUME NEW o \in Output, c.out[o] = g PROVE Fanouts(c, g) # {}
  <2>1. <<o, 0>> \in Output \X {0} /\ c.out[<<o, 0>>[1]] = g
    BY <1>3
  <2> QED BY <2>1 DEF Fanouts
<1>4. ASSUME Unread(c, g), NEW f \in Fanouts(c, g) PROVE FALSE
  <2>1. Gates(c) \subseteq Gate
    BY Nodes
  <2> QED BY <1>1, <1>4, <2>1 DEF Fanouts, Unread
<1> QED BY <1>2, <1>3, <1>4 DEF Unread

\* A gate keeps its readers when another is removed that does not read it.
LEMMA RemoveUnread ==
  ASSUME NEW c \in Circuit, WellFormed(c), NEW g \in Gates(c), NEW h \in Gates(c), g # h,
         ~Unread(c, g), \A p \in Pin : c.fanin[h][p] # g
  PROVE  ~Unread(RemoveGate(c, h), g)
<1>1. h \in Gate /\ Gates(c) \subseteq Gate
  BY Nodes
<1>2. /\ RemoveGate(c, h).out = c.out
      /\ \A k \in Gate : k # h => RemoveGate(c, h).fanin[k] = c.fanin[k]
  BY <1>1 DEF RemoveGate, Circuit
<1> QED BY <1>2 DEF Unread

----------------------------------------------------------------------------
(* The passes.                                                             *)

\* What a pass of rewrite() has done so far: it has made a gate that nothing
\* reads, or found no rule for the gates that it has visited.  In cleanup()
\* the one or the other is known, or there is such a gate still to come, or
\* the time is up.  What rewriting ends with, no rule applies to.
PassInv ==
  /\ pc = "worklist" =>
       \/ Spent(circuit)
       \/ \A g \in Gates(circuit) \ worklist : Quiet(circuit, g, min_op = "THEOREMS2")
  /\ pc = "cleanup" =>
       \/ timed_out \/ changed_circuit
       \/ \A g \in Gates(circuit) : Quiet(circuit, g, min_op = "THEOREMS2")
       \/ \E g \in worklist : Unread(circuit, g)
  /\ pc = "fixpoint" => \A g \in Gates(circuit) : Quiet(circuit, g, TRUE)

\* The levels that cleanup() goes by order the wires of what is left, and the
\* gates that it has passed are read and not below the gates to come.
Ordering(c, L) ==
  \A g \in Gates(c) :
    L[g] \in Nat /\ \A p \in Pin : c.fanin[g][p] \in Gates(c) => L[c.fanin[g][p]] < L[g]
CleanupInv ==
  pc \in {"cleanup", "sat_cleanup"} =>
    /\ Ordering(circuit, level)
    /\ \A g \in Gates(circuit) \ worklist :
         ~Unread(circuit, g) /\ \A h \in worklist : level[h] <= level[g]

\* Rewriting ends with nothing unused.
ReadInv == pc = "fixpoint" => ~Spent(circuit)

CleanInv == PassInv /\ CleanupInv /\ ReadInv

\* The steps of rewriting in all of minimize(), and the clock.
Waits ==
  /\ UNCHANGED <<pc, circuit, level, worklist, changed_circuit, min_op>>
  /\ timed_out => timed_out'
Moves == RewriteStep \/ BeginSatCleanup \/ EndSatCleanup \/ Waits

\* The clock may run out in the middle of anything.
LEMMA NextMoves == TypeOK /\ [Next]_vars => Moves
<1> SUFFICES ASSUME TypeOK, [Next]_vars PROVE Moves
  OBVIOUS
<1>1. CASE TimeExpires
  BY <1>1 DEF TimeExpires, rewrite_vars, Moves, Waits
<1>2. CASE UNCHANGED vars
  BY <1>2 DEF vars, rewrite_vars, Moves, Waits
<1> QED BY <1>1, <1>2 DEF Next, Finished, Moves

\* minimize() begins before the first pass.
LEMMA CleanInvInit == Init => CleanInv
  BY DEF Init, CleanInv, PassInv, CleanupInv, ReadInv

\* One gate of a pass: a rule that applies leaves a gate that nothing reads.
LEMMA RewriteGateClean ==
  ASSUME OrderInv, Room, HashingApart, CleanInv, RewriteGate
  PROVE  CleanInv'
<1>1. Good(circuit) /\ worklist \subseteq Gates(circuit)
  BY DEF OrderInv, RewriteInv, TypeOK, Good
<1>2. PICK round2 : round2 = (min_op = "THEOREMS2")
  OBVIOUS
<1>3. PICK g \in Deepest(level, worklist) :
        /\ \E r \in use_theorems(circuit, g, round2) : circuit' = r.c /\ changed_circuit' = r.changed
        /\ worklist' = worklist \ {g}
  BY <1>2 DEF RewriteGate
<1>4. PICK r \in use_theorems(circuit, g, round2) : circuit' = r.c
  BY <1>3
<1>5. g \in worklist /\ g \in Gates(circuit) /\ pc = "worklist" /\ pc' = pc /\ min_op' = min_op
  BY <1>1, <1>3 DEF Deepest, RewriteGate
<1>6. HashApart(circuit, g, round2)
  BY <1>2, <1>5 DEF HashingApart
<1>7. PICK aim \in Aims : aim # "function"
  BY DEF Aims
<1>8. Same(circuit, r, 9, aim)
  BY <1>1, <1>5, <1>6, <1>7, UseTheoremsSame DEF Room
<1>9. Spent(circuit') \/ \A k \in Gates(circuit') \ worklist' : Quiet(circuit', k, round2)
  <2>1. CASE r.changed
    BY <1>4, <1>8, <2>1 DEF Same
  <2>2. CASE ~r.changed
    <3>1. circuit' = circuit
      BY <1>4, <1>8, <2>2 DEF Same
    <3>2. Quiet(circuit, g, round2)
      BY <2>2, QuietIfUnchanged
    <3>3. Spent(circuit) \/ \A k \in Gates(circuit) \ worklist : Quiet(circuit, k, round2)
      BY <1>2, <1>5 DEF CleanInv, PassInv
    <3> QED BY <1>3, <3>1, <3>2, <3>3
  <2> QED BY <2>1, <2>2
<1>10. PassInv'
  <2>1. pc' = "worklist" /\ round2 = (min_op' = "THEOREMS2")
    BY <1>2, <1>5
  <2> QED BY <1>9, <2>1 DEF PassInv
<1> QED BY <1>5, <1>10 DEF CleanInv, CleanupInv, ReadInv

\* cleanup() begins, after a pass or after an iteration.
LEMMA BeginCleanupClean ==
  ASSUME OrderInv, CleanInv, BeginCleanup \/ BeginSatCleanup
  PROVE  CleanInv'
<1>1. Good(circuit)
  BY DEF OrderInv, RewriteInv, TypeOK, Good
<1>2. /\ circuit' = circuit /\ level' = Levels(circuit) /\ worklist' = Gates(circuit)
      /\ changed_circuit' = changed_circuit /\ min_op' = min_op /\ timed_out' = timed_out
      /\ pc' \in {"cleanup", "sat_cleanup"}
  BY DEF BeginCleanup, BeginSatCleanup, ComputeLevels
<1>3. Ordering(circuit', level')
  <2>1. IsRanking(circuit, Levels(circuit))
    BY <1>1, LevelsRank
  <2>2. Gates(circuit) \subseteq Present(circuit) /\ NULL \notin Gates(circuit)
    BY <1>1, Nodes DEF Good
  <2> QED BY <1>2, <2>1, <2>2 DEF Ordering, IsRanking
<1>4. CleanupInv'
  BY <1>2, <1>3 DEF CleanupInv
<1>5. ASSUME pc' = "cleanup"
      PROVE  \/ timed_out' \/ changed_circuit'
             \/ \A g \in Gates(circuit') : Quiet(circuit', g, min_op' = "THEOREMS2")
             \/ \E g \in worklist' : Unread(circuit', g)
  <2>1. pc = "worklist" /\ (worklist = {} \/ timed_out)
    BY <1>5 DEF BeginCleanup, BeginSatCleanup
  <2>2. CASE timed_out
    BY <1>2, <2>2
  <2>3. CASE worklist = {}
    <3>1. \/ Spent(circuit)
          \/ \A g \in Gates(circuit) \ worklist : Quiet(circuit, g, min_op = "THEOREMS2")
      BY <2>1 DEF CleanInv, PassInv
    <3> QED BY <1>2, <2>3, <3>1 DEF Spent
  <2> QED BY <2>1, <2>2, <2>3
<1> QED BY <1>2, <1>4, <1>5 DEF CleanInv, PassInv, ReadInv

\* cleanup() visits one gate.  The gates behind it do not lose their readers,
\* because it is not above them.
LEMMA CleanupGateClean ==
  ASSUME OrderInv, CleanInv, CleanupGate
  PROVE  CleanInv'
<1>1. circuit \in Circuit /\ WellFormed(circuit) /\ worklist \subseteq Gates(circuit)
  BY DEF OrderInv, RewriteInv, TypeOK
<1>2. PICK h \in Deepest(level, worklist) :
        worklist' = worklist \ {h} /\ RemoveIf(Fanouts(circuit, h) = {}, h)
  BY DEF CleanupGate
<1>3. h \in worklist /\ h \in Gates(circuit) /\ \A k \in worklist : level[k] <= level[h]
  BY <1>1 DEF Deepest
<1>4. /\ pc \in {"cleanup", "sat_cleanup"} /\ pc' = pc /\ level' = level /\ min_op' = min_op
      /\ timed_out' = timed_out
  BY DEF CleanupGate
<1>5. /\ Ordering(circuit, level)
      /\ \A g \in Gates(circuit) \ worklist :
           ~Unread(circuit, g) /\ \A k \in worklist : level[k] <= level[g]
  BY <1>4 DEF CleanInv, CleanupInv
<1>6. CASE Fanouts(circuit, h) = {}
  <2>1. circuit' = RemoveGate(circuit, h) /\ changed_circuit' = TRUE
    BY <1>2, <1>6 DEF RemoveIf
  <2>2. circuit' \in Circuit /\ WellFormed(circuit') /\ Gates(circuit') = Gates(circuit) \ {h}
    BY <1>1, <1>3, <1>6, <2>1, RemoveKeeps
  <2>3. \A k \in Gates(circuit') : circuit'.fanin[k] = circuit.fanin[k]
    <3>1. Gates(circuit) \subseteq Gate
      BY <1>1, Nodes
    <3> QED BY <1>1, <1>3, <2>1, <2>2, <3>1 DEF RemoveGate, Circuit
  <2>4. Ordering(circuit', level')
    BY <1>4, <1>5, <2>2, <2>3 DEF Ordering
  <2>5. ASSUME NEW g \in Gates(circuit') \ worklist'
        PROVE  ~Unread(circuit', g) /\ \A k \in worklist' : level'[k] <= level'[g]
    <3>1. g \in Gates(circuit) \ worklist /\ g # h
      BY <1>2, <2>2
    <3>2. ~Unread(circuit, g) /\ \A k \in worklist : level[k] <= level[g]
      BY <1>5, <3>1
    <3>3. ASSUME NEW p \in Pin PROVE circuit.fanin[h][p] # g
      <4>1. level[h] <= level[g] /\ level[h] \in Nat /\ level[g] \in Nat
        BY <1>3, <1>5, <3>1, <3>2 DEF Ordering
      <4>2. circuit.fanin[h][p] = g => level[g] < level[h]
        BY <1>3, <1>5, <3>1 DEF Ordering
      <4> QED BY <4>1, <4>2
    <3>4. ~Unread(circuit', g)
      BY <1>1, <1>3, <2>1, <3>1, <3>2, <3>3, RemoveUnread
    <3> QED BY <1>2, <1>4, <3>2, <3>4
  <2> QED BY <1>4, <2>1, <2>4, <2>5 DEF CleanInv, PassInv, CleanupInv, ReadInv
<1>7. CASE Fanouts(circuit, h) # {}
  <2>1. circuit' = circuit /\ changed_circuit' = changed_circuit
    BY <1>2, <1>7 DEF RemoveIf
  <2>2. ~Unread(circuit, h)
    BY <1>1, <1>3, <1>7, NoFanouts
  <2>3. CleanupInv'
    BY <1>2, <1>3, <1>4, <1>5, <2>1, <2>2 DEF CleanupInv
  <2>4. \A g \in worklist : Unread(circuit, g) => g \in worklist'
    BY <1>2, <2>2
  <2>5. ASSUME pc' = "cleanup"
        PROVE  \/ timed_out' \/ changed_circuit'
               \/ \A g \in Gates(circuit') : Quiet(circuit', g, min_op' = "THEOREMS2")
               \/ \E g \in worklist' : Unread(circuit', g)
    <3>1. \/ timed_out \/ changed_circuit
          \/ \A g \in Gates(circuit) : Quiet(circuit, g, min_op = "THEOREMS2")
          \/ \E g \in worklist : Unread(circuit, g)
      BY <1>4, <2>5 DEF CleanInv, PassInv
    <3> QED BY <1>4, <2>1, <2>4, <3>1
  <2> QED BY <1>4, <2>3, <2>5 DEF CleanInv, PassInv, ReadInv
<1> QED BY <1>6, <1>7

\* When cleanup() has visited all gates nothing is left unread.
LEMMA CleanedUp ==
  ASSUME CleanInv, pc \in {"cleanup", "sat_cleanup"}, worklist = {}
  PROVE  ~Spent(circuit)
  BY DEF CleanInv, CleanupInv, Spent

\* rewrite() returns: if it changed nothing, nothing is left to change.
LEMMA EndRewriteClean ==
  ASSUME OrderInv, CleanInv, EndRewrite
  PROVE  CleanInv'
<1>1. /\ pc = "cleanup" /\ worklist = {} /\ circuit' = circuit /\ pc' \in {"rewrite", "fixpoint", "done"}
      /\ ~Spent(circuit)
  BY CleanedUp DEF EndRewrite
<1>2. ASSUME pc' = "fixpoint" PROVE \A g \in Gates(circuit) : Quiet(circuit, g, TRUE)
  <2>1. ~timed_out /\ ~changed_circuit /\ min_op # "THEOREMS"
    BY <1>2 DEF EndRewrite
  <2>2. min_op = "THEOREMS2"
    BY <2>1 DEF OrderInv, RewriteInv, TypeOK
  <2>3. \A g \in Gates(circuit) : Quiet(circuit, g, min_op = "THEOREMS2")
    BY <1>1, <2>1 DEF CleanInv, PassInv
  <2>4. (min_op = "THEOREMS2") = TRUE
    BY <2>2
  <2> QED BY <2>3, <2>4
<1> QED BY <1>1, <1>2 DEF CleanInv, PassInv, CleanupInv, ReadInv

\* Every step of rewriting, wherever it is in minimize().
LEMMA CleanInvStep ==
  ASSUME OrderInv, Room, HashingApart, CleanInv, Moves
  PROVE  CleanInv'
<1>1. CASE BeginRewrite
  <2>1. pc' = "worklist" /\ worklist' = Gates(circuit) /\ circuit' = circuit
    BY <1>1 DEF BeginRewrite, ComputeLevels
  <2> QED BY <2>1 DEF CleanInv, PassInv, CleanupInv, ReadInv
<1>2. CASE Stop \/ EndSatCleanup
  BY <1>2 DEF Stop, EndSatCleanup, CleanInv, PassInv, CleanupInv, ReadInv
<1>3. CASE Waits
  <2>1. /\ pc' = pc /\ circuit' = circuit /\ level' = level /\ worklist' = worklist
        /\ changed_circuit' = changed_circuit /\ min_op' = min_op /\ (timed_out => timed_out')
    BY <1>3 DEF Waits
  <2>2. PassInv'
    BY <2>1 DEF CleanInv, PassInv
  <2> QED BY <2>1, <2>2 DEF CleanInv, CleanupInv, ReadInv
<1> QED BY <1>1, <1>2, <1>3, RewriteGateClean, BeginCleanupClean, CleanupGateClean, EndRewriteClean
     DEF Moves, RewriteStep

\* Where a pass may be about to begin, or minimize() has returned, nothing is
\* unused, if nothing was at the call.
StopInv == pc \in {"rewrite", "fixpoint", "done"} => ~Spent(circuit)

LEMMA StopInvStep ==
  ASSUME OrderInv, CleanInv, StopInv, Moves
  PROVE  StopInv'
<1>1. CASE EndRewrite \/ EndSatCleanup
  <2>1. circuit' = circuit /\ ~Spent(circuit)
    BY <1>1, CleanedUp DEF EndRewrite, EndSatCleanup
  <2> QED BY <2>1 DEF StopInv
<1>2. CASE Stop \/ Waits
  BY <1>2 DEF Stop, Waits, StopInv
<1>3. CASE BeginRewrite \/ RewriteGate \/ BeginCleanup \/ BeginSatCleanup \/ CleanupGate
  BY <1>3 DEF BeginRewrite, RewriteGate, BeginCleanup, BeginSatCleanup, CleanupGate, StopInv
<1> QED BY <1>1, <1>2, <1>3 DEF Moves, RewriteStep

\* What a caller sees of CleanInv.
LEMMA CleanFixpointHolds ==
  ASSUME OrderInv, CleanInv
  PROVE  CleanFixpoint
<1> SUFFICES ASSUME pc = "fixpoint", NEW g \in Gates(circuit)
             PROVE  Fanouts(circuit, g) # {} /\ \A r \in use_theorems(circuit, g, TRUE) : ~r.changed
  BY DEF CleanFixpoint
<1>1. Quiet(circuit, g, TRUE)
  BY DEF CleanInv, PassInv
<1>2. ~Unread(circuit, g)
  BY DEF CleanInv, ReadInv, Spent
<1>3. Fanouts(circuit, g) # {}
  BY <1>2, NoFanouts DEF OrderInv, RewriteInv, TypeOK
<1> QED BY <1>1, <1>3 DEF Quiet

LEMMA CleanEndHolds ==
  ASSUME OrderInv, CleanInv, StopInv
  PROVE  CleanEnd
<1>1. ASSUME pc \in {"fixpoint", "done"}, NEW g \in Gates(circuit) PROVE Fanouts(circuit, g) # {}
  <2>1. ~Unread(circuit, g)
    BY <1>1 DEF StopInv, Spent
  <2> QED BY <2>1, NoFanouts DEF OrderInv, RewriteInv, TypeOK
<1> QED BY <1>1, CleanFixpointHolds DEF CleanEnd, CleanStop

\* When rewriting reports a fixpoint, no rule of the second round applies to
\* any gate and no gate is unused, although only the result for the last gate
\* of a pass is kept: for every circuit and every order of the gates, trees of
\* ORs shared or not.
THEOREM CleanFixpointCorrect == Spec /\ []Room /\ []HashingApart => []CleanFixpoint
<1>1. Init => OrderInv /\ CleanInv
  BY FunctionInvInit, CleanInvInit DEF FunctionInv
<1>2. OrderInv /\ CleanInv /\ Room /\ HashingApart /\ [Next]_vars => (OrderInv /\ CleanInv)'
  BY OrderInvStep, CleanInvStep, NextMoves DEF OrderInv, RewriteInv
<1>3. OrderInv /\ CleanInv => CleanFixpoint
  BY CleanFixpointHolds
<1> QED BY <1>1, <1>2, <1>3, PTL DEF Spec

\* Moreover, wherever rewriting stops, because it is finished or because the
\* time is up, no gate is unused: of a circuit that had none when minimize()
\* was called, since the time may be up before the first cleanup().
THEOREM CleanEndCorrect ==
  Spec /\ ~Spent(circuit) /\ []Room /\ []HashingApart => []CleanEnd
<1> DEFINE I == OrderInv /\ CleanInv /\ StopInv
<1>1. Init /\ ~Spent(circuit) => I
  BY FunctionInvInit, CleanInvInit DEF FunctionInv, StopInv
<1>2. I /\ Room /\ HashingApart /\ [Next]_vars => I'
  BY OrderInvStep, CleanInvStep, StopInvStep, NextMoves DEF OrderInv, RewriteInv
<1>3. I => CleanEnd
  BY CleanEndHolds
<1> HIDE DEF I
<1> QED BY <1>1, <1>2, <1>3, PTL DEF Spec
=============================================================================
