----------------------------- MODULE MCFrontEnd -----------------------------
(***************************************************************************)
(* Instances of CircuitCreator and of Lowering.  Part says which of the    *)
(* two the behaviour is one of; the other's variables keep idle values.    *)
(*                                                                         *)
(* creator: one _Bool, with two bits, as input, and two outputs of an      *)
(* integer type.  lowering: expressions over vectors of width 1, 2 and 4,  *)
(* the powers of two up to the first that has two stages in a prefix       *)
(* network, and arrays of up to five elements.                             *)
(***************************************************************************)
EXTENDS CircuitCreator

CONSTANT NONE
VARIABLES part, blocks, optimization, expr, result

Inputs   == <<"bool">>
Integers2 == <<"int", "int">>

----------------------------------------------------------------------------
(* Expressions.                                                            *)

L == INSTANCE Lowering WITH Exprs <- {}

Vec(w) == [0 .. w - 1 -> BOOLEAN]

Term(w, n)       == [subtract : BOOLEAN, factors : [1 .. n -> Vec(w)]]
Sum(minus, ts)   == [kind |-> "sum", minus |-> minus, terms |-> ts]
OfFactors(w, ns) == UNION {Term(w, n) : n \in ns}

Sums == UNION {
  {Sum(FALSE, <<s, t>>) : s, t \in OfFactors(2, {1, 2})},
  {Sum(FALSE, <<s, t, u>>) : s, t, u \in OfFactors(2, {1})},
  {Sum(FALSE, <<s, t>>) : s \in Term(2, 3), t \in Term(2, 1)},
  {Sum(FALSE, <<s, t>>) : s, t \in Term(4, 1)},
  {Sum(FALSE, <<s>>) : s \in Term(4, 2)},
  {Sum(TRUE, <<s, t>>) : s, t \in {x \in OfFactors(2, {1}) : ~ x.subtract}}}

Unary    == {[kind |-> "neg", op0 |-> v] : v \in Vec(1) \cup Vec(2) \cup Vec(4)}
Products == {[kind |-> "mult", factors |-> f] :
               f \in [1 .. 2 -> Vec(4)] \cup [1 .. 3 -> Vec(2)] \cup [1 .. 2 -> Vec(1)]}
Divisions ==
  UNION {{[kind |-> k, op0 |-> a, op1 |-> b, signed |-> s] :
            k \in {"div", "mod"}, s \in BOOLEAN, a \in Vec(w), b \in Vec(w) \ {L!Zeros(w)}}
         : w \in {1, 2, 4}}
Distances(w) == {d \in Vec(w) : L!Unsigned(d) < w}
Shifts == UNION {{[kind |-> "shift", id |-> k, op0 |-> a, op1 |-> d] :
                    k \in {"LEFT", "ARIGHT", "LRIGHT"}, a \in Vec(w), d \in Distances(w)}
                 : w \in {1, 2, 4}}
Relations(ws) ==
  UNION {{[kind |-> "rel", id |-> r, op0 |-> a, op1 |-> b, signed |-> s] :
            r \in {"==", "!=", "<=", "<", ">=", ">"}, s \in BOOLEAN, a, b \in Vec(w)}
         : w \in ws}

\* Literals of an index, none of them a negated variable.
Selector == [0 .. 2 -> [sign : {FALSE}, value : BOOLEAN]]
Indices ==
  UNION {{[kind |-> "index", array |-> a, selector |-> s] :
            a \in [1 .. n -> BOOLEAN],
            s \in {x \in Selector : L!Unsigned([i \in 0 .. 2 |-> x[i].value]) < n}}
         : n \in 1 .. 5}

Exprs == UNION {Sums, Unary, Products, Divisions, Shifts, Relations({1, 2, 4}), Indices}

----------------------------------------------------------------------------
lowering == <<blocks, optimization, expr, result>>

E == INSTANCE Lowering WITH Exprs <- Exprs

NothingToCreate ==
  /\ graph = << >> /\ inLits = << >> /\ outLits = << >> /\ phase = "done" /\ next = 1
  /\ gates = << >> /\ outputs = << >> /\ map = << >> /\ calls = << >>
NothingToLower ==
  blocks = "size" /\ optimization = "size" /\ expr = [kind |-> "none"] /\ result = NONE

InitFrontEnd == \/ part = "creator"  /\ Init /\ NothingToLower
                \/ part = "lowering" /\ E!Init /\ NothingToCreate

\* An expression is one step.  The conversion of the circuit may stop nowhere
\* but at its end: the run looks for deadlock.
Ended == phase = "done"

NextFrontEnd == /\ \/ part = "creator"  /\ Next /\ UNCHANGED lowering
                   \/ part = "lowering" /\ E!Next /\ UNCHANGED vars
                   \/ Ended /\ UNCHANGED <<vars, lowering>>
                /\ UNCHANGED part

SpecFrontEnd == InitFrontEnd /\ [][NextFrontEnd]_<<vars, lowering, part>>

----------------------------------------------------------------------------
(* The properties: SameAsProgram and ConvertedOnce of CircuitCreator are   *)
(* as they are there.                                                      *)

\* Lowering: every expression has the width and the value that it has in C.
LoweringIsRight ==
  /\ E!TypeOK /\ E!SumsAreRight /\ E!DivisionIsRight /\ E!ShiftsAreRight
  /\ E!ComparisonsAreRight /\ E!ElementIsRight
=============================================================================
