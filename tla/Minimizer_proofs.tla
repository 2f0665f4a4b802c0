-------------------------- MODULE Minimizer_proofs --------------------------
(***************************************************************************)
(* First a SAT-based iteration, for every set of gates, inputs and outputs *)
(* and every circuit the iteration may begin with; then minimize() as a    *)
(* whole, for any number of iterations: rewriting and sweeping leave to    *)
(* one another what the other relies on, the result is minimal, and the    *)
(* caller sees nothing but what Optimizer says.                            *)
(***************************************************************************)
EXTENDS Minimizer, Rewrite_proofs

----------------------------------------------------------------------------
(* A SAT-based iteration.                                                  *)

\* Merging a gate into one that is not above it keeps the levels a ranking.
LEMMA MergeKeepsRanking ==
  ASSUME NEW c \in Circuit, NEW g \in Gates(c), NEW h \in Const \cup Gates(c),
         NEW L, IsRanking(c, L), L[h] <= L[g]
  PROVE  IsRanking(ReplaceBy(c, g, h), L)
<1> DEFINE d == ReplaceBy(c, g, h)
<1>1. h \in Node /\ g \in Node /\ NULL \notin Node
  BY NetlistAssumption DEF Node, Gates
<1>2. Gates(d) = Gates(c) /\ Present(d) = Present(c)
  BY <1>1, MergeGates
<1>3. L \in [Present(c) -> Nat] /\ L[ZERO_GATE] = 1
  BY DEF IsRanking
<1>4. \A n \in Gates(c) : L[n] \in Nat
  BY <1>3 DEF Present
<1>5. L[h] \in Nat
  BY <1>3 DEF Present
<1>6. ASSUME NEW k \in Gates(d), NEW p \in Pin, d.fanin[k][p] # NULL
      PROVE  L[d.fanin[k][p]] < L[k]
  <2>1. k \in Gate /\ k \in Gates(c)
    BY <1>2 DEF Gates
  <2>2. d.fanin[k][p] = IF c.fanin[k][p] = g THEN h ELSE c.fanin[k][p]
    BY <1>1, <2>1, MergeFields
  <2>3. CASE c.fanin[k][p] = g
    <3>1. L[g] < L[k]
      BY <2>1, <2>3, <1>1 DEF IsRanking
    <3> QED BY <3>1, <2>1, <2>2, <2>3, <1>4, <1>5
  <2>4. CASE c.fanin[k][p] # g
    BY <2>1, <2>2, <2>4, <1>6 DEF IsRanking
  <2> QED BY <2>3, <2>4
<1> QED BY <1>2, <1>3, <1>6 DEF IsRanking

----------------------------------------------------------------------------
(* The bins.                                                               *)

\* A bin does not hold both constants: their values differ.
LEMMA AlikeSeparatesConstants ==
  ASSUME NEW b, Alike(b), Simulations(ref, AllFalse) # {}
  PROVE  ~(ONE_GATE \in b /\ ZERO_GATE \in b)
  BY NetlistAssumption DEF Alike, Val

\* Bins are made of the nodes of the circuit, alike in every stored
\* interpretation.
LEMMA CreatedBins ==
  ASSUME NEW c, NEW I, AllFalse \in I, NEW b \in create_bins(c, I)
  PROVE  /\ b \subseteq Const \cup Gates(c)
         /\ \A V \in Simulations(c, AllFalse) : \A m, n \in b : Val(V, m) = Val(V, n)
  BY DEF create_bins, Large, Simulations

\* Refinement makes bins smaller.
LEMMA RefinedBins ==
  ASSUME NEW B, NEW V, NEW d \in refine_bins(V, B)
  PROVE  \E b \in B : d \subseteq b
  BY DEF refine_bins, Large

----------------------------------------------------------------------------
(* The invariant.                                                          *)

\* A circuit without cycles can be simulated.
LEMMA CanSimulate ==
  ASSUME NEW c \in Circuit, WellFormed(c), Acyclic(c)
  PROVE  Simulations(c, AllFalse) # {}
<1>1. AllFalse \in [Input -> BOOLEAN]
  BY DEF AllFalse
<1>2. PICK V \in Valuations(c) : \A i \in Input : V[i] = AllFalse[i]
  BY <1>1, SomeValuation DEF Good
<1>3. InputsOf(V) = AllFalse
  BY <1>2 DEF InputsOf, AllFalse
<1> QED BY <1>2, <1>3 DEF Simulations

\* What minimize() has when it calls for an iteration.
Ready ==
  /\ pc = "fixpoint"
  /\ circuit \in Circuit /\ WellFormed(circuit) /\ Acyclic(circuit)
  /\ rest = {} /\ representative \in Const \cup Gate \cup {NULL}
  /\ interpretations \subseteq Interpretation /\ AllFalse \in interpretations
  /\ timed_out \in BOOLEAN

\* An iteration begins with nothing compared yet.
LEMMA InitReady == InitSweep => Ready
  BY MinimizerAssumption DEF InitSweep, Ready

LEMMA InitIntact == InitSweep => Intact
<1> SUFFICES ASSUME InitSweep PROVE Intact
  OBVIOUS
<1>1. circuit \in Circuit /\ WellFormed(circuit) /\ Acyclic(circuit)
  BY InitReady DEF Ready
<1>2. SweepTypeOK
  <2>1. threshold \in 0 .. SimRounds
    BY SweepAssumption DEF InitSweep
  <2>2. circuit \in Circuit /\ ref \in Circuit
    BY <1>1 DEF InitSweep
  <2>3. bins \subseteq SUBSET (Const \cup Gates(ref)) /\ rest \subseteq Gates(ref)
    BY DEF InitSweep
  <2>4. representative \in Const \cup Gate \cup {NULL}
    BY DEF InitSweep
  <2>5. interpretations \subseteq Interpretation
    BY DEF InitSweep
  <2>6. pc = "fixpoint" /\ changed \in BOOLEAN /\ timed_out \in BOOLEAN
    BY DEF InitSweep
  <2> QED BY <2>1, <2>2, <2>3, <2>4, <2>5, <2>6 DEF SweepTypeOK
<1>3. SameFunction
  BY DEF InitSweep, SameFunction, Valuations
<1>4. Ranked
  BY DEF InitSweep, Ranked, Active
<1> QED BY <1>1, <1>2, <1>3, <1>4 DEF InitSweep, Intact

\* The bins of a new iteration are made for the circuit that it begins with.
LEMMA StartIntact == Ready /\ StartSweep => Intact'
<1> SUFFICES ASSUME Ready, StartSweep PROVE Intact'
  OBVIOUS
<1>1. circuit' = circuit /\ ref' = circuit /\ pc' = "simulate" /\ rest' = {}
  BY DEF Ready, StartSweep
<1>2. /\ bins' = create_bins(ref', interpretations) /\ interpretations' = interpretations
      /\ AllFalse \in interpretations
  BY <1>1 DEF Ready, StartSweep
<1>3. \A b \in bins' : b \subseteq Const \cup Gates(ref') /\ Alike(b)'
  <2> SUFFICES ASSUME NEW b \in bins' PROVE b \subseteq Const \cup Gates(ref') /\ Alike(b)'
    OBVIOUS
  <2>1. b \in create_bins(circuit, interpretations)
    BY <1>1, <1>2
  <2>2. /\ b \subseteq Const \cup Gates(circuit)
        /\ \A V \in Simulations(circuit, AllFalse) : \A m, n \in b : Val(V, m) = Val(V, n)
    BY <1>2, <2>1, CreatedBins
  <2> QED BY <1>1, <2>2 DEF Alike
<1>4. SweepTypeOK'
  <2>1. threshold' \in 0 .. SimRounds
    BY SweepAssumption DEF StartSweep
  <2>2. bins' \subseteq SUBSET (Const \cup Gates(ref'))
    BY <1>3
  <2>3. UNCHANGED <<representative, interpretations, timed_out>>
    BY <1>1 DEF StartSweep
  <2>4. changed' \in BOOLEAN
    BY DEF StartSweep
  <2>5. circuit' \in Circuit /\ ref' \in Circuit /\ rest' \subseteq Gates(ref')
    BY <1>1 DEF Ready
  <2> QED BY <1>1, <2>1, <2>2, <2>3, <2>4, <2>5 DEF SweepTypeOK, Ready
<1>5. Ranked'
  BY <1>1 DEF StartSweep, Ranked
<1>6. SameFunction'
  BY <1>1 DEF SameFunction, Valuations
<1>7. WellFormed(circuit') /\ Acyclic(circuit') /\ WellFormed(ref') /\ Acyclic(ref')
  BY <1>1 DEF Ready
<1>8. AllFalse' \in interpretations'
  BY <1>2 DEF AllFalse
<1> QED BY <1>1, <1>3, <1>4, <1>5, <1>6, <1>7, <1>8 DEF Intact

\* What every step keeps that leaves the circuit and its levels alone.
LEMMA QuietStep ==
  ASSUME Intact, UNCHANGED <<circuit, level, ref>>,
         Active' => Active
  PROVE  /\ SameFunction' /\ Ranked' /\ WellFormed(circuit)'
         /\ (circuit.op = ref.op)' /\ Acyclic(circuit)' /\ WellFormed(ref)' /\ Acyclic(ref)'
         /\ \A b : Alike(b) => Alike(b)'
         /\ (circuit \in Circuit /\ ref \in Circuit)'
<1>1. SameFunction'
  BY DEF Intact, SameFunction
<1>2. Ranked'
  BY DEF Intact, Ranked
<1>3. /\ WellFormed(circuit)' /\ (circuit.op = ref.op)' /\ Acyclic(circuit)'
      /\ WellFormed(ref)' /\ Acyclic(ref)'
  BY DEF Intact
<1>4. \A b : Alike(b) => Alike(b)'
  BY DEF Alike
<1> QED BY <1>1, <1>2, <1>3, <1>4 DEF Intact, SweepTypeOK

\* A round of simulation only makes bins smaller.
LEMMA SimulateIntact == Intact /\ Simulate => Intact'
<1> SUFFICES ASSUME Intact, Simulate PROVE Intact'
  OBVIOUS
<1>1. /\ pc = "simulate" /\ threshold < SimRounds
      /\ UNCHANGED <<pc, circuit, level, representative, rest, changed, timed_out, ref>>
  BY DEF Simulate
<1>2. PICK V \in Valuations(circuit) :
        IF Separates(V, bins)
        THEN /\ bins' = refine_bins(V, bins)
             /\ interpretations' = interpretations \cup {InputsOf(V)}
             /\ threshold' = 0
        ELSE /\ threshold' = threshold + 1
             /\ UNCHANGED <<bins, interpretations>>
  BY DEF Simulate
<1>3. \A d \in bins' : \E b \in bins : d \subseteq b
  BY <1>2, RefinedBins
<1>4. \A d \in bins' : Alike(d)
  BY <1>3 DEF Intact, Alike
<1>5. bins' \subseteq SUBSET (Const \cup Gates(ref))
  BY <1>3 DEF Intact, SweepTypeOK
<1>6. InputsOf(V) \in Interpretation
  BY DEF Valuations, InputsOf, Interpretation
<1>7. interpretations' \subseteq Interpretation /\ AllFalse \in interpretations'
  BY <1>2, <1>6 DEF Intact, SweepTypeOK
<1>8. threshold' \in 0 .. SimRounds
  BY <1>1, <1>2, SweepAssumption DEF Intact, SweepTypeOK
<1>9. SweepTypeOK'
  BY <1>1, <1>5, <1>7, <1>8 DEF Intact, SweepTypeOK
<1> QED BY <1>1, <1>4, <1>7, <1>9, QuietStep DEF Intact, Active

\* The gates left in the bin of a constant are no constants.
LEMMA ChooseConstantBinIntact == Intact /\ ChooseConstantBin => Intact'
<1> SUFFICES ASSUME Intact, ChooseConstantBin PROVE Intact'
  OBVIOUS
<1>0. PICK b \in bins : \E n \in b \cap Const :
        bins' = bins \ {b} /\ representative' = n /\ rest' = b \ {n}
  BY DEF ChooseConstantBin
<1>1. PICK n \in b \cap Const : bins' = bins \ {b} /\ representative' = n /\ rest' = b \ {n}
  BY <1>0
<1>2. /\ pc = "bins" /\ pc' = "constants"
      /\ UNCHANGED <<circuit, level, interpretations, threshold, changed, timed_out, ref>>
  BY DEF ChooseConstantBin
<1>3. b \subseteq Const \cup Gates(ref) /\ Alike(b)
  BY DEF Intact, SweepTypeOK
<1>4. ~(ONE_GATE \in b /\ ZERO_GATE \in b)
  BY <1>3, AlikeSeparatesConstants, CanSimulate DEF Intact, SweepTypeOK
<1>5. rest' \subseteq Gates(ref) /\ representative' \in Const
  BY <1>1, <1>3, <1>4 DEF Const
<1>6. Alike(rest' \cup {representative'})
  BY <1>1, <1>3 DEF Alike
<1>7. SweepTypeOK'
  BY <1>1, <1>2, <1>5 DEF Intact, SweepTypeOK
<1> QED BY <1>1, <1>2, <1>5, <1>6, <1>7, QuietStep DEF Intact, Active

\* The representative of a bin without constants is below the rest.
LEMMA ChooseRegularBinIntact == Intact /\ ChooseRegularBin => Intact'
<1> SUFFICES ASSUME Intact, ChooseRegularBin PROVE Intact'
  OBVIOUS
<1>0. PICK b \in bins : \E n \in Shallowest(level, b) :
        b \cap Const = {} /\ bins' = bins \ {b} /\ representative' = n /\ rest' = b \ {n}
  BY DEF ChooseRegularBin
<1>1. PICK n \in Shallowest(level, b) :
        b \cap Const = {} /\ bins' = bins \ {b} /\ representative' = n /\ rest' = b \ {n}
  BY <1>0
<1>2. /\ pc = "bins" /\ pc' = "regular"
      /\ UNCHANGED <<circuit, level, interpretations, threshold, changed, timed_out, ref>>
  BY DEF ChooseRegularBin
<1>3. b \subseteq Gates(ref) /\ Gates(ref) \subseteq Gate
  BY <1>1 DEF Intact, SweepTypeOK, Gates
<1>4. n \in b /\ \A g \in b : level[n] <= level[g]
  BY DEF Shallowest
<1>5. SweepTypeOK'
  BY <1>1, <1>2, <1>3, <1>4 DEF Intact, SweepTypeOK
<1> QED BY <1>1, <1>2, <1>3, <1>4, <1>5, QuietStep DEF Intact, Active

\* The steps that only move on, or do nothing.
LEMMA OtherIntact ==
  ASSUME Intact, UNCHANGED <<circuit, level, bin_vars, interpretations, threshold, changed, ref>>,
         timed_out' \in BOOLEAN,
         pc' = pc \/ (pc' \in {"bins", "swept", "done"} /\ pc \in {"simulate", "bins", "constants", "regular"})
  PROVE  Intact'
<1>1. Active' => Active
  BY DEF Active
<1>2. pc' \in {"fixpoint", "simulate", "bins", "constants", "regular", "swept", "done"}
  BY DEF Intact, SweepTypeOK
<1>3. SweepTypeOK'
  BY <1>2 DEF Intact, SweepTypeOK, bin_vars
<1>4. /\ pc' = "fixpoint" => pc = "fixpoint"
      /\ pc' = "simulate" => pc = "simulate"
      /\ pc' = "constants" => pc = "constants"
      /\ pc' = "regular" => pc = "regular"
  OBVIOUS
<1>5. \A b \in bins' : Alike(b)'
  BY QuietStep, <1>1 DEF Intact, bin_vars
<1>6. pc' = "constants" => (representative \in Const /\ Alike(rest \cup {representative}))'
  BY <1>4, <1>1, QuietStep DEF Intact, bin_vars
<1>7. pc' = "regular" => /\ (representative \in Gates(ref))'
                         /\ \A g \in rest' : level'[representative'] <= level'[g]
  BY <1>4 DEF Intact, bin_vars
<1>8. (AllFalse \in interpretations)' /\ (pc' \in {"fixpoint", "simulate"} => (circuit = ref /\ rest = {})')
  BY <1>4 DEF Intact, bin_vars, AllFalse
<1> QED BY <1>1, <1>3, <1>5, <1>6, <1>7, <1>8, QuietStep DEF Intact

\* The end of a phase, and the clock, keep the invariant.
LEMMA MoveOnIntact ==
  Intact /\ (EndSimulate \/ EndBin \/ EndSweep \/ SweepTimeExpires \/ SweepFinished \/ UNCHANGED sweep_vars) => Intact'
<1> SUFFICES ASSUME Intact, EndSimulate \/ EndBin \/ EndSweep \/ SweepTimeExpires \/ SweepFinished \/ UNCHANGED sweep_vars
             PROVE  Intact'
  OBVIOUS
<1>1. timed_out \in BOOLEAN
  BY DEF Intact, SweepTypeOK
<1>2. CASE EndSimulate
  BY <1>1, <1>2, OtherIntact DEF EndSimulate
<1>3. CASE EndBin
  BY <1>1, <1>3, OtherIntact DEF EndBin
<1>4. CASE EndSweep
  <2>1. pc = "bins" /\ pc' \in {"bins", "swept", "done"}
    BY <1>4 DEF EndSweep
  <2>2. /\ UNCHANGED <<circuit, level, bin_vars, interpretations, threshold, changed, ref>>
        /\ timed_out' = timed_out
    BY <1>4 DEF EndSweep
  <2> QED BY <1>1, <2>1, <2>2, OtherIntact
<1>5. CASE SweepTimeExpires
  BY <1>1, <1>5, OtherIntact DEF SweepTimeExpires
<1>6. CASE UNCHANGED sweep_vars
  BY <1>1, <1>6, OtherIntact DEF sweep_vars
<1> QED BY <1>2, <1>3, <1>4, <1>5, <1>6 DEF SweepFinished

----------------------------------------------------------------------------
(* The answers of the solver.                                              *)

\* A counterexample is stored and ends the bin.
LEMMA CounterexampleIntact ==
  ASSUME Intact, pc \in {"constants", "regular"},
         NEW V \in Valuations(circuit), StoreCounterexample(V),
         UNCHANGED <<pc, level, bins, threshold, representative, timed_out, ref>>
  PROVE  Intact'
<1>1. /\ interpretations' = interpretations \cup {InputsOf(V)}
      /\ changed' = TRUE /\ rest' = {} /\ circuit' = circuit
  BY DEF StoreCounterexample
<1>2. InputsOf(V) \in Interpretation
  BY DEF Valuations, InputsOf, Interpretation
<1>3. interpretations' \subseteq Interpretation /\ (AllFalse \in interpretations)'
  BY <1>1, <1>2 DEF Intact, SweepTypeOK, AllFalse
<1>4. SweepTypeOK'
  BY <1>1, <1>3 DEF Intact, SweepTypeOK
<1>5. Alike(rest \cup {representative})'
  <2>1. \A m, n \in rest' \cup {representative'} : m = n
    BY <1>1
  <2> QED BY <2>1 DEF Alike
<1>6. Active' => Active
  BY DEF Active
<1>7. \A b \in bins' : Alike(b)'
  BY <1>6, <1>1, QuietStep DEF Intact
<1> QED BY <1>1, <1>3, <1>4, <1>5, <1>6, <1>7, QuietStep DEF Intact

\* A merge of two gates that are equal in every valuation.
LEMMA MergeIntact ==
  ASSUME Intact, pc \in {"constants", "regular"}, NEW g \in rest,
         \A V \in Valuations(circuit) : Val(V, g) = Val(V, representative),
         level[representative] <= level[g],
         circuit' = ReplaceBy(circuit, g, representative),
         rest' = rest \ {g}, changed' \in BOOLEAN,
         UNCHANGED <<pc, level, bins, interpretations, threshold, representative, timed_out, ref>>
  PROVE  Intact'
<1>1. /\ circuit \in Circuit /\ ref \in Circuit /\ rest \subseteq Gates(ref)
      /\ circuit.op = ref.op /\ WellFormed(circuit) /\ IsRanking(circuit, level)
  BY DEF Intact, SweepTypeOK, Ranked, Active
<1>2. Gates(circuit) = Gates(ref)
  BY <1>1 DEF Gates
<1>3. g \in Gates(circuit) /\ representative \in Const \cup Gates(circuit)
  BY <1>1, <1>2, NetlistAssumption DEF Intact
<1>4. representative \in Node
  BY <1>3 DEF Node, Gates
<1>5. circuit' \in Circuit /\ circuit'.op = ref.op
  BY <1>1, <1>3, <1>4, MergeFields
<1>6. WellFormed(circuit')
  <2>1. representative \in Present(circuit) /\ g # NULL
    BY <1>1, <1>3, Nodes DEF Present
  <2> QED BY <1>1, <2>1, MergeKeepsWellFormed
<1>7. IsRanking(circuit', level') /\ Acyclic(circuit')
  BY <1>1, <1>3, <1>5, MergeKeepsRanking, RankingAcyclic
<1>8. SameFunction'
  <2> SUFFICES ASSUME NEW V \in Valuations(ref)
               PROVE  Consistent(circuit', V) /\ Outputs(circuit', V) = Outputs(ref, V)
    BY DEF SameFunction
  <2>1. Consistent(circuit, V) /\ Outputs(circuit, V) = Outputs(ref, V)
    BY DEF Intact, SameFunction
  <2>2. V \in Valuations(circuit)
    BY <2>1, <1>2 DEF Valuations
  <2> QED BY <2>1, <2>2, <1>1, <1>3, <1>4, MergeKeepsValues
<1>9. SweepTypeOK'
  <2>1. rest' \subseteq Gates(ref')
    BY <1>1
  <2>2. bins' \subseteq SUBSET (Const \cup Gates(ref'))
    BY DEF Intact, SweepTypeOK
  <2> QED BY <2>1, <2>2, <1>1, <1>5 DEF Intact, SweepTypeOK
<1>10. \A b : Alike(b) => Alike(b)'
  BY DEF Alike
<1>11. pc = "constants" => Alike(rest' \cup {representative})
  BY DEF Intact, Alike
<1>12. /\ WellFormed(ref)' /\ Acyclic(ref)' /\ (AllFalse \in interpretations)'
       /\ Ranked' /\ pc' \notin {"fixpoint", "simulate"}
  BY <1>7 DEF Intact, Ranked
<1>13. \A b \in bins' : Alike(b)'
  BY <1>10 DEF Intact
<1>14. pc' = "constants" => (representative \in Const /\ Alike(rest \cup {representative}))'
  BY <1>10, <1>11 DEF Intact
<1>15. pc' = "regular" => /\ (representative \in Gates(ref))'
                          /\ \A k \in rest' : level'[representative'] <= level'[k]
  BY DEF Intact
<1> QED BY <1>5, <1>6, <1>7, <1>8, <1>9, <1>12, <1>13, <1>14, <1>15 DEF Intact

\* A gate that is constantly false is never merged into ONE_GATE: the bin of a
\* constant agrees with it when all inputs are false.
LEMMA FalseGateIsZero ==
  ASSUME Intact, pc = "constants", NEW g \in rest,
         \A V \in Valuations(circuit) : ~Val(V, g)
  PROVE  representative = ZERO_GATE
<1>1. PICK V \in Simulations(ref, AllFalse) : TRUE
  BY CanSimulate DEF Intact, SweepTypeOK
<1>2. V \in Valuations(ref) /\ Gates(circuit) = Gates(ref)
  BY <1>1 DEF Simulations, Intact, Gates
<1>3. V \in Valuations(circuit)
  BY <1>2 DEF Intact, SameFunction, Valuations
<1>4. Val(V, g) = Val(V, representative) /\ representative \in Const
  BY <1>1 DEF Intact, Alike
<1> QED BY <1>3, <1>4 DEF Const, Val

\* The solver's answer for a gate in the bin of a constant.
LEMMA CheckConstantIntact == Intact /\ CheckConstant => Intact'
<1> SUFFICES ASSUME Intact, CheckConstant PROVE Intact'
  OBVIOUS
<1>1. /\ pc = "constants"
      /\ UNCHANGED <<pc, level, bins, threshold, representative, timed_out, ref>>
  BY DEF CheckConstant
<1>2. PICK g \in Shallowest(level, rest) :
        LET refuting == {V \in Valuations(circuit) : Val(V, g)}
        IN  IF refuting = {}
            THEN /\ circuit' = ReplaceBy(circuit, g, representative)
                 /\ rest' = rest \ {g}
                 /\ UNCHANGED <<interpretations, changed>>
            ELSE \E V \in refuting : StoreCounterexample(V)
  BY DEF CheckConstant
<1> DEFINE refuting == {V \in Valuations(circuit) : Val(V, g)}
<1>3. g \in rest
  BY DEF Shallowest
<1>4. CASE refuting = {}
  <2>1. \A V \in Valuations(circuit) : ~Val(V, g)
    BY <1>4
  <2>2. representative = ZERO_GATE
    BY <1>1, <1>3, <2>1, FalseGateIsZero
  <2>3. g \in Gates(circuit) /\ g \notin Const
    BY <1>3, NetlistAssumption DEF Intact, SweepTypeOK, Gates
  <2>4. \A V \in Valuations(circuit) : Val(V, g) = Val(V, representative)
    <3> SUFFICES ASSUME NEW V \in Valuations(circuit) PROVE Val(V, g) = Val(V, representative)
      OBVIOUS
    <3>1. g # NULL
      BY <2>3, NetlistAssumption DEF Node, Gates
    <3>2. Val(V, g) \in BOOLEAN
      BY <2>3, <3>1 DEF Val, Const, Valuations
    <3>3. Val(V, representative) = FALSE
      BY <2>2, NetlistAssumption DEF Val
    <3> QED BY <2>1, <3>2, <3>3
  <2>5. level[representative] <= level[g]
    <3>1. IsRanking(circuit, level) /\ WellFormed(circuit)
      BY <1>1 DEF Intact, Ranked, Active
    <3>2. circuit.fanin[g][0] \in Present(circuit) /\ 0 \in Pin
      BY <2>3, <3>1 DEF WellFormed, Gates, Pin
    <3>3. circuit.fanin[g][0] # NULL
      BY <3>2, NetlistAssumption DEF Present, Node, Gates
    <3>4. level[circuit.fanin[g][0]] < level[g]
      BY <2>3, <3>1, <3>2, <3>3 DEF IsRanking
    <3>5. level[circuit.fanin[g][0]] \in Nat /\ level[g] \in Nat /\ level[ZERO_GATE] = 1
      BY <2>3, <3>1, <3>2 DEF IsRanking, Present
    <3> QED BY <2>2, <3>4, <3>5
  <2>6. changed' \in BOOLEAN
    BY <1>2, <1>4 DEF Intact, SweepTypeOK
  <2> QED BY <1>1, <1>2, <1>3, <1>4, <2>4, <2>5, <2>6, MergeIntact
<1>5. CASE refuting # {}
  <2>1. PICK V \in refuting : StoreCounterexample(V)
    BY <1>2, <1>5
  <2> QED BY <1>1, <2>1, CounterexampleIntact
<1> QED BY <1>4, <1>5

\* The solver's answer for a gate in any other bin.
LEMMA CheckRegularIntact == Intact /\ CheckRegular => Intact'
<1> SUFFICES ASSUME Intact, CheckRegular PROVE Intact'
  OBVIOUS
<1>1. /\ pc = "regular"
      /\ UNCHANGED <<pc, level, bins, threshold, representative, timed_out, ref>>
  BY DEF CheckRegular
<1>2. PICK g \in Shallowest(level, rest) :
        LET refuting == {V \in Valuations(circuit) : Val(V, g) # Val(V, representative)}
        IN  IF refuting = {}
            THEN /\ circuit' = ReplaceBy(circuit, g, representative)
                 /\ rest' = rest \ {g}
                 /\ changed' = TRUE
                 /\ UNCHANGED interpretations
            ELSE \E V \in refuting : StoreCounterexample(V)
  BY DEF CheckRegular
<1> DEFINE refuting == {V \in Valuations(circuit) : Val(V, g) # Val(V, representative)}
<1>3. g \in rest
  BY DEF Shallowest
<1>4. CASE refuting = {}
  <2>1. \A V \in Valuations(circuit) : Val(V, g) = Val(V, representative)
    BY <1>4
  <2>2. level[representative] <= level[g]
    BY <1>1, <1>3 DEF Intact
  <2> QED BY <1>1, <1>2, <1>3, <1>4, <2>1, <2>2, MergeIntact
<1>5. CASE refuting # {}
  <2>1. PICK V \in refuting : StoreCounterexample(V)
    BY <1>2, <1>5
  <2> QED BY <1>1, <2>1, CounterexampleIntact
<1> QED BY <1>4, <1>5


----------------------------------------------------------------------------
(* What an iteration learns: the second half of the invariant.             *)

\* A merge changes no valuation: there is one for each input, before and after.
LEMMA SameValuations == Intact => Valuations(circuit) = Valuations(ref)
<1> SUFFICES ASSUME Intact PROVE Valuations(circuit) = Valuations(ref)
  OBVIOUS
<1>1. Good(circuit) /\ Good(ref) /\ Gates(circuit) = Gates(ref)
  BY DEF Intact, SweepTypeOK, Good, Gates
<1>2. \A V \in Valuations(ref) : V \in Valuations(circuit)
  BY <1>1 DEF Intact, SameFunction, Valuations
<1>3. ASSUME NEW V \in Valuations(circuit) PROVE V \in Valuations(ref)
  <2> DEFINE input == [i \in Input |-> V[i]]
  <2>1. input \in [Input -> BOOLEAN]
    BY DEF Valuations
  <2>2. PICK W \in Valuations(ref) : \A i \in Input : W[i] = input[i]
    BY <1>1, <2>1, SomeValuation
  <2>3. V = W
    BY <1>1, <1>2, <2>2, OneValuation
  <2> QED BY <2>2, <2>3
<1> QED BY <1>2, <1>3

\* A stored interpretation determines the valuation.
LEMMA InputsDecide ==
  ASSUME NEW c, Good(c), NEW V \in Valuations(c), NEW W \in Valuations(c), InputsOf(V) = InputsOf(W)
  PROVE  V = W
<1>1. \A i \in Input : InputsOf(V)[i] = V[i] /\ InputsOf(W)[i] = W[i]
  BY DEF InputsOf
<1> QED BY <1>1, OneValuation

\* create_bins puts together what no stored interpretation tells apart.
LEMMA CreatedAlike ==
  ASSUME NEW c, NEW I, NEW b \in create_bins(c, I)
  PROVE  \A V \in Valuations(c) : InputsOf(V) \in I => \A m, n \in b : Val(V, m) = Val(V, n)
  BY DEF create_bins, Large

\* And it leaves no two apart that nothing tells apart.
LEMMA CreatedTogether ==
  ASSUME NEW c, NEW I, NEW g \in Gates(c), NEW h \in Gates(c), g # h,
         \A V \in Valuations(c) : Val(V, g) = Val(V, h)
  PROVE  \E b \in create_bins(c, I) : {g, h} \subseteq b
<1> DEFINE b == {n \in Const \cup Gates(c) :
                   \A V \in Valuations(c) : InputsOf(V) \in I => Val(V, g) = Val(V, n)}
<1>1. g \in b /\ h \in b
  OBVIOUS
<1>2. b \in create_bins(c, I)
  BY <1>1 DEF create_bins, Large
<1> QED BY <1>1, <1>2

\* A refined bin agrees in the valuation that refined it.
LEMMA RefinedAgrees ==
  ASSUME NEW B, NEW V, \A b \in B : \A n \in b : Val(V, n) \in BOOLEAN, NEW d \in refine_bins(V, B)
  PROVE  \A m, n \in d : Val(V, m) = Val(V, n)
  BY DEF refine_bins, Large

\* Nodes that agree in it stay together.
LEMMA RefinedTogether ==
  ASSUME NEW B, NEW V, NEW b \in B, NEW g \in b, NEW h \in b, g # h, Val(V, g) = Val(V, h)
  PROVE  \E d \in refine_bins(V, B) : {g, h} \subseteq d
<1> DEFINE d == IF Val(V, g) THEN {n \in b : Val(V, n)} ELSE {n \in b : ~Val(V, n)}
<1>1. g \in d /\ h \in d
  OBVIOUS
<1>2. d \in refine_bins(V, B)
  BY <1>1 DEF refine_bins, Large
<1> QED BY <1>1, <1>2

\* A gate of an iteration is a gate, and its value is in the valuation.
LEMMA GateValue ==
  ASSUME NEW c \in Circuit, NEW V \in Valuations(c)
  PROVE  /\ \A g \in Gates(c) : Val(V, g) = V[g]
         /\ \A n \in Const \cup Gates(c) : Val(V, n) \in BOOLEAN
<1>1. \A g \in Gates(c) : g \notin Const /\ g # NULL
  BY Nodes DEF Const
<1>2. \A g \in Gates(c) : Val(V, g) = V[g] /\ V[g] \in BOOLEAN
  BY <1>1 DEF Val, Const, Valuations
<1>3. \A n \in Const : Val(V, n) \in BOOLEAN
  BY DEF Val, Const
<1> QED BY <1>2, <1>3

\* Fresh holds of the bins that an iteration begins with.
LEMMA StartFresh == Ready /\ StartSweep => Fresh'
<1> SUFFICES ASSUME Ready, StartSweep PROVE Fresh'
  OBVIOUS
<1>1. /\ ref' = circuit /\ pc' = "simulate" /\ interpretations' = interpretations
      /\ bins' = create_bins(circuit, interpretations)
  BY DEF StartSweep
<1>2. \A b \in bins' : Untold(b)'
  BY <1>1, CreatedAlike DEF Untold
<1> QED BY <1>1, <1>2 DEF Fresh

\* The simulation splits the bins by what it stores.
LEMMA SimulateFresh == Intact /\ Fresh /\ Simulate => Fresh'
<1> SUFFICES ASSUME Intact, Fresh, Simulate, ~changed PROVE \A b \in bins' : Untold(b)'
  BY DEF Fresh, Simulate
<1>1. pc = "simulate" /\ circuit = ref /\ ref' = ref /\ Good(ref)
  BY DEF Simulate, Intact, SweepTypeOK, Good
<1>2. PICK V \in Valuations(ref) :
        IF Separates(V, bins)
        THEN /\ bins' = refine_bins(V, bins)
             /\ interpretations' = interpretations \cup {InputsOf(V)}
             /\ threshold' = 0
        ELSE /\ threshold' = threshold + 1
             /\ UNCHANGED <<bins, interpretations>>
  BY <1>1 DEF Simulate
<1>3. \A b \in bins : Untold(b)
  BY <1>1 DEF Fresh, Active
<1>4. CASE ~Separates(V, bins)
  BY <1>1, <1>2, <1>3, <1>4 DEF Untold
<1>5. CASE Separates(V, bins)
  <2> SUFFICES ASSUME NEW d \in bins', NEW W \in Valuations(ref), InputsOf(W) \in interpretations',
                      NEW m \in d, NEW n \in d
               PROVE  Val(W, m) = Val(W, n)
    BY <1>1 DEF Untold
  <2>1. bins' = refine_bins(V, bins) /\ interpretations' = interpretations \cup {InputsOf(V)}
    BY <1>2, <1>5
  <2>2. PICK b \in bins : d \subseteq b
    BY <2>1, RefinedBins
  <2>3. CASE InputsOf(W) \in interpretations
    BY <1>3, <2>2, <2>3 DEF Untold
  <2>4. CASE InputsOf(W) = InputsOf(V)
    <3>1. W = V
      BY <1>1, <2>4, InputsDecide
    <3>2. \A e \in bins : \A k \in e : Val(V, k) \in BOOLEAN
      BY <1>1, GateValue DEF Intact, SweepTypeOK
    <3> QED BY <2>1, <3>1, <3>2, RefinedAgrees
  <2> QED BY <2>1, <2>3, <2>4
<1> QED BY <1>4, <1>5

\* Every step that changes nothing keeps the bins fresh.
LEMMA FreshStep == Intact /\ Fresh /\ [NextSweep]_sweep_vars => Fresh'
<1> SUFFICES ASSUME Intact, Fresh, [NextSweep]_sweep_vars, pc # "fixpoint" \/ ~StartSweep PROVE Fresh'
  <2>1. ASSUME Intact, pc = "fixpoint", StartSweep PROVE Ready
    BY <2>1 DEF Intact, SweepTypeOK, Ready
  <2> QED BY <2>1, StartFresh
<1>1. ~StartSweep
  BY DEF StartSweep
<1>2. CASE Simulate
  BY <1>2, SimulateFresh
<1>3. CASE ChooseConstantBin
  <2>1. /\ bins' \subseteq bins /\ pc' = "constants" /\ pc = "bins"
        /\ UNCHANGED <<interpretations, changed, ref>>
    BY <1>3 DEF ChooseConstantBin
  <2> QED BY <2>1 DEF Fresh, Active, Untold
<1>4. CASE ChooseRegularBin
  <2>1. PICK b \in bins : \E n \in Shallowest(level, b) : bins' = bins \ {b} /\ representative' = n /\ rest' = b \ {n}
    BY <1>4 DEF ChooseRegularBin
  <2>2. bins' \subseteq bins /\ rest' \cup {representative'} = b
    BY <2>1 DEF Shallowest
  <2>3. pc' = "regular" /\ pc = "bins" /\ UNCHANGED <<interpretations, changed, ref>>
    BY <1>4 DEF ChooseRegularBin
  <2> QED BY <2>2, <2>3 DEF Fresh, Active, Untold
<1>5. CASE CheckConstant
  <2>1. pc = "constants" /\ pc' = pc /\ UNCHANGED <<bins, ref>>
    BY <1>5 DEF CheckConstant
  <2>2. UNCHANGED <<interpretations, changed>> \/ changed'
    BY <1>5 DEF CheckConstant, StoreCounterexample
  <2> QED BY <2>1, <2>2 DEF Fresh, Active, Untold
<1>6. CASE CheckRegular
  <2>1. changed'
    BY <1>6 DEF CheckRegular, StoreCounterexample
  <2> QED BY <2>1 DEF Fresh
<1>7. CASE EndSimulate \/ EndBin \/ EndSweep \/ SweepTimeExpires \/ SweepFinished \/ UNCHANGED sweep_vars
  <2>1. UNCHANGED <<bins, representative, rest, interpretations, changed, ref>>
    BY <1>7 DEF EndSimulate, EndBin, EndSweep, SweepTimeExpires, SweepFinished, sweep_vars, bin_vars
  <2>2. (Active' => Active) /\ (pc' = "regular" => pc = "regular")
    BY <1>7 DEF EndSimulate, EndBin, EndSweep, SweepTimeExpires, SweepFinished, sweep_vars, Active
  <2> QED BY <2>1, <2>2 DEF Fresh, Untold
<1> QED BY <1>1, <1>2, <1>3, <1>4, <1>5, <1>6, <1>7 DEF NextSweep, SweepStep

\* A gate that is merged into a constant is not read any more, and no other
\* gate gets a reader.
LEMMA ConstantMergeUnused ==
  ASSUME NEW c \in Circuit, NEW g \in Gates(c), NEW h \in Const, NEW k \in Gates(c),
         k = g \/ Fanouts(c, k) = {}
  PROVE  Fanouts(ReplaceBy(c, g, h), k) = {}
<1> DEFINE d == ReplaceBy(c, g, h)
<1>1. h \in Node /\ h # k /\ k # ONE_GATE /\ h # g
  BY Nodes DEF Const, Node
<1>2. Gates(d) = Gates(c) /\ Gates(c) \subseteq Gate
  BY <1>1, MergeGates, Nodes
<1>3. /\ \A m \in Gate, p \in Pin : d.fanin[m][p] = IF c.fanin[m][p] = g THEN h ELSE c.fanin[m][p]
      /\ \A o \in Output : d.out[o] = IF c.out[o] = g THEN h ELSE c.out[o]
  BY <1>1, MergeFields
<1> HIDE DEF d
<1>4. ASSUME NEW f \in Gates(d) \X Pin, d.fanin[f[1]][f[2]] = k PROVE FALSE
  <2>1. f[1] \in Gate /\ f[2] \in Pin /\ f \in Gates(c) \X Pin
    BY <1>2
  <2>2. c.fanin[f[1]][f[2]] = k /\ k # g
    BY <1>1, <1>3, <1>4, <2>1
  <2> QED BY <2>1, <2>2 DEF Fanouts
<1>5. ASSUME NEW f \in Output \X {0}, d.out[f[1]] = k PROVE FALSE
  <2>1. f[1] \in Output
    OBVIOUS
  <2>2. c.out[f[1]] = k /\ k # g
    BY <1>1, <1>3, <1>5, <2>1
  <2> QED BY <2>2 DEF Fanouts
<1>6. Fanouts(d, k) = {}
  BY <1>1, <1>4, <1>5 DEF Fanouts
<1> QED BY <1>6 DEF d

\* The two gates compute the same, and what it takes not to overlook that.
SameGates(g, h) == \A V \in Valuations(ref) : V[g] = V[h]
Pending(g, h) ==
  \/ \E b \in bins : {g, h} \subseteq b
  \/ {g, h} \subseteq Unused
  \/ pc = "constants" /\ {g, h} \subseteq rest \cup Unused
  \/ pc = "regular" /\ {g, h} \subseteq rest \cup {representative}

LEMMA OverlookedDef ==
  /\ NothingOverlooked <=>
       (Active /\ ~changed /\ ~timed_out =>
          \A g, h \in Gates(ref) : g # h /\ SameGates(g, h) => Pending(g, h))
  /\ NothingOverlooked' <=>
       (Active' /\ ~changed' /\ ~timed_out' =>
          \A g, h \in Gates(ref') : g # h /\ SameGates(g, h)' => Pending(g, h)')
  BY DEF NothingOverlooked, SameGates, Pending

\* An iteration begins with all equal gates in common bins.
LEMMA StartPending == Ready /\ StartSweep => NothingOverlooked'
<1> SUFFICES ASSUME Ready, StartSweep, NEW g \in Gates(ref'), NEW h \in Gates(ref'), g # h, SameGates(g, h)'
             PROVE  Pending(g, h)'
  BY OverlookedDef
<1>1. ref' = circuit /\ bins' = create_bins(circuit, interpretations) /\ circuit \in Circuit
  BY DEF StartSweep, Ready
<1>2. \A V \in Valuations(circuit) : V[g] = V[h]
  BY <1>1 DEF SameGates
<1>3. \A V \in Valuations(circuit) : Val(V, g) = Val(V, h)
  BY <1>1, <1>2, GateValue
<1>4. \E b \in bins' : {g, h} \subseteq b
  BY <1>1, <1>3, CreatedTogether
<1> QED BY <1>4 DEF Pending

\* The steps that leave the circuit and what is being compared alone.
LEMMA PendingStays ==
  ASSUME NEW g, NEW h, Pending(g, h), UNCHANGED <<circuit, bins, rest, representative>>,
         pc' = pc \/ pc \notin {"constants", "regular"} \/ (rest = {} /\ g # h)
  PROVE  Pending(g, h)'
<1>1. Unused' = Unused
  BY DEF Unused
<1>2. CASE pc' = pc \/ pc \notin {"constants", "regular"}
  BY <1>1, <1>2 DEF Pending
<1>3. CASE rest = {} /\ g # h
  BY <1>1, <1>3 DEF Pending
<1> QED BY <1>2, <1>3

\* A bin is taken up as a whole.
LEMMA PendingChosen ==
  ASSUME Intact, NEW g \in Gates(ref), NEW h \in Gates(ref), Pending(g, h),
         ChooseConstantBin \/ ChooseRegularBin
  PROVE  Pending(g, h)'
<1>1. pc = "bins" /\ circuit' = circuit /\ Unused' = Unused
  BY DEF ChooseConstantBin, ChooseRegularBin, Unused
<1>2. PICK b \in bins : \E n \in b : /\ bins' = bins \ {b} /\ representative' = n /\ rest' = b \ {n}
                                     /\ (pc' = "constants" /\ n \in Const) \/ pc' = "regular"
  BY DEF ChooseConstantBin, ChooseRegularBin, Shallowest
<1>3. PICK n \in b : /\ bins' = bins \ {b} /\ representative' = n /\ rest' = b \ {n}
                     /\ (pc' = "constants" /\ n \in Const) \/ pc' = "regular"
  BY <1>2
<1>4. g \notin Const /\ h \notin Const
  BY Nodes DEF Const, Intact, SweepTypeOK
<1>5. CASE {g, h} \subseteq b
  <2>1. CASE pc' = "constants" /\ n \in Const
    BY <1>3, <1>4, <1>5, <2>1 DEF Pending
  <2>2. CASE pc' = "regular"
    BY <1>3, <1>5, <2>2 DEF Pending
  <2> QED BY <1>3, <2>1, <2>2
<1>6. CASE ~({g, h} \subseteq b)
  <2>1. (\E e \in bins' : {g, h} \subseteq e) \/ {g, h} \subseteq Unused
    BY <1>1, <1>3, <1>6 DEF Pending
  <2> QED BY <1>1, <2>1 DEF Pending
<1> QED BY <1>5, <1>6

\* A merge into a constant leaves the gate unread.
LEMMA PendingMerged ==
  ASSUME Intact, NEW g \in Gates(ref), NEW h \in Gates(ref), Pending(g, h), CheckConstant, ~changed'
  PROVE  Pending(g, h)'
<1>1. pc = "constants" /\ pc' = pc /\ bins' = bins /\ representative \in Const
  BY DEF CheckConstant, Intact
<1>2. PICK k \in rest : circuit' = ReplaceBy(circuit, k, representative) /\ rest' = rest \ {k}
  BY DEF CheckConstant, StoreCounterexample, Shallowest
<1>3. circuit \in Circuit /\ Gates(circuit) = Gates(ref) /\ rest \subseteq Gates(ref)
  BY DEF Intact, SweepTypeOK, Gates
<1>4. Gates(circuit') = Gates(circuit)
  <2>1. representative \in Node
    BY <1>1 DEF Node
  <2> QED BY <1>2, <1>3, <2>1, MergeGates
<1>5. \A n \in Gates(ref) : n = k \/ n \in Unused => n \in Unused'
  BY <1>1, <1>2, <1>3, <1>4, ConstantMergeUnused DEF Unused
<1>6. CASE \E b \in bins : {g, h} \subseteq b
  BY <1>1, <1>6 DEF Pending
<1>7. CASE {g, h} \subseteq rest \cup Unused
  <2>1. {g, h} \subseteq rest' \cup Unused'
    BY <1>2, <1>5, <1>7
  <2> QED BY <1>1, <2>1 DEF Pending
<1> QED BY <1>1, <1>6, <1>7 DEF Pending

\* No step overlooks two equal gates unless it changes something.
LEMMA PendingStep == Intact /\ NothingOverlooked /\ [NextSweep]_sweep_vars => NothingOverlooked'
<1> SUFFICES ASSUME Intact, NothingOverlooked, [NextSweep]_sweep_vars, pc # "fixpoint" \/ ~StartSweep
             PROVE  NothingOverlooked'
  <2>1. ASSUME Intact, pc = "fixpoint", StartSweep PROVE Ready
    BY <2>1 DEF Intact, SweepTypeOK, Ready
  <2> QED BY <2>1, StartPending
<1>1. ~StartSweep
  BY DEF StartSweep
<1> SUFFICES ASSUME Active', ~changed', ~timed_out',
                    NEW g \in Gates(ref'), NEW h \in Gates(ref'), g # h, SameGates(g, h)'
             PROVE  Pending(g, h)'
  BY OverlookedDef
<1>2. ref' = ref /\ Active /\ ~changed /\ ~timed_out
  <2>1. ~CheckRegular
    BY DEF CheckRegular, StoreCounterexample
  <2>2. CASE CheckConstant
    BY <2>2 DEF CheckConstant, StoreCounterexample, Active
  <2>3. CASE Simulate \/ ChooseConstantBin \/ ChooseRegularBin
    BY <2>3 DEF Simulate, ChooseConstantBin, ChooseRegularBin, Active
  <2>4. CASE EndSimulate \/ EndBin \/ EndSweep \/ SweepTimeExpires \/ SweepFinished \/ UNCHANGED sweep_vars
    BY <2>4 DEF EndSimulate, EndBin, EndSweep, SweepTimeExpires, SweepFinished, sweep_vars, bin_vars, Active
  <2> QED BY <1>1, <2>1, <2>2, <2>3, <2>4 DEF NextSweep, SweepStep
<1>3. SameGates(g, h)
  BY <1>2 DEF SameGates
<1>4. g \in Gates(ref) /\ h \in Gates(ref) /\ Pending(g, h)
  BY <1>2, <1>3, OverlookedDef
<1>5. CASE Simulate
  <2>1. /\ pc = "simulate" /\ circuit = ref /\ ref \in Circuit
        /\ UNCHANGED <<pc, circuit, representative, rest>>
    BY <1>5 DEF Simulate, Intact, SweepTypeOK
  <2>2. PICK V \in Valuations(ref) :
          IF Separates(V, bins) THEN bins' = refine_bins(V, bins) ELSE UNCHANGED bins
    BY <1>5, <2>1 DEF Simulate
  <2>3. Val(V, g) = Val(V, h)
    BY <1>3, <1>4, <2>1, GateValue DEF SameGates
  <2>4. CASE UNCHANGED bins
    BY <1>4, <2>1, <2>4, PendingStays
  <2>5. CASE bins' = refine_bins(V, bins)
    <3>1. (\E b \in bins : {g, h} \subseteq b) \/ {g, h} \subseteq Unused
      BY <1>4, <2>1 DEF Pending
    <3>2. (\E b \in bins' : {g, h} \subseteq b) \/ {g, h} \subseteq Unused
      BY <2>3, <2>5, <3>1, RefinedTogether
    <3>3. Unused' = Unused
      BY <2>1 DEF Unused
    <3> QED BY <3>2, <3>3 DEF Pending
  <2> QED BY <2>2, <2>4, <2>5
<1>6. CASE ChooseConstantBin \/ ChooseRegularBin
  BY <1>4, <1>6, PendingChosen
<1>7. CASE CheckConstant
  BY <1>4, <1>7, PendingMerged
<1>8. ~CheckRegular
  BY DEF CheckRegular, StoreCounterexample
<1>9. CASE EndSimulate \/ EndBin \/ SweepTimeExpires \/ SweepFinished \/ UNCHANGED sweep_vars
  <2>1. UNCHANGED <<circuit, bins, representative, rest>>
    BY <1>9 DEF EndSimulate, EndBin, SweepTimeExpires, SweepFinished, sweep_vars, bin_vars
  <2>2. pc' = pc \/ pc \notin {"constants", "regular"} \/ rest = {}
    BY <1>2, <1>9 DEF EndSimulate, EndBin, SweepTimeExpires, SweepFinished, sweep_vars
  <2> QED BY <1>4, <2>1, <2>2, PendingStays
<1>10. ~EndSweep
  BY DEF EndSweep, Active
<1> QED BY <1>1, <1>5, <1>6, <1>7, <1>8, <1>9, <1>10 DEF NextSweep, SweepStep

\* All three parts of the invariant: initially, and over every step.
LEMMA InitInv == InitSweep => Inv
<1> SUFFICES ASSUME InitSweep PROVE Inv
  OBVIOUS
<1>1. ~Active
  BY DEF InitSweep, Active
<1> QED BY <1>1, InitIntact DEF Inv, Fresh, NothingOverlooked

LEMMA KeptStep == Intact /\ [NextSweep]_sweep_vars => Intact'
<1> SUFFICES ASSUME Intact, [NextSweep]_sweep_vars PROVE Intact'
  OBVIOUS
<1>1. CASE StartSweep
  <2>1. Ready
    BY <1>1 DEF StartSweep, Intact, SweepTypeOK, Ready
  <2> QED BY <1>1, <2>1, StartIntact
<1>2. CASE Simulate
  BY <1>2, SimulateIntact
<1>3. CASE ChooseConstantBin
  BY <1>3, ChooseConstantBinIntact
<1>4. CASE ChooseRegularBin
  BY <1>4, ChooseRegularBinIntact
<1>5. CASE CheckConstant
  BY <1>5, CheckConstantIntact
<1>6. CASE CheckRegular
  BY <1>6, CheckRegularIntact
<1>7. CASE EndSimulate \/ EndBin \/ EndSweep \/ SweepTimeExpires \/ SweepFinished \/ UNCHANGED sweep_vars
  BY <1>7, MoveOnIntact
<1> QED BY <1>1, <1>2, <1>3, <1>4, <1>5, <1>6, <1>7 DEF NextSweep, SweepStep

LEMMA InvStep == Inv /\ [NextSweep]_sweep_vars => Inv'
  BY KeptStep, FreshStep, PendingStep DEF Inv

\* An iteration that ends unchanged found no two equal gates that are read.
LEMMA EndMinimal == Inv /\ EndSweep => Minimal'
<1> SUFFICES ASSUME Inv, EndSweep, pc' = "done", ~timed_out',
                    NEW g \in Gates(circuit'), NEW h \in Gates(circuit'), g # h,
                    Fanouts(circuit', g) # {}, Fanouts(circuit', h) # {}
             PROVE  \E V \in Valuations(circuit') : V[g] # V[h]
  BY DEF Minimal
<1>1. /\ pc = "bins" /\ bins = {} /\ ~changed /\ ~timed_out
      /\ circuit' = circuit
  BY DEF EndSweep
<1>2. Valuations(circuit) = Valuations(ref) /\ Gates(circuit) = Gates(ref)
  BY SameValuations DEF Inv, Intact, Gates
<1>3. ~Pending(g, h)
  BY <1>1 DEF Pending, Unused
<1>4. ~SameGates(g, h)
  BY <1>1, <1>2, <1>3, OverlookedDef DEF Inv, Active
<1> QED BY <1>1, <1>2, <1>4 DEF SameGates

\* The first change of an iteration outside the bins of the constants is a
\* merge of equal gates or a new interpretation: what the solver tells apart
\* no stored interpretation did.
LEMMA FirstChange ==
  ASSUME Inv, CheckRegular, ~changed
  PROVE  \/ interpretations' # interpretations
         \/ \E g \in rest : /\ rest' = rest \ {g}
                            /\ \A V \in Valuations(circuit) : V[g] = V[representative]
<1>1. /\ pc = "regular" /\ Untold(rest \cup {representative})
      /\ representative \in Gates(circuit) /\ rest \subseteq Gates(circuit) /\ circuit \in Circuit
      /\ Valuations(circuit) = Valuations(ref)
  BY SameValuations DEF CheckRegular, Inv, Fresh, Active, Intact, SweepTypeOK, Gates
<1>2. PICK g \in rest :
        LET refuting == {V \in Valuations(circuit) : Val(V, g) # Val(V, representative)}
        IN  IF refuting = {} THEN rest' = rest \ {g}
            ELSE \E V \in refuting : StoreCounterexample(V)
  BY DEF CheckRegular, Shallowest
<1>3. \A V \in Valuations(circuit) : Val(V, g) = V[g] /\ Val(V, representative) = V[representative]
  BY <1>1, GateValue
<1>4. CASE rest' = rest \ {g} /\ \A V \in Valuations(circuit) : Val(V, g) = Val(V, representative)
  BY <1>3, <1>4
<1>5. CASE \E V \in Valuations(circuit) : Val(V, g) # Val(V, representative) /\ StoreCounterexample(V)
  <2>1. PICK V \in Valuations(circuit) : Val(V, g) # Val(V, representative) /\ StoreCounterexample(V)
    BY <1>5
  <2>2. InputsOf(V) \notin interpretations
    BY <1>1, <2>1 DEF Untold
  <2> QED BY <2>1, <2>2 DEF StoreCounterexample
<1> QED BY <1>2, <1>4, <1>5

----------------------------------------------------------------------------
(* The theorems.                                                           *)

\* Inv is an invariant of an iteration: it holds initially, and every step of
\* minimize(), of the solver and of the clock preserves it.
THEOREM InvCorrect == SpecSweep => []Inv
  BY InitInv, InvStep, PTL DEF SpecSweep

\* Every variable keeps its type through an iteration.
THEOREM TypeCorrect == SpecSweep => []SweepTypeOK
<1>1. Inv => SweepTypeOK
  BY DEF Inv, Intact
<1> QED BY <1>1, InvCorrect, PTL

\* Whatever gates an iteration merges, in any order and under any interleaving
\* with the time limit, the circuit computes what it computed before.
THEOREM MergesPreserve == SpecSweep => []SameFunction
<1>1. Inv => SameFunction
  BY DEF Inv, Intact
<1> QED BY <1>1, InvCorrect, PTL

\* The level map computed before the first merge stays a ranking until the
\* last one: an iteration never builds a cycle.
THEOREM LevelsStayRanked == SpecSweep => []Ranked
<1>1. Inv => Ranked
  BY DEF Inv, Intact
<1> QED BY <1>1, InvCorrect, PTL

\* When an iteration ends without a change and in time, no two gates that are
\* read compute the same function of the inputs, for any circuit, whatever the
\* simulation happened to show and in whatever order the bins were taken.
THEOREM MinimalCorrect == SpecSweep => []Minimal
<1>1. InitSweep => Minimal
  BY DEF InitSweep, Minimal
<1>2. Inv /\ Minimal /\ [NextSweep]_sweep_vars => Minimal'
  <2> SUFFICES ASSUME Inv, Minimal, [NextSweep]_sweep_vars PROVE Minimal'
    OBVIOUS
  <2>1. CASE EndSweep
    BY <2>1, EndMinimal
  <2>2. CASE ~EndSweep
    <3>1. CASE pc' = "done"
      <4>1. pc = "done" /\ UNCHANGED <<pc, circuit, timed_out>>
        BY <2>2, <3>1 DEF NextSweep, SweepStep, StartSweep, Simulate, EndSimulate, ChooseConstantBin,
             ChooseRegularBin, CheckConstant, CheckRegular, EndBin, SweepTimeExpires, SweepFinished, sweep_vars
      <4> QED BY <4>1 DEF Minimal
    <3> QED BY <3>1 DEF Minimal
  <2> QED BY <2>1, <2>2
<1> QED BY <1>1, <1>2, InvCorrect, PTL DEF SpecSweep

\* Every iteration that does not merge learns something: the counterexample
\* that ends a bin is none of the interpretations that the bins were made from.
THEOREM CounterexamplesCorrect == SpecSweep => CounterexamplesAreNew
<1>1. Inv /\ [NextSweep]_sweep_vars =>
        [pc = "regular" /\ ~changed /\ changed' =>
           \/ interpretations' # interpretations
           \/ \E g \in rest : /\ rest' = rest \ {g}
                              /\ \A V \in Valuations(circuit) : V[g] = V[representative]]_sweep_vars
  <2> SUFFICES ASSUME Inv, NextSweep, pc = "regular", ~changed, changed'
               PROVE  \/ interpretations' # interpretations
                      \/ \E g \in rest : /\ rest' = rest \ {g}
                                         /\ \A V \in Valuations(circuit) : V[g] = V[representative]
    OBVIOUS
  <2>1. CheckRegular
    BY DEF NextSweep, SweepStep, StartSweep, Simulate, EndSimulate, ChooseConstantBin,
           ChooseRegularBin, CheckConstant, EndBin, EndSweep, SweepTimeExpires, SweepFinished, sweep_vars
  <2> QED BY <2>1, FirstChange
<1> QED BY <1>1, InvCorrect, PTL DEF SpecSweep, CounterexamplesAreNew

----------------------------------------------------------------------------
(* minimize() as a whole.                                                  *)

\* What stays true through all of minimize(): the circuit is one that both
\* halves can work on, and no bin is left open that was not interrupted.
Shape ==
  /\ pc \in Locations \cup {"simulate", "bins", "constants", "regular"}
  /\ Good(circuit) /\ worklist \subseteq Gates(circuit)
  /\ changed_circuit \in BOOLEAN /\ timed_out \in BOOLEAN
  /\ min_op \in {"THEOREMS", "THEOREMS2"}
  /\ representative \in Const \cup Gate \cup {NULL}
  /\ interpretations \subseteq Interpretation /\ AllFalse \in interpretations
  /\ pc \notin {"constants", "regular"} => timed_out \/ rest = {}

\* Each half has its own invariant while it is at work.
WholeInv ==
  /\ Shape
  /\ pc \in Locations => CleanInv
  /\ Active => Inv

\* What rewriting needs of it.
LEMMA ShapeIsOrder == Shape /\ pc \in Locations => OrderInv
<1> SUFFICES ASSUME Shape, pc \in Locations PROVE OrderInv
  OBVIOUS
<1>1. worklist \subseteq Gate
  BY Nodes DEF Shape, Good
<1> QED BY <1>1 DEF Shape, Good, OrderInv, RewriteInv, TypeOK

\* minimize() begins in the invariant.
LEMMA WholeInvInit == InitMinimizer => WholeInv
<1> SUFFICES ASSUME InitMinimizer PROVE WholeInv
  OBVIOUS
<1>1. Init
  BY DEF InitMinimizer
<1>2. OrderInv /\ CleanInv
  BY <1>1, FunctionInvInit, CleanInvInit DEF FunctionInv
<1>3. AllFalse \in Interpretation
  BY DEF AllFalse, Interpretation
<1>4. Shape
  BY <1>2, <1>3 DEF InitMinimizer, Shape, OrderInv, RewriteInv, TypeOK, Good
<1>5. ~Active
  BY <1>1 DEF Init, Active
<1> QED BY <1>2, <1>4, <1>5 DEF WholeInv

----------------------------------------------------------------------------
(* One step after the other.                                               *)

\* A step of rewriting, the cleanup after an iteration included.
LEMMA RewritingKeeps ==
  ASSUME WholeInv, Room, HashingApart, Rewriting
  PROVE  WholeInv'
<1>1. /\ pc \in Locations /\ pc \notin {"constants", "regular"}
      /\ timed_out' = timed_out /\ UNCHANGED own_sweep
  BY DEF Rewriting, RewriteStep, BeginRewrite, RewriteGate, BeginCleanup, CleanupGate, EndRewrite,
         Stop, BeginSatCleanup, EndSatCleanup, Locations
<1>2. OrderInv /\ CleanInv
  BY <1>1, ShapeIsOrder DEF WholeInv
<1>3. OrderInv'
  <2>1. CASE RewriteStep
    BY <1>2, <2>1, OrderInvStep DEF Next
  <2>2. CASE BeginSatCleanup
    BY <1>2, <2>2, Nodes DEF BeginSatCleanup, ComputeLevels, OrderInv, RewriteInv, TypeOK, Locations
  <2>3. CASE EndSatCleanup
    BY <1>2, <2>3 DEF EndSatCleanup, OrderInv, RewriteInv, TypeOK, Locations
  <2> QED BY <2>1, <2>2, <2>3 DEF Rewriting
<1>4. CleanInv'
  BY <1>2, CleanInvStep DEF Rewriting, Moves
<1>5. pc' \in Locations /\ ~Active' /\ pc' \notin {"constants", "regular"}
  BY <1>3 DEF OrderInv, RewriteInv, TypeOK, Locations, Active
<1>6. /\ representative' = representative /\ interpretations' = interpretations /\ rest' = rest
  BY <1>1 DEF own_sweep, bin_vars
<1>7. Shape'
  BY <1>1, <1>3, <1>5, <1>6 DEF WholeInv, Shape, OrderInv, RewriteInv, TypeOK, Good
<1> QED BY <1>4, <1>5, <1>7 DEF WholeInv

\* An iteration finds what it relies on, and keeps its invariant.
LEMMA SweepInv ==
  ASSUME WholeInv, Sweeping
  PROVE  /\ Inv' /\ Gates(circuit') = Gates(circuit)
         /\ Valuations(circuit') = Valuations(circuit) /\ Behaviour(circuit') = Behaviour(circuit)
<1>1. CASE StartSweep
  <2>1. Ready
    BY <1>1 DEF WholeInv, Shape, Good, StartSweep, Ready
  <2>2. Inv'
    BY <1>1, <2>1, StartIntact, StartFresh, StartPending DEF Inv
  <2>3. circuit' = circuit
    BY <1>1 DEF StartSweep
  <2> QED BY <2>2, <2>3
<1>2. CASE SweepStep /\ ~StartSweep
  <2>1. Active /\ ref' = ref
    BY <1>2 DEF SweepStep, Simulate, EndSimulate, ChooseConstantBin, ChooseRegularBin, CheckConstant,
                CheckRegular, EndBin, EndSweep, Active
  <2>2. Inv /\ Inv'
    BY <1>2, <2>1, InvStep DEF WholeInv, NextSweep
  <2>3. Valuations(circuit) = Valuations(ref)
    BY <2>2, SameValuations DEF Inv
  <2>4. Valuations(circuit') = Valuations(ref')
    <3>1. (Valuations(circuit) = Valuations(ref))'
      BY <2>2, SameValuations, PTL DEF Inv
    <3> QED BY <3>1
  <2>5. /\ \A V \in Valuations(ref) : Outputs(circuit, V) = Outputs(ref, V)
        /\ \A V \in Valuations(ref') : Outputs(circuit', V) = Outputs(ref', V)
        /\ circuit.op = ref.op /\ circuit'.op = ref'.op
    BY <2>2 DEF Inv, Intact, SameFunction
  <2>6. Gates(circuit') = Gates(circuit)
    BY <2>1, <2>5 DEF Gates
  <2>7. Valuations(circuit') = Valuations(circuit)
    BY <2>1, <2>3, <2>4
  <2>8. \A V \in Valuations(circuit) : Outputs(circuit', V) = Outputs(circuit, V)
    BY <2>1, <2>3, <2>5
  <2>9. Behaviour(circuit') = Behaviour(circuit)
    BY <2>7, <2>8 DEF Behaviour
  <2> QED BY <2>2, <2>6, <2>7, <2>9
<1> QED BY <1>1, <1>2 DEF Sweeping

\* A step of an iteration.
LEMMA SweepingKeeps ==
  ASSUME WholeInv, Sweeping
  PROVE  WholeInv'
<1>1. Inv' /\ Gates(circuit') = Gates(circuit)
  BY SweepInv
<1>2. Good(circuit')
  BY <1>1 DEF Inv, Intact, SweepTypeOK, Good
<1>3. /\ worklist' = worklist /\ changed_circuit' = changed_circuit /\ min_op' = min_op
  BY DEF Sweeping, own_rewrite
<1>4. /\ timed_out' \in BOOLEAN /\ interpretations' \subseteq Interpretation
      /\ representative' \in Const \cup Gate \cup {NULL} /\ AllFalse \in interpretations'
  BY <1>1 DEF Inv, Intact, SweepTypeOK, AllFalse
<1>5. /\ pc' \in {"simulate", "bins", "constants", "regular", "swept", "done"}
      /\ pc' \notin {"constants", "regular"} => timed_out' \/ rest' = {}
  <2>1. CASE StartSweep
    BY <2>1 DEF StartSweep, WholeInv, Shape
  <2>2. CASE Simulate \/ EndSimulate
    BY <2>2 DEF Simulate, EndSimulate, bin_vars, WholeInv, Shape
  <2>3. CASE ChooseConstantBin \/ ChooseRegularBin
    BY <2>3 DEF ChooseConstantBin, ChooseRegularBin
  <2>4. CASE CheckConstant \/ CheckRegular
    BY <2>4 DEF CheckConstant, CheckRegular
  <2>5. CASE EndBin
    BY <2>5 DEF EndBin, bin_vars
  <2>6. CASE EndSweep
    BY <2>6 DEF EndSweep, bin_vars, WholeInv, Shape
  <2> QED BY <2>1, <2>2, <2>3, <2>4, <2>5, <2>6 DEF Sweeping, SweepStep
<1>6. Shape'
  BY <1>1, <1>2, <1>3, <1>4, <1>5 DEF WholeInv, Shape, Locations, AllFalse
<1>7. pc' \in Locations => CleanInv'
  BY <1>5 DEF Locations, CleanInv, PassInv, CleanupInv, ReadInv
<1> QED BY <1>1, <1>6, <1>7 DEF WholeInv

\* The clock, which may run out in the middle of either half.
LEMMA TimeKeeps ==
  ASSUME WholeInv, Room, HashingApart,
         UNCHANGED <<pc, circuit, level, own_rewrite, own_sweep>>,
         timed_out' \in BOOLEAN, timed_out => timed_out'
  PROVE  WholeInv'
<1>1. /\ pc' = pc /\ circuit' = circuit /\ level' = level /\ worklist' = worklist
      /\ changed_circuit' = changed_circuit /\ min_op' = min_op
      /\ UNCHANGED <<bin_vars, interpretations, threshold, changed, ref>>
      /\ representative' = representative /\ rest' = rest /\ interpretations' = interpretations
      /\ bins' = bins /\ ref' = ref /\ changed' = changed
  BY DEF own_rewrite, own_sweep, bin_vars
<1>2. Shape'
  BY <1>1 DEF WholeInv, Shape, Good, AllFalse
<1>3. ASSUME pc' \in Locations PROVE CleanInv'
  <2>1. OrderInv /\ CleanInv
    BY <1>1, <1>3, ShapeIsOrder DEF WholeInv
  <2>2. Moves
    BY <1>1 DEF Moves, Waits
  <2> QED BY <2>1, <2>2, CleanInvStep
<1>4. ASSUME Active' PROVE Inv'
  <2>1. Active /\ Inv
    BY <1>1, <1>4 DEF Active, WholeInv
  <2>2. Intact'
    BY <1>1, <2>1, OtherIntact DEF Inv
  <2>3. Fresh'
    BY <1>1, <2>1 DEF Inv, Fresh, Active, Untold
  <2>4. NothingOverlooked'
    BY <1>1, <2>1 DEF Inv, NothingOverlooked, Active, Unused
  <2> QED BY <2>2, <2>3, <2>4 DEF Inv
<1> QED BY <1>2, <1>3, <1>4 DEF WholeInv

\* minimize() returns before an iteration.
LEMMA StopKeeps ==
  ASSUME WholeInv, StopBeforeSweep
  PROVE  WholeInv'
<1>1. /\ pc' = "done" /\ circuit' = circuit /\ worklist' = worklist /\ timed_out' = timed_out
      /\ changed_circuit' = changed_circuit /\ min_op' = min_op
      /\ representative' = representative /\ rest' = rest /\ interpretations' = interpretations
      /\ pc \notin {"constants", "regular"}
  BY DEF StopBeforeSweep, own_rewrite, own_sweep, bin_vars
<1>2. Shape'
  BY <1>1 DEF WholeInv, Shape, Good, AllFalse, Locations
<1>3. CleanInv' /\ ~Active'
  BY <1>1 DEF CleanInv, PassInv, CleanupInv, ReadInv, Active
<1> QED BY <1>2, <1>3 DEF WholeInv

\* Any step of minimize().
LEMMA WholeInvStep ==
  WholeInv /\ Room /\ HashingApart /\ [NextMinimizer]_minimizer_vars => WholeInv'
<1> SUFFICES ASSUME WholeInv, Room, HashingApart, [NextMinimizer]_minimizer_vars PROVE WholeInv'
  OBVIOUS
<1>1. timed_out \in BOOLEAN
  BY DEF WholeInv, Shape
<1>2. CASE MinimizerTimeExpires
  BY <1>1, <1>2, TimeKeeps DEF MinimizerTimeExpires
<1>3. CASE UNCHANGED minimizer_vars
  BY <1>1, <1>3, TimeKeeps DEF minimizer_vars
<1> QED BY <1>2, <1>3, RewritingKeeps, SweepingKeeps, StopKeeps
     DEF NextMinimizer, Step, MinimizerFinished

----------------------------------------------------------------------------
(* What the halves leave to one another, and the result.                   *)

\* A gate that no rule applies to does not read ZERO_GATE: the first rules of
\* use_theorems would have propagated it.
LEMMA QuietReadsNoZero ==
  ASSUME NEW c \in Circuit, WellFormed(c), NEW g \in Gates(c), Simple(c, g) = {}, NEW p \in Pin
  PROVE  c.fanin[g][p] # ZERO_GATE
<1> SUFFICES ASSUME c.fanin[g][p] = ZERO_GATE PROVE FALSE
  OBVIOUS
<1>1. /\ OpOf(c, g) \in BinOp \cup {"NOT"} /\ F0(c, g) = c.fanin[g][0] /\ F1(c, g) = c.fanin[g][1]
      /\ OpOf(c, g) = "NOT" => F1(c, g) = NULL
  BY View DEF Present
<1>2. ZERO_GATE # NULL /\ (p = 0 \/ p = 1)
  BY NetlistAssumption DEF Pin, Const, Node
<1>3. ZERO_GATE \in {F0(c, g), F1(c, g)}
  BY <1>1, <1>2
<1>4. propagate_zero(c, g) = {}
  BY DEF Simple, ||
<1>5. OpOf(c, g) # "AND"
  BY <1>3, <1>4 DEF propagate_zero, When, Is
<1>6. OpOf(c, g) # "NOT"
  <2>1. ASSUME OpOf(c, g) = "NOT" PROVE FALSE
    <3>1. F0(c, g) = ZERO_GATE
      BY <1>1, <1>2, <1>3, <2>1
    <3> QED BY <1>4, <2>1, <3>1 DEF propagate_zero, When, Is
  <2> QED BY <2>1
<1>7. OpOf(c, g) \in {"OR", "XOR"}
  BY <1>1, <1>5, <1>6 DEF BinOp
<1>8. PICK s \in Sides(c, g) : s[1] = ZERO_GATE
  BY <1>3 DEF Sides
<1>9. Match(c, s[2]) \in propagate_zero(c, g)
  BY <1>7, <1>8 DEF propagate_zero
<1> QED BY <1>4, <1>9

\* A circuit is fit for the iteration that begins with it.
LEMMA WholeFit == WholeInv => FitForIteration
<1> SUFFICES ASSUME WholeInv PROVE FitForIteration
  OBVIOUS
<1>1. circuit \in Circuit /\ WellFormed(circuit)
  BY DEF WholeInv, Shape, Good
<1>2. ASSUME pc = "fixpoint", NEW g \in Gates(circuit), NEW p \in Pin
      PROVE  circuit.fanin[g][p] # ZERO_GATE
  <2>1. Quiet(circuit, g, TRUE)
    BY <1>2 DEF WholeInv, Locations, CleanInv, PassInv
  <2> QED BY <1>1, <2>1, QuietIsComplete, QuietReadsNoZero
<1> QED BY <1>1, <1>2 DEF FitForIteration, SimulationIsDefined, SimulationDefined, NoDangling

\* minimize() returns with a minimal circuit, or because the time is up.
LEMMA WholeMinimalStep ==
  WholeInv /\ Minimal /\ [NextMinimizer]_minimizer_vars => Minimal'
<1> SUFFICES ASSUME WholeInv, Minimal, [NextMinimizer]_minimizer_vars, pc' = "done", ~timed_out'
             PROVE  Minimal'
  BY DEF Minimal
<1>1. CASE EndSweep
  <2>1. Active
    BY <1>1 DEF EndSweep, Active
  <2> QED BY <1>1, <2>1, EndMinimal DEF WholeInv
<1>2. CASE Rewriting
  <2>1. timed_out' /\ ~timed_out
    BY <1>2 DEF Rewriting, RewriteStep, BeginRewrite, RewriteGate, BeginCleanup, CleanupGate, EndRewrite,
                Stop, BeginSatCleanup, EndSatCleanup
  <2> QED BY <2>1
<1>3. CASE Sweeping /\ ~EndSweep
  <2>1. pc' # "done"
    BY <1>3 DEF Sweeping, SweepStep, StartSweep, Simulate, EndSimulate, ChooseConstantBin, ChooseRegularBin,
                CheckConstant, CheckRegular, EndBin
  <2> QED BY <2>1
<1>4. CASE StopBeforeSweep \/ MinimizerTimeExpires
  BY <1>4 DEF StopBeforeSweep, MinimizerTimeExpires
<1>5. CASE UNCHANGED minimizer_vars
  <2>1. pc' = pc /\ circuit' = circuit /\ timed_out' = timed_out
    BY <1>5 DEF minimizer_vars
  <2> QED BY <2>1 DEF Minimal
<1> QED BY <1>1, <1>2, <1>3, <1>4, <1>5 DEF NextMinimizer, Step, MinimizerFinished

\* Every step of minimize() leaves the function of the circuit alone.
LEMMA WholeFunctionStep ==
  ASSUME WholeInv, Room, HashingApart, TreesApart, [NextMinimizer]_minimizer_vars
  PROVE  Behaviour(circuit') = Behaviour(circuit) /\ function' = function
<1>1. CASE Rewriting
  <2>1. CASE RewriteStep
    <3>1. pc \in Locations
      BY <2>1 DEF RewriteStep, BeginRewrite, RewriteGate, BeginCleanup, CleanupGate, EndRewrite, Stop, Locations
    <3>2. OrderInv
      BY <3>1, ShapeIsOrder DEF WholeInv
    <3>3. PICK aim \in Aims : aim = "function"
      BY DEF Aims
    <3> QED BY <2>1, <3>2, <3>3, CircuitStep DEF Next
  <2>2. CASE BeginSatCleanup \/ EndSatCleanup
    <3>1. circuit' = circuit /\ function' = function
      BY <2>2 DEF BeginSatCleanup, EndSatCleanup
    <3> QED BY <3>1
  <2> QED BY <1>1, <2>1, <2>2 DEF Rewriting
<1>2. CASE Sweeping
  <2>1. function' = function
    BY <1>2 DEF Sweeping, own_rewrite
  <2> QED BY <1>2, <2>1, SweepInv
<1>3. CASE StopBeforeSweep \/ MinimizerTimeExpires \/ UNCHANGED minimizer_vars
  <2>1. circuit' = circuit /\ function' = function
    BY <1>3 DEF StopBeforeSweep, MinimizerTimeExpires, minimizer_vars, own_rewrite
  <2> QED BY <2>1
<1> QED BY <1>1, <1>2, <1>3 DEF NextMinimizer, Step, MinimizerFinished

\* A circuit without cycles gives every input one output.
LEMMA BehaviourIsFunction ==
  ASSUME NEW c, Good(c)
  PROVE  O!IsFunctionOfInputs(Behaviour(c)) /\ O!IsTotal(Behaviour(c))
<1>1. c \in Circuit /\ WellFormed(c)
  BY DEF Good
<1>2. ASSUME NEW V \in Valuations(c) PROVE Outputs(c, V) \in [Output -> BOOLEAN]
  <2>1. ASSUME NEW o \in Output PROVE Val(V, c.out[o]) \in BOOLEAN
    <3>1. c.out[o] \in Present(c)
      BY <1>1 DEF WellFormed
    <3> QED BY <3>1 DEF Present, Const, Val, Valuations
  <2> QED BY <2>1 DEF Outputs
<1>3. ASSUME NEW I \in [Input -> BOOLEAN]
      PROVE  /\ \E b \in Behaviour(c) : b[1] = I
             /\ \E out \in [Output -> BOOLEAN] : \A b \in Behaviour(c) : b[1] = I => b = <<I, out>>
  <2>1. PICK V \in Valuations(c) : \A i \in Input : V[i] = I[i]
    BY SomeValuation
  <2>2. [i \in Input |-> V[i]] = I
    BY <2>1
  <2>3. <<[i \in Input |-> V[i]], Outputs(c, V)>> \in Behaviour(c)
    BY DEF Behaviour
  <2>4. \E b \in Behaviour(c) : b[1] = I
    BY <2>2, <2>3
  <2>5. ASSUME NEW b \in Behaviour(c), b[1] = I PROVE b = <<I, Outputs(c, V)>>
    <3>1. PICK W \in Valuations(c) : b = <<[i \in Input |-> W[i]], Outputs(c, W)>>
      BY DEF Behaviour
    <3>2. [i \in Input |-> W[i]] = I
      BY <2>5, <3>1
    <3>3. \A i \in Input : W[i] = V[i]
      <4> TAKE i \in Input
      <4>1. [j \in Input |-> W[j]][i] = W[i]
        OBVIOUS
      <4> QED BY <2>1, <3>2, <4>1
    <3>4. W = V
      BY <3>3, OneValuation
    <3> QED BY <3>1, <3>2, <3>4
  <2> QED BY <1>2, <2>4, <2>5
<1> QED BY <1>3 DEF O!IsFunctionOfInputs, O!IsTotal

----------------------------------------------------------------------------
(* The theorems.                                                           *)

\* WholeInv is an invariant of minimize(), over any number of iterations.
LEMMA WholeInvCorrect == SpecMinimizer /\ []Room /\ []HashingApart => []WholeInv
  BY WholeInvInit, WholeInvStep, PTL DEF SpecMinimizer

\* What an iteration needs, rewriting has always left: no gate reads
\* ZERO_GATE, although merges connect gates to it, so the assertion of
\* simulate() never fails; and nothing dangles at any moment.
THEOREM FitForIterationCorrect ==
  SpecMinimizer /\ []Room /\ []HashingApart => []FitForIteration
  BY WholeInvCorrect, WholeFit, PTL

\* When minimize() returns in time, no two gates that are read compute the same
\* function of the inputs: whatever the rules did, and however many iterations
\* it took.
THEOREM WholeMinimalCorrect ==
  SpecMinimizer /\ []Room /\ []HashingApart => []Minimal
<1>1. InitMinimizer => Minimal
  BY DEF InitMinimizer, Init, Minimal
<1> QED BY <1>1, WholeMinimalStep, WholeInvCorrect, PTL DEF SpecMinimizer

\* Rewriting and sweeping together keep the function for which minimize() was
\* called, at every moment and wherever the time limit strikes.
THEOREM WholeFunctionCorrect ==
  SpecMinimizer /\ []Room /\ []HashingApart /\ []TreesApart => []FunctionPreserved
<1>1. InitMinimizer => FunctionPreserved
  BY DEF InitMinimizer, Init, FunctionPreserved
<1>2. /\ WholeInv /\ Room /\ HashingApart /\ TreesApart
      /\ FunctionPreserved /\ [NextMinimizer]_minimizer_vars
      => FunctionPreserved'
  BY WholeFunctionStep DEF FunctionPreserved
<1> QED BY <1>1, <1>2, WholeInvCorrect, PTL DEF SpecMinimizer

\* The caller's view: minimize() is called with a circuit that gives every
\* input one output, no step but the return is visible, and it returns once.
THEOREM OptimizerImplemented ==
  SpecMinimizer /\ []Room /\ []HashingApart /\ []TreesApart => O!Safety
<1>1. InitMinimizer => O!Init
  <2> SUFFICES ASSUME InitMinimizer PROVE O!Init
    OBVIOUS
  <2>1. Good(circuit) /\ pc = "rewrite"
    BY MinimizerAssumption DEF InitMinimizer, Init, Good
  <2> QED BY <2>1, BehaviourIsFunction DEF O!Init
<1>2. /\ WholeInv /\ Room /\ HashingApart /\ TreesApart /\ [NextMinimizer]_minimizer_vars
      => [O!Return]_<<Behaviour(circuit), pc = "done", check_timeout>>
  <2> SUFFICES ASSUME WholeInv, Room, HashingApart, TreesApart, [NextMinimizer]_minimizer_vars
               PROVE  [O!Return]_<<Behaviour(circuit), pc = "done", check_timeout>>
    OBVIOUS
  <2>1. Behaviour(circuit') = Behaviour(circuit)
    BY WholeFunctionStep
  <2>2. check_timeout' = check_timeout
    BY DEF NextMinimizer, Step, Rewriting, Sweeping, StopBeforeSweep, MinimizerTimeExpires, MinimizerFinished,
           minimizer_vars
  <2>3. pc = "done" => pc' = "done"
    BY DEF NextMinimizer, Step, Rewriting, Sweeping, StopBeforeSweep, MinimizerTimeExpires, MinimizerFinished,
           minimizer_vars, RewriteStep, BeginRewrite, RewriteGate, BeginCleanup, CleanupGate, EndRewrite,
           Stop, BeginSatCleanup, EndSatCleanup, SweepStep, StartSweep, Simulate, EndSimulate,
           ChooseConstantBin, ChooseRegularBin, CheckConstant, CheckRegular, EndBin, EndSweep
  <2> QED BY <2>1, <2>2, <2>3 DEF O!Return
<1> QED BY <1>1, <1>2, WholeInvCorrect, PTL DEF SpecMinimizer, O!Safety
=============================================================================
