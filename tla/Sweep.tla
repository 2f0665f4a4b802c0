------------------------------- MODULE Sweep -------------------------------
(***************************************************************************)
(* One SAT-based iteration of simple_circuitt::minimize.  Gates that had   *)
(* the same value under every interpretation seen so far share a bin.      *)
(* Random simulation refines the bins; then each bin is walked from its    *)
(* shallowest gate and the SAT solver is asked whether the next gate is    *)
(* equivalent to the representative.  If so the gate is replaced, if not   *)
(* the counterexample is stored for the next iteration and the rest of     *)
(* the bin is left alone.                                                  *)
(***************************************************************************)
EXTENDS MinimizerState

CONSTANT
  SimRounds         \* rounds of simulation in a row that must show nothing new

VARIABLES
  bins,             \* the bins that are still to be processed
  interpretations,  \* the stored assignments to the inputs
  threshold,        \* rounds of simulation since the last refinement
  representative,   \* representative_gate of the bin being processed
  rest,             \* the gates of that bin still to be compared with it
  changed,          \* changed_circuit of the iteration
  ref               \* the circuit when the iteration began (history)

bin_vars   == <<bins, representative, rest>>
sweep_vars == <<pc, circuit, level, bin_vars, interpretations, threshold,
          changed, timed_out, ref>>

Interpretation == [Input -> BOOLEAN]
AllFalse       == [i \in Input |-> FALSE]  \* initialize_interpretation
InputsOf(V)    == [i \in Input |-> V[i]]

\* What simulate() computes from an interpretation.
Simulations(c, I) == {V \in Valuations(c) : InputsOf(V) = I}

ASSUME SweepAssumption == SimRounds \in Nat \ {0}

\* No bin of one gate is kept.
Large(B) == {b \in B : \E m, n \in b : m # n}

\* Fault: the stored interpretations are not used.
create_bins_unrefined(c, I) == {Const \cup Gates(c)}

\* create_bins: all gates, refined by all stored interpretations.
create_bins(c, I) ==
  LET alike(m, n) == \A V \in Valuations(c) : InputsOf(V) \in I => Val(V, m) = Val(V, n)
      nodes == Const \cup Gates(c)
  IN  Large({{n \in nodes : alike(m, n)} : m \in nodes})

\* refine_bins: every bin is split by the values that its gates have in V.
Separates(V, B) == \E b \in B : \E m, n \in b : Val(V, m) # Val(V, n)
refine_bins(V, B) ==
  Large({{n \in b : Val(V, n)} : b \in B} \cup {{n \in b : ~Val(V, n)} : b \in B})

----------------------------------------------------------------------------

InitSweep ==
  /\ pc = "fixpoint"
  /\ circuit \in InitialCircuits
  /\ level = <<>>
  /\ bins = {}
  /\ interpretations \in {I \in SUBSET Interpretation : AllFalse \in I}
  /\ threshold = 0
  /\ representative = NULL
  /\ rest = {}
  /\ changed = FALSE
  /\ timed_out = FALSE
  /\ ref = circuit

\* minimize() starts an iteration after rewriting has come to an end.
\* simulate() asserts that it meets each gate once, which fails when a gate
\* reads ZERO_GATE: its value is known before the simulation begins.
SimulationDefined(c) ==
  \A g \in Gates(c), p \in Pin : c.fanin[g][p] # ZERO_GATE

StartSweep ==
  /\ pc = "fixpoint" /\ ~timed_out
  /\ SimulationDefined(circuit)
  /\ LET L == Levels(circuit)
     IN  IsRanking(circuit, L) /\ level' = L  \* "Cycle in circuit" otherwise
  /\ bins' = create_bins(circuit, interpretations)
  /\ threshold' = 0
  /\ changed' = FALSE
  /\ ref' = circuit
  /\ pc' = "simulate"
  /\ UNCHANGED <<circuit, interpretations, representative, rest, timed_out>>

\* One round of determine_structural_redundancy.
Simulate ==
  /\ pc = "simulate" /\ ~timed_out /\ threshold < SimRounds
  /\ \E V \in Valuations(circuit) :
       IF Separates(V, bins)
       THEN /\ bins' = refine_bins(V, bins)
            /\ interpretations' = interpretations \cup {InputsOf(V)}
            /\ threshold' = 0
       ELSE /\ threshold' = threshold + 1
            /\ UNCHANGED <<bins, interpretations>>
  /\ UNCHANGED <<pc, circuit, level, representative, rest, changed, timed_out, ref>>

EndSimulate ==
  /\ pc = "simulate"
  /\ timed_out \/ threshold = SimRounds
  /\ pc' = "bins"
  /\ UNCHANGED <<circuit, level, bin_vars, interpretations, threshold, changed, timed_out, ref>>

\* A bin with a constant is compared with the constant.
ChooseConstantBin ==
  /\ pc = "bins" /\ ~timed_out
  /\ \E b \in bins : \E n \in b \cap Const :
       /\ bins' = bins \ {b}
       /\ representative' = n
       /\ rest' = b \ {n}
  /\ pc' = "constants"
  /\ UNCHANGED <<circuit, level, interpretations, threshold, changed, timed_out, ref>>

\* Fault: the order is reversed.
ChooseRegularBin_deepest ==
  /\ pc = "bins" /\ ~timed_out
  /\ \E b \in bins : \E n \in Deepest(level, b) :
       /\ b \cap Const = {}
       /\ bins' = bins \ {b}
       /\ representative' = n
       /\ rest' = b \ {n}
  /\ pc' = "regular"
  /\ UNCHANGED <<circuit, level, interpretations, threshold, changed, timed_out, ref>>

\* Any other bin is compared with its shallowest gate (order_bin).
ChooseRegularBin ==
  /\ pc = "bins" /\ ~timed_out
  /\ \E b \in bins : \E n \in Shallowest(level, b) :
       /\ b \cap Const = {}
       /\ bins' = bins \ {b}
       /\ representative' = n
       /\ rest' = b \ {n}
  /\ pc' = "regular"
  /\ UNCHANGED <<circuit, level, interpretations, threshold, changed, timed_out, ref>>

\* Faults: a counterexample does not count as a change, or the bin goes on.
StoreCounterexample_uncounted(V) ==
  /\ interpretations' = interpretations \cup {InputsOf(V)}
  /\ rest' = {}
  /\ UNCHANGED <<circuit, changed>>
StoreCounterexample_again(V) ==
  /\ interpretations' = interpretations \cup {InputsOf(V)}
  /\ changed' = TRUE
  /\ UNCHANGED <<circuit, rest>>

\* The answer of the solver was a counterexample.
StoreCounterexample(V) ==
  /\ interpretations' = interpretations \cup {InputsOf(V)}
  /\ changed' = TRUE
  /\ rest' = {}
  /\ UNCHANGED circuit

\* equivalence_check_process_constants_bin: the question is whether the gate
\* is constantly false, for the bin of ONE_GATE too, and a merge does not
\* count as a change.
CheckConstant ==
  /\ pc = "constants" /\ ~timed_out
  /\ \E g \in Shallowest(level, rest) :
       LET refuting == {V \in Valuations(circuit) : Val(V, g)}
       IN  IF refuting = {}
           THEN /\ circuit' = ReplaceBy(circuit, g, representative)
                /\ rest' = rest \ {g}
                /\ UNCHANGED <<interpretations, changed>>
           ELSE \E V \in refuting : StoreCounterexample(V)
  /\ UNCHANGED <<pc, level, bins, threshold, representative, timed_out, ref>>

\* Fault: gates that agree in all stored interpretations are merged unasked.
CheckRegular_trusting ==
  /\ pc = "regular" /\ ~timed_out
  /\ \E g \in Shallowest(level, rest) :
       circuit' = ReplaceBy(circuit, g, representative) /\ rest' = rest \ {g}
  /\ changed' = TRUE
  /\ UNCHANGED <<pc, level, bins, interpretations, threshold, representative, timed_out, ref>>

\* equivalence_check_process_regular_bin
CheckRegular ==
  /\ pc = "regular" /\ ~timed_out
  /\ \E g \in Shallowest(level, rest) :
       LET refuting == {V \in Valuations(circuit) : Val(V, g) # Val(V, representative)}
       IN  IF refuting = {}
           THEN /\ circuit' = ReplaceBy(circuit, g, representative)
                /\ rest' = rest \ {g}
                /\ changed' = TRUE
                /\ UNCHANGED interpretations
           ELSE \E V \in refuting : StoreCounterexample(V)
  /\ UNCHANGED <<pc, level, bins, threshold, representative, timed_out, ref>>

EndBin ==
  /\ pc \in {"constants", "regular"}
  /\ timed_out \/ rest = {}
  /\ pc' = "bins"
  /\ UNCHANGED <<circuit, level, bin_vars, interpretations, threshold, changed, timed_out, ref>>

\* minimize() cleans up and continues if the iteration changed the circuit or
\* found a counterexample, and returns otherwise.
EndSweep ==
  /\ pc = "bins"
  /\ timed_out \/ bins = {}
  /\ pc' = IF changed THEN "swept" ELSE "done"
  /\ UNCHANGED <<circuit, level, bin_vars, interpretations, threshold, changed, timed_out, ref>>

SweepTimeExpires ==
  /\ CheckTimeout /\ ~timed_out /\ pc \notin {"fixpoint", "swept", "done"}
  /\ timed_out' = TRUE
  /\ UNCHANGED <<pc, circuit, level, bin_vars, interpretations, threshold, changed, ref>>

SweepFinished == pc \in {"swept", "done"} /\ UNCHANGED sweep_vars

SweepStep == \/ StartSweep \/ Simulate \/ EndSimulate
             \/ ChooseConstantBin \/ ChooseRegularBin
             \/ CheckConstant \/ CheckRegular \/ EndBin \/ EndSweep

NextSweep == SweepStep \/ SweepTimeExpires \/ SweepFinished

SpecSweep == InitSweep /\ [][NextSweep]_sweep_vars /\ WF_sweep_vars(SweepStep)

----------------------------------------------------------------------------
(* Properties of an iteration.                                             *)

Active == pc \in {"simulate", "bins", "constants", "regular"}

\* The types.  The gates of a bin are those of the circuit the iteration began
\* with, and what is left of the bin being processed has no constant in it.
SweepTypeOK ==
  /\ pc \in {"fixpoint", "simulate", "bins", "constants", "regular", "swept", "done"}
  /\ circuit \in Circuit /\ ref \in Circuit
  /\ bins \subseteq SUBSET (Const \cup Gates(ref))
  /\ rest \subseteq Gates(ref)
  /\ representative \in Const \cup Gate \cup {NULL}
  /\ interpretations \subseteq Interpretation
  /\ threshold \in 0 .. SimRounds
  /\ changed \in BOOLEAN /\ timed_out \in BOOLEAN

\* However many gates an iteration merges, and in whatever order, every gate
\* keeps the value it had before the iteration, for every input, and so does
\* every output.  Every answer of the solver is about a circuit that earlier
\* answers have already changed.
SameFunction ==
  \A V \in Valuations(ref) :
    Consistent(circuit, V) /\ Outputs(circuit, V) = Outputs(ref, V)

\* order_bin sorts by a level map computed before the first merge.  It stays
\* valid: a merge never makes a gate read one that is not below it, so no
\* cycle arises although the map is never recomputed.
Ranked == Active => IsRanking(circuit, level)

\* Gates of a bin agree when all inputs are false: the first interpretation
\* that minimize() stores, with which it tells ONE_GATE from ZERO_GATE.
Alike(b) ==
  \A V \in Simulations(ref, AllFalse) : \A m, n \in b : Val(V, m) = Val(V, n)

\* Why SameFunction and Ranked hold.  Bins stay alike under the first
\* interpretation, so a false gate never shares one with ONE_GATE, and the
\* representative is a lowest gate of its bin.
Intact ==
  /\ SweepTypeOK /\ SameFunction /\ Ranked
  /\ WellFormed(ref) /\ Acyclic(ref)
  /\ WellFormed(circuit) /\ Acyclic(circuit)
  /\ circuit.op = ref.op
  /\ AllFalse \in interpretations
  /\ pc \in {"fixpoint", "simulate"} => circuit = ref /\ rest = {}
  /\ \A b \in bins : Alike(b)
  /\ pc = "constants" => representative \in Const /\ Alike(rest \cup {representative})
  /\ pc = "regular" => /\ representative \in Gates(ref)
                       /\ \A g \in rest : level[representative] <= level[g]

\* No stored interpretation tells the nodes of b apart.
Untold(b) ==
  \A V \in Valuations(ref) :
    InputsOf(V) \in interpretations => \A m, n \in b : Val(V, m) = Val(V, n)

\* Until the first change, what is compared are nodes that every stored
\* interpretation leaves equal, those stored during the simulation included.
Fresh ==
  Active /\ ~changed =>
    /\ \A b \in bins : Untold(b)
    /\ pc = "regular" => Untold(rest \cup {representative})

Unused == {g \in Gates(circuit) : Fanouts(circuit, g) = {}}

\* Two gates that compute the same wait in a bin together, are being compared,
\* or were both merged into a constant, unless something has changed.
NothingOverlooked ==
  Active /\ ~changed /\ ~timed_out =>
    \A g, h \in Gates(ref) :
      g # h /\ (\A V \in Valuations(ref) : V[g] = V[h]) =>
        \/ \E b \in bins : {g, h} \subseteq b
        \/ {g, h} \subseteq Unused
        \/ pc = "constants" /\ {g, h} \subseteq rest \cup Unused
        \/ pc = "regular" /\ {g, h} \subseteq rest \cup {representative}

\* The inductive invariant of an iteration.
Inv == Intact /\ Fresh /\ NothingOverlooked

\* When an iteration changes nothing, and the time is not up, no two gates
\* that are read compute the same function of the inputs.
Minimal ==
  pc = "done" /\ ~timed_out =>
    \A g, h \in Gates(circuit) :
      g # h /\ Fanouts(circuit, g) # {} /\ Fanouts(circuit, h) # {} =>
        \E V \in Valuations(circuit) : V[g] # V[h]

\* The first answer that counts as a change shows two gates to be equal or is
\* an interpretation that was not stored before, so every iteration that does
\* not merge learns something.
CounterexamplesAreNew ==
  [][pc = "regular" /\ ~changed /\ changed' =>
       \/ interpretations' # interpretations
       \/ \E g \in rest : /\ rest' = rest \ {g}
                          /\ \A V \in Valuations(circuit) : V[g] = V[representative]]_sweep_vars

\* An iteration ends: every answer of the solver shortens the bin.
SweepTermination == <>(pc \in {"swept", "done"})
=============================================================================
