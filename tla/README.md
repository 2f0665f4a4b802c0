# HyCC: specifications of the circuit compiler's core

HyCC compiles C programs to Boolean (and arithmetic) circuits for secure
multi-party computation. CBMC unrolls the program, `ssa_to_circuit` turns the
resulting expressions into a circuit (`simple_circuitt`), and
`simple_circuitt::minimize` makes the circuit smaller: rewriting rules to a
fixpoint, then SAT-based sweeping, under an optional time limit. Circuits of
several functions are linked, written to files, simulated, and converted to
ABY's circuits.

This directory holds TLA+ specifications of the parts where an error changes
what the compiled program computes and no compiler message tells: the analyses
of the program, the building blocks and the graph of literals that become
gates, the circuit in memory, its minimizer, the linking of circuits, the
parallel execution graph and the conversion to ABY's circuits. Paths below are relative to the repository root
(`src/` in the file lists of `PROJECT.json`), `libcircuit/` stands for
`src/libcircuit/`, `cbmc-gc/` for `src/cbmc-gc/`.

## 1. Inventory

| Component | State it keeps | Operations | Interacts with | Modelled |
|---|---|---|---|---|
| **Circuit graph in memory** `libcircuit/simple_circuit.{h,cpp}`, `simple_circuit_gate.cpp` | per gate: operation, fanin endpoints, fanout vector, `previous`/`next`; per circuit: HEAD/TAIL/SIZE of gates, inputs and outputs, `m_root_gates`, constants, named variables, function calls | `get_or_create_gate`, `create_input_gate`, `create_output_gate`, `add_fanin`, `remove_fanin`, `replace_by`, `remove`, `remove_fanouts`, `remove_gate_from_list`, copy and move | everything else holds pointers into it | `CircuitGraph`, `Wiring` |
| **Rewriting** `simple_circuit_theorems.cpp`, `_rewriting.cpp`, `_rewriting_old.cpp` | the worklist and level map of a pass, `changed_circuit`, `min_op` of the state machine | `rewrite`, `use_theorems` and its rules, `cleanup`, `minimizing_state_machine` | changes the graph while walking it; reads the clock | `Theorems`, `Rewrite` |
| **SAT-based sweeping** `simple_circuit.cpp` 581-922, `simple_circuit_sweep.cpp`, `cbmc-gc/sat_equivalence_checker.cpp` | bins of gates that agree so far, stored interpretations, level map | `create_bins`, `determine_structural_redundancy`, `refine_bins`, `equivalence_check_process_*_bin` | asks the SAT solver; merges gates; reads the clock | `Sweep` |
| **`minimize()`** `simple_circuit.cpp` 989-1131 | the above, the timeout data | the loop around both halves | called once per circuit by `ssa_to_circuit/boolean.cpp` | `Minimizer`, `Optimizer` |
| **Merging / linking** `simple_circuit_merge.cpp`, `simple_circuit.h` 629-648 | `m_function_calls`, named inputs and outputs | `merge_circuit`, `can_reuse_combiner`, `link` | the compiler's `--merge`, the ABY adapter | `Merge`, `Linker` |
| **Parallel execution graph** `parallel_execution_graph.{h,cpp}` | depth, closest outputs and block of every gate; per block its fanins and inputs | `build_parallel_execution_graph`, `add_call_block` | writes a file for the runner | `ParallelGraph` |
| **Simulation, evaluation** `simulation.cpp`, `runner.cpp`, `simple_circuit_evaluate.cpp` | values of gates | topological evaluation | | no: sequential, and libcircuit's `simulate()` has no caller in the repository |
| **Circuit files** `simple_circuit_file.cpp`, `circuit-utils/src/*_format.cpp` | on each side, which number a pin has | `write`, `read` | the compiler writes, the ABY adapter reads | `CircuitFile`; the other formats are not |
| **Building blocks** `cbmc-gc/building_blocks/*` | none | adders, multipliers, dividers, shifters, comparers, multiplexers, each for size and for depth | the lowering | `BuildingBlocks`, `LowDepth` |
| **SSA to circuit** `cbmc-gc/boolean_expr_lowering.cpp`, `circuit_creator_default.{h,cpp}`, `ssa_to_circuit/*` | the graph of literals, the map from literals to gates | the `convert_*` functions, `land`/`lor`/`lxor`, `create_circuit` | CBMC's SSA in, `simple_circuitt` out | `Lowering`, `CircuitCreator`; the arithmetic back end is not |
| **IR and analyses** `cbmc-gc/ir/*` | basic blocks and edges, traversal marks, immediate dominators, sorted vectors of definitions | `update_blocks`, `post_order`, `compute_idoms`, `add_control_edges`, `reaching_definitions` | the front end's outliner | `FunctionBlocks`, `Dominators`, `ControlDependence`, `ReachingDefs`; calls and pointers are not |
| **Front end** `cbmc_gc_parse_options.cpp`, ... | CBMC's | one sequential pass | CBMC | no: its difficulty is CBMC's data structures |
| **ABY adapter** `src/aby-hycc/*` | a linked circuit with a sharing on each gate; `m_cbmc_to_aby`: the wires each endpoint has in the three sharings | `replace_input_combiners`, `CircuitConverter::operator()`, `get_aby_gate`, `create_output_map` | libcircuit in, ABY's circuits out | `InputCombiners`, `CircuitConverter` |
| **Experimental passes** clustering, structurizing, converting | | | not reached by the default build | no |
| CBMC, Catch, callstack, examples | | | | no: vendored or examples |

**What is hard here.** The compiler is one thread. Its difficulty is not in
interleaving of threads but in *algorithms that change the structure they
iterate over*, in orders fixed by addresses (`std::set` of pointers, so any
order can occur), in a solver and a random generator that may answer anything,
and in a clock that may stop the work between any two steps:

* a rule rewrites gates that are still on the worklist of the pass, with levels
  computed before it; about thirty rules must not undo each other, make a
  cycle, forget a reader outside of the pattern, or be stopped at a bad moment;
* a merge of two gates changes the circuit all later solver answers are about;
* `replace_by()` loops over the list that each iteration shortens; `remove()`
  frees a gate in three loops;
* a counterexample must make progress, or the iterations never end;
* `link()` erases calls while it follows them and merges copies that have lost
  theirs; a merge connects one variable after the other, through combiners that
  earlier calls may have left;
* a depth-first search over a circuit enters a call through any of its returns;
* dominators, reaching definitions and the walks up the tree are fixpoints that
  read a result which is not finished, and end only if it grows;
* the wire that a reader is given in ABY's circuits depends on what earlier
  readers of the same gate asked for, so on the order of a traversal;
* a vector of literals is shared by gates that are made from it by changing
  signs in place.

**What makes each component correct.** Graph: both directions of each wire
agree, nothing points to a freed gate, lists and `m_root_gates` hold exactly
the gates that exist, and the calls return. Rewriting, sweeping, `minimize()`:
the circuit stays the same function, stays acyclic and fully connected, nothing
unused is returned, it ends, and what it returns in time is minimal in the
sense its code aims at. Merging: a call is replaced by the callee's function
with each argument bit at its place, and no call of any copy is lost. Parallel
graph: the blocks form no cycle, every call is a block of its own, and the
depths of the blocks add up to no less than the circuit's. ABY adapter: the
converted circuits compute the outputs of the linked one, whatever the order of
the gates, and no conversion is asked for that ABY does not have. Analyses: the graph
that is analysed is the one the program has, the results are those of the
definitions (dominance, control dependence, reaching stores), and they end.
Lowering: the bits of an expression are those of C's arithmetic; the gates
compute what the literals stand for.

## 2. Modules

```
Netlist        circuits as values: operations, fanins, levels, what they compute
 +- Theorems     every rule of use_theorems(), as an operator on circuits
 |   +- Rules_proofs     circuits under a change; each rule alone (EXTENDS InductionFacts)
 +- MinimizerState   what the two halves of minimize() share
 |   +- Rewrite      rewrite(), cleanup(), minimizing_state_machine(), the clock (EXTENDS Theorems)
 |   |   +- Rewrite_proofs   one rule after another, and the passes (EXTENDS Rules_proofs)
 |   +- Sweep        one SAT-based iteration
 |       +- Minimizer    minimize(): EXTENDS Rewrite and Sweep
 |           +- Optimizer   what a caller of minimize() relies on (abstract)
 |           +- Minimizer_proofs   an iteration, and minimize() (EXTENDS Rewrite_proofs)
 +- Families     small families of circuits for the models
CircuitGraph   gates and wires in memory
 +- CircuitGraph_proofs
 +- Wiring       what the operations on gates promise (abstract)
InductionFacts least counterexamples and largest solutions, in place of induction
Linker         link(): which bodies and calls a circuit has
Merge          merge_circuit(): the wires of one call
 +- CallFamilies   callers, callees and circuits with calls for the models
ParallelGraph  blocks of gates and calls that can run in parallel
BackEnd_proofs   Linker and ParallelGraph
CircuitFile    a circuit is written to a file and read back
InputCombiners replace_input_combiners(), and what a circuit computes
 +- CircuitConverter  (EXTENDS it) gates become gates of ABY
LinkedFamilies circuits for the models of CircuitFile and CircuitConverter
FunctionBlocks update_blocks(): dead blocks, one exit, back edges
Dominators     compute_idoms() and the post-order
 +- ControlDependence  (EXTENDS it) on the reversed graph, with add_control_edges()
Analyses_proofs  FunctionBlocks, Dominators and ControlDependence
ReachingDefs   reaching_definitions() of one function
 +- LoopPrograms   programs for the models
BuildingBlocks size-optimized blocks as functions from bits to bits
 +- LowDepth     depth-optimized ones
     +- Lowering   the convert_* functions that choose and combine them
CircuitCreator literals, their folding, and the gates made from them
 +- FrontEnd_proofs  (EXTENDS InductionFacts)
MC*            one module and one cfg per run
```

Two levels of abstraction meet at the gate. `CircuitGraph` has the pointers:
fanins, fanout vectors, list links; every iteration of the loops in
`replace_by()` and `remove()` is a step. Its run `MCCircuitGraph` shows
that these loops implement the one-step operations of `Wiring`, and
`Netlist!ReplaceBy` and `Netlist!RemoveGate` are those operations on circuits
as values, on which the minimizer's modules are built.

### Netlist
A circuit is a record of `op` (the operation at an address, `FREE` when no gate
lives there), `fanin` and `out` (what drives an OUTPUT). Fanouts are derived.
`ZERO_GATE` is `NOT(ONE_GATE)`, as the constructor builds it, and counts as a
reader of `ONE_GATE`. `Levels` is `simple_circuit_get_depth`. `Valuations` are
the solver's satisfying assignments, `Behaviour` the function of a circuit, as
a relation, so that a circuit with a cycle can be recognised as not being one.

### Theorems, Rewrite
`use_theorems(c, g, round2)` is the *set* of results for gate `g`: the code
looks for gates among fanouts in the order of a vector, which the model leaves
open. The rules are named as in the code; each yields matches with a
replacement, and `use_theorems` keeps the code's order, its short-circuiting,
and its use of `fanin0`/`fanin1` set by one rule and read by the next. `Rewrite`
takes one gate of the worklist per step, from the deepest level, and one gate
of `cleanup()` per step. `TimeExpires` is enabled between any two. Depth
minimisation and the OLD, AIG and STRUCTURE operations of the state machine are
left out: the repository's only call, `boolean.cpp:265-274`, does not use them.
Levels of gates created during a pass do not exist in the model as in the code:
both walk only the gates of the worklist.

### Sweep
`bins` are sets of nodes; `create_bins` and `refine_bins` split them by stored
interpretations. `Simulate` is one round: any valuation may be drawn, since the
code draws inputs at random and simulates. The bins are taken in any order, the
gates of a bin from the shallowest up. A check asks whether *some* valuation of
the circuit as it is now tells the gate from the representative; if so any of
these is the counterexample, as from a SAT solver. A false assertion of the
code ("Cycle in circuit", `simulate_2`'s assertion) leaves the model without a
step, so that the deadlock check finds it.

### Minimizer
The two halves share `pc`, `circuit`, `level` and `timed_out`
(`MinimizerState`); each has its own remaining state. `pc = "fixpoint"` is where rewriting hands over to the sweep,
`pc = "swept"` where an iteration that changed something hands back for
`cleanup()`. `Optimizer` has two variables, the function of the circuit and
whether `minimize()` returned; `ImplementsOptimizer` maps them to
`Behaviour(circuit)` and `pc = "done"`.

### CircuitGraph
`fanouts[g][t]` says how often pin `t` is in the fanout vector of `g`. `call`
is the loop in progress. A fault of an assertion in `remove_fanin` disables the
step. Only gates with one output pin are modelled.

### Linker, Merge
Two views of the same operation. `Linker` is the recursion: `stack` holds the
activations of `link()`, a circuit is the set of bodies in it (each named by the
call sites on the way to it) and its list of calls. `LinkCallee` is the
recursive call, `MergeCopy` the copy and `merge_circuit`, after which the call is
erased; `NotFound` is the exception. The copy has bodies but no calls, as the
copy constructor leaves it. `Complete` says that this loses nothing: each call
in each body was followed, or is still listed. `Merge` is what happens to the
wires: one action for each way the next gates of a variable are connected
(`Direct`; `Combine`, with `Reuse` or `NewCombiner`; `Split`), and
`EndVariable`, which removes the INPUT and OUTPUT gates. `MeaningKept` follows every wire of the
present circuit back to a source and compares it with what the call passes.

### ParallelGraph
The code's three memoised depth-first searches are three phases in which an
element is handled when what it waits for has been; every order of the searches
is one of these. `DepthCall`, `ClosestOutputs` and `PlaceCall` are the cases of a
call, `PlaceInput`, `PlaceGate` and `PlaceOutput` the ones of a gate. `needed` is what the
searches start from the circuit's outputs reach; an element outside is never
handled, as in the code. `add_call_block`'s assertion that a call is new is
`CallsOnce`, a part of the run's `CallsOK`; that all outputs are placed is
`AllPlaced`, the run's `AllEnd`.

### CircuitFile
Both sides of a `.circ` file in one behaviour. `WriteHeader` numbers the gates of
input variables and of calls' returns (`label` is `gate_label`), `WriteGate`
numbers and writes one gate, in any topological order, and `WriteOutputs` writes
the numbers that the OUTPUT gates read. `ReadHeader` makes the INPUT gates and
the table of numbers (`ids`, the `IDConverter`), as large as the header promises;
`ReadGate` makes one gate and enters its pins, `ReadVariable` the OUTPUT gates of
one variable. The assertions of `get`, `add` and at the end of a variable are
guards, so a number out of range is a deadlock. The file is what it says, not its
bytes. `ReadBack` follows each pin of the written circuit to the one that its
number means to the reader: together with `ids` this has to be an isomorphism. Gates
that nothing needs are counted in the header and not written; the circuits of
`LinkedFamilies` have none, as after `cleanup()`.

### InputCombiners, CircuitConverter
A circuit is a record of functions over gate names. `InputCombiners` has the
iterator `input_it` as `pos`: `Replace` puts a wide INPUT where a COMBINE gate and
its bits were, `Pass` is one step of `find_next_input_connected_to_combiner` or
the `else` of the loop, `NextVariable` the outer loop. The new INPUT takes the
combiner's name, so that `replace_by` is that the readers keep theirs. `Meaning`
is `simulate()` in the adapter, with the inputs' values cut out of their
variable as `create_input_value_mapping` does it.

`CircuitConverter` goes on with the circuit that this leaves, as
`test_cbmc_circuit` does, with one action per kind of gate. `Ready` allows each
topological order, of which `topological_traversal` takes one. A wire of ABY is
what put it there (an input, an operation, a conversion) and the values it
carries; `aby` is `m_cbmc_to_aby`. A converted wire is not entered there:
`get_aby_gate` stores it in its copy `aby_gates`, so each reader converts again
(section 5). `conversions` is the set of all conversion gates with what they
read. The `assert`s of `get_aby_gate` and `boolean_circuit` are guards: a
circuit at which one fails stops the model, and the run looks for deadlock.
`WiresRight` compares the circuit after `replace_input_combiners`, and all wires
made for it, with the circuit that `link()` left. `NoInputConverted` is about
the comments in `get_aby_gate` and `bool_to_arith_wire`: ABY cannot convert a
Yao input. `choose_sharing_for_combine` avoids it by looking at the gates; that
`get_aby_gate` never does it for a GMW reader is a matter of what was made before.

### FunctionBlocks, Dominators, ControlDependence
`FunctionBlocks` erases in one pass over the list, joins the exits, and walks
depth first, where `visits` has the activations of `visit()`; edges keep their order. `Dominators` has the
walk of `post_order` and the passes of `compute_idoms` down to single steps of
`common_predecessor`'s walkers `b1` and `b2`; it does not know the direction.
`ControlDependence` extends it: the graphs are reversed ones and the root is the exit
block, as in `create_pdg`, and it goes on with `add_control_edges`: one step up the tree at
a time. Its reference, `ControlDependencies`, is the definition that the code's
comment quotes.

### ReachingDefs
One function, one variable of some bytes. The vectors of definitions are
sequences here, with `merge_into` and `add_killing_definition` as the code has
them, including what they do to a vector that is not sorted (section 5). `Sound`
compares with a path definition: a byte's store that no later store on the path
kills must be among the definitions of the load. The work list goes by the
numbers of the blocks; `LoopPrograms!NumberedInPostOrder` is the assumption that these
are the order of `compute_post_order_of_reverse_cfg()`, with the body of a while
loop before its condition.

### BuildingBlocks, LowDepth, Lowering
Blocks are pure functions on vectors of bits; carries are recursive functions
over positions, the divider's rounds and the prefix network's stages too. Which
gates the code saves when an input is constant is left out: it changes the gates
and not the function. `Lowering` has one action per `convert_*` function, and
the references (`Unsigned`, `Signed`, C's truncating division) are integers.
`literalt`'s sign bit appears only in `LowDepth!MultiplexerLowdepth`, where the
code edits it.

### CircuitCreator
A literal is a record of a variable and a sign; the constants are the literals of
the code's `const_var_no()`. While `phase = "build"`, `DeclareInput` numbers the
bits of an input and `Operation` is one `land`/`lor`/`lxor` with its folding;
`StartCircuit` fixes the outputs' literals. `ConvertInput`, and `CreateOutput` with
`EndOutput`, are the loops of `create_circuit`; the returns and arguments of calls
take the same ways there as inputs and outputs. `convert_node()` is taken apart:
`calls` is the stack of its activations, each with its literal, its gate and the
literals of the fanins still to come. For the first of these there is one action
per case of the code (`Connect`, `Negate`, `Descend`), and `Return` ends an activation
with `RememberBoth`, which puts a gate and its negation into `literal_to_gate`
(`map`). That the map is written when an activation ends and read while others are
open is what could convert a node twice or connect a gate to one that is not
complete.

### Several components in one run
`MCBackEnd`, `MCAnalyses` and `MCFrontEnd` each hold several instances next to
each other. The variable `part`, fixed in the initial state, says which one the
behaviour belongs to; the others' variables keep idle values. The state graph is
the disjoint union of theirs: nothing is explored that the parts alone would not
have. The modules that theorems are about are extended, and their properties are
checked as they are defined there (they hold of idle values); of the instances a
property says `part = ... =>`.

Definitions whose name is that of a modelled one with a suffix
(`ReplaceReturn_early`, `simplify17_self`, ...) are deliberate faults: each is
put in the place of the original to see that the property it is paired with in
`PROJECT.json` notices.

## 3. Runs

Times are for two workers.

| Run | Instance | States | Shows |
|---|---|---|---|
| `MCRewrite` | every circuit of at most 3 gates over 2 inputs, of at most 2 gates with 2 outputs, and families of 4 and 5 gates in which the large patterns match; a time limit | 298 k, 150 s | after each rule: no dangling pin, no cycle, the same function; where it stops nothing unused is left and, unless the clock stopped it, no rule applies (`CleanEnd`); it ends |
| `MCRewriteShared` | trees of ORs with a shared inner gate | violation | finding 1 |
| `MCSweep` | every circuit of at most 2 gates and a family of 4 (`MCSweep!SweepCircuits`), every set of stored interpretations | 74 k, 54 s | merges keep function and levels; `Inv` is an invariant; every iteration ends; its first change is a new interpretation, or a merge of gates that are equal in all valuations |
| `MCMinimizer` | the two halves together, one round of simulation, with and without a time limit | 98 k, 147 s | `ImplementsOptimizer`; what an iteration leaves is fit for the next, `simulate()`'s assertion included; minimal when returned in time; it returns unless a gate stays constantly true |
| `MCMinimizerTrue` | a gate that is constantly true, no limit | violation | finding 2 |
| `MCCircuitGraph` | 3 addresses, wires up to a bound, AND, INPUT, OUTPUT | 157 k, 106 s | both directions, lists and `m_root_gates` agree after every iteration of every loop; the calls return and implement `Wiring` |
| `MCBackEnd` | all acyclic call graphs of 4 circuits and 5 sites, one name without a circuit; callers and callees with one-bit and two-bit gates; circuits of 11 elements with two calls in a row or side by side, one possibly unused; 20 circuits of up to 18 gates with all kinds of gates, a call, and the constants used or not; linked circuits of up to 19 gates in three sharings | 184 k, 105 s | no call is lost, every gate reads the bits that the calls pass to it, no wire at a deleted gate; the blocks form no cycle, calls get one block, inputs of blocks are listed, depths add up; what is read is what was written; ABY's circuits compute what the linked one does and convert no input; all of it ends |
| `MCMergeConstants` | two calls of one function with constant arguments | violation | finding 3 |
| `MCInputCombiners` | an argument with two bits of a variable reversed | violation | finding 5 |
| `MCAnalyses` | all functions of 4 blocks with up to two fanouts; all graphs of 5 blocks with one exit; programs of 4 blocks over 4 bytes | 286 k, 124 s | update_blocks() keeps what is reachable, back edges break exactly the cycles, the tree is dominance, the edges are control dependence, no definition is missed, everything ends |
| `MCReachingDefsDoWhile` | do-while loops with a killing store | violation | finding 4 |
| `MCFrontEnd` | every program of a few operations on a `_Bool` with two outputs; expressions over widths 1, 2 and 4 | 2.6 M, 102 s | the circuit computes the program, nothing is converted twice, and the conversion gets stuck nowhere; every expression has the value of C's arithmetic |

**Bounds and why they are enough.**
* *Gates.* `MCRewrite` has all circuits of at most three gates, in every
  way of connecting them; rules whose patterns are larger have a family of their
  own (`Families`). Together every rule of `use_theorems` fires.
  `MAX_STEPS` bounds the search of `transform_rek` in the code; its
  value in the model is the code's.
* *Addresses.* Rules create gates before the ones they replace are removed;
  7 (11 in the larger families) are more than any pass of these families has
  alive at once. A rule that found no free address would be an error of the run
  (`NewGate` chooses from an empty set), so none is disabled silently.
* *Inputs.* Two inputs have four interpretations, enough to tell any two of
  these gates apart; `MCRewriteShared` needs three.
* *Interpretations.* `MCSweep` begins with every set of stored ones that
  contains the first (all inputs false), so also those after any number of
  iterations. `SimRounds = 1` allows the simulation to find nothing in any
  state; longer runs of useless rounds add no behaviour.
* *Wires.* `MaxWires` bounds pins connected at a time. The bound of the run
  reaches a gate with two readers, both pins of an AND on one driver, a gate that
  reads itself, an element in the middle of a list of three, and a removal with
  readers.
* *Calls.* Three calls are enough for a return that is the next one's argument, a
  combiner that a later call can take up, and two calls of one function; the
  widths are one and two, both directions of "wider".
* *Call graphs.* Five sites give chains of depth three, a circuit called from two
  others and twice from one.
* *Files.* Every topological order of each circuit is written, with a SPLIT gate
  before gates that read its bits and with the constant gates at every place.
* *Sharings.* A caller in Yao or in GMW calls an arithmetic module twice and a
  boolean one in Yao or in GMW, or is arithmetic itself; arguments are bits of
  variables, of gates and of SPLIT gates, so each of the three sharings is asked
  for after each other. Variables of three and two bits, an arithmetic width of
  two: an argument may be all of a variable, a part at the front or at the back.
  In the values tried (`LinkedFamilies!Tried`) every two bits take all four values,
  but for the second variable's, which are never both 0.
* *Blocks.* Four blocks with two fanouts include self loops, double edges,
  several exits, blocks that die one after the other in both directions of the
  list. The fourth of `MCAnalyses!FunctionGraphs` has at most one fanout, and the start
  block goes on to the second. Five blocks are needed for irreducible loops with
  an exit of their own and for a block that depends on two branches.
* *Bytes.* Four bytes have every way for one region to overlap another: at the
  front, the back, inside, around.
* *Widths.* Two is the least width with a carry and a sign, four the least with
  two stages of a prefix network. Only powers of two appear with depth-optimized
  blocks, and no negated literal is an index (section 5). All operands of each
  width are tried.

No run uses symmetry: linked lists of addresses and temporal properties are in the
way in `MCCircuitGraph`, and the other families are built from distinct names.

**Fairness.** `minimize()` and the graph's loops are one thread that waits for
nothing: weak fairness of its steps, and the same for `link()`, the parallel
graph, the files, the conversion to ABY and the analyses. `SpecMinimizer` also has weak fairness of
`TimeExpires`: a given limit expires. `LuckySpec`, used where there is no limit,
adds strong fairness of `Separating`: a simulation round that can tell gates of
a bin apart for ever is not missed for ever. The code draws inputs at random, so
this holds with probability one and not for every sequence of draws. Both
liveness results about `minimize()` without a limit rest on it, the violated one
too: bad luck is not what makes finding 2.

## 4. Proofs

Every theorem below is for all finite sets of gates, inputs, wires, elements and
circuits, and for every order of the steps; the runs of section 3 check the same
formulas on the instances listed there. The shape is the same throughout: a
conjunction that is inductive, one lemma for each action of `Next` (and one for
each conjunct that the action can disturb), then `PTL`. Facts about the operators
are lemmas that are stated once: `Rules_proofs` for circuits as values and for
the rules, `InductionFacts` for what would be an induction.

### Circuits in memory

`CircuitGraph_proofs`:

* `LinkageCorrect`: `Spec => []Linkage`. Both directions of every wire agree, also
  between two iterations of a loop. The invariant `LinkInv` needs, beside `Linkage`,
  that the fanins and fanouts are functions of the right type and what a running
  call knows of its gates (`CallOK`). All actions but `RemoveFanouts` change one
  wire, and the lemma `OneWire` covers them.
* `NoWireToDeletedCorrect`: `Spec => []NoWireToDeleted`. It is not inductive: that
  the gate which `remove()` takes out of its list has no wire left is known only
  from how far the call has come. `WireInv` adds `Progress` (the pins that the
  loops of `remove` have passed are open, and its gate is not a constant),
  `Constants` and `RootGates` (a gate without pins is in `m_root_gates`).
* `WiringImplemented`: `Spec => ImplementsWiring`. The refinement of `Wiring`, step by
  step: a call that finishes at once is one step of `Wiring`, `replace_by` and `remove`
  are one step at their last iteration and stutter before. The mapping shows a
  caller the pins as they were when the call began (`SeenFanins`), which is
  possible because `replace_by` and `remove` take wires away and move them in a
  known direction: the lemma `SeenThrough` is the invariant of the mapping.
* `ListsIntactCorrect`: `Spec => []ListsIntact`. From `HEAD` along `next` one meets every
  gate of the kind once and ends at `TAIL`; `SIZE` counts them; `previous` is the
  way back. `ListInv` has a sequence for each list (`Chain`, its gates in the order
  in which they are linked): insertion appends to it and removal drops an
  element from it, with the three cases of the code (first, last, between).

### Rewriting

The first part of `Rules_proofs` has what every pass needs: a circuit in which one gate was
replaced by another has the wires one expects (`MergeFields`), stays well-formed
(`MergeKeepsWellFormed`) and acyclic when the other does not read the first
(`MergeKeepsAcyclic`), every acyclic circuit has exactly one valuation for each
input (`SomeValuation`, `SameInputsSame`), and replacing a gate by one of equal value
keeps the function.

The second part treats each of the rules of `use_theorems()` by itself, for every
circuit, gate and order of fanins in which its pattern matches. For each there is
one lemma on values (`Replaces`: in every valuation, also of the gates that the
rule creates, the gate and what replaces it are equal) and one on wires (`Sinks`,
`Under`: what replaces the gate does not read it, because every gate that the rule
mentions or creates is below the gate).

`Rewrite_proofs` puts the rules after one another, as `use_theorems()` does, and
adds structural hashing, the two restarts of the simple rules, `rewrite()` and
`cleanup()`:

* `StateOKCorrect`: `Spec /\ []Room => []StateOK`;
* `NoCycleCorrect`: `Spec /\ []Room /\ []HashingApart => []NoCycle`;
* `FunctionPreservedCorrect`: `Spec /\ []Room /\ []HashingApart /\ []TreesApart
  => []FunctionPreserved`.

* `CleanEndCorrect`: `Spec /\ ~Spent(circuit) /\ []Room /\ []HashingApart =>
  []CleanEnd`: where rewriting stops no gate is left that nothing reads, and unless
  the clock stopped it no rule applies to any gate. `~Spent(circuit)` is about the
  initial circuit: it has no unread gates, which the clock may leave in place when it
  strikes before the first `cleanup()`. `CleanFixpointCorrect` is the same for the
  fixpoint and needs nothing of the initial circuit.

`CleanInv` carries the second: a gate that the pass is done with, and that no rule
applied to, has to be remembered as such although `changed_circuit` is overwritten
at each gate (`PassInv`), and the gates that `cleanup()` has passed are read, and not below
those to come, which therefore are not their readers (`CleanupInv`).

`Room` says that nine addresses are free (`Spare(circuit) >= 9`), which is what one
call of `use_theorems()` may need at most: memory is not modelled as running out.
`StateOK` becomes inductive with `RewriteInv` (the snapshot of the gates that the
pass still has to visit has only gates that are present or were merged away);
`OrderInv` and `FunctionInv` add that the circuit is acyclic and that its *behaviour*, the set of
pairs of an input and the outputs, is the one at the start, which unlike
`SameFunction` can be carried from step to step.

The search through cascades and trees replaces a gate that may be far below the
one that `use_theorems()` was called for, by a node of another value: it is right
only as a whole. `Place` says where a call of the search is. In a cascade of XORs, `a`
is the end of a line of gates (`Thread`) that begins at a pin of `g`, each read by the
one before it and by nothing else, which `transform_rek` makes sure of: it stops at
an XOR with two consumers. When the end of the line loses a fanin, the values along
the line flip together and `g` flips back (`FlipKeeps`, `SameInCascade`,
`NegatedInCascade`). In trees of ORs, `a` implies one pin of `g`, and `parent`, whose fanin is
replaced, is the end of such a line below the other pin; what `parent` computes is
free while that pin is true, because `g` is true as well (`MatchedInTree`).

Two hypotheses remain, and both are about circuits on which the code does go wrong:

* `TreesApart`: the search does not ask whether a gate of a *tree of ORs* has other
  consumers. Finding 1 is what becomes of a shared one, so the function is kept only
  where the tree is `g`'s own, or the match replaces `g` itself. Nothing of this is
  needed for `NoCycle`.
* `HashingApart`: the search may leave a gate that is in use with two equal fanins,
  which structural hashing mistakes (see section 5). The lemmas `SimpleHashable`
  and `FaninHashable` show that no other rule leaves one for it.

The three are not empty: with twenty addresses for gates instead of eleven and `Room`,
`HashingApart` and `TreesApart` as invariants in the place of its own, TLC finds no
error in the same 298237 states of `MCRewrite`. (The run itself has eleven, so that `Room`
does not hold in it; no behaviour of it uses more.)


The search is recursive in the code and a recursive function of a call counter in
`Theorems`. That such a function exists and what its value at each counter has in
common is an induction over the counter, and the existence of a valuation is one
over the depth of a gate: both are proved with `Least` of `InductionFacts` (a
non-empty set of naturals has a least element), by looking at the least counter,
or the lowest gate, that would be wrong.

### Sweeping

The first half of `Minimizer_proofs`, for any well-formed acyclic initial circuits and
any number of simulation rounds:

* `TypeCorrect`, `InvCorrect`: `SpecSweep => []SweepTypeOK`, `SpecSweep => []Inv`;
* `MergesPreserve`: `SpecSweep => []SameFunction`: whatever the iteration merges, in
  any order, and wherever the clock stops it, every valuation of the original
  circuit is one of the present circuit and gives the outputs the same values;
* `LevelsStayRanked`: `SpecSweep => []Ranked`: the level map computed before the first
  merge orders the wires to the end, so no merge makes a cycle;
* `MinimalCorrect`: `SpecSweep => []Minimal`: an iteration that ends in time with nothing
  changed has left no two gates that are read and compute the same function;
* `CounterexamplesCorrect`: `SpecSweep => CounterexamplesAreNew`: the first change of an
  iteration is a new interpretation or a merge of two gates equal in all valuations.

`Inv` is `Intact /\ Fresh /\ NothingOverlooked`. `SameFunction` alone is not inductive: a gate is merged with a constant because
it is false in every valuation, which is the right merge only if the constant is
`ZERO_GATE`. `Intact` therefore carries the reason the code relies on: the first
stored interpretation, all inputs false, has split the bins before any is
processed (`AllFalse \in interpretations`, `Alike(b)`), a simulation for it
exists, so a bin with `ONE_GATE` holds only gates that are true there and never
one that is constantly false. And it carries `level[representative] <= level[g]`
for the rest of a regular bin, from which `Ranked` follows. `Fresh` says that, until
the first change, nodes are compared that every stored interpretation leaves equal,
so a counterexample is none of these. `NothingOverlooked` says where two equal gates
can be: in one bin, in what is being compared, or both merged into a constant.

### `minimize()` as a whole

The second half of `Minimizer_proofs` is about any number of iterations. `WholeInv` has
what both halves keep (`Shape`: the circuit is well-formed and acyclic, the
stored interpretations contain the first), and the invariant of each half while
it is at work: `CleanInv` of rewriting, `Inv` of the sweep, whose merges leave
what rewriting needs, and the other way round.

* `FitForIterationCorrect`: `SpecMinimizer /\ []Room /\ []HashingApart =>
  []FitForIteration`: `simulate()`'s assertion holds at the beginning of each iteration;
* `WholeMinimalCorrect`: under the same, `[]Minimal`: what is returned in time has no two
  equal gates that are read;
* `WholeFunctionCorrect`: with `[]TreesApart`, `[]FunctionPreserved`, through rewriting, merges
  and cleanups;
* `OptimizerImplemented`: under the same three, `O!Safety`: the initial states of
  `minimize()` map to initial states of `Optimizer`, every step to a step or a stutter.

`CleanEnd` is a property of rewriting and not of `minimize()`: an iteration that merged
nothing but constants does not count as a change, so the last one may leave gates that
nothing reads (section 5).

### Linking and the parallel graph

`BackEnd_proofs` proves of `Linker`, for any circuits, call sites and callees (cyclic calls
included: then `link()` does not return, but what it has done is right):

* `CompleteCorrect`: `Spec => []Complete`: in every state each call of each body of
  each circuit was followed, or it is one its circuit still has to merge;
* `LinkCompleteCorrect`: `Spec => []LinkComplete`: when `link()` returns, the main
  circuit has the body of every call in every body it has.

`Complete` is not inductive: a merge takes all bodies of the callee, and is
complete only if the callee has no calls left at that moment. The code relies on
the recursion for it. The invariant `IInv` therefore has the stack: `Chain` (each
frame is about the circuit that the frame below calls), `Linked` (when a frame
is between its recursive call and its merge, and is on top, its callee has no
calls left), `Finished` (a linked circuit outside of the stack keeps none) and
`OwnBody` (a circuit's own body is in it). The assumption is `LinkerAssumption`.

and of `ParallelGraph`, for every circuit whose elements can be ranked and
every order of the three searches:

* `OrderedCorrect`: `SpecGraph => []Ordered`: no block waits for one that runs after it;
* `InputsListedCorrect`: `SpecGraph => []InputsListed`: the blocks that a block waits for
  are those of the elements that it reads;
* `CallsOnceCorrect`: the assertion of `add_call_block`, that a call has no block
  yet, holds whenever it is evaluated;
* `DepthCoveredCorrect`: `SpecGraph => []DepthCovered`: the depths of the blocks on some way
  to a block add up to no less than the depth recorded for each element in it.

The invariant `GraphInv` has, for the first search, that the depths recorded so far
grow along every wire that both ends of were visited (`Deepening`); for the second,
that two elements that share an influence are in the same class (`Influence`);
what each phase has finished before the next begins (`Phases`); that an element
has its block exactly when it was placed (`Placement`); and what the blocks have
recorded of each other (`Records`). `CoverInv` is for the depths: an element was driven as
deep as recorded by one of its fanins (`Driven`), the blocks know the drivers of what
is in them (`Filled`), and the height of an element's block covers it (`Covered`);
`LongestBounds` is the fact about longest ways that it needs. The assumption is
`ParallelAssumption`.

### update_blocks()

The last part of `Analyses_proofs`, for any number of blocks, any lists of fanouts and any
function whose start block has one (`BlockAssumption`):

* `GraphKeptAlways`: `SpecBlocks => []GraphKept`: no block that the start block reaches
  is erased, it keeps its fanouts, and there is one exit;
* `BackEdgesCorrect`: `SpecBlocks => []BackEdgesBreakCycles`: a graph is left acyclic by
  taking out the edges that were marked, and each of these closes a cycle.

`BlocksInv` is the invariant. A block is erased when no block that is left has an edge to
it, although blocks that were passed in the list may lose their last edge later; it is
not live, since the live blocks are the least set closed under edges. For the walk,
`VisitInv` has which marks are set (`OneByOne`), that an edge of a finished block leads to a
marked one (`NothingMissed`), the order in which the blocks were left, which falls along
all edges but the back edges (`LeftInOrder`: there is no cycle without one), and for every
back edge a path from its target to its source through the activations of `visit()`
that were open when it was found (`BackCloses`).

### Dominators and control dependence

`Analyses_proofs`, for any number of blocks, any graph (irreducible ones too) and any order of
the fanouts:

* `LookupsCorrect`: `SpecDominators => [](PredecessorVisited /\ Climbs)`: what
  `compute_idoms()` takes for granted when it follows `idom`;
* `DominatorTreeCorrect`: `SpecDominators => []TreeIsDominance`: when the passes end, the
  ancestors of a block in the tree are its dominators;
* `ControlDependenceCorrect`: `SpecControl => []IsFerrante` (with `TreeIsDominance`,
  `NeverPastTheRoot` and the types).

In the middle of a pass the tree is right for no block. What holds in every state
is one-sided and local: a dominator of a block other than itself dominates its present
`idom` (`TreeOK`), so no pass loses one (`PassInv` follows the two walkers of
`common_predecessor`). When a pass changes nothing, every block's `idom` lies on the
chains of all its predecessors, and `FixpointIsDominance` shows that then nothing
but dominators is on the chain of a block. `ControlInv` says of each branch that was
done that its edges are there and of every edge that it is one of the definition's (`Passed`):
`DependenceInTree` is the fact that control dependence is a stretch of the tree,
from the fanout of a branch up to the branch's own dominator. The assumptions are
`DominatorsAssumption` and `ControlAssumption`.

### The front end

`FrontEnd_proofs`, for every program of any number of AND, OR and XOR operations, any inputs
and outputs and any width of a `_Bool` (`CreatorAssumption`):

* `SameAsProgramCorrect`: `Spec => []SameAsProgram`: what an operation is folded to has
  the operation's value, and in the end the circuit computes what the program
  assigns;
* `ConvertedOnceCorrect`: `Spec => []ConvertedOnce`: in every state, also while
  activations of `convert_node()` are open, no node has two gates, and no gate but
  `ZERO` has two NOT gates.

`IInv` is the invariant. `StackOK` says of each open activation that it is for a
literal that the one below waits for, and that the variables fall from one to the
next: a node reads earlier nodes (`GraphOK`), so no literal is asked for while it is
being converted. `CircuitOK` says that only complete gates are read and that these
can be ordered. `Meaning` is about values: for each input and each function that
solves the gates' equations, what the map has for a literal, what an open gate
was connected to so far and what the outputs read has the value of the
literal. `NotsOK` has a witness, the literal for which each NOT gate was made, and
`NodesOK` bounds the gates by the nodes that were converted. The functions that
give a variable and a gate their values are recursive; that they satisfy their
equations is `Solution` of `InductionFacts`, by looking at the largest part of the
graph on which there is a solution.

That the conversion never reaches an input without a gate, and so never gets stuck,
is left to the deadlock check of `MCFrontEnd`.

### What stays with TLC

* All liveness (`Termination` of each module, `MCMinimizer`'s and the others'):
  TLAPS does not treat fairness with `ENABLED`.
* `Merge`, `ReachingDefs` and the blocks of the lowering. The first two have RECURSIVE operators, for
  which the provers lose arithmetic; the arithmetic of the blocks is an
  induction over the width of the operands, which they do not do.
* `InputCombiners` and `CircuitConverter` (`WiresRight`, `NoInputConverted`), for which no
  inductive invariant was written.
* `CircuitFile`: what its counting of pins comes to is an induction over the sequences
  of gates and of widths that both sides fold.

The assumptions on constants are named in the modules that declare them
(`NetlistAssumption`, `MinimizerAssumption`, `SweepAssumption`, `GraphAssumption`, `LinkerAssumption`,
`ParallelAssumption`, `DominatorsAssumption`, `ControlAssumption`, `BlockAssumption`, `CreatorAssumption`); TLC evaluates
each in the runs of its component.

## 5. Findings

1. **`transform_rek` on a shared tree** (`libcircuit/simple_circuit_theorems.cpp:886`, run
   `MCRewriteShared`). The search through a tree of equal operators replaces the
   inner gate it has reached, for all of its readers. XOR trees are only
   entered through gates with one fanout; AND and OR trees are not. With the
   inner OR of `OR(OR(z, NOT x), x)` read elsewhere, that reader's function
   changes.
2. **A constantly true gate** (`libcircuit/simple_circuit.cpp:806`, run
   `MCMinimizerTrue`). Gates in the bin of `ONE_GATE` are asked whether they are
   constantly *false*. A tautology that no rule recognises, such as
   `OR(y, NOT(AND(x, y)))`, is answered by a counterexample that tells nothing
   apart and asks for another iteration: without a time limit `minimize()` does
   not return, with one it uses all of it.

3. **A combiner of another call** (`libcircuit/simple_circuit_merge.cpp:31`, run
   `MCMergeConstants`). `can_reuse_combiner()` asks only whether the drivers of all
   bits have the same first COMBINE reader, not which bits its pins read. After a
   call with a constant argument both ONE and ZERO feed the combiner made for it,
   and the next call with a constant is given the same one.
4. **A killing store in a do-while loop** (`cbmc-gc/ir/reaching_definitions.cpp:137`,
   run `MCReachingDefsDoWhile`). `add_killing_definition()` counts it as a change
   that it takes out a definition, also the one that the same store put in on the
   visit before. The block is its own successor, reports a change at every visit
   and never leaves the work list.
5. **Bits in another order** (`src/aby-hycc/circuit_converter.cpp:59`, run
   `MCInputCombiners`). The comment above says that a combiner can be replaced
   iff its fanins are in the order of the variable's inputs. The code checks that
   as many inputs in a row as the combiner has fanins are read by it alone, not
   where. A two-bit argument with the bits exchanged is replaced by an input with
   the bits in place.

Seen while modelling and not a finding of a run:

* `libcircuit/simple_circuit_rewriting_old.cpp:2305-2335`: structural hashing looks for
  a twin among the readers of the first fanin, and tells a twin by the fanins that
  are left; when both fanins of the gate are the same gate, every other reader with
  that operator counts as a twin. The simple rules normally replace a gate with
  equal fanins before hashing sees it, but the search through a tree, in the same
  call, can make them equal: with `a = OR(1, 2)`, `b = OR(1, 2)`, `x = OR(b, a)` and
  `g = OR(x, a)` the search replaces `x` by `a`, `g` becomes `OR(a, a)`, and hashing
  takes any other `h = OR(a, z)` for its twin. For `z = 3` the function changes, for
  `z = g` the circuit gets a cycle. It needs gates that earlier passes have not
  merged (`a` and `b` are twins) and is a hypothesis of the theorems of section 4
  (`HashingApart`); no document says that it cannot happen;
* `libcircuit/simple_circuit.cpp:807`: a merge in the constants bin is not counted
  as a change, so the last iteration may leave gates that nothing reads
  (`Minimal` speaks of gates that are read for this reason);
* `libcircuit/simple_circuit.cpp:282`: the copy constructor loses function calls;
  `Linker` shows that `link()` copes;
* `cbmc-gc/ir/reaching_definitions.cpp:340-346`: the definitions of the last visit
  are merged in again, so a load behind a loop may list a store that is always
  overwritten: `Sound` does not claim the converse;
* `cbmc-gc/ir/reaching_definitions.cpp:154`: the pieces of a definition that was
  cut are appended where the vector is no longer sorted, and `merge_into` then
  repeats entries;
* `cbmc-gc/ir/reaching_definitions.h:73-80`: the intersection of two disjoint
  regions is `[0, 0]`, which is not empty;
* `cbmc-gc/boolean_expr_lowering.cpp:258`: `a - (-b)` with `--no-simplify`: the two
  signs are combined differently in the two code paths; `Sums` has the shapes
  that simplification leaves;
* `cbmc-gc/building_blocks/boolean_depth_optimized.cpp:62`: the prefix
  network is written for powers of two; the instances use no other width with
  it;
* `cbmc-gc/building_blocks/boolean_depth_optimized.cpp:719-727`: selector terms set
  the sign of an index literal where they should flip it; the indices of
  `MCFrontEnd` are unnegated literals;
* `libcircuit/simple_circuit_file.cpp:566`: `read_var_data()` shifts an `int`, so a
  CONST value with bit 31 set is sign-extended and one of more than 32 bits is
  not read as it was written; the model's values are small;
* `libcircuit/simulation.cpp:60` and `:88`: AND reads its first fanin twice and NEG
  is `!`; `libcircuit/simple_circuit_evaluate.cpp:118` puts both operands in
  `fanin0`. The first has no caller, the second only one in the clustering;
* `src/aby-hycc/hycc_adapter.cpp:207-233`: in a main circuit compiled as
  `arith.circ`, ONE gates and one-bit outputs are tagged arithmetic, and
  `boolean_circuit()` then asserts; `LinkedFamilies` has no such main;
* `src/aby-hycc/circuit_converter.h:411`: the wire of a conversion is stored in a
  copy of the map's entry, so it is made again for each reader: more gates, the
  same values;
* `src/aby-hycc/circuit_converter.cpp:101-103`: `insert` invalidates `input_it`,
  which the loop goes on with; it works when the vector keeps its place, which
  it does here, since more was erased than is inserted;
* `cbmc-gc/circuit_creator_default.cpp:97`: the OUTPUT gate of a `_Bool` is put in
  the map, so a later output of the same literal reads an OUTPUT gate; the
  outputs of `MCFrontEnd` are integers.

## 6. Not modelled

LUT gates, SPLIT and COMBINE gates in `CircuitGraph` and `Netlist`, arithmetic
gates, named variables, copy and move of circuits, the splicing of the two gate
lists in a merge, the writers of the parallel graph, ABY itself and the options,
inputs and results of the adapter, NEG and LUT gates, which it rejects, names and
layout in circuit files, reaching definitions across
calls and pointers, the transitive closure of the dependence graph, and the
components marked so in section 1. Simulation, the other file formats and
`circuit-utils` are sequential code whose errors an example shows; the
experimental passes are not reached by the build. CBMC and Catch, which are most
of the repository's lines, are other projects' code, and so are the programs in
`regression/` and `examples/`: what is modelled is a small share of all lines for
that reason. The SAT solver and the random generator are nondeterministic choices
over what they may answer. Memory is addresses that are free or not; exhaustion
is not modelled. Logging and `.dot` dumps are left out.

## 7. Plan

Done, in this order because an error in the earlier ones changes what a compiled
program computes: `Netlist`, `Theorems`, `Rewrite`, `Sweep`, `Minimizer`,
`CircuitGraph`, `Linker` and `Merge`, `ParallelGraph`, the analyses, the blocks,
`Lowering`, `CircuitCreator`, `InputCombiners` and `CircuitConverter`,
`CircuitFile`; the proofs of section 4, in the order in which they are there.

What would come next:

1. The tags that `update_sharing_kind` gives, in one model with `link()`.
2. `CircuitGraph` extended with SPLIT and COMBINE (several pins).
3. `ReachingDefs` across calls, with the points-to sets as a parameter.

Proofs that would come next:

1. `ReadBack` of `CircuitFile`, from an invariant about the numbers that both sides
   have given out so far.
2. `MeaningKept` of `Merge`, with `Value` as a function of the depth of a wire.
