--------------------------- MODULE ParallelGraph ---------------------------
(***************************************************************************)
(* build_parallel_execution_graph: the gates of a circuit are put into     *)
(* blocks that can run in parallel.  First every gate gets its non-linear  *)
(* depth, then the depths of the closest outputs that it influences, and   *)
(* then a block: gates with the same depth of the closest input and the    *)
(* same output depths share one, a function call is a block of its own,    *)
(* inputs and constants are in the root block, outputs in the leaf block.  *)
(*                                                                         *)
(* The code walks the circuit in three memoised depth-first searches.      *)
(* Here an element is handled when everything that it waits for was, which *)
(* allows every order that a search can have.                              *)
(***************************************************************************)
EXTENDS Integers, FiniteSets, FiniteSetsExt

CONSTANTS
  Element,            \* the gates of a circuit, INPUT and OUTPUT gates too
  FunctionCall,       \* its function calls
  ParallelCircuits,   \* op, fanin and call of every element
  NoCall, Infinity

Linear    == {"XOR", "ONE"}
NonLinear == {"AND"}
Op == Linear \cup NonLinear \cup {"INPUT", "OUTPUT"}

\* What the constants have to be.
ParallelAssumption ==
  /\ NoCall \notin FunctionCall /\ Infinity \in Nat /\ IsFiniteSet(Element)
  /\ \A c \in ParallelCircuits :
       /\ c.op \in [Element -> Op] /\ c.fanin \in [Element -> SUBSET Element]
       /\ c.call \in [Element -> FunctionCall \cup {NoCall}]
       /\ \A e \in Element :
            /\ \A f \in c.fanin[e] : c.op[f] # "OUTPUT"
            /\ c.op[e] \notin {"INPUT", "OUTPUT"} => c.call[e] = NoCall
            /\ c.op[e] = "INPUT" => c.fanin[e] = {}

VARIABLES
  circuit,
  needed,      \* what the searches from the circuit's outputs reach
  phase,
  depth,       \* gate_depths
  outputs,     \* gate_closest_outputs
  block,       \* gate_blocks: the block of every element that has one
  local,       \* m_local_gate_depths of all gate blocks
  fanins,      \* the blocks that a block waits for
  inputs,      \* the elements of other blocks that a block reads
  added        \* how often add_call_block was called for a call

graph_vars == <<circuit, needed, phase, depth, outputs, block, local, fanins, inputs, added>>

op(e)    == circuit.op[e]
fanin_of(e) == circuit.fanin[e]
Args(c)    == {e \in Element : op(e) = "OUTPUT" /\ circuit.call[e] = c}
Returns(c) == {e \in Element : op(e) = "INPUT" /\ circuit.call[e] = c}
IsReturn(e) == op(e) = "INPUT" /\ circuit.call[e] # NoCall
CircuitOutputs == {e \in Element : op(e) = "OUTPUT" /\ circuit.call[e] = NoCall}
IsGate(e) == op(e) \notin {"INPUT", "OUTPUT"}
Highest(S) == Max(S \cup {0})
Put(f, S, v) == [e \in DOMAIN f \cup S |-> IF e \in S THEN v ELSE f[e]]

\* What an element depends on: the return of a call on all its arguments.
DependsOn(e) == IF IsReturn(e) THEN Args(circuit.call[e]) ELSE fanin_of(e)
Closed(S) == CircuitOutputs \subseteq S /\ \A e \in S : DependsOn(e) \subseteq S
Reached ==
  LET reach[n \in Nat] ==
        IF n = 0 THEN CircuitOutputs
        ELSE LET before == reach[n - 1] IN before \cup UNION {DependsOn(e) : e \in before}
  IN  Element \cap reach[Cardinality(Element)]

\* A block is named by its kind and its key.
Root == <<"root", 0, {Infinity}>>
Leaf == <<"leaf", 0, {Infinity}>>
CallBlock(c, d) == <<"call", d, {c}>>
GateBlock(d, S) == <<"gate", d, S>>
InputDepth(b) == b[2]

InitGraph ==
  /\ circuit \in ParallelCircuits
  /\ needed = Reached /\ Closed(needed)
  /\ phase = "depths"
  /\ depth = << >> /\ outputs = << >>
  /\ block = << >> /\ local = << >> /\ fanins = << >> /\ inputs = << >>
  /\ added = [c \in FunctionCall |-> 0]

NonLinearity(e) == IF op(e) \in NonLinear THEN 1 ELSE 0

----------------------------------------------------------------------------
(* compute_gate_depths.                                                    *)

\* Inputs of the circuit have depth 0; any other element that of its deepest
\* fanin, and one more when it is not linear.
Depth(e) ==
  /\ phase = "depths" /\ e \in needed \ DOMAIN depth /\ ~IsReturn(e)
  /\ fanin_of(e) \subseteq DOMAIN depth
  /\ depth' = Put(depth, {e}, Highest({depth[f] : f \in fanin_of(e)}) + NonLinearity(e))
  /\ UNCHANGED <<circuit, needed, phase, outputs, block, local, fanins, inputs, added>>

\* Fault: a call has the depth of its arguments.
DepthCall_flat(c) ==
  /\ phase = "depths" /\ (Returns(c) \cap needed) \ DOMAIN depth # {}
  /\ Args(c) \subseteq DOMAIN depth
  /\ LET d == Highest({depth[o] : o \in Args(c)})
     IN  depth' = Put(Put(depth, Args(c), d), Returns(c), d)
  /\ UNCHANGED <<circuit, needed, phase, outputs, block, local, fanins, inputs, added>>

\* All arguments of a call get the largest of their depths, all returns one more.
DepthCall(c) ==
  /\ phase = "depths" /\ (Returns(c) \cap needed) \ DOMAIN depth # {}
  /\ Args(c) \subseteq DOMAIN depth
  /\ LET d == Highest({depth[o] : o \in Args(c)})
     IN  depth' = Put(Put(depth, Args(c), d), Returns(c), d + 1)
  /\ UNCHANGED <<circuit, needed, phase, outputs, block, local, fanins, inputs, added>>

DepthsDone ==
  /\ phase = "depths" /\ needed \subseteq DOMAIN depth
  /\ phase' = "outputs"
  /\ UNCHANGED <<circuit, needed, depth, outputs, block, local, fanins, inputs, added>>

----------------------------------------------------------------------------
(* assign_closest_output, for all gates from the roots on.                 *)

Fanouts(e) == {g \in Element : e \in fanin_of(g)}

\* The arguments of a call that no output needs have no depth.
OutputDepth(e) ==
  IF circuit.call[e] = NoCall THEN {Infinity}
  ELSE IF e \in DOMAIN depth THEN {depth[e]} ELSE {}

ClosestOutputs(e) ==
  /\ phase = "outputs" /\ e \notin DOMAIN outputs /\ Fanouts(e) \subseteq DOMAIN outputs
  /\ outputs' = Put(outputs, {e}, IF op(e) = "OUTPUT" THEN OutputDepth(e)
                                  ELSE UNION {outputs[g] : g \in Fanouts(e)})
  /\ UNCHANGED <<circuit, needed, phase, depth, block, local, fanins, inputs, added>>

OutputsDone ==
  /\ phase = "outputs" /\ DOMAIN outputs = Element
  /\ phase' = "blocks"
  /\ UNCHANGED <<circuit, needed, depth, outputs, block, local, fanins, inputs, added>>

----------------------------------------------------------------------------
(* assign_element_to_block.                                                *)

Placed == DOMAIN block
At(f, b) == IF b \in DOMAIN f THEN f[b] ELSE {}

\* Fault: depths inside a block are not added up.
Enter_flat(e, b) ==
  /\ block'  = Put(block, {e}, b)
  /\ fanins' = Put(fanins, {b}, At(fanins, b) \cup ({block[f] : f \in fanin_of(e)} \ {b}))
  /\ inputs' = Put(inputs, {b}, At(inputs, b) \cup {f \in fanin_of(e) : block[f] # b})
  /\ local'  = Put(local, {e}, NonLinearity(e))
\* add_fanin and add_element: in block b, element e reads what it reads.
Enter(e, b) ==
  LET inside == {f \in fanin_of(e) : block[f] = b}
  IN  /\ block'  = Put(block, {e}, b)
      /\ fanins' = Put(fanins, {b}, At(fanins, b) \cup ({block[f] : f \in fanin_of(e)} \ {b}))
      /\ inputs' = Put(inputs, {b}, At(inputs, b) \cup (fanin_of(e) \ inside))
      /\ local'  = Put(local, {e}, Highest({local[f] : f \in inside}) + NonLinearity(e))

PlaceInput(e) ==
  /\ phase = "blocks" /\ e \in needed \ Placed /\ op(e) = "INPUT" /\ ~IsReturn(e)
  /\ Enter(e, Root)
  /\ UNCHANGED <<circuit, needed, phase, depth, outputs, added>>

\* What drives the arguments, and the blocks that it is in.
Drivers(c) == UNION {fanin_of(o) : o \in Args(c)}

\* Fault: the block's inputs are forgotten.
PlaceCall_unread(c) ==
  /\ phase = "blocks" /\ (Returns(c) \cap needed) \ Placed # {}
  /\ Drivers(c) \subseteq Placed
  /\ \E e \in (Returns(c) \cap needed) \ Placed :
       LET b == CallBlock(c, depth[e])
       IN  /\ block'  = Put(block, Returns(c), b)
           /\ fanins' = Put(fanins, {b}, {block[f] : f \in Drivers(c)})
           /\ added'  = [added EXCEPT ![c] = @ + 1]
  /\ UNCHANGED <<circuit, needed, phase, depth, outputs, local, inputs>>

\* assign_input_to_block for a return: the call's block, with all returns.
PlaceCall(c) ==
  /\ phase = "blocks" /\ Drivers(c) \subseteq Placed
  /\ \E e \in (Returns(c) \cap needed) \ Placed :
       LET b == CallBlock(c, depth[e])
       IN  /\ block'  = Put(block, Returns(c), b)
           /\ fanins' = Put(fanins, {b}, {block[f] : f \in Drivers(c)})
           /\ inputs' = Put(inputs, {b}, Drivers(c))
           /\ added'  = [added EXCEPT ![c] = @ + 1]
  /\ UNCHANGED <<circuit, needed, phase, depth, outputs, local>>

\* assign_gate_to_block.
PlaceGate(e) ==
  /\ phase = "blocks" /\ e \in needed \ Placed /\ IsGate(e) /\ fanin_of(e) \subseteq Placed
  /\ Enter(e, IF fanin_of(e) = {} THEN Root
              ELSE GateBlock(Highest({InputDepth(block[f]) : f \in fanin_of(e)}), outputs[e]))
  /\ UNCHANGED <<circuit, needed, phase, depth, outputs, added>>

\* assign_output_to_block, for the outputs of the circuit.
PlaceOutput(e) ==
  /\ phase = "blocks" /\ e \in CircuitOutputs \ Placed /\ fanin_of(e) \subseteq Placed
  /\ Enter(e, Leaf)
  /\ UNCHANGED <<circuit, needed, phase, depth, outputs, added>>

NextGraph ==
  \/ DepthsDone \/ OutputsDone
  \/ \E e \in Element : \/ Depth(e) \/ ClosestOutputs(e)
                        \/ PlaceInput(e) \/ PlaceGate(e) \/ PlaceOutput(e)
  \/ \E c \in FunctionCall : DepthCall(c) \/ PlaceCall(c)

\* The three searches run in one thread until they are done.
SpecGraph == InitGraph /\ [][NextGraph]_graph_vars /\ WF_graph_vars(NextGraph)

----------------------------------------------------------------------------
(* Properties.                                                             *)

\* The types; and only what an output needs is put in a block.
GraphTypeOK ==
  /\ needed \subseteq Element
  /\ phase \in {"depths", "outputs", "blocks"}
  /\ DOMAIN depth \subseteq Element /\ \A e \in DOMAIN depth : depth[e] \in Nat
  /\ DOMAIN outputs \subseteq Element
  /\ \A e \in DOMAIN outputs : outputs[e] \subseteq Nat
  /\ Placed \subseteq needed \cup UNION {Returns(c) : c \in FunctionCall}
  /\ DOMAIN local \subseteq Placed /\ DOMAIN inputs \subseteq DOMAIN fanins

\* a can come before b in every schedule of the blocks: it is the root or b is
\* the leaf, or a reads less deep inputs; of two blocks with the same input
\* depth, a call comes before gates, and gates that reach more outputs come
\* before gates that reach fewer.
Before(a, b) ==
  /\ a # Leaf /\ b # Root
  /\ \/ a = Root \/ b = Leaf
     \/ InputDepth(a) < InputDepth(b)
     \/ /\ InputDepth(a) = InputDepth(b)
        /\ \/ a[1] = "call" /\ b[1] = "gate"
           \/ a[1] = "gate" /\ b[1] = "gate" /\ b[3] \subseteq a[3] /\ b[3] # a[3]

\* The blocks form no cycle: a block comes after all that it waits for.
Ordered == \A b \in DOMAIN fanins : \A a \in fanins[b] : Before(a, b)

\* add_call_block's assertion: one block for each call.
CallsOnce == \A c \in FunctionCall : added[c] <= 1

\* The writers of the graph look up every fanin of a block in a table of the
\* elements that it reads by their blocks: none is missing there, and no block
\* is read that it does not wait for.
InputsListed == \A b \in DOMAIN fanins : fanins[b] = {block[f] : f \in At(inputs, b)}

Height(b) ==
  IF b[1] = "call" THEN 1 ELSE Highest({local[e] : e \in {x \in Placed : block[x] = b}})

\* The heights of the blocks that have to run before b, on the longest way.
Longest ==
  LET longest[b \in DOMAIN fanins] ==
        Highest({longest[a] + Height(a) : a \in fanins[b] \cap DOMAIN fanins})
  IN  longest

\* Adding up the heights of the blocks on the way to an element, and one for a
\* call, never yields less than the element's depth in the circuit.
DepthCovered ==
  phase = "blocks" => \A e \in DOMAIN local : depth[e] <= Longest[block[e]] + local[e]

\* Every output of the circuit gets its place: no search waits for something
\* that it does not visit, and no depth is missing that is looked up.
AllPlaced == <>(CircuitOutputs \subseteq Placed)
=============================================================================
