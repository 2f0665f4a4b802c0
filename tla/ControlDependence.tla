------------------------- MODULE ControlDependence -------------------------
(***************************************************************************)
(* The control dependencies that create_pdg() of                           *)
(* cbmc-gc/ir/program_dependence_graph.cpp adds to the program dependence  *)
(* graph: from each target of a branch up the tree of post-dominators.     *)
(* The instructions of a block all get the same dependencies, so that a    *)
(* block stands for them, and for its terminator as what they depend on.   *)
(* The tree is what Dominators computes before, from the exit block along  *)
(* the fanins.                                                             *)
(***************************************************************************)
EXTENDS Dominators, FiniteSetsExt

CONSTANTS Start,
          Entry,     \* the entry node of the graph
          NoBlock    \* nullptr

VARIABLES todo,      \* the branch blocks still to be handled
          control,   \* control_node: a branch block, Entry, or NoBlock before and between
          targets,   \* the targets of the branch still to be walked from
          start, end, \* of add_control_edges()
          deps       \* <<y, x>>: the instructions of y depend on x

own          == <<todo, control, targets, start, end, deps>>
control_vars == <<dominator_vars, own>>

\* PostDominatorFuncs: the walk starts at exit_block() and goes along the fanins.
Exit        == Root
Reversed(g) == [b \in Block |-> {p \in Block : b \in g[p]}]
Fanouts     == Reversed(next)

\* What the constants have to be: the blocks are numbers, in the order of
\* basic_blocks(), all are reachable, and the exit alone has no fanouts.
ControlAssumption ==
  /\ DominatorsAssumption
  /\ Block \subseteq Nat /\ Start \in Block /\ Entry \notin Block /\ NoBlock \notin Block
  /\ Entry # NoBlock
  /\ \A g \in Graphs : LET f == Reversed(g) IN
       Reach(f, Start, {}) = Block /\ \A b \in Block : f[b] = {} <=> b = Exit

\* Which blocks are on every path from a block to the exit.
PostDominators(g) == [b \in Block |-> {d \in Block : Exit \notin Reach(g, b, {d})}]

\* The tree made of po_to_idom, with nullptr for the root.
get_idom(b) == IF b = Exit THEN NoBlock ELSE order[idom[Pos(b)]]

Branches(g) == {b \in Block : Cardinality(g[b]) > 1}

InitControl ==
  /\ InitDominators
  /\ todo = Branches(Fanouts)
  /\ control = NoBlock /\ targets = {} /\ start = NoBlock /\ end = NoBlock
  /\ deps = {}

\* create_pdg() computes the tree first.
PostDominatorTree == NextDominators /\ UNCHANGED own

\* Fault: the walks of a branch go on to the root of the tree.
Until_root(b) == NoBlock

\* No block behind the post-dominator of the branch depends on it.
Until(b) == get_idom(b)

\* create_immediate_control_dependencies() for one of the branches.
Branch(b) ==
  /\ control = NoBlock /\ todo # {} /\ b = Min(todo)
  /\ todo' = todo \ {b}
  /\ control' = b /\ targets' = Fanouts[b] /\ end' = Until(b) /\ start' = Until(b)
  /\ UNCHANGED deps

More == start # end

From(t) == t

Edge(t) ==
  /\ control # NoBlock /\ ~More /\ t \in targets
  /\ start' = From(t) /\ targets' = targets \ {t}
  /\ UNCHANGED <<todo, control, end, deps>>

Walk ==
  /\ control # NoBlock /\ More /\ start # NoBlock
  /\ deps' = deps \cup {<<start, control>>}
  /\ start' = get_idom(start)
  /\ UNCHANGED <<todo, control, targets, end>>

EndBranch ==
  /\ control \notin {NoBlock, Entry} /\ ~More /\ targets = {}
  /\ control' = NoBlock /\ start' = NoBlock /\ end' = NoBlock
  /\ UNCHANGED <<todo, targets, deps>>

EntryEnd == NoBlock

\* When all the branches are done: the dependencies on the entry node.
EntryEdges ==
  /\ control = NoBlock /\ todo = {}
  /\ control' = Entry /\ start' = Start /\ end' = EntryEnd
  /\ UNCHANGED <<todo, targets, deps>>

Added == control = Entry /\ ~More

ControlEdges == \/ \E b \in Block : Branch(b) \/ Edge(b)
                \/ Walk \/ EndBranch \/ EntryEdges

NextControl ==
  \/ PostDominatorTree
  \/ phase = "done" /\ ControlEdges /\ UNCHANGED dominator_vars

SpecControl == InitControl /\ [][NextControl]_control_vars /\ WF_control_vars(NextControl)

-----------------------------------------------------------------------------
(* Properties                                                              *)

\* With the assertion of create_immediate_control_dependencies(): the block in
\* work does branch.
ControlTypeOK ==
  /\ DominatorsTypeOK
  /\ todo \subseteq Block /\ targets \subseteq Block
  /\ control \in {b \in Block : Cardinality(Fanouts[b]) > 1} \cup {Entry, NoBlock}
  /\ start \in Block \cup {NoBlock} /\ end \in Block \cup {NoBlock}
  /\ deps \subseteq Block \X (Block \cup {Entry})

\* The walk from the target of a branch meets the post-dominator of the branch
\* before it falls off the root of the tree, where get_idom() is nullptr.
NeverPastTheRoot == start = NoBlock => end = NoBlock

\* The definition of Ferrante, Ottenstein and Warren that the comment quotes:
\* "there exists a directed path P from X to Y with any Z in P (excluding X
\* and Y) post-dominated by Y", and "X is not post-dominated by Y", where no
\* block post-dominates itself.
ControlDependencies ==
  LET pd == PostDominators(Fanouts)
      Path(s, y) == Reach(Fanouts, s, {z \in Block \ {y} : y \notin pd[z]})
  IN  {e \in Block \X Block :
         LET y == e[1]  x == e[2]
         IN  y \notin pd[x] \ {x} /\ \E s \in Fanouts[x] : y \in Path(s, y)}

\* The edges from a block to those that it depends on.
Depends == [b \in Block |-> {d[2] : d \in {e \in deps : e[1] = b}} \ {Entry}]

\* What is added for the branches is that relation; and "all internal node in
\* the PDG are control-dependent on the entry node", directly or through branches.
IsFerrante ==
  Added =>
    /\ {d \in deps : d[2] # Entry} = ControlDependencies
    /\ \A b \in Block : \E x \in Closure(Depends, {b}) : <<x, Entry>> \in deps

\* All the walks end.
ControlTermination == <>Added
=============================================================================
