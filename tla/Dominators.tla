----------------------------- MODULE Dominators -----------------------------
(***************************************************************************)
(* compute_idoms() of cbmc-gc/ir/dominators.h with the post-order that it  *)
(* works on.  The graph is given in the direction of the walk: for         *)
(* DominatorFuncs the root is the start block and next[b] are the fanouts *)
(* of b, for PostDominatorFuncs it is the exit block and the fanins.  The  *)
(* edges of a block and its predecessors are taken in any order.           *)
(***************************************************************************)
EXTENDS Naturals, FiniteSets, Sequences

CONSTANTS Block,
          Root,   \* the entry of the walk
          Graphs  \* the graphs [Block -> SUBSET Block]

VARIABLES phase,    \* "order", "pass", "block", "meet", "done"
          next,     \* the graph
          marks,    \* the blocks that post_order_visit() was called for
          path,     \* its activations
          order,    \* blocks_by_post_order
          idom,     \* po_to_idom, 0 where the code has -1
          bi,       \* the position of the block in work
          preds,    \* its predecessors that are still to be looked at
          newIdom,  \* new_idom, 0 where the code has -1
          b1, b2,   \* the two walkers of common_predecessor()
          changed

dominator_vars == <<phase, next, marks, path, order, idom, bi, preds, newIdom, b1, b2, changed>>

N == Cardinality(Block)
Preds(b) == {p \in Block : b \in next[p]}
Pos(b) == CHOOSE i \in 1..Len(order) : order[i] = b  \* label_to_order

\* What can be reached from A by a relation that r gives as a function: in as
\* many steps as there are blocks.
Closure(r, A) ==
  LET F[i \in 0..N] == IF i = 0 THEN A ELSE LET R == F[i - 1] IN R \cup UNION {r[x] : x \in R}
  IN  F[N]

\* The blocks a walk from b reaches that does not enter the blocks of S.
Reach(g, b, S) == Closure([x \in Block |-> g[x] \ S], {b} \ S)

\* "Requires single entry/exit": and that it reaches all the blocks, or
\* po_to_idom is longer than blocks_by_post_order.
DominatorsAssumption ==
  /\ IsFiniteSet(Block) /\ Root \in Block
  /\ \A g \in Graphs : g \in [Block -> SUBSET Block] /\ Reach(g, Root, {}) = Block

InitDominators ==
  /\ phase = "order" /\ next \in Graphs
  /\ marks = {Root} /\ path = <<Root>> /\ order = <<>>
  /\ idom = [i \in 1..N |-> 0]
  /\ bi = 0 /\ preds = {} /\ newIdom = 0 /\ b1 = 0 /\ b2 = 0 /\ changed = FALSE

Top == path[Len(path)]

\* post_order_visit(): into a fanout that is not marked ...
Visit(c) ==
  /\ phase = "order" /\ path # <<>>
  /\ c \in next[Top] \ marks
  /\ marks' = marks \cup {c}
  /\ path' = Append(path, c)
  /\ UNCHANGED <<phase, next, order, idom, bi, preds, newIdom, b1, b2, changed>>

\* Fault: the order is that of the reverse post-order.
Listed_reversed == <<Top>> \o order

\* ... and when there is none, the block is next in the order.
Listed == Append(order, Top)

Leave ==
  /\ phase = "order" /\ path # <<>>
  /\ next[Top] \subseteq marks
  /\ order' = Listed
  /\ path' = SubSeq(path, 1, Len(path) - 1)
  /\ UNCHANGED <<phase, next, marks, idom, bi, preds, newIdom, b1, b2, changed>>

\* The root dominates itself; the other idoms are undefined.
RootIdom ==
  /\ phase = "order" /\ path = <<>>
  /\ idom' = [idom EXCEPT ![Pos(Root)] = Pos(Root)]
  /\ changed' = TRUE /\ phase' = "pass" /\ bi' = 0
  /\ UNCHANGED <<next, marks, path, order, preds, newIdom, b1, b2>>

\* Another pass in reverse post-order, as long as the last one changed an idom.
Pass ==
  /\ phase = "pass" /\ bi = 0 /\ changed
  /\ changed' = FALSE /\ bi' = Len(order)
  /\ UNCHANGED <<phase, next, marks, path, order, idom, preds, newIdom, b1, b2>>

\* Ignore the root.
SkipRoot ==
  /\ phase = "pass" /\ bi # 0 /\ bi = Pos(Root)
  /\ bi' = bi - 1
  /\ UNCHANGED <<phase, next, marks, path, order, idom, preds, newIdom, b1, b2, changed>>

Begin ==
  /\ phase = "pass" /\ bi # 0 /\ bi # Pos(Root)
  /\ phase' = "block" /\ preds' = Preds(order[bi]) /\ newIdom' = 0
  /\ UNCHANGED <<next, marks, path, order, idom, bi, b1, b2, changed>>

\* A predecessor without an idom has not been visited: it is left out.
Unvisited(p) ==
  /\ phase = "block" /\ p \in preds /\ idom[Pos(p)] = 0
  /\ preds' = preds \ {p}
  /\ UNCHANGED <<phase, next, marks, path, order, idom, bi, newIdom, b1, b2, changed>>

First(p) ==
  /\ phase = "block" /\ p \in preds /\ idom[Pos(p)] # 0 /\ newIdom = 0
  /\ newIdom' = Pos(p) /\ preds' = preds \ {p}
  /\ UNCHANGED <<phase, next, marks, path, order, idom, bi, b1, b2, changed>>

Further(p) ==
  /\ phase = "block" /\ p \in preds /\ idom[Pos(p)] # 0 /\ newIdom # 0
  /\ b1' = Pos(p) /\ b2' = newIdom /\ preds' = preds \ {p}
  /\ phase' = "meet"
  /\ UNCHANGED <<next, marks, path, order, idom, bi, newIdom, changed>>

\* Fault: the comparison is the wrong way round.
Climbed_higher(b, other) == IF b > other THEN idom[b] ELSE b

\* The walker that is lower in the order goes to its immediate dominator.
Climbed(b, other) == IF b < other THEN idom[b] ELSE b

Climb ==
  /\ phase = "meet" /\ b1 # b2
  /\ b1' = Climbed(b1, b2) /\ b2' = Climbed(b2, b1)
  /\ UNCHANGED <<phase, next, marks, path, order, idom, bi, preds, newIdom, changed>>

Met ==
  /\ phase = "meet" /\ b1 = b2
  /\ newIdom' = b1 /\ b1' = 0 /\ b2' = 0 /\ phase' = "block"
  /\ UNCHANGED <<next, marks, path, order, idom, bi, preds, changed>>

\* Fault: a change is not noticed.
Changed_never == FALSE

Changed == idom[bi] # newIdom

\* Behind assert(new_idom != -1).
End ==
  /\ phase = "block" /\ preds = {} /\ newIdom # 0
  /\ idom' = [idom EXCEPT ![bi] = newIdom]
  /\ changed' = (changed \/ Changed)
  /\ bi' = bi - 1 /\ phase' = "pass" /\ newIdom' = 0
  /\ UNCHANGED <<next, marks, path, order, preds, b1, b2>>

Done ==
  /\ phase = "pass" /\ bi = 0 /\ ~changed
  /\ phase' = "done"
  /\ UNCHANGED <<next, marks, path, order, idom, bi, preds, newIdom, b1, b2, changed>>

NextDominators ==
  \/ \E c \in Block : Visit(c) \/ Unvisited(c) \/ First(c) \/ Further(c)
  \/ Leave \/ RootIdom \/ Pass \/ SkipRoot \/ Begin \/ Climb \/ Met \/ End \/ Done

SpecDominators ==
  InitDominators /\ [][NextDominators]_dominator_vars /\ WF_dominator_vars(NextDominators)

-----------------------------------------------------------------------------
(* Properties                                                              *)

DominatorsTypeOK ==
  /\ phase \in {"order", "pass", "block", "meet", "done"}
  /\ next \in [Block -> SUBSET Block] /\ marks \subseteq Block
  /\ path \in Seq(Block) /\ order \in Seq(Block)
  /\ idom \in [1..N -> 0..N] /\ bi \in 0..N /\ preds \subseteq Block
  /\ newIdom \in 0..N /\ b1 \in 0..N /\ b2 \in 0..N /\ changed \in BOOLEAN

\* assert(new_idom != -1): "At least one predecesor must have been visited
\* already", in the first pass and in all others, whatever the order of edges.
PredecessorVisited == phase = "block" /\ preds = {} => newIdom # 0

\* The walkers of common_predecessor() only read idoms that are defined and lie
\* above them, so that they meet.
Climbs ==
  /\ \A i \in 1..N : idom[i] \in {0} \cup (i + 1 .. N) \/ (i = N /\ idom[i] = N)
  /\ phase = "meet" => b1 # 0 /\ b2 # 0 /\ idom[b1] # 0 /\ idom[b2] # 0

\* is_dominated_by(): the dominators of a block are those on its chain of idoms.
Chain(i) == Closure([j \in 1..N |-> {idom[j]} \ {0}], {i})

Dominates(d, b) == b \notin Reach(next, Root, {d})

\* Between two passes no dominator was ever lost: the chains only shrink
\* towards the dominators, however the blocks of a loop were visited.
NoDominatorLost ==
  phase = "pass" =>
    \A b, d \in Block : idom[Pos(b)] # 0 /\ Dominates(d, b) => Pos(d) \in Chain(Pos(b))

\* In the end the tree tells that d dominates b iff no path from the root to b
\* avoids d.
TreeIsDominance ==
  /\ phase = "done" => \A b, d \in Block : Pos(d) \in Chain(Pos(b)) <=> Dominates(d, b)
  /\ NoDominatorLost
=============================================================================
