--------------------------- MODULE FunctionBlocks ---------------------------
(***************************************************************************)
(* Function::update_blocks() of cbmc-gc/ir/function.cpp, which brings the  *)
(* basic blocks of a converted function into the form the analyses need:   *)
(* one pass over the blocks erases those nothing jumps to, several exits   *)
(* are joined in a new exit block, and a depth-first walk from the start   *)
(* block tells the back edges from the others.                             *)
(***************************************************************************)
EXTENDS Naturals, FiniteSets, SequencesExt

CONSTANTS Created,    \* the blocks a conversion creates, in the order of m_blocks
          CommonExit, \* the block create_block() returns for a merged exit
          Functions   \* the control flow graphs: the fanouts of each block

StartBlock == 1

\* What the constants have to be.
BlockAssumption ==
    /\ Cardinality(Created) \in Nat /\ Created = 1..Cardinality(Created)
    /\ StartBlock \in Created /\ CommonExit \notin Created
    /\ \A f \in Functions : f \in [Created -> Seq(Created)]

VARIABLES pc,       \* "erase", "exits", "visit", "done"
          function, \* the graph before the call
          blocks,   \* m_blocks
          fanouts,  \* m_outgoing of each block, in order; m_incoming is its converse
          it,       \* position of the erasing pass
          exit,     \* m_exit_block, CommonExit also before it is set
          mark,     \* TraversalMark of each block
          visits,   \* the activations of compute_back_edges_visit(): block and next edge
          back      \* the edges <<block, index>> flagged as back edges

block_vars == <<pc, function, blocks, fanouts, it, exit, mark, visits, back>>

AllBlocks == Created \cup {CommonExit}
Fanins(b) == {c \in ToSet(blocks) : b \in ToSet(fanouts[c])}
Exits == {b \in ToSet(blocks) : fanouts[b] = <<>>}

InitBlocks ==
    /\ function \in Functions
    /\ fanouts = [b \in AllBlocks |-> IF b = CommonExit THEN <<>> ELSE function[b]]
    /\ blocks = [b \in Created |-> b]
    /\ pc = "erase" /\ it = 1 /\ exit = CommonExit
    /\ mark = [b \in AllBlocks |-> "NONE"] /\ visits = <<>> /\ back = {}

\* A block that nothing jumps to, other than the start block.
Excessive(b) == Fanins(b) = {} /\ b # StartBlock

\* The destructor of the block takes its edges out of their other ends.
Erase ==
    /\ pc = "erase" /\ it <= Len(blocks) /\ Excessive(blocks[it])
    /\ fanouts' = [fanouts EXCEPT ![blocks[it]] = <<>>]
    /\ blocks' = RemoveAt(blocks, it)
    /\ UNCHANGED <<pc, function, it, exit, mark, visits, back>>

Keep ==
    /\ pc = "erase" /\ it <= Len(blocks) /\ ~Excessive(blocks[it])
    /\ it' = it + 1
    /\ UNCHANGED <<pc, function, blocks, fanouts, exit, mark, visits, back>>

\* Fault: the new exit is only entered from the first of the exits.
JoinExits_first(E) == [b \in AllBlocks |-> IF b = Min(E) THEN <<CommonExit>> ELSE fanouts[b]]

\* Every exit jumps to the new one.
JoinExits(E) == [b \in AllBlocks |-> IF b \in E THEN <<CommonExit>> ELSE fanouts[b]]

\* A function without any exit fails the assertion: nothing follows.
SingleExit ==
    /\ pc = "erase" /\ it > Len(blocks)
    /\ Exits # {}
    /\ \/ Cardinality(Exits) = 1 /\ exit' \in Exits /\ UNCHANGED <<blocks, fanouts>>
       \/ /\ Cardinality(Exits) > 1
          /\ exit' = CommonExit
          /\ blocks' = Append(blocks, CommonExit)
          /\ fanouts' = JoinExits(Exits)
    /\ pc' = "visit"
    /\ visits' = <<[block |-> StartBlock, next |-> 1]>>
    /\ mark' = [mark EXCEPT ![StartBlock] = "TEMP"]
    /\ UNCHANGED <<function, it, back>>

Innermost == visits[Len(visits)]
Target == fanouts[Innermost.block][Innermost.next]
Advance == [visits EXCEPT ![Len(visits)].next = @ + 1]

\* Fault: a block reached before counts as a cycle, finished or not.
IsBackEdge_seen(b) == mark[b] \in {"TEMP", "PERM"}

\* The target is on the path: its visit returns true.
IsBackEdge(b) == mark[b] = "TEMP"

\* The next edge of the block leads to a block visited before ...
Return ==
    /\ pc = "visit" /\ visits # <<>> /\ Innermost.next <= Len(fanouts[Innermost.block])
    /\ mark[Target] # "NONE"
    /\ back' = IF IsBackEdge(Target) THEN back \cup {<<Innermost.block, Innermost.next>>} ELSE back
    /\ visits' = Advance
    /\ UNCHANGED <<pc, function, blocks, fanouts, it, exit, mark>>

\* ... or to a new one.
Descend ==
    /\ pc = "visit" /\ visits # <<>> /\ Innermost.next <= Len(fanouts[Innermost.block])
    /\ mark[Target] = "NONE"
    /\ mark' = [mark EXCEPT ![Target] = "TEMP"]
    /\ visits' = Append(Advance, [block |-> Target, next |-> 1])
    /\ UNCHANGED <<pc, function, blocks, fanouts, it, exit, back>>

LeaveBlock ==
    /\ pc = "visit" /\ visits # <<>> /\ Innermost.next > Len(fanouts[Innermost.block])
    /\ mark' = [mark EXCEPT ![Innermost.block] = "PERM"]
    /\ visits' = Front(visits)
    /\ UNCHANGED <<pc, function, blocks, fanouts, it, exit, back>>

Finish ==
    /\ pc = "visit" /\ visits = <<>>
    /\ pc' = "done"
    /\ UNCHANGED <<function, blocks, fanouts, it, exit, mark, visits, back>>

NextBlocks == Erase \/ Keep \/ SingleExit \/ Return \/ Descend \/ LeaveBlock \/ Finish

SpecBlocks == InitBlocks /\ [][NextBlocks]_block_vars /\ WF_block_vars(NextBlocks)

-----------------------------------------------------------------------------
(* Properties                                                              *)

\* What is in every set of blocks that holds A and is closed under r.
Reachable(r, A) ==
    LET Closed == {T \in SUBSET AllBlocks : A \subseteq T /\ \A b \in T : r[b] \subseteq T}
    IN  {b \in AllBlocks : \A T \in Closed : b \in T}

Targets(f) == [b \in AllBlocks |-> IF b \in DOMAIN f THEN ToSet(f[b]) ELSE {}]

BlocksTypeOK ==
    /\ pc \in {"erase", "visit", "done"}
    /\ ToSet(blocks) \subseteq AllBlocks /\ Cardinality(ToSet(blocks)) = Len(blocks)
    /\ \A b \in AllBlocks : ToSet(fanouts[b]) \subseteq ToSet(blocks)
    /\ exit \in AllBlocks /\ mark \in [AllBlocks -> {"NONE", "TEMP", "PERM"}]

\* Erasing touches dead code only: all that could be reached from the start
\* block is still there, and leads where it led before (an exit may have been
\* given the jump to the common exit).
ReachableKept ==
    \A b \in Reachable(Targets(function), {StartBlock}) :
        /\ b \in ToSet(blocks)
        /\ \/ fanouts[b] = function[b]
           \/ function[b] = <<>> /\ fanouts[b] = <<CommonExit>>

\* exit_block() is the only block without fanouts, and every block that could
\* reach one of the exits reaches it: what the post-dominators start from.
ExitReached ==
    pc \in {"visit", "done"} =>
        LET ends == {b \in Created : function[b] = <<>>} IN
        /\ \A b \in ToSet(blocks) : (fanouts[b] = <<>>) = (b = exit)
        /\ \A b \in ToSet(blocks) \cap Created :
               Reachable(Targets(function), {b}) \cap ends # {} =>
                   exit \in Reachable(Targets(fanouts), {b})

\* What is reachable stays and leads where it led, to one exit.
GraphKept == ReachableKept /\ ExitReached

Forward == [b \in AllBlocks |-> {fanouts[b][j] : j \in {k \in DOMAIN fanouts[b] : <<b, k>> \notin back}}]

\* In the end exactly the edges are flagged whose target the walk had entered
\* and not left: without them no cycle is left, and each of them closes one.
BackEdgesBreakCycles ==
    pc = "done" =>
        /\ \A b \in Reachable(Targets(fanouts), {StartBlock}) : b \notin Reachable(Forward, Forward[b])
        /\ \A e \in back : e[1] \in Reachable(Forward, {fanouts[e[1]][e[2]]})

\* The pass and the walk end, unless the assertion that there is an exit fails.
BlocksTermination == <>(pc = "done" \/ (it > Len(blocks) /\ Exits = {}))
=============================================================================
