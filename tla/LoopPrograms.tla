---------------------------- MODULE LoopPrograms ----------------------------
(***************************************************************************)
(* Programs for ReachingDefs over a variable of four bytes: with a while   *)
(* loop, with two branches that meet, and with a do-while loop, and all    *)
(* choices of a few instructions in their blocks.                          *)
(***************************************************************************)
EXTENDS Integers, SequencesExt

Store(kill, first, last) == [kind |-> "store", kill |-> kill, first |-> first, last |-> last]
Load(first, last) == [kind |-> "load", first |-> first, last |-> last]

Whole == {Store(TRUE, 0, 3), Store(FALSE, 0, 3)}
Parts == {Store(TRUE, 0, 1), Store(TRUE, 1, 2)}
UpperHalf == {Store(TRUE, 2, 3)}
SomeLoads == {Load(0, 3), Load(2, 2)}
Pairs(S) == {<<a, b>> : a \in S, b \in S}

\* 1 -> 3; 3 -> 2, 4; 2 -> 3: the body is block 2, and the condition of block 3
\* does not store.
While(Body, After) ==
  {[fanouts |-> <<{3}, {3}, {2, 4}, {}>>,
    code |-> <<<<Store(TRUE, 0, 3)>>, body, <<Load(0, 1)>>, tail>>] : body \in Body, tail \in After}
\* 1 -> 2, 3; 2 -> 4; 3 -> 4.
Diamonds(S) ==
  {[fanouts |-> <<{2, 3}, {4}, {4}, {}>>,
    code |-> <<<<Store(TRUE, 0, 3)>>, a, <<b>>, <<c, Load(0, 3)>>>>] :
     a \in Pairs(S), b \in S, c \in Parts}
WhilesAndDiamonds ==
  While(Pairs(Whole \cup UpperHalf \cup SomeLoads),
        {<<a, b>> : a \in Whole \cup UpperHalf, b \in SomeLoads})
    \cup Diamonds(Whole \cup Parts \cup UpperHalf)

\* 1 -> 2; 2 -> 2, 3.
DoWhiles ==
  {[fanouts |-> <<{2}, {2, 3}, {}>>,
    code |-> <<<<Store(TRUE, 0, 3)>>, body, <<Load(0, 3)>>>>] : body \in Pairs(Whole \cup SomeLoads)}

\* reverse_post_order_visit(): what it marks and the order in which it leaves
\* blocks, after it has also visited b.  The fanins have the order in which
\* convert_to_ir() made their jumps, which here is the one of the numbers.
RECURSIVE Visited(_, _, _)
Visited(fanouts, b, done) ==
  IF b \in done.marks THEN done
  ELSE LET fanins == SetToSortSeq({p \in DOMAIN fanouts : b \in fanouts[p]}, <)
           below  == FoldLeft(LAMBDA d, p : Visited(fanouts, p, d),
                              [done EXCEPT !.marks = @ \cup {b}], fanins)
       IN  [below EXCEPT !.order = Append(@, b)]

\* compute_post_order_of_reverse_cfg(): the exit is the block without fanouts.
PostOrder(fanouts) ==
  LET exit == CHOOSE b \in DOMAIN fanouts : fanouts[b] = {}
  IN  Visited(fanouts, exit, [marks |-> {}, order |-> << >>]).order

\* The blocks have the numbers that the work list orders them by.
ASSUME NumberedInPostOrder ==
  \A p \in WhilesAndDiamonds \cup DoWhiles :
    PostOrder(p.fanouts) = [n \in DOMAIN p.fanouts |-> n]
=============================================================================
