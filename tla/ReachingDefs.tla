---------------------------- MODULE ReachingDefs ----------------------------
(***************************************************************************)
(* reaching_definitions() of cbmc-gc/ir/reaching_definitions.cpp for one   *)
(* function and one variable: the work list over the basic blocks and the  *)
(* transfer function, with the regions of bytes and the sorted vectors     *)
(* that it keeps them in.  A block has one set of definitions, its result  *)
(* and its start for the next visit.                                       *)
(***************************************************************************)
EXTENDS Integers, SequencesExt

CONSTANTS
  Programs  \* fanouts: [Blocks -> SUBSET Blocks], code: [Blocks -> Seq(instruction)],
            \* the blocks numbered by compute_post_order_of_reverse_cfg().  An
            \* instruction is a store or a load of the bytes first .. last; a store
            \* says whether its target is known exactly (DefMode::kill)

VARIABLES program,
          defs,   \* m_defs of each block: <<defined_at, first, last>>
          rd,     \* m_load_deps: the same for each load
          work,   \* work_list
          bb,     \* the block in work, 0 between two of them
          preds,  \* its predecessors still to be merged
          next,   \* the position of its next instruction
          changed

vars == <<program, defs, rd, work, bb, preds, next, changed>>

Blocks == DOMAIN program.code
Fanins(b) == {p \in Blocks : b \in program.fanouts[p]}
\* An instruction is named by its block and its position.
Instructions == UNION {{<<b, i>> : i \in DOMAIN program.code[b]} : b \in Blocks}
At(i) == program.code[i[1]][i[2]]
Loads == {i \in Instructions : At(i).kind = "load"}
Stores == {i \in Instructions : At(i).kind = "store"}

overlap(a, b) == a.first <= b.last /\ b.first <= a.last
contains(parent, child) == parent.first <= child.first /\ parent.last >= child.last

Def(s, first, last) == [at |-> s, first |-> first, last |-> last]
Key(d) == <<d.at[1], d.at[2], d.first, d.last>>
Less(d, e) == \E n \in 1..4 : Key(d)[n] < Key(e)[n] /\ \A k \in 1..(n - 1) : Key(d)[k] = Key(e)[k]

\* merge_into(): what the code does to a dest that is not sorted, too.
RECURSIVE Merged(_, _)
Merged(dest, src) ==
  IF dest = <<>> \/ src = <<>> THEN dest \o src
  ELSE IF Less(Head(src), Head(dest)) THEN <<Head(src)>> \o Merged(dest, Tail(src))
  ELSE <<Head(dest)>> \o Merged(Tail(dest), IF Head(src) = Head(dest) THEN Tail(src) ELSE src)

\* Nothing leaves dest: it has changed iff it has grown.
Grown(dest, src) == Len(Merged(dest, src)) > Len(dest)

\* Fault: what is left of a definition on the far side of the store is lost.
Cut_short(d, k) == Def(d.at, d.first, k.first - 1)

\* What add_killing_definition() makes in place of a definition that the
\* killing one does not cover: without the bytes of the killing one, or, if
\* that lies inside of it, the part behind.
Cut(d, k) ==
  IF ~overlap(d, k) THEN d
  ELSE IF contains(d, k) \/ d.first >= k.first THEN Def(d.at, k.last + 1, d.last)
  ELSE Def(d.at, d.first, k.first - 1)

\* The part in front of a killing definition that lies inside of another.
InFront(ds, k) ==
  LET outer == SelectSeq(ds, LAMBDA d : contains(d, k))
  IN  [n \in DOMAIN outer |-> Def(outer[n].at, outer[n].first, k.first - 1)]

\* remove_empty_defs() keeps the others.
NotEmpty(d) == d.first <= d.last

\* add_killing_definition(): also tells a change when it only takes out what
\* it put in on the visit before.
Killed(ds, k) ==
  LET left == SelectSeq(ds, LAMBDA d : ~contains(k, d))
      cut == [n \in DOMAIN left |-> Cut(left[n], k)]
      new == SortSeq(<<k>> \o InFront(left, k), Less)
  IN  [defs |-> SelectSeq(Merged(cut, new), NotEmpty),
       changed |-> cut # ds \/ Grown(cut, new)]

\* add_definition(): the definition of a store and what it does to the others.
Added(ds, s) ==
  LET d == Def(s, At(s).first, At(s).last)
  IN  IF At(s).kill THEN Killed(ds, d)
      ELSE [defs |-> Merged(ds, <<d>>), changed |-> Grown(ds, <<d>>)]

Later(a, b) == IF a > b THEN a ELSE b
Earlier(a, b) == IF a < b THEN a ELSE b

\* The definitions that a load overlaps with, cut to what it reads.
Dependencies(ds, i) ==
  LET seen == SelectSeq(ds, LAMBDA d : overlap(At(i), d))
      cut == [n \in DOMAIN seen |->
                Def(seen[n].at, Later(At(i).first, seen[n].first), Earlier(At(i).last, seen[n].last))]
  IN  SortSeq(cut, Less)

Init ==
  /\ program \in Programs
  /\ defs = [b \in Blocks |-> <<>>]
  /\ rd = [i \in Loads |-> <<>>]
  /\ work = Blocks /\ bb = 0 /\ preds = {} /\ next = 0 /\ changed = FALSE

\* The begin of the work list, by the order of its comparer.
First(b) == \A c \in work : b <= c

Visit(b) ==
  /\ bb = 0 /\ b \in work /\ First(b)
  /\ work' = work \ {b} /\ bb' = b /\ preds' = Fanins(b) /\ next' = 1 /\ changed' = FALSE
  /\ UNCHANGED <<program, defs, rd>>

\* RDBlockState::merge() with one of the predecessors.
Merge(p) ==
  /\ bb # 0 /\ p \in preds
  /\ preds' = preds \ {p}
  /\ defs' = [defs EXCEPT ![bb] = Merged(@, defs[p])]
  /\ changed' = (changed \/ Grown(defs[bb], defs[p]))
  /\ UNCHANGED <<program, rd, work, bb, next>>

AtInstruction == bb # 0 /\ preds = {} /\ next <= Len(program.code[bb])
Current == <<bb, next>>

StoreStep ==
  /\ AtInstruction /\ At(Current).kind = "store"
  /\ LET a == Added(defs[bb], Current)
     IN  defs' = [defs EXCEPT ![bb] = a.defs] /\ changed' = (changed \/ a.changed)
  /\ next' = next + 1
  /\ UNCHANGED <<program, rd, work, bb, preds>>

LoadStep ==
  /\ AtInstruction /\ At(Current).kind = "load"
  /\ LET deps == Dependencies(defs[bb], Current)
     IN  /\ rd' = [rd EXCEPT ![Current] = Merged(@, deps)]
         /\ changed' = (changed \/ Grown(rd[Current], deps))
  /\ next' = next + 1
  /\ UNCHANGED <<program, defs, work, bb, preds>>

EndVisit ==
  /\ bb # 0 /\ preds = {} /\ next > Len(program.code[bb])
  /\ work' = IF changed THEN work \cup program.fanouts[bb] ELSE work
  /\ bb' = 0 /\ next' = 0 /\ changed' = FALSE
  /\ UNCHANGED <<program, defs, rd, preds>>

Done == work = {} /\ bb = 0

Next == \/ \E b \in Blocks : Visit(b) \/ Merge(b)
        \/ StoreStep \/ LoadStep \/ EndVisit

Spec == Init /\ [][Next]_vars /\ WF_vars(Next)

-----------------------------------------------------------------------------
(* Properties                                                              *)

Bytes == 0..3  \* of the variable

\* The definitions of a block lie within their stores and are not empty: what
\* is cut off is never the wrong side.
TypeOK ==
  /\ work \subseteq Blocks /\ bb \in Blocks \cup {0}
  /\ \A b \in Blocks : \A n \in DOMAIN defs[b] :
       LET d == defs[b][n]
       IN  d.at \in Stores /\ d.first <= d.last /\ contains(At(d.at), d)
  /\ \A i \in Loads : \A n \in DOMAIN rd[i] :
       LET d == rd[i][n]
       IN  d.at \in Stores /\ d.first <= d.last /\ contains(At(d.at), d) /\ contains(At(i), d)

Covers(r, byte) == r.first <= byte /\ byte <= r.last
Kills(i, byte) == At(i).kind = "store" /\ At(i).kill /\ Covers(At(i), byte)
Follows(i) == IF i[2] < Len(program.code[i[1]]) THEN {<<i[1], i[2] + 1>>}
              ELSE {<<b, 1>> : b \in program.fanouts[i[1]]}

\* By definition: the instructions a store's value of a byte arrives at, on
\* some path on which no store in between is certain to overwrite it.
Arrives(s, byte) ==
  LET Onward(R, n) == R \cup UNION {Follows(i) : i \in {j \in R : ~Kills(j, byte)}}
  IN  FoldLeft(Onward, Follows(s), [n \in 1..Cardinality(Instructions) |-> n])

\* What a load reads, in the code and by definition: the bytes of stores.
Recorded(i, s, byte) == \E d \in ToSet(rd[i]) : d.at = s /\ Covers(d, byte)
Reaches(i, s, byte) == Covers(At(i), byte) /\ Covers(At(s), byte) /\ i \in Arrives(s, byte)

\* Sound: in the end no load misses a store that one of its bytes may be from.
Sound ==
  Done => \A i \in Loads, s \in Stores, byte \in Bytes :
            Reaches(i, s, byte) => Recorded(i, s, byte)

\* The analysis comes to its fixed point.
Terminates == <>Done
=============================================================================
