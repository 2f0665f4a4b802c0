----------------------------- MODULE MCBackEnd -----------------------------
(***************************************************************************)
(* Instances of what happens to circuits after they were compiled: Linker, *)
(* Merge, ParallelGraph, CircuitFile and CircuitConverter.  part says      *)
(* which of them the behaviour is one of; the others' variables keep their *)
(* idle values.                                                            *)
(*                                                                         *)
(* link: main calls twice, f twice and g once, where the callee of a site  *)
(* comes after its caller in the order main, f, g, h; h calls nothing and  *)
(* k was never compiled.  bool, arith, graph: the families of CallFamilies *)
(* to merge and to group; file, aby: those of LinkedFamilies.              *)
(***************************************************************************)
EXTENDS Linker, ParallelGraph, TLC

VARIABLES
  part,
  caller, fanin, made, gone, at,
  written, stage, waiting, label, counter, file, read, variables, ids, cur, position,
  linked, adapted, pos, converted, aby, conversions, results

F == INSTANCE CallFamilies
Bool  == INSTANCE Merge WITH Calls <- F!BoolCalls, Width <- F!BoolWidth, Callers <- F!BoolCallers
Arith == INSTANCE Merge WITH Calls <- F!ArithCalls, Width <- F!ArithWidth, Callers <- F!ArithCallers
Elements == F!Elements
GraphCircuits == F!Grouped
L == INSTANCE LinkedFamilies
FileCircuits == L!FileCircuits
File == INSTANCE CircuitFile WITH Circuits <- FileCircuits, circuit <- written, at <- position
AbyCircuits == L!AbyCircuits
Tried == L!Tried
Aby == INSTANCE CircuitConverter WITH Linked <- AbyCircuits, Bits <- 2, Values <- Tried,
                                      circuit <- adapted, None <- "none"

ASSUME Bool!MergeAssumption /\ Arith!MergeAssumption /\ ParallelAssumption

Names    == {"main", "f", "g", "h", "k"}
Compiled == Names \ {"k"}
Places   == [s \in 1 .. 5 |-> CASE s \in {1, 2} -> "main" [] s \in {3, 4} -> "f" [] OTHER -> "g"]
Rank     == [n \in Names |-> CASE n = "main" -> 0 [] n = "f" -> 1 [] n = "g" -> 2 [] OTHER -> 3]
Acyclic  == {d \in [1 .. 5 -> Names] : \A s \in 1 .. 5 : Rank[Places[s]] < Rank[d[s]]}

linking    == vars
merging    == <<caller, fanin, made, gone, at>>
grouping   == graph_vars
exchanging == <<written, stage, waiting, label, counter, file, read, variables, ids, cur, position>>
converting == <<linked, adapted, pos, converted, aby, conversions, results>>
all == <<part, linking, merging, grouping, exchanging, converting>>

NothingToLink ==
  /\ callee = [s \in Site |-> Main] /\ calls = [c \in Circuit |-> {}]
  /\ bodies = [c \in Circuit |-> {}] /\ stack = << >> /\ failed = FALSE
NothingToMerge ==
  /\ caller = << >> /\ fanin = << >> /\ made = << >> /\ gone = {}
  /\ at = [call |-> 1, stage |-> "begin"]
NothingToGroup ==
  /\ circuit = << >> /\ needed = {} /\ phase = "idle" /\ depth = << >> /\ outputs = << >>
  /\ block = << >> /\ local = << >> /\ fanins = << >> /\ inputs = << >> /\ added = << >>
NothingToWrite ==
  /\ written = << >> /\ stage = "idle" /\ waiting = {} /\ label = << >> /\ counter = 0 /\ file = << >>
  /\ read = << >> /\ variables = << >> /\ ids = << >> /\ cur = 0 /\ position = 0
NothingToConvert ==
  /\ linked = << >> /\ adapted = << >> /\ pos = << >>
  /\ converted = {} /\ aby = << >> /\ conversions = {} /\ results = << >>

InitBackEnd ==
  \/ /\ part = "link" /\ Init
     /\ NothingToMerge /\ NothingToGroup /\ NothingToWrite /\ NothingToConvert
  \/ /\ \/ part = "bool" /\ Bool!Init
        \/ part = "arith" /\ Arith!Init
     /\ NothingToLink /\ NothingToGroup /\ NothingToWrite /\ NothingToConvert
  \/ /\ part = "graph" /\ InitGraph
     /\ NothingToLink /\ NothingToMerge /\ NothingToWrite /\ NothingToConvert
  \/ /\ part = "file" /\ File!Init
     /\ NothingToLink /\ NothingToMerge /\ NothingToGroup /\ NothingToConvert
  \/ /\ part = "aby" /\ Aby!InitConverter
     /\ NothingToLink /\ NothingToMerge /\ NothingToGroup /\ NothingToWrite

\* Where each of them has come to its end.
Ended ==
  CASE part = "link"  -> ~Running
    [] part = "bool"  -> Bool!Linked
    [] part = "arith" -> Arith!Linked
    [] part = "graph" -> phase = "blocks" /\ CircuitOutputs \subseteq DOMAIN block
    [] part = "file"  -> stage = "done"
    [] part = "aby"   -> Aby!Finished

Work ==
  /\ \/ part = "link"  /\ Step /\ UNCHANGED <<merging, grouping, exchanging, converting>>
     \/ part = "bool"  /\ Bool!Next /\ UNCHANGED <<linking, grouping, exchanging, converting>>
     \/ part = "arith" /\ Arith!Next /\ UNCHANGED <<linking, grouping, exchanging, converting>>
     \/ part = "graph" /\ NextGraph /\ UNCHANGED <<linking, merging, exchanging, converting>>
     \/ part = "file"  /\ File!Next /\ UNCHANGED <<linking, merging, grouping, converting>>
     \/ part = "aby"   /\ Aby!Next /\ UNCHANGED <<linking, merging, grouping, exchanging>>
  /\ UNCHANGED part

NextBackEnd == Work \/ (Ended /\ UNCHANGED all)

\* The fairness that Linker, ParallelGraph, CircuitFile and CircuitConverter have.
Searching == part \in {"link", "graph", "file", "aby"}
SpecBackEnd == InitBackEnd /\ [][NextBackEnd]_all /\ WF_all(Searching /\ Work)

----------------------------------------------------------------------------
(* The properties of the parts.                                            *)

\* Merge!MeaningKept: every gate reads the bits that the calls pass to it.
MeaningKept == (part = "bool" => Bool!MeaningKept) /\ (part = "arith" => Arith!MeaningKept)

\* The types of the parts, paths that go from call to call, iterators that stay
\* within their variable (TypeOK), no wire at a deleted gate (NoWireToGone), and
\* add_call_block()'s assertion that a call is entered once (CallsOnce).
CallsOK ==
  /\ TypeOK
  /\ part = "bool"  => Bool!TypeOK /\ Bool!NoWireToGone
  /\ part = "arith" => Arith!TypeOK /\ Arith!NoWireToGone
  /\ part = "graph" => GraphTypeOK /\ CallsOnce

\* CircuitFile!ReadBack: the circuit that is read is the one that was written.
ReadBack == part = "file" => File!ReadBack

\* CircuitConverter!WiresRight: the ABY circuits compute what the linked one does.
WiresRight == part = "aby" => Aby!WiresRight

\* CircuitConverter!NoInputConverted: no Yao input is converted, which ABY
\* cannot do.
NoInputConverted == part = "aby" => Aby!NoInputConverted

\* link() returns, every output of a circuit gets a block, and a wire in ABY's
\* circuits: no search waits for something that it does not visit.  What was
\* written is read to its end.
AllEnd == Searching => <>Ended
=============================================================================
