----------------------------- MODULE MCAnalyses -----------------------------
(***************************************************************************)
(* Instances of the analyses of the intermediate representation, one after *)
(* the other for a function: part says whether the behaviour is one of     *)
(* FunctionBlocks, of ControlDependence with Dominators, or of             *)
(* ReachingDefs.  They share the variables of the same name; those of the  *)
(* other parts keep their idle values.                                     *)
(***************************************************************************)
EXTENDS ControlDependence, FunctionBlocks, LoopPrograms

VARIABLES
  part,
  program, defs, rd, work, bb  \* ReachingDefs, which has next, preds and changed too

pdgOnly    == <<phase, marks, path, order, idom, bi, newIdom, b1, b2,
                todo, control, targets, start, end, deps>>
defsOnly   == <<program, defs, rd, work, bb>>
shared     == <<next, preds, changed>>

----------------------------------------------------------------------------
(* blocks: all the functions of at most four blocks where each block has   *)
(* up to two fanouts, the branches taken in both orders.  The start block  *)
(* goes on to the second block, by a jump or by a branch: the names of the *)
(* others are interchangeable but for their order.                         *)

FanoutLists == {<<>>} \cup {<<a>> : a \in 1..4} \cup {<<a, b>> : a \in 1..4, b \in 1..4}
FunctionGraphs == {f \in [1..4 -> FanoutLists] : f[1] # <<>> /\ f[1][1] = 2 /\ Len(f[4]) < 2}

(* pdg: the control flow graphs of five blocks with up to two fanouts      *)
(* each, where all are reachable, the exit is the only block without       *)
(* fanouts and can be reached from all of them.                            *)

FanoutSets == {S \in SUBSET (1..5) : Cardinality(S) \in 1..2}
ReversedGraphs ==
  {Reversed(g) : g \in {g \in {<<{2, f}, f2, f3, f4, {}>> : f \in {2, 3}, f2 \in FanoutSets, f3 \in FanoutSets,
                                        f4 \in {S \in FanoutSets : 1 \notin S}} :
     \A b \in 1..5 : 5 \in Reach(g, b, {}) /\ b \in Reach(g, 1, {})}}

R == INSTANCE ReachingDefs WITH Programs <- WhilesAndDiamonds

ASSUME BlockAssumption /\ ControlAssumption

----------------------------------------------------------------------------
NoPdg ==
  /\ phase = "none" /\ marks = 0 /\ path = 0 /\ order = 0 /\ idom = 0 /\ bi = 0 /\ newIdom = 0
  /\ b1 = 0 /\ b2 = 0 /\ todo = 0 /\ control = 0 /\ targets = 0 /\ start = 0
  /\ end = 0 /\ deps = 0
NoBlocks ==
  /\ pc = "none" /\ function = <<<<>>, <<>>, <<>>, <<>>>> /\ blocks = <<StartBlock>>
  /\ fanouts = function /\ it = 0 /\ exit = 0 /\ mark = 0 /\ visits = 0 /\ back = {}
NoDefs ==
  /\ program = 0 /\ defs = 0 /\ rd = 0 /\ work = {} /\ bb = 0

InitAnalyses ==
  \/ part = "blocks" /\ InitBlocks /\ NoPdg /\ NoDefs /\ next = 0 /\ preds = 0 /\ changed = 0
  \/ part = "pdg"  /\ InitControl /\ NoBlocks /\ NoDefs
  \/ part = "defs" /\ R!Init /\ NoPdg /\ NoBlocks

NextAnalyses ==
  /\ \/ part = "blocks" /\ NextBlocks /\ UNCHANGED <<pdgOnly, defsOnly, shared>>
     \/ part = "pdg"  /\ NextControl /\ UNCHANGED <<block_vars, defsOnly>>
     \/ part = "defs" /\ R!Next /\ UNCHANGED <<pdgOnly, block_vars>>
  /\ UNCHANGED part

all == <<part, pdgOnly, block_vars, defsOnly, shared>>

SpecAnalyses == InitAnalyses /\ [][NextAnalyses]_all /\ WF_all(NextAnalyses)

----------------------------------------------------------------------------
(* The properties.  GraphKept and BackEdgesBreakCycles of FunctionBlocks,  *)
(* TreeIsDominance of Dominators and IsFerrante of ControlDependence are   *)
(* as they are there.                                                      *)

\* ReachingDefs: no load misses a store that one of its bytes may be from.
Sound == part = "defs" => R!Sound

\* The types, and what the code asserts or relies on when it follows a pointer:
\* a predecessor with a dominator, walkers that climb, a walk that meets its end.
AnalysesOK ==
  /\ part = "blocks" => BlocksTypeOK
  /\ part = "pdg"  => ControlTypeOK /\ PredecessorVisited /\ Climbs /\ NeverPastTheRoot
  /\ part = "defs" => R!TypeOK

\* The passes, the walks and the work list end.
Terminates ==
  /\ part = "blocks" => BlocksTermination
  /\ part = "pdg"  => ControlTermination
  /\ part = "defs" => R!Terminates
=============================================================================
