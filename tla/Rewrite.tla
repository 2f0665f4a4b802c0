------------------------------ MODULE Rewrite ------------------------------
(***************************************************************************)
(* The rewriting half of simple_circuitt::minimize: rewrite() walks the    *)
(* gates from the deepest level to the inputs and calls use_theorems on    *)
(* each, cleanup() removes the gates that nothing reads any more, and      *)
(* minimizing_state_machine() repeats this, first with round2 = false and  *)
(* then with round2 = true, until nothing changes.  The clock can run out  *)
(* between any two steps.                                                  *)
(***************************************************************************)
EXTENDS Theorems, MinimizerState

VARIABLES
  worklist,         \* the gates it has not visited yet
  changed_circuit,  \* the local of rewrite()
  min_op,           \* state of minimizing_state_machine
  function          \* what the circuit computed at the call (history)

rewrite_vars == <<level, worklist, changed_circuit, min_op>>
vars == <<pc, circuit, rewrite_vars, timed_out, function>>

Locations == {"rewrite", "worklist", "cleanup", "fixpoint", "swept", "sat_cleanup", "done"}

Init ==
  /\ pc = "rewrite"
  /\ circuit \in InitialCircuits
  /\ level = <<>>
  /\ worklist = {}
  /\ changed_circuit = FALSE
  /\ min_op = "THEOREMS"
  /\ timed_out = FALSE
  /\ function = Behaviour(circuit)

\* Levels of all gates; the code throws when the circuit has a cycle.
ComputeLevels ==
  /\ Acyclic(circuit)
  /\ level' = Levels(circuit)
  /\ worklist' = Gates(circuit)

\* minimize() enters rewrite(), which fills its worklist.
BeginRewrite ==
  /\ pc = "rewrite" /\ ~timed_out
  /\ ComputeLevels
  /\ changed_circuit' = FALSE
  /\ pc' = "worklist"
  /\ UNCHANGED <<circuit, min_op, timed_out, function>>

\* The next gate of the worklist.  Gates of one level come in the order of
\* their addresses, which is any.  The result for a gate overwrites the
\* result for the gate before it.
RewriteGate ==
  /\ pc = "worklist" /\ ~timed_out
  /\ \E g \in Deepest(level, worklist) :
       /\ \E r \in use_theorems(circuit, g, min_op = "THEOREMS2") :
            circuit' = r.c /\ changed_circuit' = r.changed
       /\ worklist' = worklist \ {g}
  /\ UNCHANGED <<pc, level, min_op, timed_out, function>>

BeginCleanup ==
  /\ pc = "worklist"
  /\ worklist = {} \/ timed_out
  /\ ComputeLevels
  /\ pc' = "cleanup"
  /\ UNCHANGED <<circuit, changed_circuit, min_op, timed_out, function>>

\* A gate that cleanup() finds unused is removed, and that is a change.
RemoveIf(unused, g) ==
  IF unused THEN circuit' = RemoveGate(circuit, g) /\ changed_circuit' = TRUE
            ELSE UNCHANGED <<circuit, changed_circuit>>

\* Faults of cleanup(): it takes a gate that is still read once, or it does
\* not report what it removed.
CleanupGate_read_once ==
  /\ pc \in {"cleanup", "sat_cleanup"}
  /\ \E g \in Deepest(level, worklist) :
       worklist' = worklist \ {g} /\ RemoveIf(Cardinality(Fanouts(circuit, g)) <= 1, g)
  /\ UNCHANGED <<pc, level, min_op, timed_out, function>>
CleanupGate_silent ==
  /\ pc \in {"cleanup", "sat_cleanup"}
  /\ \E g \in Deepest(level, worklist) :
       /\ worklist' = worklist \ {g}
       /\ circuit' = IF Fanouts(circuit, g) = {} THEN RemoveGate(circuit, g) ELSE circuit
  /\ UNCHANGED <<pc, level, changed_circuit, min_op, timed_out, function>>

\* cleanup() takes the gates from the deepest level down, so the gates that
\* only a removed gate reads are removed as well.  It ignores the clock.
CleanupGate ==
  /\ pc \in {"cleanup", "sat_cleanup"}
  /\ \E g \in Deepest(level, worklist) :
       /\ worklist' = worklist \ {g}
       /\ RemoveIf(Fanouts(circuit, g) = {}, g)
  /\ UNCHANGED <<pc, level, min_op, timed_out, function>>

\* cleanup() again, after a SAT-based iteration that made changes.
BeginSatCleanup ==
  /\ pc = "swept"
  /\ ComputeLevels
  /\ pc' = "sat_cleanup"
  /\ UNCHANGED <<circuit, changed_circuit, min_op, timed_out, function>>

EndSatCleanup ==
  /\ pc = "sat_cleanup" /\ worklist = {}
  /\ pc' = "rewrite"
  /\ UNCHANGED <<circuit, level, worklist, changed_circuit, min_op, timed_out, function>>

\* rewrite() returns to minimizing_state_machine().
EndRewrite ==
  /\ pc = "cleanup" /\ worklist = {}
  /\ \/ timed_out /\ pc' = "done" /\ UNCHANGED min_op
     \/ ~timed_out /\ changed_circuit /\ pc' = "rewrite" /\ UNCHANGED min_op
     \/ /\ ~timed_out /\ ~changed_circuit
        /\ IF min_op = "THEOREMS" THEN min_op' = "THEOREMS2" /\ pc' = "rewrite"
                                  ELSE UNCHANGED min_op /\ pc' = "fixpoint"
  /\ UNCHANGED <<circuit, level, worklist, changed_circuit, timed_out, function>>

\* The loop of minimize() sees that the time is up.
Stop ==
  /\ pc = "rewrite" /\ timed_out
  /\ pc' = "done"
  /\ UNCHANGED <<circuit, rewrite_vars, timed_out, function>>

TimeExpires ==
  /\ CheckTimeout /\ ~timed_out /\ pc \notin {"fixpoint", "done"}
  /\ timed_out' = TRUE
  /\ UNCHANGED <<pc, circuit, rewrite_vars, function>>

Finished == pc \in {"fixpoint", "done"} /\ UNCHANGED vars

RewriteStep == BeginRewrite \/ RewriteGate \/ BeginCleanup \/ CleanupGate \/ EndRewrite \/ Stop
Next == RewriteStep \/ TimeExpires \/ Finished

\* minimize() is one thread that nothing blocks.
Spec == Init /\ [][Next]_vars /\ WF_vars(RewriteStep)

----------------------------------------------------------------------------
(* Properties of rewriting.                                                *)

\* The types: min_op has no third state, and every fanin is a node or NULL.
TypeOK ==
  /\ pc \in Locations
  /\ circuit \in Circuit
  /\ worklist \subseteq Gate
  /\ changed_circuit \in BOOLEAN /\ timed_out \in BOOLEAN
  /\ min_op \in {"THEOREMS", "THEOREMS2"}

\* No rule, and no removal by cleanup(), leaves a pin of a gate or an OUTPUT
\* connected to a gate that is gone, or not connected at all.
NoDangling == WellFormed(circuit)

\* Both together, after every rule, removal and tick of the clock.
StateOK == TypeOK /\ NoDangling

\* No rule connects a gate to one that depends on it: the walks over the
\* levels, which throw "Cycle in circuit", always succeed.
NoCycle == Acyclic(circuit)

\* The outputs stay the function of the inputs that they were when minimize()
\* was called, after every single application of a rule and also when the
\* time runs out in the middle of a pass.
FunctionPreserved == Behaviour(circuit) = function

\* When minimizing_state_machine() reports that it is finished no rule of
\* round 2 applies anywhere and no gate is unused.  The code keeps only the
\* result for the last gate of a pass; that nothing is overlooked depends on
\* cleanup() finding a gate that each applied rule left unused.
CleanFixpoint ==
  pc = "fixpoint" =>
    \A g \in Gates(circuit) :
      /\ Fanouts(circuit, g) # {}
      /\ \A r \in use_theorems(circuit, g, TRUE) : ~r.changed

\* Wherever rewriting stops, by itself or because the time is up, cleanup()
\* has removed everything that no output depends on.
CleanStop ==
  pc \in {"fixpoint", "done"} =>
    \A g \in Gates(circuit) : Fanouts(circuit, g) # {}

\* What the end of rewriting leaves: nothing unused, and at a fixpoint nothing
\* that a rule would still change.
CleanEnd == CleanFixpoint /\ CleanStop

\* Rewriting ends: the rules do not undo one another for ever.
Termination == <>(pc \in {"fixpoint", "done"})
=============================================================================
