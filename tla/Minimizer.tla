----------------------------- MODULE Minimizer -----------------------------
(***************************************************************************)
(* simple_circuitt::minimize: rewriting to a fixpoint (Rewrite) and        *)
(* SAT-based iterations (Sweep) alternate until an iteration changes       *)
(* nothing or the time is up.                                              *)
(***************************************************************************)
EXTENDS Rewrite, Sweep

CONSTANT
  CheckTimeouts    \* whether minimization-time-limit may be given and not be given

\* This module has its own clock: those of the halves stand still.
VARIABLE check_timeout  \* minimization-time-limit was given

own_rewrite    == <<worklist, changed_circuit, min_op, function>>
own_sweep      == <<bin_vars, interpretations, threshold, changed, ref>>
minimizer_vars == <<pc, circuit, level, timed_out, check_timeout, own_rewrite, own_sweep>>

InitMinimizer ==
  /\ Init
  /\ check_timeout \in CheckTimeouts
  /\ bins = {}
  /\ interpretations = {AllFalse}
  /\ threshold = 0
  /\ representative = NULL
  /\ rest = {}
  /\ changed = FALSE
  /\ ref = circuit

\* minimizing_state_machine(), and cleanup() after an iteration.
Rewriting == (RewriteStep \/ BeginSatCleanup \/ EndSatCleanup) /\ UNCHANGED <<check_timeout, own_sweep>>

Sweeping == SweepStep /\ UNCHANGED <<check_timeout, own_rewrite>>

\* The clock runs out after rewriting, before the iteration has begun.
StopBeforeSweep ==
  /\ pc = "fixpoint" /\ timed_out
  /\ pc' = "done"
  /\ UNCHANGED <<circuit, level, timed_out, check_timeout, own_rewrite, own_sweep>>

MinimizerTimeExpires ==
  /\ check_timeout /\ ~timed_out /\ pc # "done"
  /\ timed_out' = TRUE
  /\ UNCHANGED <<pc, circuit, level, check_timeout, own_rewrite, own_sweep>>

MinimizerFinished == pc = "done" /\ UNCHANGED minimizer_vars

Step == Rewriting \/ Sweeping \/ StopBeforeSweep
NextMinimizer == Step \/ MinimizerTimeExpires \/ MinimizerFinished

\* One thread that nothing blocks; time passes.
SpecMinimizer ==
  /\ InitMinimizer /\ [][NextMinimizer]_minimizer_vars
  /\ WF_minimizer_vars(Step) /\ WF_minimizer_vars(MinimizerTimeExpires)

\* In addition the random interpretations do not always miss: a gate that can
\* be told apart from others is at some time told apart.
Separating == Sweeping /\ pc = "simulate" /\ threshold' = 0
LuckySpec  == SpecMinimizer /\ SF_minimizer_vars(Separating)

----------------------------------------------------------------------------
(* Properties of the whole.                                                *)

\* With a time limit minimize() returns, and the circuit is the same total function of its
\* inputs at every moment: whatever rewriting leaves for the solver and the
\* other way round, and wherever the time limit strikes.
O == INSTANCE Optimizer
       WITH behaviour <- Behaviour(circuit), stopped <- pc = "done", limited <- check_timeout
\* The caller's view of minimize() is the specification Optimizer.
ImplementsOptimizer == O!Spec

\* simulate() asserts that no gate reads ZERO_GATE.  That it never fails is
\* up to the rewriting before it: merges of the iterations do connect gates
\* to ZERO_GATE.
SimulationIsDefined == pc = "fixpoint" => SimulationDefined(circuit)

\* A circuit is fit for an iteration when it begins, and for cleanup() always:
\* every pin stays connected, across iterations too, although a merge may leave
\* gates that nothing reads and only the next cleanup() removes.
FitForIteration == SimulationIsDefined /\ NoDangling

\* README.md: the time limit limits the minimization phase.  Without one,
\* minimize() returns by itself.
MinimizerTermination == <>(pc = "done")

ConstantlyTrue(c) == \E g \in Gates(c) : \A V \in Valuations(c) : V[g]

\* Without a limit it returns unless a gate stays that is constantly true: the
\* bin of ONE_GATE is the only place where an answer can be useless for ever.
TerminatesUnlessTrue == <>(pc = "done") \/ <>[](~check_timeout /\ ConstantlyTrue(circuit))
=============================================================================
