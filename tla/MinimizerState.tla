--------------------------- MODULE MinimizerState ---------------------------
(***************************************************************************)
(* What the two halves of simple_circuitt::minimize, Rewrite and Sweep,    *)
(* have in common.                                                         *)
(***************************************************************************)
EXTENDS Netlist

CONSTANTS
  InitialCircuits,  \* the circuits that the minimizer, or a half of it, begins with
  CheckTimeout      \* whether minimization-time-limit was given

ASSUME MinimizerAssumption ==
  /\ CheckTimeout \in BOOLEAN
  /\ InitialCircuits \subseteq Circuit
  /\ \A c \in InitialCircuits : WellFormed(c) /\ Acyclic(c)

VARIABLES
  pc,               \* where minimize() is
  circuit,          \* the circuit
  level,            \* level_map of the function that is running
  timed_out         \* stopping_because_of_timeout
=============================================================================
