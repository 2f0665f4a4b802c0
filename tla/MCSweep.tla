------------------------------ MODULE MCSweep ------------------------------
(***************************************************************************)
(* Instances of Sweep: circuits with gates that are equal to one another,  *)
(* to a constant, or only look alike until a counterexample is found.      *)
(***************************************************************************)
EXTENDS Sweep, Families

SweepCircuits == UpTo(2) \cup Family(<<"AND", "NOT", "OR", "AND">>)
=============================================================================
