---------------------------- MODULE MCMinimizer -----------------------------
(***************************************************************************)
(* Minimizer on circuits that leave rewriting with gates which only the    *)
(* solver can prove equal, and on those with a gate that is constantly     *)
(* true, with a time limit, which may interrupt anywhere, and without one. *)
(***************************************************************************)

EXTENDS Minimizer, Families

\* OR(y, NOT(AND(x, y))) is constantly true, which no rewrite rule sees.
ImplicationGates == Family(<<"AND", "NOT", "OR">>)

MixedGates == AllOf(2) \cup ImplicationGates \cup Family(<<"AND", "XOR", "AND", "OR">>)
=============================================================================
