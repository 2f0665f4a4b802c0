----------------------------- MODULE Optimizer -----------------------------
(***************************************************************************)
(* What a caller of simple_circuitt::minimize relies on (the README of the *)
(* compiler: "the circuit should be equivalent to the C code"): it is      *)
(* called with a circuit that gives every input one output, it returns     *)
(* if its time is limited, and then and at every moment in between the     *)
(* circuit is the same function.                                           *)
(***************************************************************************)
CONSTANTS Input, Output

VARIABLES
  behaviour,  \* pairs of an input and an output
  stopped,    \* minimize() has returned
  limited     \* it was given a time limit

IsFunctionOfInputs(B) ==
  \A I \in [Input -> BOOLEAN] :
    \E O \in [Output -> BOOLEAN] : \A b \in B : b[1] = I => b = <<I, O>>

IsTotal(B) == \A I \in [Input -> BOOLEAN] : \E b \in B : b[1] = I

Init ==
  /\ IsFunctionOfInputs(behaviour) /\ IsTotal(behaviour)
  /\ stopped = FALSE

Return == ~stopped /\ stopped' /\ UNCHANGED <<behaviour, limited>>

Safety == Init /\ [][Return]_<<behaviour, stopped, limited>>

Spec == Safety /\ <>(stopped \/ ~limited)
=============================================================================
