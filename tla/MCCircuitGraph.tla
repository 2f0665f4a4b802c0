--------------------------- MODULE MCCircuitGraph ---------------------------
(***************************************************************************)
(* CircuitGraph with three addresses, which are enough for a gate between  *)
(* its driver and its reader, and for a gate that is made at the address   *)
(* of a deleted one; a gate may read the same gate with both pins.  The    *)
(* addresses are no symmetry set: linked lists are in the state, and the   *)
(* run checks temporal properties.                                         *)
(***************************************************************************)
EXTENDS CircuitGraph
=============================================================================
