-------------------------- MODULE MCMergeConstants --------------------------
(***************************************************************************)
(* An instance of Merge in which every argument bit is a constant.         *)
(***************************************************************************)
EXTENDS Merge

F == INSTANCE CallFamilies

Calls3 == F!BoolCalls
Widths == F!BoolWidth
Constant == F!ConstantCallers
=============================================================================
