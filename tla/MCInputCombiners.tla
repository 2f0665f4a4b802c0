-------------------------- MODULE MCInputCombiners --------------------------
(***************************************************************************)
(* An instance of InputCombiners: arguments of an arithmetic module that   *)
(* are two bits of an input variable in reversed order.                    *)
(***************************************************************************)
EXTENDS InputCombiners

L == INSTANCE LinkedFamilies

LinkedCircuits == L!Rotated
Tried == L!Tried
=============================================================================
