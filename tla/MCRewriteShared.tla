-------------------------- MODULE MCRewriteShared ---------------------------
(***************************************************************************)
(* Rewrite on trees of ORs with an XOR above them that reads a gate in the *)
(* middle of the tree.                                                     *)
(***************************************************************************)

EXTENDS Rewrite, Families

SharedTree == Family(<<"OR", "OR", "OR", "XOR">>)
=============================================================================
