------------------------ MODULE MCReachingDefsDoWhile ------------------------
(* ReachingDefs on the functions with a do-while loop of LoopPrograms.       *)
EXTENDS ReachingDefs, LoopPrograms
=============================================================================
