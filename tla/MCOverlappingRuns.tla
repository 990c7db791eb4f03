------------------------- MODULE MCOverlappingRuns -------------------------
(* OverlappingRuns for TLC, with the lines of MCGrowingFile.               *)
EXTENDS OverlappingRuns, TLC

MCWidth == [kind \in Kinds |-> IF kind = "bad" THEN 1 ELSE 2]
=============================================================================
