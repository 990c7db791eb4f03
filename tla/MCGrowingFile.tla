--------------------------- MODULE MCGrowingFile ---------------------------
(* GrowingFile for TLC: a blank line is one byte, any other line is two,   *)
(* so that an offset of one file can fall inside a line of another.        *)
EXTENDS GrowingFileProperties, TLC

MCWidth == [kind \in Kinds |-> IF kind = "bad" THEN 1 ELSE 2]

Names == Permutations(Paths)
=============================================================================
