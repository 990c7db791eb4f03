----------------------------- MODULE MCRowBatch -----------------------------
(***************************************************************************)
(* Instances of RowBatch.  A row has one of the two columns or both, that  *)
(* is five or six parameters: of 17 parameters a statement takes three     *)
(* rows or two, and three is the configured batch size.  There are three   *)
(* keys, or it would never be reached.                                     *)
(***************************************************************************)
EXTENDS RowBatchProperties

CONSTANTS k1, k2, k3, s1, s2, s3, c1, c2

(* A key prints in one way. *)
MCKeyOf == [s \in {s1, s2, s3} |-> CASE s = s1 -> k1 [] s = s2 -> k2 [] OTHER -> k3]

(* Key k1 prints in two ways: an instant in two time zones. *)
MCSpellings == [s \in {s1, s2, s3} |-> IF s = s1 THEN k2 ELSE k1]

MCColumnSets == {{c1, c2}, {c1}}

(* An earlier run wrote 9 in every column of the rows it stored. *)
MCTables ==
    [Keys -> {Absent, [c \in Columns |-> 9]}]
=============================================================================
