------------------------------ MODULE RowByRow ------------------------------
(***************************************************************************)
(* What writing one file to a table means, without batches: the rows take  *)
(* effect one after the other, a later one over an earlier one of the same *)
(* key, and become visible all together or not at all.                     *)
(***************************************************************************)
EXTENDS Integers

CONSTANTS Keys, Columns, ColumnSets, Tables, Absent

VARIABLES count,     \* rows written so far
          written,   \* the table as the writer sees it
          visible,   \* the table as everyone else sees it
          status     \* "reading", "committed" or "failed"

vars == <<count, written, visible, status>>

(* The columns a row does not have keep their values, or are null. *)
Write(old, cs, v) ==
    [c \in Columns |->
        IF c \in cs THEN v ELSE IF old = Absent THEN 0 ELSE old[c]]

Init ==
    /\ count = 0
    /\ written \in Tables
    /\ visible = written
    /\ status = "reading"

WriteRow(k, cs) ==
    /\ status = "reading"
    /\ count' = count + 1
    /\ written' = [written EXCEPT ![k] = Write(written[k], cs, count')]
    /\ UNCHANGED <<visible, status>>

Commit ==
    /\ status = "reading"
    /\ status' = "committed"
    /\ visible' = written
    /\ UNCHANGED <<count, written>>

Fail ==
    /\ status = "reading"
    /\ status' = "failed"
    /\ written' = visible
    /\ UNCHANGED <<count, visible>>

Next ==
    \/ \E k \in Keys, cs \in ColumnSets : WriteRow(k, cs)
    \/ Commit
    \/ Fail

Spec == Init /\ [][Next]_vars
=============================================================================
