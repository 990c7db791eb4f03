---------------------------- MODULE SerialFiles -----------------------------
(***************************************************************************)
(* What concurrent writing promises of the table: it is as if the files    *)
(* stored so far had been written one after the other, each of them whole. *)
(***************************************************************************)
EXTENDS Integers

CONSTANTS Files, Keys, NoRow,
          KeySet,     \* the keys of the rows of each file
          DoUpdate    \* on_conflict is do_update, not do_nothing

VARIABLES table,      \* for each key, whose row there is
          stored      \* the files written

vars == <<table, stored>>

(* The table after a file. *)
With(f) ==
    [k \in Keys |-> IF k \in KeySet[f] /\ (DoUpdate \/ table[k] = NoRow)
                    THEN f ELSE table[k]]

Init ==
    /\ table \in [Keys -> {NoRow, 0}]
    /\ stored = {}

Write(f) ==
    /\ f \notin stored
    /\ stored' = stored \cup {f}
    /\ table' = With(f)

Next == \E f \in Files : Write(f)

Spec == Init /\ [][Next]_vars
=============================================================================
