----------------------------- MODULE LoggedRows -----------------------------
(***************************************************************************)
(* What the collector promises of a growing file, without its offsets,     *)
(* checkpoints, transactions and state file.  A logger writes lines to     *)
(* files; the rows of a file reach the table in the order of the file,     *)
(* without a gap, and none is ever removed (README.md:98, 114-122).        *)
(*                                                                         *)
(* The promise is not made of an excused file: one the collector began to  *)
(* read at an offset it had taken in another file.                         *)
(***************************************************************************)
EXTENDS Integers, Sequences

CONSTANTS Kinds,      \* the kinds of lines
          DataKinds   \* those that hold a row

VARIABLES logged,     \* for each file, the kinds of its complete lines
          stored,     \* the rows in the table, by file and line
          excused     \* files of which nothing is promised

vars == <<logged, stored, excused>>

Rows(g) ==
    {[gen |-> g, idx |-> i] :
        i \in {j \in 1..Len(logged[g]) : logged[g][j] \in DataKinds}}

Init ==
    /\ Len(logged) = 1
    /\ stored = {}
    /\ excused = {}

(* The logger completes a line of a file. *)
Log(g, kind) ==
    /\ logged' = [logged EXCEPT ![g] = Append(@, kind)]
    /\ UNCHANGED <<stored, excused>>

(* The logger starts another file. *)
Create ==
    /\ Len(logged') = Len(logged) + 1
    /\ \A g \in 1..Len(logged) : logged'[g] = logged[g]
    /\ UNCHANGED <<stored, excused>>

(* The collector stores the rows of the first n lines. *)
StoreUpTo(g, n) ==
    /\ g \notin excused
    /\ stored' = stored \cup {r \in Rows(g) : r.idx <= n}
    /\ UNCHANGED <<logged, excused>>

(* The collector stores some rows of an excused file. *)
StoreSome(g) ==
    /\ g \in excused
    /\ stored \subseteq stored'
    /\ stored' \ stored \subseteq Rows(g)
    /\ UNCHANGED <<logged, excused>>

Excuse(g) ==
    /\ excused' = excused \cup {g}
    /\ UNCHANGED <<logged, stored>>

Next ==
    \/ Create
    \/ \E g \in 1..Len(logged) :
          \/ \E kind \in Kinds : Log(g, kind)
          \/ \E n \in 0..Len(logged[g]) : StoreUpTo(g, n)
          \/ StoreSome(g)
          \/ Excuse(g)

Spec == Init /\ [][Next]_vars
=============================================================================
