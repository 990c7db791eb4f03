-------------------------- MODULE WebdynsunReader --------------------------
(***************************************************************************)
(* The reader of WebdynSun files (internal/tabular/webdynsun_reader.go):   *)
(* one block per inverter, with a line for its address, a line for its     *)
(* type, a line of column numbers and the rows.  The reader keeps the last *)
(* address and type it has seen and adds them to every row; `read` and     *)
(* `write` share it.                                                       *)
(*                                                                         *)
(* Simplifications.                                                        *)
(*  - A line is what the reader makes of it: a row is a line with as many  *)
(*    cells as header_columns, a first cell that is not a number and a     *)
(*    timestamp; "other" is a line that is blank, has another number of    *)
(*    cells or no timestamp.  A timestamp of digits only is a line of      *)
(*    columns for the reader.                                              *)
(*  - The file is made up as it is read.                                   *)
(***************************************************************************)
EXTENDS Naturals, Sequences

CONSTANTS Addresses,      \* numbers after ADDR
          Types,          \* texts after TypeINV;
          HasTypeColumn,  \* webdynsun.type_column is set
          Unreadable,     \* after ADDR there is no number
          None,
          MaxLines        \* bound: lines of the file

WebdynsunAssumption ==
    /\ {Unreadable, None} \cap (Addresses \cup Types) = {}
    /\ Unreadable # None
    /\ HasTypeColumn \in BOOLEAN

VARIABLES
    file,     \* the lines read
    addr,     \* webdynsunState: None until there is one
    typeInv,
    rows,     \* the rows handed to the caller
    reading

state == <<addr, typeInv>>
vars == <<file, state, rows, reading>>

Lines ==
    [is : {"address"}, value : Addresses \cup {Unreadable}]
        \cup [is : {"type"}, value : Types]
        \cup [is : {"columns", "row", "other"}, value : {None}]

Init ==
    /\ file = <<>>
    /\ addr = None
    /\ typeInv = None
    /\ rows = <<>>
    /\ reading = TRUE

ReadLine(l) ==
    /\ reading
    /\ Len(file) < MaxLines
    /\ file' = Append(file, l)

(* Mutant: an address is kept once there is one. *)
FirstAddr(value) == IF value = Unreadable \/ addr # None THEN addr ELSE value

NewAddr(value) == IF value = Unreadable THEN addr ELSE value

UpdateAddr(l) ==
    /\ l.is = "address"
    /\ ReadLine(l)
    /\ addr' = NewAddr(l.value)
    /\ UNCHANGED <<typeInv, rows, reading>>

UpdateType(l) ==
    /\ l.is = "type"
    /\ ReadLine(l)
    /\ typeInv' = l.value
    /\ UNCHANGED <<addr, rows, reading>>

(* Blank lines, lines of column numbers, lines that make no row. *)
PassOver(l) ==
    /\ l.is \in {"columns", "other"}
    /\ ReadLine(l)
    /\ UNCHANGED <<state, rows, reading>>

Inject(n) ==
    [line |-> n, addr |-> addr, type |-> IF HasTypeColumn THEN typeInv ELSE None]

HandRow(l) ==
    /\ l.is = "row"
    /\ ReadLine(l)
    /\ rows' = Append(rows, Inject(Len(file) + 1))
    /\ UNCHANGED <<state, reading>>

(* The caller does not take the row, or the scanner fails: no more lines.  *)
(* So does the end of the file.                                            *)
Stop ==
    /\ reading
    /\ reading' = FALSE
    /\ UNCHANGED <<file, state, rows>>

Next ==
    \/ \E l \in Lines : UpdateAddr(l)
    \/ \E l \in Lines : UpdateType(l)
    \/ \E l \in Lines : PassOver(l)
    \/ \E l \in Lines : HandRow(l)
    \/ Stop

Spec == Init /\ [][Next]_vars
=============================================================================
