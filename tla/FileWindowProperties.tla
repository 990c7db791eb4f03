------------------------ MODULE FileWindowProperties ------------------------
(***************************************************************************)
(* What FileWindow is expected to satisfy.                                 *)
(***************************************************************************)
EXTENDS FileWindow

(* The logger has written line i of file f, with or without its newline. *)
Logged(f, i) ==
    \/ i <= files[f].n
    \/ i = files[f].n + 1 /\ files[f].part = "text"

(* The table has a value cut short where the file has the whole line. *)
Torn(f, i) == Line(f, i, TRUE) \in table /\ Logged(f, i)

(* A row is read when its line will not change any more: held back in the  *)
(* file that grows, whichever file that becomes between the sort, newestFile *)
(* and the read, and taken as it is in the others (writer.go:701-717,      *)
(* typed_reader.go:325-328).                                               *)
RowsAreFinal == \A f \in 1 .. Newest, i \in 1 .. MaxLines : ~Torn(f, i)

(* Line i of file f has its row. *)
Stored(f, i) == Line(f, i, FALSE) \in table

(* The rows of a file that no run will read again are stored, also the one *)
(* that ends the file without a newline and was held back while the file   *)
(* was the newest, and those of a file that failed once.                   *)
NothingLeftBehind ==
    \A f \in 1 .. Newest - Window, i \in 1 .. MaxLines : Logged(f, i) => Stored(f, i)

(* When the logger stops, every complete line of the files in the window   *)
(* is stored and stays, also when files fail or a run is killed.           *)
CatchesUp ==
    <>[](\A f \in 1 .. Newest :
            f > Newest - Window => \A i \in 1 .. files[f].n : Stored(f, i))
=============================================================================
