---------------------- MODULE TabularReaderProperties ----------------------
(* What TabularReader is expected to satisfy.                              *)
EXTENDS TabularReader

(* The lines before the first row. *)
BeforeRows(f, o) == IF o.columns = FromFile THEN TheText(f, o.skip) ELSE o.skip

HasHead(f, o) ==
    /\ o.skip <= Len(f)
    /\ NeedsText(o) => TextAfter(f, o.skip) # {}

(* The rows of a file at rest: its ended lines after the header that are   *)
(* rows under it, each with the number of its line.                        *)
Rows(f, o) ==
    IF ~HasHead(f, o) THEN {}
    ELSE {[line |-> i, next |-> i, value |-> f[i].shape.value] :
            i \in {n \in BeforeRows(f, o) + 1 .. Len(f) :
                     f[n].ended /\ IsRow(HeadOf(f, o), f[n].shape)}}

(* The rows of the file between the start of the reading and its place.    *)
RowsPassed == {r \in Rows(file, opts) : from.next < r.next /\ r.next <= at}

(* ... handed over under its header, columns and delimiter. *)
ReadAsFile == got = RowsPassed /\ head = HeadOf(file, opts)

ReadsRows == stage \in {"rows", "done"} /\ hold /\ ~early

(* With the last line held and the lines before the rows ended when they   *)
(* were read, what a run is handed while the logger writes is, at any time *)
(* after, what the file holds: no row is corrected, withdrawn, renumbered  *)
(* or missing when lines are ended and added between the two passes and    *)
(* between the rows (typed_reader.go:45-50,261-358).                       *)
GrowingOnlyAddsRows == ReadsRows /\ from = FromStart => ReadAsFile

(* A run that starts at the checkpoint of any row of another is handed the *)
(* rows after it, under the header of the file and with the numbers of     *)
(* their lines: nothing before the rows is passed again or counted         *)
(* (typed_reader.go:272-314, writer.go:233-240).                           *)
ResumesAfterAnyRow == ReadsRows /\ from # FromStart => ReadAsFile

(* What `read` shows of a file is what `write` does that finds it so:      *)
(* every row stored was counted as well formed without an error in its     *)
(* timestamp, and every row so counted is stored unless it has a NUL byte, *)
(* the header lacks the timestamp column, or it is the unended last line   *)
(* that `write` holds of the newest file (reader.go:31-219,                *)
(* typed_reader.go:93-252 and 254-358).                                    *)
PreviewForetellsRows ==
    stage = "done" /\ ~grown /\ from = FromStart /\ ~PreviewFails(file, opts) =>
        LET stored == {r.next : r \in got}
            sound == WellFormed(file, opts) \ TimestampErrors(file, opts)
        IN /\ stored \subseteq sound
           /\ \A i \in sound \ stored :
                  \/ file[i].shape.nul
                  \/ ~HeadOf(file, opts).names
                  \/ hold /\ i = Len(file) /\ Unended(file)

(* README.md:122 and typed_reader.go:45-50: of the file that may grow, a   *)
(* last line without its newline is not read, it is taken whole by a later *)
(* run.  So no row is ever stored under a head cut short.                  *)
NoRowUnderCutHead == hold /\ got # {} => head = HeadOf(file, opts)
=============================================================================
