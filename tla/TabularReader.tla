--------------------------- MODULE TabularReader ---------------------------
(***************************************************************************)
(* The tabular and columnar file types are read by two pieces of code:     *)
(* `write` goes through ForEachTypedRow (internal/tabular/typed_reader.go) *)
(* and `read` through ReadFileSummaryWithOptions (internal/tabular/        *)
(* reader.go) and ReadTypedFileSummary.  Here `write` reads a file, line   *)
(* by line and twice over, while a logger appends to it, and may read it   *)
(* again from the checkpoint of a row; `read` finds the file as it stands. *)
(*                                                                         *)
(* Simplifications.                                                        *)
(*  - A line is what the readers look at: whether it is blank or has a NUL *)
(*    byte, how often each delimiter occurs in it, whether the timestamp   *)
(*    of its row parses, whether as a header it names the timestamp column *)
(*    (or, TimestampSourceColumns set, whether the columns it names make   *)
(*    one), and `value`, what is stored of its cells.                      *)
(*  - The logger writes a line in one piece or in two.                     *)
(*  - Offsets are numbers of lines; that of a row is the end of its line,  *)
(*    where its checkpoint lies when the last line is held.  GrowingFile   *)
(*    has the bytes, and files that are replaced.                          *)
(*  - No line is longer than maxScanCapacity, the limit of `read` only.    *)
(***************************************************************************)
EXTENDS Integers, Sequences, SequencesExt

CONSTANTS Shapes,      \* lines a logger writes
          Fragments,   \* Fragments[s]: what is seen of s in two pieces, [first, rest]
          Delimiters,  \* the candidates of DetectDelimiter, in their order
          Detect,      \* no delimiter in the configuration
          FromFile,    \* no header_columns in the configuration
          Headers,     \* header_columns, [width, names]
          MaxSkip,     \* bound: skip_lines
          MaxLines     \* bound: lines of the file

Blank == [blank |-> TRUE, nul |-> FALSE, stamped |-> FALSE, names |-> FALSE,
          marks |-> [d \in ToSet(Delimiters) |-> 0], value |-> "none"]

TabularAssumption ==
    /\ Blank \in Shapes
    /\ Detect \notin ToSet(Delimiters)
    /\ FromFile \notin Headers
    /\ Headers \subseteq [width : Nat \ {0}, names : BOOLEAN]

Options == [delimiter : ToSet(Delimiters) \cup {Detect},
            skip : 0 .. MaxSkip,
            columns : Headers \cup {FromFile},
            sources : BOOLEAN]  \* TimestampSourceColumns is set

VARIABLES
    file,     \* sequence of [shape, rest, ended]; only the last may not be ended
    opts,     \* the configuration of the input, which stays
    stage,    \* how far the reading is
    hold,     \* HoldUnterminatedLastLine
    from,     \* StartLineNumber and StartOffset
    at,       \* lines of the file that are passed
    within,   \* the first piece of the next line is passed, too
    skipped,  \* of opts.skip
    head,     \* what resolveHeaderAndDelimiter returned
    line,     \* lineNumber
    got,      \* the rows handed to the caller, [line, next, value]
    early,    \* an unended line was read before the rows
    grown     \* the logger has written since the reading began

reading == <<stage, hold, from, at, within, skipped, head, line, got, early>>
vars == <<file, opts, reading, grown>>

FromStart == [line |-> 0, next |-> 0]

NoHead == [delimiter |-> Detect, width |-> 0, names |-> FALSE, columns |-> "none"]

Init ==
    /\ file = <<>>
    /\ opts \in Options
    /\ stage = "closed"
    /\ hold = FALSE
    /\ from = FromStart
    /\ at = 0
    /\ within = FALSE
    /\ skipped = 0
    /\ head = NoHead
    /\ line = 0
    /\ got = {}
    /\ early = FALSE
    /\ grown = FALSE

-----------------------------------------------------------------------------
(* The logger. *)

Unended(f) == f # <<>> /\ ~Last(f).ended

WriteLine(s) ==
    /\ ~Unended(file)
    /\ Len(file) < MaxLines
    /\ file' = Append(file, [shape |-> s, rest |-> Blank, ended |-> TRUE])
    /\ grown' = TRUE
    /\ UNCHANGED <<opts, reading>>

WriteFragment(s) ==
    /\ ~Unended(file)
    /\ Len(file) < MaxLines
    /\ \E p \in Fragments[s] :
           file' = Append(file, [shape |-> p.first, rest |-> Blank, ended |-> FALSE])
    /\ grown' = TRUE
    /\ UNCHANGED <<opts, reading>>

EndLine(s) ==
    /\ Unended(file)
    /\ \E p \in Fragments[s] :
           /\ p.first = Last(file).shape
           /\ file' = Append(Front(file), [shape |-> s, rest |-> p.rest, ended |-> TRUE])
    /\ grown' = TRUE
    /\ UNCHANGED <<opts, reading>>

-----------------------------------------------------------------------------
(* Shared by both. *)

Cells(s, d) == s.marks[d] + 1

(* The delimiter that occurs most, the first one of those that tie. *)
DetectDelimiter(s) ==
    LET n(i) == s.marks[Delimiters[i]]
    IN Delimiters[CHOOSE i \in DOMAIN Delimiters :
                     \A j \in DOMAIN Delimiters :
                         n(j) < n(i) \/ (n(j) = n(i) /\ i <= j)]

NeedsText(o) == o.columns = FromFile \/ o.delimiter = Detect

(* The delimiter and the header, from text s if they need one. *)
HeadFrom(o, s) ==
    LET d == IF o.delimiter # Detect THEN o.delimiter ELSE DetectDelimiter(s)
    IN IF o.columns = FromFile
       THEN [delimiter |-> d, width |-> Cells(s, d), names |-> s.names, columns |-> s.value]
       ELSE [delimiter |-> d, width |-> o.columns.width, names |-> o.columns.names,
             columns |-> "configured"]

-----------------------------------------------------------------------------
(* ForEachTypedRow.                                                        *)

(* readLine: up to a newline, or to where the file ends by now. *)
AtEnd == IF within THEN ~file[at + 1].ended ELSE at = Len(file)
Piece == IF within THEN file[at + 1].rest ELSE file[at + 1].shape
Ended == file[at + 1].ended

ReadLine ==
    /\ ~AtEnd
    /\ at' = IF Ended THEN at + 1 ELSE at
    /\ within' = ~Ended

(* The lines before the rows are read whether they are ended or not. *)
ReadEarly ==
    /\ ReadLine
    /\ early' = (early \/ ~Ended)

Open ==
    /\ stage \in {"closed", "done", "failed"}
    /\ hold' \in BOOLEAN
    /\ from' \in {FromStart}
           \cup {[line |-> r.line, next |-> r.next] : r \in IF hold THEN got ELSE {}}
    /\ stage' = "resolve"
    /\ at' = 0 /\ within' = FALSE
    /\ skipped' = 0 /\ line' = from'.line
    /\ head' = NoHead
    /\ got' = {}
    /\ early' = (early /\ from' # FromStart)
    /\ grown' = FALSE
    /\ UNCHANGED <<file, opts>>

(* resolveHeaderAndDelimiter. *)
PassSkipped ==
    /\ stage = "resolve"
    /\ skipped < opts.skip
    /\ ReadEarly
    /\ skipped' = skipped + 1
    /\ UNCHANGED <<file, opts, stage, hold, from, head, line, got, grown>>

PassBlank ==
    /\ stage = "resolve"
    /\ skipped = opts.skip /\ NeedsText(opts)
    /\ ReadEarly
    /\ Piece.blank
    /\ UNCHANGED <<file, opts, stage, hold, from, skipped, head, line, got, grown>>

FileIsEmpty ==
    /\ stage = "resolve"
    /\ skipped < opts.skip \/ NeedsText(opts)
    /\ AtEnd
    /\ stage' = "failed"
    /\ UNCHANGED <<file, opts, hold, from, at, within, skipped, head, line, got, early, grown>>

(* Mutant: the lines before the rows are passed when a run resumes, too. *)
AlwaysPasses == "pass"

AfterSeek == IF from.next = 0 THEN "pass" ELSE "rows"

(* The header, and the Seek to StartOffset. *)
Resolve ==
    /\ stage = "resolve"
    /\ skipped = opts.skip
    /\ IF NeedsText(opts)
       THEN ~AtEnd /\ ~Piece.blank /\ head' = HeadFrom(opts, Piece) /\ early' = (early \/ ~Ended)
       ELSE head' = HeadFrom(opts, Blank) /\ UNCHANGED early
    /\ stage' = AfterSeek
    /\ at' = from.next /\ within' = FALSE
    /\ skipped' = 0
    /\ UNCHANGED <<file, opts, hold, from, line, got, grown>>

(* The lines before the rows once more, now counted. *)
CountSkipped ==
    /\ stage = "pass"
    /\ skipped < opts.skip
    /\ ReadEarly
    /\ skipped' = skipped + 1 /\ line' = line + 1
    /\ UNCHANGED <<file, opts, stage, hold, from, head, got, grown>>

CountHeader ==
    /\ stage = "pass"
    /\ skipped = opts.skip /\ opts.columns = FromFile
    /\ ReadEarly
    /\ line' = line + 1
    /\ stage' = IF Piece.blank THEN stage ELSE "rows"
    /\ UNCHANGED <<file, opts, hold, from, skipped, head, got, grown>>

WithoutHeader ==
    /\ stage = "pass"
    /\ skipped = opts.skip /\ opts.columns # FromFile
    /\ stage' = "rows"
    /\ UNCHANGED <<file, opts, hold, from, at, within, skipped, head, line, got, early, grown>>

(* The file has fewer lines than before: they were read in pieces then. *)
EndBeforeRows ==
    /\ stage = "pass"
    /\ skipped < opts.skip \/ opts.columns = FromFile
    /\ AtEnd
    /\ stage' = IF skipped < opts.skip THEN "done" ELSE "failed"
    /\ UNCHANGED <<file, opts, hold, from, at, within, skipped, head, line, got, early, grown>>

(* Mutant: the last line is never held. *)
NeverHeld == FALSE

Held == hold /\ ~AtEnd /\ ~Ended

IsRow(h, s) ==
    /\ ~s.blank /\ ~s.nul
    /\ Cells(s, h.delimiter) = h.width
    /\ s.stamped /\ h.names

ReadRow ==
    /\ stage = "rows"
    /\ ReadLine
    /\ ~Held
    /\ line' = line + 1
    /\ got' = IF IsRow(head, Piece)
              THEN got \cup {[line |-> line + 1, next |-> at + 1, value |-> Piece.value]}
              ELSE got
    /\ UNCHANGED <<file, opts, stage, hold, from, skipped, head, early, grown>>

EndRows ==
    /\ stage = "rows"
    /\ AtEnd \/ Held
    /\ stage' = "done"
    /\ UNCHANGED <<file, opts, hold, from, at, within, skipped, head, line, got, early, grown>>

-----------------------------------------------------------------------------

Next ==
    \/ \E s \in Shapes : WriteLine(s) \/ WriteFragment(s) \/ EndLine(s)
    \/ Open
    \/ PassSkipped
    \/ PassBlank
    \/ FileIsEmpty
    \/ Resolve
    \/ CountSkipped
    \/ CountHeader
    \/ WithoutHeader
    \/ EndBeforeRows
    \/ ReadRow
    \/ EndRows

Spec == Init /\ [][Next]_vars

-----------------------------------------------------------------------------
(* What ReadFileSummaryWithOptions, whose header ReadTypedFileSummary      *)
(* takes, makes of file f as it stands.                                    *)

(* The first line after line k that is not blank, if there is one. *)
TextAfter(f, k) == {i \in k + 1 .. Len(f) :
                       /\ ~f[i].shape.blank
                       /\ \A j \in k + 1 .. i - 1 : f[j].shape.blank}

TheText(f, k) == CHOOSE i \in TextAfter(f, k) : TRUE

HeadOf(f, o) ==
    HeadFrom(o, IF NeedsText(o) THEN f[TheText(f, o.skip)].shape ELSE Blank)

PreviewFails(f, o) ==
    \/ NeedsText(o) /\ TextAfter(f, o.skip) = {}
    \/ HeadOf(f, o).width < 2

(* Mutant: the line the delimiter was found in is not counted. *)
CountedAfterSample(f, o) ==
    LET first == IF NeedsText(o) THEN TheText(f, o.skip) + 1 ELSE o.skip + 1
    IN {i \in first .. Len(f) : ~f[i].shape.blank}

(* RowCount. With header_columns and no delimiter, the line the delimiter  *)
(* was found in is a row too.                                              *)
Counted(f, o) ==
    LET first == IF ~NeedsText(o) THEN o.skip + 1
                 ELSE IF o.columns = FromFile THEN TheText(f, o.skip) + 1
                 ELSE TheText(f, o.skip)
    IN {i \in first .. Len(f) : ~f[i].shape.blank}

(* WellFormedRowCount; the others are MalformedRowCount. *)
WellFormed(f, o) ==
    {i \in Counted(f, o) : Cells(f[i].shape, HeadOf(f, o).delimiter) = HeadOf(f, o).width}

(* ParseErrorCount, of the timestamp.  One made of several columns is an   *)
(* error of every row when the header lacks them; a timestamp column that  *)
(* the header lacks is none.                                               *)
TimestampErrors(f, o) ==
    {i \in WellFormed(f, o) :
        IF HeadOf(f, o).names THEN ~f[i].shape.stamped ELSE o.sources}
=============================================================================
