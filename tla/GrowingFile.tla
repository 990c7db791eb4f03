---------------------------- MODULE GrowingFile ----------------------------
(***************************************************************************)
(* One growing_file input of file-collector, run over and over by the      *)
(* scheduler while a logger appends to the file, replaces it or starts a   *)
(* new one.                                                                *)
(*                                                                         *)
(* A run (main.go resolveFilesFromInput, writer.go writeSingleFile,        *)
(* typed_reader.go ForEachTypedRow, state.go) is cut where the world may   *)
(* change or the process may stop between two of its effects: the load of  *)
(* the state file, the first os.Stat, os.Open, every line read, the        *)
(* database commit, the export of the .prom file, the second os.Stat and   *)
(* the two halves of os.WriteFile (truncate, then write).                  *)
(*                                                                         *)
(* Simplifications.                                                        *)
(*  - files[g] is the g-th inode ("generation") the logger created; dir    *)
(*    maps a name to the inode it denotes.  Shrinking is a new inode under *)
(*    the same name.  A file is created with its head lines complete.      *)
(*  - A line is its kind and the byte offset where it ends: "row" is       *)
(*    stored, "nan" is stored but its metric is not exportable, "bad" is   *)
(*    reported and skipped (blank, NUL bytes, wrong column count, no       *)
(*    timestamp), "head" is a skipped or header line.                      *)
(*  - The rows of the files have distinct primary keys; a key repeated in  *)
(*    a batch is the subject of RowBatch.                                  *)
(*  - Every write to a file changes its mtime (clock).                     *)
(*  - Runs of the same input do not overlap; in OverlappingRuns they do.   *)
(***************************************************************************)
EXTENDS ResumeState, FiniteSets

CONSTANTS Width,        \* bytes of a line of each kind, its newline included
          HeadLines,    \* skip_lines and the header line, 0 with header_columns
          DoUpdate,     \* on_conflict is do_update, not do_nothing
          PromEnabled,  \* input.PrometheusTextfile.Enabled
          NoRow,        \* latestRow is nil, or no .prom file yet
          MaxLines,     \* bound: lines of a file after its head
          MaxGens,      \* bound: files ever created
          MaxTail,      \* bound: bytes of an unterminated last line
          MaxFailures   \* bound: runs that fail or are killed

Kinds == {"head", "row", "nan", "bad"}
DataKinds == {"row", "nan"}

ASSUME GrowingFileAssumption ==
    /\ Paths # {}
    /\ Width \in [Kinds -> Nat \ {0}]
    /\ HeadLines \in Nat
    /\ DoUpdate \in BOOLEAN
    /\ PromEnabled \in BOOLEAN

Line == [kind : Kinds, end : Nat \ {0}]
File == [path : Paths, lines : Seq(Line), tail : Nat, mtime : Nat]

(* A stored row: the line idx of files[gen] it came from, the value of its *)
(* source_line_number column, and whether the whole line was read.         *)
Row == [gen : Nat, idx : Nat, num : Nat, whole : BOOLEAN]

VARIABLES
    dir,       \* the directory: the generation each name denotes, 0 if none
    files,     \* every file the logger created, in order
    clock,     \* time of the last write to a file
    state,     \* the state file: NoState, Corrupt or a FileState
    db,        \* the rows of the destination table
    prom,      \* the row whose values the .prom file holds
    pc,        \* where the current run stands, "idle" between runs
    path,      \* files[0] of the run
    loaded,    \* existingState
    gen,       \* the open file; before os.Open, that of the resume checkpoint
    off,       \* currentOffset (StartOffset before os.Open)
    line,      \* lineNumber (StartLineNumber before os.Open)
    tx,        \* rows inserted by the open transaction
    cks,       \* checkpoints
    last,      \* latestRow
    pending,   \* the state about to be saved
    misplaced, \* ghost: generations read from another one's checkpoint
    failures   \* bound counter: failed runs

logger == <<dir, files, clock>>
locals == <<path, loaded, gen, off, line, tx, cks, last, pending>>
vars == <<logger, state, db, prom, pc, locals, misplaced, failures>>

-----------------------------------------------------------------------------
(* Files. *)

EndOf(lines, i) == IF i = 0 THEN 0 ELSE lines[i].end
LinesEnd(lines) == EndOf(lines, Len(lines))
Size(g) == LinesEnd(files[g].lines) + files[g].tail

HeadOf(n) == [i \in 1..n |-> [kind |-> "head", end |-> i * Width["head"]]]

NewFile(p, t) ==
    [path |-> p, lines |-> HeadOf(HeadLines), tail |-> 0, mtime |-> t]

(* The lines that hold a row. *)
DataLines(lines) == {i \in 1..Len(lines) : lines[i].kind \in DataKinds}

Newest == Len(files)

-----------------------------------------------------------------------------
(* The table: INSERT ... ON CONFLICT of a transaction's rows.  The key of  *)
(* a row is its timestamp; a row cut short has a key of its own.           *)

Key(r) == <<r.gen, r.idx, r.whole>>

Upsert(table, rows) ==
    IF DoUpdate
    THEN rows \cup {r \in table : \A q \in rows : Key(q) # Key(r)}
    ELSE table \cup {r \in rows : \A q \in table : Key(q) # Key(r)}

Holds(table, g, i) == \E r \in table : r.gen = g /\ r.idx = i /\ r.whole

-----------------------------------------------------------------------------
(* The logger. *)

LogUnchanged ==
    UNCHANGED <<state, db, prom, pc, locals, misplaced, failures>>

(* What is left of file f by a write. *)
Written(f, lines, tail) ==
    [path |-> f.path, lines |-> lines, tail |-> tail, mtime |-> clock + 1]

NextLine(f, kind) == [kind |-> kind, end |-> LinesEnd(f.lines) + Width[kind]]

(* It completes a line, the one it had begun if any. *)
AppendLine(kind) ==
    LET f == files[Newest] IN
    /\ Len(f.lines) < HeadLines + MaxLines
    /\ Width[kind] > f.tail
    /\ clock' = clock + 1
    /\ files' = [files EXCEPT ![Newest] =
                    Written(f, Append(f.lines, NextLine(f, kind)), 0)]
    /\ UNCHANGED dir
    /\ LogUnchanged

(* It writes the beginning of a line. *)
AppendPartial ==
    LET f == files[Newest] IN
    /\ Len(f.lines) < HeadLines + MaxLines
    /\ f.tail < MaxTail
    /\ clock' = clock + 1
    /\ files' = [files EXCEPT ![Newest] = Written(f, f.lines, f.tail + 1)]
    /\ UNCHANGED dir
    /\ LogUnchanged

(* It starts another file, under a new name or in place of the old one. *)
Rotate(p) ==
    /\ Newest < MaxGens
    /\ clock' = clock + 1
    /\ files' = Append(files, NewFile(p, clock + 1))
    /\ dir' = [dir EXCEPT ![p] = Newest + 1]
    /\ LogUnchanged

-----------------------------------------------------------------------------
(* The run. *)

EndRun ==
    /\ pc' = "idle"
    /\ path' = path
    /\ loaded' = NoState
    /\ gen' = 0
    /\ off' = 0
    /\ line' = 0
    /\ tx' = {}
    /\ cks' = <<>>
    /\ last' = NoRow
    /\ pending' = NoState

(* resolveFilesFromInput: the most recently modified file. *)
Unsorted == {p \in Paths : dir[p] # 0}
Resolved == {files[Newest].path}

StartRun ==
    /\ pc = "idle"
    /\ pc' = "load"
    /\ path' \in Resolved
    /\ UNCHANGED <<logger, state, db, prom, loaded, gen, off, line, tx, cks,
                   last, pending, misplaced, failures>>

(* json.Unmarshal accepts what the state file holds. *)
AnyReadable == TRUE
Readable == state # Corrupt

LoadState ==
    /\ pc = "load"
    /\ Readable
    /\ pc' = "plan"
    /\ loaded' = state
    /\ UNCHANGED <<logger, state, db, prom, path, gen, off, line, tx, cks,
                   last, pending, misplaced, failures>>

(* "load resume state: ..." *)
LoadFails ==
    /\ pc = "load"
    /\ ~ Readable
    /\ EndRun
    /\ UNCHANGED <<logger, state, db, prom, misplaced, failures>>

(* os.Stat finds the file as the state describes it. *)
Unchanged == Same(loaded, path, Size(dir[path]), files[dir[path]].mtime)

SkipUnchanged ==
    /\ pc = "plan"
    /\ Unchanged
    /\ EndRun
    /\ UNCHANGED <<logger, state, db, prom, misplaced, failures>>

(* buildResumePlan. *)
Plan ==
    /\ pc = "plan"
    /\ ~ Unchanged
    /\ LET from == ResumePoint(loaded, path, Size(dir[path])) IN
         /\ off' = from.next
         /\ line' = from.line
         /\ gen' = from.gen
    /\ pc' = "open"
    /\ UNCHANGED <<logger, state, db, prom, path, loaded, tx, cks, last,
                   pending, misplaced, failures>>

(* From offset 0 the skipped lines and the header are passed over. *)
Passed == IF off = 0 THEN HeadLines ELSE 0

(* BeginTx and os.Open. *)
OpenFile ==
    /\ pc = "open"
    /\ pc' = "read"
    /\ gen' = dir[path]
    /\ line' = line + Passed
    /\ off' = IF off = 0 THEN EndOf(files[dir[path]].lines, HeadLines) ELSE off
    /\ misplaced' = IF off > 0 /\ gen # dir[path]
                    THEN misplaced \cup {dir[path]} ELSE misplaced
    /\ UNCHANGED <<logger, state, db, prom, path, loaded, tx, cks, last,
                   pending, failures>>

(* The next readLine returns line i of the open file, or what is left of   *)
(* it from off.                                                            *)
IsNextLine(i) ==
    /\ EndOf(files[gen].lines, i - 1) <= off
    /\ off < files[gen].lines[i].end

IsWhole(i) == off = EndOf(files[gen].lines, i - 1)

AdvancePastRows(i) ==
    /\ line' = IF files[gen].lines[i].kind \in DataKinds THEN line + 1 ELSE line
    /\ off' = files[gen].lines[i].end

Advance(i) ==
    /\ line' = line + 1
    /\ off' = files[gen].lines[i].end

(* latestRow after a row. *)
LatestRow(row) == row

(* The callback of writeSingleFile gets the row. *)
ReadRow(i) ==
    /\ pc = "read"
    /\ IsNextLine(i)
    /\ files[gen].lines[i].kind \in DataKinds
    /\ Advance(i)
    /\ LET row == [gen |-> gen, idx |-> i, num |-> line + 1,
                   whole |-> IsWhole(i)] IN
         /\ tx' = tx \cup {row}
         /\ last' = LatestRow(row)
    /\ cks' = TrimCheckpoints(Append(cks,
                 [line |-> line + 1, next |-> files[gen].lines[i].end,
                  gen |-> gen]))
    /\ UNCHANGED <<logger, state, db, prom, pc, path, loaded, gen, pending,
                   misplaced, failures>>

(* A malformed line, or one cut short: its columns do not match. *)
SkipLine(i) ==
    /\ pc = "read"
    /\ IsNextLine(i)
    /\ files[gen].lines[i].kind \notin DataKinds \/ ~ IsWhole(i)
    /\ Advance(i)
    /\ UNCHANGED <<logger, state, db, prom, pc, path, loaded, gen, tx, cks,
                   last, pending, misplaced, failures>>

(* What follows the last line: nothing is exported or saved before the     *)
(* commit.                                                                 *)
AfterSave == "stat"
AfterExport == "export"
AfterLastLine == "commit"

EndOfFile ==
    /\ pc = "read"
    /\ LinesEnd(files[gen].lines) <= off
    /\ pc' = AfterLastLine
    /\ UNCHANGED <<logger, state, db, prom, locals, misplaced, failures>>

(* The batches are flushed before the commit, the last one included. *)
LastRowStored == Upsert(db, IF last = NoRow THEN {} ELSE {last})
Committed == Upsert(db, tx)

CommitTx ==
    /\ pc = "commit"
    /\ pc' = "export"
    /\ db' = Committed
    /\ tx' = {}
    /\ UNCHANGED <<logger, state, prom, path, loaded, gen, off, line, cks,
                   last, pending, misplaced, failures>>

Exportable(r) == files[r.gen].lines[r.idx].kind # "nan"

ExportMetrics ==
    /\ pc = "export"
    /\ pc' = "stat"
    /\ IF PromEnabled /\ last # NoRow
       THEN Exportable(last) /\ prom' = last
       ELSE prom' = prom
    /\ UNCHANGED <<logger, state, db, locals, misplaced, failures>>

(* valueAsPromFloat refuses the value: the run ends with the rows          *)
(* committed and the state not saved.                                      *)
ExportFails ==
    /\ pc = "export"
    /\ PromEnabled /\ last # NoRow
    /\ ~ Exportable(last)
    /\ EndRun
    /\ UNCHANGED <<logger, state, db, prom, misplaced, failures>>

(* A run that gave no checkpoint keeps those it loaded. *)
OwnCheckpoints == cks
KeptCheckpoints == IF loaded # NoState /\ cks = <<>> THEN loaded.cks ELSE cks

(* The second os.Stat. *)
StatAgain ==
    /\ pc = "stat"
    /\ pc' = "truncate"
    /\ pending' = [path |-> path,
                   size |-> Size(dir[path]),
                   mtime |-> files[dir[path]].mtime,
                   cks |-> KeptCheckpoints,
                   read |-> [gen |-> gen, next |-> off]]
    /\ UNCHANGED <<logger, state, db, prom, path, loaded, gen, off, line, tx,
                   cks, last, misplaced, failures>>

(* os.WriteFile opens the state file with O_TRUNC ... *)
TruncateState ==
    /\ pc = "truncate"
    /\ pc' = "save"
    /\ state' = Corrupt
    /\ UNCHANGED <<logger, db, prom, locals, misplaced, failures>>

(* ... and writes it. *)
SaveState ==
    /\ pc = "save"
    /\ state' = pending
    /\ EndRun
    /\ UNCHANGED <<logger, db, prom, misplaced, failures>>

(* The process is killed, or the next call of the run returns an error:    *)
(* the open transaction is rolled back, what was done before stays.        *)
RunFails ==
    /\ pc # "idle"
    /\ failures < MaxFailures
    /\ failures' = failures + 1
    /\ EndRun
    /\ UNCHANGED <<logger, state, db, prom, misplaced>>

-----------------------------------------------------------------------------

Logs ==
    \/ \E kind \in Kinds \ {"head"} : AppendLine(kind)
    \/ AppendPartial
    \/ \E p \in Paths : Rotate(p)

Reads == \E i \in 1..Len(files[gen].lines) : ReadRow(i) \/ SkipLine(i)

Runs ==
    \/ StartRun
    \/ LoadState
    \/ LoadFails
    \/ SkipUnchanged
    \/ Plan
    \/ OpenFile
    \/ pc = "read" /\ Reads
    \/ EndOfFile
    \/ CommitTx
    \/ ExportMetrics
    \/ ExportFails
    \/ StatAgain
    \/ TruncateState
    \/ SaveState

Init ==
    /\ path \in Paths
    /\ files = <<NewFile(path, 1)>>
    /\ dir = [p \in Paths |-> IF p = path THEN 1 ELSE 0]
    /\ clock = 1
    /\ state = NoState
    /\ db = {}
    /\ prom = NoRow
    /\ pc = "idle"
    /\ loaded = NoState
    /\ gen = 0
    /\ off = 0
    /\ line = 0
    /\ tx = {}
    /\ cks = <<>>
    /\ last = NoRow
    /\ pending = NoState
    /\ misplaced = {}
    /\ failures = 0

Next == Logs \/ Runs \/ RunFails

Spec == Init /\ [][Next]_vars
=============================================================================
