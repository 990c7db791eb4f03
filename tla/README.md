# file-collector in TLA+

`file-collector` reads the files that data loggers leave in a directory, stores
their rows in a PostgreSQL/TimescaleDB table and publishes the last row as
Prometheus metrics. A timer starts it again and again (`file-collector write
--config ... --input ...`), while the loggers go on writing, and any run may
fail or be killed.

This directory holds a model of what can go wrong there: TLA+ modules
translated from the Go source, TLC configurations that check them on small
instances, and proofs for every instance, checked by TLAPS. Paths below are
relative to the repository; line numbers are those of the sources.
`PROJECT.json` maps every definition to its lines and lists the runs, a mutant
for each property, the findings, the hazards and the theorems.

## The system

```
main.go runWrite
  config.Load / Validate                         config.go
  resolveFilesFromInput: globs, sort by mtime    main.go:364-413
  WriteInputFiles                                writer.go:36-140
    newestFile: whose last line is held          writer.go:701-717
    one file after the other, or
    writeFilesConcurrently: a pool of workers    writer.go:142-211
      writeSingleFile                            writer.go:213-394
        loadResumeState, buildResumePlan         state.go     (growing_file)
        ForEachTypedRow: tabular|webdynsun|xml   internal/tabular
          buildInsertPayload, batch, INSERT      writer.go:262-349
        tx.Commit
        ExportInputMetrics: the .prom file       exporter.go
        saveResumeState                          state.go     (growing_file)
```

| Component | State it keeps | Operations | Hard parts | What makes it correct |
|---|---|---|---|---|
| growing_file runs (`writer.go`, `state.go`) | a JSON state file with name, size, mtime and the last checkpoints; the transaction; the last row | load, plan, open, read, commit, export, save | a stop between any two effects; a file that grows, is replaced or renamed between two system calls; replays | what a checkpoint precedes is committed; rows are whole, numbered right, stored in order without gaps; the .prom file shows a stored row and never goes back |
| row batching (`writer.go:262-349`) | the waiting rows, their keys and columns | add, replace, flush | repeated keys, rows of other columns, limits of PostgreSQL | the table ends as if rows were written one by one; no INSERT is refused for its size or a repeated key |
| file loop and worker pool (`writer.go:111-211`) | two channels, a wait group, the first error | feed, take, send, close, collect | termination, close against send, errors | each file once, no error lost, no panic, the run ends |
| transactions on one table (`writer.go:242-368`) | row locks, the tables' rows | insert, wait, abort, roll back, commit | interleaving, deadlock, a lost COMMIT answer | each file all or not at all |
| .prom file (`exporter.go`) | a temporary file and the published one | create, fill, rename | several writers and a reader at once | always one whole export |
| file selection and hold (`main.go:364-413`, `writer.go:701-717`) | none between runs | sort, cut to the window, find the newest | files that appear or grow between the sort, the second stat and the read; equal mtimes; the last chance of a file in the window | no value cut short is stored for ever; a file leaves the window stored |
| tabular readers (`typed_reader.go`, `reader.go`) | position, line number, header, delimiter | find the header, seek, skip, read, resume | a file that grows between the two passes and between the rows; incomplete lines; two implementations of one thing | what is read of ended lines is what the file holds; resuming continues; the preview tells the truth |
| webdynsun reader (`webdynsun_reader.go`) | address and type of the block | update, inject | state carried from line to line | rows carry their own block's address and type |
| xml reader (`xml_reader.go`) | the tree of the document | build, resolve paths, convert | a file still in transfer; equal names at several places | half a document makes no row that differs from the whole one's; a column holds the text of its own path |
| configuration (`config.go`) | the inputs, with defaults filled in | check, default | checks see a copy, trimmed texts, each file type its own part | what is accepted has what the rest of the program needs |
| command line, connection, column names (`main.go`, `timescaledb/config.go`, `normalize.go`) | one plan: input, files, output, options | choose, resolve, normalise | settings read in two places; names that collide | an accepted configuration fails only for the world's reasons; columns get the name their words make |

Components share the table, the state file, the .prom path and the directory
with the loggers; nothing else connects two runs. Inside a run the reader calls
the writer back for every row, and the writer's error stops the reader.

## Modules

An arrow reads "is implemented by"; the `...Proofs` modules hold theorems and
the invariants they need, the `MC...` modules constants for TLC.

| Abstract | Detailed | Properties | Proofs |
|---|---|---|---|
| `LoggedRows` -> | `GrowingFile` (uses `ResumeState`) | `GrowingFileProperties` | `GrowingFileProofs` |
| `LoggedRows` -> | `OverlappingRuns` (two `GrowingFile`) | `GrowingFileProperties` | `OverlappingRunsProofs` |
| `RowByRow` -> | `RowBatch` | `RowBatchProperties` | `RowBatchProofs` |
| `FileQueue` -> | `WorkerPool` | `WorkerPoolProperties` | `WorkerPoolProofs` |
| `SerialFiles` -> | `SharedTable` | `SharedTableProperties` | `SharedTableProofs` |
| | `FileWindow` | `FileWindowProperties` | `FileWindowProofs` |
| | `TabularReader` | `TabularReaderProperties` | |
| | `WebdynsunReader` | `WebdynsunReaderProperties` | |
| | `XmlReader` | `XmlReaderProperties` | |
| | `FileReaders` (the three readers) | | `FileReadersProofs` |
| | `WriteCommand` (uses `InputConfig`, `ColumnNames`) | `WriteCommandProperties` | `WriteCommandProofs` |

The models are layers of one program. `WorkerPool` writes a file in one step
that succeeds or fails; `SharedTable` opens that step for several files, row by
row; `RowBatch` opens the rows of one file into INSERTs; `GrowingFile` opens one
file over many runs and `OverlappingRuns` over two at a time; `FileWindow` has
many files over many runs; `FileReaders` says which lines or documents make a
row; `WriteCommand` is what happens before all of these, from the flags to the
first row, and justifies what they assume of the configuration (a worker, a
replayed row and a row per batch at least).

Definitions introduced by a comment `Mutant:` are plausible bugs. They are not
used by the specifications; each stands for a change of the definition after it
that breaks one of the properties.

### GrowingFile

One input in mode growing_file. `pc` walks through writeSingleFile and stops
wherever the world may change or the process may die: `LoadState`, `Plan` (or
`SkipUnchanged`), `OpenFile`, `ReadRow` / `SkipLine` / `EndOfFile`, `CommitTx`,
`ExportMetrics`, `StatAgain`, `TruncateState`, `SaveState`; `LoadFails`,
`ExportFails` and `RunFails` are its ways out. The logger's actions
(`AppendLine`, `AppendPartial`, `Rotate`) interleave with all of them. Files
are inodes and names point to them, so that a name may change its file between
Stat, Open and Stat. Offsets are bytes: lines have two bytes and bad ones one,
so that an offset taken in one file can fall inside a line of another.
`misplaced` is a ghost: the files read from an offset of another file, of which
little can be promised. `ResumeState` has buildResumePlan and
trimResumeCheckpoints as operators.

### OverlappingRuns

The timer starts `write` again while a slow run has not ended. The module
INSTANCEs `GrowingFile` a second time with local variables of its own and shares
the directory, the table, the state file and the .prom file, as the processes
do: nothing in state.go or writer.go takes a lock. What it adds to the actions
of two runs is `SaveOverLonger`: after both have truncated the state file, the
longer text of one may stick out behind the shorter one of the other.

### RowBatch

The callback of ForEachTypedRow: `Join`, `StartBatch`, `Finish`, `Fail`. A row
holds its number in each column, so that the table tells which row it came
from. Keys (what PostgreSQL compares) and signatures (what
buildPrimaryKeySignature prints) differ, as they do for instants in two time
zones.

### WorkerPool and SharedTable

`WorkerPool` has one action per step of a goroutine: `TakeFile` is the
rendezvous on fileCh, `SendOutcome` the buffered send, `CloseFiles` and
`CloseOutcomes` the closes, `Receive` and `PoolEnds` the collector;
`WriteNext` and `LoopEnds` are the sequential loop; `concurrent` says which of
the two a run uses. `SharedTable` has `Begin`,
`WriteRow`, `Commit`, `CommitUnheard` (the server commits, the client gets an
error), `Rollback`, `EndDeadlock`, `WriteFails`, and `CreateTemp`, `FillTemp`,
`Publish`, `ExportFails` of writeAtomically. PostgreSQL is external: READ
COMMITTED, row locks held to the end of the transaction, deadlocks broken by
aborting one transaction.

### FileWindow

`Resolve` is resolveFilesFromInput, `PickGrowing` newestFile, then `ReadFile`
and `CommitFile` or `FileFails` per file, `EndRun`, `Killed`. The logger writes
to the newest file, leaves a line with or without its newline and goes on to
the next file; its clock (`Tick`) is coarse, so that mtimes tie.
`HoldsLastLine` is FALSE for the webdynsun reader, which does not look at the
option, and `NamesAscend` is FALSE where a later file may sort before an
earlier one; both are assumed TRUE by the run (see the departures below).

### TabularReader, WebdynsunReader, XmlReader and FileReaders

`TabularReader` is ForEachTypedRow line by line, with a logger between any two
of them that writes a line in one piece or in two. The first pass finds the
delimiter and the header (`PassSkipped`, `PassBlank`, `FileIsEmpty`,
`Resolve`); after the Seek the second one passes the lines before the rows once
more and counts them (`CountSkipped`, `CountHeader`, `WithoutHeader`,
`EndBeforeRows`) and hands over rows (`ReadRow`, `EndRows`); `Open` begins a
reading at the start of the file or at the checkpoint of a row of the last one.
`within` says that the reader has passed the first piece of a line, as
readLine does at the end of a file. Two ghosts, which no action tests, tell
the properties what the reading met: `early`, a line before the rows was read
before it had ended; `grown`, the logger has written. `Rows`, in
the properties, says of a file at rest which rows it holds.
`WellFormed` and `TimestampErrors` are what `read` counts of a file.
`WebdynsunReader` is a
machine with one action per kind of line, over files made up as they are read.
`XmlReader` keeps `doc`, what parseXMLDocument has built of the tokens so far
(the nodes, the stack of open elements, the root), and `Row` is what
extractXMLValues makes of it; its one action transfers the next token of the
file, and the row is asked for after each.
`FileReaders` composes the three: an input's file_type chooses one, for `read`
and for `write`.

### InputConfig, ColumnNames and WriteCommand

`InputConfig` has Validate as two operators: `Accepted`, the checks of an input
with its defaults filled in, and `Stored`, what Validate leaves of it. The two
differ where the code sets a default on the copy, on the stored input, or on
both. Texts with blanks around them are texts of their own, with
`Padded[text]` what TrimSpace leaves, because most checks trim and most
uses do not. `ColumnNames` is NormalizeColumnName with its loop over the
characters of a name (`Written`), and `Payload`, the columns of an INSERT.
`WriteCommand` is a run of `write` or `read --config` as a state machine, one
action per step that may fail and one for each failure: `LoadConfig`,
`FindInput`, `ListFiles`, `ChooseOutput`, `Connect`, `Prepare`, `InsertRow` or
`ReaderFails`, and for the .prom file `ExportMetric`, one metric per step,
`ExportFails` and `EndExport`. `read` leaves out output and connection, and its
options have no WebdynSun columns.

## Checked by TLC

| Run | Shows | Result |
|---|---|---|
| `growing_rotation` | growth, rotation, failures and kills at any step of a run, do_update: `CheckpointsCommitted`, `StoredRowsAreTrue`, `PromIsStored`; `SaveAdvances`; `PromNeverGoesBack`; `ImplementsLoggedRows`: rows are stored in file order, without a gap, never removed | hold |
| `growing_overlap` | two runs of one input at once: `CheckpointsCommitted`, `ImplementsLoggedRows` as for one, and `CatchesUp`: a quiet file ends up stored, but for three losses it names (a state that skips the file is one only if its run had not read all the state covers) | hold |
| `growing_stat_race` | `SkippedFileIsStored` | violated |
| `growing_rename` | `NewNameRestarts` | violated |
| `batch_update` | `ImplementsRowByRow`, `ParametersWithinLimit`, `InsertsAccepted` under do_update | hold |
| `batch_nothing` | `EarlierBatchWins`, `EveryKeyStored` under do_nothing, one key printed in two ways | hold |
| `worker_pool` | `ImplementsFileQueue`, `RunReturns`, `SendsAreSafe`, `SendsNeverWait`, for the loop and the pool | hold |
| `table_update` | `ImplementsSerialFiles`, `EveryFileEnds`, `PromIsWhole` | hold |
| `window_last_n` | `RowsAreFinal`, `NothingLeftBehind`, `CatchesUp` | hold |
| `file_readers` | `GrowingOnlyAddsRows`, `ResumesAfterAnyRow`, `PreviewForetellsRows` of the tabular reader beside a logger, `RowsCarryTheirBlock` of the WebdynSun one, `PartIsRefusedOrWhole`, `FieldsFollowTheirPath` of the XML one | hold |
| `file_readers_cut_head` | `NoRowUnderCutHead` | violated |
| `write_command` | `PlanIsSound`, `AcceptedConfigsRun`: what Validate accepts is enough for the rest, but for the mistakes named; `MetricsFileIsValid`; `ColumnsGetTheirNames` | hold |

`growing_rotation`, `batch_update`, `worker_pool` and `table_update` also check
their `TypeOK`.

The violation runs state what the documentation says and have a counterexample
in the code's own steps.

### Findings

1. `SkippedFileIsStored`: the size saved is that of a Stat made after the commit
   (writer.go:371). A line completed since the read is covered by it; if the
   file stays quiet, it is skipped as unchanged and the line is never stored.
2. `NewNameRestarts`: a first run of a new file that finds no row saves the new
   name with the old file's checkpoints (writer.go:383), and the next run
   starts in the new file at an offset of the old one.
3. `NoRowUnderCutHead`: the first pass (typed_reader.go:360-419) takes the header,
   or the line the delimiter is found in, as far as it is written. If the logger
   completes it before the second pass, rows are stored under a column name cut
   short or split at the delimiter of the part, although the line was held from
   being a row. `GrowingOnlyAddsRows` and `ResumesAfterAnyRow` are about readings
   that met the lines before the rows ended, which the model's ghost `early`
   tells.

### Other departures from the documentation

These have no run of their own. Each is a path of the code that the models
contain, and the properties above are stated so that they do not depend on it.

- Only the last run's rows have checkpoints (state.go:110), so fewer than
  replay_lines rows may be read again (README.md:118).
- A stop inside os.WriteFile (state.go:88) leaves a state no later run can load,
  and none writes it anew; `CatchesUp` of `GrowingFile` excepts it.
- A row that replaces a waiting one is stored, but neither exported nor the
  last checkpoint (writer.go:323; README.md:159): `Replace` leaves `latest`.
- Concurrent workers may commit in one order and export in another
  (writer.go:364): `PromIsWhole` does not say whose row the file shows.
- The webdynsun reader does not hold the last line (webdynsun_reader.go:63;
  README.md:122), so that do_nothing keeps a value cut short: that is
  `FileWindow` with `HoldsLastLine = FALSE`.
- Of two files with one mtime the one with the greater name is held
  (writer.go:711), the finished one where names do not ascend: that is
  `NamesAscend = FALSE`.
- A setting is checked without the blanks around it and used with them: a mode
  `" growing_file "` is accepted and read as mode all, a file_type `" xml "` is
  read as XML without its fields being checked, `" webdynsun "` without its
  header_columns, which the reader then asks for, an output type
  `" timescaledb "` is never chosen (config.go:298-341). `PlanIsSound` and
  `AcceptedConfigsRun` except these by name, and with them a negative port, XML
  without a field for the time, and a single header column, which `read`
  refuses and `write` takes. An unknown time zone ends a run too (`no zone`);
  no property says more of it than its guard.
- An on_conflict `" do_update "` is accepted and then is not `do_update`
  (writer.go:640): rows are not updated, with no message. `InputConfig` keeps
  the text as it is; no property is about it.
- `write` holds the unended last line of the newest file, `read` counts it
  (reader.go:145, typed_reader.go:325): `PreviewForetellsRows` names this
  difference beside NUL bytes and a header without the timestamp.
- Two columns whose names normalise alike, or one named like a column the
  collector adds (`Ts`), make every INSERT of the file fail (writer.go:477):
  the end `column twice` of `WriteCommand`.
- `read` does not pass on the WebdynSun columns (main.go:280): its preview of
  such a file lacks the address and the type `write` stores.
- A document with two roots is read as the last of them (xml_reader.go:252);
  `FieldsFollowTheirPath` is about the root the reader keeps.
- Two overlapping runs may leave a state file that no run can load, and move
  the .prom file or the resume point back: `PromNeverGoesBack` and
  `SaveAdvances` are about one run at a time, `CatchesUp` excepts the state.
- The key of the state file has no host or database (state.go:52): inputs that
  differ in these only share a state. The models have one output.
- The samples of one name need not be next to each other in the .prom file
  (exporter.go:27): `MetricsFileIsValid` asks for one TYPE before all of them.
- An address that is no number leaves the rows of its block under the address
  before it (webdynsun_reader.go:120): `RowsCarryTheirBlock` is about blocks
  with an address.

### Bounds

All constants named `Max...` bound the model in guards and nothing else.

- `GrowingFile`: two files of two lines and a window of one row reach every
  relation of old offset and new file (before, inside and after its lines), a
  full and a trimmed window, and a failed run after a resumed one. A third file
  or a second failure meets the same states of the state file: it keeps only the
  last run. `do_nothing` is run in `OverlappingRuns`; the theorems have both.
- `OverlappingRuns`: one file of two lines, a state of one checkpoint, one
  failure and two starts of a second run, so that each of the runs can be the
  one that starts first, ends last or fails.
- `RowBatch`: three keys, since a batch never holds more rows than there are
  keys; 17 parameters take three rows of five columns or two of six, so that
  batch_size 3 and the parameter limit each decide; four rows (five under
  do_nothing, with two spellings) fill a batch, replace in it and start the
  next. What the runs leave out, do_update with two spellings of a key or
  without a primary key, is covered by `RowBatchProofs!Refines`, which has
has no assumption about either. `InsertsAccepted` is asked of the waiting
  rows after every step, which are those of the next INSERT.
- `WorkerPool`: three workers and four files, so that a worker comes back for
  more while others have exited; the loop over the same files.
- `SharedTable`: the keys of three files form a circle of waits, the fourth
  meets each of them and has a key twice; more files than workers. do_nothing
  is left to `SharedTableProofs!Refines`, which is for both settings.
- `FileWindow`: three files with a window of two, so that one leaves it; two
  lines; two ticks, so that mtimes tie or differ; one failure or kill;
  do_nothing, which cannot correct what an earlier run stored. The
  logger does not start more files between two successful runs than the window
  holds: otherwise a file would pass unseen, which no code could prevent.
- `TabularReader`: three lines hold a skipped line, a header and a row, or a
  header and two rows; every combination of skip_lines 0 and 1, header_columns
  with the timestamp, without it or none, timestamp columns, and delimiter given
  or detected. Six lines, and pieces of them that look like another line, so
  that a cut one may pass for a header, a cell or a row. One logger and one
  reading at a time; a reading that resumes follows the one it resumes.
- `WebdynsunReader`: five lines hold two blocks, one with a row.
- `XmlReader`: six tokens hold a root with a child, its text and another child,
  with names that differ in case only. That a path may begin with the root's
  name is one definition (`Below`) for the loop over paths and for
  `FieldsFollowTheirPath`, which checks the rest of the path.
- `WriteCommand`: about 800 configurations, which take every group of settings
  (file types, modes, timestamps, outputs, metrics) through all the values the
  code tells apart around one base, in seven worlds; all names of up to three
  of ten characters, one of each class the conversion knows, since it looks at
  one character and the one before; one row, since rows do not influence each
  other here.

`SYMMETRY` is used once, over the names of `growing_rotation`, whose
properties have no liveness; names are only compared.

### Fairness

`OverlappingRuns` and `FileWindow` assume weak fairness of the steps of each run
and of starting one: the timer starts the next run, and the system calls of a
run return. They assume none of the logger, of failures, of kills and of the
start of a second run, which are bounded in number. `WorkerPool` assumes weak
fairness of each goroutine, as Go's scheduler gives, and that writeSingleFile
returns. `SharedTable` assumes it of each file's steps and of PostgreSQL's
deadlock detection; a transaction that waits for a lock is not enabled until the
lock is free.

`CHECK_DEADLOCK FALSE` appears where the modelled part ends: a run that has
returned, a file that has been written, a reader at its end, a bound reached by
the logger of a pure reader.

## Proved by TLAPS

For every value of the constants that satisfies the `...Assumption` of the
module (finite windows, at least one worker, and so on; TLC evaluates each of
them). The bounds are constants too, so nothing depends on them.

| Theorem | States |
|---|---|
| `GrowingFileProofs!TypeCorrect`, `CheckpointsAreCommitted`, `StoredRowsTrue`, `PromStored` | invariants of `growing_rotation`: `TypeOK`, `CheckpointsCommitted`, `StoredRowsAreTrue`, `PromIsStored` |
| `GrowingFileProofs!SavesAdvance`, `PromAdvances` | `SaveAdvances`, `PromNeverGoesBack` |
| `GrowingFileProofs!Refines` | `Spec => ImplementsLoggedRows` |
| `OverlappingRunsProofs!OverlapsCommitCheckpoints`, `OverlapsStoreTrueRows`, `OverlapsExportStored`, `OverlapsRefine` | `CheckpointsCommitted`, `StoredRowsAreTrue`, `PromIsStored`, `ImplementsLoggedRows`, of two runs at once |
| `RowBatchProofs!TypeCorrect`, `WithinLimit`, `Accepted`, `BatchOrderHolds`, `KeysStored` | `TypeOK`, `ParametersWithinLimit`, `InsertsAccepted`, `EarlierBatchWins`, `EveryKeyStored` |
| `RowBatchProofs!Refines` | under do_update, `Spec => ImplementsRowByRow` |
| `WorkerPoolProofs!TypeCorrect`, `SafeSends`, `SendsDoNotWait`, `Refines` | `TypeOK`, `SendsAreSafe`, `SendsNeverWait`, `ImplementsFileQueue` |
| `SharedTableProofs!TypeCorrect`, `PromWhole`, `Refines` | `TypeOK`, `PromIsWhole`, `ImplementsSerialFiles` |
| `FileWindowProofs!RowsFinal`, `NothingLeft` | `RowsAreFinal`, `NothingLeftBehind`, where `NamesAscend` and `HoldsLastLine` |
| `FileReadersProofs!GrowthAddsRows`, `AnyRowResumes`, `PreviewHolds` | `GrowingOnlyAddsRows`, `ResumesAfterAnyRow`, `PreviewForetellsRows`, for tabular files of any length and every option, the logger writing between any two lines read |
| `FileReadersProofs!BlocksCarried` | `RowsCarryTheirBlock`, for WebdynSun files of any length |
| `FileReadersProofs!PartsRefused`, `FieldsFollow` | `PartIsRefusedOrWhole`, `FieldsFollowTheirPath`, for XML documents of any size and paths of any length |
| `WriteCommandProofs!PlanSound`, `AcceptedRun` | `PlanIsSound`, `AcceptedConfigsRun`, for every set of configurations and worlds |
| `WriteCommandProofs!MetricsValid` | `MetricsFileIsValid`, for any number of metrics, names and labels |
| `WriteCommandProofs!ColumnsNamedRight` | `ColumnsGetTheirNames`, for names of any length and rows of any number of columns |

How they go. None of the invariants is inductive alone.

- GrowingFile: that the saved checkpoints are committed needs that the
  checkpoints of the run, those of the loaded state and those about to be saved
  are, each against the table or against the table with the open transaction;
  that in turn needs that the position of the reader is the end of the line it
  has counted, and that every row up to there is in table or transaction
  (`ResumeInv`, with `RowsInv` for the rows). Files only get longer, so what
  held of a checkpoint goes on holding: that is a lemma of its own, used by
  every action of the logger. The refinement uses the same invariant; the step
  that matters is `CommitTx`, which stores the rows up to a line.
- GrowingFile, what never goes back: `AdvanceInv` compares what earlier runs
  left with the file a run reads. Saved checkpoints and the .prom file's row are
  rows of a file no newer than the one the name has now; the last checkpoint
  of a run is its last row; and a run that is past its last line has reached
  the end of every row that an earlier run read of that file (`AtEnd`), from
  wherever it started. So a run that reads rows again still ends after them.
- OverlappingRuns: `OverlapInv` is the invariant of `GrowingFile` for the first
  run (`FirstInv`) and the same of the second one's variables (`SecondInv`).
  A step of one run leaves the other's invariant alone because of what it does
  to the things they share: files get longer, rows are added to the table
  and none is removed (`SharedGrows`), and what it saves or exports has been
  committed. The steps of the first run are those proved about for
  `GrowingFile`; the second one's are proved once more, with its variables.
  `SaveOverLonger` leaves the state `Corrupt`, which promises nothing.
- RowBatch: `BatchInv` adds to the types that waiting rows are numbered below
  the rows read, have distinct keys as long as the text of a key tells it from
  others, and that there is room for one more. The refinement maps the table
  to the one that would result if the waiting rows were sent now; its lemmas
  say what inserting a batch with one more row, or with a row replaced, gives.
  `StoredInv` adds, under do_nothing, that every row delivered has its key in
  the table or in the batch: a row that takes the place of another has the
  same key, a flush stores or finds each key it sends. `WinsInv` adds whose
  row it is: a key the table had not has the values of its first row, or of a
  row that took its place (`TakesPlace`: same printed key, same columns, no
  split between), and so will have those in the batch once they are sent.
- WorkerPool: `PoolInv` says who has which file, that an outcome is either not
  sent or in the channel once, and what the closes imply; a count of files
  taken bounds the outcomes sent, hence the buffer suffices.
- SharedTable: `TableInv` ties locks to transactions (a key written is locked by
  its writer), the table to the history of commits, and temporary files to
  their owners.
- FileWindow: `WindowInv` says which files a run still has before it
  (`ChosenInv`: the oldest of its window, the newest of them first), that the
  one it holds the last line of is the newest it sorted, and that the files
  it has passed are whole in the table (`WholeInv`); mtimes ascend with files,
  so a cut row can only be of a file that is no more written to. The two
  hypotheses are constants of the model: where one is FALSE the theorems do
  not hold, and the code has the departures listed above. That the logger
  starts no more files between two successful runs than the window holds is
  a guard of its actions (see Bounds), so `NothingLeft` is about such loggers.
- TabularReader: `TabularInv` says what a reading knows of the file as long as
  it is `Steady`: either the file has not changed since it began, or the last
  line is held and no line before the rows was read before it ended. Then every
  line it has passed will stay as it is, so the head is that of the file
  (`KnowsHead`), the lines passed are the skipped ones and blank ones up to it
  (`BeforeText`), a checkpoint lies after it (`AfterHead`), the line number is
  that of the line, and the rows are those of the lines seen (`AtRows`). The
  logger keeps this because it changes no line that had ended (`LoggerKeeps`,
  `HeadStays`); there is a lemma for each step of the reader. The preview agrees
  because what it counts are the lines after the head that have its width
  (`CountedAreRows`).
- WebdynsunReader: `BlockInv` says of the next line what the property says of
  the rows: the address and type the reader holds are those of the block that
  line is in. Two lemmas about the last line of a kind carry it: a new line
  moves it or leaves it, and lines added later never change it for a line
  before.
- XmlReader: `XmlInv` says that open elements and the root are nodes of the
  tree, and that the root has no parents. Once a document is one the reader
  accepts, its stack is empty; what may still come is a second root, which
  makes the whole a document of two (see the departures), or what the decoder
  refuses, or nothing: none changes the nodes the row was made of.
  `TreeInv` adds that the chain of a node from the root is that of its parent
  and the node, and the stack the chain of the innermost open element. The
  loop over a path then ends at the nodes whose names from the root are the
  path's, by induction on its length.
- WriteCommand: `Sources` says where each part of a run comes from (an input
  that Validate left of an accepted one, one of its outputs, the number of
  files its mode leaves, the options made of it), `Reasons` why a run has
  ended. Lemmas about `Accepted` and `Stored` then give the properties; they
  are where a missing check or default in Validate would stop the proof.
  `MetricsInv` says that each sample in the .prom file is of a series named by
  one of the metrics exported so far; Validate lets no two metrics have a
  series in common, so the next metric adds no line twice.
- ColumnNames: the property says by the words of a name (`Spelled`) what the
  loop of NormalizeColumnName does by the character before and the last one
  written. `Looped` says after each character that the words so far are
  written, with an underscore after them if the last character is of none, and
  that they are their own words; `TrimSame` that blanks around a name change
  none, `ColumnsCover` that the columns of a row are those of its names, twice
  only where two of these give the same. All are inductions over sequences that
  append one element. The assumption on the constants is that no character is
  in two of the classes the code tells apart.

The installed provers cannot instantiate the induction theorems of the
library, whose hypothesis is an operator. Where a proof needs induction over
numbers or sequences (paths, names, rows), it is made with a set in place of
the operator: `AllNumbers` and `AllSequences`, from the library's theorem that
a set of numbers that is not empty has a least element (`WFMin`).

Only checked by TLC: liveness, which is out of the prover's reach:
`CatchesUp`, `RunReturns`, `EveryFileEnds`.

## Not modelled

- Conversions of cells, timestamps and metric values to text and back: the
  models say what they decide (a row has a timestamp, a cell parses, a metric
  can be exported, two rows have one key). The same of the DSN and of quoting.
- The syntax of YAML, of globs and of time zones; include and exclude globs
  only choose the set of files.
- `read --path` (main.go:44-99): it lists files and prints each with the reader
  that `TabularReader!PreviewFails` and `WellFormed` describe.
- Compressed WebdynSun files, beyond the error a cut one ends with.
- Two loggers in one input, files deleted during a run, and a file rewritten in
  place without shrinking.

## Plan

Done, in this order: `ResumeState` and `GrowingFile` with `LoggedRows` (the
mode with persistent state is where data is lost); `RowBatch` with `RowByRow`;
`WorkerPool` with `FileQueue`; `SharedTable` with `SerialFiles`; `FileWindow`;
the readers; `OverlappingRuns`; `InputConfig`, `ColumnNames` and `WriteCommand`.

Next:

1. An abstract specification for `FileWindow` (a row is stored once its line is
   final, and every line of a file that has left the window is stored), and the
   refinement of it.
2. `RowBatch` with the columns `ColumnNames!Payload` gives for a file's header,
   in place of its constant column sets.
3. Under do_nothing, an abstract specification for `RowBatch`: `RowByRow` is
   what do_update implements, `KeysStored` and `BatchOrderHolds` say less.
