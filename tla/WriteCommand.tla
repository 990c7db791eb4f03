---------------------------- MODULE WriteCommand ----------------------------
(***************************************************************************)
(* One invocation of `file-collector write` or `read --config`: from the   *)
(* configuration through the choice of input, files and output, the        *)
(* connection and the table's columns to one row of one file and its       *)
(* metrics (cmd/file-collector/main.go runWrite and runReadFromConfig,     *)
(* internal/timescaledb/config.go, the beginning of WriteInputFiles,       *)
(* promtextfile/exporter.go).                                              *)
(*                                                                         *)
(* Simplifications.                                                        *)
(*  - The world (directory, environment, database) stays during a run;     *)
(*    GrowingFile and FileWindow have files that change.                   *)
(*  - A row is the sequence of its columns' names, each once.  It has a    *)
(*    timestamp if the options let the reader find one, and its values can *)
(*    be shown as metrics.  A run stops after one row.                     *)
(*  - No two XML fields of an input have one name.                         *)
(*  - `read` prints one input and goes on with the next: here it reads one.*)
(***************************************************************************)
EXTENDS InputConfig, ColumnNames

CONSTANTS Configs,  \* the configurations: sequences of inputs
          Worlds,   \* what a run meets
          Rows,     \* Rows[n]: rows of the files of an input named n
          None      \* not chosen yet

World == [directory : BOOLEAN,       \* input.Directory can be read
          files : Nat,               \* files the globs match
          env : SUBSET STRING,       \* environment variables that are set
          ports : SUBSET STRING,     \* those that hold a positive number
          zones : SUBSET STRING,     \* names time.LoadLocation knows
          database : BOOLEAN,        \* the database answers
          columns : SUBSET (Name \ {<<>>})]  \* of the table, none if there is no table

ASSUME WriteCommandAssumption ==
    /\ Configs \subseteq Seq(Input)
    /\ Worlds \subseteq World
    /\ \A c \in Configs : \A k \in DOMAIN c : c[k].name \in DOMAIN Rows
    /\ \A n \in DOMAIN Rows : \A r \in Rows[n] : r \in Seq(Name) /\ IsInjective(r)

VARIABLES
    command,  \* "write" or "read"
    asked,    \* --input, "" if it is not given
    config,   \* the file; from LoadConfig on, what Validate left of it
    world,
    pc,       \* where the run stands
    input, files, output,  \* what it has chosen; files is their number
    options,  \* tabular.TypedReadOptions
    row,      \* the columns of the row read
    columns,  \* the columns of its INSERT
    exported, \* the number of metrics exported
    metrics   \* the lines of the .prom file, so far

chosen == <<input, files, output, options, row, columns, exported, metrics>>
vars == <<command, asked, config, world, pc, chosen>>

Fails(because) == pc' = because /\ UNCHANGED <<command, asked, config, world, chosen>>

Goes(to) == pc' = to /\ UNCHANGED <<command, asked, world>>

-----------------------------------------------------------------------------
(* config.Load, and the first input of the name (write), or one of them    *)
(* (read).                                                                 *)

LoadConfig ==
    /\ pc = "load"
    /\ AcceptedConfig(config)
    /\ config' = StoredConfig(config)
    /\ Goes("find")
    /\ UNCHANGED chosen

LoadFails == pc = "load" /\ ~AcceptedConfig(config) /\ Fails("bad config")

Named == {k \in DOMAIN config : config[k].name = asked}

Candidates ==
    IF command = "read"
    THEN IF Blank(asked) THEN DOMAIN config ELSE Named
    ELSE {k \in Named : ~Blank(asked) /\ \A j \in Named : k <= j}

FindInput ==
    /\ pc = "find"
    /\ \E k \in Candidates : input' = config[k]
    /\ Goes("list")
    /\ UNCHANGED <<config, files, output, options, row, columns, exported, metrics>>

FindFails == pc = "find" /\ Candidates = {} /\ Fails("no input")

-----------------------------------------------------------------------------
(* resolveFilesFromInput: how many of the files are left.                  *)

FilesOf(i, n) ==
    CASE i.mode \in {"latest", "growing_file"} /\ n > 1 -> 1
      [] i.mode = "last_n_files" /\ n > i.last_n_files -> i.last_n_files
      [] OTHER -> n

ListFiles ==
    /\ pc = "list"
    /\ world.directory /\ world.files > 0
    /\ files' = FilesOf(input, world.files)
    /\ Goes(IF command = "write" THEN "output" ELSE "options")
    /\ UNCHANGED <<config, input, output, options, row, columns, exported, metrics>>

ListFails ==
    pc = "list" /\ ~(world.directory /\ world.files > 0) /\ Fails("no files")

-----------------------------------------------------------------------------
(* The first enabled output, ResolveOutput, and the table's columns.       *)

Usable(o) == o.enabled /\ o.type = "timescaledb"

ChooseOutput ==
    /\ pc = "output"
    /\ \E k \in DOMAIN input.outputs :
           /\ Usable(input.outputs[k])
           /\ \A j \in 1 .. k - 1 : ~Usable(input.outputs[j])
           /\ output' = input.outputs[k]
    /\ Goes("connect")
    /\ UNCHANGED <<config, input, files, options, row, columns, exported, metrics>>

NoOutput ==
    /\ pc = "output"
    /\ \A k \in DOMAIN input.outputs : ~Usable(input.outputs[k])
    /\ Fails("no output")

(* firstNonEmpty and resolvePort. *)
HasSetting(o, s) ==
    \/ ~Blank(o.value[s])
    \/ ~Blank(o.env[s]) /\ o.env[s] \in world.env

HasPort(o) == o.port > 0 \/ (~Blank(o.port_env) /\ o.port_env \in world.ports)

Resolves(o) ==
    o.type = "timescaledb" /\ HasPort(o) /\ \A s \in Settings : HasSetting(o, s)

Connect ==
    /\ pc = "connect"
    /\ Resolves(output)
    /\ world.database /\ world.columns # {}
    /\ Goes("options")
    /\ UNCHANGED <<config, chosen>>

ResolveFails == pc = "connect" /\ ~Resolves(output) /\ Fails("no settings")

ConnectFails ==
    /\ pc = "connect"
    /\ Resolves(output)
    /\ ~(world.database /\ world.columns # {})
    /\ Fails("no table")

-----------------------------------------------------------------------------
(* The options of the reader. *)

(* NormalizeFileType, of the types Validate accepts. *)
ReaderOf(i) ==
    LET type == Trim(i.file_type)
    IN IF type = "columnar" THEN "tabular" ELSE type

(* A type the reader does not know, with blanks around it, makes a text.   *)
SpecsOf(i) ==
    IF ReaderOf(i) = "xml"
    THEN {[name |-> f.name, type |-> f.type] : f \in i.xml_fields}
    ELSE i.columns

ReadOptions(i) ==
    [reader |-> ReaderOf(i),
     delimiter |-> i.delimiter,
     skip |-> i.skip_lines,
     header |-> i.header_columns,
     timestamp |-> i.timestamp_column,
     sources |-> i.timestamp_source_columns,
     layouts |-> IF i.timestamp_layouts = 0 THEN 2 ELSE i.timestamp_layouts,
     zone |-> i.timestamp_timezone,
     specs |-> SpecsOf(i),
     fields |-> IF ReaderOf(i) = "xml" THEN i.xml_fields ELSE {},
     address |-> <<>>, type |-> <<>>]

(* runReadFromConfig has no case for webdynsun. *)
WriteOptions(i) ==
    IF ReaderOf(i) = "webdynsun"
    THEN [ReadOptions(i) EXCEPT !.address = i.address_column, !.type = i.type_column]
    ELSE ReadOptions(i)

KnownZone(i) == Blank(i.timestamp_timezone) \/ i.timestamp_timezone \in world.zones

Prepare ==
    /\ pc = "options"
    /\ KnownZone(input)
    /\ options' = IF command = "write" THEN WriteOptions(input) ELSE ReadOptions(input)
    /\ Goes(IF command = "write" THEN "row" ELSE "preview")
    /\ UNCHANGED <<config, input, files, output, row, columns, exported, metrics>>

PrepareFails == pc = "options" /\ ~KnownZone(input) /\ Fails("no zone")

-----------------------------------------------------------------------------
(* A row: its INSERT, which PostgreSQL refuses when it names a column      *)
(* twice, then ExportInputMetrics: a sample for the value and one for the  *)
(* timestamp of each metric, after the TYPE of its name.                   *)

(* No file gives a row: Webdynsun needs header columns and `read` two of   *)
(* them, and `write` ends at an XML document whose time no field parses.   *)
Refuses(o) ==
    \/ o.reader = "webdynsun" /\ o.header = <<>>
    \/ o.reader = "tabular" /\ command = "read" /\ Len(o.header) = 1
    \/ /\ o.reader = "xml" /\ command = "write"
       /\ ~\E f \in o.fields : f.name = o.timestamp /\ f.type = "timestamp"

ReaderFails == pc \in {"row", "preview"} /\ Refuses(options) /\ Fails("no row")

InsertRow ==
    /\ pc = "row"
    /\ ~Refuses(options)
    /\ row' \in Rows[input.name]
    /\ columns' = Payload(row', input, world.columns)
    /\ Goes(IF Twice(columns') THEN "column twice" ELSE "export")
    /\ UNCHANGED <<config, input, files, output, options, exported, metrics>>

Emit(lines, series) ==
    LET type == [is |-> "type", name |-> series.name]
        sample == [is |-> "sample", name |-> series.name, labels |-> series.labels]
    IN IF type \in ToSet(lines) THEN Append(lines, sample) ELSE lines \o <<type, sample>>

(* The lines with those of a metric. *)
EmitMetric(lines, m) ==
    LET own == Emit(lines, SeriesOf(m)[1])
    IN IF Blank(m.timestamp_name) THEN own ELSE Emit(own, SeriesOf(m)[2])

HasNext == input.prometheus /\ exported < Len(input.metrics)

HasValue == input.metrics[exported + 1].value_column \in ToSet(row)

ExportMetric ==
    /\ pc = "export"
    /\ HasNext /\ HasValue
    /\ metrics' = EmitMetric(metrics, input.metrics[exported + 1])
    /\ exported' = exported + 1
    /\ Goes("export")
    /\ UNCHANGED <<config, input, files, output, options, row, columns>>

ExportFails == pc = "export" /\ HasNext /\ ~HasValue /\ Fails("no metric")

EndExport ==
    /\ pc = "export"
    /\ ~HasNext
    /\ Goes("done")
    /\ UNCHANGED <<config, chosen>>

Init ==
    /\ command \in {"write", "read"}
    /\ config \in Configs
    /\ asked \in {""} \cup {config[k].name : k \in DOMAIN config}
    /\ world \in Worlds
    /\ pc = "load"
    /\ input = None
    /\ files = 0
    /\ output = None
    /\ options = None
    /\ row = <<>>
    /\ columns = <<>>
    /\ exported = 0
    /\ metrics = <<>>

Next ==
    \/ LoadConfig
    \/ LoadFails
    \/ FindInput
    \/ FindFails
    \/ ListFiles
    \/ ListFails
    \/ ChooseOutput
    \/ NoOutput
    \/ Connect
    \/ ResolveFails
    \/ ConnectFails
    \/ Prepare
    \/ PrepareFails
    \/ ReaderFails
    \/ InsertRow
    \/ ExportMetric
    \/ ExportFails
    \/ EndExport

Spec == Init /\ [][Next]_vars
=============================================================================
