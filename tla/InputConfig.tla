---------------------------- MODULE InputConfig ----------------------------
(***************************************************************************)
(* The YAML configuration: the checks and defaults of Validate             *)
(* (internal/config/config.go).  Validate checks a copy of each input and  *)
(* sets the defaults on the copy and on the stored input, or on the stored *)
(* one only.                                                               *)
(*                                                                         *)
(* Simplifications.                                                        *)
(*  - Padded[s] is what strings.TrimSpace leaves of a text with blanks     *)
(*    around it; every other text is its own.                              *)
(*  - A column name is the sequence of its characters (ColumnNames).       *)
(*  - delimiter, include and timestamp_layouts are their lengths.          *)
(*  - The five connection settings with an environment variable are a      *)
(*    function of their names; port is the one that is a number.           *)
(*  - Label values hold neither "," nor "=": labelsSignature tells all      *)
(*    label sets apart.                                                    *)
(*  - Which of several errors is reported is left out: the program ends    *)
(*    with any.                                                            *)
(***************************************************************************)
EXTENDS Integers, Sequences, SequencesExt

CONSTANTS Padded,       \* texts with blanks around them
          MetricNames,  \* texts prometheusMetricNameRE matches
          LabelNames    \* texts prometheusLabelNameRE matches

Trim(text) == IF text \in DOMAIN Padded THEN Padded[text] ELSE text
Blank(text) == Trim(text) = ""
BlankName(name) == ToSet(name) \subseteq {" "}

FileTypes == {"tabular", "columnar", "xml", "webdynsun"}
Modes == {"all", "latest", "last_n_files", "growing_file"}
ColumnTypes == {"timestamp", "float64", "int64", "string", "bool", "json", "jsonb"}
Policies == {"do_update", "do_nothing"}
Settings == {"host", "user", "password", "database"}

Name == Seq(STRING)

Output == [name : STRING, type : STRING, enabled : BOOLEAN,
           value : [Settings -> STRING], env : [Settings -> STRING],
           port : Int, port_env : STRING, schema : STRING, table : STRING,
           on_conflict : STRING, batch_size : Int]

Metric == [name : STRING, type : STRING, value_column : Name,
           labels : SUBSET [name : STRING, value : STRING],
           timestamp_name : STRING]

Input == [name : STRING, directory : STRING, file_type : STRING,
          mode : STRING, last_n_files : Int, replay_lines : Int,
          concurrency : Int, skip_lines : Int, header_columns : Seq(Name),
          timestamp_column : Name, timestamp_source_columns : Seq(Name),
          timestamp_layouts : Nat, timestamp_timezone : STRING,
          delimiter : Nat, include : Nat,
          columns : SUBSET [name : Name, type : STRING],
          address_column : Name, type_column : Name,
          xml_fields : SUBSET [name : Name, path : STRING, type : STRING],
          outputs : Seq(Output), prometheus : BOOLEAN,
          prom_directory : STRING, metrics : Seq(Metric)]

-----------------------------------------------------------------------------
(* Defaults. *)

Default(text, value) == IF Blank(text) THEN value ELSE text

OutputDefaults(o) ==
    [o EXCEPT !.on_conflict = Default(@, "do_update"),
              !.batch_size = IF @ <= 0 THEN 5000 ELSE @]

(* Mutant: the window of a growing file has no default. *)
WithoutReplayDefault(i) ==
    [i EXCEPT !.file_type = Default(@, "tabular"),
              !.mode = Default(@, "all"),
              !.concurrency = IF @ <= 0 THEN 1 ELSE @,
              !.outputs = [k \in DOMAIN @ |-> OutputDefaults(@[k])]]

(* The copy the checks see. *)
WithDefaults(i) ==
    [i EXCEPT !.file_type = Default(@, "tabular"),
              !.mode = Default(@, "all"),
              !.replay_lines = IF i.mode = "growing_file" /\ @ = 0 THEN 5 ELSE @,
              !.concurrency = IF @ <= 0 THEN 1 ELSE @,
              !.outputs = [k \in DOMAIN @ |-> OutputDefaults(@[k])]]

MetricDefaults(m) == [m EXCEPT !.type = Default(@, "gauge")]

(* What Validate leaves in c.Inputs. *)
Stored(i) ==
    LET d == WithDefaults(i) IN
    [d EXCEPT !.address_column =
                  IF d.file_type = "webdynsun" /\ BlankName(@)
                  THEN <<"a", "d", "d", "r">> ELSE @,
              !.metrics = IF d.prometheus
                          THEN [k \in DOMAIN @ |-> MetricDefaults(@[k])] ELSE @]

-----------------------------------------------------------------------------
(* Checks, of the copy with its defaults. *)

BadMode(i) ==
    \/ Trim(i.mode) \notin Modes
    \/ i.mode = "last_n_files" /\ i.last_n_files <= 0
    \/ i.mode = "growing_file" /\ i.replay_lines < 0

BadShape(i) ==
    \/ i.skip_lines < 0
    \/ \E k \in DOMAIN i.header_columns : BlankName(i.header_columns[k])
    \/ i.delimiter > 1
    \/ i.include = 0

BadTimestamp(i) ==
    \/ BlankName(i.timestamp_column)
    \/ \E k \in DOMAIN i.timestamp_source_columns :
           BlankName(i.timestamp_source_columns[k])
    \/ i.timestamp_source_columns # <<>> /\ i.timestamp_layouts = 0

(* The checks of a file type look at the text as it is. *)
BadType(i) ==
    \/ Trim(i.file_type) \notin FileTypes
    \/ i.file_type = "webdynsun" /\ i.header_columns = <<>>
    \/ /\ i.file_type = "xml"
       /\ \/ i.xml_fields = {}
          \/ \E f \in i.xml_fields : \/ BlankName(f.name) \/ Blank(f.path)
                                     \/ Trim(f.type) \notin ColumnTypes
    \/ /\ i.file_type \notin {"webdynsun", "xml"}
       /\ \E c \in i.columns : BlankName(c.name) \/ Trim(c.type) \notin ColumnTypes

(* Mutant: the port is not checked.                                        *)
BadDatabaseButPort(o) ==
    \/ \E s \in Settings : Blank(o.value[s]) /\ Blank(o.env[s])
    \/ Blank(o.schema)
    \/ Blank(o.table)
    \/ Trim(o.on_conflict) \notin Policies
    \/ o.batch_size <= 0

BadDatabase(o) == BadDatabaseButPort(o) \/ (o.port = 0 /\ Blank(o.port_env))

BadOutput(o) ==
    \/ Blank(o.name)
    \/ Trim(o.type) # "timescaledb"
    \/ o.type = "timescaledb" /\ BadDatabase(o)

-----------------------------------------------------------------------------
(* validatePrometheusTextfile. *)

(* The series a metric exports: its own and that of the timestamp.         *)
SeriesOf(m) ==
    <<[name |-> m.name, labels |-> m.labels]>>
        \o IF Blank(m.timestamp_name) THEN <<>>
           ELSE <<[name |-> m.timestamp_name, labels |-> m.labels]>>

(* Mutant: the series of timestamps are not compared. *)
OwnPlaces(metrics) == (DOMAIN metrics) \X {1}

(* Where a list of metrics has a series. *)
Places(metrics) ==
    {p \in (DOMAIN metrics) \X {1, 2} : p[2] \in DOMAIN SeriesOf(metrics[p[1]])}

SeriesAt(metrics, p) == SeriesOf(metrics[p[1]])[p[2]]

SeriesTwice(metrics) ==
    \E p, q \in Places(metrics) : p # q /\ SeriesAt(metrics, p) = SeriesAt(metrics, q)

Twice(seq) == \E j, k \in DOMAIN seq : j < k /\ seq[j] = seq[k]

BadMetric(m) ==
    \/ m.name \notin MetricNames
    \/ Trim(m.type) # "gauge"
    \/ BlankName(m.value_column)
    \/ \E l \in m.labels : l.name \notin LabelNames \/ Blank(l.value)
    \/ ~Blank(m.timestamp_name) /\ m.timestamp_name \notin MetricNames

BadMetrics(i) ==
    /\ i.prometheus
    /\ \/ Blank(i.prom_directory)
       \/ i.metrics = <<>>
       \/ \E k \in DOMAIN i.metrics : BadMetric(MetricDefaults(i.metrics[k]))
       \/ SeriesTwice(i.metrics)

-----------------------------------------------------------------------------

Accepted(i) ==
    LET d == WithDefaults(i)
    IN ~(\/ Blank(d.name)
         \/ Blank(d.directory)
         \/ BadType(d)
         \/ BadMode(d)
         \/ BadShape(d)
         \/ BadTimestamp(d)
         \/ \E k \in DOMAIN d.outputs : BadOutput(d.outputs[k])
         \/ BadMetrics(d))

(* Validate. *)
AcceptedConfig(inputs) ==
    inputs # <<>> /\ \A k \in DOMAIN inputs : Accepted(inputs[k])

StoredConfig(inputs) == [k \in DOMAIN inputs |-> Stored(inputs[k])]
=============================================================================
