--------------------------- MODULE MCWriteCommand ---------------------------
(***************************************************************************)
(* Configurations for WriteCommand: one input, with one group of its       *)
(* settings at a time taking all the values the code tells apart, and      *)
(* files of two or no inputs.                                              *)
(***************************************************************************)
EXTENDS WriteCommandProperties

MCPadded == " " :> "" @@ " all " :> "all" @@ " growing_file " :> "growing_file"
            @@ " xml " :> "xml" @@ " webdynsun " :> "webdynsun"
            @@ " do_update " :> "do_update" @@ " timescaledb " :> "timescaledb"

MCMetricNames == {"m", "n"}
MCLabelNames == {"l"}
MCLower == {"a", "b", "c", "d", "e", "f", "g", "i", "l", "m", "n", "o", "p", "r", "s", "t", "u"}
MCUpper == "A" :> "a" @@ "T" :> "t"
MCDigits == {"1"}

Only(value) == [s \in Settings |-> value]

BaseOutput ==
    [name |-> "db", type |-> "timescaledb", enabled |-> TRUE,
     value |-> Only("v"), env |-> Only(""), port |-> 1, port_env |-> "",
     schema |-> "s", table |-> "t", on_conflict |-> "", batch_size |-> 0]

BaseMetric ==
    [name |-> "m", type |-> "", value_column |-> <<"a">>, labels |-> {},
     timestamp_name |-> ""]

Base ==
    [name |-> "in", directory |-> "d", file_type |-> "", mode |-> "",
     last_n_files |-> 0, replay_lines |-> 0, concurrency |-> 0, skip_lines |-> 0,
     header_columns |-> <<>>, timestamp_column |-> <<"t">>,
     timestamp_source_columns |-> <<>>, timestamp_layouts |-> 0,
     timestamp_timezone |-> "", delimiter |-> 0, include |-> 1, columns |-> {},
     address_column |-> <<>>, type_column |-> <<"b">>, xml_fields |-> {},
     outputs |-> <<BaseOutput>>, prometheus |-> FALSE, prom_directory |-> "p",
     metrics |-> <<>>]

(* File types, with what each of them needs and what it does not. *)
Types ==
    {[Base EXCEPT !.file_type = type, !.header_columns = header,
                  !.xml_fields = fields, !.columns = specs, !.address_column = address] :
        type \in {"", "columnar", "xml", " xml ", "webdynsun", " webdynsun ", "csv"},
        header \in {<<>>, <<<<"a">>>>, <<<<"a">>, <<" ">>>>},
        fields \in {{}, {[name |-> <<"a">>, path |-> "x", type |-> "int64"]},
                    {[name |-> <<"a">>, path |-> " ", type |-> "int64"]},
                    {[name |-> <<"t">>, path |-> "x", type |-> "timestamp"]}},
        specs \in {{}, {[name |-> <<"a">>, type |-> "decimal"]}},
        address \in {<<" ">>, <<"a">>}}

ModeInputs ==
    {[Base EXCEPT !.mode = mode, !.last_n_files = last, !.replay_lines = replay,
                  !.concurrency = workers] :
        mode \in {"", " all ", "latest", "last_n_files", "growing_file",
                  " growing_file ", "tail"},
        last \in {0, 2}, replay \in {-1, 0, 3}, workers \in {-1, 2}}

Times ==
    {[Base EXCEPT !.timestamp_column = column, !.timestamp_source_columns = sources,
                  !.timestamp_layouts = layouts, !.timestamp_timezone = zone] :
        column \in {<<"t">>, <<" ">>}, sources \in {<<>>, <<<<"a">>>>, <<<<" ">>>>},
        layouts \in {0, 1}, zone \in {"", "UTC", "Mars"}}

Others ==
    {[Base EXCEPT !.name = " "], [Base EXCEPT !.directory = ""],
     [Base EXCEPT !.skip_lines = -1], [Base EXCEPT !.delimiter = 1],
     [Base EXCEPT !.delimiter = 2], [Base EXCEPT !.include = 0]}

(* Outputs: connections, the rest of one, and lists of outputs. *)
Connections ==
    {[BaseOutput EXCEPT !.value[s] = value, !.env[s] = env] :
        s \in Settings, value \in {"", " ", "v"}, env \in {"", "SET", "UNSET"}}
    \cup {[BaseOutput EXCEPT !.port = port, !.port_env = env] :
        port \in {-1, 0, 1}, env \in {"", "PORT", "SET"}}

OutputKinds ==
    {[BaseOutput EXCEPT !.type = type, !.enabled = enabled, !.table = table,
                        !.on_conflict = policy, !.batch_size = size] :
        type \in {"timescaledb", " timescaledb ", "csv"}, enabled \in BOOLEAN,
        table \in {"", "t"}, policy \in {"", " do_update ", "replace"}, size \in {-1, 2}}

TwoOutputs ==
    {<<o, p>> : o, p \in {[BaseOutput EXCEPT !.type = type, !.enabled = enabled] :
        type \in {"timescaledb", " timescaledb "}, enabled \in BOOLEAN}}

Outputs ==
    {[Base EXCEPT !.outputs = <<o>>] : o \in Connections \cup OutputKinds}
    \cup {[Base EXCEPT !.outputs = os] : os \in TwoOutputs \cup {<<>>}}

(* One or two metrics, of names and labels that may be the same. *)
SomeMetrics ==
    {[BaseMetric EXCEPT !.name = name, !.timestamp_name = time, !.labels = labels] :
        name \in {"m", "n"}, time \in {"", "m", "n"},
        labels \in {{}, {[name |-> "l", value |-> "1"]}}}

OneMetric ==
    SomeMetrics
    \cup {[BaseMetric EXCEPT !.type = "counter"], [BaseMetric EXCEPT !.name = "1"],
          [BaseMetric EXCEPT !.timestamp_name = "1"],
          [BaseMetric EXCEPT !.value_column = <<" ">>],
          [BaseMetric EXCEPT !.labels = {[name |-> "1", value |-> "1"]}],
          [BaseMetric EXCEPT !.labels = {[name |-> "l", value |-> " "]}]}

Metrics ==
    {[Base EXCEPT !.prometheus = TRUE, !.metrics = ms] :
        ms \in {<<>>} \cup {<<m>> : m \in OneMetric}
                \cup {<<m, n>> : m, n \in SomeMetrics}}
    \cup {[Base EXCEPT !.prometheus = TRUE,
                       !.metrics = <<BaseMetric, [BaseMetric EXCEPT !.name = "n", !.value_column = <<"b">>]>>]}
    \cup {[Base EXCEPT !.prometheus = on, !.metrics = <<BaseMetric>>, !.prom_directory = ""] :
            on \in BOOLEAN}

(* Names of columns: those of three characters, and two of one or two. *)
Named3 == [Base EXCEPT !.name = "names", !.timestamp_source_columns = <<<<"b">>>>,
                       !.timestamp_layouts = 1]

MCConfigs ==
    {<<i>> : i \in Types \cup ModeInputs \cup Times \cup Others \cup Outputs \cup Metrics}
    \cup {<<>>, <<Named3>>, <<Base, [Base EXCEPT !.mode = "latest"]>>,
          <<Base, Named3>>, <<Base, [Base EXCEPT !.include = 0]>>}

Chars == {"a", "A", "1", "_", "%", "/", "(", ")", "-", " "}

Strings(n) == [1 .. n -> Chars]

Short == {s \in Strings(1) \cup Strings(2) : ToSet(s) \subseteq {"a", "A", "1", "_", ")"}}

MCRows ==
    "in" :> {<<>>, <<<<"a">>>>, <<<<"t">>, <<"a">>, <<"T", "s">>>>}
    @@ " " :> {}
    @@ "names" :> {<<s>> : s \in Strings(1) \cup Strings(2) \cup Strings(3)}
                  \cup {<<s, t>> : <<s, t>> \in {p \in Short \X Short : p[1] # p[2]}}
                  \cup {<<<<"t">>, <<"b">>, <<"T", "s">>>>, <<<<"b">>, <<"B">>>>}

(* The columns of the table: some of every shape a name can get, and some  *)
(* that no name gets.                                                      *)
Table ==
    {<<"a">>, <<"1">>, <<"a", "a">>, <<"a", "_", "a">>, <<"a", "_", "1">>,
     <<"1", "_", "a">>, <<"1", "1">>, <<"a", "a", "a">>, <<"a", "a", "_", "a">>,
     <<"a", "_", "a", "a">>, <<"a", "_", "a", "_", "a">>, <<"a", "_", "1", "_", "a">>,
     <<"1", "_", "a", "_", "1">>, <<"a", "1">>, <<"1", "a">>, <<"A">>, <<"_">>,
     <<"p", "c", "t">>, <<"a", "p", "c", "t">>, <<"1", "_", "p", "c", "t">>,
     <<"a", "_", "p", "e", "r">>, <<"p", "e", "r", "_", "1">>,
     <<"a", "_", "p", "e", "r", "_", "a">>, <<"t">>, <<"b">>} \cup ToSet(Managed)

Good == [directory |-> TRUE, files |-> 3, env |-> {"SET", "PORT"}, ports |-> {"PORT"},
         zones |-> {"UTC"}, database |-> TRUE, columns |-> Table]

MCWorlds ==
    {Good, [Good EXCEPT !.files = 1], [Good EXCEPT !.files = 0],
     [Good EXCEPT !.directory = FALSE], [Good EXCEPT !.database = FALSE],
     [Good EXCEPT !.columns = {}], [Good EXCEPT !.env = {}, !.ports = {}]}
=============================================================================
