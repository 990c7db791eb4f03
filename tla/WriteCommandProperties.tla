----------------------- MODULE WriteCommandProperties -----------------------
(***************************************************************************)
(* What WriteCommand is expected to satisfy: what Validate promises to the *)
(* rest of the program, and what the program makes of names.               *)
(***************************************************************************)
EXTENDS WriteCommand

(* A run that Validate has let pass has the numbers the loops, slices and  *)
(* divisions behind it need, whatever blanks surround its texts: a batch,  *)
(* a worker, a window of rows or of files, one file or more                *)
(* (config.go:169-189,265-272; main.go:384-391; writer.go:663,149;         *)
(* state.go:110-129).                                                      *)
NumbersAreSound ==
    /\ input.concurrency >= 1
    /\ input.mode = "growing_file" => input.replay_lines >= 1 /\ files = 1
    /\ input.mode = "last_n_files" => files <= input.last_n_files
    /\ files \in 1 .. world.files
    /\ output # None => output.batch_size >= 1
    /\ input.delimiter <= 1

(* The reader has what its file type needs; one with blanks around it is   *)
(* read as that type but was not checked as it (config.go:226-259).        *)
ReaderIsServed ==
    /\ options.reader \in {"tabular", "webdynsun", "xml"}
    /\ options.layouts > 0
    /\ input.file_type = Trim(input.file_type) =>
           /\ options.reader = "webdynsun" => options.header # <<>>
           /\ options.reader = "xml" => options.fields # {}
           /\ options.reader = "webdynsun" /\ command = "write" =>
                  ~BlankName(options.address)

PlanIsSound == options # None => NumbersAreSound /\ ReaderIsServed

Padding(text) == text # Trim(text)

(* What only the environment can tell: a setting is in neither place. *)
Unset ==
    \/ \E s \in Settings : Blank(output.value[s]) /\ output.env[s] \notin world.env
    \/ output.port <= 0 /\ ~Blank(output.port_env) /\ output.port_env \notin world.ports

WithoutTime(i) ==
    ~\E f \in i.xml_fields : f.name = i.timestamp_column /\ f.type = "timestamp"

(* A configuration that Validate accepts reaches its first row in a world  *)
(* that serves it, but for the mistakes Validate lets pass: no enabled     *)
(* output, or one of a type with blanks; a negative port; Webdynsun with   *)
(* blanks around it and no header columns; XML without a field for the     *)
(* time; one header column, for `read` (config.go:126-364,                 *)
(* timescaledb/config.go:24-124, main.go:130-175, reader.go:57-61,         *)
(* webdynsun_reader.go:46-49, writer.go:286-295).                          *)
AcceptedConfigsRun ==
    /\ pc = "no output" =>
           \A k \in DOMAIN input.outputs :
               input.outputs[k].enabled => Padding(input.outputs[k].type)
    /\ pc = "no settings" => Unset \/ (output.port < 0 /\ Blank(output.port_env))
    /\ pc = "no row" =>
           \/ Padding(input.file_type) /\ input.header_columns = <<>>
           \/ Trim(input.file_type) = "xml" /\ command = "write" /\ WithoutTime(input)
           \/ Len(input.header_columns) = 1 /\ command = "read"

(* The .prom file of an accepted configuration can be read by Prometheus:  *)
(* no series occurs twice, not even when the timestamp of one metric is    *)
(* that of another, and the TYPE of a name stands once, before its samples *)
(* (config.go:366-423, exporter.go:17-81).                                 *)
MetricsFileIsValid ==
    /\ ~Twice(metrics)
    /\ \A k \in DOMAIN metrics :
           metrics[k].is = "sample" =>
               \E j \in 1 .. k - 1 :
                   metrics[j].is = "type" /\ metrics[j].name = metrics[k].name

(* The name of a column as its words: the longest pieces of letters or of  *)
(* digits, a capital after a small letter beginning another, in small      *)
(* letters with underscores between them.                                  *)
Words(name) ==
    {k \in DOMAIN name : /\ IsAlnum(name[k])
                         /\ \/ k = 1
                            \/ ~IsAlnum(name[k - 1])
                            \/ Splits(name[k - 1], name[k])}

Spelled(name) ==
    FlattenSeq([k \in DOMAIN name |->
        IF ~IsAlnum(name[k]) THEN <<>>
        ELSE IF k \in Words(name) /\ \E j \in Words(name) : j < k
             THEN <<"_", ToLower(name[k])>>
        ELSE <<ToLower(name[k])>>])

(* Every column of the file that the table has goes into the INSERT under  *)
(* the words of its name, and no other; a column of the table that is      *)
(* named as its own words is reached (normalize.go:13-51, writer.go:477).  *)
ColumnsGetTheirNames ==
    LET own == {n \in ToSet(row) : ~IsTimestamp(n, input)}
    IN pc \in {"export", "done", "no metric", "column twice"} =>
           /\ ToSet(columns) = ToSet(Managed)
                  \cup ({Spelled(Replaced(n)) : n \in own} \cap world.columns)
           /\ \A n \in own : NormalizeColumnName(Spelled(Replaced(n))) = Spelled(Replaced(n))
           /\ pc = "column twice" =>
                  \/ \E j, k \in DOMAIN row :
                         j # k /\ Spelled(Replaced(row[j])) = Spelled(Replaced(row[k]))
                  \/ \E n \in own : Spelled(Replaced(n)) \in ToSet(Managed)
=============================================================================
