------------------------- MODULE WriteCommandProofs -------------------------
(***************************************************************************)
(* For every set of configurations and worlds: a run plans with sound      *)
(* numbers and a reader that has what it needs (PlanSound), fails before   *)
(* its first row only for the reasons AcceptedConfigsRun lists             *)
(* (AcceptedRun), makes a .prom file Prometheus reads (MetricsValid) and   *)
(* inserts columns under the words of their names (ColumnsNamedRight).     *)
(* The first two follow from where the parts of a run come from (Sources): *)
(* its input is one that Validate left, its output one of the input's, its *)
(* number of files and its options are made of these.  For the third,      *)
(* MetricsInv says which metric each sample made so far is of.  The last   *)
(* is about the loop of NormalizeColumnName: Looped says what it has       *)
(* written after each character.  That holds for names of any length by    *)
(* induction, with a set in place of a predicate (AllSequences).           *)
(***************************************************************************)
EXTENDS WriteCommandProperties, SequenceTheorems, WellFoundedInduction, TLAPS

(* An input as Validate leaves it, and an output of one. *)
Checked(i) == \E j \in Input : Accepted(j) /\ i = Stored(j)

Chosen(o, i) == Usable(o) /\ \E k \in DOMAIN i.outputs : o = i.outputs[k]

OptionsOf(i) == IF command = "write" THEN WriteOptions(i) ELSE ReadOptions(i)

(* The stages of a run. *)
Unread == {"load", "bad config"}
Unfound == Unread \cup {"find", "no input"}
Unlisted == Unfound \cup {"list", "no files"}
Unplanned == Unlisted \cup {"output", "no output", "connect", "no settings",
                            "no table", "options", "no zone"}

(* Where the parts of a run come from. *)
Sources ==
    /\ world \in Worlds
    /\ pc = "load" => config \in Configs
    /\ pc \notin Unread => \A k \in DOMAIN config : Checked(config[k])
    /\ pc \notin Unfound => Checked(input)
    /\ pc \notin Unlisted => files = FilesOf(input, world.files) /\ world.files > 0
    /\ pc \in Unlisted => output = None
    /\ pc \in {"connect", "no settings", "no table"} => Chosen(output, input)
    /\ output # None => Chosen(output, input)
    /\ pc \in Unplanned => options = None
    /\ options # None => options = OptionsOf(input)

(* Why a run has ended. *)
Reasons ==
    /\ pc = "no files" => ~(world.directory /\ world.files > 0)
    /\ pc = "no table" => ~(world.database /\ world.columns # {})
    /\ pc = "no settings" => ~Resolves(output)
    /\ pc = "no output" => \A k \in DOMAIN input.outputs : ~Usable(input.outputs[k])
    /\ pc \in {"row", "preview"} => options = OptionsOf(input)
    /\ pc = "no row" => options = OptionsOf(input) /\ Refuses(options)

-----------------------------------------------------------------------------
(* What Validate promises of an input it leaves. *)

(* The fields of the copy its checks see. *)
LEMMA WithDefaultsKeeps ==
    ASSUME NEW j \in Input
    PROVE  /\ WithDefaults(j).concurrency = IF j.concurrency <= 0 THEN 1 ELSE j.concurrency
           /\ WithDefaults(j).replay_lines =
                 IF j.mode = "growing_file" /\ j.replay_lines = 0 THEN 5 ELSE j.replay_lines
           /\ WithDefaults(j).mode = Default(j.mode, "all")
           /\ WithDefaults(j).file_type = Default(j.file_type, "tabular")
           /\ WithDefaults(j).outputs = [k \in DOMAIN j.outputs |-> OutputDefaults(j.outputs[k])]
           /\ WithDefaults(j).last_n_files = j.last_n_files
           /\ WithDefaults(j).delimiter = j.delimiter
           /\ WithDefaults(j).header_columns = j.header_columns
           /\ WithDefaults(j).xml_fields = j.xml_fields
           /\ WithDefaults(j).timestamp_layouts = j.timestamp_layouts
           /\ WithDefaults(j).address_column = j.address_column
  BY DEF WithDefaults, Input

(* The fields of the input it leaves are those of the copy, but for one.   *)
LEMMA StoredKeeps ==
    ASSUME NEW j \in Input
    PROVE  /\ Stored(j).concurrency = WithDefaults(j).concurrency
           /\ Stored(j).replay_lines = WithDefaults(j).replay_lines
           /\ Stored(j).mode = WithDefaults(j).mode
           /\ Stored(j).file_type = WithDefaults(j).file_type
           /\ Stored(j).outputs = WithDefaults(j).outputs
           /\ Stored(j).last_n_files = WithDefaults(j).last_n_files
           /\ Stored(j).delimiter = WithDefaults(j).delimiter
           /\ Stored(j).header_columns = WithDefaults(j).header_columns
           /\ Stored(j).xml_fields = WithDefaults(j).xml_fields
           /\ Stored(j).timestamp_layouts = WithDefaults(j).timestamp_layouts
           /\ Stored(j).address_column =
                 IF WithDefaults(j).file_type = "webdynsun" /\ BlankName(j.address_column)
                 THEN <<"a", "d", "d", "r">> ELSE j.address_column
  BY DEF Stored, WithDefaults, Input

(* The numbers of an accepted input. *)
LEMMA NumbersOfChecked ==
    ASSUME NEW i, Checked(i)
    PROVE  /\ i.concurrency >= 1
           /\ i.mode = "growing_file" => i.replay_lines >= 1
           /\ i.mode = "last_n_files" => i.last_n_files \in Nat \ {0}
           /\ i.delimiter <= 1
           /\ i.timestamp_layouts \in Nat
<1>1. PICK j \in Input : Accepted(j) /\ i = Stored(j)
  BY DEF Checked
<1>2. /\ j.concurrency \in Int
      /\ j.replay_lines \in Int
      /\ j.last_n_files \in Int
      /\ j.timestamp_layouts \in Nat
      /\ j.delimiter \in Nat
  BY DEF Input
<1>3. /\ i.concurrency = IF j.concurrency <= 0 THEN 1 ELSE j.concurrency
      /\ i.replay_lines = IF j.mode = "growing_file" /\ j.replay_lines = 0
                           THEN 5 ELSE j.replay_lines
      /\ i.mode = Default(j.mode, "all")
      /\ i.last_n_files = j.last_n_files
      /\ i.delimiter = j.delimiter
      /\ i.timestamp_layouts = j.timestamp_layouts
  BY <1>1, WithDefaultsKeeps, StoredKeeps
<1>4. /\ i.mode = WithDefaults(j).mode
      /\ i.replay_lines = WithDefaults(j).replay_lines
      /\ i.last_n_files = WithDefaults(j).last_n_files
      /\ i.delimiter = WithDefaults(j).delimiter
  BY <1>1, StoredKeeps
<1>5. ~BadMode(WithDefaults(j)) /\ ~BadShape(WithDefaults(j))
  BY <1>1 DEF Accepted
<1>6. ~BadMode(i) /\ ~(i.delimiter > 1)
  BY <1>4, <1>5 DEF BadMode, BadShape
<1>7. i.mode = "growing_file" => j.mode = "growing_file"
  BY <1>3 DEF Default
<1>8. QED
  BY <1>2, <1>3, <1>6, <1>7 DEF BadMode

(* What the file type of an accepted input has. *)
LEMMA ReaderOfChecked ==
    ASSUME NEW i, Checked(i)
    PROVE  /\ ReaderOf(i) \in {"tabular", "webdynsun", "xml"}
           /\ i.file_type = Trim(i.file_type) /\ ReaderOf(i) = "webdynsun" =>
                  i.header_columns # <<>> /\ ~BlankName(i.address_column)
           /\ i.file_type = Trim(i.file_type) /\ ReaderOf(i) = "xml" =>
                  i.xml_fields # {}
<1>1. PICK j \in Input : Accepted(j) /\ i = Stored(j)
  BY DEF Checked
<1>2. ~BadType(WithDefaults(j))
  BY <1>1 DEF Accepted
<1>3. Trim(i.file_type) \in FileTypes
  BY <1>1, <1>2, StoredKeeps DEF BadType
<1>4. ReaderOf(i) \in {"tabular", "webdynsun", "xml"}
  BY <1>3 DEF ReaderOf, FileTypes
<1>5. ASSUME i.file_type = Trim(i.file_type), ReaderOf(i) = "webdynsun"
      PROVE  i.header_columns # <<>> /\ ~BlankName(i.address_column)
  <2>1. WithDefaults(j).file_type = "webdynsun"
    BY <1>1, <1>5, StoredKeeps DEF ReaderOf
  <2>2. i.header_columns # <<>>
    BY <1>1, <1>2, <2>1, StoredKeeps DEF BadType
  <2>3. ~BlankName(<<"a", "d", "d", "r">>)
    <3>1. "a" \in ToSet(<<"a", "d", "d", "r">>)
      BY DEF ToSet
    <3>2. QED
      BY <3>1 DEF BlankName
  <2>4. QED
    BY <1>1, <2>1, <2>2, <2>3, StoredKeeps
<1>6. ASSUME i.file_type = Trim(i.file_type), ReaderOf(i) = "xml"
      PROVE  i.xml_fields # {}
  BY <1>1, <1>2, <1>6, StoredKeeps DEF BadType, ReaderOf
<1>7. QED
  BY <1>4, <1>5, <1>6

(* The outputs of an accepted input. *)
LEMMA OutputsOfChecked ==
    ASSUME NEW i, Checked(i), NEW k \in DOMAIN i.outputs
    PROVE  /\ Trim(i.outputs[k].type) = "timescaledb"
           /\ i.outputs[k].batch_size >= 1
           /\ i.outputs[k].port \in Int
           /\ i.outputs[k].type = "timescaledb" =>
                  /\ \A s \in Settings : ~(/\ Blank(i.outputs[k].value[s])
                                           /\ Blank(i.outputs[k].env[s]))
                  /\ ~(i.outputs[k].port = 0 /\ Blank(i.outputs[k].port_env))
<1>1. PICK j \in Input : Accepted(j) /\ i = Stored(j)
  BY DEF Checked
<1>2. /\ i.outputs = WithDefaults(j).outputs
      /\ i.outputs = [n \in DOMAIN j.outputs |-> OutputDefaults(j.outputs[n])]
  BY <1>1, WithDefaultsKeeps, StoredKeeps
<1>3. j.outputs \in Seq(Output)
  BY DEF Input
<1>4. k \in DOMAIN j.outputs /\ j.outputs[k] \in Output
  BY <1>2, <1>3
<1>5. i.outputs[k] = OutputDefaults(j.outputs[k])
  BY <1>2, <1>4
<1>6. /\ i.outputs[k].batch_size >= 1
      /\ i.outputs[k].port \in Int
  BY <1>4, <1>5 DEF OutputDefaults, Output
<1>7. ~BadOutput(i.outputs[k])
  BY <1>1, <1>2 DEF Accepted
<1>8. QED
  BY <1>6, <1>7 DEF BadOutput, BadDatabase, BadDatabaseButPort

-----------------------------------------------------------------------------
(* Every input of an accepted configuration is one that Validate left. *)
LEMMA StoredConfigChecked ==
    ASSUME NEW c \in Seq(Input), AcceptedConfig(c)
    PROVE  \A k \in DOMAIN StoredConfig(c) : Checked(StoredConfig(c)[k])
<1>1. SUFFICES ASSUME NEW k \in DOMAIN StoredConfig(c)
               PROVE  Checked(StoredConfig(c)[k])
  OBVIOUS
<1>2. k \in DOMAIN c /\ StoredConfig(c)[k] = Stored(c[k])
  BY DEF StoredConfig
<1>3. c[k] \in Input /\ Accepted(c[k])
  BY <1>2 DEF AcceptedConfig
<1>4. QED
  BY <1>2, <1>3 DEF Checked

(* A run begins with nothing chosen. *)
LEMMA SourcesInit == Init => Sources /\ Reasons
  BY DEF Init, Sources, Reasons, Unread, Unfound, Unlisted, Unplanned

(* Every step makes its part of the run of the parts before. *)
LEMMA SourcesNext == Sources /\ Reasons /\ [Next]_vars => Sources' /\ Reasons'
<1> SUFFICES ASSUME Sources, Reasons, [Next]_vars
             PROVE  Sources' /\ Reasons'
  OBVIOUS
<1> USE WriteCommandAssumption DEF Sources, Reasons,
        Unread, Unfound, Unlisted, Unplanned, chosen
<1>1. CASE UNCHANGED vars
  BY <1>1 DEF vars, Resolves, HasPort, HasSetting, OptionsOf, Refuses
<1>2. CASE LoadConfig
  <2>1. config \in Seq(Input)
    BY <1>2 DEF LoadConfig, Sources
  <2>2. \A k \in DOMAIN config' : Checked(config'[k])
    BY <1>2, <2>1, StoredConfigChecked DEF LoadConfig
  <2>3. QED
    BY <1>2, <2>2 DEF LoadConfig, Goes
<1>3. CASE LoadFails
  BY <1>3 DEF LoadFails, Fails
<1>4. CASE FindInput
  BY <1>4 DEF FindInput, Goes, Candidates, Named
<1>5. CASE FindFails
  BY <1>5 DEF FindFails, Fails
<1>6. CASE ListFiles
  BY <1>6 DEF ListFiles, Goes
<1>7. CASE ListFails
  BY <1>7 DEF ListFails, Fails
<1>8. CASE ChooseOutput
  BY <1>8 DEF ChooseOutput, Goes, Chosen
<1>9. CASE NoOutput
  BY <1>9 DEF NoOutput, Fails
<1>10. CASE Connect
  BY <1>10 DEF Connect, Goes
<1>11. CASE ResolveFails
  BY <1>11 DEF ResolveFails, Fails, Resolves, HasPort, HasSetting
<1>12. CASE ConnectFails
  BY <1>12 DEF ConnectFails, Fails
<1>13. CASE Prepare
  BY <1>13 DEF Prepare, Goes, OptionsOf
<1>14. CASE PrepareFails
  BY <1>14 DEF PrepareFails, Fails
<1>15. CASE InsertRow
  BY <1>15 DEF InsertRow, Goes, OptionsOf
<1>16. CASE ExportMetric
  BY <1>16 DEF ExportMetric, Goes, OptionsOf
<1>17. CASE ExportFails
  BY <1>17 DEF ExportFails, Fails, OptionsOf
<1>18. CASE EndExport
  BY <1>18 DEF EndExport, Goes, OptionsOf
<1>19. CASE ReaderFails
  BY <1>19 DEF ReaderFails, Fails, OptionsOf, Refuses
<1>20. QED
  BY <1>1, <1>2, <1>3, <1>4, <1>5, <1>6, <1>7, <1>8, <1>9, <1>10, <1>11,
     <1>12, <1>13, <1>14, <1>15, <1>16, <1>17, <1>18, <1>19 DEF Next

(* In every state of a run its parts come from an input Validate left, and *)
(* a run that has ended has the reason its last step saw.                  *)
THEOREM SourcesAlways == Spec => [](Sources /\ Reasons)
<1>1. Init => Sources /\ Reasons
  BY SourcesInit
<1>2. Sources /\ Reasons /\ [Next]_vars => (Sources /\ Reasons)'
  BY SourcesNext
<1>3. QED
  BY <1>1, <1>2, PTL DEF Spec

-----------------------------------------------------------------------------
(* The numbers behind a plan of an accepted input are those its loops,     *)
(* slices and batches need, and its reader has what the file type needs.   *)
LEMMA SourcesGiveSoundPlans == Sources => PlanIsSound
<1> SUFFICES ASSUME Sources, options # None
             PROVE  NumbersAreSound /\ ReaderIsServed
  BY DEF PlanIsSound
<1>1. Checked(input)
  BY DEF Sources, Unplanned, Unlisted, Unfound
<1>2. files = FilesOf(input, world.files) /\ world.files \in Nat \ {0}
  <2>1. files = FilesOf(input, world.files) /\ world.files > 0 /\ world \in Worlds
    BY DEF Sources, Unplanned
  <2>2. world \in World
    BY <2>1, WriteCommandAssumption
  <2>3. QED
    BY <2>1, <2>2 DEF World
<1>3. NumbersAreSound
  <2>1. output # None => output.batch_size >= 1
    BY <1>1, OutputsOfChecked DEF Sources, Chosen
  <2>2. files \in 1 .. world.files
    BY <1>1, <1>2, NumbersOfChecked DEF FilesOf
  <2>3. input.mode = "growing_file" => files = 1
    BY <1>2 DEF FilesOf
  <2>4. input.mode = "last_n_files" => files <= input.last_n_files
    BY <1>1, <1>2, NumbersOfChecked DEF FilesOf
  <2>5. QED
    BY <1>1, <2>1, <2>2, <2>3, <2>4, NumbersOfChecked DEF NumbersAreSound
<1>4. ReaderIsServed
  <2>1. options = OptionsOf(input)
    BY DEF Sources
  <2>2. /\ options.reader = ReaderOf(input)
        /\ options.header = input.header_columns
        /\ options.layouts =
              IF input.timestamp_layouts = 0 THEN 2 ELSE input.timestamp_layouts
        /\ options.fields = IF ReaderOf(input) = "xml" THEN input.xml_fields ELSE {}
        /\ ReaderOf(input) = "webdynsun" /\ command = "write" =>
              options.address = input.address_column
    BY <2>1 DEF OptionsOf, WriteOptions, ReadOptions
  <2>3. options.layouts > 0
    BY <1>1, <2>2, NumbersOfChecked
  <2>4. QED
    BY <1>1, <2>2, <2>3, ReaderOfChecked DEF ReaderIsServed
<1>5. QED
  BY <1>3, <1>4

(* Whatever the configurations and the worlds, a run that Validate let     *)
(* pass reads and writes with sound numbers and a served reader            *)
(* (config.go:130-264, main.go:364-399, writer.go:61-109).                 *)
THEOREM PlanSound == Spec => []PlanIsSound
  BY SourcesAlways, SourcesGiveSoundPlans, PTL

(* What is left for a port that is not positive.                         *)
LEMMA NotPositive ==
    ASSUME NEW n \in Int, ~(n > 0)
    PROVE  n <= 0 /\ (n # 0 => n < 0)
  OBVIOUS

(* A run that stops before its first row does so because of the world, or  *)
(* of one of the mistakes Validate lets pass.                              *)
LEMMA ReasonsAreListed == Sources /\ Reasons => AcceptedConfigsRun
<1> SUFFICES ASSUME Sources, Reasons PROVE AcceptedConfigsRun
  OBVIOUS
<1>1. ASSUME pc = "no output"
      PROVE  \A k \in DOMAIN input.outputs :
                 input.outputs[k].enabled => Padding(input.outputs[k].type)
  <2>1. Checked(input)
    BY <1>1 DEF Sources, Unfound, Unread
  <2>2. \A k \in DOMAIN input.outputs :
           input.outputs[k].enabled => input.outputs[k].type # "timescaledb"
    BY <1>1 DEF Reasons, Usable
  <2>3. QED
    BY <2>1, <2>2, OutputsOfChecked DEF Padding
<1>2. ASSUME pc = "no settings"
      PROVE  Unset \/ (output.port < 0 /\ Blank(output.port_env))
  <2>1. Checked(input) /\ Chosen(output, input) /\ ~Resolves(output)
    BY <1>2 DEF Sources, Reasons, Unfound, Unread
  <2>2. /\ output.type = "timescaledb"
        /\ output.port \in Int
        /\ \A s \in Settings : ~(Blank(output.value[s]) /\ Blank(output.env[s]))
        /\ ~(output.port = 0 /\ Blank(output.port_env))
    BY <2>1, OutputsOfChecked DEF Chosen, Usable
  <2>3. CASE ~HasPort(output)
    <3>1. ~(output.port > 0)
      BY <2>3 DEF HasPort
    <3>2. output.port <= 0 /\ (output.port # 0 => output.port < 0)
      BY <2>2, <3>1, NotPositive
    <3>3. QED
      BY <2>2, <2>3, <3>1, <3>2 DEF HasPort, Unset
  <2>4. CASE \E s \in Settings : ~HasSetting(output, s)
    <3>1. PICK s \in Settings : ~HasSetting(output, s)
      BY <2>4
    <3>2. Blank(output.value[s]) /\ output.env[s] \notin world.env
      BY <2>2, <3>1 DEF HasSetting
    <3>3. QED
      BY <3>2 DEF Unset
  <2>5. QED
    BY <2>1, <2>2, <2>3, <2>4 DEF Resolves
<1>3. ASSUME pc = "no row"
      PROVE  \/ Padding(input.file_type) /\ input.header_columns = <<>>
             \/ Trim(input.file_type) = "xml" /\ command = "write" /\ WithoutTime(input)
             \/ Len(input.header_columns) = 1 /\ command = "read"
  <2>1. /\ Checked(input) /\ Refuses(options)
        /\ options = OptionsOf(input)
    BY <1>3 DEF Sources, Reasons, Unfound, Unread
  <2>2. /\ options.reader = ReaderOf(input)
        /\ options.header = input.header_columns
        /\ options.timestamp = input.timestamp_column
        /\ options.fields = IF ReaderOf(input) = "xml" THEN input.xml_fields ELSE {}
    BY <2>1 DEF OptionsOf, WriteOptions, ReadOptions
  <2>3. CASE options.reader = "webdynsun" /\ options.header = <<>>
    BY <2>1, <2>2, <2>3, ReaderOfChecked DEF Padding
  <2>4. CASE options.reader = "tabular" /\ command = "read" /\ Len(options.header) = 1
    BY <2>2, <2>4
  <2>5. CASE /\ options.reader = "xml" /\ command = "write"
             /\ ~\E f \in options.fields :
                    f.name = options.timestamp /\ f.type = "timestamp"
    <3>1. Trim(input.file_type) = "xml"
      BY <2>2, <2>5 DEF ReaderOf
    <3>2. WithoutTime(input)
      BY <2>2, <2>5 DEF WithoutTime
    <3>. QED
      BY <2>5, <3>1, <3>2
  <2>. QED
    BY <2>1, <2>3, <2>4, <2>5 DEF Refuses
<1>. QED
  BY <1>1, <1>2, <1>3 DEF AcceptedConfigsRun

(* An accepted configuration fails before its first row only for a reason  *)
(* in the world or a mistake AcceptedConfigsRun lists (config.go:126-364,  *)
(* timescaledb/config.go:24-124, webdynsun_reader.go:46-49).               *)
THEOREM AcceptedRun == Spec => []AcceptedConfigsRun
  BY SourcesAlways, ReasonsAreListed, PTL

-----------------------------------------------------------------------------
(* The .prom file.  Every sample made so far is of a series named by one   *)
(* of the metrics exported, so the next one is new.                        *)

TypeLine(series) == [is |-> "type", name |-> series.name]

SampleLine(series) == [is |-> "sample", name |-> series.name, labels |-> series.labels]

ValidLines(lines) ==
    /\ ~Twice(lines)
    /\ \A k \in DOMAIN lines :
           lines[k].is = "sample" =>
               \E j \in 1 .. k - 1 :
                   lines[j].is = "type" /\ lines[j].name = lines[k].name

Series == [name : STRING, labels : SUBSET [name : STRING, value : STRING]]

Lines == {TypeLine(s) : s \in Series} \cup {SampleLine(s) : s \in Series}

(* Line l is not a sample, or is one of the first n metrics. *)
OfMetrics(l, ms, n) ==
    l.is = "sample" =>
        \E p \in Places(ms) : p[1] <= n /\ l = SampleLine(SeriesAt(ms, p))

MetricsInv ==
    /\ metrics \in Seq(Lines)
    /\ exported \in Nat
    /\ pc \in Unplanned \cup {"row", "preview"} => metrics = <<>> /\ exported = 0
    /\ ValidLines(metrics)
    /\ \A k \in DOMAIN metrics : OfMetrics(metrics[k], input.metrics, exported)

LEMMA LineKinds ==
    ASSUME NEW s, NEW r
    PROVE  /\ TypeLine(s).is = "type" /\ SampleLine(s).is = "sample"
           /\ TypeLine(s).name = s.name /\ SampleLine(s).name = s.name
           /\ TypeLine(s) # SampleLine(r)
<1>1. TypeLine(s).is = "type" /\ SampleLine(r).is = "sample"
  BY DEF TypeLine, SampleLine
<1>2. TypeLine(s) # SampleLine(r)
  BY <1>1
<1>. QED
  BY <1>2 DEF TypeLine, SampleLine

LEMMA SamplesDiffer ==
    ASSUME NEW s \in Series, NEW r \in Series, SampleLine(s) = SampleLine(r)
    PROVE  s = r
BY DEF SampleLine, Series

(* A line that is not there yet makes valid lines longer, if it is a type  *)
(* or a sample of a name that has one.                                     *)
LEMMA AppendKeeps ==
    ASSUME NEW lines \in Seq(Lines), NEW l \in Lines, ValidLines(lines),
           \A k \in DOMAIN lines : lines[k] # l,
           l.is = "sample" => \E j \in DOMAIN lines :
                                 lines[j].is = "type" /\ lines[j].name = l.name
    PROVE  /\ Append(lines, l) \in Seq(Lines)
           /\ ValidLines(Append(lines, l))
           /\ \A k \in DOMAIN Append(lines, l) :
                 \/ Append(lines, l)[k] = l
                 \/ k \in DOMAIN lines /\ Append(lines, l)[k] = lines[k]
           /\ \A k \in DOMAIN lines :
                 k \in DOMAIN Append(lines, l) /\ Append(lines, l)[k] = lines[k]
           /\ \E k \in DOMAIN Append(lines, l) : Append(lines, l)[k] = l
<1>. DEFINE n == Len(lines)
            more == Append(lines, l)
<1>1. /\ n \in Nat /\ more \in Seq(Lines)
      /\ DOMAIN lines = 1 .. n /\ DOMAIN more = 1 .. n + 1
      /\ \A k \in 1 .. n : more[k] = lines[k]
      /\ more[n + 1] = l
  OBVIOUS
<1>. HIDE DEF n, more
<1>2. \A k \in 1 .. n + 1 : k \in 1 .. n \/ k = n + 1
  BY <1>1
<1>3. \A k \in 1 .. n : k \in 1 .. n + 1
  BY <1>1
<1>4. ~Twice(more)
  <2>1. SUFFICES ASSUME NEW j \in 1 .. n + 1, NEW k \in 1 .. n + 1,
                        j < k, more[j] = more[k]
                 PROVE  FALSE
    BY <1>1 DEF Twice
  <2>2. j \in 1 .. n
    BY <1>1, <2>1
  <2>3. CASE k = n + 1
    BY <1>1, <2>1, <2>2, <2>3
  <2>4. CASE k \in 1 .. n
    BY <1>1, <2>1, <2>2, <2>4 DEF ValidLines, Twice
  <2>. QED
    BY <1>2, <2>3, <2>4
<1>5. ASSUME NEW k \in 1 .. n + 1, more[k].is = "sample"
      PROVE  \E j \in 1 .. k - 1 :
                 more[j].is = "type" /\ more[j].name = more[k].name
  <2>1. CASE k = n + 1
    <3>1. n + 1 - 1 = n
      BY <1>1
    <3>. QED
      BY <1>1, <1>5, <2>1, <3>1
  <2>2. CASE k \in 1 .. n
    <3>1. PICK j \in 1 .. k - 1 :
             lines[j].is = "type" /\ lines[j].name = lines[k].name
      BY <1>1, <1>5, <2>2 DEF ValidLines
    <3>2. j \in 1 .. n
      BY <1>1, <2>2, <3>1
    <3>. QED
      BY <1>1, <2>2, <3>1, <3>2
  <2>. QED
    BY <1>2, <2>1, <2>2
<1>6. ValidLines(more)
  BY <1>1, <1>4, <1>5 DEF ValidLines
<1>7. n + 1 \in 1 .. n + 1
  BY <1>1
<1>. QED
  BY <1>1, <1>2, <1>3, <1>6, <1>7 DEF more

(* The lines of a series that is new, with its type if that is new.        *)
LEMMA EmitKeeps ==
    ASSUME NEW lines \in Seq(Lines), NEW s \in Series, ValidLines(lines),
           \A k \in DOMAIN lines : lines[k] # SampleLine(s)
    PROVE  /\ Emit(lines, s) \in Seq(Lines)
           /\ ValidLines(Emit(lines, s))
           /\ \A k \in DOMAIN Emit(lines, s) :
                 \/ Emit(lines, s)[k] \in {TypeLine(s), SampleLine(s)}
                 \/ k \in DOMAIN lines /\ Emit(lines, s)[k] = lines[k]
<1>1. TypeLine(s) \in Lines /\ SampleLine(s) \in Lines
  BY DEF Lines
<1>2. CASE TypeLine(s) \in ToSet(lines)
  <2>1. Emit(lines, s) = Append(lines, SampleLine(s))
    BY <1>2 DEF Emit, TypeLine, SampleLine
  <2>2. \E j \in DOMAIN lines : lines[j] = TypeLine(s)
    BY <1>2 DEF ToSet
  <2>. QED
    BY <1>1, <2>1, <2>2, AppendKeeps, LineKinds
<1>3. CASE TypeLine(s) \notin ToSet(lines)
  <2>. DEFINE typed == Append(lines, TypeLine(s))
  <2>1. Emit(lines, s) = Append(typed, SampleLine(s))
    <3>1. Emit(lines, s) = lines \o <<TypeLine(s), SampleLine(s)>>
      BY <1>3 DEF Emit, TypeLine, SampleLine
    <3>. QED
      BY <1>1, <3>1
  <2>2. \A k \in DOMAIN lines : lines[k] # TypeLine(s)
    BY <1>3 DEF ToSet
  <2>3. /\ typed \in Seq(Lines) /\ ValidLines(typed)
        /\ \A k \in DOMAIN typed :
              typed[k] = TypeLine(s) \/ (k \in DOMAIN lines /\ typed[k] = lines[k])
        /\ \E k \in DOMAIN typed : typed[k] = TypeLine(s)
    BY <1>1, <2>2, AppendKeeps, LineKinds
  <2>. HIDE DEF typed
  <2>4. \A k \in DOMAIN typed : typed[k] # SampleLine(s)
    BY <2>3, LineKinds
  <2>. QED
    BY <1>1, <2>1, <2>3, <2>4, AppendKeeps, LineKinds
<1>. QED
  BY <1>2, <1>3

LEMMA TwoInOne ==
    ASSUME NEW S, NEW a \in S, NEW b \in S
    PROVE  <<a>> \o <<b>> = <<a, b>>
<1>1. <<a>> \o <<b>> = Append(<<a>>, b)
  OBVIOUS
<1>2. /\ Append(<<a>>, b) \in Seq(S) /\ Len(Append(<<a>>, b)) = 2
      /\ Append(<<a>>, b)[1] = a /\ Append(<<a>>, b)[2] = b
  OBVIOUS
<1>3. /\ <<a, b>> \in Seq(S) /\ Len(<<a, b>>) = 2
      /\ <<a, b>>[1] = a /\ <<a, b>>[2] = b
  OBVIOUS
<1>4. \A s, t \in Seq(S) :
         Len(s) = Len(t) /\ (\A i \in 1 .. Len(s) : s[i] = t[i]) => s = t
  OBVIOUS
<1>5. \A i \in 1 .. 2 : i = 1 \/ i = 2
  OBVIOUS
<1>6. \A i \in 1 .. 2 : Append(<<a>>, b)[i] = <<a, b>>[i]
  BY <1>2, <1>3, <1>5
<1>. QED
  BY <1>1, <1>2, <1>3, <1>4, <1>6

(* The metrics Validate leaves have the names and the labels they had.     *)
MetricsLeft == {MetricDefaults(m) : m \in Metric}

LEMMA LeftMetric ==
    ASSUME NEW m \in Metric
    PROVE  /\ MetricDefaults(m).name = m.name
           /\ MetricDefaults(m).labels = m.labels
           /\ MetricDefaults(m).timestamp_name = m.timestamp_name
           /\ [name |-> m.name, labels |-> m.labels] \in Series
           /\ [name |-> m.timestamp_name, labels |-> m.labels] \in Series
BY DEF MetricDefaults, Metric, Series

LEMMA LeftMetrics ==
    ASSUME NEW m \in MetricsLeft
    PROVE  /\ [name |-> m.name, labels |-> m.labels] \in Series
           /\ [name |-> m.timestamp_name, labels |-> m.labels] \in Series
BY LeftMetric DEF MetricsLeft

(* The series of a metric. *)
LEMMA SeriesOfMetric ==
    ASSUME NEW m \in MetricsLeft
    PROVE  /\ 1 \in DOMAIN SeriesOf(m)
           /\ SeriesOf(m)[1] \in Series
           /\ ~Blank(m.timestamp_name) =>
                  2 \in DOMAIN SeriesOf(m) /\ SeriesOf(m)[2] \in Series
<1>. DEFINE own == [name |-> m.name, labels |-> m.labels]
            time == [name |-> m.timestamp_name, labels |-> m.labels]
<1>1. own \in Series /\ time \in Series
  BY LeftMetrics
<1>2. CASE Blank(m.timestamp_name)
  <2>1. SeriesOf(m) = <<own>>
    BY <1>2 DEF SeriesOf
  <2>. QED
    BY <1>1, <1>2, <2>1
<1>3. CASE ~Blank(m.timestamp_name)
  <2>1. SeriesOf(m) = <<own>> \o <<time>>
    BY <1>3 DEF SeriesOf
  <2>2. SeriesOf(m) = <<own, time>>
    <3>. HIDE DEF own, time
    <3>. QED
      BY <1>1, <2>1, TwoInOne
  <2>. QED
    BY <1>1, <2>2
<1>. QED
  BY <1>2, <1>3

LEMMA SeriesAtPlace ==
    ASSUME NEW ms \in Seq(MetricsLeft), NEW p \in Places(ms)
    PROVE  SeriesAt(ms, p) \in Series
<1>1. p[1] \in DOMAIN ms /\ p[2] \in {1, 2} /\ p[2] \in DOMAIN SeriesOf(ms[p[1]])
  BY DEF Places
<1>2. ms[p[1]] \in MetricsLeft
  BY <1>1
<1>. DEFINE m == ms[p[1]]
<1>3. \A i \in DOMAIN SeriesOf(m) : i \in {1, 2} => SeriesOf(m)[i] \in Series
  <2>. HIDE DEF m
  <2>1. m \in MetricsLeft
    BY <1>2 DEF m
  <2>. DEFINE own == [name |-> m.name, labels |-> m.labels]
              time == [name |-> m.timestamp_name, labels |-> m.labels]
  <2>2. own \in Series /\ time \in Series
    BY <2>1, LeftMetrics
  <2>3. SeriesOf(m) = <<own>> \/ SeriesOf(m) = <<own, time>>
    <3>1. SeriesOf(m) = <<own>> \o <<>> \/ SeriesOf(m) = <<own>> \o <<time>>
      BY DEF SeriesOf
    <3>. HIDE DEF own, time
    <3>2. <<own>> \o <<>> = <<own>>
      BY <2>2
    <3>. QED
      BY <2>2, <3>1, <3>2, TwoInOne
  <2>. HIDE DEF own, time
  <2>. QED
    BY <2>2, <2>3
<1>. QED
  BY <1>1, <1>3 DEF SeriesAt

(* The samples of one more metric are new if no series is named twice.     *)
LEMMA PlaceIsNew ==
    ASSUME NEW ms \in Seq(MetricsLeft), ~SeriesTwice(ms), NEW n \in Nat,
           NEW lines, \A k \in DOMAIN lines : OfMetrics(lines[k], ms, n),
           NEW p \in Places(ms), n < p[1]
    PROVE  \A k \in DOMAIN lines : lines[k] # SampleLine(SeriesAt(ms, p))
<1>1. ASSUME NEW k \in DOMAIN lines, lines[k] = SampleLine(SeriesAt(ms, p))
      PROVE  FALSE
  <2>1. PICK q \in Places(ms) : q[1] <= n /\ lines[k] = SampleLine(SeriesAt(ms, q))
    BY <1>1, LineKinds DEF OfMetrics
  <2>2. p[1] \in Nat /\ q[1] \in Nat
    BY DEF Places
  <2>3. p # q
    BY <2>1, <2>2
  <2>4. SeriesAt(ms, p) \in Series /\ SeriesAt(ms, q) \in Series
    BY SeriesAtPlace
  <2>. QED
    BY <1>1, <2>1, <2>3, <2>4, SamplesDiffer DEF SeriesTwice
<1>. QED
  BY <1>1

(* The lines of the next metric.                                           *)
LEMMA MetricKeeps ==
    ASSUME NEW ms \in Seq(MetricsLeft), ~SeriesTwice(ms), NEW n \in Nat, n < Len(ms),
           NEW lines \in Seq(Lines), ValidLines(lines),
           \A k \in DOMAIN lines : OfMetrics(lines[k], ms, n)
    PROVE  LET more == EmitMetric(lines, ms[n + 1])
           IN /\ more \in Seq(Lines)
              /\ ValidLines(more)
              /\ \A k \in DOMAIN more : OfMetrics(more[k], ms, n + 1)
<1>. DEFINE m == ms[n + 1]
            own == SeriesOf(m)[1]
            time == SeriesOf(m)[2]
            first == Emit(lines, own)
            p == <<n + 1, 1>>
            q == <<n + 1, 2>>
<1>1. m \in MetricsLeft /\ n + 1 \in DOMAIN ms
  OBVIOUS
<1>2. /\ p \in Places(ms) /\ SeriesAt(ms, p) = own /\ own \in Series
      /\ ~Blank(m.timestamp_name) =>
             q \in Places(ms) /\ SeriesAt(ms, q) = time /\ time \in Series
  BY <1>1, SeriesOfMetric DEF Places, SeriesAt
<1>3. p[1] = n + 1 /\ q[1] = n + 1 /\ p # q /\ n < n + 1 /\ n + 1 <= n + 1
  OBVIOUS
<1>4. EmitMetric(lines, m) = IF Blank(m.timestamp_name) THEN first ELSE Emit(first, time)
  BY DEF EmitMetric
<1>. HIDE DEF m, own, time, first, p, q
<1>5. \A l : OfMetrics(l, ms, n) => OfMetrics(l, ms, n + 1)
  <2>1. \A r \in Places(ms) : r[1] \in Nat /\ (r[1] <= n => r[1] <= n + 1)
    BY DEF Places
  <2>. QED
    BY <2>1 DEF OfMetrics
<1>6. \A s : OfMetrics(TypeLine(s), ms, n + 1)
  BY LineKinds DEF OfMetrics
<1>7. OfMetrics(SampleLine(own), ms, n + 1)
  BY <1>2, <1>3 DEF OfMetrics
<1>8. \A k \in DOMAIN lines : lines[k] # SampleLine(own)
  BY <1>2, <1>3, PlaceIsNew
<1>9. /\ first \in Seq(Lines) /\ ValidLines(first)
      /\ \A k \in DOMAIN first :
            \/ first[k] \in {TypeLine(own), SampleLine(own)}
            \/ k \in DOMAIN lines /\ first[k] = lines[k]
  BY <1>2, <1>8, EmitKeeps DEF first
<1>10. \A k \in DOMAIN first : OfMetrics(first[k], ms, n + 1)
  BY <1>5, <1>6, <1>7, <1>9
<1>11. CASE Blank(m.timestamp_name)
  BY <1>4, <1>9, <1>10, <1>11 DEF m
<1>12. CASE ~Blank(m.timestamp_name)
  <2>1. q \in Places(ms) /\ SeriesAt(ms, q) = time /\ time \in Series
    BY <1>2, <1>12
  <2>2. \A k \in DOMAIN lines : lines[k] # SampleLine(time)
    BY <1>3, <2>1, PlaceIsNew
  <2>3. SampleLine(own) # SampleLine(time)
    <3>1. own # time
      BY <1>2, <1>3, <2>1 DEF SeriesTwice
    <3>. QED
      BY <1>2, <2>1, <3>1, SamplesDiffer
  <2>4. \A k \in DOMAIN first : first[k] # SampleLine(time)
    BY <1>9, <2>2, <2>3, LineKinds
  <2>. DEFINE more == Emit(first, time)
  <2>5. /\ more \in Seq(Lines) /\ ValidLines(more)
        /\ \A k \in DOMAIN more :
              \/ more[k] \in {TypeLine(time), SampleLine(time)}
              \/ k \in DOMAIN first /\ more[k] = first[k]
    BY <1>9, <2>1, <2>4, EmitKeeps
  <2>. HIDE DEF more
  <2>6. OfMetrics(SampleLine(time), ms, n + 1)
    BY <1>3, <2>1 DEF OfMetrics
  <2>7. \A k \in DOMAIN more : OfMetrics(more[k], ms, n + 1)
    BY <1>6, <1>10, <2>5, <2>6
  <2>. QED
    BY <1>4, <1>12, <2>5, <2>7 DEF m, more
<1>. QED
  BY <1>11, <1>12

(* Validate has compared all series of the metrics it leaves.              *)
LEMMA MetricsOfChecked ==
    ASSUME NEW i, Checked(i), i.prometheus
    PROVE  i.metrics \in Seq(MetricsLeft) /\ ~SeriesTwice(i.metrics)
<1>1. PICK j \in Input : Accepted(j) /\ i = Stored(j)
  BY DEF Checked
<1>2. /\ WithDefaults(j).metrics = j.metrics
      /\ WithDefaults(j).prometheus = j.prometheus
      /\ i.prometheus = j.prometheus
      /\ i.metrics = [k \in DOMAIN j.metrics |-> MetricDefaults(j.metrics[k])]
  BY <1>1 DEF Stored, WithDefaults, Input
<1>3. j.metrics \in Seq(Metric)
  BY DEF Input
<1>4. ~SeriesTwice(j.metrics)
  BY <1>1, <1>2 DEF Accepted, BadMetrics
<1>5. \A m \in Metric : /\ MetricDefaults(m) \in MetricsLeft
                        /\ SeriesOf(MetricDefaults(m)) = SeriesOf(m)
  BY LeftMetric DEF MetricsLeft, SeriesOf
<1>6. /\ i.metrics \in Seq(MetricsLeft) /\ DOMAIN i.metrics = DOMAIN j.metrics
      /\ \A k \in DOMAIN i.metrics : SeriesOf(i.metrics[k]) = SeriesOf(j.metrics[k])
  BY <1>2, <1>3, <1>5
<1>7. /\ Places(i.metrics) = Places(j.metrics)
      /\ \A p \in Places(i.metrics) : SeriesAt(i.metrics, p) = SeriesAt(j.metrics, p)
  BY <1>6 DEF Places, SeriesAt
<1>. QED
  BY <1>4, <1>6, <1>7 DEF SeriesTwice

LEMMA NoLines ==
    ASSUME NEW ms, NEW n
    PROVE  /\ <<>> \in Seq(Lines) /\ ValidLines(<<>>)
           /\ \A k \in DOMAIN <<>> : OfMetrics(<<>>[k], ms, n)
<1>1. <<>> \in Seq(Lines) /\ DOMAIN <<>> = {}
  OBVIOUS
<1>. QED
  BY <1>1 DEF ValidLines, Twice

LEMMA MetricsStart == Init => MetricsInv
<1>. SUFFICES ASSUME Init PROVE MetricsInv
  OBVIOUS
<1>1. metrics = <<>> /\ exported = 0
  BY DEF Init
<1>2. metrics \in Seq(Lines) /\ ValidLines(metrics)
  BY <1>1, NoLines
<1>3. \A k \in DOMAIN metrics : OfMetrics(metrics[k], input.metrics, exported)
  BY <1>1, NoLines
<1>. QED
  BY <1>1, <1>2, <1>3 DEF MetricsInv

LEMMA MetricsNext == Sources /\ MetricsInv /\ [Next]_vars => MetricsInv'
<1>. SUFFICES ASSUME Sources, MetricsInv, [Next]_vars
              PROVE  MetricsInv'
  OBVIOUS
<1>1. CASE ExportMetric
  <2>1. pc = "export" /\ Checked(input) /\ input.prometheus
    BY <1>1 DEF ExportMetric, HasNext, Sources, Unfound, Unread
  <2>2. input.metrics \in Seq(MetricsLeft) /\ ~SeriesTwice(input.metrics)
    BY <2>1, MetricsOfChecked
  <2>3. /\ metrics' = EmitMetric(metrics, input.metrics[exported + 1])
        /\ exported' = exported + 1 /\ input' = input /\ pc' = "export"
        /\ exported < Len(input.metrics)
    BY <1>1 DEF ExportMetric, HasNext, Goes
  <2>4. /\ metrics' \in Seq(Lines) /\ ValidLines(metrics')
        /\ \A k \in DOMAIN metrics' : OfMetrics(metrics'[k], input.metrics, exported + 1)
    BY <2>2, <2>3, MetricKeeps DEF MetricsInv
  <2>5. pc' \notin Unplanned \cup {"row", "preview"} /\ exported' \in Nat
    <3>1. exported \in Nat
      BY DEF MetricsInv
    <3>2. exported' \in Nat
      BY <2>3, <3>1
    <3>. QED
      BY <2>3, <3>2 DEF Unplanned, Unlisted, Unfound, Unread
  <2>. QED
    BY <2>3, <2>4, <2>5 DEF MetricsInv
<1>2. CASE metrics' = metrics /\ exported' = exported /\ input' = input
           /\ (pc' \in Unplanned \cup {"row", "preview"} =>
                  pc \in Unplanned \cup {"row", "preview"})
  BY <1>2 DEF MetricsInv
<1>3. CASE FindInput
  <2>1. /\ metrics' = <<>> /\ exported' = 0
    BY <1>3 DEF FindInput, Goes, MetricsInv, Unplanned, Unlisted, Unfound, Unread
  <2>. QED
    BY <2>1, NoLines DEF MetricsInv
<1>4. ASSUME ~ExportMetric, ~FindInput
      PROVE  /\ metrics' = metrics /\ exported' = exported /\ input' = input
             /\ pc' \in Unplanned \cup {"row", "preview"} =>
                   pc \in Unplanned \cup {"row", "preview"}
  <2>. USE DEF chosen, Goes, Fails, Unplanned, Unlisted, Unfound, Unread
  <2>1. CASE UNCHANGED vars
    BY <2>1 DEF vars
  <2>2. CASE LoadConfig \/ LoadFails \/ FindFails \/ ListFiles \/ ListFails
    BY <2>2 DEF LoadConfig, LoadFails, FindFails, ListFiles, ListFails
  <2>3. CASE ChooseOutput \/ NoOutput \/ Connect \/ ResolveFails \/ ConnectFails
    BY <2>3 DEF ChooseOutput, NoOutput, Connect, ResolveFails, ConnectFails
  <2>4. CASE Prepare \/ PrepareFails \/ InsertRow \/ ReaderFails
    BY <2>4 DEF Prepare, PrepareFails, InsertRow, ReaderFails
  <2>5. CASE ExportFails \/ EndExport
    BY <2>5 DEF ExportFails, EndExport
  <2>. QED
    BY <1>4, <2>1, <2>2, <2>3, <2>4, <2>5 DEF Next
<1>. QED
  BY <1>1, <1>2, <1>3, <1>4

(* Whatever the metrics, names and labels of an accepted configuration, no *)
(* line of the .prom file stands there twice, and each sample follows the  *)
(* TYPE of its name (config.go:366-423, exporter.go:17-81).                *)
THEOREM MetricsValid == Spec => []MetricsFileIsValid
<1>1. MetricsInv => MetricsFileIsValid
  BY DEF MetricsInv, ValidLines, MetricsFileIsValid
<1>. QED
  BY <1>1, MetricsStart, MetricsNext, SourcesAlways, PTL DEF Spec

-----------------------------------------------------------------------------
(* Induction on numbers and on sequences, with a set in place of a         *)
(* predicate.                                                              *)
LEMMA AllNumbers ==
    ASSUME NEW T, 0 \in T, \A n \in Nat : n \in T => n + 1 \in T
    PROVE  Nat \subseteq T
<1>. DEFINE U == {n \in Nat : n \notin T}
            R == OpToRel(<, Nat)
<1>1. SUFFICES ASSUME U # {} PROVE FALSE
  OBVIOUS
<1>2. IsWellFoundedOn(R, Nat) /\ U \subseteq Nat
  BY NatLessThanWellFounded
<1>3. \A x, y \in Nat : y < x => <<y, x>> \in R
  BY DEF OpToRel
<1>. HIDE DEF R, U
<1>4. PICK x \in U : \A y \in U : <<y, x>> \notin R
  BY <1>1, <1>2, WFMin
<1>5. x \in Nat /\ x \notin T /\ x # 0
  BY <1>4 DEF U
<1>6. x - 1 \in Nat /\ (x - 1) + 1 = x /\ x - 1 < x
  BY <1>5
<1>7. x - 1 \in T
  BY <1>3, <1>4, <1>5, <1>6 DEF U
<1>. QED
  BY <1>5, <1>6, <1>7

LEMMA SplitLast ==
    ASSUME NEW S, NEW s \in Seq(S), NEW n \in Nat, Len(s) = n + 1
    PROVE  \E t \in Seq(S), c \in S : s = Append(t, c) /\ Len(t) = n
<1>. DEFINE t == [i \in 1 .. n |-> s[i]]
            c == s[n + 1]
<1>1. /\ \A i \in 1 .. n : s[i] \in S
      /\ c \in S
  <2>1. \A i \in 1 .. n + 1 : s[i] \in S
    BY ElementOfSeq
  <2>. QED
    BY <2>1
<1>2. t \in Seq(S) /\ Len(t) = n
  <2>1. t \in [1 .. n -> S]
    BY <1>1
  <2>. HIDE DEF t
  <2>. QED
    BY <2>1, SeqDef
<1>3. \A i \in 1 .. n : t[i] = s[i]
  OBVIOUS
<1>. HIDE DEF t, c
<1>4. /\ Append(t, c) \in Seq(S) /\ Len(Append(t, c)) = n + 1
      /\ \A i \in 1 .. n : Append(t, c)[i] = t[i]
      /\ Append(t, c)[n + 1] = c
  BY <1>1, <1>2
<1>5. \A i \in 1 .. n + 1 : s[i] = Append(t, c)[i]
  BY <1>3, <1>4 DEF c
<1>6. s = Append(t, c)
  BY <1>4, <1>5, SeqEqual
<1>. QED
  BY <1>1, <1>2, <1>6

LEMMA AllSequences ==
    ASSUME NEW S, NEW P, <<>> \in P,
           \A s \in Seq(S), c \in S : s \in P => Append(s, c) \in P
    PROVE  Seq(S) \subseteq P
<1>. DEFINE T == {n \in Nat : \A s \in Seq(S) : Len(s) = n => s \in P}
<1>1. 0 \in T
  BY EmptySeq
<1>2. ASSUME NEW n \in Nat, n \in T PROVE n + 1 \in T
  <2>. SUFFICES ASSUME NEW s \in Seq(S), Len(s) = n + 1 PROVE s \in P
    OBVIOUS
  <2>1. PICK t \in Seq(S), c \in S : s = Append(t, c) /\ Len(t) = n
    BY SplitLast
  <2>. QED
    BY <1>2, <2>1
<1>3. Nat \subseteq T
  <2>. HIDE DEF T
  <2>. QED
    BY <1>1, <1>2, AllNumbers
<1>. QED
  BY <1>3

-----------------------------------------------------------------------------
(* FlattenSeq: its recursive definition is what it says.                   *)
Flattens(ss, n, f) ==
    f = [i \in 1 .. n |-> IF i = 1 THEN ss[i] ELSE f[i - 1] \o ss[i]]

LEMMA SomethingFlattens ==
    ASSUME NEW ss, NEW m \in Nat
    PROVE  \E f : Flattens(ss, m, f)
<1>. DEFINE T == {n \in Nat : \E f : Flattens(ss, n, f)}
<1>1. 0 \in T
  <2>1. Flattens(ss, 0, [i \in 1 .. 0 |-> ss])
    BY DEF Flattens
  <2>. QED
    BY <2>1
<1>2. ASSUME NEW n \in Nat, n \in T PROVE n + 1 \in T
  <2>1. PICK f : Flattens(ss, n, f)
    BY <1>2
  <2>. DEFINE g == [i \in 1 .. n + 1 |->
                       IF i = n + 1 THEN IF i = 1 THEN ss[i] ELSE f[n] \o ss[i]
                       ELSE f[i]]
  <2>2. \A i \in 1 .. n : f[i] = IF i = 1 THEN ss[i] ELSE f[i - 1] \o ss[i]
    BY <2>1 DEF Flattens
  <2>3. ASSUME NEW i \in 1 .. n + 1
        PROVE  g[i] = IF i = 1 THEN ss[i] ELSE g[i - 1] \o ss[i]
    <3>1. CASE i = n + 1
      <4>1. g[i] = IF i = 1 THEN ss[i] ELSE f[n] \o ss[i]
        BY <3>1
      <4>2. i # 1 => g[i - 1] = f[n]
        BY <3>1
      <4>. HIDE DEF g
      <4>. QED
        BY <4>1, <4>2
    <3>2. CASE i # n + 1
      <4>1. g[i] = f[i] /\ i \in 1 .. n
        BY <3>2
      <4>2. i # 1 => g[i - 1] = f[i - 1]
        BY <3>2
      <4>. HIDE DEF g
      <4>. QED
        BY <2>2, <4>1, <4>2
    <3>. QED
      BY <3>1, <3>2
  <2>4. g = [i \in 1 .. n + 1 |-> g[i]]
    OBVIOUS
  <2>. HIDE DEF g
  <2>5. Flattens(ss, n + 1, g)
    BY <2>3, <2>4 DEF Flattens
  <2>. QED
    BY <2>5
<1>3. Nat \subseteq T
  <2>. HIDE DEF T
  <2>. QED
    BY <1>1, <1>2, AllNumbers
<1>. QED
  BY <1>3

Agree(s, t, k) == \A i \in 1 .. k : s[i] = t[i]

LEMMA FlattensAlike ==
    ASSUME NEW ss, NEW tt, NEW k \in Nat, NEW n \in Nat, k <= n,
           Agree(ss, tt, k),
           NEW f, NEW g, Flattens(ss, k, f), Flattens(tt, n, g)
    PROVE  Agree(f, g, k)
<1>0. /\ \A i \in 1 .. k : f[i] = IF i = 1 THEN ss[i] ELSE f[i - 1] \o ss[i]
      /\ \A i \in 1 .. n : g[i] = IF i = 1 THEN tt[i] ELSE g[i - 1] \o tt[i]
  BY DEF Flattens
<1>. DEFINE T == {j \in Nat : j \in 1 .. k => f[j] = g[j]}
<1>1. 0 \in T
  OBVIOUS
<1>2. ASSUME NEW j \in Nat, j \in T PROVE j + 1 \in T
  <2>. SUFFICES ASSUME j + 1 \in 1 .. k PROVE f[j + 1] = g[j + 1]
    OBVIOUS
  <2>1. j + 1 \in 1 .. k /\ j + 1 \in 1 .. n /\ ss[j + 1] = tt[j + 1]
    BY DEF Agree
  <2>2. /\ f[j + 1] = IF j + 1 = 1 THEN ss[j + 1] ELSE f[j + 1 - 1] \o ss[j + 1]
        /\ g[j + 1] = IF j + 1 = 1 THEN tt[j + 1] ELSE g[j + 1 - 1] \o tt[j + 1]
    BY <1>0, <2>1
  <2>3. j + 1 # 1 => f[j + 1 - 1] = g[j + 1 - 1]
    BY <1>2
  <2>. QED
    BY <2>1, <2>2, <2>3
<1>3. Nat \subseteq T
  <2>. HIDE DEF T
  <2>. QED
    BY <1>1, <1>2, AllNumbers
<1>. QED
  BY <1>3 DEF Agree

LEMMA FlattenEmpty == FlattenSeq(<<>>) = <<>>
  BY DEF FlattenSeq

LEMMA FlattenIs ==
    ASSUME NEW ss, Len(ss) \in Nat \ {0}
    PROVE  \E f : Flattens(ss, Len(ss), f) /\ FlattenSeq(ss) = f[Len(ss)]
<1>. DEFINE f == CHOOSE f : Flattens(ss, Len(ss), f)
<1>1. FlattenSeq(ss) = f[Len(ss)]
  BY DEF FlattenSeq, Flattens
<1>2. Flattens(ss, Len(ss), f)
  BY SomethingFlattens
<1>. QED
  BY <1>1, <1>2

(* One more sequence is appended to the rest.                              *)
LEMMA FlattenAppend ==
    ASSUME NEW S, NEW ss \in Seq(Seq(S)), NEW x \in Seq(S)
    PROVE  FlattenSeq(Append(ss, x)) = FlattenSeq(ss) \o x
<1>. DEFINE n == Len(ss)
            tt == Append(ss, x)
<1>1. /\ n \in Nat /\ Len(tt) = n + 1 /\ tt[n + 1] = x
      /\ \A i \in 1 .. n : tt[i] = ss[i]
  OBVIOUS
<1>. HIDE DEF tt
<1>2. PICK g : Flattens(tt, n + 1, g) /\ FlattenSeq(tt) = g[n + 1]
  <2>1. Len(tt) \in Nat \ {0}
    BY <1>1
  <2>. QED
    BY <1>1, <2>1, FlattenIs
<1>3. g[n + 1] = IF n + 1 = 1 THEN x ELSE g[n + 1 - 1] \o x
  <2>1. \A i \in 1 .. n + 1 : g[i] = IF i = 1 THEN tt[i] ELSE g[i - 1] \o tt[i]
    BY <1>2 DEF Flattens
  <2>2. n + 1 \in 1 .. n + 1
    BY <1>1
  <2>. QED
    BY <1>1, <2>1, <2>2
<1>4. CASE n = 0
  <2>1. ss = <<>>
    BY <1>4
  <2>2. FlattenSeq(ss) \o x = x
    BY <2>1, FlattenEmpty, ConcatEmptySeq
  <2>. QED
    BY <1>2, <1>3, <1>4, <2>2 DEF tt
<1>5. CASE n # 0
  <2>1. PICK f : Flattens(ss, n, f) /\ FlattenSeq(ss) = f[n]
    BY <1>1, <1>5, FlattenIs
  <2>2. f[n] = g[n]
    <3>. HIDE DEF n
    <3>1. n \in 1 .. n /\ n <= n /\ n <= n + 1 /\ n + 1 \in Nat
      BY <1>1, <1>5
    <3>2. Agree(ss, tt, n)
      BY <1>1 DEF Agree
    <3>. DEFINE m == n + 1
    <3>3. /\ m \in Nat /\ n \in Nat /\ n <= n /\ n <= m
          /\ Flattens(ss, n, f) /\ Flattens(tt, m, g)
      BY <1>1, <1>2, <2>1, <3>1
    <3>. HIDE DEF m
    <3>4. Agree(f, g, n)
      BY <3>2, <3>3, FlattensAlike
    <3>. QED
      BY <3>1, <3>4 DEF Agree
  <2>3. n + 1 # 1 /\ n + 1 - 1 = n
    BY <1>1, <1>5
  <2>. QED
    BY <1>2, <1>3, <2>1, <2>2, <2>3 DEF tt
<1>. QED
  BY <1>4, <1>5

LEMMA FlattenTyped ==
    ASSUME NEW S
    PROVE  \A ss \in Seq(Seq(S)) : FlattenSeq(ss) \in Seq(S)
<1>. DEFINE P == {ss \in Seq(Seq(S)) : FlattenSeq(ss) \in Seq(S)}
<1>1. <<>> \in P
  BY FlattenEmpty, EmptySeq
<1>2. ASSUME NEW ss \in Seq(Seq(S)), NEW x \in Seq(S), ss \in P
      PROVE  Append(ss, x) \in P
  <2>1. FlattenSeq(ss) \in Seq(S)
    BY <1>2
  <2>2. FlattenSeq(ss) \o x \in Seq(S)
    BY <2>1, ConcatProperties
  <2>3. Append(ss, x) \in Seq(Seq(S))
    OBVIOUS
  <2>. QED
    BY <2>2, <2>3, FlattenAppend
<1>3. Seq(Seq(S)) \subseteq P
  <2>. HIDE DEF P
  <2>. QED
    BY <1>1, <1>2, AllSequences
<1>. QED
  BY <1>3

-----------------------------------------------------------------------------
(* The loop over a name: its recursive definition is what it says.         *)
Begun == [out |-> <<>>, prev |-> ""]

Writes(s, n, at) ==
    at = [k \in 0 .. n |-> IF k = 0 THEN Begun ELSE Write(at[k - 1], s[k])]

LEMMA SomethingWrites ==
    ASSUME NEW s, NEW m \in Nat
    PROVE  \E at : Writes(s, m, at)
<1>. DEFINE T == {n \in Nat : \E at : Writes(s, n, at)}
<1>1. 0 \in T
  <2>1. Writes(s, 0, [k \in 0 .. 0 |-> Begun])
    BY DEF Writes
  <2>. QED
    BY <2>1
<1>2. ASSUME NEW n \in Nat, n \in T PROVE n + 1 \in T
  <2>1. PICK at : Writes(s, n, at)
    BY <1>2
  <2>. DEFINE next == [k \in 0 .. n + 1 |->
                          IF k = n + 1 THEN Write(at[n], s[n + 1]) ELSE at[k]]
  <2>2. \A k \in 0 .. n : at[k] = IF k = 0 THEN Begun ELSE Write(at[k - 1], s[k])
    BY <2>1 DEF Writes
  <2>3. ASSUME NEW k \in 0 .. n + 1
        PROVE  next[k] = IF k = 0 THEN Begun ELSE Write(next[k - 1], s[k])
    <3>1. CASE k = n + 1
      <4>1. next[k] = Write(at[n], s[n + 1]) /\ next[k - 1] = at[n] /\ k # 0
        BY <3>1
      <4>. HIDE DEF next
      <4>. QED
        BY <3>1, <4>1
    <3>2. CASE k # n + 1
      <4>1. next[k] = at[k] /\ k \in 0 .. n
        BY <3>2
      <4>2. k # 0 => next[k - 1] = at[k - 1]
        BY <3>2
      <4>. HIDE DEF next
      <4>. QED
        BY <2>2, <4>1, <4>2
    <3>. QED
      BY <3>1, <3>2
  <2>4. next = [k \in 0 .. n + 1 |-> next[k]]
    OBVIOUS
  <2>. HIDE DEF next
  <2>5. Writes(s, n + 1, next)
    BY <2>3, <2>4 DEF Writes
  <2>. QED
    BY <2>5
<1>3. Nat \subseteq T
  <2>. HIDE DEF T
  <2>. QED
    BY <1>1, <1>2, AllNumbers
<1>. QED
  BY <1>3

AgreeFrom0(s, t, k) == \A i \in 0 .. k : s[i] = t[i]

LEMMA WritesAlike ==
    ASSUME NEW s, NEW t, NEW k \in Nat, NEW n \in Nat, k <= n, Agree(s, t, k),
           NEW f, NEW g, Writes(s, k, f), Writes(t, n, g)
    PROVE  AgreeFrom0(f, g, k)
<1>0. /\ \A i \in 0 .. k : f[i] = IF i = 0 THEN Begun ELSE Write(f[i - 1], s[i])
      /\ \A i \in 0 .. n : g[i] = IF i = 0 THEN Begun ELSE Write(g[i - 1], t[i])
  BY DEF Writes
<1>. DEFINE T == {j \in Nat : j \in 0 .. k => f[j] = g[j]}
<1>1. 0 \in T
  BY <1>0
<1>2. ASSUME NEW j \in Nat, j \in T PROVE j + 1 \in T
  <2>. SUFFICES ASSUME j + 1 \in 0 .. k PROVE f[j + 1] = g[j + 1]
    OBVIOUS
  <2>1. /\ j + 1 \in 0 .. n /\ s[j + 1] = t[j + 1]
        /\ j + 1 # 0 /\ j + 1 - 1 = j /\ j \in 0 .. k
    BY DEF Agree
  <2>2. /\ f[j + 1] = Write(f[j], s[j + 1])
        /\ g[j + 1] = Write(g[j], t[j + 1])
    BY <1>0, <2>1
  <2>. QED
    BY <1>2, <2>1, <2>2
<1>3. Nat \subseteq T
  <2>. HIDE DEF T
  <2>. QED
    BY <1>1, <1>2, AllNumbers
<1>. QED
  BY <1>3 DEF AgreeFrom0

LEMMA WrittenIs ==
    ASSUME NEW s, Len(s) \in Nat
    PROVE  \E at : Writes(s, Len(s), at) /\ Written(s) = at[Len(s)].out
<1>. DEFINE at == CHOOSE at : Writes(s, Len(s), at)
<1>1. Written(s) = at[Len(s)].out
  BY DEF Written, Writes, Begun
<1>2. Writes(s, Len(s), at)
  BY SomethingWrites
<1>. QED
  BY <1>1, <1>2

LEMMA BegunIs == Begun.out = <<>> /\ Begun.prev = ""
  BY DEF Begun

LEMMA WrittenEmpty == Written(<<>>) = <<>>
<1>1. PICK at : Writes(<<>>, 0, at) /\ Written(<<>>) = at[0].out
  <2>1. Len(<<>>) = 0
    OBVIOUS
  <2>. QED
    BY <2>1, WrittenIs
<1>2. at[0] = Begun
  <2>1. \A k \in 0 .. 0 : at[k] = IF k = 0 THEN Begun ELSE Write(at[k - 1], <<>>[k])
    BY <1>1 DEF Writes
  <2>. QED
    BY <2>1
<1>. QED
  BY <1>1, <1>2, BegunIs

(* The character before the next one. *)
PrevOf(s) == IF s = <<>> THEN "" ELSE s[Len(s)]

(* What is written of a name with one more character.                      *)
LEMMA WrittenAppend ==
    ASSUME NEW S, NEW s \in Seq(S), NEW c \in S
    PROVE  Written(Append(s, c)) = Write([out |-> Written(s), prev |-> PrevOf(s)], c).out
<1>. DEFINE n == Len(s)
            t == Append(s, c)
            m == n + 1
<1>1. /\ n \in Nat /\ Len(t) = m /\ m \in Nat /\ t[m] = c
      /\ n <= m /\ m # 0 /\ m - 1 = n
      /\ Agree(s, t, n)
  BY DEF Agree
<1>. HIDE DEF t, m
<1>2. PICK f : Writes(s, n, f) /\ Written(s) = f[n].out
  BY <1>1, WrittenIs
<1>3. PICK g : Writes(t, m, g) /\ Written(t) = g[m].out
  BY <1>1, WrittenIs
<1>4. f[n] = g[n]
  <2>. HIDE DEF n
  <2>1. AgreeFrom0(f, g, n)
    BY <1>1, <1>2, <1>3, WritesAlike
  <2>. QED
    BY <1>1, <2>1 DEF AgreeFrom0
<1>5. /\ g[m] = Write(g[n], c)
      /\ f[n] = IF n = 0 THEN Begun ELSE Write(f[n - 1], s[n])
  <2>1. /\ \A i \in 0 .. n : f[i] = IF i = 0 THEN Begun ELSE Write(f[i - 1], s[i])
        /\ \A i \in 0 .. m : g[i] = IF i = 0 THEN Begun ELSE Write(g[i - 1], t[i])
    BY <1>2, <1>3 DEF Writes
  <2>2. n \in 0 .. n /\ m \in 0 .. m
    BY <1>1
  <2>. QED
    BY <1>1, <2>1, <2>2
<1>6. f[n].prev = PrevOf(s)
  <2>1. n = 0 <=> s = <<>>
    OBVIOUS
  <2>2. n = 0 => f[n].prev = ""
    BY <1>5, BegunIs
  <2>3. n # 0 => f[n].prev = s[n]
    BY <1>5 DEF Write
  <2>. QED
    BY <2>1, <2>2, <2>3 DEF PrevOf
<1>7. Write(f[n], c) = Write([out |-> f[n].out, prev |-> f[n].prev], c)
  BY DEF Write
<1>. QED
  BY <1>2, <1>3, <1>4, <1>5, <1>6, <1>7 DEF t

-----------------------------------------------------------------------------
(* The words of a name with one more character.                            *)
Out == Lower \cup Digits \cup {"_"}

Begins(prev, c) == IsAlnum(c) /\ (~IsAlnum(prev) \/ Splits(prev, c))

PieceOf(c, first) == IF first THEN <<ToLower(c)>> ELSE <<"_", ToLower(c)>>

Piece(s, c) ==
    IF ~IsAlnum(c) THEN <<>>
    ELSE PieceOf(c, ~Begins(PrevOf(s), c) \/ Words(s) = {})

PieceAt(name, k) ==
    IF ~IsAlnum(name[k]) THEN <<>>
    ELSE PieceOf(name[k], ~(k \in Words(name) /\ \E j \in Words(name) : j < k))

Pieces(name) == [k \in DOMAIN name |-> PieceAt(name, k)]

LEMMA SpelledIs == \A name : Spelled(name) = FlattenSeq(Pieces(name))
<1>1. ASSUME NEW name, NEW k \in DOMAIN name
      PROVE  PieceAt(name, k) =
                IF ~IsAlnum(name[k]) THEN <<>>
                ELSE IF k \in Words(name) /\ \E j \in Words(name) : j < k
                     THEN <<"_", ToLower(name[k])>>
                ELSE <<ToLower(name[k])>>
  BY DEF PieceAt, PieceOf
<1>. QED
  BY <1>1 DEF Spelled, Pieces

LEMMA NotAlnum == ~IsAlnum("") /\ ~IsAlnum("_") /\ ~IsAlnum(" ")
  BY ColumnNamesAssumption DEF IsAlnum, Letters

LEMMA LowerIs ==
    ASSUME NEW c, IsAlnum(c)
    PROVE  /\ ToLower(c) \in Lower \cup Digits
           /\ IsAlnum(ToLower(c))
           /\ ToLower(c) # "_"
           /\ ToLower(ToLower(c)) = ToLower(c)
           /\ c \in Digits <=> ToLower(c) \in Digits
           /\ c \in Letters <=> ToLower(c) \in Lower
  BY ColumnNamesAssumption DEF IsAlnum, Letters, ToLower

LEMMA PieceTyped ==
    ASSUME NEW c, IsAlnum(c), NEW first
    PROVE  PieceOf(c, first) \in Seq(Out)
<1>1. ToLower(c) \in Out /\ "_" \in Out
  BY LowerIs DEF Out
<1>. DEFINE x == ToLower(c)
            y == "_"
<1>2. <<x>> \in Seq(Out) /\ <<y, x>> \in Seq(Out)
  <2>1. x \in Out /\ y \in Out
    BY <1>1
  <2>. HIDE DEF x, y
  <2>. QED
    BY <2>1
<1>. QED
  BY <1>2 DEF PieceOf

LEMMA WordsAppend ==
    ASSUME NEW S, NEW s \in Seq(S), NEW c \in S
    PROVE  /\ Words(s) \subseteq 1 .. Len(s)
           /\ Words(Append(s, c)) =
                 Words(s) \cup (IF Begins(PrevOf(s), c) THEN {Len(s) + 1} ELSE {})
<1>. DEFINE n == Len(s)
            t == Append(s, c)
<1>1. /\ n \in Nat /\ DOMAIN s = 1 .. n /\ DOMAIN t = 1 .. n + 1
      /\ t[n + 1] = c /\ \A k \in 1 .. n : t[k] = s[k]
  OBVIOUS
<1>2. PrevOf(s) = IF n = 0 THEN "" ELSE s[n]
  <2>1. s = <<>> <=> n = 0
    OBVIOUS
  <2>. QED
    BY <2>1 DEF PrevOf
<1>. HIDE DEF t, n
<1>3. Words(s) \subseteq 1 .. n
  BY <1>1 DEF Words
<1>4. ASSUME NEW k \in 1 .. n PROVE k \in Words(t) <=> k \in Words(s)
  <2>1. k \in 1 .. n + 1 /\ t[k] = s[k] /\ (k # 1 => t[k - 1] = s[k - 1])
    BY <1>1
  <2>. QED
    BY <1>1, <2>1 DEF Words
<1>5. n + 1 \in Words(t) <=> Begins(PrevOf(s), c)
  <2>1. n + 1 \in 1 .. n + 1 /\ t[n + 1] = c /\ n + 1 - 1 = n
    BY <1>1
  <2>2. CASE n = 0
    <3>1. PrevOf(s) = ""
      BY <1>2, <2>2
    <3>2. n + 1 = 1
      BY <2>2
    <3>. QED
      BY <1>1, <2>1, <3>1, <3>2, NotAlnum DEF Words, Begins
  <2>3. CASE n # 0
    <3>1. PrevOf(s) = t[n] /\ n + 1 # 1
      BY <1>1, <1>2, <2>3
    <3>. QED
      BY <1>1, <2>1, <3>1 DEF Words, Begins
  <2>. QED
    BY <2>2, <2>3
<1>6. Words(t) \subseteq 1 .. n + 1
  BY <1>1 DEF Words
<1>7. \A k \in 1 .. n + 1 : k \in 1 .. n \/ k = n + 1
  BY <1>1
<1>. QED
  BY <1>3, <1>4, <1>5, <1>6, <1>7 DEF t, n

LEMMA SpelledAppend ==
    ASSUME NEW S, NEW s \in Seq(S), NEW c \in S
    PROVE  Spelled(Append(s, c)) = Spelled(s) \o Piece(s, c)
<1>. DEFINE n == Len(s)
            t == Append(s, c)
<1>1. /\ n \in Nat /\ DOMAIN s = 1 .. n /\ DOMAIN t = 1 .. n + 1
      /\ t[n + 1] = c /\ \A k \in 1 .. n : t[k] = s[k]
  OBVIOUS
<1>2. /\ Words(s) \subseteq 1 .. n
      /\ Words(t) = Words(s) \cup (IF Begins(PrevOf(s), c) THEN {n + 1} ELSE {})
  BY WordsAppend
<1>. HIDE DEF t, n
<1>3. ASSUME NEW k \in 1 .. n PROVE PieceAt(t, k) = PieceAt(s, k)
  <2>1. k \in Words(t) <=> k \in Words(s)
    BY <1>1, <1>2
  <2>2. (\E j \in Words(t) : j < k) <=> (\E j \in Words(s) : j < k)
    <3>1. ASSUME NEW j \in Words(t), j < k PROVE j \in Words(s)
      BY <1>1, <1>2, <3>1
    <3>2. Words(s) \subseteq Words(t)
      BY <1>2
    <3>. QED
      BY <3>1, <3>2
  <2>3. t[k] = s[k]
    BY <1>1
  <2>. QED
    BY <2>1, <2>2, <2>3 DEF PieceAt
<1>4. PieceAt(t, n + 1) = Piece(s, c)
  <2>1. n + 1 \in Words(t) <=> Begins(PrevOf(s), c)
    BY <1>1, <1>2
  <2>2. (\E j \in Words(t) : j < n + 1) <=> Words(s) # {}
    <3>1. ASSUME NEW j \in Words(t), j < n + 1 PROVE j \in Words(s)
      BY <1>1, <1>2, <3>1
    <3>2. ASSUME NEW j \in Words(s) PROVE j \in Words(t) /\ j < n + 1
      BY <1>1, <1>2
    <3>. QED
      BY <3>1, <3>2
  <2>. QED
    BY <1>1, <2>1, <2>2 DEF PieceAt, Piece, PieceOf
<1>5. \A k \in 1 .. n + 1 : PieceAt(t, k) \in Seq(Out)
  BY PieceTyped, EmptySeq DEF PieceAt
<1>6. Pieces(s) = [k \in 1 .. n |-> PieceAt(s, k)]
  BY <1>1 DEF Pieces
<1>7. Pieces(t) = [k \in 1 .. n + 1 |-> PieceAt(t, k)]
  BY <1>1 DEF Pieces
<1>8. \A k \in 1 .. n : PieceAt(s, k) \in Seq(Out)
  <2>1. \A k \in 1 .. n : k \in 1 .. n + 1
    BY <1>1
  <2>. QED
    BY <1>3, <1>5, <2>1
<1>9. /\ Pieces(s) \in Seq(Seq(Out)) /\ Len(Pieces(s)) = n
      /\ Pieces(t) \in Seq(Seq(Out)) /\ Len(Pieces(t)) = n + 1
  <2>1. Pieces(s) \in [1 .. n -> Seq(Out)] /\ Pieces(t) \in [1 .. n + 1 -> Seq(Out)]
    BY <1>5, <1>6, <1>7, <1>8
  <2>. QED
    BY <1>1, <2>1, SeqDef
<1>10. Piece(s, c) \in Seq(Out)
  <2>1. n + 1 \in 1 .. n + 1
    BY <1>1
  <2>. QED
    BY <1>4, <1>5, <2>1
<1>11. Pieces(t) = Append(Pieces(s), Piece(s, c))
  <2>. DEFINE u == Append(Pieces(s), Piece(s, c))
  <2>1. /\ u \in Seq(Seq(Out)) /\ Len(u) = n + 1 /\ u[n + 1] = Piece(s, c)
        /\ \A k \in 1 .. n : u[k] = Pieces(s)[k]
    BY <1>9, <1>10
  <2>. HIDE DEF u
  <2>2. ASSUME NEW k \in 1 .. n + 1 PROVE u[k] = Pieces(t)[k]
    <3>1. CASE k = n + 1
      BY <1>4, <1>7, <2>1, <3>1
    <3>2. CASE k # n + 1
      <4>1. k \in 1 .. n
        BY <1>1, <3>2
      <4>. QED
        BY <1>3, <1>6, <1>7, <2>1, <4>1
    <3>. QED
      BY <3>1, <3>2
  <2>3. Pieces(t) = u
    BY <1>9, <2>1, <2>2, SeqEqual
  <2>. QED
    BY <2>3 DEF u
<1>12. FlattenSeq(Pieces(t)) = FlattenSeq(Pieces(s)) \o Piece(s, c)
  BY <1>9, <1>10, <1>11, FlattenAppend
<1>. QED
  BY <1>12, SpelledIs DEF t

LEMMA PrevOfAppend ==
    ASSUME NEW S, NEW s \in Seq(S), NEW c \in S
    PROVE  /\ PrevOf(Append(s, c)) = c
           /\ Append(s, c) \in Seq(S) /\ Append(s, c) # <<>>
<1>1. /\ Append(s, c) # <<>> /\ Append(s, c)[Len(Append(s, c))] = c
      /\ Append(s, c) \in Seq(S)
  OBVIOUS
<1>. QED
  BY <1>1 DEF PrevOf

LEMMA PrevOfIs ==
    ASSUME NEW S, NEW s \in Seq(S), s # <<>>
    PROVE  PrevOf(s) = Last(s) /\ PrevOf(s) \in S
<1>1. s[Len(s)] \in S
  OBVIOUS
<1>. QED
  BY <1>1 DEF PrevOf, Last

LEMMA SplitsAlnum ==
    ASSUME NEW p, NEW c, Splits(p, c)
    PROVE  IsAlnum(p) /\ IsAlnum(c)
  BY DEF Splits, IsAlnum, Letters

(* No, one and two characters more. *)
LEMMA ConcatNone ==
    ASSUME NEW S, NEW s \in Seq(S)
    PROVE  s \o <<>> = s
  OBVIOUS

LEMMA ConcatOne ==
    ASSUME NEW S, NEW s \in Seq(S), NEW a \in S
    PROVE  s \o <<a>> = Append(s, a)
  OBVIOUS

LEMMA ConcatTwo ==
    ASSUME NEW S, NEW s \in Seq(S), NEW a \in S, NEW b \in S
    PROVE  s \o <<a, b>> = Append(Append(s, a), b)
  OBVIOUS

(* What Spelled makes has the words it began with, and ends as the name    *)
(* does.                                                                   *)
SpelledAs(s) ==
    /\ Spelled(s) \in Seq(Out)
    /\ Words(s) = {} <=> Spelled(s) = <<>>
    /\ IsAlnum(PrevOf(s)) =>
           Spelled(s) # <<>> /\ PrevOf(Spelled(s)) = ToLower(PrevOf(s))

LEMMA OutTyped ==
    ASSUME NEW c, IsAlnum(c)
    PROVE  ToLower(c) \in Out /\ "_" \in Out
  BY LowerIs DEF Out

LEMMA SpelledEmpty == Spelled(<<>>) = <<>> /\ Words(<<>>) = {} /\ PrevOf(<<>>) = ""
<1>1. DOMAIN <<>> = {}
  OBVIOUS
<1>2. Words(<<>>) = {}
  BY <1>1 DEF Words
<1>3. Pieces(<<>>) = <<>>
  BY <1>1 DEF Pieces
<1>4. PrevOf(<<>>) = ""
  BY DEF PrevOf
<1>. QED
  BY <1>2, <1>3, <1>4, SpelledIs, FlattenEmpty

LEMMA SpelledAsAppend ==
    ASSUME NEW S, NEW s \in Seq(S), NEW c \in S, SpelledAs(s)
    PROVE  SpelledAs(Append(s, c))
<1>. DEFINE t == Append(s, c)
            P == Spelled(s)
            x == ToLower(c)
<1>1. /\ P \in Seq(Out)
      /\ Words(s) = {} <=> P = <<>>
      /\ IsAlnum(PrevOf(s)) => P # <<>> /\ PrevOf(P) = ToLower(PrevOf(s))
  BY DEF SpelledAs
<1>2. /\ PrevOf(t) = c
      /\ Spelled(t) = P \o Piece(s, c)
      /\ Words(t) = Words(s) \cup (IF Begins(PrevOf(s), c) THEN {Len(s) + 1} ELSE {})
  BY PrevOfAppend, SpelledAppend, WordsAppend
<1>. HIDE DEF t, P
<1>3. CASE ~IsAlnum(c)
  <2>1. Spelled(t) = P
    BY <1>1, <1>2, <1>3, ConcatNone DEF Piece
  <2>2. Words(t) = Words(s)
    BY <1>2, <1>3 DEF Begins
  <2>. QED
    BY <1>1, <1>2, <1>3, <2>1, <2>2 DEF SpelledAs, t
<1>4. CASE IsAlnum(c)
  <2>1. x \in Out /\ "_" \in Out
    BY <1>4, OutTyped
  <2>. DEFINE u == "_"
              Q == Append(P, u)
  <2>2. Spelled(t) = Append(P, x) \/ Spelled(t) = Append(Q, x)
    <3>1. Piece(s, c) = <<x>> \/ Piece(s, c) = <<u, x>>
      BY <1>4 DEF Piece, PieceOf
    <3>2. x \in Out /\ u \in Out
      BY <2>1
    <3>. HIDE DEF x, u
    <3>3. P \o <<x>> = Append(P, x) /\ P \o <<u, x>> = Append(Append(P, u), x)
      BY <1>1, <3>2, ConcatOne, ConcatTwo
    <3>. QED
      BY <1>2, <3>1, <3>3 DEF Q
  <2>3. Q \in Seq(Out)
    <3>1. u \in Out
      BY <2>1
    <3>. HIDE DEF u
    <3>. QED
      BY <1>1, <3>1
  <2>. HIDE DEF x, Q
  <2>4. /\ Spelled(t) \in Seq(Out) /\ Spelled(t) # <<>>
        /\ PrevOf(Spelled(t)) = x
    <3>1. Append(P, x) \in Seq(Out) /\ Append(P, x) # <<>> /\ PrevOf(Append(P, x)) = x
      BY <1>1, <2>1, PrevOfAppend
    <3>2. Append(Q, x) \in Seq(Out) /\ Append(Q, x) # <<>> /\ PrevOf(Append(Q, x)) = x
      BY <2>1, <2>3, PrevOfAppend
    <3>. QED
      BY <2>2, <3>1, <3>2
  <2>5. Words(t) # {}
    <3>1. CASE Begins(PrevOf(s), c)
      BY <1>2, <3>1
    <3>2. CASE ~Begins(PrevOf(s), c)
      <4>1. IsAlnum(PrevOf(s))
        BY <1>4, <3>2 DEF Begins
      <4>. QED
        BY <1>1, <1>2, <4>1
    <3>. QED
      BY <3>1, <3>2
  <2>. QED
    BY <1>2, <2>4, <2>5 DEF SpelledAs, t, x
<1>. QED
  BY <1>3, <1>4

LEMMA AllSpelledAs ==
    ASSUME NEW S
    PROVE  \A s \in Seq(S) : SpelledAs(s)
<1>. DEFINE T == {s \in Seq(S) : SpelledAs(s)}
<1>1. <<>> \in T
  <2>1. SpelledAs(<<>>)
    BY SpelledEmpty, NotAlnum, EmptySeq DEF SpelledAs
  <2>. QED
    BY <2>1
<1>2. ASSUME NEW s \in Seq(S), NEW c \in S, s \in T PROVE Append(s, c) \in T
  <2>1. Append(s, c) \in Seq(S)
    OBVIOUS
  <2>. QED
    BY <1>2, <2>1, SpelledAsAppend
<1>3. Seq(S) \subseteq T
  <2>. HIDE DEF T
  <2>. QED
    BY <1>1, <1>2, AllSequences
<1>. QED
  BY <1>3

(* What the loop has written: the words of the characters so far, and an   *)
(* underscore after them if the last of these is not of a word.  The words *)
(* have no underscore around them, and are themselves their words.         *)
Clean(P) ==
    /\ P # <<>> => P[1] # "_" /\ PrevOf(P) # "_"
    /\ Spelled(P) = P

Looped(s) ==
    /\ Clean(Spelled(s))
    /\ Written(s) = IF Spelled(s) = <<>> \/ IsAlnum(PrevOf(s)) THEN Spelled(s)
                    ELSE Append(Spelled(s), "_")

LEMMA WriteIs ==
    ASSUME NEW S, NEW s \in Seq(S), NEW c \in S
    PROVE  Written(Append(s, c)) =
               IF IsAlnum(c)
               THEN Append(IF Splits(PrevOf(s), c) THEN WithUnderscore(Written(s))
                           ELSE Written(s), ToLower(c))
               ELSE WithUnderscore(Written(s))
<1>1. Write([out |-> Written(s), prev |-> PrevOf(s)], c).out =
          IF IsAlnum(c)
          THEN Append(IF Splits(PrevOf(s), c) THEN WithUnderscore(Written(s))
                      ELSE Written(s), ToLower(c))
          ELSE WithUnderscore(Written(s))
  BY DEF Write
<1>. QED
  BY <1>1, WrittenAppend

LEMMA UnderscoreIs ==
    ASSUME NEW P \in Seq(Out), P = <<>> \/ PrevOf(P) # "_"
    PROVE  /\ P = <<>> => WithUnderscore(P) = P
           /\ P # <<>> => WithUnderscore(P) = Append(P, "_")
           /\ WithUnderscore(Append(P, "_")) = Append(P, "_")
<1>. DEFINE u == "_"
<1>1. u \in Out
  BY DEF Out
<1>2. P # <<>> => Last(P) = PrevOf(P)
  BY PrevOfIs
<1>3. Append(P, u) # <<>> /\ Last(Append(P, u)) = u
  <2>. HIDE DEF u
  <2>. QED
    BY <1>1, PrevOfAppend, PrevOfIs
<1>. QED
  BY <1>2, <1>3 DEF WithUnderscore

LEMMA FirstOfAppend ==
    ASSUME NEW S, NEW P \in Seq(S), NEW x \in S
    PROVE  /\ P = <<>> => Append(P, x)[1] = x
           /\ P # <<>> => Append(P, x)[1] = P[1]
<1>1. P = <<>> => Len(P) = 0
  OBVIOUS
<1>2. P # <<>> => Len(P) >= 1
  OBVIOUS
<1>. QED
  BY <1>1, <1>2

(* A word goes on, or the first begins. *)
LEMMA CleanGoesOn ==
    ASSUME NEW P \in Seq(Out), Clean(P), NEW c, IsAlnum(c),
           P # <<>> => ~Begins(PrevOf(P), ToLower(c))
    PROVE  Clean(Append(P, ToLower(c)))
<1>. DEFINE x == ToLower(c)
<1>1. /\ x \in Out /\ x # "_" /\ IsAlnum(x) /\ ToLower(x) = x
  BY LowerIs, OutTyped
<1>2. P # <<>> => ~Begins(PrevOf(P), x)
  OBVIOUS
<1>. HIDE DEF x
<1>3. Piece(P, x) = <<x>>
  <2>1. P = <<>> => Words(P) = {}
    BY SpelledEmpty
  <2>. QED
    BY <1>1, <1>2, <2>1 DEF Piece, PieceOf
<1>4. Spelled(Append(P, x)) = Append(P, x)
  <2>1. Spelled(Append(P, x)) = P \o <<x>>
    BY <1>1, <1>3, SpelledAppend DEF Clean
  <2>. QED
    BY <1>1, <2>1, ConcatOne
<1>5. Append(P, x)[1] # "_"
  <2>1. P = <<>> => Append(P, x)[1] = x
    BY <1>1, FirstOfAppend
  <2>2. P # <<>> => Append(P, x)[1] = P[1]
    BY <1>1, FirstOfAppend
  <2>. QED
    BY <1>1, <2>1, <2>2 DEF Clean
<1>6. PrevOf(Append(P, x)) = x
  BY <1>1, PrevOfAppend
<1>. QED
  BY <1>1, <1>4, <1>5, <1>6 DEF Clean, x

(* Another word begins. *)
LEMMA CleanBegins ==
    ASSUME NEW P \in Seq(Out), Clean(P), P # <<>>, NEW c, IsAlnum(c)
    PROVE  Clean(Append(Append(P, "_"), ToLower(c)))
<1>. DEFINE x == ToLower(c)
            u == "_"
            Q == Append(P, u)
<1>1. x \in Out /\ x # u /\ IsAlnum(x) /\ ToLower(x) = x
  BY LowerIs, OutTyped
<1>2. u \in Out /\ ~IsAlnum(u)
  BY NotAlnum DEF Out
<1>3. P[1] # u /\ Spelled(P) = P /\ P \in Seq(Out)
  BY DEF Clean
<1>. HIDE DEF x
<1>4. <<u, x>> = <<"_", x>>
  OBVIOUS
<1>. HIDE DEF u
<1>5. Q \in Seq(Out) /\ PrevOf(Q) = u
  BY <1>2, PrevOfAppend
<1>6. Spelled(Q) = P
  <2>1. Piece(P, u) = <<>>
    BY <1>2 DEF Piece
  <2>. QED
    BY <1>2, <1>3, <2>1, SpelledAppend, ConcatNone
<1>7. Words(Q) # {}
  BY <1>5, <1>6, AllSpelledAs DEF SpelledAs
<1>. HIDE DEF Q
<1>8. Piece(Q, x) = <<u, x>>
  <2>1. Begins(PrevOf(Q), x)
    BY <1>1, <1>2, <1>5 DEF Begins
  <2>. QED
    BY <1>1, <1>4, <1>7, <2>1 DEF Piece, PieceOf
<1>9. Spelled(Append(Q, x)) = Append(Q, x)
  <2>1. Spelled(Append(Q, x)) = P \o <<u, x>>
    BY <1>1, <1>5, <1>6, <1>8, SpelledAppend
  <2>. QED
    BY <1>1, <1>2, <2>1, ConcatTwo DEF Q
<1>10. Append(Q, x)[1] # u
  <2>1. Append(Q, x)[1] = P[1]
    BY <1>1, <1>2 DEF Q
  <2>. QED
    BY <1>3, <2>1
<1>11. PrevOf(Append(Q, x)) = x
  BY <1>1, <1>5, PrevOfAppend
<1>. QED
  BY <1>1, <1>9, <1>10, <1>11 DEF Clean, Q, u, x

LEMMA LoopedAppend ==
    ASSUME NEW S, NEW s \in Seq(S), NEW c \in S, Looped(s)
    PROVE  Looped(Append(s, c))
<1>. DEFINE t == Append(s, c)
            P == Spelled(s)
            W == Written(s)
            p == PrevOf(s)
            x == ToLower(c)
<1>1. SpelledAs(s)
  BY AllSpelledAs
<1>2. /\ P \in Seq(Out) /\ Clean(P)
      /\ Words(s) = {} <=> P = <<>>
      /\ IsAlnum(p) => P # <<>> /\ PrevOf(P) = ToLower(p)
      /\ W = IF P = <<>> \/ IsAlnum(p) THEN P ELSE Append(P, "_")
  BY <1>1 DEF SpelledAs, Looped
<1>3. PrevOf(t) = c /\ Spelled(t) = P \o Piece(s, c)
  BY PrevOfAppend, SpelledAppend
<1>4. Written(t) = IF IsAlnum(c)
                   THEN Append(IF Splits(p, c) THEN WithUnderscore(W) ELSE W, x)
                   ELSE WithUnderscore(W)
  BY WriteIs
<1>5. /\ P = <<>> => WithUnderscore(P) = P
      /\ P # <<>> => WithUnderscore(P) = Append(P, "_")
      /\ WithUnderscore(Append(P, "_")) = Append(P, "_")
  <2>. HIDE DEF P
  <2>. QED
    BY <1>2, UnderscoreIs DEF Clean
<1>6. Piece(s, c) = IF ~IsAlnum(c) THEN <<>>
                    ELSE PieceOf(c, ~Begins(p, c) \/ Words(s) = {})
  BY DEF Piece
<1>7. Splits(p, c) => IsAlnum(p)
  BY SplitsAlnum
<1>. HIDE DEF t, P, W, p
<1>8. CASE ~IsAlnum(c)
  <2>1. Spelled(t) = P
    BY <1>2, <1>3, <1>6, <1>8, ConcatNone
  <2>2. Written(t) = IF P = <<>> THEN P ELSE Append(P, "_")
    BY <1>2, <1>4, <1>5, <1>8
  <2>. QED
    BY <1>2, <1>3, <1>8, <2>1, <2>2 DEF Looped, t
<1>9. CASE IsAlnum(c) /\ (~Begins(p, c) \/ P = <<>>)
  <2>1. Spelled(t) = Append(P, x)
    <3>1. Piece(s, c) = <<x>>
      BY <1>2, <1>6, <1>9 DEF PieceOf
    <3>2. x \in Out
      BY <1>9, OutTyped
    <3>. HIDE DEF x
    <3>. QED
      BY <1>2, <1>3, <3>1, <3>2, ConcatOne
  <2>2. Written(t) = Append(P, x)
    <3>1. ~Splits(p, c) /\ W = P
      BY <1>2, <1>7, <1>9 DEF Begins
    <3>. QED
      BY <1>4, <1>9, <3>1
  <2>3. Clean(Append(P, x))
    <3>1. ASSUME P # <<>> PROVE ~Begins(PrevOf(P), x)
      <4>1. IsAlnum(p) /\ ~Splits(p, c) /\ PrevOf(P) = ToLower(p)
        BY <1>2, <1>9, <3>1 DEF Begins
      <4>2. IsAlnum(ToLower(p)) /\ ~Splits(ToLower(p), x)
        <5>1. /\ IsAlnum(ToLower(p)) /\ x \in Lower \cup Digits
              /\ p \in Digits <=> ToLower(p) \in Digits
              /\ p \in Letters <=> ToLower(p) \in Lower
              /\ c \in Digits <=> x \in Digits
              /\ c \in Letters <=> x \in Lower
          BY <1>9, <4>1, LowerIs
        <5>2. /\ ToLower(p) \in Lower \cup Digits
          BY <4>1, LowerIs
        <5>. HIDE DEF x
        <5>. DEFINE q == ToLower(p)
        <5>. HIDE DEF q
        <5>3. /\ q \in Lower \cup Digits
              /\ p \in Digits <=> q \in Digits
              /\ p \in Letters <=> q \in Lower
          BY <5>1, <5>2 DEF q
        <5>4. ~Splits(q, x)
          BY <4>1, <5>1, <5>3, ColumnNamesAssumption DEF Splits, Letters
        <5>. QED
          BY <5>1, <5>4 DEF q
      <4>. QED
        BY <4>1, <4>2 DEF Begins
    <3>. QED
      BY <1>2, <1>9, <3>1, CleanGoesOn
  <2>. QED
    BY <1>3, <1>9, <2>1, <2>2, <2>3 DEF Looped, t
<1>10. CASE IsAlnum(c) /\ Begins(p, c) /\ P # <<>>
  <2>. DEFINE u == "_"
              Q == Append(P, u)
  <2>1. Spelled(t) = Append(Q, x)
    <3>1. Piece(s, c) = <<u, x>>
      BY <1>2, <1>6, <1>10 DEF PieceOf
    <3>2. x \in Out /\ u \in Out /\ P \in Seq(Out)
      BY <1>2, <1>10, OutTyped
    <3>. HIDE DEF x, u
    <3>3. P \o <<u, x>> = Append(Append(P, u), x)
      BY <3>2, ConcatTwo
    <3>. QED
      BY <1>3, <3>1, <3>3 DEF Q
  <2>2. Written(t) = Append(Q, x)
    <3>1. CASE IsAlnum(p)
      BY <1>2, <1>4, <1>5, <1>10, <3>1 DEF Begins
    <3>2. CASE ~IsAlnum(p)
      BY <1>2, <1>4, <1>7, <1>10, <3>2
    <3>. QED
      BY <3>1, <3>2
  <2>3. Clean(Append(Q, x))
    BY <1>2, <1>10, CleanBegins
  <2>. QED
    BY <1>3, <1>10, <2>1, <2>2, <2>3 DEF Looped, t
<1>. QED
  BY <1>8, <1>9, <1>10

LEMMA AllLooped ==
    ASSUME NEW S
    PROVE  \A s \in Seq(S) : Looped(s)
<1>. DEFINE T == {s \in Seq(S) : Looped(s)}
<1>1. <<>> \in T
  <2>1. Looped(<<>>)
    BY SpelledEmpty, WrittenEmpty DEF Looped, Clean
  <2>. QED
    BY <2>1, EmptySeq
<1>2. ASSUME NEW s \in Seq(S), NEW c \in S, s \in T PROVE Append(s, c) \in T
  <2>1. Append(s, c) \in Seq(S)
    OBVIOUS
  <2>. QED
    BY <1>2, <2>1, LoopedAppend
<1>3. Seq(S) \subseteq T
  <2>. HIDE DEF T
  <2>. QED
    BY <1>1, <1>2, AllSequences
<1>. QED
  BY <1>3

-----------------------------------------------------------------------------
(* Trim. *)
Kept(s, c) == {k \in DOMAIN s : s[k] # c}
IsFirst(s, c, a) == a \in Kept(s, c) /\ \A j \in Kept(s, c) : a <= j
IsLast(s, c, b) == b \in Kept(s, c) /\ \A j \in Kept(s, c) : j <= b

LEMMA TrimIs ==
    ASSUME NEW S, NEW s \in Seq(S), NEW c, NEW a, NEW b, IsFirst(s, c, a), IsLast(s, c, b)
    PROVE  TrimOf(s, c) = SubSeq(s, a, b)
<1>. DEFINE kept == {k \in DOMAIN s : s[k] # c}
<1>1. /\ a \in kept /\ \A j \in kept : a <= j
      /\ b \in kept /\ \A j \in kept : j <= b
      /\ kept \subseteq Nat
  BY DEF IsFirst, IsLast, Kept
<1>2. TrimOf(s, c) = IF kept = {} THEN <<>>
                     ELSE SubSeq(s, CHOOSE k \in kept : \A j \in kept : k <= j,
                                    CHOOSE k \in kept : \A j \in kept : j <= k)
  BY DEF TrimOf
<1>. HIDE DEF kept
<1>3. (CHOOSE k \in kept : \A j \in kept : k <= j) = a
  <2>. DEFINE x == CHOOSE k \in kept : \A j \in kept : k <= j
  <2>1. x \in kept /\ \A j \in kept : x <= j
    BY <1>1
  <2>. HIDE DEF x
  <2>2. x = a
    <3>1. x <= a /\ a <= x /\ x \in Nat /\ a \in Nat
      BY <1>1, <2>1
    <3>. QED
      BY <3>1
  <2>. QED
    BY <2>2 DEF x
<1>4. (CHOOSE k \in kept : \A j \in kept : j <= k) = b
  <2>. DEFINE x == CHOOSE k \in kept : \A j \in kept : j <= k
  <2>1. x \in kept /\ \A j \in kept : j <= x
    BY <1>1
  <2>. HIDE DEF x
  <2>2. x = b
    <3>1. x <= b /\ b <= x /\ x \in Nat /\ b \in Nat
      BY <1>1, <2>1
    <3>. QED
      BY <3>1
  <2>. QED
    BY <2>2 DEF x
<1>. QED
  BY <1>1, <1>2, <1>3, <1>4

LEMMA TrimNothing ==
    ASSUME NEW s, NEW c, Kept(s, c) = {}
    PROVE  TrimOf(s, c) = <<>>
  BY DEF TrimOf, Kept

(* What a name is kept of when one more character is appended. *)
LEMMA KeptAppend ==
    ASSUME NEW S, NEW s \in Seq(S), NEW d \in S, NEW c
    PROVE  /\ Kept(s, c) \subseteq 1 .. Len(s)
           /\ Kept(Append(s, d), c) = Kept(s, c) \cup (IF d = c THEN {} ELSE {Len(s) + 1})
<1>. DEFINE n == Len(s)
            t == Append(s, d)
<1>1. /\ n \in Nat /\ DOMAIN s = 1 .. n /\ DOMAIN t = 1 .. n + 1
      /\ t[n + 1] = d /\ \A k \in 1 .. n : t[k] = s[k]
  OBVIOUS
<1>2. \A k : k \in 1 .. n + 1 <=> k \in 1 .. n \/ k = n + 1
  BY <1>1
<1>3. n + 1 \notin 1 .. n
  BY <1>1
<1>. HIDE DEF n, t
<1>. QED
  BY <1>1, <1>2, <1>3 DEF Kept, n, t

(* There is a first and a last of what is kept. *)
HasEnds(s, c) ==
    Kept(s, c) = {} \/ \E a, b \in 1 .. Len(s) : IsFirst(s, c, a) /\ IsLast(s, c, b)

LEMMA EndsAppend ==
    ASSUME NEW S, NEW s \in Seq(S), NEW d \in S, NEW c
    PROVE  /\ d = c => /\ \A a : IsFirst(Append(s, d), c, a) <=> IsFirst(s, c, a)
                       /\ \A b : IsLast(Append(s, d), c, b) <=> IsLast(s, c, b)
           /\ d # c => /\ IsLast(Append(s, d), c, Len(s) + 1)
                       /\ Kept(s, c) = {} => IsFirst(Append(s, d), c, Len(s) + 1)
                       /\ \A a : IsFirst(s, c, a) => IsFirst(Append(s, d), c, a)
<1>. DEFINE n == Len(s)
            t == Append(s, d)
            K == Kept(s, c)
            M == Kept(t, c)
<1>1. /\ K \subseteq 1 .. n /\ n \in Nat
      /\ M = K \cup (IF d = c THEN {} ELSE {n + 1})
  BY KeptAppend
<1>. HIDE DEF n, t, K, M
<1>2. \A k \in K : k \in Nat /\ k <= n /\ k <= n + 1
  BY <1>1
<1>3. \A a : /\ IsFirst(s, c, a) <=> a \in K /\ \A j \in K : a <= j
             /\ IsFirst(t, c, a) <=> a \in M /\ \A j \in M : a <= j
             /\ IsLast(s, c, a) <=> a \in K /\ \A j \in K : j <= a
             /\ IsLast(t, c, a) <=> a \in M /\ \A j \in M : j <= a
  BY DEF IsFirst, IsLast, K, M
<1>4. d = c => M = K
  BY <1>1
<1>5. ASSUME d # c
      PROVE  /\ IsLast(t, c, n + 1)
             /\ K = {} => IsFirst(t, c, n + 1)
             /\ \A a : IsFirst(s, c, a) => IsFirst(t, c, a)
  <2>1. M = K \cup {n + 1} /\ n + 1 <= n + 1
    BY <1>1, <1>5
  <2>. QED
    BY <1>2, <1>3, <2>1
<1>. QED
  BY <1>3, <1>4, <1>5 DEF n, t, K

LEMMA AllHaveEnds ==
    ASSUME NEW S, NEW c
    PROVE  \A s \in Seq(S) : HasEnds(s, c)
<1>. DEFINE T == {s \in Seq(S) : HasEnds(s, c)}
<1>1. <<>> \in T
  <2>1. Kept(<<>>, c) = {}
    BY DEF Kept
  <2>. QED
    BY <2>1, EmptySeq DEF HasEnds
<1>2. ASSUME NEW s \in Seq(S), NEW d \in S, s \in T PROVE Append(s, d) \in T
  <2>. DEFINE t == Append(s, d)
  <2>1. t \in Seq(S) /\ Len(t) = Len(s) + 1 /\ Len(s) \in Nat
    OBVIOUS
  <2>2. HasEnds(s, c)
    BY <1>2
  <2>3. \A k \in 1 .. Len(s) : k \in 1 .. Len(t)
    BY <2>1
  <2>4. Len(s) + 1 \in 1 .. Len(t)
    BY <2>1
  <2>5. HasEnds(t, c)
    <3>1. CASE d = c
      <4>1. Kept(t, c) = Kept(s, c)
        BY <3>1, KeptAppend
      <4>2. /\ \A a : IsFirst(t, c, a) <=> IsFirst(s, c, a)
            /\ \A b : IsLast(t, c, b) <=> IsLast(s, c, b)
        BY <3>1, EndsAppend
      <4>. HIDE DEF t
      <4>. QED
        BY <2>2, <2>3, <4>1, <4>2 DEF HasEnds
    <3>2. CASE d # c
      <4>1. /\ IsLast(t, c, Len(s) + 1)
            /\ Kept(s, c) = {} => IsFirst(t, c, Len(s) + 1)
            /\ \A a : IsFirst(s, c, a) => IsFirst(t, c, a)
        BY <3>2, EndsAppend
      <4>. HIDE DEF t
      <4>. QED
        BY <2>2, <2>3, <2>4, <4>1 DEF HasEnds
    <3>. QED
      BY <3>1, <3>2
  <2>. HIDE DEF t
  <2>6. t \in T
    BY <2>1, <2>5
  <2>. QED
    BY <2>6 DEF t
<1>3. Seq(S) \subseteq T
  <2>. HIDE DEF T
  <2>. QED
    BY <1>1, <1>2, AllSequences
<1>. QED
  BY <1>3

(* Parts of a sequence with one more character. *)
LEMMA SubWithin ==
    ASSUME NEW S, NEW s \in Seq(S), NEW d \in S,
           NEW a \in 1 .. Len(s), NEW b \in 1 .. Len(s)
    PROVE  SubSeq(Append(s, d), a, b) = SubSeq(s, a, b)
<1>. DEFINE t == Append(s, d)
            u == SubSeq(s, a, b)
            v == SubSeq(t, a, b)
<1>1. \A i \in a .. b : s[i] \in S /\ t[i] = s[i]
  OBVIOUS
<1>2. a \in Int /\ b \in Int
  OBVIOUS
<1>3. \A i \in a .. b : s[i] \in S
  BY <1>1
<1>4. \A i \in a .. b : t[i] \in S
  BY <1>1
<1>. HIDE DEF t
<1>5. /\ u \in Seq(S) /\ Len(u) = IF a <= b THEN b - a + 1 ELSE 0
      /\ \A i \in 1 .. b - a + 1 : u[i] = s[a + i - 1]
  BY <1>2, <1>3, SubSeqProperties
<1>6. /\ v \in Seq(S) /\ Len(v) = IF a <= b THEN b - a + 1 ELSE 0
      /\ \A i \in 1 .. b - a + 1 : v[i] = t[a + i - 1]
  BY <1>2, <1>4, SubSeqProperties
<1>. HIDE DEF u, v
<1>7. ASSUME NEW i \in 1 .. Len(u) PROVE u[i] = v[i]
  <2>1. i \in 1 .. b - a + 1 /\ a + i - 1 \in a .. b
    BY <1>2, <1>5
  <2>. QED
    BY <1>1, <1>5, <1>6, <2>1
<1>8. u = v
  BY <1>5, <1>6, <1>7, SeqEqual
<1>. QED
  BY <1>8 DEF t, u, v

LEMMA SubToEnd ==
    ASSUME NEW S, NEW s \in Seq(S), NEW d \in S, NEW a \in 1 .. Len(s)
    PROVE  /\ SubSeq(Append(s, d), a, Len(s) + 1) = Append(SubSeq(s, a, Len(s)), d)
           /\ SubSeq(s, a, Len(s)) \in Seq(S)
           /\ SubSeq(s, a, Len(s)) # <<>>
<1>. DEFINE n == Len(s)
            t == Append(s, d)
            u == SubSeq(s, a, n)
            v == SubSeq(t, a, n + 1)
            w == Append(u, d)
<1>1. /\ n \in Nat /\ t[n + 1] = d
      /\ \A i \in a .. n : s[i] \in S /\ t[i] = s[i]
  OBVIOUS
<1>2. a \in Int /\ n \in Int /\ n + 1 \in Int /\ 1 <= a /\ a <= n
  OBVIOUS
<1>3. \A i \in a .. n : s[i] \in S
  BY <1>1
<1>. HIDE DEF t, n
<1>4. \A i \in a .. n + 1 : t[i] \in S
  <2>1. \A i \in a .. n + 1 : i \in a .. n \/ i = n + 1
    BY <1>2
  <2>. QED
    BY <1>1, <2>1
<1>5. /\ u \in Seq(S) /\ Len(u) = IF a <= n THEN n - a + 1 ELSE 0
      /\ \A i \in 1 .. n - a + 1 : u[i] = s[a + i - 1]
  BY <1>2, <1>3, SubSeqProperties
<1>. DEFINE m == n + 1
<1>6. /\ v \in Seq(S) /\ Len(v) = IF a <= m THEN m - a + 1 ELSE 0
      /\ \A i \in 1 .. m - a + 1 : v[i] = t[a + i - 1]
  <2>. HIDE DEF m
  <2>1. m \in Int /\ \A i \in a .. m : t[i] \in S
    BY <1>2, <1>4 DEF m
  <2>2. /\ SubSeq(t, a, m) \in Seq(S) /\ Len(SubSeq(t, a, m)) = IF a <= m THEN m - a + 1 ELSE 0
        /\ \A i \in 1 .. m - a + 1 : SubSeq(t, a, m)[i] = t[a + i - 1]
    BY <1>2, <2>1, SubSeqProperties
  <2>3. v = SubSeq(t, a, m)
    BY DEF m
  <2>. QED
    BY <2>2, <2>3
<1>7. Len(u) = n - a + 1 /\ Len(v) = n - a + 2
  BY <1>2, <1>5, <1>6
<1>. HIDE DEF u, v
<1>8. /\ w \in Seq(S) /\ Len(w) = Len(u) + 1 /\ w[Len(u) + 1] = d
      /\ \A i \in 1 .. Len(u) : w[i] = u[i]
  BY <1>5
<1>. HIDE DEF w
<1>9. ASSUME NEW i \in 1 .. Len(v) PROVE v[i] = w[i]
  <2>1. i \in 1 .. m - a + 1 /\ v[i] = t[a + i - 1]
    BY <1>2, <1>6, <1>7
  <2>2. CASE i = Len(u) + 1
    <3>1. a + i - 1 = n + 1
      BY <1>2, <1>7, <2>2
    <3>. QED
      BY <1>1, <1>8, <2>1, <2>2, <3>1
  <2>3. CASE i # Len(u) + 1
    <3>1. i \in 1 .. Len(u) /\ i \in 1 .. n - a + 1 /\ a + i - 1 \in a .. n
      BY <1>2, <1>7, <2>3
    <3>. QED
      BY <1>1, <1>5, <1>8, <2>1, <3>1
  <2>. QED
    BY <2>2, <2>3
<1>10. Len(v) = Len(w)
  BY <1>2, <1>7, <1>8
<1>11. v = w
  BY <1>6, <1>8, <1>9, <1>10, SeqEqual
<1>12. u # <<>>
  BY <1>2, <1>7
<1>. QED
  BY <1>5, <1>11, <1>12 DEF t, u, v, w, n

LEMMA SubOne ==
    ASSUME NEW S, NEW s \in Seq(S), NEW n \in 1 .. Len(s)
    PROVE  SubSeq(s, n, n) = <<s[n]>>
<1>. DEFINE u == SubSeq(s, n, n)
<1>1. n \in Int /\ \A i \in n .. n : s[i] \in S
  OBVIOUS
<1>2. /\ u \in Seq(S) /\ Len(u) = IF n <= n THEN n - n + 1 ELSE 0
      /\ \A i \in 1 .. n - n + 1 : u[i] = s[n + i - 1]
  BY <1>1, SubSeqProperties
<1>3. n <= n /\ n - n + 1 = 1 /\ n + 1 - 1 = n
  BY <1>1
<1>. HIDE DEF u
<1>4. Len(u) = 1 /\ u[1] = s[n]
  BY <1>2, <1>3
<1>5. u = <<s[n]>>
  BY <1>2, <1>4
<1>. QED
  BY <1>5 DEF u

(* Trimmed of underscores, what the loop has written are the words. *)
LEMMA TrimWritten ==
    ASSUME NEW S, NEW s \in Seq(S)
    PROVE  TrimOf(Written(s), "_") = Spelled(s)
<1>. DEFINE P == Spelled(s)
            W == Written(s)
            u == "_"
<1>1. P \in Seq(Out) /\ Clean(P) /\ (W = P \/ (P # <<>> /\ W = Append(P, u)))
  BY AllSpelledAs, AllLooped DEF SpelledAs, Looped
<1>2. u \in Out
  BY DEF Out
<1>3. P # <<>> => P[1] # u /\ P[Len(P)] # u
  BY <1>1 DEF Clean, PrevOf
<1>. HIDE DEF P, W, u
<1>4. CASE P = <<>>
  <2>1. Kept(<<>>, u) = {}
    BY DEF Kept
  <2>. QED
    BY <1>1, <1>4, <2>1, TrimNothing DEF P, W, u
<1>5. CASE P # <<>>
  <2>1. /\ Len(P) \in Nat /\ 1 \in 1 .. Len(P) /\ Len(P) \in 1 .. Len(P)
        /\ DOMAIN P = 1 .. Len(P)
    BY <1>1, <1>5
  <2>2. IsFirst(P, u, 1) /\ IsLast(P, u, Len(P))
    BY <1>3, <1>5, <2>1 DEF IsFirst, IsLast, Kept
  <2>3. SubSeq(P, 1, Len(P)) = P
    BY <1>1, SubSeqFull
  <2>4. TrimOf(P, u) = P
    BY <1>1, <2>2, <2>3, TrimIs
  <2>5. TrimOf(Append(P, u), u) = P
    <3>. DEFINE t == Append(P, u)
    <3>1. t \in Seq(Out)
      BY <1>1, <1>2
    <3>2. IsFirst(t, u, 1) /\ IsLast(t, u, Len(P))
      BY <1>1, <1>2, <2>2, EndsAppend
    <3>3. SubSeq(t, 1, Len(P)) = P
      BY <1>1, <1>2, <2>1, <2>3, SubWithin
    <3>. HIDE DEF t
    <3>4. TrimOf(t, u) = P
      BY <3>1, <3>2, <3>3, TrimIs
    <3>. QED
      BY <3>4 DEF t
  <2>. QED
    BY <1>1, <2>4, <2>5 DEF P, W, u
<1>. QED
  BY <1>4, <1>5

-----------------------------------------------------------------------------
(* Blanks before and after a name say nothing of its words.                *)
Left(s, c) ==
    IF Kept(s, c) = {} THEN <<>>
    ELSE SubSeq(s, CHOOSE a : IsFirst(s, c, a), Len(s))

LEMMA LeftIs ==
    ASSUME NEW s, NEW c, NEW a, IsFirst(s, c, a), Kept(s, c) \subseteq Nat
    PROVE  Left(s, c) = SubSeq(s, a, Len(s))
<1>. DEFINE x == CHOOSE k : IsFirst(s, c, k)
<1>1. IsFirst(s, c, x)
  OBVIOUS
<1>2. Left(s, c) = SubSeq(s, x, Len(s))
  <2>1. Kept(s, c) # {}
    BY DEF IsFirst
  <2>. QED
    BY <2>1 DEF Left
<1>. HIDE DEF x
<1>3. x \in Nat /\ a \in Nat /\ x <= a /\ a <= x
  BY <1>1 DEF IsFirst
<1>4. x = a
  BY <1>3
<1>. QED
  BY <1>2, <1>4

LEMMA LeftAppend ==
    ASSUME NEW S, NEW s \in Seq(S), NEW d \in S, NEW c
    PROVE  /\ Left(s, c) \in Seq(S)
           /\ Left(Append(s, d), c) = IF Left(s, c) = <<>> /\ d = c THEN <<>>
                                   ELSE Append(Left(s, c), d)
           /\ TrimOf(Append(s, d), c) = IF d = c THEN TrimOf(s, c)
                                          ELSE Append(Left(s, c), d)
<1>. DEFINE n == Len(s)
            t == Append(s, d)
<1>1. /\ t \in Seq(S) /\ Len(t) = n + 1 /\ n \in Nat /\ n + 1 \in Nat /\ n + 1 \in 1 .. n + 1
      /\ t[n + 1] = d
  OBVIOUS
<1>2. /\ Kept(s, c) \subseteq 1 .. n
      /\ Kept(t, c) = Kept(s, c) \cup (IF d = c THEN {} ELSE {n + 1})
  BY KeptAppend
<1>3. /\ d = c => /\ \A a : IsFirst(t, c, a) <=> IsFirst(s, c, a)
                  /\ \A b : IsLast(t, c, b) <=> IsLast(s, c, b)
      /\ d # c => /\ IsLast(t, c, n + 1)
                  /\ Kept(s, c) = {} => IsFirst(t, c, n + 1)
                  /\ \A a : IsFirst(s, c, a) => IsFirst(t, c, a)
  BY EndsAppend
<1>4. HasEnds(s, c)
  BY AllHaveEnds
<1>5. Kept(s, c) \subseteq Nat /\ Kept(t, c) \subseteq Nat
  <2>. DEFINE K == Kept(s, c)
              M == Kept(t, c)
  <2>1. K \subseteq 1 .. n /\ M \subseteq K \cup {n + 1}
    BY <1>2
  <2>. HIDE DEF K, M, n
  <2>2. K \subseteq Nat /\ M \subseteq Nat
    BY <1>1, <2>1
  <2>. QED
    BY <2>2 DEF K, M
<1>6. CASE Kept(s, c) = {}
  <2>1. Left(s, c) = <<>> /\ TrimOf(s, c) = <<>>
    BY <1>6, TrimNothing DEF Left
  <2>2. CASE d = c
    <3>1. Kept(t, c) = {}
      BY <1>2, <1>6, <2>2
    <3>2. Left(t, c) = <<>> /\ TrimOf(t, c) = <<>>
      BY <3>1, TrimNothing DEF Left
    <3>. QED
      BY <2>1, <2>2, <3>2, EmptySeq
  <2>3. CASE d # c
    <3>1. IsFirst(t, c, n + 1) /\ IsLast(t, c, n + 1)
      BY <1>3, <1>6, <2>3
    <3>2. SubSeq(t, n + 1, n + 1) = <<d>>
      BY <1>1, SubOne
    <3>. HIDE DEF t, n
    <3>3. Left(t, c) = <<d>>
      BY <1>1, <1>5, <3>1, <3>2, LeftIs
    <3>4. TrimOf(t, c) = <<d>>
      BY <1>1, <3>1, <3>2, TrimIs
    <3>5. Append(Left(s, c), d) = <<d>>
      <4>1. Append(<<>>, d) = <<d>>
        OBVIOUS
      <4>. QED
        BY <2>1, <4>1
    <3>. QED
      BY <2>1, <2>3, <3>3, <3>4, <3>5, EmptySeq DEF t
  <2>. QED
    BY <2>2, <2>3
<1>7. CASE Kept(s, c) # {}
  <2>1. PICK a \in 1 .. n, b \in 1 .. n : IsFirst(s, c, a) /\ IsLast(s, c, b)
    BY <1>4, <1>7 DEF HasEnds
  <2>2. /\ SubSeq(t, a, n + 1) = Append(SubSeq(s, a, n), d)
        /\ SubSeq(s, a, n) \in Seq(S) /\ SubSeq(s, a, n) # <<>>
        /\ SubSeq(t, a, b) = SubSeq(s, a, b)
    BY <2>1, SubToEnd, SubWithin
  <2>3. Left(s, c) = SubSeq(s, a, n)
    BY <1>5, <2>1, LeftIs
  <2>4. IsFirst(t, c, a)
    BY <1>3, <2>1
  <2>. HIDE DEF t
  <2>5. Left(t, c) = SubSeq(t, a, n + 1)
    BY <1>1, <1>5, <2>4, LeftIs
  <2>6. d = c => TrimOf(t, c) = TrimOf(s, c)
    <3>1. ASSUME d = c PROVE TrimOf(t, c) = SubSeq(t, a, b)
      <4>1. IsLast(t, c, b)
        BY <1>3, <2>1, <3>1
      <4>. QED
        BY <1>1, <2>4, <4>1, TrimIs
    <3>2. TrimOf(s, c) = SubSeq(s, a, b)
      BY <2>1, TrimIs
    <3>. QED
      BY <2>2, <3>1, <3>2
  <2>7. d # c => TrimOf(t, c) = SubSeq(t, a, n + 1)
    BY <1>1, <1>3, <2>4, TrimIs
  <2>. QED
    BY <2>2, <2>3, <2>5, <2>6, <2>7 DEF t
<1>. QED
  BY <1>6, <1>7

-----------------------------------------------------------------------------
(* The replacements, one character at a time.                              *)
Wide(S) == S \cup {"p", "c", "t", "e", "r", "_"}

LEMMA ReplacementIs ==
    ASSUME NEW c
    PROVE  \/ Replacement(c) = <<"p", "c", "t">>
           \/ Replacement(c) = <<"_", "p", "e", "r", "_">>
           \/ Replacement(c) = <<"_">>
           \/ Replacement(c) = <<>>
           \/ Replacement(c) = <<c>>
  BY Zenon DEF Replacement

LEMMA ReplacementTyped ==
    ASSUME NEW S, NEW c \in S
    PROVE  Replacement(c) \in Seq(Wide(S))
<1>. DEFINE p == "p" cc == "c" t == "t" e == "e" r == "r" u == "_"
            W == Wide(S)
<1>1. p \in W /\ cc \in W /\ t \in W /\ e \in W /\ r \in W /\ u \in W /\ c \in W
  BY DEF Wide
<1>2. \/ Replacement(c) = <<p, cc, t>>
      \/ Replacement(c) = <<u, p, e, r, u>>
      \/ Replacement(c) = <<u>>
      \/ Replacement(c) = <<>>
      \/ Replacement(c) = <<c>>
  BY ReplacementIs
<1>. HIDE DEF p, cc, t, e, r, u, W
<1>3. /\ <<p, cc, t>> \in Seq(W)
      /\ <<u, p, e, r, u>> \in Seq(W)
      /\ <<u>> \in Seq(W)
      /\ <<>> \in Seq(W)
      /\ <<c>> \in Seq(W)
  BY <1>1
<1>4. Replacement(c) \in Seq(W)
  BY <1>2, <1>3
<1>. QED
  BY <1>4 DEF W

LEMMA BlankStays == Replacement(" ") = <<" ">>
  BY Zenon DEF Replacement

LEMMA OutStays ==
    ASSUME NEW c \in Out
    PROVE  Replacement(c) = <<c>>
<1>1. c # "%" /\ c # "/" /\ c # "-" /\ c # "(" /\ c # ")"
  <2>1. \A x \in {"%", "/", "-", "(", ")"} : x \notin Lower /\ x \notin Digits /\ x # "_"
    BY ColumnNamesAssumption, Zenon
  <2>. QED
    BY <2>1, Zenon DEF Out
<1>. QED
  BY <1>1, Zenon DEF Replacement

LEMMA ReplacedEmpty == Replaced(<<>>) = <<>>
<1>1. [k \in DOMAIN <<>> |-> Replacement(<<>>[k])] = <<>>
  <2>1. DOMAIN <<>> = {}
    OBVIOUS
  <2>. QED
    BY <2>1
<1>. QED
  BY <1>1, FlattenEmpty, Zenon DEF Replaced

(* What is made of each element, one after the other, when an element is   *)
(* appended.                                                               *)
Mapped(g, s) == [k \in DOMAIN s |-> g[s[k]]]

LEMMA FlattenMap ==
    ASSUME NEW S, NEW V, NEW g \in [S -> Seq(V)], NEW s \in Seq(S), NEW c \in S
    PROVE  /\ FlattenSeq(Mapped(g, s)) \in Seq(V)
           /\ FlattenSeq(Mapped(g, Append(s, c))) = FlattenSeq(Mapped(g, s)) \o g[c]
<1>. DEFINE n == Len(s)
            t == Append(s, c)
            ps == Mapped(g, s)
            pt == Mapped(g, t)
            x == g[c]
<1>1. /\ n \in Nat /\ DOMAIN s = 1 .. n /\ DOMAIN t = 1 .. n + 1
      /\ t[n + 1] = c /\ \A k \in 1 .. n : t[k] = s[k] /\ s[k] \in S
  OBVIOUS
<1>2. x \in Seq(V)
  OBVIOUS
<1>3. \A k \in 1 .. n : g[s[k]] \in Seq(V)
  BY <1>1
<1>4. /\ ps \in [1 .. n -> Seq(V)]
      /\ \A k \in 1 .. n : ps[k] = g[s[k]]
  BY <1>1, <1>3 DEF Mapped
<1>5. /\ pt = [k \in 1 .. n + 1 |-> pt[k]]
      /\ \A k \in 1 .. n + 1 : pt[k] = g[t[k]]
  BY <1>1 DEF Mapped
<1>. HIDE DEF n, ps, pt, x, t
<1>7. \A k \in 1 .. n : pt[k] = ps[k]
  <2>1. ASSUME NEW k \in 1 .. n PROVE pt[k] = ps[k]
    <3>1. k \in 1 .. n + 1 /\ t[k] = s[k]
      BY <1>1
    <3>. QED
      BY <1>4, <1>5, <3>1
  <2>. QED
    BY <2>1
<1>8. pt[n + 1] = x
  <2>1. n + 1 \in 1 .. n + 1
    BY <1>1
  <2>. QED
    BY <1>1, <1>5, <2>1 DEF x
<1>9. ps \in Seq(Seq(V)) /\ Len(ps) = n
  BY <1>1, <1>4, SeqDef
<1>10. pt = Append(ps, x)
  <2>. DEFINE u == Append(ps, x)
  <2>1. /\ u \in Seq(Seq(V)) /\ Len(u) = n + 1 /\ u[n + 1] = x
        /\ \A k \in 1 .. n : u[k] = ps[k]
    BY <1>2, <1>9
  <2>. HIDE DEF u
  <2>2. \A k \in 1 .. n + 1 : k \in 1 .. n \/ k = n + 1
    BY <1>1
  <2>3. \A k \in 1 .. n + 1 : pt[k] = u[k]
    BY <1>7, <1>8, <2>1, <2>2
  <2>4. u = [k \in 1 .. n + 1 |-> u[k]]
    BY <2>1
  <2>5. pt = u
    BY <1>5, <2>3, <2>4
  <2>. QED
    BY <2>5 DEF u
<1>11. FlattenSeq(ps) \in Seq(V)
  BY <1>9, FlattenTyped
<1>12. FlattenSeq(pt) = FlattenSeq(ps) \o x
  BY <1>2, <1>9, <1>10, FlattenAppend
<1>. QED
  BY <1>11, <1>12 DEF t, x, ps, pt

LEMMA ReplacedAppend ==
    ASSUME NEW S, NEW s \in Seq(S), NEW c \in S
    PROVE  /\ Replaced(s) \in Seq(Wide(S))
           /\ Replaced(Append(s, c)) = Replaced(s) \o Replacement(c)
<1>. DEFINE g == [x \in S |-> Replacement(x)]
            t == Append(s, c)
<1>1. \A x \in S : Replacement(x) \in Seq(Wide(S))
  BY ReplacementTyped
<1>2. g \in [S -> Seq(Wide(S))] /\ \A x \in S : g[x] = Replacement(x)
  BY <1>1
<1>3. t \in Seq(S)
  OBVIOUS
<1>. HIDE DEF g, t
<1>4. ASSUME NEW n \in Seq(S)
      PROVE  Replaced(n) = FlattenSeq(Mapped(g, n))
  <2>1. \A k \in DOMAIN n : n[k] \in S
    OBVIOUS
  <2>2. \A k \in DOMAIN n : g[n[k]] = Replacement(n[k])
    BY <1>2, <2>1
  <2>3. [k \in DOMAIN n |-> g[n[k]]] = [k \in DOMAIN n |-> Replacement(n[k])]
    BY <2>2
  <2>. QED
    BY <2>3, Zenon DEF Replaced, Mapped
<1>5. /\ FlattenSeq(Mapped(g, s)) \in Seq(Wide(S))
      /\ FlattenSeq(Mapped(g, t)) = FlattenSeq(Mapped(g, s)) \o g[c]
  <2>. DEFINE V == Wide(S)
  <2>1. g \in [S -> Seq(V)]
    BY <1>2
  <2>. HIDE DEF V
  <2>2. /\ FlattenSeq(Mapped(g, s)) \in Seq(V)
        /\ FlattenSeq(Mapped(g, Append(s, c))) = FlattenSeq(Mapped(g, s)) \o g[c]
    BY <2>1, FlattenMap
  <2>. QED
    BY <2>2 DEF t, V
<1>. QED
  BY <1>2, <1>3, <1>4, <1>5 DEF t

LEMMA ReplacedTyped ==
    ASSUME NEW S, NEW s \in Seq(S)
    PROVE  Replaced(s) \in Seq(Wide(S))
<1>1. CASE s = <<>>
  BY <1>1, ReplacedEmpty, EmptySeq
<1>2. CASE s # <<>>
  <2>1. s[1] \in S
    BY <1>2
  <2>. QED
    BY <2>1, ReplacedAppend
<1>. QED
  BY <1>1, <1>2

LEMMA ReplacedOut ==
    \A P \in Seq(Out) : Replaced(P) = P
<1>. DEFINE T == {P \in Seq(Out) : Replaced(P) = P}
<1>1. <<>> \in T
  BY ReplacedEmpty, EmptySeq
<1>2. ASSUME NEW P \in Seq(Out), NEW c \in Out, P \in T PROVE Append(P, c) \in T
  <2>1. Replaced(Append(P, c)) = P \o <<c>>
    BY <1>2, ReplacedAppend, OutStays
  <2>2. P \o <<c>> = Append(P, c) /\ Append(P, c) \in Seq(Out)
    BY ConcatOne
  <2>. QED
    BY <2>1, <2>2
<1>3. Seq(Out) \subseteq T
  <2>. HIDE DEF T
  <2>. QED
    BY <1>1, <1>2, AllSequences
<1>. QED
  BY <1>3

-----------------------------------------------------------------------------
(* Two names with the same words, whatever is appended to both.            *)
Same(u, v) ==
    /\ Spelled(u) = Spelled(v)
    /\ PrevOf(u) = PrevOf(v) \/ (~IsAlnum(PrevOf(u)) /\ ~IsAlnum(PrevOf(v)))

LEMMA SameAppend ==
    ASSUME NEW S, NEW u \in Seq(S), NEW v \in Seq(S), NEW c \in S, Same(u, v)
    PROVE  Same(Append(u, c), Append(v, c))
<1>1. SpelledAs(u) /\ SpelledAs(v)
  BY AllSpelledAs
<1>2. Words(u) = {} <=> Words(v) = {}
  BY <1>1 DEF SpelledAs, Same
<1>3. Begins(PrevOf(u), c) <=> Begins(PrevOf(v), c)
  BY SplitsAlnum DEF Same, Begins
<1>4. Piece(u, c) = Piece(v, c)
  BY <1>2, <1>3 DEF Piece, PieceOf
<1>5. Spelled(Append(u, c)) = Spelled(Append(v, c))
  BY <1>4, SpelledAppend DEF Same
<1>6. PrevOf(Append(u, c)) = c /\ PrevOf(Append(v, c)) = c
  BY PrevOfAppend
<1>. QED
  BY <1>5, <1>6 DEF Same

LEMMA SameConcat ==
    ASSUME NEW S, NEW u \in Seq(S), NEW v \in Seq(S), Same(u, v)
    PROVE  \A w \in Seq(S) : Same(u \o w, v \o w)
<1>. DEFINE T == {w \in Seq(S) : Same(u \o w, v \o w)}
<1>1. <<>> \in T
  BY ConcatNone, EmptySeq
<1>2. ASSUME NEW w \in Seq(S), NEW c \in S, w \in T PROVE Append(w, c) \in T
  <2>1. /\ u \o w \in Seq(S) /\ v \o w \in Seq(S) /\ Append(w, c) \in Seq(S)
        /\ u \o Append(w, c) = Append(u \o w, c)
        /\ v \o Append(w, c) = Append(v \o w, c)
    OBVIOUS
  <2>2. Same(Append(u \o w, c), Append(v \o w, c))
    BY <1>2, <2>1, SameAppend
  <2>. QED
    BY <2>1, <2>2
<1>3. Seq(S) \subseteq T
  <2>. HIDE DEF T
  <2>. QED
    BY <1>1, <1>2, AllSequences
<1>. QED
  BY <1>3

(* What is not of a word says nothing at the end. *)
LEMMA SpelledIgnores ==
    ASSUME NEW S, NEW s \in Seq(S), NEW c \in S, ~IsAlnum(c)
    PROVE  Spelled(Append(s, c)) = Spelled(s) /\ PrevOf(Append(s, c)) = c
<1>1. Spelled(s) \in Seq(Out)
  BY AllSpelledAs DEF SpelledAs
<1>2. Piece(s, c) = <<>>
  BY DEF Piece
<1>3. Spelled(s) \o <<>> = Spelled(s)
  BY <1>1, ConcatNone
<1>. QED
  BY <1>2, <1>3, SpelledAppend, PrevOfAppend

(* Trimmed on one side or on both, a name has the same words. *)
TrimSame(s, c) ==
    /\ Same(Replaced(Left(s, c)), Replaced(s))
    /\ Spelled(Replaced(TrimOf(s, c))) = Spelled(Replaced(Left(s, c)))

LEMMA TrimSameAppend ==
    ASSUME NEW S, NEW s \in Seq(S), NEW d \in S, NEW c, ~IsAlnum(c),
           Replacement(c) = <<c>>, TrimSame(s, c)
    PROVE  TrimSame(Append(s, d), c)
<1>. DEFINE t == Append(s, d)
            l == Left(s, c)
            Rs == Replaced(s)
            Rl == Replaced(l)
            W == Wide(S)
            x == Replacement(d)
<1>1. /\ l \in Seq(S)
      /\ Left(t, c) = IF l = <<>> /\ d = c THEN <<>> ELSE Append(l, d)
      /\ TrimOf(t, c) = IF d = c THEN TrimOf(s, c) ELSE Append(l, d)
  BY LeftAppend
<1>2. /\ Rs \in Seq(W) /\ Replaced(t) = Rs \o x
      /\ Rl \in Seq(W) /\ Replaced(Append(l, d)) = Rl \o x
  BY <1>1, ReplacedAppend
<1>3. x \in Seq(W) /\ d \in W
  BY ReplacementTyped DEF Wide
<1>4. Same(Rl, Rs) /\ Spelled(Replaced(TrimOf(s, c))) = Spelled(Rl)
  BY DEF TrimSame
<1>5. l = <<>> => Rl = <<>>
  BY ReplacedEmpty
<1>. HIDE DEF t, l, Rs, Rl, W, x
<1>6. CASE d = c
  <2>1. Rs \o x = Append(Rs, c) /\ Rl \o x = Append(Rl, c)
    BY <1>2, <1>3, <1>6, ConcatOne DEF x
  <2>2. /\ Spelled(Append(Rs, c)) = Spelled(Rs) /\ PrevOf(Append(Rs, c)) = c
        /\ Spelled(Append(Rl, c)) = Spelled(Rl) /\ PrevOf(Append(Rl, c)) = c
    BY <1>2, <1>3, <1>6, SpelledIgnores
  <2>3. CASE l = <<>>
    <3>1. Left(t, c) = l /\ TrimOf(t, c) = TrimOf(s, c)
      BY <1>1, <1>6, <2>3
    <3>2. PrevOf(Rl) = ""
      BY <1>5, <2>3, SpelledEmpty
    <3>3. Same(Rl, Append(Rs, c))
      BY <1>4, <2>2, <3>2, NotAlnum DEF Same
    <3>. QED
      BY <1>2, <1>4, <2>1, <3>1, <3>3 DEF TrimSame, t, Rl
  <2>4. CASE l # <<>>
    <3>1. Left(t, c) = Append(l, d) /\ TrimOf(t, c) = TrimOf(s, c)
      BY <1>1, <1>6, <2>4
    <3>2. Same(Append(Rl, c), Append(Rs, c))
      BY <1>2, <1>3, <1>4, <1>6, SameAppend
    <3>. QED
      BY <1>2, <1>4, <2>1, <2>2, <3>1, <3>2 DEF TrimSame, t
  <2>. QED
    BY <2>3, <2>4
<1>7. CASE d # c
  <2>1. Left(t, c) = Append(l, d) /\ TrimOf(t, c) = Append(l, d)
    BY <1>1, <1>7
  <2>2. Same(Rl \o x, Rs \o x)
    BY <1>2, <1>3, <1>4, SameConcat
  <2>. QED
    BY <1>2, <2>1, <2>2 DEF TrimSame, t
<1>. QED
  BY <1>6, <1>7

LEMMA AllTrimSame ==
    ASSUME NEW S, NEW c, ~IsAlnum(c), Replacement(c) = <<c>>
    PROVE  \A s \in Seq(S) : TrimSame(s, c)
<1>. DEFINE T == {s \in Seq(S) : TrimSame(s, c)}
<1>1. <<>> \in T
  <2>1. Kept(<<>>, c) = {}
    BY DEF Kept
  <2>2. Left(<<>>, c) = <<>> /\ TrimOf(<<>>, c) = <<>>
    BY <2>1, TrimNothing DEF Left
  <2>. QED
    BY <2>2, EmptySeq DEF TrimSame, Same
<1>2. ASSUME NEW s \in Seq(S), NEW d \in S, s \in T PROVE Append(s, d) \in T
  <2>1. Append(s, d) \in Seq(S)
    OBVIOUS
  <2>. QED
    BY <1>2, <2>1, TrimSameAppend
<1>3. Seq(S) \subseteq T
  <2>. HIDE DEF T
  <2>. QED
    BY <1>1, <1>2, AllSequences
<1>. QED
  BY <1>3

(* What NormalizeColumnName makes of a name.                               *)
LEMMA NormalizedIs ==
    ASSUME NEW S, NEW n \in Seq(S)
    PROVE  NormalizeColumnName(n) = Spelled(Replaced(n))
<1>. DEFINE c == " "
            m == TrimOf(n, c)
<1>1. NormalizeColumnName(n) = TrimOf(Written(Replaced(m)), "_")
  BY DEF NormalizeColumnName
<1>2. ~IsAlnum(c) /\ Replacement(c) = <<c>>
  BY NotAlnum, BlankStays
<1>. HIDE DEF c
<1>3. Spelled(Replaced(m)) = Spelled(Replaced(n))
  BY <1>2, AllTrimSame DEF TrimSame, Same
<1>4. m \in Seq(S)
  <2>1. CASE n = <<>>
    <3>1. Kept(<<>>, c) = {}
      BY DEF Kept
    <3>. QED
      BY <2>1, <3>1, TrimNothing, EmptySeq
  <2>2. CASE n # <<>>
    <3>1. HasEnds(n, c)
      BY AllHaveEnds
    <3>2. CASE Kept(n, c) = {}
      BY <3>2, TrimNothing, EmptySeq
    <3>3. CASE Kept(n, c) # {}
      <4>1. PICK i \in 1 .. Len(n), j \in 1 .. Len(n) : IsFirst(n, c, i) /\ IsLast(n, c, j)
        BY <3>1, <3>3 DEF HasEnds
      <4>2. m = SubSeq(n, i, j)
        BY <4>1, TrimIs
      <4>3. i \in Int /\ j \in Int /\ \A k \in i .. j : n[k] \in S
        OBVIOUS
      <4>. HIDE DEF m
      <4>. QED
        BY <4>2, <4>3, SubSeqProperties
    <3>. QED
      BY <3>2, <3>3
  <2>. QED
    BY <2>1, <2>2
<1>. HIDE DEF m
<1>5. Replaced(m) \in Seq(Wide(S))
  BY <1>4, ReplacedTyped
<1>6. TrimOf(Written(Replaced(m)), "_") = Spelled(Replaced(m))
  BY <1>5, TrimWritten
<1>. QED
  BY <1>1, <1>3, <1>6

(* A name made of words stays what it is. *)
LEMMA NormalizedStays ==
    ASSUME NEW S, NEW n \in Seq(S)
    PROVE  NormalizeColumnName(Spelled(Replaced(n))) = Spelled(Replaced(n))
<1>. DEFINE R == Replaced(n)
            P == Spelled(R)
<1>1. R \in Seq(Wide(S))
  BY ReplacedTyped
<1>. HIDE DEF R
<1>2. P \in Seq(Out) /\ Spelled(P) = P
  BY <1>1, AllSpelledAs, AllLooped DEF SpelledAs, Looped, Clean
<1>. HIDE DEF P
<1>3. NormalizeColumnName(P) = P
  BY <1>2, NormalizedIs, ReplacedOut
<1>. QED
  BY <1>3 DEF P, R

-----------------------------------------------------------------------------
(* The columns of a row.                                                   *)
Fields(r, i, D) == FlattenSeq([k \in DOMAIN r |-> ColumnOf(r[k], i, D)])

IsColumn(r, k, i, D, y) == ColumnOf(r[k], i, D) = <<y>>

ColumnsCover(r, i, D) ==
    /\ Fields(r, i, D) \in Seq(Seq(Out))
    /\ \A y : y \in ToSet(Fields(r, i, D)) <=> \E k \in DOMAIN r : IsColumn(r, k, i, D, y)
    /\ Twice(Fields(r, i, D)) =>
           \E j, k \in DOMAIN r : \E y :
               j # k /\ IsColumn(r, j, i, D, y) /\ IsColumn(r, k, i, D, y)

LEMMA ColumnIs ==
    ASSUME NEW S, NEW n \in Seq(S), NEW i, NEW D
    PROVE  /\ NormalizeColumnName(n) \in Seq(Out)
           /\ ColumnOf(n, i, D) = <<>> \/ ColumnOf(n, i, D) = <<NormalizeColumnName(n)>>
           /\ ColumnOf(n, i, D) \in Seq(Seq(Out))
<1>. DEFINE N == NormalizeColumnName(n)
            F == Seq(Out)
<1>1. N \in F
  BY NormalizedIs, ReplacedTyped, AllSpelledAs DEF SpelledAs
<1>2. ColumnOf(n, i, D) = <<>> \/ ColumnOf(n, i, D) = <<N>>
  BY DEF ColumnOf
<1>. HIDE DEF N, F
<1>3. <<>> \in Seq(F) /\ <<N>> \in Seq(F)
  BY <1>1
<1>. QED
  BY <1>1, <1>2, <1>3 DEF N, F

LEMMA FieldsAppend ==
    ASSUME NEW S, NEW r \in Seq(Seq(S)), NEW n \in Seq(S), NEW i, NEW D
    PROVE  /\ Fields(r, i, D) \in Seq(Seq(Out))
           /\ Fields(Append(r, n), i, D) = Fields(r, i, D) \o ColumnOf(n, i, D)
<1>. DEFINE g == [x \in Seq(S) |-> ColumnOf(x, i, D)]
            V == Seq(Out)
            Y == Seq(S)
            t == Append(r, n)
<1>1. \A x \in Y : ColumnOf(x, i, D) \in Seq(V)
  BY ColumnIs
<1>2. g \in [Y -> Seq(V)] /\ \A x \in Y : g[x] = ColumnOf(x, i, D)
  BY <1>1
<1>3. t \in Seq(Y) /\ r \in Seq(Y) /\ n \in Y
  OBVIOUS
<1>. HIDE DEF g, t, V, Y
<1>4. ASSUME NEW s \in Seq(Y)
      PROVE  Fields(s, i, D) = FlattenSeq(Mapped(g, s))
  <2>1. \A k \in DOMAIN s : s[k] \in Y
    OBVIOUS
  <2>2. \A k \in DOMAIN s : g[s[k]] = ColumnOf(s[k], i, D)
    BY <1>2, <2>1
  <2>3. [k \in DOMAIN s |-> g[s[k]]] = [k \in DOMAIN s |-> ColumnOf(s[k], i, D)]
    BY <2>2
  <2>. QED
    BY <2>3, Zenon DEF Fields, Mapped
<1>5. /\ FlattenSeq(Mapped(g, r)) \in Seq(V)
      /\ FlattenSeq(Mapped(g, Append(r, n))) = FlattenSeq(Mapped(g, r)) \o g[n]
  <2>1. g \in [Y -> Seq(V)]
    BY <1>2
  <2>2. r \in Seq(Y) /\ n \in Y
    BY <1>3
  <2>. QED
    BY <2>1, <2>2, FlattenMap
<1>. QED
  BY <1>2, <1>3, <1>4, <1>5 DEF t, V

(* One more element: what a sequence holds, and holds twice. *)
LEMMA OneMore ==
    ASSUME NEW Y, NEW F \in Seq(Y), NEW x \in Y
    PROVE  /\ ToSet(Append(F, x)) = ToSet(F) \cup {x}
           /\ Twice(Append(F, x)) => Twice(F) \/ x \in ToSet(F)
<1>. DEFINE n == Len(F)
            G == Append(F, x)
<1>1. /\ n \in Nat /\ DOMAIN F = 1 .. n /\ DOMAIN G = 1 .. n + 1
      /\ G[n + 1] = x /\ \A k \in 1 .. n : G[k] = F[k]
  OBVIOUS
<1>2. \A k : k \in 1 .. n + 1 <=> k \in 1 .. n \/ k = n + 1
  BY <1>1
<1>. HIDE DEF n, G
<1>3. ToSet(G) = ToSet(F) \cup {x}
  BY <1>1, <1>2 DEF ToSet
<1>4. ASSUME Twice(G), x \notin ToSet(F) PROVE Twice(F)
  <2>1. PICK j, k \in 1 .. n + 1 : j < k /\ G[j] = G[k]
    BY <1>1, <1>4 DEF Twice
  <2>2. j \in 1 .. n
    BY <1>1, <2>1
  <2>3. k # n + 1
    BY <1>1, <1>4, <2>1, <2>2 DEF ToSet
  <2>4. k \in 1 .. n
    BY <1>2, <2>1, <2>3
  <2>. QED
    BY <1>1, <2>1, <2>2, <2>4 DEF Twice
<1>. QED
  BY <1>3, <1>4 DEF G

LEMMA CoverAppend ==
    ASSUME NEW S, NEW r \in Seq(Seq(S)), NEW n \in Seq(S), NEW i, NEW D,
           ColumnsCover(r, i, D)
    PROVE  ColumnsCover(Append(r, n), i, D)
<1>. DEFINE m == Len(r)
            t == Append(r, n)
            F == Fields(r, i, D)
            G == Fields(t, i, D)
            N == NormalizeColumnName(n)
            Y == Seq(Out)
<1>1. /\ m \in Nat /\ DOMAIN r = 1 .. m /\ DOMAIN t = 1 .. m + 1
      /\ t[m + 1] = n /\ \A k \in 1 .. m : t[k] = r[k]
  OBVIOUS
<1>2. \A k : k \in 1 .. m + 1 <=> k \in 1 .. m \/ k = m + 1
  BY <1>1
<1>3. m + 1 \notin 1 .. m
  BY <1>1
<1>4. /\ F \in Seq(Y) /\ G = F \o ColumnOf(n, i, D) /\ N \in Y
      /\ ColumnOf(n, i, D) = <<>> \/ ColumnOf(n, i, D) = <<N>>
  BY FieldsAppend, ColumnIs
<1>5. /\ \A y : y \in ToSet(F) <=> \E k \in 1 .. m : IsColumn(r, k, i, D, y)
      /\ Twice(F) => \E j, k \in 1 .. m : \E y :
                         j # k /\ IsColumn(r, j, i, D, y) /\ IsColumn(r, k, i, D, y)
  BY <1>1 DEF ColumnsCover
<1>. HIDE DEF m, t, F, G, N, Y
<1>6. \A k \in 1 .. m : \A y : IsColumn(t, k, i, D, y) <=> IsColumn(r, k, i, D, y)
  BY <1>1 DEF IsColumn
<1>7. CASE ColumnOf(n, i, D) = <<>>
  <2>1. G = F
    BY <1>4, <1>7, ConcatNone
  <2>2. \A y : ~IsColumn(t, m + 1, i, D, y)
    <3>1. \A y : <<y>> # <<>>
      OBVIOUS
    <3>. QED
      BY <1>1, <1>7, <3>1 DEF IsColumn
  <2>3. \A y : y \in ToSet(G) <=> \E k \in 1 .. m + 1 : IsColumn(t, k, i, D, y)
    BY <1>2, <1>5, <1>6, <2>1, <2>2
  <2>4. Twice(G) => \E j, k \in 1 .. m + 1 : \E y :
                        j # k /\ IsColumn(t, j, i, D, y) /\ IsColumn(t, k, i, D, y)
    BY <1>2, <1>5, <1>6, <2>1
  <2>. QED
    BY <1>1, <1>4, <2>1, <2>3, <2>4 DEF ColumnsCover, t, G, Y
<1>8. CASE ColumnOf(n, i, D) = <<N>>
  <2>1. G = Append(F, N)
    BY <1>4, <1>8, ConcatOne
  <2>2. /\ ToSet(G) = ToSet(F) \cup {N} /\ G \in Seq(Y)
        /\ Twice(G) => Twice(F) \/ N \in ToSet(F)
    <3>1. Append(F, N) \in Seq(Y)
      BY <1>4
    <3>. QED
      BY <1>4, <2>1, <3>1, OneMore
  <2>3. \A y : IsColumn(t, m + 1, i, D, y) <=> y = N
    <3>1. \A y : <<N>> = <<y>> <=> y = N
      OBVIOUS
    <3>. QED
      BY <1>1, <1>8, <3>1 DEF IsColumn
  <2>4. \A y : y \in ToSet(G) <=> \E k \in 1 .. m + 1 : IsColumn(t, k, i, D, y)
    BY <1>2, <1>5, <1>6, <2>2, <2>3
  <2>5. Twice(G) => \E j, k \in 1 .. m + 1 : \E y :
                        j # k /\ IsColumn(t, j, i, D, y) /\ IsColumn(t, k, i, D, y)
    <3>1. CASE Twice(F)
      BY <1>2, <1>5, <1>6, <3>1
    <3>2. CASE N \in ToSet(F)
      <4>1. PICK k \in 1 .. m : IsColumn(r, k, i, D, N)
        BY <1>5, <3>2
      <4>2. IsColumn(t, k, i, D, N) /\ IsColumn(t, m + 1, i, D, N) /\ k # m + 1
        BY <1>3, <1>6, <2>3, <4>1
      <4>. QED
        BY <1>2, <4>2
    <3>. QED
      BY <2>2, <3>1, <3>2
  <2>. QED
    BY <1>1, <2>2, <2>4, <2>5 DEF ColumnsCover, t, G, Y
<1>. QED
  BY <1>4, <1>7, <1>8

LEMMA AllCover ==
    ASSUME NEW S, NEW i, NEW D
    PROVE  \A r \in Seq(Seq(S)) : ColumnsCover(r, i, D)
<1>. DEFINE T == {r \in Seq(Seq(S)) : ColumnsCover(r, i, D)}
<1>1. <<>> \in T
  <2>1. DOMAIN <<>> = {} /\ <<>> \in Seq(Seq(Out)) /\ <<>> \in Seq(Seq(S))
    OBVIOUS
  <2>2. Fields(<<>>, i, D) = <<>>
    <3>1. [k \in DOMAIN <<>> |-> ColumnOf(<<>>[k], i, D)] = <<>>
      BY <2>1
    <3>. QED
      BY <3>1, FlattenEmpty DEF Fields
  <2>3. ToSet(<<>>) = {} /\ ~Twice(<<>>)
    BY <2>1 DEF ToSet, Twice
  <2>. QED
    BY <2>1, <2>2, <2>3 DEF ColumnsCover
<1>2. ASSUME NEW r \in Seq(Seq(S)), NEW n \in Seq(S), r \in T PROVE Append(r, n) \in T
  <2>1. Append(r, n) \in Seq(Seq(S))
    OBVIOUS
  <2>. QED
    BY <1>2, <2>1, CoverAppend
<1>3. Seq(Seq(S)) \subseteq T
  <2>. DEFINE Y == Seq(S)
  <2>1. \A r \in Seq(Y), n \in Y : r \in T => Append(r, n) \in T
    BY <1>2
  <2>. HIDE DEF T, Y
  <2>2. Seq(Y) \subseteq T
    BY <1>1, <2>1, AllSequences
  <2>. QED
    BY <2>2 DEF Y
<1>. QED
  BY <1>3

(* The columns the collector adds are four.                                *)
LEMMA ManagedOnce == ~Twice(Managed) /\ Managed \in Seq(ToSet(Managed))
<1>. DEFINE a == <<"t", "s">>
            b == <<"s", "o", "u", "r", "c", "e", "_", "f", "i", "l", "e">>
            c == <<"s", "o", "u", "r", "c", "e", "_", "l", "i", "n", "e", "_",
                   "n", "u", "m", "b", "e", "r">>
            d == <<"f", "l", "a", "g", "s">>
            M == <<a, b, c, d>>
<1>1. Len(a) = 2 /\ Len(b) = 11 /\ Len(c) = 18 /\ Len(d) = 5
  OBVIOUS
<1>2. Managed = M
  BY DEF Managed
<1>. HIDE DEF a, b, c, d
<1>3. M \in Seq({a, b, c, d}) /\ DOMAIN M = 1 .. 4
      /\ M[1] = a /\ M[2] = b /\ M[3] = c /\ M[4] = d
  OBVIOUS
<1>. HIDE DEF M
<1>4. \A k \in 1 .. 4 : k = 1 \/ k = 2 \/ k = 3 \/ k = 4
  OBVIOUS
<1>5. ToSet(M) = {a, b, c, d}
  BY <1>3, <1>4 DEF ToSet
<1>6. ~Twice(M)
  <2>1. Len(M[1]) = 2 /\ Len(M[2]) = 11 /\ Len(M[3]) = 18 /\ Len(M[4]) = 5
    BY <1>1, <1>3
  <2>2. ASSUME NEW j \in 1 .. 4, NEW k \in 1 .. 4, j < k PROVE M[j] # M[k]
    <3>1. CASE j = 1
      BY <2>1, <2>2, <3>1, <1>4
    <3>2. CASE j = 2
      BY <2>1, <2>2, <3>2, <1>4
    <3>3. CASE j = 3
      BY <2>1, <2>2, <3>3, <1>4
    <3>. QED
      BY <1>4, <2>2, <3>1, <3>2, <3>3
  <2>. QED
    BY <1>3, <2>2 DEF Twice
<1>. QED
  BY <1>2, <1>3, <1>5, <1>6

LEMMA PayloadIs ==
    ASSUME NEW S, NEW r \in Seq(Seq(S)), NEW i, NEW D
    PROVE  /\ ToSet(Payload(r, i, D)) = ToSet(Managed) \cup ToSet(Fields(r, i, D))
           /\ Twice(Payload(r, i, D)) =>
                 \/ Twice(Fields(r, i, D))
                 \/ \E y \in ToSet(Fields(r, i, D)) : y \in ToSet(Managed)
<1>. DEFINE F == Fields(r, i, D)
            M == Managed
            Y == ToSet(F) \cup ToSet(M)
            m == Len(M)
            n == Len(F)
            G == M \o F
<1>1. F \in Seq(Seq(Out))
  BY AllCover DEF ColumnsCover
<1>2. Len(M) \in Nat /\ DOMAIN M = 1 .. Len(M) /\ ~Twice(M) /\ M \in Seq(ToSet(M))
  <2>. HIDE DEF M
  <2>1. M \in Seq(ToSet(M)) /\ ~Twice(M)
    BY ManagedOnce DEF M
  <2>. QED
    BY <2>1
<1>3. G = Payload(r, i, D)
  BY DEF Payload, Fields
<1>. HIDE DEF F, M
<1>4. M \in Seq(Y) /\ F \in Seq(Y)
  BY <1>1, <1>2 DEF ToSet
<1>. HIDE DEF Y
<1>5. /\ m \in Nat /\ n \in Nat /\ DOMAIN M = 1 .. m /\ DOMAIN F = 1 .. n
      /\ DOMAIN G = 1 .. m + n
      /\ \A k \in 1 .. m : G[k] = M[k]
      /\ \A k \in m + 1 .. m + n : G[k] = F[k - m] /\ k - m \in 1 .. n
      /\ \A k \in 1 .. n : k + m \in 1 .. m + n /\ G[k + m] = F[k]
  BY <1>4
<1>. HIDE DEF G, m, n
<1>6. \A k \in 1 .. m + n : k \in 1 .. m \/ k \in m + 1 .. m + n
  BY <1>5
<1>7. \A k \in 1 .. m : k \in 1 .. m + n
  BY <1>5
<1>8. ToSet(G) = ToSet(M) \cup ToSet(F)
  <2>1. ASSUME NEW k \in 1 .. m + n PROVE G[k] \in ToSet(M) \/ G[k] \in ToSet(F)
    BY <1>5, <1>6 DEF ToSet
  <2>2. ASSUME NEW k \in 1 .. m PROVE M[k] \in ToSet(G)
    BY <1>5, <1>7 DEF ToSet
  <2>3. ASSUME NEW k \in 1 .. n PROVE F[k] \in ToSet(G)
    BY <1>5 DEF ToSet
  <2>4. /\ \A y : y \in ToSet(G) <=> \E k \in 1 .. m + n : y = G[k]
        /\ \A y : y \in ToSet(M) <=> \E k \in 1 .. m : y = M[k]
        /\ \A y : y \in ToSet(F) <=> \E k \in 1 .. n : y = F[k]
    BY <1>5 DEF ToSet
  <2>. QED
    BY <2>1, <2>2, <2>3, <2>4
<1>9. ASSUME Twice(G), ~Twice(F) PROVE \E y \in ToSet(F) : y \in ToSet(M)
  <2>1. PICK j, k \in 1 .. m + n : j < k /\ G[j] = G[k]
    BY <1>5, <1>9 DEF Twice
  <2>2. CASE j \in 1 .. m /\ k \in 1 .. m
    BY <1>2, <1>5, <2>1, <2>2 DEF Twice
  <2>3. CASE j \in 1 .. m /\ k \in m + 1 .. m + n
    <3>1. G[j] = M[j] /\ G[k] = F[k - m] /\ k - m \in 1 .. n
      BY <1>5, <2>3
    <3>2. M[j] \in ToSet(M) /\ F[k - m] \in ToSet(F)
      BY <1>5, <2>3, <3>1 DEF ToSet
    <3>. QED
      BY <2>1, <3>1, <3>2
  <2>4. CASE j \in m + 1 .. m + n /\ k \in m + 1 .. m + n
    <3>1. /\ j - m \in 1 .. n /\ k - m \in 1 .. n
          /\ F[j - m] = F[k - m]
      BY <1>5, <2>1, <2>4
    <3>2. j - m < k - m
      BY <1>5, <2>1, <2>4
    <3>. QED
      BY <1>5, <1>9, <3>1, <3>2 DEF Twice
  <2>5. CASE j \in m + 1 .. m + n /\ k \in 1 .. m
    BY <1>5, <2>1, <2>5
  <2>. QED
    BY <1>6, <2>1, <2>2, <2>3, <2>4, <2>5
<1>. QED
  BY <1>3, <1>8, <1>9 DEF F, M

(* What is known of the row and its columns. *)
Inserted == {"export", "done", "no metric", "column twice"}

ColumnsInv ==
    /\ pc \notin Unread => \A k \in DOMAIN config : config[k].name \in DOMAIN Rows
    /\ pc \notin Unfound => input.name \in DOMAIN Rows
    /\ pc \in Inserted =>
           /\ row \in Seq(Name)
           /\ columns = Payload(row, input, world.columns)
           /\ pc = "column twice" => Twice(columns)

LEMMA ColumnsNamed == ColumnsInv => ColumnsGetTheirNames
<1>. SUFFICES ASSUME ColumnsInv, pc \in Inserted PROVE ColumnsGetTheirNames
  BY DEF ColumnsGetTheirNames, Inserted
<1>. DEFINE D == world.columns
            own == {n \in ToSet(row) : ~IsTimestamp(n, input)}
            F == Fields(row, input, D)
<1>1. /\ row \in Seq(Seq(STRING))
      /\ columns = Payload(row, input, D)
      /\ pc = "column twice" => Twice(columns)
  BY DEF ColumnsInv, Name
<1>2. /\ ToSet(columns) = ToSet(Managed) \cup ToSet(F)
      /\ Twice(columns) => Twice(F) \/ \E y \in ToSet(F) : y \in ToSet(Managed)
  BY <1>1, PayloadIs
<1>3. /\ \A y : y \in ToSet(F) <=> \E k \in DOMAIN row : IsColumn(row, k, input, D, y)
      /\ Twice(F) => \E j, k \in DOMAIN row : \E y :
             j # k /\ IsColumn(row, j, input, D, y) /\ IsColumn(row, k, input, D, y)
  BY <1>1, AllCover DEF ColumnsCover
<1>4. ASSUME NEW k \in DOMAIN row
      PROVE  /\ NormalizeColumnName(row[k]) = Spelled(Replaced(row[k]))
             /\ NormalizeColumnName(Spelled(Replaced(row[k]))) = Spelled(Replaced(row[k]))
  <2>1. row[k] \in Seq(STRING)
    <3>. DEFINE Y == Seq(STRING)
    <3>1. row \in Seq(Y)
      BY <1>1
    <3>. HIDE DEF Y
    <3>2. row[k] \in Y
      BY <3>1
    <3>. QED
      BY <3>2 DEF Y
  <2>. QED
    BY <2>1, NormalizedIs, NormalizedStays
<1>5. ASSUME NEW k \in DOMAIN row, NEW y
      PROVE  IsColumn(row, k, input, D, y) <=>
                 row[k] \in own /\ y = Spelled(Replaced(row[k])) /\ y \in D
  <2>1. row[k] \in ToSet(row)
    BY DEF ToSet
  <2>2. \A x : <<x>> # <<>> /\ (<<x>> = <<y>> <=> x = y)
    OBVIOUS
  <2>. DEFINE N == NormalizeColumnName(row[k])
  <2>3. ColumnOf(row[k], input, D) =
            IF IsTimestamp(row[k], input) \/ N \notin D THEN <<>> ELSE <<N>>
    BY DEF ColumnOf
  <2>4. N = Spelled(Replaced(row[k]))
    BY <1>4
  <2>5. row[k] \in own <=> ~IsTimestamp(row[k], input)
    BY <2>1
  <2>. HIDE DEF N, own, D
  <2>. QED
    BY <2>2, <2>3, <2>4, <2>5 DEF IsColumn
<1>. HIDE DEF F
<1>6. \A n \in own : \E k \in DOMAIN row : n = row[k]
  BY DEF ToSet
<1>. HIDE DEF own, D
<1>7. ToSet(F) = {Spelled(Replaced(n)) : n \in own} \cap D
  BY <1>3, <1>5, <1>6
<1>8. \A n \in own : NormalizeColumnName(Spelled(Replaced(n))) = Spelled(Replaced(n))
  BY <1>4, <1>6
<1>9. ASSUME pc = "column twice"
      PROVE  \/ \E j, k \in DOMAIN row :
                    j # k /\ Spelled(Replaced(row[j])) = Spelled(Replaced(row[k]))
             \/ \E n \in own : Spelled(Replaced(n)) \in ToSet(Managed)
  <2>1. CASE Twice(F)
    BY <1>3, <1>5, <2>1
  <2>2. CASE \E y \in ToSet(F) : y \in ToSet(Managed)
    BY <1>7, <2>2
  <2>. QED
    BY <1>1, <1>2, <1>9, <2>1, <2>2
<1>. QED
  BY <1>2, <1>7, <1>8, <1>9 DEF ColumnsGetTheirNames, own, D

LEMMA StoredKeepsName ==
    ASSUME NEW j \in Input
    PROVE  Stored(j).name = j.name
  BY DEF Stored, WithDefaults, Input

LEMMA ColumnsNext == Sources /\ ColumnsInv /\ [Next]_vars => ColumnsInv'
<1>. SUFFICES ASSUME Sources, ColumnsInv, [Next]_vars PROVE ColumnsInv'
  OBVIOUS
<1>. USE DEF chosen, Goes, Fails, Inserted, Unread, Unfound
<1>1. CASE InsertRow
  <2>1. row' \in Rows[input.name] /\ input.name \in DOMAIN Rows
    BY <1>1 DEF InsertRow, ColumnsInv
  <2>2. row' \in Seq(Name)
    BY <2>1, WriteCommandAssumption
  <2>. QED
    BY <1>1, <2>2 DEF InsertRow, ColumnsInv
<1>2. CASE LoadConfig
  <2>1. config \in Configs /\ config' = [k \in DOMAIN config |-> Stored(config[k])]
    BY <1>2 DEF LoadConfig, StoredConfig, Sources
  <2>2. ASSUME NEW k \in DOMAIN config' PROVE config'[k].name \in DOMAIN Rows
    <3>1. k \in DOMAIN config /\ config'[k] = Stored(config[k])
      BY <2>1
    <3>2. config[k] \in Input /\ config[k].name \in DOMAIN Rows
      BY <2>1, <3>1, WriteCommandAssumption
    <3>. QED
      BY <3>1, <3>2, StoredKeepsName
  <2>. QED
    BY <1>2, <2>2 DEF LoadConfig, ColumnsInv
<1>3. CASE FindInput
  BY <1>3 DEF FindInput, Candidates, Named, ColumnsInv
<1>4. CASE UNCHANGED vars
  BY <1>4 DEF vars, ColumnsInv
<1>5. CASE ExportMetric \/ ExportFails \/ EndExport
  BY <1>5 DEF ExportMetric, ExportFails, EndExport, ColumnsInv
<1>6. CASE LoadFails \/ FindFails \/ ListFiles \/ ListFails
  BY <1>6 DEF LoadFails, FindFails, ListFiles, ListFails, ColumnsInv
<1>7. CASE ChooseOutput \/ NoOutput \/ Connect \/ ResolveFails \/ ConnectFails
  BY <1>7 DEF ChooseOutput, NoOutput, Connect, ResolveFails, ConnectFails, ColumnsInv
<1>8. CASE Prepare \/ PrepareFails \/ ReaderFails
  BY <1>8 DEF Prepare, PrepareFails, ReaderFails, ColumnsInv
<1>. QED
  BY <1>1, <1>2, <1>3, <1>4, <1>5, <1>6, <1>7, <1>8 DEF Next

(* Whatever the names of the columns of a file and of the table, each goes *)
(* into the INSERT under the words of its name, and none else              *)
(* (normalize.go:13-51, writer.go:477).                                    *)
THEOREM ColumnsNamedRight == Spec => []ColumnsGetTheirNames
<1>1. Init => ColumnsInv
  BY DEF Init, ColumnsInv, Inserted, Unread, Unfound
<1>. QED
  BY <1>1, ColumnsNamed, ColumnsNext, SourcesAlways, PTL DEF Spec
=============================================================================
