----------------------------- MODULE FileWindow -----------------------------
(***************************************************************************)
(* The modes all, latest and last_n_files: a run resolves the files of the *)
(* input (cmd/file-collector/main.go resolveFilesFromInput), holds back    *)
(* the unterminated last line of the one that may still grow (internal/    *)
(* timescaledb/writer.go newestFile) and reads them all from the start,    *)
(* again and again, while a logger appends to the newest file and starts   *)
(* new ones.                                                               *)
(*                                                                         *)
(* Simplifications.                                                        *)
(*  - Files are numbered in the order of their creation and only the last  *)
(*    one is written to.  A file is n complete lines and perhaps the       *)
(*    beginning of another, which the logger may leave as it is when it    *)
(*    goes to the next file.  Every line holds a row.                      *)
(*  - A line cut short has fewer columns, and is skipped, or ends in a     *)
(*    value cut short, and is a row with the key of the whole line.        *)
(*  - The clock is as coarse as the mtime of the file system or of the     *)
(*    transfer: two files may have one mtime.                              *)
(*  - The files are sorted at one instant.  They are written one after the *)
(*    other; SharedTable has the concurrent writes.                        *)
(***************************************************************************)
EXTENDS Integers, Sequences, FiniteSets

CONSTANTS Mode,            \* input.Mode
          LastNFiles,      \* input.LastNFiles
          NamesAscend,     \* a later file has a greater name
          HoldsLastLine,   \* the reader obeys HoldUnterminatedLastLine
          DoUpdate,        \* on_conflict is do_update, not do_nothing
          MaxFiles,        \* bound: files created
          MaxLines,        \* bound: lines of a file
          MaxClock,        \* bound: ticks of the clock
          MaxFailures      \* bound: files that fail and runs that are killed

ASSUME FileWindowAssumption ==
    /\ Mode \in {"all", "latest", "last_n_files"}
    /\ LastNFiles \in Nat \ {0}
    /\ MaxFiles \in Nat \ {0}
    /\ MaxLines \in Nat
    /\ {NamesAscend, HoldsLastLine, DoUpdate} \subseteq BOOLEAN

VARIABLES
    files,     \* [n, part, mtime]; part is "none", "cut", or "text" when
               \* only the newline is missing
    clock,
    table,     \* the rows stored, by file and line, and whether cut short
    at,        \* where the run stands: "idle", "sorted", "next", "read"
    chosen,    \* the files of the run still to be written
    growing,   \* newestFile
    batch,     \* the rows of the file being written
    failed,    \* a file of this run has failed
    since,     \* files created since the run sorted the files, and since the
    behind,    \* last run without a failure did
    failures   \* bound counter

logger == <<files, clock>>
run == <<at, chosen, growing, batch, failed>>
vars == <<logger, table, run, since, behind, failures>>

Newest == Len(files)

(* Files that a run reads: what LastNFiles is for the three modes. *)
Window == CASE Mode = "all" -> MaxFiles
            [] Mode = "latest" -> 1
            [] OTHER -> LastNFiles

Init ==
    /\ files = <<[n |-> 0, part |-> "none", mtime |-> 0]>>
    /\ clock = 0
    /\ table = {}
    /\ at = "idle"
    /\ chosen = <<>>
    /\ growing = 0
    /\ batch = {}
    /\ failed = FALSE
    /\ since = 0
    /\ behind = 0
    /\ failures = 0

-----------------------------------------------------------------------------
(* The logger.                                                             *)

Write(n, part) ==
    files' = [files EXCEPT ![Newest] = [n |-> n, part |-> part, mtime |-> clock]]

(* It goes on with its last line. *)
LogText ==
    LET f == files[Newest] IN
    /\ f.n < MaxLines
    /\ \/ f.part = "none" /\ Write(f.n, "cut")
       \/ f.part = "cut" /\ Write(f.n, "text")
       \/ f.part = "text" /\ Write(f.n + 1, "none")
    /\ UNCHANGED <<clock, table, run, since, behind, failures>>

(* The runs keep up with the files: of Window files created one after the  *)
(* other, the first is still there for a run that succeeds.                *)
LogFile ==
    /\ Newest < MaxFiles
    /\ Mode # "all" => behind < Window - 1
    /\ files' = Append(files, [n |-> 0, part |-> "none", mtime |-> clock])
    /\ since' = since + 1
    /\ behind' = behind + 1
    /\ UNCHANGED <<clock, table, run, failures>>

(* Time passes; more than one tick without a write changes nothing. *)
Tick ==
    /\ clock = files[Newest].mtime
    /\ clock < MaxClock
    /\ clock' = clock + 1
    /\ UNCHANGED <<files, table, run, since, behind, failures>>

-----------------------------------------------------------------------------
(* A run.                                                                  *)

(* files[i] > files[j] *)
NameAfter(f, g) == IF NamesAscend THEN f > g ELSE f < g

(* sortFilesByModTimeDesc *)
SortedBefore(f, g) ==
    \/ files[f].mtime > files[g].mtime
    \/ files[f].mtime = files[g].mtime /\ NameAfter(f, g)

Place(f) == 1 + Cardinality({g \in 1 .. Newest : g # f /\ SortedBefore(g, f)})

Sorted == [i \in 1 .. Newest |-> CHOOSE f \in 1 .. Newest : Place(f) = i]

Kept(s) == IF Window < Len(s) THEN SubSeq(s, 1, Window) ELSE s

(* resolveFilesFromInput *)
Resolve ==
    /\ at = "idle"
    /\ at' = "sorted"
    /\ chosen' = Kept(Sorted)
    /\ failed' = FALSE
    /\ since' = 0
    /\ UNCHANGED <<logger, table, growing, batch, behind, failures>>

(* Mutant: the last of those with the greatest mtime. *)
ReplacesOrEquals(f, g) == files[f].mtime >= files[g].mtime

Replaces(f, g) == files[f].mtime > files[g].mtime

(* newestFile: a file replaces one before it when it is strictly newer.    *)
NewestOf(s) ==
    CHOOSE f \in {s[i] : i \in 1 .. Len(s)} :
        \E i \in 1 .. Len(s) :
            /\ s[i] = f
            /\ \A j \in 1 .. i - 1 : Replaces(f, s[j])
            /\ \A j \in i + 1 .. Len(s) : ~Replaces(s[j], f)

(* WriteInputFiles has connected to the database. *)
PickGrowing ==
    /\ at = "sorted"
    /\ at' = "next"
    /\ growing' = NewestOf(chosen)
    /\ UNCHANGED <<logger, table, chosen, batch, failed, since, behind, failures>>

(* Mutant: the last line of every file is held. *)
HeldAlways(f) == HoldsLastLine

Held(f) == HoldsLastLine /\ f = growing

Line(f, i, cut) == [file |-> f, line |-> i, cut |-> cut]

(* The rows an unterminated last line can give. *)
TailRows(f) ==
    LET n == files[f].n + 1 IN
    IF Held(f) \/ files[f].part = "none" THEN {{}}
    ELSE IF files[f].part = "cut" THEN {{}, {Line(f, n, TRUE)}}
    ELSE {{Line(f, n, FALSE)}}

(* ForEachTypedRow, to the end of the first file left.                     *)
ReadFile ==
    /\ at = "next" /\ chosen # <<>>
    /\ at' = "read"
    /\ LET f == Head(chosen) IN
       \E tail \in TailRows(f) :
           batch' = {Line(f, i, FALSE) : i \in 1 .. files[f].n} \cup tail
    /\ UNCHANGED <<logger, table, chosen, growing, failed, since, behind, failures>>

SameKey(r, q) == r.file = q.file /\ r.line = q.line

(* Mutant: a file that has rows in the table is taken as done. *)
UpsertOnce(rows) ==
    IF \E r \in rows, q \in table : q.file = r.file THEN table ELSE table \cup rows

(* INSERT ... ON CONFLICT *)
Upsert(rows) ==
    IF DoUpdate
    THEN rows \cup {q \in table : \A r \in rows : ~SameKey(r, q)}
    ELSE table \cup {r \in rows : \A q \in table : ~SameKey(r, q)}

NextFile ==
    /\ at' = "next"
    /\ chosen' = Tail(chosen)
    /\ batch' = {}
    /\ UNCHANGED <<logger, growing, since, behind>>

CommitFile ==
    /\ at = "read"
    /\ table' = Upsert(batch)
    /\ NextFile
    /\ UNCHANGED <<failed, failures>>

(* Its rows are rolled back; the loop goes on with the next file.          *)
FileFails ==
    /\ at = "read"
    /\ failures < MaxFailures
    /\ failures' = failures + 1
    /\ failed' = TRUE
    /\ NextFile
    /\ UNCHANGED table

EndRun ==
    /\ at' = "idle"
    /\ chosen' = <<>>
    /\ growing' = 0
    /\ batch' = {}
    /\ failed' = FALSE
    /\ UNCHANGED <<logger, table, since>>

RunEnds ==
    /\ at = "next" /\ chosen = <<>>
    /\ behind' = IF failed THEN behind ELSE since
    /\ EndRun
    /\ UNCHANGED failures

(* The process is killed. *)
Killed ==
    /\ at # "idle"
    /\ failures < MaxFailures
    /\ failures' = failures + 1
    /\ EndRun
    /\ UNCHANGED behind

-----------------------------------------------------------------------------
Logs == LogText \/ LogFile \/ Tick

Runs == Resolve \/ PickGrowing \/ ReadFile \/ CommitFile \/ RunEnds

Next == Logs \/ Runs \/ FileFails \/ Killed

Spec == Init /\ [][Next]_vars

(* The scheduler starts runs again and again; the logger may stop. *)
FairSpec == Spec /\ WF_vars(Runs)
=============================================================================
