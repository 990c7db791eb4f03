---------------------------- MODULE SharedTable -----------------------------
(***************************************************************************)
(* Several workers of writeFilesConcurrently (internal/timescaledb/        *)
(* writer.go) in writeSingleFile at the same time: a transaction per file  *)
(* on one table, then ExportInputMetrics of each file to one .prom file    *)
(* (internal/promtextfile/exporter.go).                                    *)
(*                                                                         *)
(* Simplifications.                                                        *)
(*  - A row is its primary key and the file it comes from; which worker    *)
(*    has the file does not matter, only how many there are (WorkerPool).  *)
(*  - A transaction writes its rows in file order, one at a time: an       *)
(*    INSERT of a batch locks its rows one by one.  RowBatch has the       *)
(*    batches.                                                             *)
(*  - PostgreSQL, READ COMMITTED: a row inserted or updated is locked      *)
(*    until the transaction ends, and who meets the lock waits; ON         *)
(*    CONFLICT DO NOTHING does not lock a committed row.                   *)
(***************************************************************************)
EXTENDS Integers, Sequences, FiniteSets

CONSTANTS NFiles,        \* len(files)
          Concurrency,   \* workers
          Keys,          \* primary keys
          KeysOf,        \* the keys of the rows of each file, in order
          DoUpdate,      \* on_conflict is do_update, not do_nothing
          PromEnabled,   \* input.PrometheusTextfile.Enabled
          NoRow,
          MaxFailures    \* bound: files that fail but for a deadlock

Files == 1 .. NFiles

ASSUME SharedTableAssumption ==
    /\ NFiles \in Nat
    /\ Concurrency \in Nat \ {0}
    /\ KeysOf \in [Files -> Seq(Keys)]
    /\ DoUpdate \in BOOLEAN
    /\ PromEnabled \in BOOLEAN
    /\ NoRow \notin 0 .. NFiles

VARIABLES
    at,        \* where writeSingleFile stands, for each file
    pos,       \* rows of the file written so far
    mine,      \* keys the file's open transaction has inserted or updated
    lock,      \* the file whose transaction has locked a key, or 0
    table,     \* whose row is committed for a key; 0 is an earlier run
    commits,   \* history: the files committed, in order
    temp,      \* the exporters' temporary files
    prom,      \* the .prom file
    failures   \* bound counter

transactions == <<pos, mine, lock, table, commits>>
export == <<temp, prom>>
vars == <<at, transactions, export, failures>>

Absent == [row |-> 0, whole |-> FALSE]

Init ==
    /\ at = [f \in Files |-> "queued"]
    /\ pos = [f \in Files |-> 0]
    /\ mine = [f \in Files |-> {}]
    /\ lock = [k \in Keys |-> 0]
    /\ table \in [Keys -> {NoRow, 0}]
    /\ commits = <<>>
    /\ temp = [f \in Files |-> Absent]
    /\ prom = Absent
    /\ failures = 0

Ended == {"queued", "done", "failed"}
Running == {f \in Files : at[f] \notin Ended}

(* A free worker takes the next file: os.Stat and BeginTx. *)
Begin(f) ==
    /\ at[f] = "queued"
    /\ \A g \in Files : g < f => at[g] # "queued"
    /\ Cardinality(Running) < Concurrency
    /\ at' = [at EXCEPT ![f] = "writing"]
    /\ UNCHANGED <<transactions, export, failures>>

-----------------------------------------------------------------------------
(* The transaction of a file.                                              *)

NextKey(f) == KeysOf[f][pos[f] + 1]

HasNext(f) == at[f] = "writing" /\ pos[f] < Len(KeysOf[f])

(* Another transaction has the row: this one waits for its end. *)
Blocked(f) == HasNext(f) /\ lock[NextKey(f)] \notin {0, f}

(* ON CONFLICT: whether the row is written. *)
Writes(f) ==
    DoUpdate \/ (table[NextKey(f)] = NoRow /\ NextKey(f) \notin mine[f])

WriteRow(f) ==
    /\ HasNext(f) /\ ~Blocked(f)
    /\ IF Writes(f)
       THEN /\ mine' = [mine EXCEPT ![f] = @ \cup {NextKey(f)}]
            /\ lock' = [lock EXCEPT ![NextKey(f)] = f]
       ELSE UNCHANGED <<mine, lock>>
    /\ pos' = [pos EXCEPT ![f] = @ + 1]
    /\ UNCHANGED <<at, table, commits, export, failures>>

(* The committed table with the writes of a transaction. *)
Applied(f) == [k \in Keys |-> IF k \in mine[f] THEN f ELSE table[k]]

Released(f) == [k \in Keys |-> IF lock[k] = f THEN 0 ELSE lock[k]]

(* latestRow # nil and the export enabled. *)
Exports(f) == PromEnabled /\ KeysOf[f] # <<>>

CommitTo(f, next) ==
    /\ at[f] = "writing" /\ pos[f] = Len(KeysOf[f])
    /\ table' = Applied(f)
    /\ lock' = Released(f)
    /\ mine' = [mine EXCEPT ![f] = {}]
    /\ commits' = Append(commits, f)
    /\ at' = [at EXCEPT ![f] = next]
    /\ UNCHANGED <<pos, export>>

Commit(f) ==
    /\ CommitTo(f, IF Exports(f) THEN "committed" ELSE "done")
    /\ UNCHANGED failures

(* Mutant: the commit is tried again, with the same rows. *)
CommitRetried(f) ==
    /\ failures < MaxFailures
    /\ failures' = failures + 1
    /\ CommitTo(f, "writing")

(* The answer to COMMIT is lost: the rows are in, the file has failed. *)
CommitUnheard(f) ==
    /\ failures < MaxFailures
    /\ failures' = failures + 1
    /\ CommitTo(f, "failed")

(* Mutant: the error path commits. *)
AfterError(f) == Applied(f)

(* defer tx.Rollback() *)
AfterRollback(f) == table

(* Mutant: no rollback, and the connection keeps the locks. *)
NotReleased(f) == lock

ReleasedByRollback(f) == Released(f)

Rollback(f) ==
    /\ at' = [at EXCEPT ![f] = "failed"]
    /\ table' = AfterRollback(f)
    /\ lock' = ReleasedByRollback(f)
    /\ mine' = [mine EXCEPT ![f] = {}]
    /\ UNCHANGED <<pos, commits, export>>

(* Transactions that wait for each other: PostgreSQL ends one of them. *)
Deadlocked(f) ==
    \E S \in SUBSET Files :
        /\ f \in S
        /\ \A g \in S : Blocked(g)
        /\ S = {lock[NextKey(g)] : g \in S}

EndDeadlock(f) ==
    /\ Deadlocked(f)
    /\ Rollback(f)
    /\ UNCHANGED failures

(* Any other error before the commit. *)
WriteFails(f) ==
    /\ at[f] = "writing"
    /\ failures < MaxFailures
    /\ failures' = failures + 1
    /\ Rollback(f)

-----------------------------------------------------------------------------
(* writeAtomically, after the commit.                                      *)

(* Mutant: one name for all. *)
FixedName(f) == 1

(* os.CreateTemp gives every file a name of its own. *)
TempName(f) == f

CreateTemp(f) ==
    /\ at[f] = "committed"
    /\ at' = [at EXCEPT ![f] = "filling"]
    /\ temp' = [temp EXCEPT ![TempName(f)] = [row |-> f, whole |-> FALSE]]
    /\ UNCHANGED <<transactions, prom, failures>>

FillTemp(f) ==
    /\ at[f] = "filling"
    /\ at' = [at EXCEPT ![f] = "filled"]
    /\ temp' = [temp EXCEPT ![TempName(f)] = [row |-> f, whole |-> TRUE]]
    /\ UNCHANGED <<transactions, prom, failures>>

(* os.Rename puts it in the place of the .prom file. *)
Publish(f) ==
    /\ at[f] = "filled"
    /\ at' = [at EXCEPT ![f] = "done"]
    /\ prom' = temp[TempName(f)]
    /\ temp' = [temp EXCEPT ![TempName(f)] = Absent]
    /\ UNCHANGED <<transactions, failures>>

(* A value that is not a metric, or an error of the file system: the file  *)
(* has failed with its rows committed.                                     *)
ExportFails(f) ==
    /\ at[f] \in {"committed", "filling", "filled"}
    /\ failures < MaxFailures
    /\ failures' = failures + 1
    /\ at' = [at EXCEPT ![f] = "failed"]
    /\ temp' = [temp EXCEPT ![TempName(f)] = Absent]
    /\ UNCHANGED <<transactions, prom>>

-----------------------------------------------------------------------------
Goes(f) ==
    \/ Begin(f)
    \/ WriteRow(f)
    \/ Commit(f)
    \/ EndDeadlock(f)
    \/ CreateTemp(f)
    \/ FillTemp(f)
    \/ Publish(f)

Fails(f) ==
    \/ CommitUnheard(f)
    \/ WriteFails(f)
    \/ ExportFails(f)

Next == \E f \in Files : Goes(f) \/ Fails(f)

Spec == Init /\ [][Next]_vars

(* Every worker goes on, and PostgreSQL looks for deadlocks. *)
FairSpec == Spec /\ \A f \in Files : WF_vars(Goes(f))
=============================================================================
