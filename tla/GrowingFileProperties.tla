----------------------- MODULE GrowingFileProperties -----------------------
(***************************************************************************)
(* What GrowingFile is expected to satisfy, and what the README says of    *)
(* growing_file.                                                           *)
(***************************************************************************)
EXTENDS GrowingFile

(* The values the state of a run may take. *)
TypeOK ==
    /\ dir \in [Paths -> 0..Len(files)]
    /\ files \in Seq(File)
    /\ clock \in Nat
    /\ state \in FileState \cup {NoState, Corrupt}
    /\ db \in SUBSET Row
    /\ prom \in Row \cup {NoRow}
    /\ pc \in {"idle", "load", "plan", "open", "read", "commit", "export",
               "stat", "truncate", "save"}
    /\ path \in Paths
    /\ loaded \in FileState \cup {NoState}
    /\ gen \in Nat
    /\ off \in Nat
    /\ line \in Nat
    /\ tx \in SUBSET Row
    /\ cks \in Seq(Checkpoint)
    /\ last \in Row \cup {NoRow}
    /\ pending \in FileState \cup {NoState}
    /\ misplaced \in SUBSET (1..Len(files))
    /\ failures \in Nat

-----------------------------------------------------------------------------
(* Safety. *)

(* Every row of the first n lines of file g is in the table. *)
StoredUpTo(table, fs, g, n) ==
    \A i \in DataLines(fs[g].lines) : i <= n => Holds(table, g, i)

(* Checkpoint c can be resumed from: it gives the offset and the number of *)
(* one line, and every row up to that line is in the table.                *)
Resumable(fs, bad, table, c) ==
    c.gen \notin bad =>
        /\ c.gen \in 1..Len(fs)
        /\ c.line \in 0..Len(fs[c.gen].lines)
        /\ c.next = EndOf(fs[c.gen].lines, c.line)
        /\ StoredUpTo(table, fs, c.gen, c.line)

(* Every checkpoint of the saved state can be resumed from: what precedes  *)
(* it has been committed and its line number is the true one, wherever     *)
(* earlier runs failed or were killed (writer.go:338-344, 360-388; "retoma *)
(* desde el ultimo offset confirmado despues de commit", README.md:117).   *)
CheckpointsCommitted ==
    \A k \in 1..Len(Checkpoints(state)) :
        Resumable(files, misplaced, db, Checkpoints(state)[k])

(* The line a stored row came from was complete when it was read and was   *)
(* read whole, and source_line_number is its number in the file, also for  *)
(* the rows a resumed run inserts or rewrites (typed_reader.go:316-357).   *)
StoredRowsAreTrue ==
    \A r \in db : r.gen \notin misplaced =>
        r.whole /\ r.idx \in DataLines(files[r.gen].lines) /\ r.num = r.idx

(* The .prom file shows a row that has been committed: export follows      *)
(* tx.Commit, and no later rollback can take the row away (writer.go:360). *)
PromIsStored ==
    prom # NoRow => \E r \in db : Key(r) = Key(prom)

(* A save never moves the resume point of a file back (state.go:73-89,     *)
(* writer.go:383-387), although every run starts before the last one.      *)
SaveAdvances ==
    (/\ pc \in {"truncate", "save"}
     /\ loaded # NoState
     /\ loaded.cks # <<>>)
    => /\ pending.cks # <<>>
       /\ LET old == loaded.cks[Len(loaded.cks)]
              new == pending.cks[Len(pending.cks)]
          IN new.gen >= old.gen /\ (new.gen = old.gen => new.next >= old.next)

(* The .prom file never goes back to an earlier row, although every run    *)
(* reads again rows that earlier runs exported (writer.go:345, 364).       *)
PromNeverGoesBack ==
    [][prom # NoRow =>
         \/ prom'.gen > prom.gen
         \/ prom'.gen = prom.gen /\ prom'.idx >= prom.idx]_prom

(* The collector implements LoggedRows: rows are stored in file order,     *)
(* without a gap, and never removed, over all runs, crashes and replays.   *)
Logged ==
    [g \in 1..Len(files) |->
        [i \in 1..Len(files[g].lines) |-> files[g].lines[i].kind]]

WholeRows(table) ==
    {[gen |-> r.gen, idx |-> r.idx] : r \in {q \in table : q.whole}}

Abstract == INSTANCE LoggedRows
                WITH logged <- Logged, stored <- WholeRows(db),
                     excused <- misplaced

ImplementsLoggedRows == Abstract!Spec

-----------------------------------------------------------------------------
(* Liveness, under the fairness of OverlappingRuns. *)

(* The state describes the newest file as it is, which will be skipped as  *)
(* unchanged, yet the run that saved it had not read the file to its end:  *)
(* its second os.Stat saw lines completed after it stopped reading.        *)
CoversUnread ==
    /\ state # Corrupt
    /\ Same(state, files[Newest].path, Size(Newest), files[Newest].mtime)
    /\ \/ state.read.gen # Newest
       \/ state.read.next < LinesEnd(files[Newest].lines)

(* Once the logger is quiet, the rows of the newest file are and stay      *)
(* stored.  There are three ways out, each a loss the code allows: the     *)
(* state file is unreadable, it covers a line no run read before saving    *)
(* it (writer.go:371), or the file was read from another one's checkpoint. *)
(* A state saved after reading to the end is none of them: it skips the    *)
(* file, so the rows must be stored already.                               *)
CatchesUp ==
    <>[](\/ StoredUpTo(db, files, Newest, Len(files[Newest].lines))
         \/ state = Corrupt
         \/ CoversUnread
         \/ Newest \in misplaced)

-----------------------------------------------------------------------------
(* What the README says and the code does not do. *)

(* README.md:119-122: an unchanged file is not read again, and a line held *)
(* back is taken in a later run.  So a file skipped as unchanged has all   *)
(* its rows in the table.                                                  *)
SkippedFileIsStored ==
    [][SkipUnchanged /\ dir[path] \notin misplaced
        => StoredUpTo(db, files, dir[path], Len(files[dir[path]].lines))]_vars

(* README.md:120: "si el archivo ... cambia de nombre, reinicia desde el   *)
(* comienzo".                                                              *)
NewNameRestarts ==
    pc = "open" /\ off > 0 => files[gen].path = path
=============================================================================
