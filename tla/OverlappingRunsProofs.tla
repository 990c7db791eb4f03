----------------------- MODULE OverlappingRunsProofs -----------------------
(***************************************************************************)
(* Proofs about OverlappingRuns: two runs of one input at the same time,   *)
(* with no lock between them, still save only what can be resumed from,    *)
(* store only true rows and implement LoggedRows, for every number of      *)
(* overlaps, files, lines and failures.                                    *)
(*                                                                         *)
(* The invariants of GrowingFileProofs hold of the first run, and the same *)
(* of the second.  A run keeps its own by the lemmas about one run; what   *)
(* it does to the state file, the table, the .prom file and the misplaced  *)
(* files keeps those of the other one, because they only ever grow.        *)
(***************************************************************************)
EXTENDS OverlappingRuns, GrowingFileProofs

-----------------------------------------------------------------------------
(* What both runs share. *)

SharedInv ==
    /\ state \in FileState \cup {NoState, Corrupt}
    /\ db \in SUBSET Row
    /\ prom \in Row \cup {NoRow}
    /\ misplaced \in SUBSET (1..Len(files))
    /\ failures \in Nat
    /\ state \notin {NoState, Corrupt} => AllResumable(db, state.cks)
    /\ \A r \in db : TrueRow(files, misplaced, r)
    /\ prom # NoRow => IsKept(db, prom)

(* What no step ever takes back. *)
SharedGrows ==
    /\ Extends(files, files')
    /\ misplaced \subseteq misplaced'
    /\ \A g, i : Holds(db, g, i) => Holds(db', g, i)
    /\ \A r : IsKept(db, r) => IsKept(db', r)

(* The invariants of one run, in terms of the first. *)
FirstInv == TypeInv /\ FilesInOrder /\ ResumeInv /\ RowsInv

LEMMA FirstShares == FirstInv => SharedInv
  BY DEF FirstInv, SharedInv, TypeInv, TypeOK, ResumeInv, RowsInv

(* What can be resumed from, and what a row is, stays so.                  *)
LEMMA Grown ==
    ASSUME files \in Seq(File), files' \in Seq(File), SharedGrows
    PROVE  /\ \A c : Resumable(files, misplaced, db, c)
                        => Resumable(files', misplaced', db', c)
           /\ \A t, c : Resumable(files, misplaced, db \cup t, c)
                        => Resumable(files', misplaced', db' \cup t, c)
           /\ \A r : TrueRow(files, misplaced, r)
                        => TrueRow(files', misplaced', r)
<1>1. Extends(files, files') /\ misplaced \subseteq misplaced'
  BY DEF SharedGrows
<1>2. ASSUME NEW t, NEW u, \A g, i : Holds(t, g, i) => Holds(u, g, i),
             NEW c, Resumable(files, misplaced, t, c)
      PROVE  Resumable(files', misplaced', u, c)
  BY <1>1, <1>2, ResumableStays
<1>3. \A g, i : Holds(db, g, i) => Holds(db', g, i)
  BY DEF SharedGrows
<1>4. \A t, g, i : Holds(db \cup t, g, i) => Holds(db' \cup t, g, i)
  <2>. SUFFICES ASSUME NEW t, NEW g, NEW i, Holds(db \cup t, g, i)
                PROVE  Holds(db' \cup t, g, i)
    OBVIOUS
  <2>1. Holds(db, g, i) \/ Holds(t, g, i)
    BY DEF Holds
  <2>. QED
    BY <1>3, <2>1, HoldsUnion
<1>. QED
  BY <1>1, <1>2, <1>3, <1>4, TrueRowStays

(* A step that writes no file and nothing of the first run, and keeps what *)
(* is shared, keeps the invariants of the first run.                       *)
LEMMA FirstUndisturbed ==
    ASSUME FirstInv, UNCHANGED <<logger, pc, locals>>, SharedGrows, SharedInv'
    PROVE  FirstInv'
<1>1. /\ files \in Seq(File) /\ files' = files
      /\ UNCHANGED <<dir, files, clock, pc, path, loaded, gen, off, line, tx,
                     cks, last, pending>>
  BY DEF FirstInv, TypeInv, TypeOK, logger, locals
<1>2. /\ \A c : Resumable(files, misplaced, db, c)
                   => Resumable(files, misplaced', db', c)
      /\ \A t, c : Resumable(files, misplaced, db \cup t, c)
                   => Resumable(files, misplaced', db' \cup t, c)
      /\ \A r : TrueRow(files, misplaced, r) => TrueRow(files, misplaced', r)
  BY <1>1, Grown
<1>3. misplaced \subseteq misplaced'
  BY DEF SharedGrows
<1>4. TypeInv'
  BY <1>1 DEF FirstInv, TypeInv, TypeOK, FilesHaveHeads, RunHasFile, SharedInv
<1>5. FilesInOrder'
  BY <1>1 DEF FirstInv, FilesInOrder
<1>6. ResumeInv'
  BY <1>1, <1>2 DEF FirstInv, ResumeInv, AllResumable, SharedInv, Position
<1>7. RowsInv'
  <2>1. \A r : IsKept(db, r) => IsKept(db', r)
    BY DEF SharedGrows
  <2>. QED
    BY <1>1, <1>2, <1>3, <2>1 DEF FirstInv, RowsInv, SharedInv
<1>. QED
  BY <1>4, <1>5, <1>6, <1>7 DEF FirstInv

(* Two saves at once may leave a state file no run can load.               *)
LEMMA FirstEndsCorrupt ==
    ASSUME FirstInv, SaveOverLonger, EndRun
    PROVE  FirstInv' /\ UNCHANGED logger
<1>1. /\ UNCHANGED <<dir, files, clock, db, prom, misplaced, failures, path>>
      /\ state' = Corrupt
  BY DEF SaveOverLonger, EndRun, logger
<1>2. TypeInv'
  BY <1>1 DEF FirstInv, TypeInv, TypeOK, FilesHaveHeads, RunHasFile, InRun,
              EndRun
<1>3. FilesInOrder'
  BY <1>1 DEF FirstInv, FilesInOrder
<1>4. ResumeInv'
  BY <1>1 DEF FirstInv, ResumeInv, AllResumable, EndRun
<1>5. RowsInv'
  BY <1>1 DEF FirstInv, RowsInv, EndRun
<1>. QED
  BY <1>1, <1>2, <1>3, <1>4, <1>5 DEF FirstInv, logger

(* A commit takes nothing back.                                            *)
LEMMA CommitGrows ==
    ASSUME NEW t, NEW u
    PROVE  /\ \A g, i : Holds(t, g, i) => Holds(Upsert(t, u), g, i)
           /\ \A r : IsKept(t, r) => IsKept(Upsert(t, u), r)
<1>1. \A g, i : Holds(t, g, i) => Holds(Upsert(t, u), g, i)
  BY UpsertHolds, HoldsUnion
<1>2. \A q \in t \cup u : \E s \in Upsert(t, u) : Key(s) = Key(q)
  BY UpsertKeeps
<1>. QED
  BY <1>1, <1>2 DEF IsKept

(* A step of the first run takes nothing back of what is shared.           *)
LEMMA FirstGrows ==
    ASSUME FirstInv, Runs \/ RunFails \/ (SaveOverLonger /\ EndRun)
    PROVE  UNCHANGED logger /\ SharedGrows
<1>1. Extends(files, files)
  BY FileFields DEF FirstInv, TypeInv, TypeOK, Extends
<1>2. CASE CommitTx
  <2>1. UNCHANGED <<logger, files, misplaced>> /\ db' = Upsert(db, tx)
    BY <1>2 DEF CommitTx, Committed, logger
  <2>2. /\ \A g, i : Holds(db, g, i) => Holds(db', g, i)
        /\ \A r : IsKept(db, r) => IsKept(db', r)
    BY <2>1, CommitGrows
  <2>. QED
    BY <1>1, <2>1, <2>2 DEF SharedGrows
<1>3. CASE ~ CommitTx
  <2>1. UNCHANGED <<logger, files, db>> /\ misplaced \subseteq misplaced'
    BY <1>3 DEF Runs, Reads, StartRun, LoadState, LoadFails, SkipUnchanged,
       Plan, OpenFile, ReadRow, SkipLine, EndOfFile, ExportMetrics,
       ExportFails, StatAgain, TruncateState, SaveState, RunFails,
       SaveOverLonger, logger
  <2>. QED
    BY <1>1, <2>1 DEF SharedGrows
<1>. QED
  BY <1>2, <1>3

LEMMA FirstSteps ==
    ASSUME FirstInv, Runs \/ RunFails \/ (SaveOverLonger /\ EndRun)
    PROVE  FirstInv'
<1>1. CASE Runs \/ RunFails
  <2>1. TypeInv'
    BY <1>1, RunsTyped DEF FirstInv
  <2>2. FilesInOrder'
    BY FirstGrows DEF FirstInv, FilesInOrder, logger
  <2>3. ResumeInv'
    BY <1>1, RunsKeepResume DEF FirstInv
  <2>4. RowsInv'
    BY <1>1, RunsKeepRows DEF FirstInv
  <2>. QED
    BY <2>1, <2>2, <2>3, <2>4 DEF FirstInv
<1>2. CASE SaveOverLonger /\ EndRun
  BY <1>2, FirstEndsCorrupt
<1>. QED
  BY <1>1, <1>2

LEMMA LogsKeepFirst ==
    ASSUME FirstInv, Logs
    PROVE  FirstInv' /\ SharedGrows
<1>1. TypeInv'
  BY LogsTyped DEF FirstInv
<1>2. Extends(files, files') /\ FilesInOrder' /\ LogUnchanged
  BY <1>1, LogsExtend DEF FirstInv
<1>3. ResumeInv' /\ RowsInv'
  BY <1>1, LogsKeepResume, LogsKeepRows DEF FirstInv
<1>. QED
  BY <1>1, <1>2, <1>3 DEF FirstInv, SharedGrows, LogUnchanged

-----------------------------------------------------------------------------
(* The second run: its types, its checkpoints and its rows.                *)

At2 == At(line2, off2, gen2)

SecondTyped ==
    /\ pc2 \in {"idle", "load", "plan", "open", "read", "commit", "export",
                "stat", "truncate", "save"}
    /\ path2 \in Paths
    /\ dir[path2] \in 1..Len(files)
    /\ loaded2 \in FileState \cup {NoState}
    /\ gen2 \in Nat
    /\ off2 \in Nat
    /\ line2 \in Nat
    /\ tx2 \in SUBSET Row
    /\ cks2 \in Seq(Checkpoint)
    /\ last2 \in Row \cup {NoRow}
    /\ pending2 \in FileState \cup {NoState}
    /\ pc2 \in InRun => gen2 \in 1..Len(files)
    /\ pc2 \in {"truncate", "save"} => pending2 \in FileState

SecondResumes ==
    /\ loaded2 # NoState => AllResumable(db, loaded2.cks)
    /\ pending2 # NoState => AllResumable(db, pending2.cks)
    /\ AllResumable(db \cup tx2, cks2)
    /\ pc2 = "open" => \/ off2 = 0 /\ line2 = 0
                       \/ off2 > 0 /\ Resumable(files, misplaced, db, At2)
    /\ pc2 \in {"read", "commit"} =>
          Resumable(files, misplaced, db \cup tx2, At2)
    /\ pc2 \notin {"read", "commit"} => tx2 = {}

SecondRows ==
    /\ \A r \in tx2 : /\ TrueRow(files, misplaced, r)
                      /\ r.gen = gen2
                      /\ gen2 \notin misplaced => r.idx <= line2
    /\ pc2 \in {"idle", "load", "plan", "open"} => last2 = NoRow
    /\ pc2 \in {"read", "commit"} /\ last2 # NoRow => last2 \in tx2
    /\ pc2 = "export" /\ last2 # NoRow => IsKept(db, last2)

SecondInv == SecondTyped /\ SecondResumes /\ SecondRows

OverlapInv == FirstInv /\ SecondInv

LEMMA SecondUndisturbed ==
    ASSUME SecondInv, UNCHANGED second, SharedGrows,
           files \in Seq(File), files' \in Seq(File),
           \A p \in Paths : dir[p] \in 1..Len(files)
                               => dir'[p] \in 1..Len(files')
    PROVE  SecondInv'
<1>1. /\ UNCHANGED <<pc2, path2, loaded2, gen2, off2, line2, tx2, cks2, last2,
                     pending2>>
      /\ Len(files) \in Nat /\ Len(files') \in Nat /\ Len(files) <= Len(files')
      /\ misplaced \subseteq misplaced'
  BY DEF second, locals2, SharedGrows, Extends
<1>2. /\ \A c : Resumable(files, misplaced, db, c)
                   => Resumable(files', misplaced', db', c)
      /\ \A c : Resumable(files, misplaced, db \cup tx2, c)
                   => Resumable(files', misplaced', db' \cup tx2, c)
      /\ \A r : TrueRow(files, misplaced, r) => TrueRow(files', misplaced', r)
  BY Grown
<1>3. SecondTyped'
  BY <1>1 DEF SecondInv, SecondTyped
<1>4. SecondResumes'
  BY <1>1, <1>2 DEF SecondInv, SecondResumes, AllResumable, At2, At
<1>5. SecondRows'
  <2>1. \A r : IsKept(db, r) => IsKept(db', r)
    BY DEF SharedGrows
  <2>. QED
    BY <1>1, <1>2, <2>1 DEF SecondInv, SecondRows
<1>. QED
  BY <1>3, <1>4, <1>5 DEF SecondInv

-----------------------------------------------------------------------------
(* The steps of the second run.  Its helpers are those of the first.       *)

SecondStep ==
    \/ Second!Runs
    \/ Second!RunFails
    \/ pc2 = "save" /\ SaveOverLonger /\ Second!EndRun

LEMMA SecondHelpers ==
    /\ \A t, u : Second!Upsert(t, u) = Upsert(t, u)
    /\ \A s : Second!TrimCheckpoints(s) = TrimCheckpoints(s)
    /\ \A s, p, n : Second!ResumePoint(s, p, n) = ResumePoint(s, p, n)
    /\ \A ls, i : Second!EndOf(ls, i) = EndOf(ls, i)
    /\ \A g : Second!Size(g) = Size(g)
    /\ Second!DataKinds = DataKinds
    /\ Second!Newest = Newest
<1>1. \A t, u : Second!Upsert(t, u) = Upsert(t, u)
  BY DEF Second!Upsert, Upsert, Second!Key, Key
<1>2. \A s : Second!TrimCheckpoints(s) = TrimCheckpoints(s)
  BY DEF Second!TrimCheckpoints, TrimCheckpoints
<1>3. \A s, p, n : Second!ResumePoint(s, p, n) = ResumePoint(s, p, n)
  BY DEF Second!ResumePoint, ResumePoint, Second!FromStart, FromStart,
         Second!ReplayFrom, ReplayFrom
<1>4. /\ \A ls, i : Second!EndOf(ls, i) = EndOf(ls, i)
      /\ \A g : Second!Size(g) = Size(g)
  BY DEF Second!EndOf, EndOf, Second!Size, Size, Second!LinesEnd, LinesEnd
<1>5. /\ Second!DataKinds = DataKinds
      /\ Second!Newest = Newest
  BY DEF Second!DataKinds, DataKinds, Second!Newest, Newest
<1>. QED
  BY <1>1, <1>2, <1>3, <1>4, <1>5

(* The end of a run, and every step of the second one that ends it.        *)
LEMMA SecondEnds ==
    ASSUME SecondInv, Second!EndRun, UNCHANGED <<logger, db, misplaced>>
    PROVE  SecondInv'
<1>1. /\ pc2' = "idle" /\ path2' = path2 /\ loaded2' = NoState /\ gen2' = 0
      /\ off2' = 0 /\ line2' = 0 /\ tx2' = {} /\ cks2' = <<>>
      /\ last2' = NoRow /\ pending2' = NoState
      /\ UNCHANGED <<dir, files, db, misplaced>>
  BY DEF Second!EndRun, logger
<1>2. SecondTyped'
  BY <1>1 DEF SecondInv, SecondTyped, InRun
<1>3. SecondResumes'
  BY <1>1 DEF SecondResumes, AllResumable
<1>4. SecondRows'
  BY <1>1 DEF SecondRows
<1>. QED
  BY <1>2, <1>3, <1>4 DEF SecondInv

(* The plan of the second run and where it opens the file.                 *)
LEMMA SecondPlans ==
    ASSUME FirstInv, SecondInv, Second!Plan
    PROVE  SecondInv'
<1>. DEFINE from == ResumePoint(loaded2, path2, Size(dir[path2]))
<1>1. /\ line2' = from.line /\ off2' = from.next /\ gen2' = from.gen
      /\ pc2 = "plan" /\ pc2' = "open" /\ tx2 = {}
      /\ UNCHANGED <<dir, files, misplaced, db, path2, loaded2, pending2, tx2,
                     cks2, last2>>
  BY SecondHelpers DEF Second!Plan, Second!logger, logger, SecondInv,
     SecondResumes
<1>2. /\ from.line \in Nat /\ from.next \in Nat /\ from.gen \in Nat
      /\ \/ from.next = 0 /\ from.line = 0
         \/ /\ from.next > 0
            /\ Resumable(files, misplaced, db,
                 [line |-> from.line, next |-> from.next, gen |-> from.gen])
  BY PlanResumes DEF SecondInv, SecondTyped, SecondResumes
<1>. HIDE DEF from
<1>3. SecondTyped'
  BY <1>1, <1>2 DEF SecondInv, SecondTyped, InRun
<1>4. SecondResumes'
  BY <1>1, <1>2 DEF SecondInv, SecondResumes, AllResumable, At2, At
<1>5. SecondRows'
  BY <1>1 DEF SecondInv, SecondRows
<1>. QED
  BY <1>3, <1>4, <1>5 DEF SecondInv

LEMMA SecondOpens ==
    ASSUME FirstInv, SecondInv, Second!OpenFile
    PROVE  /\ SecondInv' /\ SharedGrows
           /\ UNCHANGED <<logger, state, db, prom, failures>>
           /\ \/ misplaced' = misplaced
              \/ misplaced' = misplaced \cup {dir[path2]}
           /\ dir[path2] \in 1..Len(files)
<1>1. /\ UNCHANGED <<logger, state, db, prom, path2, loaded2, tx2, cks2, last2,
                     pending2, failures>>
      /\ UNCHANGED <<dir, files>>
      /\ pc2 = "open" /\ pc2' = "read" /\ tx2 = {} /\ gen2' = dir[path2]
      /\ misplaced' = IF off2 > 0 /\ gen2 # dir[path2]
                      THEN misplaced \cup {dir[path2]} ELSE misplaced
      /\ line2' = line2 + (IF off2 = 0 THEN HeadLines ELSE 0)
      /\ off2' = IF off2 = 0 THEN EndOf(files[dir[path2]].lines, HeadLines)
                             ELSE off2
  BY SecondHelpers DEF Second!OpenFile, Second!Passed, Second!logger, logger,
     SecondInv, SecondResumes
<1>2. /\ dir[path2] \in 1..Len(files) /\ line2 \in Nat /\ off2 \in Nat
      /\ \/ off2 = 0 /\ line2 = 0
         \/ off2 > 0 /\ Resumable(files, misplaced, db,
                           [line |-> line2, next |-> off2, gen |-> gen2])
  BY <1>1 DEF SecondInv, SecondTyped, SecondResumes, At2, At
<1>3. /\ line2' \in Nat /\ off2' \in Nat
      /\ Resumable(files, misplaced', db,
            [line |-> line2', next |-> off2', gen |-> dir[path2]])
  BY <1>1, <1>2, OpenedAt DEF FirstInv
<1>4. SharedGrows
  BY <1>1, FileFields DEF SharedGrows, Extends, FirstInv, TypeInv, TypeOK
<1>5. /\ \A c : Resumable(files, misplaced, db, c)
                   => Resumable(files, misplaced', db, c)
      /\ \A c : Resumable(files, misplaced, db \cup tx2, c)
                   => Resumable(files, misplaced', db \cup tx2, c)
  BY <1>1, <1>4, Grown DEF FirstInv, TypeInv, TypeOK
<1>6. SecondTyped'
  BY <1>1, <1>2, <1>3 DEF SecondInv, SecondTyped, InRun
<1>7. SecondResumes'
  BY <1>1, <1>3, <1>5 DEF SecondInv, SecondResumes, AllResumable, At2, At
<1>8. SecondRows'
  BY <1>1 DEF SecondInv, SecondRows
<1>. QED
  BY <1>1, <1>2, <1>4, <1>6, <1>7, <1>8 DEF SecondInv

(* The second run reads a line.                                            *)
LEMMA SecondReads ==
    ASSUME FirstInv, SecondInv, pc2 = "read",
           NEW i \in 1..Len(files[gen2].lines),
           Second!ReadRow(i) \/ Second!SkipLine(i)
    PROVE  SecondInv' /\ UNCHANGED <<logger, state, db, prom, misplaced, failures>>
<1>. DEFINE ln == files[gen2].lines[i]
            whole == off2 = EndOf(files[gen2].lines, i - 1)
            row == [gen |-> gen2, idx |-> i, num |-> line2 + 1, whole |-> whole]
            c == At(line2 + 1, ln.end, gen2)
<1>1. /\ UNCHANGED <<logger, state, db, prom, misplaced, failures>>
      /\ UNCHANGED <<dir, files, pc2, path2, loaded2, gen2, pending2>>
      /\ line2' = line2 + 1 /\ off2' = ln.end
      /\ EndOf(files[gen2].lines, i - 1) <= off2 /\ off2 < ln.end
  BY SecondHelpers
     DEF Second!ReadRow, Second!SkipLine, Second!Advance, Second!IsNextLine,
         Second!logger, logger
<1>2. /\ gen2 \in 1..Len(files) /\ line2 \in Nat /\ off2 \in Nat
      /\ files[gen2].lines \in Seq(Line)
      /\ ln \in Line /\ ln.end \in Nat \ {0}
  <2>1. gen2 \in 1..Len(files) /\ line2 \in Nat /\ off2 \in Nat
    BY DEF SecondInv, SecondTyped, InRun
  <2>2. files[gen2].lines \in Seq(Line)
    BY <2>1, FileFields DEF FirstInv, TypeInv, TypeOK
  <2>3. \A x \in Line : x.end \in Nat \ {0}
    BY DEF Line
  <2>. QED
    BY <2>1, <2>2, <2>3
<1>3. \/ /\ ln.kind \in DataKinds
         /\ tx2' = tx2 \cup {row} /\ last2' = row
         /\ cks2' = TrimCheckpoints(Append(cks2, c))
      \/ /\ ln.kind \notin DataKinds \/ ~ whole
         /\ UNCHANGED <<tx2, last2, cks2>>
  BY SecondHelpers
     DEF Second!ReadRow, Second!SkipLine, Second!LatestRow, Second!IsWhole, At
<1>4. /\ row.gen = gen2 /\ row.idx = i /\ row.num = line2 + 1
      /\ row.whole = whole /\ row \in Row
  BY <1>2 DEF Row
<1>5. c \in Checkpoint
  BY <1>2 DEF At, Checkpoint
<1>. HIDE DEF c, row
<1>6. /\ tx2 \subseteq tx2'
      /\ ln.kind \in DataKinds /\ whole => Holds(tx2', gen2, i)
  BY <1>3, <1>4 DEF Holds
<1>7. /\ Resumable(files, misplaced, db \cup tx2', c)
      /\ gen2 \notin misplaced => i = line2 + 1 /\ whole
  <2>1. /\ Resumable(files, misplaced, db \cup tx2, At(line2, off2, gen2))
        /\ TypeInv /\ FilesInOrder
    BY DEF SecondInv, SecondResumes, At2, FirstInv
  <2>2. (/\ files[gen2].lines[i].kind \in DataKinds
         /\ off2 = EndOf(files[gen2].lines, i - 1)) => Holds(tx2', gen2, i)
    BY <1>6
  <2>. QED
    BY <1>1, <1>2, <1>6, <2>1, <2>2, LineRead DEF c
<1>8. /\ cks2' \in Seq(Checkpoint)
      /\ AllResumable(db \cup tx2', cks2')
  <2>1. cks2 \in Seq(Checkpoint) /\ AllResumable(db \cup tx2, cks2) /\ TypeInv
    BY DEF SecondInv, SecondTyped, SecondResumes, FirstInv
  <2>2. CASE UNCHANGED <<tx2, last2, cks2>>
    BY <2>1, <2>2, <1>1 DEF AllResumable
  <2>3. CASE cks2' = TrimCheckpoints(Append(cks2, c))
    BY <1>5, <1>6, <1>7, <2>1, <2>3, CheckpointTaken
  <2>. QED
    BY <1>3, <2>2, <2>3
<1>9. TrueRow(files, misplaced, row) \/ ln.kind \notin DataKinds
  BY <1>2, <1>4, <1>7 DEF TrueRow, DataLines
<1>10. SecondTyped'
  BY <1>1, <1>2, <1>3, <1>4, <1>8 DEF SecondInv, SecondTyped
<1>11. SecondResumes'
  <2>1. (At2)' = c
    BY <1>1 DEF At2, At, c
  <2>. QED
    BY <1>1, <1>7, <1>8, <2>1 DEF SecondInv, SecondResumes, AllResumable
<1>12. SecondRows'
  <2>1. \A r \in tx2 : gen2 \notin misplaced => r.idx <= line2 + 1
    <3>1. \A r \in tx2 : r.idx \in Nat
      BY DEF SecondInv, SecondTyped, Row
    <3>. QED
      BY <1>2, <3>1 DEF SecondInv, SecondRows
  <2>2. \A r \in tx2' : /\ TrueRow(files, misplaced, r)
                        /\ r.gen = gen2
                        /\ gen2 \notin misplaced => r.idx <= line2 + 1
    BY <1>2, <1>3, <1>4, <1>7, <1>9, <2>1 DEF SecondInv, SecondRows
  <2>. QED
    BY <1>1, <1>3, <1>6, <2>2 DEF SecondInv, SecondRows
<1>. QED
  BY <1>1, <1>10, <1>11, <1>12 DEF SecondInv

(* The second run starts, loads the state, ends its file, exports and      *)
(* truncates the state file.                                               *)
LEMMA SecondMovesOn ==
    ASSUME FirstInv, SecondInv,
           \/ Second!StartRun
           \/ Second!LoadState
           \/ Second!EndOfFile
           \/ Second!ExportMetrics
           \/ Second!TruncateState
    PROVE  SecondInv'
<1>1. UNCHANGED <<dir, files, db, misplaced, gen2, off2, line2, tx2, cks2,
                  last2, pending2>>
  BY DEF Second!StartRun, Second!LoadState, Second!EndOfFile,
     Second!ExportMetrics, Second!TruncateState, Second!logger, Second!locals
<1>2. \/ /\ pc2 = "idle" /\ pc2' = "load" /\ loaded2' = loaded2
         /\ path2' = files[Newest].path
      \/ /\ pc2 = "load" /\ pc2' = "plan" /\ path2' = path2
         /\ loaded2' = state /\ state # Corrupt
      \/ /\ UNCHANGED <<path2, loaded2>>
         /\ <<pc2, pc2'>> \in {<<"read", "commit">>, <<"export", "stat">>,
                               <<"truncate", "save">>}
  BY SecondHelpers
     DEF Second!StartRun, Second!LoadState, Second!EndOfFile,
         Second!ExportMetrics, Second!TruncateState, Second!Resolved,
         Second!Readable, Second!AfterLastLine, Second!locals
<1>3. /\ files[Newest].path \in Paths
      /\ dir[files[Newest].path] \in 1..Len(files)
      /\ state \in FileState \cup {NoState, Corrupt}
      /\ state \notin {NoState, Corrupt} => AllResumable(db, state.cks)
  <2>1. Newest \in 1..Len(files)
    BY DEF Newest, FirstInv, TypeInv, TypeOK
  <2>. QED
    BY <2>1, FileFields
       DEF FirstInv, TypeInv, TypeOK, FilesHaveHeads, ResumeInv
<1>4. SecondTyped'
  BY <1>1, <1>2, <1>3 DEF SecondInv, SecondTyped, InRun
<1>5. SecondResumes'
  BY <1>1, <1>2, <1>3 DEF SecondInv, SecondResumes, AllResumable, At2, At
<1>6. SecondRows'
  BY <1>1, <1>2 DEF SecondInv, SecondRows
<1>. QED
  BY <1>4, <1>5, <1>6 DEF SecondInv

(* The second run commits its rows.                                        *)
LEMMA SecondCommits ==
    ASSUME FirstInv, SecondInv, Second!CommitTx
    PROVE  /\ SecondInv' /\ SharedGrows
           /\ UNCHANGED <<logger, state, prom, misplaced, failures>>
           /\ db' = Upsert(db, tx2)
<1>1. /\ UNCHANGED <<logger, state, prom, misplaced, failures>>
      /\ UNCHANGED <<dir, files, path2, loaded2, gen2, off2, line2, cks2, last2,
                     pending2>>
      /\ pc2 = "commit" /\ pc2' = "export" /\ tx2' = {}
      /\ db' = Upsert(db, tx2)
  BY SecondHelpers
     DEF Second!CommitTx, Second!Committed, Second!logger, logger
<1>2. SharedGrows
  BY <1>1, CommitGrows, FileFields
     DEF SharedGrows, Extends, FirstInv, TypeInv, TypeOK
<1>3. /\ \A c : Resumable(files, misplaced, db, c)
                   => Resumable(files, misplaced, db', c)
      /\ \A c : Resumable(files, misplaced, db \cup tx2, c)
                   => Resumable(files, misplaced, db', c)
  <2>1. files \in Seq(File) /\ Extends(files, files)
    BY <1>1, <1>2 DEF SharedGrows, FirstInv, TypeInv, TypeOK
  <2>2. /\ \A g, i : Holds(db \cup tx2, g, i) => Holds(db', g, i)
        /\ \A g, i : Holds(db, g, i) => Holds(db', g, i)
    BY <1>1, UpsertHolds, HoldsUnion
  <2>. QED
    BY <2>1, <2>2, ResumableStays
<1>4. SecondTyped'
  BY <1>1 DEF SecondInv, SecondTyped, InRun
<1>5. SecondResumes'
  <2>1. db' \cup tx2' = db'
    BY <1>1
  <2>. QED
    BY <1>1, <1>3, <2>1 DEF SecondInv, SecondResumes, AllResumable
<1>6. SecondRows'
  <2>1. \A r \in db \cup tx2 : IsKept(db', r)
    <3>1. \A r \in db \cup tx2 : \E q \in Upsert(db, tx2) : Key(q) = Key(r)
      BY UpsertKeeps
    <3>. QED
      BY <1>1, <3>1 DEF IsKept
  <2>. QED
    BY <1>1, <2>1 DEF SecondInv, SecondRows
<1>. QED
  BY <1>1, <1>2, <1>4, <1>5, <1>6 DEF SecondInv

(* The second run stats the file again and sets what it will save.         *)
LEMMA SecondStats ==
    ASSUME FirstInv, SecondInv, Second!StatAgain
    PROVE  SecondInv'
<1>1. /\ UNCHANGED <<dir, files, db, misplaced, path2, loaded2, gen2, off2,
                     line2, tx2, cks2, last2>>
      /\ pc2 = "stat" /\ pc2' = "truncate" /\ tx2 = {}
      /\ pending2' = [path |-> path2, size |-> Size(dir[path2]),
                      mtime |-> files[dir[path2]].mtime,
                      cks |-> IF loaded2 # NoState /\ cks2 = <<>>
                              THEN loaded2.cks ELSE cks2,
                      read |-> [gen |-> gen2, next |-> off2]]
  BY SecondHelpers
     DEF Second!StatAgain, Second!KeptCheckpoints, Second!logger, SecondInv,
         SecondResumes
<1>2. pending2' \in FileState
  <2>1. dir[path2] \in 1..Len(files) /\ path2 \in Paths
    BY DEF SecondInv, SecondTyped
  <2>2. /\ files[dir[path2]] \in File
        /\ files[dir[path2]].mtime \in Nat
    BY <2>1, FileFields DEF FirstInv, TypeInv, TypeOK
  <2>3. Size(dir[path2]) \in Nat
    BY <2>2, FileFields, LinesEndTyped DEF Size
  <2>4. cks2 \in Seq(Checkpoint) /\ (loaded2 # NoState => loaded2.cks \in Seq(Checkpoint))
    BY DEF SecondInv, SecondTyped, FileState
  <2>5. [gen |-> gen2, next |-> off2] \in [gen : Nat, next : Nat]
    BY DEF SecondInv, SecondTyped
  <2>. QED
    BY <1>1, <2>1, <2>2, <2>3, <2>4, <2>5 DEF FileState
<1>3. SecondTyped'
  BY <1>1, <1>2 DEF SecondInv, SecondTyped, InRun
<1>4. SecondResumes'
  <2>1. /\ AllResumable(db, cks2)
        /\ loaded2 # NoState => AllResumable(db, loaded2.cks)
    <3>1. db \cup tx2 = db
      BY <1>1
    <3>. QED
      BY <3>1 DEF SecondInv, SecondResumes
  <2>2. /\ pending2'.cks = cks2 \/ (loaded2 # NoState /\ pending2'.cks = loaded2.cks)
    BY <1>1
  <2>3. AllResumable(db, pending2'.cks)
    BY <2>1, <2>2
  <2>. QED
    BY <1>1, <2>3 DEF SecondInv, SecondResumes, AllResumable
<1>5. SecondRows'
  BY <1>1 DEF SecondInv, SecondRows
<1>. QED
  BY <1>3, <1>4, <1>5 DEF SecondInv

(* A step of the second run that commits nothing and opens no file: it may *)
(* change the state file or export its last row.                           *)
LEMMA SecondShares ==
    ASSUME FirstInv, SecondInv, UNCHANGED <<logger, db, misplaced>>,
           failures' \in Nat,
           \/ state' \in {state, Corrupt}
           \/ state' = pending2 /\ pending2 \in FileState,
           \/ prom' = prom
           \/ prom' = last2 /\ last2 # NoRow /\ IsKept(db, last2)
    PROVE  SharedGrows /\ SharedInv'
<1>1. UNCHANGED <<files, db, misplaced>> /\ SharedInv
  BY FirstShares DEF logger
<1>2. SharedGrows
  BY <1>1, FileFields DEF SharedGrows, Extends, FirstInv, TypeInv, TypeOK
<1>3. /\ state' \in FileState \cup {NoState, Corrupt}
      /\ state' \notin {NoState, Corrupt} => AllResumable(db, state'.cks)
  BY <1>1 DEF SharedInv, SecondInv, SecondResumes
<1>4. prom' \in Row \cup {NoRow} /\ (prom' # NoRow => IsKept(db, prom'))
  BY <1>1 DEF SharedInv, SecondInv, SecondTyped
<1>. QED
  BY <1>1, <1>2, <1>3, <1>4 DEF SharedInv, AllResumable

(* What every step of the second run does, to itself, to what is shared    *)
(* and to LoggedRows.                                                      *)
LEMMA SecondSteps ==
    ASSUME FirstInv, SecondInv, SecondStep
    PROVE  /\ SecondInv' /\ SharedGrows /\ SharedInv'
           /\ UNCHANGED logger
           /\ [Abstract!Next]_(Abstract!vars)
<1>1. ASSUME UNCHANGED <<logger, db, misplaced>>
      PROVE  UNCHANGED Abstract!vars
  BY <1>1 DEF Abstract!vars, Logged, logger
<1>2. failures \in Nat /\ failures + 1 \in Nat
  BY DEF FirstInv, TypeInv, TypeOK
<1>3. CASE \/ Second!StartRun
           \/ Second!LoadState
           \/ Second!EndOfFile
           \/ Second!ExportMetrics
           \/ Second!TruncateState
  <2>1. /\ UNCHANGED <<logger, db, misplaced, failures>>
        /\ state' \in {state, Corrupt}
        /\ \/ prom' = prom
           \/ prom' = last2 /\ last2 # NoRow /\ IsKept(db, last2)
    BY <1>3
       DEF Second!StartRun, Second!LoadState, Second!EndOfFile,
           Second!ExportMetrics, Second!TruncateState, Second!logger, logger,
           SecondInv, SecondRows
  <2>. QED
    BY <1>1, <1>2, <1>3, <2>1, SecondMovesOn, SecondShares
<1>4. CASE Second!Plan \/ Second!StatAgain
  <2>1. UNCHANGED <<logger, db, misplaced, failures, state, prom>>
    BY <1>4 DEF Second!Plan, Second!StatAgain, Second!logger, logger
  <2>. QED
    BY <1>1, <1>2, <1>4, <2>1, SecondPlans, SecondStats, SecondShares
<1>5. CASE pc2 = "read" /\ Second!Reads
  <2>1. PICK i \in 1..Len(files[gen2].lines) :
           Second!ReadRow(i) \/ Second!SkipLine(i)
    BY <1>5 DEF Second!Reads
  <2>2. SecondInv' /\ UNCHANGED <<logger, state, db, prom, misplaced, failures>>
    BY <1>5, <2>1, SecondReads
  <2>. QED
    BY <1>1, <1>2, <2>2, SecondShares
<1>6. CASE Second!OpenFile
  <2>1. /\ SecondInv' /\ SharedGrows
        /\ UNCHANGED <<logger, state, db, prom, failures>>
        /\ misplaced' = misplaced \/ misplaced' = misplaced \cup {dir[path2]}
        /\ dir[path2] \in 1..Len(files)
    BY <1>6, SecondOpens
  <2>2. UNCHANGED files /\ SharedInv /\ files \in Seq(File) /\ TypeInv
    BY <2>1, FirstShares DEF logger, FirstInv, TypeInv, TypeOK
  <2>3. /\ \A c : Resumable(files, misplaced, db, c)
                     => Resumable(files, misplaced', db, c)
        /\ \A r : TrueRow(files, misplaced, r)
                     => TrueRow(files, misplaced', r)
    BY <2>1, <2>2, Grown
  <2>4. SharedInv'
    BY <2>1, <2>2, <2>3 DEF SharedInv, AllResumable
  <2>5. [Abstract!Next]_(Abstract!vars)
    BY <2>1, <2>2, FileExcused
  <2>. QED
    BY <2>1, <2>4, <2>5
<1>7. CASE Second!CommitTx
  <2>1. /\ SecondInv' /\ SharedGrows
        /\ UNCHANGED <<logger, state, prom, misplaced, failures>>
        /\ db' = Upsert(db, tx2)
    BY <1>7, SecondCommits
  <2>2. UNCHANGED files /\ SharedInv /\ files \in Seq(File) /\ TypeInv
    BY <2>1, FirstShares DEF logger, FirstInv, TypeInv, TypeOK
  <2>3. \A r \in tx2 : /\ TrueRow(files, misplaced, r)
                       /\ r.gen = gen2
                       /\ gen2 \notin misplaced => r.idx <= line2
    BY DEF SecondInv, SecondRows
  <2>4. SharedInv'
    <3>1. \A c : Resumable(files, misplaced, db, c)
                   => Resumable(files, misplaced, db', c)
      BY <2>1, <2>2, Grown
    <3>2. db' \subseteq db \cup tx2
      BY <2>1, UpsertHolds
    <3>3. db' \in SUBSET Row
      BY <2>2, <3>2 DEF SharedInv, SecondInv, SecondTyped
    <3>4. prom # NoRow => IsKept(db', prom)
      BY <2>1, <2>2 DEF SharedInv, SharedGrows
    <3>. QED
      BY <2>1, <2>2, <2>3, <3>1, <3>2, <3>3, <3>4 DEF SharedInv, AllResumable
  <2>5. /\ Resumable(files, misplaced, db \cup tx2, At(line2, off2, gen2))
        /\ gen2 \in 1..Len(files) /\ line2 \in Nat
    BY <1>7 DEF Second!CommitTx, SecondInv, SecondTyped, SecondResumes, At2, InRun
  <2>6. Abstract!Next
    BY <2>1, <2>2, <2>3, <2>5, RowsStored
  <2>. QED
    BY <2>1, <2>4, <2>6
<1>8. CASE \/ Second!LoadFails
           \/ Second!SkipUnchanged
           \/ Second!ExportFails
           \/ Second!SaveState
           \/ Second!RunFails
           \/ pc2 = "save" /\ SaveOverLonger /\ Second!EndRun
  <2>1. /\ UNCHANGED <<logger, db, misplaced, prom>> /\ Second!EndRun
        /\ failures' \in {failures, failures + 1}
        /\ \/ state' \in {state, Corrupt}
           \/ pc2 = "save" /\ state' = pending2
    BY <1>8
       DEF Second!LoadFails, Second!SkipUnchanged, Second!ExportFails,
           Second!SaveState, Second!RunFails, SaveOverLonger, Second!logger,
           logger
  <2>2. pc2 = "save" => pending2 \in FileState
    BY DEF SecondInv, SecondTyped
  <2>3. SharedGrows /\ SharedInv'
    BY <1>2, <2>1, <2>2, SecondShares
  <2>. QED
    BY <1>1, <2>1, <2>3, SecondEnds
<1>. QED
  BY <1>3, <1>4, <1>5, <1>6, <1>7, <1>8 DEF SecondStep, Second!Runs

-----------------------------------------------------------------------------
(* Both runs and the logger together.                                      *)

(* The first run or the logger moves; the second one stands still.         *)
LEMMA SecondWaits ==
    ASSUME FirstInv, FirstInv', SecondInv, SharedGrows, UNCHANGED second,
           Logs \/ UNCHANGED logger
    PROVE  SecondInv'
<1>1. /\ files \in Seq(File) /\ files' \in Seq(File)
      /\ Len(files) \in Nat /\ Len(files') \in Nat /\ Len(files) <= Len(files')
  BY DEF FirstInv, TypeInv, TypeOK, SharedGrows, Extends
<1>2. \A p \in Paths : dir[p] \in 1..Len(files)
                          => dir'[p] \in 1..Len(files')
  <2>1. CASE UNCHANGED dir
    BY <1>1, <2>1
  <2>2. ASSUME NEW q \in Paths, Rotate(q)
        PROVE  \A p \in Paths : dir[p] \in 1..Len(files)
                                   => dir'[p] \in 1..Len(files')
    BY <1>1, <2>2, FileFields DEF Rotate, Newest, FirstInv, TypeInv, TypeOK
  <2>. QED
    BY <2>1, <2>2 DEF Logs, AppendLine, AppendPartial, logger
<1>. QED
  BY <1>1, <1>2, SecondUndisturbed

LEMMA OverlapSteps ==
    ASSUME FirstInv, SecondInv, [OverlapNext]_allVars
    PROVE  FirstInv' /\ SecondInv' /\ [Abstract!Next]_(Abstract!vars)
<1>1. CASE Logs /\ UNCHANGED <<second, overlaps>>
  <2>1. FirstInv' /\ SharedGrows
    BY <1>1, LogsKeepFirst
  <2>2. [Abstract!Next]_(Abstract!vars)
    BY <1>1, <2>1, LogsRefine DEF FirstInv
  <2>3. SecondInv'
    BY <1>1, <2>1, SecondWaits
  <2>. QED
    BY <2>1, <2>2, <2>3
<1>2. CASE FirstRuns \/ (RunFails /\ UNCHANGED <<second, overlaps>>)
  <2>1. /\ Runs \/ RunFails \/ (SaveOverLonger /\ EndRun)
        /\ UNCHANGED second
    BY <1>2 DEF FirstRuns
  <2>2. FirstInv' /\ SharedGrows /\ UNCHANGED logger
    BY <2>1, FirstSteps, FirstGrows
  <2>3. [Abstract!Next]_(Abstract!vars)
    <3>1. CASE Runs \/ RunFails
      BY <3>1, RunsRefine DEF FirstInv
    <3>2. CASE SaveOverLonger /\ EndRun
      BY <3>2 DEF SaveOverLonger, logger, Abstract!vars, Logged
    <3>. QED
      BY <2>1, <3>1, <3>2
  <2>4. SecondInv'
    BY <2>1, <2>2, SecondWaits
  <2>. QED
    BY <2>2, <2>3, <2>4
<1>3. CASE \/ StartSecond
           \/ SecondRuns
           \/ Second!RunFails /\ UNCHANGED <<pc, locals, overlaps>>
  <2>1. SecondStep /\ UNCHANGED <<pc, locals>>
    BY <1>3 DEF StartSecond, SecondRuns, SecondStep, Second!Runs
  <2>2. /\ SecondInv' /\ SharedGrows /\ SharedInv' /\ UNCHANGED logger
        /\ [Abstract!Next]_(Abstract!vars)
    BY <2>1, SecondSteps
  <2>. QED
    BY <2>1, <2>2, FirstUndisturbed
<1>4. CASE UNCHANGED allVars
  <2>1. UNCHANGED <<logger, state, db, prom, pc, locals, misplaced, failures,
                    second, files>>
    BY <1>4 DEF allVars, vars, logger
  <2>2. SharedInv /\ SharedGrows
    BY <2>1, FirstShares, FileFields
       DEF SharedGrows, Extends, FirstInv, TypeInv, TypeOK
  <2>3. SharedInv'
    BY <2>1, <2>2 DEF SharedInv, AllResumable
  <2>4. FirstInv'
    BY <2>1, <2>2, <2>3, FirstUndisturbed
  <2>5. SecondInv'
    BY <2>1, <2>2, <2>4, SecondWaits
  <2>6. UNCHANGED Abstract!vars
    BY <2>1 DEF Abstract!vars, Logged
  <2>. QED
    BY <2>4, <2>5, <2>6
<1>. QED
  BY <1>1, <1>2, <1>3, <1>4 DEF OverlapNext

LEMMA OverlapStarts == OverlapInit => FirstInv /\ SecondInv
<1>. SUFFICES ASSUME OverlapInit PROVE FirstInv /\ SecondInv
  OBVIOUS
<1>1. Init
  BY DEF OverlapInit
<1>2. TypeInv
  BY <1>1, InitTyped
<1>3. FirstInv
  BY <1>1, <1>2, ResumeStarts DEF FirstInv, Init, RowsInv
<1>4. SecondInv
  <2>1. /\ pc2 = "idle" /\ path2 = path /\ loaded2 = NoState /\ gen2 = 0
        /\ off2 = 0 /\ line2 = 0 /\ tx2 = {} /\ cks2 = <<>>
        /\ last2 = NoRow /\ pending2 = NoState
    BY DEF OverlapInit
  <2>2. SecondTyped
    BY <1>2, <2>1 DEF SecondTyped, TypeInv, TypeOK, RunHasFile, InRun
  <2>3. SecondResumes
    BY <2>1 DEF SecondResumes, AllResumable
  <2>4. SecondRows
    BY <2>1 DEF SecondRows
  <2>. QED
    BY <2>2, <2>3, <2>4 DEF SecondInv
<1>. QED
  BY <1>3, <1>4

LEMMA OverlapInvariant == OverlapSpec => []OverlapInv
<1>1. OverlapInit => OverlapInv
  BY OverlapStarts DEF OverlapInv
<1>2. OverlapInv /\ [OverlapNext]_allVars => OverlapInv'
  BY OverlapSteps DEF OverlapInv
<1>. QED
  BY <1>1, <1>2, PTL DEF OverlapSpec

(* CheckpointsCommitted holds although a second run of the input starts    *)
(* before the first has ended and no lock keeps them apart: whichever of   *)
(* them saves, and however their steps interleave, what the state file     *)
(* resumes from has been committed (state.go:73-89, writer.go:360-388).    *)
THEOREM OverlapsCommitCheckpoints == OverlapSpec => []CheckpointsCommitted
<1>1. OverlapInv => CheckpointsCommitted
  <2>. SUFFICES ASSUME OverlapInv, NEW k \in 1..Len(Checkpoints(state))
                PROVE  Resumable(files, misplaced, db, Checkpoints(state)[k])
    BY DEF CheckpointsCommitted
  <2>1. state \notin {NoState, Corrupt}
    BY DEF Checkpoints
  <2>. QED
    BY <2>1
       DEF Checkpoints, OverlapInv, FirstInv, ResumeInv, AllResumable
<1>. QED
  BY <1>1, OverlapInvariant, PTL

(* Two overlapping runs together implement LoggedRows: the rows of a file  *)
(* reach the table in file order, without a gap, and none is removed,      *)
(* although both insert the same rows (writer.go:219-258, 299-388).        *)
THEOREM OverlapsRefine == OverlapSpec => ImplementsLoggedRows
<1>1. OverlapInit => Abstract!Init
  BY RefineStarts DEF OverlapInit
<1>2. OverlapInv /\ [OverlapNext]_allVars => [Abstract!Next]_(Abstract!vars)
  BY OverlapSteps DEF OverlapInv
<1>. QED
  BY <1>1, <1>2, OverlapInvariant, PTL
     DEF OverlapSpec, ImplementsLoggedRows, Abstract!Spec

(* StoredRowsAreTrue holds with two runs at a time: a row both of them     *)
(* insert or rewrite keeps its true line number (typed_reader.go:316-357). *)
THEOREM OverlapsStoreTrueRows == OverlapSpec => []StoredRowsAreTrue
<1>1. OverlapInv => StoredRowsAreTrue
  BY DEF OverlapInv, FirstInv, RowsInv, TrueRow, StoredRowsAreTrue
<1>. QED
  BY <1>1, OverlapInvariant, PTL

(* PromIsStored holds with two runs at a time: whichever of them exported  *)
(* last, the row its .prom file shows has been committed (writer.go:360).  *)
THEOREM OverlapsExportStored == OverlapSpec => []PromIsStored
<1>1. OverlapInv => PromIsStored
  BY DEF OverlapInv, FirstInv, RowsInv, IsKept, PromIsStored
<1>. QED
  BY <1>1, OverlapInvariant, PTL
=============================================================================
