------------------------- MODULE GrowingFileProofs -------------------------
(***************************************************************************)
(* Proofs about GrowingFile, for every set of names, replay window, line   *)
(* width, number of files, lines and failures: its types, its checkpoints, *)
(* its rows, their order, and that it implements LoggedRows.               *)
(***************************************************************************)
EXTENDS GrowingFileProperties, TLAPS

-----------------------------------------------------------------------------
(* Type correctness.  TypeOK is not inductive alone: the offsets a run     *)
(* reads are numbers only if the file it has open exists and holds its     *)
(* head lines.                                                             *)

InRun == {"read", "commit", "export", "stat", "truncate", "save"}

(* Every file has its head lines, and every name of a file is in use. *)
FilesHaveHeads ==
    \A g \in 1..Len(files) :
        /\ HeadLines <= Len(files[g].lines)
        /\ dir[files[g].path] \in 1..Len(files)

(* The run's name and its open file exist. *)
RunHasFile ==
    /\ dir[path] \in 1..Len(files)
    /\ pc \in InRun => gen \in 1..Len(files)
    /\ pc \in {"truncate", "save"} => pending \in FileState

TypeInv == TypeOK /\ files # <<>> /\ FilesHaveHeads /\ RunHasFile

(* The checkpoints that stay after trimming were there before. *)
LEMMA TrimKeeps ==
    ASSUME NEW S, NEW s \in Seq(S)
    PROVE  /\ TrimCheckpoints(s) \in Seq(S)
           /\ s # <<>> => TrimCheckpoints(s) # <<>>
           /\ \A k \in 1..Len(TrimCheckpoints(s)) :
                 \E j \in 1..Len(s) : TrimCheckpoints(s)[k] = s[j]
<1>1. CASE Len(s) <= ReplayLines + 1
  BY <1>1 DEF TrimCheckpoints
<1>2. CASE ~ Len(s) <= ReplayLines + 1
  <2>1. TrimCheckpoints(s) = SubSeq(s, Len(s) - ReplayLines, Len(s))
    BY <1>2 DEF TrimCheckpoints
  <2>2. /\ Len(s) \in Nat
        /\ Len(s) - ReplayLines \in 1..Len(s)
    BY <1>2, ReplayLinesAssumption
  <2>3. /\ Len(TrimCheckpoints(s)) = ReplayLines + 1
        /\ \A k \in 1..ReplayLines + 1 :
              TrimCheckpoints(s)[k] = s[Len(s) - ReplayLines + k - 1]
        /\ TrimCheckpoints(s) \in Seq(S)
    BY <2>1, <2>2, ReplayLinesAssumption
  <2>. QED
    BY <2>2, <2>3, ReplayLinesAssumption
<1>. QED
  BY <1>1, <1>2, ReplayLinesAssumption

(* A run resumes from one of the saved checkpoints or from the start. *)
LEMMA ResumePointKnown ==
    ASSUME NEW s \in FileState \cup {NoState}, NEW p, NEW n
    PROVE  \/ ResumePoint(s, p, n) = FromStart
           \/ /\ s \in FileState
              /\ \E k \in 1..Len(s.cks) : ResumePoint(s, p, n) = s.cks[k]
<1>1. CASE s = NoState \/ s.path # p \/ n < s.size \/ s.cks = <<>>
  BY <1>1 DEF ResumePoint
<1>2. CASE ~ (s = NoState \/ s.path # p \/ n < s.size \/ s.cks = <<>>)
  <2>1. /\ s \in FileState
        /\ s.cks \in Seq(Checkpoint)
        /\ Len(s.cks) \in Nat \ {0}
    BY <1>2 DEF FileState
  <2>2. ResumePoint(s, p, n) = ReplayFrom(s.cks)
    BY <1>2 DEF ResumePoint
  <2>3. \E k \in 1..Len(s.cks) : ReplayFrom(s.cks) = s.cks[k]
    BY <2>1, ReplayLinesAssumption DEF ReplayFrom
  <2>. QED
    BY <2>1, <2>2, <2>3
<1>. QED
  BY <1>1, <1>2

LEMMA HeadIsTyped ==
    /\ HeadOf(HeadLines) \in Seq(Line)
    /\ Len(HeadOf(HeadLines)) = HeadLines
<1>1. /\ HeadLines \in Nat
      /\ Width["head"] \in Nat \ {0}
  BY GrowingFileAssumption DEF Kinds
<1>2. \A i \in 1..HeadLines : i * Width["head"] \in Nat \ {0}
  BY <1>1
<1>3. \A i \in 1..HeadLines :
         [kind |-> "head", end |-> i * Width["head"]] \in Line
  BY <1>2 DEF Line, Kinds
<1>. QED
  BY <1>1, <1>3 DEF HeadOf

LEMMA LinesEndTyped ==
    ASSUME NEW lines \in Seq(Line), NEW i \in 0..Len(lines)
    PROVE  EndOf(lines, i) \in Nat /\ LinesEnd(lines) \in Nat
<1>1. Len(lines) \in Nat
  OBVIOUS
<1>2. \A j \in 0..Len(lines) : j # 0 => lines[j] \in Line
  BY <1>1
<1>3. \A ln \in Line : ln.end \in Nat
  BY DEF Line
<1>4. \A j \in 0..Len(lines) : EndOf(lines, j) \in Nat
  BY <1>2, <1>3 DEF EndOf
<1>. QED
  BY <1>1, <1>4 DEF LinesEnd

LEMMA FileFields ==
    \A f \in File : /\ f.path \in Paths
                    /\ f.lines \in Seq(Line)
                    /\ f.tail \in Nat
                    /\ f.mtime \in Nat
  BY DEF File

LEMMA FileMade ==
    ASSUME NEW p \in Paths, NEW ls \in Seq(Line), NEW n \in Nat, NEW m \in Nat
    PROVE  \E f \in File :
              /\ f = [path |-> p, lines |-> ls, tail |-> n, mtime |-> m]
              /\ f.path = p
              /\ f.lines = ls
<1>. DEFINE f == [path |-> p, lines |-> ls, tail |-> n, mtime |-> m]
<1>1. f \in File
  BY DEF File
<1>2. f.path = p /\ f.lines = ls
  OBVIOUS
<1>. QED
  BY <1>1, <1>2

(* A write to a file adds lines at its end and leaves its name. *)
LEMMA WrittenTyped ==
    ASSUME TypeInv,
           NEW ls \in Seq(Line), NEW t \in Nat,
           Len(files[Newest].lines) <= Len(ls),
           clock' = clock + 1,
           files' = [files EXCEPT ![Newest] = Written(files[Newest], ls, t)],
           dir' = dir,
           LogUnchanged
    PROVE  TypeInv'
<1>. USE DEF TypeInv
<1>1. PICK n \in 1..Len(files) : n = Newest
  BY DEF TypeOK, Newest
<1>2. files[n] \in File
  BY DEF TypeOK
<1>3. PICK f \in File : /\ f = Written(files[n], ls, t)
                        /\ f.path = files[n].path
                        /\ f.lines = ls
  <2>1. files[n].path \in Paths /\ clock + 1 \in Nat
    BY <1>2, FileFields DEF TypeOK
  <2>. QED
    BY <2>1, FileMade DEF Written
<1>4. /\ files' = [files EXCEPT ![n] = f]
      /\ files' \in Seq(File)
      /\ Len(files') = Len(files)
      /\ \A g \in 1..Len(files) : files'[g] = IF g = n THEN f ELSE files[g]
  BY <1>1, <1>3 DEF TypeOK
<1>5. TypeOK'
  BY <1>4 DEF TypeOK, LogUnchanged, locals
<1>6. \A g \in 1..Len(files) : /\ files'[g].path = files[g].path
                               /\ Len(files[g].lines) <= Len(files'[g].lines)
                               /\ Len(files[g].lines) \in Nat
                               /\ Len(files'[g].lines) \in Nat
  BY <1>1, <1>3, <1>4, FileFields DEF TypeOK
<1>7. FilesHaveHeads'
  BY <1>4, <1>6, GrowingFileAssumption DEF FilesHaveHeads
<1>8. RunHasFile'
  BY <1>4 DEF RunHasFile, LogUnchanged, locals
<1>. QED
  BY <1>4, <1>5, <1>7, <1>8 DEF TypeOK

(* What an operation of the logger may do to files and dir. *)
LEMMA LogsTyped ==
    ASSUME TypeInv, Logs
    PROVE  TypeInv'
<1>. USE DEF TypeInv
<1>0. /\ Newest \in 1..Len(files)
      /\ files[Newest] \in File
      /\ files[Newest].lines \in Seq(Line)
      /\ files[Newest].tail \in Nat
  BY FileFields DEF TypeOK, Newest
<1>1. ASSUME NEW kind \in Kinds \ {"head"}, AppendLine(kind)
      PROVE  TypeInv'
  <2>1. PICK ln \in Line : ln = NextLine(files[Newest], kind)
    <3>1. /\ LinesEnd(files[Newest].lines) \in Nat
          /\ Width[kind] \in Nat \ {0}
      BY <1>0, LinesEndTyped, GrowingFileAssumption
    <3>2. LinesEnd(files[Newest].lines) + Width[kind] \in Nat \ {0}
      BY <3>1
    <3>. QED
      BY <3>2 DEF NextLine, Line
  <2>2. /\ Append(files[Newest].lines, ln) \in Seq(Line)
        /\ Len(files[Newest].lines) <= Len(Append(files[Newest].lines, ln))
    BY <1>0
  <2>. QED
    BY <1>1, <2>1, <2>2, WrittenTyped DEF AppendLine
<1>2. CASE AppendPartial
  <2>1. /\ files[Newest].tail + 1 \in Nat
        /\ Len(files[Newest].lines) <= Len(files[Newest].lines)
    BY <1>0
  <2>. QED
    BY <1>0, <1>2, <2>1, WrittenTyped DEF AppendPartial
<1>3. ASSUME NEW p \in Paths, Rotate(p)
      PROVE  TypeInv'
  <2>1. PICK f \in File : /\ f = NewFile(p, clock + 1)
                          /\ f.path = p
                          /\ Len(f.lines) = HeadLines
    <3>1. clock + 1 \in Nat /\ 0 \in Nat
      BY DEF TypeOK
    <3>2. NewFile(p, clock + 1) = [path |-> p, lines |-> HeadOf(HeadLines),
                                   tail |-> 0, mtime |-> clock + 1]
      BY DEF NewFile
    <3>3. PICK f \in File : f = NewFile(p, clock + 1) /\ f.path = p
                            /\ f.lines = HeadOf(HeadLines)
      BY <3>1, <3>2, HeadIsTyped, FileMade
    <3>. QED
      BY <3>3, HeadIsTyped
  <2>2. /\ files' = Append(files, f)
        /\ dir' = [dir EXCEPT ![p] = Len(files) + 1]
    BY <1>3, <2>1 DEF Rotate, Newest
  <2>3. /\ files' \in Seq(File)
        /\ Len(files') = Len(files) + 1
        /\ \A g \in 1..Len(files) : files'[g] = files[g]
        /\ files'[Len(files) + 1] = f
    BY <2>1, <2>2 DEF TypeOK
  <2>4. /\ dir' \in [Paths -> 0..Len(files')]
        /\ \A q \in Paths : dir[q] \in 1..Len(files)
                             => dir'[q] \in 1..Len(files')
        /\ dir'[p] \in 1..Len(files')
    BY <2>2, <2>3 DEF TypeOK
  <2>5. TypeOK'
    BY <1>3, <2>3, <2>4 DEF TypeOK, Rotate, LogUnchanged, locals
  <2>6. FilesHaveHeads'
    <3>. SUFFICES ASSUME NEW g \in 1..Len(files')
                  PROVE  /\ HeadLines <= Len(files'[g].lines)
                         /\ dir'[files'[g].path] \in 1..Len(files')
      BY DEF FilesHaveHeads
    <3>1. CASE g = Len(files) + 1
      BY <3>1, <2>1, <2>3, <2>4, GrowingFileAssumption
    <3>2. CASE g \in 1..Len(files)
      BY <3>2, <2>3, <2>4, FileFields DEF FilesHaveHeads, TypeOK
    <3>. QED
      BY <3>1, <3>2, <2>3 DEF TypeOK
  <2>7. RunHasFile'
    BY <1>3, <2>3, <2>4
       DEF RunHasFile, TypeOK, Rotate, LogUnchanged, locals
  <2>. QED
    BY <2>3, <2>5, <2>6, <2>7 DEF TypeOK
<1>. QED
  BY <1>1, <1>2, <1>3 DEF Logs

(* A run leaves the files and the directory alone. *)
LEMMA RunsTyped ==
    ASSUME TypeInv, Runs \/ RunFails
    PROVE  TypeInv'
<1>. USE DEF TypeInv
<1>0. /\ dir[path] \in 1..Len(files)
      /\ files[dir[path]] \in File
      /\ Size(dir[path]) \in Nat
      /\ files[dir[path]].mtime \in Nat
      /\ HeadLines \in 0..Len(files[dir[path]].lines)
      /\ EndOf(files[dir[path]].lines, HeadLines) \in Nat
  <2>1. /\ dir[path] \in 1..Len(files)
        /\ files[dir[path]] \in File
    BY DEF RunHasFile, TypeOK
  <2>2. HeadLines \in 0..Len(files[dir[path]].lines)
    BY <2>1, FileFields, GrowingFileAssumption DEF FilesHaveHeads
  <2>. QED
    BY <2>1, <2>2, FileFields, LinesEndTyped DEF Size
<1>1. CASE StartRun
  <2>1. Newest \in 1..Len(files)
    BY DEF Newest, TypeOK
  <2>. QED
    BY <1>1, <2>1, FileFields
       DEF StartRun, Resolved, TypeOK, FilesHaveHeads, RunHasFile, InRun, logger
<1>2. CASE LoadState
  BY <1>2
     DEF LoadState, Readable, TypeOK, FilesHaveHeads, RunHasFile, InRun, logger
<1>3. ASSUME EndRun,
             UNCHANGED <<logger, db, prom, misplaced>>,
             state' \in FileState \cup {NoState, Corrupt},
             failures' \in Nat
      PROVE  TypeInv'
  BY <1>3 DEF EndRun, TypeOK, FilesHaveHeads, RunHasFile, InRun, logger
<1>4. CASE LoadFails
  BY <1>3, <1>4 DEF LoadFails, TypeOK
<1>5. CASE SkipUnchanged
  BY <1>3, <1>5 DEF SkipUnchanged, TypeOK
<1>6. CASE Plan
  <2>. DEFINE from == ResumePoint(loaded, path, Size(dir[path]))
  <2>1. from.next \in Nat /\ from.line \in Nat /\ from.gen \in Nat
    <3>1. from = FromStart \/ from \in Checkpoint
      <4>1. \A s \in FileState : s.cks \in Seq(Checkpoint)
        BY DEF FileState
      <4>2. CASE from # FromStart
        <5>1. PICK k \in 1..Len(loaded.cks) : from = loaded.cks[k]
          BY <4>2, ResumePointKnown DEF TypeOK
        <5>2. loaded \in FileState
          BY <4>2, ResumePointKnown DEF TypeOK
        <5>. QED
          BY <4>1, <5>1, <5>2
      <4>. QED
        BY <4>2
    <3>2. \A c \in Checkpoint : c.next \in Nat /\ c.line \in Nat
                                  /\ c.gen \in Nat
      BY DEF Checkpoint
    <3>. QED
      BY <3>1, <3>2 DEF FromStart
  <2>. QED
    BY <1>6, <2>1
       DEF Plan, TypeOK, FilesHaveHeads, RunHasFile, InRun, logger
<1>7. CASE OpenFile
  <2>1. line' \in Nat /\ off' \in Nat
    BY <1>0, <1>7, GrowingFileAssumption DEF OpenFile, Passed, TypeOK
  <2>2. misplaced' \in SUBSET (1..Len(files))
    BY <1>0, <1>7 DEF OpenFile, TypeOK
  <2>3. /\ pc' = "read" /\ gen' = dir[path]
        /\ UNCHANGED <<logger, state, db, prom, path, loaded, tx, cks, last,
                       pending, failures>>
    BY <1>7 DEF OpenFile
  <2>. QED
    BY <1>0, <2>1, <2>2, <2>3
       DEF TypeOK, FilesHaveHeads, RunHasFile, InRun, logger
<1>8. ASSUME pc = "read", NEW i \in 1..Len(files[gen].lines)
      PROVE  /\ gen \in 1..Len(files)
             /\ files[gen].lines[i] \in Line
             /\ files[gen].lines[i].end \in Nat \ {0}
             /\ line + 1 \in Nat
  <2>1. files[gen].lines \in Seq(Line)
    BY <1>8, FileFields DEF RunHasFile, InRun, TypeOK
  <2>2. \A ln \in Line : ln.end \in Nat \ {0}
    BY DEF Line
  <2>. QED
    BY <1>8, <2>1, <2>2 DEF RunHasFile, InRun, TypeOK
<1>9. ASSUME pc = "read", NEW i \in 1..Len(files[gen].lines), ReadRow(i)
      PROVE  TypeInv'
  <2>1. PICK row \in Row : /\ tx' = tx \cup {row}
                           /\ last' = row
    <3>1. [gen |-> gen, idx |-> i, num |-> line + 1, whole |-> IsWhole(i)]
             \in Row
      BY <1>8, <1>9 DEF Row, IsWhole, TypeOK
    <3>. QED
      BY <1>9, <3>1 DEF ReadRow, LatestRow
  <2>2. PICK c \in Checkpoint : cks' = TrimCheckpoints(Append(cks, c))
    <3>1. [line |-> line + 1, next |-> files[gen].lines[i].end, gen |-> gen]
             \in Checkpoint
      BY <1>8, <1>9 DEF Checkpoint, TypeOK
    <3>. QED
      BY <1>9, <3>1 DEF ReadRow, LatestRow
  <2>3. cks' \in Seq(Checkpoint)
    <3>1. Append(cks, c) \in Seq(Checkpoint)
      BY DEF TypeOK
    <3>. QED
      BY <2>2, <3>1, TrimKeeps
  <2>. QED
    BY <1>8, <1>9, <2>1, <2>3
       DEF ReadRow, LatestRow, Advance, TypeOK, FilesHaveHeads, RunHasFile, InRun, logger
<1>10. ASSUME pc = "read", NEW i \in 1..Len(files[gen].lines), SkipLine(i)
       PROVE  TypeInv'
  BY <1>8, <1>10
     DEF SkipLine, Advance, TypeOK, FilesHaveHeads, RunHasFile, InRun, logger
<1>11. CASE EndOfFile
  BY <1>11
     DEF EndOfFile, AfterLastLine, TypeOK, FilesHaveHeads, RunHasFile, InRun, logger, locals
<1>12. CASE CommitTx
  <2>1. Upsert(db, tx) \in SUBSET Row
    BY DEF Upsert, TypeOK
  <2>. QED
    BY <1>12, <2>1
       DEF CommitTx, Committed, TypeOK, FilesHaveHeads, RunHasFile, InRun, logger
<1>13. CASE ExportMetrics
  BY <1>13
     DEF ExportMetrics, TypeOK, FilesHaveHeads, RunHasFile, InRun, logger,
         locals
<1>14. CASE ExportFails
  BY <1>3, <1>14 DEF ExportFails, TypeOK
<1>15. CASE StatAgain
  <2>1. pending' \in FileState
    BY <1>0, <1>15 DEF StatAgain, KeptCheckpoints, FileState, TypeOK
  <2>. QED
    BY <1>15, <2>1
       DEF StatAgain, KeptCheckpoints, TypeOK, FilesHaveHeads, RunHasFile, InRun, logger
<1>16. CASE TruncateState
  BY <1>16
     DEF TruncateState, TypeOK, FilesHaveHeads, RunHasFile, InRun, logger,
         locals
<1>17. CASE SaveState
  BY <1>3, <1>17 DEF SaveState, TypeOK, RunHasFile
<1>18. CASE RunFails
  BY <1>3, <1>18 DEF RunFails, TypeOK
<1>. QED
  BY <1>1, <1>2, <1>4, <1>5, <1>6, <1>7, <1>9, <1>10, <1>11, <1>12, <1>13,
     <1>14, <1>15, <1>16, <1>17, <1>18 DEF Runs, Reads

LEMMA InitTyped == Init => TypeInv
<1>. SUFFICES ASSUME Init PROVE TypeInv
  OBVIOUS
<1>1. NewFile(path, 1) = [path |-> path, lines |-> HeadOf(HeadLines),
                          tail |-> 0, mtime |-> 1]
  BY DEF NewFile
<1>2. PICK f \in File : /\ f = NewFile(path, 1)
                        /\ f.path = path
                        /\ f.lines = HeadOf(HeadLines)
  <2>1. path \in Paths /\ 0 \in Nat /\ 1 \in Nat
    BY DEF Init
  <2>. QED
    BY <1>1, <2>1, HeadIsTyped, FileMade
<1>3. files = <<f>> /\ files \in Seq(File) /\ Len(files) = 1 /\ files[1] = f
  BY <1>2 DEF Init
<1>4. TypeOK
  BY <1>3 DEF Init, TypeOK
<1>5. FilesHaveHeads
  BY <1>2, <1>3, HeadIsTyped, GrowingFileAssumption DEF Init, FilesHaveHeads
<1>6. RunHasFile
  BY <1>3 DEF Init, RunHasFile, InRun
<1>. QED
  BY <1>3, <1>4, <1>5, <1>6 DEF TypeInv

LEMMA TypeInvariant == Spec => []TypeInv
<1>1. TypeInv /\ UNCHANGED vars => TypeInv'
  BY DEF TypeInv, TypeOK, FilesHaveHeads, RunHasFile, vars, logger, locals
<1>. QED
  BY <1>1, InitTyped, LogsTyped, RunsTyped, PTL DEF Spec, Next

(* Every variable keeps its type: in particular every offset is a number,  *)
(* so that no run reads a file that does not exist or a line past its end. *)
THEOREM TypeCorrect == Spec => []TypeOK
  BY TypeInvariant, PTL DEF TypeInv

-----------------------------------------------------------------------------
(* Checkpoints.  Every list of checkpoints a run holds can be resumed      *)
(* from, those of the run itself once its transaction is committed, and so *)
(* can the position the run has read up to.                                *)

AllResumable(table, s) ==
    \A k \in 1..Len(s) : Resumable(files, misplaced, table, s[k])

Position == [line |-> line, next |-> off, gen |-> gen]

(* The end offsets of the lines of a file grow. *)
InOrder(lines) ==
    \A i, j \in 0..Len(lines) : i < j => EndOf(lines, i) < EndOf(lines, j)

FilesInOrder ==
    \A g \in 1..Len(files) :
        /\ InOrder(files[g].lines)
        /\ \A i \in 1..HeadLines : files[g].lines[i].kind = "head"

ResumeInv ==
    /\ state \notin {NoState, Corrupt} => AllResumable(db, state.cks)
    /\ loaded # NoState => AllResumable(db, loaded.cks)
    /\ pending # NoState => AllResumable(db, pending.cks)
    /\ AllResumable(db \cup tx, cks)
    /\ pc = "open" => \/ off = 0 /\ line = 0
                      \/ off > 0 /\ Resumable(files, misplaced, db, Position)
    /\ pc \in {"read", "commit"} =>
          Resumable(files, misplaced, db \cup tx, Position)
    /\ pc \notin {"read", "commit"} => tx = {}

(* Files that grew: none is gone and no complete line has changed. *)
Extends(fs, fs2) ==
    /\ Len(fs) <= Len(fs2)
    /\ \A g \in 1..Len(fs) :
          /\ Len(fs[g].lines) <= Len(fs2[g].lines)
          /\ \A i \in 1..Len(fs[g].lines) : fs2[g].lines[i] = fs[g].lines[i]

(* What can be resumed from stays so when files grow, rows are added and   *)
(* more generations are misplaced.                                         *)
LEMMA ResumableStays ==
    ASSUME NEW fs \in Seq(File), NEW fs2 \in Seq(File), Extends(fs, fs2),
           NEW bad, NEW bad2, bad \subseteq bad2,
           NEW t, NEW t2, \A g, i : Holds(t, g, i) => Holds(t2, g, i),
           NEW c, Resumable(fs, bad, t, c)
    PROVE  Resumable(fs2, bad2, t2, c)
<1>. SUFFICES ASSUME c.gen \notin bad2
              PROVE  /\ c.gen \in 1..Len(fs2)
                     /\ c.line \in 0..Len(fs2[c.gen].lines)
                     /\ c.next = EndOf(fs2[c.gen].lines, c.line)
                     /\ StoredUpTo(t2, fs2, c.gen, c.line)
  BY DEF Resumable
<1>1. /\ c.gen \in 1..Len(fs)
      /\ c.line \in 0..Len(fs[c.gen].lines)
      /\ c.next = EndOf(fs[c.gen].lines, c.line)
      /\ StoredUpTo(t, fs, c.gen, c.line)
  BY DEF Resumable
<1>2. /\ c.gen \in 1..Len(fs2)
      /\ Len(fs[c.gen].lines) \in Nat
      /\ Len(fs2[c.gen].lines) \in Nat
      /\ Len(fs[c.gen].lines) <= Len(fs2[c.gen].lines)
      /\ \A i \in 1..Len(fs[c.gen].lines) :
            fs2[c.gen].lines[i] = fs[c.gen].lines[i]
  BY <1>1, FileFields DEF Extends
<1>3. c.next = EndOf(fs2[c.gen].lines, c.line)
  BY <1>1, <1>2 DEF EndOf
<1>4. StoredUpTo(t2, fs2, c.gen, c.line)
  <2>. SUFFICES ASSUME NEW i \in DataLines(fs2[c.gen].lines), i <= c.line
                PROVE  Holds(t2, c.gen, i)
    BY DEF StoredUpTo
  <2>1. i \in DataLines(fs[c.gen].lines)
    BY <1>1, <1>2 DEF DataLines
  <2>. QED
    BY <1>1, <2>1 DEF StoredUpTo
<1>. QED
  BY <1>1, <1>2, <1>3, <1>4

LEMMA HoldsUnion ==
    ASSUME NEW t, NEW u, NEW g, NEW i
    PROVE  /\ Holds(t, g, i) => Holds(t \cup u, g, i)
           /\ Holds(u, g, i) => Holds(t \cup u, g, i)
  BY DEF Holds

(* ON CONFLICT drops no row that was in the table or in the transaction.   *)
LEMMA UpsertKeeps ==
    ASSUME NEW t, NEW u, NEW r \in t \cup u
    PROVE  \E q \in Upsert(t, u) : Key(q) = Key(r)
<1>1. CASE r \in Upsert(t, u)
  BY <1>1
<1>2. CASE r \notin Upsert(t, u) /\ DoUpdate
  BY <1>2 DEF Upsert
<1>3. CASE r \notin Upsert(t, u) /\ ~ DoUpdate
  BY <1>3 DEF Upsert
<1>. QED
  BY <1>1, <1>2, <1>3

LEMMA UpsertHolds ==
    ASSUME NEW t, NEW u
    PROVE  /\ Upsert(t, u) \subseteq t \cup u
           /\ \A g, i : Holds(t \cup u, g, i) => Holds(Upsert(t, u), g, i)
<1>1. Upsert(t, u) \subseteq t \cup u
  BY DEF Upsert
<1>2. ASSUME NEW g, NEW i, Holds(t \cup u, g, i)
      PROVE  Holds(Upsert(t, u), g, i)
  <2>1. PICK r \in t \cup u : r.gen = g /\ r.idx = i /\ r.whole
    BY <1>2 DEF Holds
  <2>2. PICK q \in Upsert(t, u) : Key(q) = Key(r)
    BY UpsertKeeps
  <2>3. q.gen = g /\ q.idx = i /\ q.whole
    BY <2>1, <2>2 DEF Key
  <2>. QED
    BY <2>2, <2>3 DEF Holds
<1>. QED
  BY <1>1, <1>2

(* The line a reader at the end of line n gets is line n + 1, whole. *)
LEMMA NextIsWhole ==
    ASSUME NEW ls \in Seq(Line), InOrder(ls),
           NEW n \in 0..Len(ls), NEW i \in 1..Len(ls),
           EndOf(ls, i - 1) <= EndOf(ls, n), EndOf(ls, n) < ls[i].end
    PROVE  i = n + 1
<1>1. Len(ls) \in Nat
  OBVIOUS
<1>2. \A j \in 0..Len(ls) : EndOf(ls, j) \in Nat
  BY LinesEndTyped
<1>3. EndOf(ls, i) = ls[i].end
  BY DEF EndOf
<1>4. ~ (n < i - 1)
  BY <1>1, <1>2 DEF InOrder
<1>5. ~ (n >= i)
  BY <1>1, <1>2, <1>3 DEF InOrder
<1>. QED
  BY <1>1, <1>4, <1>5

LEMMA HeadInOrder ==
    /\ InOrder(HeadOf(HeadLines))
    /\ \A i \in 1..HeadLines : HeadOf(HeadLines)[i].kind = "head"
<1>1. HeadLines \in Nat /\ Width["head"] \in Nat \ {0}
  BY GrowingFileAssumption DEF Kinds
<1>2. \A i \in 0..HeadLines : EndOf(HeadOf(HeadLines), i) = i * Width["head"]
  BY <1>1 DEF EndOf, HeadOf
<1>3. ASSUME NEW w \in Nat \ {0}, NEW i \in Nat, NEW j \in Nat, i < j
      PROVE  i * w < j * w
  <2>1. PICK d \in Nat \ {0} : j = i + d
    BY <1>3
  <2>2. j * w = i * w + d * w
    BY <2>1
  <2>3. d * w > 0 /\ d * w \in Nat /\ i * w \in Nat
    BY <2>1
  <2>. QED
    BY <2>2, <2>3
<1>4. InOrder(HeadOf(HeadLines))
  BY <1>1, <1>2, <1>3, HeadIsTyped DEF InOrder
<1>. QED
  BY <1>4 DEF HeadOf

LEMMA AppendInOrder ==
    ASSUME NEW ls \in Seq(Line), InOrder(ls),
           NEW ln \in Line, ln.end > LinesEnd(ls)
    PROVE  InOrder(Append(ls, ln))
<1>. DEFINE new == Append(ls, ln)
<1>1. /\ Len(ls) \in Nat
      /\ Len(new) = Len(ls) + 1
      /\ new \in Seq(Line)
      /\ \A i \in 1..Len(ls) : new[i] = ls[i]
      /\ new[Len(ls) + 1] = ln
  OBVIOUS
<1>2. \A i \in 0..Len(ls) : EndOf(new, i) = EndOf(ls, i)
  BY <1>1 DEF EndOf
<1>3. /\ EndOf(new, Len(ls) + 1) = ln.end
      /\ LinesEnd(ls) = EndOf(ls, Len(ls))
  BY <1>1 DEF EndOf, LinesEnd
<1>4. \A i \in 0..Len(ls) + 1 : EndOf(new, i) \in Nat
  BY <1>1, LinesEndTyped
<1>. HIDE DEF new
<1>5. ASSUME NEW i \in 0..Len(ls)
      PROVE  EndOf(new, i) < EndOf(new, Len(ls) + 1)
  <2>1. EndOf(ls, i) <= EndOf(ls, Len(ls))
    <3>1. CASE i = Len(ls)
      BY <1>1, <1>2, <1>4, <3>1
    <3>2. CASE i < Len(ls)
      BY <1>1, <1>2, <1>4, <3>2 DEF InOrder
    <3>. QED
      BY <1>1, <3>1, <3>2
  <2>. QED
    BY <1>1, <1>2, <1>3, <1>4, <2>1
<1>6. ASSUME NEW i \in 0..Len(new), NEW j \in 0..Len(new), i < j
      PROVE  EndOf(new, i) < EndOf(new, j)
  <2>1. CASE j \in 0..Len(ls)
    BY <1>1, <1>2, <1>6, <2>1 DEF InOrder
  <2>2. CASE j = Len(ls) + 1
    BY <1>1, <1>5, <1>6, <2>2
  <2>. QED
    BY <1>1, <2>1, <2>2
<1>. QED
  BY <1>6 DEF InOrder, new

(* The logger only adds: complete lines stay, and keep their order. *)
LEMMA LogsExtend ==
    ASSUME TypeInv, TypeInv', FilesInOrder, Logs
    PROVE  Extends(files, files') /\ FilesInOrder' /\ LogUnchanged
<1>0. /\ files \in Seq(File)
      /\ Newest = Len(files) /\ Newest \in 1..Len(files)
      /\ \A g \in 1..Len(files) : /\ files[g] \in File
                                  /\ files[g].lines \in Seq(Line)
                                  /\ HeadLines <= Len(files[g].lines)
  BY FileFields DEF TypeInv, TypeOK, Newest, FilesHaveHeads
<1>1. ASSUME NEW kind \in Kinds \ {"head"}, AppendLine(kind)
      PROVE  Extends(files, files') /\ FilesInOrder'
  <2>. DEFINE ls == files[Newest].lines
              ln == NextLine(files[Newest], kind)
  <2>1. /\ LinesEnd(ls) \in Nat
        /\ Width[kind] \in Nat \ {0}
    BY <1>0, LinesEndTyped, GrowingFileAssumption
  <2>2. LinesEnd(ls) + Width[kind] \in Nat \ {0}
    BY <2>1
  <2>3. ln \in Line /\ ln.end > LinesEnd(ls)
    BY <2>1, <2>2 DEF NextLine, Line
  <2>4. /\ Append(ls, ln) \in Seq(Line)
        /\ InOrder(Append(ls, ln))
        /\ Len(Append(ls, ln)) = Len(ls) + 1
        /\ \A i \in 1..Len(ls) : Append(ls, ln)[i] = ls[i]
    BY <1>0, <2>3, AppendInOrder DEF FilesInOrder
  <2>5. /\ Len(files') = Len(files)
        /\ \A g \in 1..Len(files) :
              files'[g].lines = IF g = Newest THEN Append(ls, ln)
                                              ELSE files[g].lines
    BY <1>0, <1>1 DEF AppendLine, Written
  <2>. HIDE DEF ls, ln
  <2>6. \A g \in 1..Len(files) :
           /\ Len(files[g].lines) <= Len(files'[g].lines)
           /\ \A i \in 1..Len(files[g].lines) :
                 files'[g].lines[i] = files[g].lines[i]
    <3>. TAKE g \in 1..Len(files)
    <3>0. Len(files[g].lines) \in Nat
      BY <1>0
    <3>1. CASE g = Newest
      <4>1. files[g].lines = ls
        BY <3>1 DEF ls
      <4>2. files'[g].lines = Append(ls, ln)
        BY <3>1, <2>5
      <4>. QED
        BY <3>0, <4>1, <4>2, <2>4
    <3>2. CASE g # Newest
      BY <3>0, <3>2, <2>5
    <3>. QED
      BY <3>1, <3>2
  <2>7. Extends(files, files')
    BY <1>0, <2>5, <2>6 DEF Extends
  <2>8. FilesInOrder'
    <3>1. ASSUME NEW g \in 1..Len(files)
          PROVE  /\ InOrder(files'[g].lines)
                 /\ \A i \in 1..HeadLines : files'[g].lines[i].kind = "head"
      <4>1. InOrder(files'[g].lines)
        BY <2>4, <2>5 DEF FilesInOrder
      <4>2. /\ \A i \in 1..HeadLines : i \in 1..Len(files[g].lines)
            /\ \A i \in 1..HeadLines : files[g].lines[i].kind = "head"
        BY <1>0, GrowingFileAssumption DEF FilesInOrder
      <4>. QED
        BY <2>6, <4>1, <4>2
    <3>. QED
      BY <2>5, <3>1 DEF FilesInOrder
  <2>. QED
    BY <2>7, <2>8
<1>2. ASSUME AppendPartial
      PROVE  Extends(files, files') /\ FilesInOrder'
  <2>1. /\ Len(files') = Len(files)
        /\ \A g \in 1..Len(files) : files'[g].lines = files[g].lines
    BY <1>0, <1>2 DEF AppendPartial, Written
  <2>. QED
    BY <1>0, <2>1 DEF Extends, FilesInOrder
<1>3. ASSUME NEW p \in Paths, Rotate(p)
      PROVE  Extends(files, files') /\ FilesInOrder'
  <2>1. /\ Len(files') = Len(files) + 1
        /\ \A g \in 1..Len(files) : files'[g] = files[g]
        /\ files'[Len(files) + 1] = NewFile(p, clock + 1)
    BY <1>0, <1>3 DEF Rotate
  <2>2. files'[Len(files) + 1].lines = HeadOf(HeadLines)
    BY <2>1 DEF NewFile
  <2>3. \A g \in 1..Len(files') : g \in 1..Len(files) \/ g = Len(files) + 1
    BY <1>0, <2>1
  <2>. QED
    BY <1>0, <2>1, <2>2, <2>3, HeadInOrder DEF Extends, FilesInOrder
<1>4. LogUnchanged
  BY DEF Logs, AppendLine, AppendPartial, Rotate
<1>. QED
  BY <1>1, <1>2, <1>3, <1>4 DEF Logs

(* The logger invalidates no checkpoint: it only adds to files. *)
LEMMA LogsKeepResume ==
    ASSUME TypeInv, TypeInv', FilesInOrder, ResumeInv, Logs
    PROVE  ResumeInv'
<1>1. /\ files \in Seq(File) /\ files' \in Seq(File)
      /\ Extends(files, files')
      /\ LogUnchanged
  BY LogsExtend DEF TypeInv, TypeOK
<1>2. ASSUME NEW t, NEW c, Resumable(files, misplaced, t, c)
      PROVE  Resumable(files', misplaced, t, c)
  BY <1>1, <1>2, ResumableStays
<1>. QED
  BY <1>1, <1>2
     DEF ResumeInv, AllResumable, Position, LogUnchanged, locals

(* The position of a run that has read l lines of file g, up to offset o. *)
At(l, o, g) == [line |-> l, next |-> o, gen |-> g]

(* A run that has read up to line l and gets line i of file g, has read up *)
(* to that one, and it is line l + 1 and whole, if the file is not         *)
(* misplaced.                                                              *)
LEMMA LineRead ==
    ASSUME TypeInv, FilesInOrder, NEW g \in 1..Len(files),
           NEW l \in Nat, NEW o \in Nat, NEW t, NEW u, t \subseteq u,
           Resumable(files, misplaced, db \cup t, At(l, o, g)),
           NEW i \in 1..Len(files[g].lines),
           EndOf(files[g].lines, i - 1) <= o, o < files[g].lines[i].end,
           (/\ files[g].lines[i].kind \in DataKinds
            /\ o = EndOf(files[g].lines, i - 1)) => Holds(u, g, i)
    PROVE  /\ Resumable(files, misplaced, db \cup u,
                        At(l + 1, files[g].lines[i].end, g))
           /\ g \notin misplaced =>
                 i = l + 1 /\ o = EndOf(files[g].lines, i - 1)
<1>. DEFINE ls == files[g].lines
<1>1. ls \in Seq(Line) /\ InOrder(ls) /\ Len(ls) \in Nat
  BY FileFields DEF TypeInv, TypeOK, FilesInOrder
<1>2. ASSUME g \notin misplaced
      PROVE  /\ l + 1 \in 0..Len(ls)
             /\ ls[i].end = EndOf(ls, l + 1)
             /\ StoredUpTo(db \cup u, files, g, l + 1)
             /\ i = l + 1 /\ o = EndOf(ls, i - 1)
  <2>1. /\ l \in 0..Len(ls)
        /\ o = EndOf(ls, l)
        /\ StoredUpTo(db \cup t, files, g, l)
    BY <1>2 DEF Resumable, At
  <2>2. i = l + 1
    BY <1>1, <2>1, NextIsWhole
  <2>3. o = EndOf(ls, i - 1)
    BY <2>1, <2>2
  <2>4. ls[i].kind \in DataKinds => Holds(db \cup u, g, i)
    BY <2>3, HoldsUnion
  <2>5. StoredUpTo(db \cup u, files, g, l + 1)
    <3>. SUFFICES ASSUME NEW j \in DataLines(ls), j <= l + 1
                  PROVE  Holds(db \cup u, g, j)
      BY DEF StoredUpTo
    <3>1. CASE j = i
      BY <2>4, <3>1 DEF DataLines
    <3>2. CASE j # i
      <4>1. j <= l
        BY <1>1, <2>1, <2>2, <3>2 DEF DataLines
      <4>2. Holds(db \cup t, g, j)
        BY <2>1, <4>1 DEF StoredUpTo
      <4>. QED
        BY <4>2 DEF Holds
    <3>. QED
      BY <3>1, <3>2
  <2>. QED
    BY <1>1, <2>2, <2>3, <2>5 DEF EndOf
<1>. QED
  BY <1>1, <1>2 DEF Resumable, At

(* The checkpoints of a run with the one of a line it has read. *)
LEMMA CheckpointTaken ==
    ASSUME NEW s \in Seq(Checkpoint), NEW t, NEW u, t \subseteq u,
           TypeInv, AllResumable(db \cup t, s),
           NEW c \in Checkpoint, Resumable(files, misplaced, db \cup u, c)
    PROVE  /\ TrimCheckpoints(Append(s, c)) \in Seq(Checkpoint)
           /\ AllResumable(db \cup u, TrimCheckpoints(Append(s, c)))
<1>1. files \in Seq(File) /\ Extends(files, files)
  BY FileFields DEF TypeInv, TypeOK, Extends
<1>2. ASSUME NEW d, Resumable(files, misplaced, db \cup t, d)
      PROVE  Resumable(files, misplaced, db \cup u, d)
  <2>1. \A g, j : Holds(db \cup t, g, j) => Holds(db \cup u, g, j)
    BY DEF Holds
  <2>. QED
    BY <1>1, <1>2, <2>1, ResumableStays
<1>3. /\ Append(s, c) \in Seq(Checkpoint)
      /\ \A k \in 1..Len(Append(s, c)) :
            Append(s, c)[k] = c \/ \E j \in 1..Len(s) : Append(s, c)[k] = s[j]
  OBVIOUS
<1>4. \A k \in 1..Len(Append(s, c)) :
         Resumable(files, misplaced, db \cup u, Append(s, c)[k])
  BY <1>2, <1>3 DEF AllResumable
<1>. QED
  BY <1>3, <1>4, TrimKeeps DEF AllResumable

(* A plan made from checkpoints that can be resumed from is one of them,   *)
(* or the start of the file.                                               *)
LEMMA PlanResumes ==
    ASSUME NEW s \in FileState \cup {NoState},
           s # NoState => AllResumable(db, s.cks), NEW p, NEW n
    PROVE  LET from == ResumePoint(s, p, n) IN
           /\ from.line \in Nat /\ from.next \in Nat /\ from.gen \in Nat
           /\ \/ from.next = 0 /\ from.line = 0
              \/ /\ from.next > 0
                 /\ Resumable(files, misplaced, db,
                       [line |-> from.line, next |-> from.next, gen |-> from.gen])
<1>. DEFINE from == ResumePoint(s, p, n)
<1>1. CASE from = FromStart
  BY <1>1 DEF FromStart
<1>2. CASE from # FromStart
  <2>1. s \in FileState /\ s # NoState
    BY <1>2, ResumePointKnown DEF ResumePoint
  <2>2. PICK k \in 1..Len(s.cks) : from = s.cks[k]
    BY <1>2, ResumePointKnown
  <2>3. s.cks \in Seq(Checkpoint)
    BY <2>1 DEF FileState
  <2>4. from \in Checkpoint
    BY <2>2, <2>3
  <2>5. Resumable(files, misplaced, db, from)
    BY <2>1, <2>2 DEF AllResumable
  <2>. HIDE DEF from
  <2>6. /\ from = [line |-> from.line, next |-> from.next, gen |-> from.gen]
        /\ from.line \in Nat /\ from.next \in Nat \ {0} /\ from.gen \in Nat
    BY <2>4 DEF Checkpoint
  <2>. QED
    BY <2>5, <2>6 DEF from
<1>. QED
  BY <1>1, <1>2

(* Where a run begins to read file g, planned as line l and offset o of h. *)
LEMMA OpenedAt ==
    ASSUME TypeInv, FilesInOrder, NEW g \in 1..Len(files),
           NEW l \in Nat, NEW o \in Nat, NEW h,
           \/ o = 0 /\ l = 0
           \/ o > 0 /\ Resumable(files, misplaced, db,
                                [line |-> l, next |-> o, gen |-> h]),
           NEW bad, bad = IF o > 0 /\ h # g THEN misplaced \cup {g} ELSE misplaced,
           NEW m, m = l + (IF o = 0 THEN HeadLines ELSE 0),
           NEW q, q = IF o = 0 THEN EndOf(files[g].lines, HeadLines) ELSE o
    PROVE  /\ m \in Nat /\ q \in Nat
           /\ Resumable(files, bad, db, [line |-> m, next |-> q, gen |-> g])
<1>1. /\ HeadLines \in 0..Len(files[g].lines) /\ HeadLines \in Nat
      /\ EndOf(files[g].lines, HeadLines) \in Nat
  <2>1. files[g].lines \in Seq(Line) /\ HeadLines \in 0..Len(files[g].lines)
    BY FileFields, GrowingFileAssumption DEF TypeInv, TypeOK, FilesHaveHeads
  <2>. QED
    BY <2>1, LinesEndTyped
<1>2. CASE o = 0
  <2>1. m = HeadLines /\ q = EndOf(files[g].lines, HeadLines)
    BY <1>1, <1>2
  <2>2. StoredUpTo(db, files, g, HeadLines)
    BY <1>1 DEF FilesInOrder, StoredUpTo, DataLines, DataKinds
  <2>. QED
    BY <1>1, <2>1, <2>2 DEF Resumable
<1>3. CASE o # 0
  <2>1. m = l /\ q = o /\ o > 0
    BY <1>3
  <2>. QED
    BY <1>3, <2>1 DEF Resumable
<1>. QED
  BY <1>2, <1>3

(* What a read line does to the position of the run and to its rows. *)
LEMMA ReadKeepsPosition ==
    ASSUME TypeInv, FilesInOrder, ResumeInv, pc = "read",
           NEW i \in 1..Len(files[gen].lines), ReadRow(i) \/ SkipLine(i)
    PROVE  /\ tx \subseteq tx'
           /\ Resumable(files, misplaced, db \cup tx',
                  [line |-> line + 1, next |-> files[gen].lines[i].end,
                   gen |-> gen])
           /\ gen \notin misplaced => i = line + 1 /\ IsWhole(i)
<1>1. tx \subseteq tx'
  BY DEF ReadRow, SkipLine
<1>2. gen \in 1..Len(files) /\ line \in Nat /\ off \in Nat
  BY DEF TypeInv, TypeOK, RunHasFile, InRun
<1>3. Resumable(files, misplaced, db \cup tx, [line |-> line, next |-> off, gen |-> gen])
  BY DEF ResumeInv, Position
<1>4. /\ EndOf(files[gen].lines, i - 1) <= off
      /\ off < files[gen].lines[i].end
  BY DEF ReadRow, SkipLine, IsNextLine
<1>5. ASSUME files[gen].lines[i].kind \in DataKinds, IsWhole(i)
      PROVE  Holds(tx', gen, i)
  <2>1. ReadRow(i)
    BY <1>5 DEF SkipLine
  <2>2. [gen |-> gen, idx |-> i, num |-> line + 1, whole |-> IsWhole(i)] \in tx'
    BY <2>1 DEF ReadRow
  <2>. QED
    BY <1>5, <2>2 DEF Holds
<1>6. /\ Resumable(files, misplaced, db \cup tx',
              [line |-> line + 1, next |-> files[gen].lines[i].end, gen |-> gen])
      /\ gen \notin misplaced =>
            i = line + 1 /\ off = EndOf(files[gen].lines, i - 1)
  <2>1. (/\ files[gen].lines[i].kind \in DataKinds
         /\ off = EndOf(files[gen].lines, i - 1)) => Holds(tx', gen, i)
    BY <1>5 DEF IsWhole
  <2>2. Resumable(files, misplaced, db \cup tx, At(line, off, gen))
    BY <1>3 DEF At
  <2>3. /\ Resumable(files, misplaced, db \cup tx',
                     At(line + 1, files[gen].lines[i].end, gen))
        /\ gen \notin misplaced =>
              i = line + 1 /\ off = EndOf(files[gen].lines, i - 1)
    BY <1>1, <1>2, <1>4, <2>1, <2>2, LineRead
  <2>. QED
    BY <2>3 DEF At
<1>. QED
  BY <1>1, <1>6 DEF IsWhole

(* Every step of a run keeps what it holds to resume from. *)
LEMMA RunsKeepResume ==
    ASSUME TypeInv, FilesInOrder, ResumeInv, Runs \/ RunFails
    PROVE  ResumeInv'
<1>0. files \in Seq(File) /\ Extends(files, files)
  BY FileFields DEF TypeInv, TypeOK, Extends
<1>. USE DEF ResumeInv, AllResumable
<1>1. CASE StartRun
  BY <1>1 DEF StartRun, logger
<1>2. CASE LoadState
  BY <1>2 DEF LoadState, Readable, logger
<1>3. ASSUME EndRun,
             UNCHANGED <<logger, db, misplaced>>,
             state' = state \/ (state' = pending /\ pending # NoState)
      PROVE  ResumeInv'
  BY <1>3 DEF EndRun, logger
<1>4. CASE LoadFails
  BY <1>3, <1>4 DEF LoadFails
<1>5. CASE SkipUnchanged
  BY <1>3, <1>5 DEF SkipUnchanged
<1>6. CASE Plan
  <2>. DEFINE from == ResumePoint(loaded, path, Size(dir[path]))
  <2>1. /\ line' = from.line /\ off' = from.next /\ gen' = from.gen
        /\ pc' = "open" /\ tx = {}
        /\ UNCHANGED <<files, misplaced, db, state, loaded, pending, tx, cks>>
    BY <1>6 DEF Plan, logger
  <2>2. \/ from.next = 0 /\ from.line = 0
        \/ /\ from.next > 0
           /\ Resumable(files, misplaced, db,
                 [line |-> from.line, next |-> from.next, gen |-> from.gen])
    BY PlanResumes DEF TypeInv, TypeOK
  <2>. HIDE DEF from
  <2>. QED
    BY <2>1, <2>2 DEF Position
<1>7. CASE OpenFile
  <2>1. /\ UNCHANGED <<files, db, state, loaded, pending, tx, cks>>
        /\ pc' = "read" /\ tx = {} /\ gen' = dir[path]
        /\ misplaced \subseteq misplaced'
    BY <1>7 DEF OpenFile, logger
  <2>2. ASSUME NEW c, Resumable(files, misplaced, db, c)
        PROVE  Resumable(files, misplaced', db, c)
    BY <1>0, <2>1, <2>2, ResumableStays
  <2>3. Resumable(files, misplaced', db, Position')
    <3>1. /\ dir[path] \in 1..Len(files) /\ line \in Nat /\ off \in Nat
          /\ \/ off = 0 /\ line = 0
             \/ off > 0 /\ Resumable(files, misplaced, db,
                                    [line |-> line, next |-> off, gen |-> gen])
      BY <1>7 DEF OpenFile, TypeInv, TypeOK, RunHasFile, Position
    <3>2. /\ misplaced' = IF off > 0 /\ gen # dir[path]
                          THEN misplaced \cup {dir[path]} ELSE misplaced
          /\ line' = line + (IF off = 0 THEN HeadLines ELSE 0)
          /\ off' = IF off = 0 THEN EndOf(files[dir[path]].lines, HeadLines) ELSE off
      BY <1>7 DEF OpenFile, Passed
    <3>3. Resumable(files, misplaced', db,
                    [line |-> line', next |-> off', gen |-> dir[path]])
      BY <3>1, <3>2, OpenedAt
    <3>. QED
      BY <2>1, <3>3 DEF Position
  <2>. QED
    BY <2>1, <2>2, <2>3
<1>8. ASSUME pc = "read", NEW i \in 1..Len(files[gen].lines),
             ReadRow(i) \/ SkipLine(i)
      PROVE  ResumeInv'
  <2>. DEFINE c == [line |-> line + 1, next |-> files[gen].lines[i].end,
                    gen |-> gen]
  <2>1. /\ UNCHANGED <<files, misplaced, db, state, loaded, pending, gen, pc>>
        /\ line' = line + 1 /\ off' = files[gen].lines[i].end
    BY <1>8 DEF ReadRow, SkipLine, Advance, logger
  <2>2. tx \subseteq tx' /\ Resumable(files, misplaced, db \cup tx', c)
    BY <1>8, ReadKeepsPosition
  <2>3. ASSUME NEW d, Resumable(files, misplaced, db \cup tx, d)
        PROVE  Resumable(files, misplaced, db \cup tx', d)
    <3>1. \A g, j : Holds(db \cup tx, g, j) => Holds(db \cup tx', g, j)
      BY <2>2 DEF Holds
    <3>. QED
      BY <1>0, <2>3, <3>1, ResumableStays
  <2>4. \A k \in 1..Len(cks') : Resumable(files, misplaced, db \cup tx', cks'[k])
    <3>1. CASE cks' = cks
      BY <2>3, <3>1
    <3>2. CASE ReadRow(i)
      <4>1. c \in Checkpoint
        <5>1. /\ gen \in 1..Len(files)
              /\ files[gen].lines[i] \in Line
          BY <1>8, FileFields DEF TypeInv, TypeOK, RunHasFile, InRun
        <5>2. files[gen].lines[i].end \in Nat \ {0}
          BY <5>1 DEF Line
        <5>. QED
          BY <5>1, <5>2 DEF Checkpoint, TypeInv, TypeOK
      <4>. HIDE DEF c
      <4>2. cks' = TrimCheckpoints(Append(cks, c))
        BY <3>2 DEF ReadRow, c
      <4>3. cks \in Seq(Checkpoint)
        BY DEF TypeInv, TypeOK
      <4>. QED
        BY <2>2, <4>1, <4>2, <4>3, CheckpointTaken
    <3>. QED
      BY <1>8, <3>1, <3>2 DEF SkipLine
  <2>5. (Resumable(files, misplaced, db \cup tx, Position))'
    BY <2>1, <2>2 DEF Position
  <2>. QED
    BY <1>8, <2>1, <2>4, <2>5
<1>9. CASE EndOfFile
  BY <1>9 DEF EndOfFile, AfterLastLine, logger, locals, Position
<1>10. CASE CommitTx
  <2>1. /\ UNCHANGED <<files, misplaced, state, loaded, pending, cks>>
        /\ pc' = "export" /\ tx' = {} /\ db' = Upsert(db, tx)
    BY <1>10 DEF CommitTx, Committed, logger
  <2>2. /\ \A g, i : Holds(db \cup tx, g, i) => Holds(db', g, i)
        /\ \A g, i : Holds(db, g, i) => Holds(db', g, i)
    BY <2>1, UpsertHolds, HoldsUnion
  <2>3. /\ \A c : Resumable(files, misplaced, db \cup tx, c)
                     => Resumable(files, misplaced, db', c)
        /\ \A c : Resumable(files, misplaced, db, c)
                     => Resumable(files, misplaced, db', c)
    BY <1>0, <2>2, ResumableStays
  <2>4. db' \cup tx' = db'
    BY <2>1
  <2>. QED
    BY <2>1, <2>3, <2>4
<1>11. CASE ExportMetrics
  BY <1>11 DEF ExportMetrics, logger, locals
<1>12. CASE ExportFails
  BY <1>3, <1>12 DEF ExportFails
<1>13. CASE StatAgain
  <2>1. /\ UNCHANGED <<files, misplaced, db, state, loaded, tx, cks>>
        /\ pc' = "truncate" /\ tx = {}
        /\ pending'.cks = IF loaded # NoState /\ cks = <<>>
                          THEN loaded.cks ELSE cks
    BY <1>13 DEF StatAgain, KeptCheckpoints, logger
  <2>2. db \cup tx = db
    BY <2>1
  <2>. QED
    BY <2>1, <2>2
<1>14. CASE TruncateState
  BY <1>14 DEF TruncateState, logger, locals
<1>15. CASE SaveState
  <2>1. UNCHANGED <<logger, db, misplaced>> /\ EndRun /\ state' = pending
    BY <1>15 DEF SaveState
  <2>. QED
    BY <2>1 DEF EndRun, logger
<1>16. CASE RunFails
  BY <1>3, <1>16 DEF RunFails
<1>. QED
  BY <1>1, <1>2, <1>4, <1>5, <1>6, <1>7, <1>8, <1>9, <1>10, <1>11, <1>12,
     <1>13, <1>14, <1>15, <1>16 DEF Runs, Reads

LEMMA ResumeStarts == Init => FilesInOrder /\ ResumeInv
<1>. SUFFICES ASSUME Init PROVE FilesInOrder /\ ResumeInv
  OBVIOUS
<1>1. /\ Len(files) = 1
      /\ files[1].lines = HeadOf(HeadLines)
  BY DEF Init, NewFile
<1>2. FilesInOrder
  BY <1>1, HeadInOrder DEF FilesInOrder
<1>3. ResumeInv
  BY DEF Init, ResumeInv, AllResumable
<1>. QED
  BY <1>2, <1>3

LEMMA ResumeInvariant == Spec => [](FilesInOrder /\ ResumeInv)
<1>1. TypeInv /\ TypeInv' /\ FilesInOrder /\ ResumeInv /\ [Next]_vars
        => (FilesInOrder /\ ResumeInv)'
  <2>. SUFFICES ASSUME TypeInv, TypeInv', FilesInOrder, ResumeInv, [Next]_vars
                PROVE  FilesInOrder' /\ ResumeInv'
    OBVIOUS
  <2>1. CASE Logs
    BY <2>1, LogsExtend, LogsKeepResume
  <2>2. CASE Runs \/ RunFails
    <3>1. files' = files
      BY <2>2 DEF Runs, Reads, StartRun, LoadState, LoadFails, SkipUnchanged,
         Plan, OpenFile, ReadRow, SkipLine, EndOfFile, CommitTx,
         ExportMetrics, ExportFails, StatAgain, TruncateState, SaveState,
         RunFails, logger
    <3>. QED
      BY <2>2, <3>1, RunsKeepResume DEF FilesInOrder
  <2>3. CASE UNCHANGED vars
    BY <2>3 DEF vars, logger, locals, FilesInOrder, ResumeInv, AllResumable,
       Position
  <2>. QED
    BY <2>1, <2>2, <2>3 DEF Next
<1>. QED
  BY <1>1, ResumeStarts, TypeInvariant, PTL DEF Spec

(* CheckpointsCommitted holds of every run of the collector, for any       *)
(* replay window and whatever fails in between: a saved offset is never    *)
(* ahead of what the database has committed.                               *)
THEOREM CheckpointsAreCommitted == Spec => []CheckpointsCommitted
<1>1. TypeInv /\ ResumeInv => CheckpointsCommitted
  <2>. SUFFICES ASSUME TypeInv, ResumeInv,
                       NEW k \in 1..Len(Checkpoints(state))
                PROVE  Resumable(files, misplaced, db, Checkpoints(state)[k])
    BY DEF CheckpointsCommitted
  <2>1. state \notin {NoState, Corrupt}
    BY DEF Checkpoints
  <2>. QED
    BY <2>1 DEF Checkpoints, ResumeInv, AllResumable
<1>. QED
  BY <1>1, TypeInvariant, ResumeInvariant, PTL

-----------------------------------------------------------------------------
(* Rows.  What the table and the open transaction hold comes from complete *)
(* lines, and latestRow goes where its row goes.                           *)

TrueRow(fs, bad, r) ==
    /\ r.gen \in 1..Len(fs)
    /\ r.idx \in DataLines(fs[r.gen].lines)
    /\ r.gen \notin bad => r.whole /\ r.num = r.idx

IsKept(table, r) == \E q \in table : Key(q) = Key(r)

RowsInv ==
    /\ \A r \in db \cup tx : TrueRow(files, misplaced, r)
    /\ \A r \in tx : r.gen = gen /\ (gen \notin misplaced => r.idx <= line)
    /\ pc \in {"idle", "load", "plan", "open"} => last = NoRow
    /\ pc \in {"read", "commit"} /\ last # NoRow => last \in tx
    /\ pc = "export" /\ last # NoRow => IsKept(db, last)
    /\ prom # NoRow => IsKept(db, prom)

LEMMA TrueRowStays ==
    ASSUME NEW fs \in Seq(File), NEW fs2 \in Seq(File), Extends(fs, fs2),
           NEW bad, NEW bad2, bad \subseteq bad2,
           NEW r, TrueRow(fs, bad, r)
    PROVE  TrueRow(fs2, bad2, r)
<1>1. /\ r.gen \in 1..Len(fs)
      /\ Len(fs[r.gen].lines) \in Nat
      /\ Len(fs2[r.gen].lines) \in Nat
      /\ Len(fs[r.gen].lines) <= Len(fs2[r.gen].lines)
      /\ \A i \in 1..Len(fs[r.gen].lines) :
            fs2[r.gen].lines[i] = fs[r.gen].lines[i]
  BY FileFields DEF Extends, TrueRow
<1>2. r.gen \in 1..Len(fs2)
  BY <1>1 DEF Extends
<1>3. r.idx \in DataLines(fs2[r.gen].lines)
  BY <1>1 DEF TrueRow, DataLines
<1>. QED
  BY <1>2, <1>3 DEF TrueRow

LEMMA LogsKeepRows ==
    ASSUME TypeInv, TypeInv', FilesInOrder, RowsInv, Logs
    PROVE  RowsInv'
<1>1. /\ files \in Seq(File) /\ files' \in Seq(File)
      /\ Extends(files, files')
      /\ LogUnchanged
  BY LogsExtend DEF TypeInv, TypeOK
<1>2. \A r : TrueRow(files, misplaced, r) => TrueRow(files', misplaced, r)
  BY <1>1, TrueRowStays
<1>. QED
  BY <1>1, <1>2 DEF RowsInv, LogUnchanged, locals

LEMMA RunsKeepRows ==
    ASSUME TypeInv, FilesInOrder, ResumeInv, RowsInv, Runs \/ RunFails
    PROVE  RowsInv'
<1>0. /\ files \in Seq(File) /\ Extends(files, files)
      /\ pc \notin {"read", "commit"} => tx = {}
      /\ line \in Nat
  BY FileFields DEF TypeInv, TypeOK, Extends, ResumeInv
<1>. USE DEF RowsInv
<1>1. CASE StartRun
  BY <1>1 DEF StartRun, logger
<1>2. CASE LoadState
  BY <1>2 DEF LoadState, Readable, logger
<1>3. ASSUME EndRun, UNCHANGED <<logger, db, prom, misplaced>>
      PROVE  RowsInv'
  BY <1>3 DEF EndRun, logger
<1>4. CASE LoadFails
  BY <1>3, <1>4 DEF LoadFails
<1>5. CASE SkipUnchanged
  BY <1>3, <1>5 DEF SkipUnchanged
<1>6. CASE Plan
  BY <1>0, <1>6 DEF Plan, logger
<1>7. CASE OpenFile
  <2>1. /\ UNCHANGED <<files, db, prom, last, tx>>
        /\ tx = {} /\ pc = "open" /\ pc' = "read"
        /\ misplaced \subseteq misplaced'
    BY <1>0, <1>7 DEF OpenFile, logger
  <2>2. \A r : TrueRow(files, misplaced, r) => TrueRow(files, misplaced', r)
    BY <1>0, <2>1, TrueRowStays
  <2>. QED
    BY <2>1, <2>2
<1>8. ASSUME pc = "read", NEW i \in 1..Len(files[gen].lines), ReadRow(i)
      PROVE  RowsInv'
  <2>. DEFINE row == [gen |-> gen, idx |-> i, num |-> line + 1,
                      whole |-> IsWhole(i)]
  <2>1. /\ UNCHANGED <<files, misplaced, db, prom, gen, pc>>
        /\ tx' = tx \cup {row} /\ last' = row
        /\ line' = line + 1
        /\ i \in DataLines(files[gen].lines)
    BY <1>8 DEF ReadRow, LatestRow, Advance, logger, DataLines
  <2>2. gen \in 1..Len(files) /\ files[gen].lines \in Seq(Line)
    BY <1>8, FileFields DEF TypeInv, TypeOK, RunHasFile, InRun
  <2>3. ASSUME gen \notin misplaced
        PROVE  IsWhole(i) /\ i = line + 1
    <3>1. /\ line \in 0..Len(files[gen].lines)
          /\ off = EndOf(files[gen].lines, line)
      BY <1>8, <2>3 DEF ResumeInv, Position, Resumable
    <3>2. i = line + 1
      BY <1>8, <2>2, <3>1, NextIsWhole DEF ReadRow, IsNextLine, FilesInOrder
    <3>. QED
      BY <3>1, <3>2 DEF IsWhole
  <2>4. /\ row.gen = gen /\ row.idx = i
        /\ row.num = line + 1 /\ row.whole = IsWhole(i)
    OBVIOUS
  <2>. HIDE DEF row
  <2>5. TrueRow(files, misplaced, row)
    BY <2>1, <2>2, <2>3, <2>4 DEF TrueRow
  <2>6. /\ row.gen = gen
        /\ gen \notin misplaced => row.idx <= line + 1
    BY <2>3, <2>4, <1>0
  <2>7. \A r \in tx : gen \notin misplaced => r.idx <= line + 1
    <3>1. \A r \in tx : r.idx \in Nat
      BY DEF TypeInv, TypeOK, Row
    <3>. QED
      BY <3>1, <1>0
  <2>. QED
    BY <1>8, <2>1, <2>5, <2>6, <2>7
<1>9. ASSUME pc = "read", NEW i \in 1..Len(files[gen].lines), SkipLine(i)
      PROVE  RowsInv'
  <2>1. /\ UNCHANGED <<files, misplaced, db, prom, gen, pc, tx, last>>
        /\ line' = line + 1
    BY <1>9 DEF SkipLine, Advance, logger
  <2>2. \A r \in tx : r.idx \in Nat
    BY DEF TypeInv, TypeOK, Row
  <2>. QED
    BY <1>0, <1>9, <2>1, <2>2
<1>10. CASE EndOfFile
  BY <1>10 DEF EndOfFile, AfterLastLine, logger, locals
<1>11. CASE CommitTx
  <2>1. /\ UNCHANGED <<files, misplaced, prom, gen, last>>
        /\ pc = "commit" /\ pc' = "export"
        /\ tx' = {} /\ db' = Upsert(db, tx)
    BY <1>11 DEF CommitTx, Committed, logger
  <2>2. /\ db' \subseteq db \cup tx
        /\ \A r \in db \cup tx : IsKept(db', r)
    <3>1. Upsert(db, tx) \subseteq db \cup tx
      BY UpsertHolds
    <3>2. \A r \in db \cup tx : \E q \in Upsert(db, tx) : Key(q) = Key(r)
      BY UpsertKeeps
    <3>. QED
      BY <2>1, <3>1, <3>2 DEF IsKept
  <2>3. \A r : IsKept(db, r) => IsKept(db', r)
    BY <2>2 DEF IsKept
  <2>. QED
    BY <2>1, <2>2, <2>3
<1>12. CASE ExportMetrics
  <2>1. /\ UNCHANGED <<files, misplaced, db, tx, last, gen, line>>
        /\ pc = "export" /\ pc' = "stat"
        /\ prom' = prom \/ (last # NoRow /\ prom' = last)
    BY <1>12 DEF ExportMetrics, logger, locals
  <2>. QED
    BY <2>1
<1>13. CASE ExportFails
  BY <1>3, <1>13 DEF ExportFails
<1>14. CASE StatAgain
  BY <1>0, <1>14 DEF StatAgain, KeptCheckpoints, logger
<1>15. CASE TruncateState
  BY <1>0, <1>15 DEF TruncateState, logger, locals
<1>16. CASE SaveState
  BY <1>3, <1>16 DEF SaveState
<1>17. CASE RunFails
  BY <1>3, <1>17 DEF RunFails
<1>. QED
  BY <1>1, <1>2, <1>4, <1>5, <1>6, <1>7, <1>8, <1>9, <1>10, <1>11, <1>12,
     <1>13, <1>14, <1>15, <1>16, <1>17 DEF Runs, Reads

LEMMA RowsInvariant == Spec => []RowsInv
<1>1. Init => RowsInv
  BY DEF Init, RowsInv
<1>2. TypeInv /\ TypeInv' /\ FilesInOrder /\ ResumeInv /\ RowsInv
        /\ [Next]_vars => RowsInv'
  <2>1. UNCHANGED vars /\ RowsInv => RowsInv'
    BY DEF vars, logger, locals, RowsInv
  <2>. QED
    BY <2>1, LogsKeepRows, RunsKeepRows DEF Next
<1>. QED
  BY <1>1, <1>2, TypeInvariant, ResumeInvariant, PTL DEF Spec

(* What the table holds of a file is what its lines say, with their true   *)
(* numbers, however often the rows were read again.                        *)
THEOREM StoredRowsTrue == Spec => []StoredRowsAreTrue
<1>1. RowsInv => StoredRowsAreTrue
  BY DEF RowsInv, TrueRow, StoredRowsAreTrue
<1>. QED
  BY <1>1, RowsInvariant, PTL

(* The .prom file never shows a row that is not in the table. *)
THEOREM PromStored == Spec => []PromIsStored
<1>1. RowsInv => PromIsStored
  BY DEF RowsInv, IsKept, PromIsStored
<1>. QED
  BY <1>1, RowsInvariant, PTL

-----------------------------------------------------------------------------
(* Order.  A run ends at a line no earlier than any it knows to be         *)
(* exported or saved for its file, so neither the state file nor the .prom *)
(* file goes back.                                                         *)
(* The line a checkpoint or a row is of: one of a file there is, with a row. *)
OfRow(fs, c) ==
    /\ c.gen \in 1..Len(fs)
    /\ \E i \in DataLines(fs[c.gen].lines) : c.next = fs[c.gen].lines[i].end

IsRow(fs, r) == r.gen \in 1..Len(fs) /\ r.idx \in DataLines(fs[r.gen].lines)

AllOfRows(fs, s) == \A k \in 1..Len(s) : OfRow(fs, s[k])

LastCk == cks[Len(cks)]

FromRows ==
    /\ AllOfRows(files, Checkpoints(state))
    /\ loaded # NoState => AllOfRows(files, loaded.cks)
    /\ pending # NoState => AllOfRows(files, pending.cks)
    /\ \A k \in 1..Len(cks) : OfRow(files, cks[k]) /\ cks[k].gen = gen
    /\ pc \notin InRun => cks = <<>>
    /\ prom # NoRow => IsRow(files, prom)

(* The file a run reads is at least as new as those it knows of. *)
NotNewer(s, g) == \A k \in 1..Len(s) : s[k].gen <= g

Latest ==
    /\ dir[files[Newest].path] = Newest
    /\ pc = "load" => NotNewer(Checkpoints(state), dir[path])
    /\ pc \in {"plan", "open"} /\ loaded # NoState =>
          NotNewer(loaded.cks, dir[path])
    /\ pc \in InRun /\ loaded # NoState => NotNewer(loaded.cks, gen)
    /\ pc \in {"load", "plan", "open"} /\ prom # NoRow => prom.gen <= dir[path]
    /\ pc \in InRun /\ prom # NoRow => prom.gen <= gen

(* The last checkpoint of a run is that of the last row before off. *)
Covered ==
    cks # <<>> =>
        /\ LastCk.next <= off
        /\ \E n \in 1..Len(files[gen].lines) : off = files[gen].lines[n].end
        /\ \A i \in DataLines(files[gen].lines) :
              files[gen].lines[i].end <= off =>
                files[gen].lines[i].end <= LastCk.next

LastIsLast ==
    last # NoRow =>
        /\ cks # <<>> /\ last.gen = gen
        /\ last.idx \in DataLines(files[gen].lines)
        /\ LastCk.next = files[gen].lines[last.idx].end

(* At the end of the file it has read what earlier runs had read of it. *)
AtEnd ==
    pc \in InRun \ {"read"} =>
        /\ loaded # NoState => \A k \in 1..Len(loaded.cks) :
              loaded.cks[k].gen = gen => loaded.cks[k].next <= off
        /\ prom # NoRow /\ prom.gen = gen =>
              files[gen].lines[prom.idx].end <= off

AdvanceInv ==
    /\ FromRows
    /\ Latest
    /\ Covered
    /\ LastIsLast
    /\ AtEnd
    /\ pc \in {"truncate", "save"} => pending.cks = KeptCheckpoints


(* The last checkpoint is never trimmed. *)
LEMMA TrimEnds ==
    ASSUME NEW S, NEW s \in Seq(S), NEW c \in S
    PROVE  LET t == TrimCheckpoints(Append(s, c)) IN t # <<>> /\ t[Len(t)] = c
<1>. DEFINE a == Append(s, c)
<1>1. /\ a \in Seq(S) /\ Len(a) = Len(s) + 1 /\ a[Len(a)] = c
      /\ Len(a) \in Nat
  OBVIOUS
<1>. HIDE DEF a
<1>2. CASE Len(a) <= ReplayLines + 1
  BY <1>1, <1>2 DEF TrimCheckpoints, a
<1>3. CASE ~ Len(a) <= ReplayLines + 1
  <2>1. TrimCheckpoints(a) = SubSeq(a, Len(a) - ReplayLines, Len(a))
    BY <1>3 DEF TrimCheckpoints
  <2>2. Len(a) - ReplayLines \in 1..Len(a)
    BY <1>1, <1>3, ReplayLinesAssumption
  <2>3. /\ Len(TrimCheckpoints(a)) = ReplayLines + 1
        /\ TrimCheckpoints(a)[ReplayLines + 1] = a[Len(a)]
    BY <1>1, <2>1, <2>2, ReplayLinesAssumption
  <2>. QED
    BY <1>1, <2>3, ReplayLinesAssumption DEF a
<1>. QED
  BY <1>1, <1>2, <1>3, ReplayLinesAssumption

(* A line that held a row goes on holding it when files grow. *)
LEMMA OfRowStays ==
    ASSUME NEW fs \in Seq(File), NEW fs2 \in Seq(File), Extends(fs, fs2)
    PROVE  /\ \A g \in 1..Len(fs) : \A i \in DataLines(fs[g].lines) :
                 /\ i \in DataLines(fs2[g].lines)
                 /\ fs2[g].lines[i] = fs[g].lines[i]
           /\ \A c : OfRow(fs, c) => OfRow(fs2, c)
           /\ \A r : IsRow(fs, r) => IsRow(fs2, r)
<1>1. ASSUME NEW g \in 1..Len(fs), NEW i \in DataLines(fs[g].lines)
      PROVE  /\ g \in 1..Len(fs2)
             /\ i \in DataLines(fs2[g].lines)
             /\ fs2[g].lines[i] = fs[g].lines[i]
  <2>1. g \in 1..Len(fs2) /\ fs[g] \in File /\ fs2[g] \in File
    BY DEF Extends
  <2>2. Len(fs[g].lines) \in Nat /\ Len(fs2[g].lines) \in Nat
    BY <2>1, FileFields
  <2>. QED
    BY <1>1, <2>1, <2>2 DEF Extends, DataLines
<1>. QED
  BY <1>1 DEF OfRow, IsRow

(* The line of a row ends where the file does, or before. *)
LEMMA RowBeforeEnd ==
    ASSUME NEW ls \in Seq(Line), InOrder(ls), NEW i \in 1..Len(ls)
    PROVE  /\ ls[i].end \in Nat /\ LinesEnd(ls) \in Nat
           /\ ls[i].end <= LinesEnd(ls)
           /\ \A j \in 1..Len(ls) : ls[i].end <= ls[j].end => i <= j
           /\ \A j \in 1..Len(ls) : i < j => ls[i].end < ls[j].end
<1>1. Len(ls) \in Nat /\ Len(ls) \in 1..Len(ls)
  OBVIOUS
<1>2. \A j \in 1..Len(ls) : EndOf(ls, j) = ls[j].end /\ EndOf(ls, j) \in Nat
  BY LinesEndTyped DEF EndOf
<1>3. \A j, k \in 1..Len(ls) : j < k => EndOf(ls, j) < EndOf(ls, k)
  BY DEF InOrder
<1>. QED
  BY <1>1, <1>2, <1>3 DEF LinesEnd

(* The logger only adds lines after all those read. *)
LEMMA LogsKeepAdvance ==
    ASSUME TypeInv, TypeInv', FilesInOrder, AdvanceInv, Logs
    PROVE  AdvanceInv'
<1>1. /\ files \in Seq(File) /\ files' \in Seq(File)
      /\ Extends(files, files') /\ FilesInOrder' /\ LogUnchanged
      /\ cks \in Seq(Checkpoint)
  BY LogsExtend DEF TypeInv, TypeOK
<1>2. UNCHANGED <<state, loaded, pending, cks, gen, off, last, prom, pc, path>>
  BY <1>1 DEF LogUnchanged, locals
<1>3. /\ \A g \in 1..Len(files) : \A i \in DataLines(files[g].lines) :
            /\ i \in DataLines(files'[g].lines)
            /\ files'[g].lines[i] = files[g].lines[i]
      /\ \A c : OfRow(files, c) => OfRow(files', c)
      /\ \A r : IsRow(files, r) => IsRow(files', r)
  BY <1>1, OfRowStays
<1>4. FromRows'
  BY <1>2, <1>3 DEF AdvanceInv, FromRows, AllOfRows
<1>5. Latest'
  <2>1. /\ dir[path] \in Nat /\ dir'[path] \in Nat
        /\ dir[path] <= dir'[path]
        /\ dir'[files'[Newest'].path] = Newest'
    <3>1. ASSUME NEW p \in Paths, Rotate(p)
          PROVE  /\ dir[path] <= dir'[path]
                 /\ dir'[files'[Newest'].path] = Newest'
      <4>1. /\ Newest = Len(files) /\ Len(files) \in Nat
            /\ files' = Append(files, NewFile(p, clock + 1))
            /\ dir' = [dir EXCEPT ![p] = Newest + 1]
        BY <1>1, <3>1 DEF Rotate, Newest
      <4>2. /\ Newest' = Len(files) + 1
            /\ files'[Newest'] = NewFile(p, clock + 1)
        BY <1>1, <4>1 DEF Newest
      <4>3. files'[Newest'].path = p
        BY <4>2 DEF NewFile
      <4>. QED
        BY <4>1, <4>2, <4>3 DEF TypeInv, TypeOK
    <3>2. ASSUME AppendPartial \/ \E kind \in Kinds \ {"head"} : AppendLine(kind)
          PROVE  /\ dir' = dir /\ Newest' = Newest
                 /\ files'[Newest].path = files[Newest].path
      BY <3>2, <1>1 DEF AppendPartial, AppendLine, Written, Newest, TypeInv
    <3>3. /\ dir[path] \in Nat /\ dir'[path] \in Nat
          /\ dir[files[Newest].path] = Newest
      BY <1>2 DEF TypeInv, RunHasFile, AdvanceInv, Latest
    <3>. QED
      BY <3>1, <3>2, <3>3 DEF Logs
  <2>2. ASSUME NEW s, AllOfRows(files, s), NotNewer(s, dir[path])
        PROVE  NotNewer(s, dir'[path])
    BY <2>1, <2>2 DEF NotNewer, AllOfRows, OfRow
  <2>3. prom # NoRow => prom.gen \in Nat
    BY DEF AdvanceInv, FromRows, IsRow
  <2>. QED
    BY <1>2, <2>1, <2>2, <2>3 DEF AdvanceInv, FromRows, Latest
<1>6. ASSUME cks # <<>>
      PROVE  /\ gen \in 1..Len(files)
             /\ files[gen].lines \in Seq(Line)
             /\ files'[gen].lines \in Seq(Line)
             /\ \E n \in 1..Len(files[gen].lines) :
                   off = files[gen].lines[n].end
  <2>1. 1 \in 1..Len(cks)
    BY <1>1, <1>6
  <2>2. gen \in 1..Len(files)
    BY <2>1 DEF AdvanceInv, FromRows, OfRow
  <2>. QED
    BY <1>1, <1>6, <2>2, FileFields DEF AdvanceInv, Covered, Extends
<1>7. Covered'
  <2>. SUFFICES ASSUME cks # <<>>,
                       NEW i \in DataLines(files'[gen].lines),
                       files'[gen].lines[i].end <= off
                PROVE  i \in DataLines(files[gen].lines)
    <3>1. Covered
      BY DEF AdvanceInv
    <3>2. CASE cks = <<>>
      BY <1>2, <3>2 DEF Covered
    <3>3. CASE cks # <<>>
      <4>1. \A n \in 1..Len(files[gen].lines) :
               /\ n \in 1..Len(files'[gen].lines)
               /\ files'[gen].lines[n] = files[gen].lines[n]
        BY <1>1, <1>6, <3>3 DEF Extends
      <4>. QED
        BY <1>2, <1>3, <1>6, <3>1, <3>3, <4>1 DEF Covered, LastCk
    <3>. QED
      BY <3>2, <3>3
  <2>1. PICK n \in 1..Len(files[gen].lines) : off = files[gen].lines[n].end
    BY <1>6
  <2>2. /\ n \in 1..Len(files'[gen].lines)
        /\ files'[gen].lines[n] = files[gen].lines[n]
        /\ InOrder(files'[gen].lines)
        /\ i \in 1..Len(files'[gen].lines)
    BY <1>1, <1>6 DEF Extends, FilesInOrder, DataLines
  <2>3. i <= n
    BY <1>6, <2>1, <2>2, RowBeforeEnd
  <2>4. i \in 1..Len(files[gen].lines)
    BY <1>6, <2>2, <2>3
  <2>. QED
    BY <1>1, <1>6, <2>4 DEF Extends, DataLines
<1>8. LastIsLast'
  BY <1>2, <1>3, <1>6 DEF AdvanceInv, LastIsLast, LastCk
<1>9. AtEnd'
  BY <1>2, <1>3 DEF AdvanceInv, AtEnd, FromRows, IsRow
<1>10. (pc \in {"truncate", "save"} => pending.cks = KeptCheckpoints)'
  BY <1>2 DEF AdvanceInv, KeptCheckpoints
<1>. QED
  BY <1>4, <1>5, <1>7, <1>8, <1>9, <1>10 DEF AdvanceInv

(* A run reads a file to its end, and what earlier runs read is in it. *)
LEMMA RunsKeepAdvance ==
    ASSUME TypeInv, FilesInOrder, RowsInv, AdvanceInv, Runs \/ RunFails
    PROVE  AdvanceInv'
<1>. USE DEF AdvanceInv
<1>0. /\ cks \in Seq(Checkpoint)
      /\ \A k \in 1..Len(cks) : cks[k].next \in Nat
      /\ off \in Nat
      /\ pc \in InRun => /\ gen \in 1..Len(files)
                         /\ files[gen].lines \in Seq(Line)
                         /\ InOrder(files[gen].lines)
      /\ dir[path] \in 1..Len(files)
      /\ pc \in {"idle", "load", "plan", "open"} => pc \notin InRun
  <2>1. \A c \in Checkpoint : c.next \in Nat
    BY DEF Checkpoint
  <2>. QED
    BY <2>1, FileFields DEF TypeInv, TypeOK, RunHasFile, FilesInOrder, InRun
<1>. USE DEF FromRows, Latest, LastIsLast, Covered, LastCk, AtEnd, InRun
<1>1. CASE StartRun
  <2>1. /\ UNCHANGED <<dir, files, state, loaded, pending, cks, gen, off, last, prom>>
        /\ pc = "idle" /\ pc' = "load" /\ dir[path'] = Newest
    BY <1>1 DEF StartRun, Resolved, logger
  <2>2. \A g \in 1..Len(files) : g <= Newest
    BY DEF Newest
  <2>3. NotNewer(Checkpoints(state), dir[path'])
    BY <2>1, <2>2 DEF NotNewer, AllOfRows, OfRow
  <2>4. prom # NoRow => prom.gen <= dir[path']
    BY <2>1, <2>2 DEF IsRow
  <2>. QED
    BY <2>1, <2>3, <2>4 DEF Newest
<1>2. CASE LoadState
  <2>1. loaded' # NoState => loaded'.cks = Checkpoints(state)
    BY <1>2 DEF LoadState, Readable, Checkpoints
  <2>. QED
    BY <1>2, <2>1 DEF LoadState, logger, Newest
<1>3. ASSUME EndRun, UNCHANGED <<logger, prom>>,
             state' = state \/ state' = pending
      PROVE  AdvanceInv'
  <2>1. AllOfRows(files, Checkpoints(state'))
    BY <1>3 DEF Checkpoints, AllOfRows
  <2>. QED
    BY <1>3, <2>1 DEF EndRun, logger, Newest
<1>4. CASE LoadFails
  BY <1>3, <1>4 DEF LoadFails
<1>5. CASE SkipUnchanged
  BY <1>3, <1>5 DEF SkipUnchanged
<1>6. CASE Plan
  BY <1>0, <1>6 DEF Plan, logger, Newest
<1>7. CASE OpenFile
  BY <1>0, <1>7 DEF OpenFile, logger, Newest
<1>8. ASSUME pc = "read", NEW i \in 1..Len(files[gen].lines), ReadRow(i)
      PROVE  AdvanceInv'
  <2>. DEFINE ls == files[gen].lines
              c == [line |-> line + 1, next |-> ls[i].end, gen |-> gen]
  <2>1. /\ UNCHANGED <<dir, files, path, state, loaded, pending, gen, pc, prom>>
        /\ off' = ls[i].end /\ i \in DataLines(ls)
        /\ cks' = TrimCheckpoints(Append(cks, c))
        /\ last'.gen = gen /\ last'.idx = i
    BY <1>8 DEF ReadRow, LatestRow, Advance, logger, DataLines
  <2>2. ls[i].end \in Nat /\ c \in Checkpoint
    <3>1. ls[i] \in Line /\ line + 1 \in Nat
      BY <1>0, <1>8 DEF TypeInv, TypeOK
    <3>2. ls[i].end \in Nat \ {0}
      BY <3>1 DEF Line
    <3>. QED
      BY <1>0, <1>8, <3>1, <3>2 DEF Checkpoint
  <2>3. c.next = ls[i].end /\ c.gen = gen /\ OfRow(files, c)
    BY <1>0, <1>8, <2>1 DEF OfRow
  <2>. HIDE DEF c
  <2>4. cks' # <<>> /\ cks'[Len(cks')] = c
    BY <1>0, <2>1, <2>2, TrimEnds
  <2>5. \A k \in 1..Len(cks') : OfRow(files, cks'[k]) /\ cks'[k].gen = gen
    <3>1. /\ Append(cks, c) \in Seq(Checkpoint)
          /\ \A k \in 1..Len(Append(cks, c)) :
                Append(cks, c)[k] = c \/ \E j \in 1..Len(cks) :
                                            Append(cks, c)[k] = cks[j]
      BY <1>0, <2>2
    <3>2. \A k \in 1..Len(Append(cks, c)) :
             OfRow(files, Append(cks, c)[k]) /\ Append(cks, c)[k].gen = gen
      BY <2>3, <3>1
    <3>. DEFINE new == Append(cks, c)
    <3>. HIDE DEF new
    <3>3. \A k \in 1..Len(TrimCheckpoints(new)) :
             \E j \in 1..Len(new) : TrimCheckpoints(new)[k] = new[j]
      <4>1. new \in Seq(Checkpoint)
        BY <3>1 DEF new
      <4>. QED
        BY <4>1, TrimKeeps
    <3>. QED
      BY <2>1, <3>2, <3>3 DEF new
  <2>6. FromRows'
    BY <1>8, <2>1, <2>5
  <2>7. Latest'
    BY <2>1 DEF Newest
  <2>8. Covered'
    BY <2>1, <2>2, <2>3, <2>4
  <2>9. LastIsLast'
    BY <2>1, <2>3, <2>4
  <2>. QED
    BY <1>8, <2>1, <2>6, <2>7, <2>8, <2>9
<1>9. ASSUME pc = "read", NEW i \in 1..Len(files[gen].lines), SkipLine(i)
      PROVE  AdvanceInv'
  <2>. DEFINE ls == files[gen].lines
  <2>1. /\ UNCHANGED <<dir, files, path, state, loaded, pending, gen, pc, cks, last, prom>>
        /\ off' = ls[i].end
        /\ EndOf(ls, i - 1) <= off /\ off < ls[i].end
        /\ ls[i].kind \notin DataKinds \/ off # EndOf(ls, i - 1)
    BY <1>9 DEF SkipLine, Advance, logger, IsNextLine, IsWhole
  <2>2. Covered'
    <3>. SUFFICES ASSUME cks # <<>>
                  PROVE  /\ LastCk.next <= ls[i].end
                         /\ \A j \in DataLines(ls) :
                               ls[j].end <= ls[i].end => ls[j].end <= LastCk.next
      BY <1>9, <2>1
    <3>1. PICK n \in 1..Len(ls) : off = ls[n].end
      OBVIOUS
    <3>2. i = n + 1 /\ off = EndOf(ls, i - 1)
      <4>1. n \in 0..Len(ls) /\ off = EndOf(ls, n)
        BY <3>1 DEF EndOf
      <4>2. ls \in Seq(Line) /\ InOrder(ls)
        BY <1>0, <1>9
      <4>. HIDE DEF ls
      <4>3. i = n + 1
        BY <1>9, <2>1, <4>1, <4>2, NextIsWhole DEF ls
      <4>. QED
        BY <4>1, <4>3
    <3>4. ASSUME NEW j \in DataLines(ls), ls[j].end <= ls[i].end
          PROVE  ls[j].end <= off
      <4>1. j \in 1..Len(ls) /\ j # i
        BY <2>1, <3>2, <3>4 DEF DataLines
      <4>2. j <= i
        BY <1>0, <1>9, <3>4, <4>1, RowBeforeEnd
      <4>3. j = n \/ j < n
        BY <3>1, <3>2, <4>1, <4>2
      <4>4. ls[n].end \in Nat /\ (j < n => ls[j].end < ls[n].end)
            /\ ls[j].end \in Nat
        BY <1>0, <1>9, <3>1, <4>1, RowBeforeEnd
      <4>. QED
        BY <3>1, <4>3, <4>4
    <3>5. LastCk.next \in Nat /\ ls[i].end \in Nat
      BY <1>0, <1>9, RowBeforeEnd
    <3>6. LastCk.next <= off
      OBVIOUS
    <3>7. \A j \in DataLines(ls) : ls[j].end <= off => ls[j].end <= LastCk.next
      OBVIOUS
    <3>. QED
      BY <1>0, <2>1, <3>4, <3>5, <3>6, <3>7
  <2>. QED
    BY <1>9, <2>1, <2>2 DEF Newest
<1>10. CASE EndOfFile
  <2>1. /\ pc = "read" /\ LinesEnd(files[gen].lines) <= off
        /\ pc' = "commit"
        /\ UNCHANGED <<dir, files, path, state, loaded, pending, gen, off, cks, last, prom>>
    BY <1>10 DEF EndOfFile, AfterLastLine, logger, locals
  <2>2. \A i \in DataLines(files[gen].lines) : files[gen].lines[i].end <= off
    BY <1>0, <2>1, RowBeforeEnd DEF DataLines
  <2>3. AtEnd'
    BY <2>1, <2>2 DEF AllOfRows, OfRow, IsRow
  <2>. QED
    BY <2>1, <2>3 DEF Newest
<1>11. CASE CommitTx
  BY <1>11 DEF CommitTx, logger, Newest
<1>12. CASE ExportMetrics
  <2>1. /\ UNCHANGED <<dir, files, path, state, loaded, pending, gen, off, cks, last>>
        /\ pc = "export" /\ pc' = "stat"
        /\ prom' = prom \/ (last # NoRow /\ prom' = last)
    BY <1>12 DEF ExportMetrics, logger, locals
  <2>2. ASSUME last # NoRow
        PROVE  /\ IsRow(files, last) /\ last.gen = gen
               /\ files[gen].lines[last.idx].end <= off
    BY <1>0, <2>1, <2>2 DEF IsRow
  <2>. QED
    BY <1>0, <2>1, <2>2 DEF Newest
<1>13. CASE ExportFails
  BY <1>3, <1>13 DEF ExportFails
<1>14. CASE StatAgain
  <2>1. /\ UNCHANGED <<dir, files, path, state, loaded, gen, off, cks, last, prom>>
        /\ pc = "stat" /\ pc' = "truncate"
        /\ pending'.cks = KeptCheckpoints
    BY <1>14 DEF StatAgain, logger
  <2>2. AllOfRows(files, pending'.cks)
    BY <2>1 DEF KeptCheckpoints, AllOfRows
  <2>. QED
    BY <2>1, <2>2 DEF Newest, KeptCheckpoints
<1>15. CASE TruncateState
  <2>1. Checkpoints(state') = <<>>
    BY <1>15 DEF TruncateState, Checkpoints
  <2>. QED
    BY <1>15, <2>1 DEF TruncateState, logger, locals, Newest, KeptCheckpoints, AllOfRows
<1>16. CASE SaveState
  BY <1>3, <1>16 DEF SaveState
<1>17. CASE RunFails
  BY <1>3, <1>17 DEF RunFails
<1>. QED
  BY <1>1, <1>2, <1>4, <1>5, <1>6, <1>7, <1>8, <1>9, <1>10, <1>11, <1>12,
     <1>13, <1>14, <1>15, <1>16, <1>17 DEF Runs, Reads

LEMMA AdvanceInvariant == Spec => []AdvanceInv
<1>1. Init => AdvanceInv
  <2>. SUFFICES ASSUME Init PROVE AdvanceInv
    OBVIOUS
  <2>1. Len(files) = 1 /\ files[1].path = path /\ dir[path] = 1
    BY DEF Init, NewFile
  <2>. QED
    BY <2>1 DEF Init, AdvanceInv, FromRows, Latest, Covered, LastIsLast, AtEnd,
       AllOfRows, Checkpoints, InRun, Newest
<1>2. TypeInv /\ TypeInv' /\ FilesInOrder /\ RowsInv /\ AdvanceInv /\ [Next]_vars
        => AdvanceInv'
  <2>1. UNCHANGED vars /\ AdvanceInv => AdvanceInv'
    BY DEF vars, logger, locals, AdvanceInv, FromRows, Latest, Covered,
       LastIsLast, LastCk, AtEnd, Newest, KeptCheckpoints
  <2>. QED
    BY <2>1, LogsKeepAdvance, RunsKeepAdvance DEF Next
<1>. QED
  BY <1>1, <1>2, TypeInvariant, ResumeInvariant, RowsInvariant, PTL DEF Spec

(* No save moves the resume point of a file back, whatever the window of   *)
(* checkpoints, the files and the runs that failed: a run ends where the   *)
(* file does, past every row an earlier run had a checkpoint of            *)
(* (state.go:73-89, writer.go:383-387).                                    *)
THEOREM SavesAdvance == Spec => []SaveAdvances
<1>1. TypeInv /\ AdvanceInv => SaveAdvances
  <2>. SUFFICES ASSUME TypeInv, AdvanceInv, pc \in {"truncate", "save"},
                       loaded # NoState, loaded.cks # <<>>,
                       NEW old, old = loaded.cks[Len(loaded.cks)],
                       NEW new, new = pending.cks[Len(pending.cks)]
                PROVE  /\ pending.cks # <<>>
                       /\ new.gen >= old.gen
                       /\ new.gen = old.gen => new.next >= old.next
    BY DEF SaveAdvances
  <2>1. /\ loaded.cks \in Seq(Checkpoint) /\ cks \in Seq(Checkpoint)
        /\ off \in Nat
    BY DEF TypeInv, TypeOK, FileState
  <2>2. Len(loaded.cks) \in 1..Len(loaded.cks) /\ old \in Checkpoint
    BY <2>1
  <2>3. pending.cks = IF cks = <<>> THEN loaded.cks ELSE cks
    BY DEF AdvanceInv, KeptCheckpoints
  <2>4. \A c \in Checkpoint : c.gen \in Nat /\ c.next \in Nat
    BY DEF Checkpoint
  <2>5. CASE cks = <<>>
    BY <2>2, <2>3, <2>4, <2>5
  <2>6. CASE cks # <<>>
    <3>1. /\ Len(cks) \in 1..Len(cks) /\ new = LastCk
          /\ new \in Checkpoint /\ pending.cks # <<>>
      BY <2>1, <2>3, <2>6 DEF LastCk
    <3>2. new.gen = gen /\ OfRow(files, old)
      BY <2>2, <3>1 DEF AdvanceInv, FromRows, AllOfRows, LastCk
    <3>3. old.gen <= gen
      BY <2>2 DEF AdvanceInv, Latest, NotNewer, InRun
    <3>4. ASSUME old.gen = gen
          PROVE  old.next <= new.next
      <4>1. old.next <= off
        BY <2>2, <3>4 DEF AdvanceInv, AtEnd, InRun
      <4>2. PICK i \in DataLines(files[gen].lines) :
                  old.next = files[gen].lines[i].end
        BY <3>2, <3>4 DEF OfRow
      <4>. QED
        BY <2>6, <3>1, <4>1, <4>2 DEF AdvanceInv, Covered
    <3>. QED
      BY <2>2, <2>4, <3>1, <3>2, <3>3, <3>4
  <2>. QED
    BY <2>5, <2>6
<1>. QED
  BY <1>1, TypeInvariant, AdvanceInvariant, PTL

(* The .prom file goes forward only: the last row of a run is that of the  *)
(* end of the file, after every row an earlier run exported of it, also of *)
(* one that failed before it saved its state (writer.go:345, 360-388).     *)
THEOREM PromAdvances == Spec => PromNeverGoesBack
<1>1. TypeInv /\ FilesInOrder /\ AdvanceInv /\ [Next]_vars
        => [prom # NoRow =>
              \/ prom'.gen > prom.gen
              \/ prom'.gen = prom.gen /\ prom'.idx >= prom.idx]_prom
  <2>. SUFFICES ASSUME TypeInv, FilesInOrder, AdvanceInv, [Next]_vars,
                       prom' # prom, prom # NoRow
                PROVE  \/ prom'.gen > prom.gen
                       \/ prom'.gen = prom.gen /\ prom'.idx >= prom.idx
    OBVIOUS
  <2>1. /\ pc = "export" /\ last # NoRow /\ prom' = last
    BY DEF Next, Logs, Runs, Reads, AppendLine, AppendPartial, Rotate,
       LogUnchanged, StartRun, LoadState, LoadFails, SkipUnchanged, Plan,
       OpenFile, ReadRow, SkipLine, EndOfFile, CommitTx, ExportMetrics,
       ExportFails, StatAgain, TruncateState, SaveState, RunFails, vars, locals
  <2>2. /\ gen \in 1..Len(files)
        /\ files[gen].lines \in Seq(Line)
        /\ InOrder(files[gen].lines)
    BY <2>1, FileFields DEF TypeInv, TypeOK, RunHasFile, InRun, FilesInOrder
  <2>3. /\ last.gen = gen
        /\ last.idx \in DataLines(files[gen].lines)
        /\ prom.gen \in 1..Len(files) /\ prom.gen <= gen
    BY <2>1 DEF AdvanceInv, FromRows, IsRow, Latest, LastIsLast, InRun
  <2>4. ASSUME prom.gen = gen
        PROVE  prom.idx <= last.idx
    <3>1. /\ prom.idx \in DataLines(files[gen].lines)
          /\ files[gen].lines[prom.idx].end <= off
      BY <2>1, <2>4 DEF AdvanceInv, FromRows, IsRow, AtEnd, InRun
    <3>2. files[gen].lines[prom.idx].end <= files[gen].lines[last.idx].end
      BY <2>1, <3>1 DEF AdvanceInv, Covered, LastIsLast
    <3>. QED
      BY <2>2, <2>3, <3>1, <3>2, RowBeforeEnd DEF DataLines
  <2>5. prom.idx \in Nat /\ last.idx \in Nat /\ gen \in Nat
    BY <2>1 DEF TypeInv, TypeOK, Row
  <2>. QED
    BY <2>1, <2>3, <2>4, <2>5
<1>. QED
  BY <1>1, TypeInvariant, ResumeInvariant, AdvanceInvariant, PTL
     DEF Spec, PromNeverGoesBack

-----------------------------------------------------------------------------
(* GrowingFile implements LoggedRows: every step of the logger and of a    *)
(* run is a step of LoggedRows or leaves it as it is.                      *)

LEMMA WholeRowsAre ==
    ASSUME NEW table, NEW x
    PROVE  x \in WholeRows(table)
             <=> \E g, i : x = [gen |-> g, idx |-> i] /\ Holds(table, g, i)
<1>1. ASSUME x \in WholeRows(table)
      PROVE  \E g, i : x = [gen |-> g, idx |-> i] /\ Holds(table, g, i)
  BY <1>1 DEF WholeRows, Holds
<1>2. ASSUME NEW g, NEW i, x = [gen |-> g, idx |-> i], Holds(table, g, i)
      PROVE  x \in WholeRows(table)
  BY <1>2 DEF WholeRows, Holds
<1>. QED
  BY <1>1, <1>2

LEMMA LoggedIs ==
    ASSUME TypeInv
    PROVE  /\ Len(Logged) = Len(files)
           /\ \A g \in 1..Len(files) :
                 /\ Logged[g] \in Seq(Kinds)
                 /\ Len(Logged[g]) = Len(files[g].lines)
                 /\ \A i \in 1..Len(files[g].lines) :
                       Logged[g][i] = files[g].lines[i].kind
<1>1. Len(files) \in Nat
  BY DEF TypeInv, TypeOK
<1>2. Len(Logged) = Len(files)
  BY <1>1 DEF Logged
<1>3. ASSUME NEW g \in 1..Len(files)
      PROVE  /\ Logged[g] \in Seq(Kinds)
             /\ Len(Logged[g]) = Len(files[g].lines)
             /\ \A i \in 1..Len(files[g].lines) :
                   Logged[g][i] = files[g].lines[i].kind
  <2>1. files[g].lines \in Seq(Line)
    BY FileFields DEF TypeInv, TypeOK
  <2>2. Logged[g] =
          [i \in 1..Len(files[g].lines) |-> files[g].lines[i].kind]
    BY DEF Logged
  <2>3. \A i \in 1..Len(files[g].lines) : files[g].lines[i].kind \in Kinds
    <3>1. \A ln \in Line : ln.kind \in Kinds
      BY DEF Line
    <3>. QED
      BY <2>1, <3>1
  <2>. QED
    BY <2>1, <2>2, <2>3
<1>. QED
  BY <1>2, <1>3

(* The rows LoggedRows sees are the data lines of the files. *)
LEMMA RowsAre ==
    ASSUME TypeInv, NEW g \in 1..Len(files)
    PROVE  \A x : x \in Abstract!Rows(g)
              <=> \E i \in DataLines(files[g].lines) : x = [gen |-> g, idx |-> i]
  BY LoggedIs DEF Abstract!Rows, DataLines

LEMMA LogsRefine ==
    ASSUME TypeInv, TypeInv', Logs
    PROVE  [Abstract!Next]_(Abstract!vars)
<1>. USE DEF TypeInv
<1>0. /\ Newest \in 1..Len(files)
      /\ Len(files) \in Nat
      /\ files[Newest].lines \in Seq(Line)
  BY FileFields DEF TypeOK, Newest
<1>2. ASSUME NEW kind \in Kinds \ {"head"}, AppendLine(kind)
      PROVE  Abstract!Next
  <2>1. UNCHANGED <<db, misplaced>>
    BY <1>2 DEF AppendLine, LogUnchanged
  <2>. DEFINE ls == files[Newest].lines
  <2>2. /\ Len(files') = Len(files)
        /\ \A g \in 1..Len(files) : g # Newest => files'[g] = files[g]
        /\ files'[Newest].lines =
              Append(ls, NextLine(files[Newest], kind))
    BY <1>0, <1>2 DEF AppendLine, Written, TypeOK
  <2>3. NextLine(files[Newest], kind).kind = kind
    BY DEF NextLine
  <2>4. /\ Len(files'[Newest].lines) = Len(ls) + 1
        /\ \A i \in 1..Len(ls) : files'[Newest].lines[i] = ls[i]
        /\ files'[Newest].lines[Len(ls) + 1].kind = kind
    BY <1>0, <2>2, <2>3
  <2>5. Logged'[Newest] = Append(Logged[Newest], kind)
    <3>1. Logged'[Newest] = [i \in 1..Len(ls) + 1 |->
                                files'[Newest].lines[i].kind]
      BY <1>0, <2>2, <2>4 DEF Logged
    <3>2. Logged[Newest] = [i \in 1..Len(ls) |-> ls[i].kind]
      BY <1>0 DEF Logged
    <3>. QED
      BY <1>0, <2>4, <3>1, <3>2
  <2>6. Logged' = [Logged EXCEPT ![Newest] = Append(@, kind)]
    <3>1. \A g \in 1..Len(files) : g # Newest => Logged'[g] = Logged[g]
      BY <2>2 DEF Logged
    <3>2. /\ Logged = [g \in 1..Len(files) |-> Logged[g]]
          /\ Logged' = [g \in 1..Len(files) |-> Logged'[g]]
      BY <2>2 DEF Logged
    <3>. QED
      BY <1>0, <2>5, <3>1, <3>2
  <2>7. Abstract!Log(Newest, kind)
    BY <2>1, <2>6 DEF Abstract!Log
  <2>. QED
    BY <1>0, <2>7, LoggedIs DEF Abstract!Next
<1>3. ASSUME AppendPartial
      PROVE  UNCHANGED Abstract!vars
  <2>1. /\ UNCHANGED <<db, misplaced>>
        /\ Len(files') = Len(files)
        /\ \A g \in 1..Len(files) : files'[g].lines = files[g].lines
    BY <1>0, <1>3 DEF AppendPartial, LogUnchanged, Written, TypeOK
  <2>2. Logged' = Logged
    BY <2>1 DEF Logged
  <2>. QED
    BY <2>1, <2>2 DEF Abstract!vars
<1>4. ASSUME NEW p \in Paths, Rotate(p)
      PROVE  Abstract!Next
  <2>1. /\ UNCHANGED <<db, misplaced>>
        /\ Len(files') = Len(files) + 1
        /\ \A g \in 1..Len(files) : files'[g] = files[g]
    BY <1>4 DEF Rotate, LogUnchanged, TypeOK
  <2>2. \A g \in 1..Len(files) : Logged'[g] = Logged[g]
    <3>. TAKE g \in 1..Len(files)
    <3>1. g \in 1..Len(files') /\ files'[g] = files[g]
      BY <1>0, <2>1
    <3>. QED
      BY <3>1 DEF Logged
  <2>3. Len(Logged') = Len(Logged) + 1 /\ Len(Logged) = Len(files)
    <3>1. Len(Logged') = Len(files')
      BY <1>0, <2>1 DEF Logged
    <3>. QED
      BY <2>1, <3>1, LoggedIs
  <2>4. Abstract!Create
    BY <2>1, <2>2, <2>3 DEF Abstract!Create
  <2>. QED
    BY <2>4 DEF Abstract!Next
<1>. QED
  BY <1>2, <1>3, <1>4 DEF Logs

(* A commit stores the rows up to the line the run has read, or some rows  *)
(* of a misplaced file.                                                    *)
LEMMA RowsStored ==
    ASSUME TypeInv, NEW t, NEW g \in 1..Len(files), NEW n \in Nat, NEW o,
           Resumable(files, misplaced, db \cup t, At(n, o, g)),
           \A r \in t : /\ TrueRow(files, misplaced, r)
                        /\ r.gen = g
                        /\ g \notin misplaced => r.idx <= n,
           UNCHANGED <<files, misplaced>>, db' = Upsert(db, t)
    PROVE  Abstract!Next
<1>1. Logged' = Logged
  BY DEF Logged
<1>2. /\ \A h, i : Holds(db \cup t, h, i) => Holds(db', h, i)
      /\ \A h, i : Holds(db, h, i) => Holds(db', h, i)
      /\ \A h, i : Holds(db', h, i) => Holds(db, h, i) \/ Holds(t, h, i)
  <2>1. /\ Upsert(db, t) \subseteq db \cup t
        /\ \A h, i : Holds(db \cup t, h, i) => Holds(Upsert(db, t), h, i)
    BY UpsertHolds
  <2>. QED
    BY <2>1, HoldsUnion DEF Holds
<1>3. WholeRows(db) \subseteq WholeRows(db')
  BY <1>2, WholeRowsAre
<1>4. ASSUME NEW h, NEW i, Holds(t, h, i)
      PROVE  /\ h = g
             /\ i \in DataLines(files[g].lines)
             /\ [gen |-> h, idx |-> i] \in Abstract!Rows(g)
             /\ g \notin misplaced => i <= n
  <2>1. /\ h = g
        /\ i \in DataLines(files[g].lines)
        /\ g \notin misplaced => i <= n
    BY <1>4 DEF Holds, TrueRow
  <2>. QED
    BY <2>1, RowsAre
<1>5. CASE g \in misplaced
  <2>1. WholeRows(db') \ WholeRows(db) \subseteq Abstract!Rows(g)
    BY <1>2, <1>4, WholeRowsAre
  <2>2. Abstract!StoreSome(g)
    BY <1>1, <1>3, <1>5, <2>1 DEF Abstract!StoreSome
  <2>. QED
    BY <2>2, LoggedIs DEF Abstract!Next
<1>6. CASE g \notin misplaced
  <2>1. /\ n \in 0..Len(files[g].lines)
        /\ StoredUpTo(db \cup t, files, g, n)
    BY <1>6 DEF Resumable, At
  <2>2. ASSUME NEW x \in WholeRows(db'), x \notin WholeRows(db)
        PROVE  x \in {r \in Abstract!Rows(g) : r.idx <= n}
    <3>1. PICK h, i : x = [gen |-> h, idx |-> i] /\ Holds(db', h, i)
      BY <2>2, WholeRowsAre
    <3>2. Holds(t, h, i)
      BY <1>2, <2>2, <3>1, WholeRowsAre
    <3>. QED
      BY <1>4, <1>6, <3>1, <3>2
  <2>3. ASSUME NEW x \in Abstract!Rows(g), x.idx <= n
        PROVE  x \in WholeRows(db')
    <3>1. PICK i \in DataLines(files[g].lines) : x = [gen |-> g, idx |-> i]
      BY RowsAre
    <3>2. Holds(db', g, i)
      BY <1>2, <2>1, <2>3, <3>1 DEF StoredUpTo
    <3>. QED
      BY <3>1, <3>2, WholeRowsAre
  <2>4. WholeRows(db') =
          WholeRows(db) \cup {r \in Abstract!Rows(g) : r.idx <= n}
    BY <1>3, <2>2, <2>3
  <2>5. Abstract!StoreUpTo(g, n)
    BY <1>1, <1>6, <2>4 DEF Abstract!StoreUpTo
  <2>. QED
    BY <2>1, <2>5, LoggedIs DEF Abstract!Next
<1>. QED
  BY <1>5, <1>6

(* Opening a file stores nothing, and may excuse the file.                 *)
LEMMA FileExcused ==
    ASSUME TypeInv, NEW g \in 1..Len(files), UNCHANGED <<files, db>>,
           misplaced' = misplaced \/ misplaced' = misplaced \cup {g}
    PROVE  [Abstract!Next]_(Abstract!vars)
<1>1. Logged' = Logged
  BY DEF Logged
<1>2. CASE misplaced' = misplaced
  BY <1>1, <1>2 DEF Abstract!vars
<1>3. CASE misplaced' = misplaced \cup {g}
  <2>1. Abstract!Excuse(g)
    BY <1>1, <1>3 DEF Abstract!Excuse
  <2>. QED
    BY <2>1, LoggedIs DEF Abstract!Next
<1>. QED
  BY <1>2, <1>3

(* Every other step of a run leaves LoggedRows as it is.                   *)
LEMMA RunsRefine ==
    ASSUME TypeInv, ResumeInv, RowsInv, Runs \/ RunFails
    PROVE  [Abstract!Next]_(Abstract!vars)
<1>1. CASE CommitTx
  <2>1. /\ UNCHANGED <<files, misplaced>>
        /\ db' = Upsert(db, tx)
        /\ gen \in 1..Len(files)
        /\ line \in Nat
        /\ \A r \in tx : /\ TrueRow(files, misplaced, r)
                         /\ r.gen = gen
                         /\ gen \notin misplaced => r.idx <= line
    BY <1>1 DEF CommitTx, Committed, logger, TypeInv, TypeOK, RunHasFile,
       InRun, RowsInv
  <2>2. Resumable(files, misplaced, db \cup tx, At(line, off, gen))
    BY <1>1 DEF CommitTx, ResumeInv, Position, At
  <2>. QED
    BY <2>1, <2>2, RowsStored
<1>2. CASE OpenFile
  <2>1. /\ UNCHANGED <<files, db>>
        /\ misplaced' = misplaced \/ misplaced' = misplaced \cup {dir[path]}
        /\ dir[path] \in 1..Len(files)
    BY <1>2 DEF OpenFile, logger, TypeInv, RunHasFile
  <2>. QED
    BY <2>1, FileExcused
<1>3. CASE (Runs \/ RunFails) /\ ~ CommitTx /\ ~ OpenFile
  BY <1>3 DEF Runs, Reads, StartRun, LoadState, LoadFails, SkipUnchanged,
     Plan, ReadRow, SkipLine, EndOfFile, ExportMetrics, ExportFails,
     StatAgain, TruncateState, SaveState, RunFails, logger,
     Abstract!vars, Logged
<1>. QED
  BY <1>1, <1>2, <1>3

LEMMA RefineStarts == Init => Abstract!Init
<1>. SUFFICES ASSUME Init PROVE Abstract!Init
  OBVIOUS
<1>1. Len(Logged) = 1
  BY InitTyped, LoggedIs DEF Init
<1>2. WholeRows(db) = {}
  BY DEF Init, WholeRows
<1>. QED
  BY <1>1, <1>2 DEF Init, Abstract!Init

(* The collector implements LoggedRows.  Whatever fails or is killed, and  *)
(* whatever is read again, the rows of a file reach the table in the order *)
(* of its lines, with no gap, and stay there.                              *)
THEOREM Refines == Spec => ImplementsLoggedRows
<1>1. TypeInv /\ TypeInv' /\ ResumeInv /\ RowsInv /\ [Next]_vars
        => [Abstract!Next]_(Abstract!vars)
  <2>1. UNCHANGED vars => UNCHANGED Abstract!vars
    BY DEF vars, logger, Abstract!vars, Logged
  <2>. QED
    BY <2>1, LogsRefine, RunsRefine DEF Next
<1>. QED
  BY <1>1, RefineStarts, TypeInvariant, ResumeInvariant, RowsInvariant, PTL
     DEF Spec, ImplementsLoggedRows, Abstract!Spec
=============================================================================
