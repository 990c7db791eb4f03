-------------------------- MODULE FileWindowProofs --------------------------
(***************************************************************************)
(* Proofs about FileWindow, for every mode, number of files, lines, ticks  *)
(* and failures.  They need names that sort as the files were created,     *)
(* without which files of one tick are taken in the wrong order, and a     *)
(* reader that holds the last line back.                                   *)
(***************************************************************************)
EXTENDS FileWindowProperties, FiniteSetTheorems, TLAPS

-----------------------------------------------------------------------------
(* The invariant.                                                          *)

File == [n : Nat, part : {"none", "cut", "text"}, mtime : Nat]

Rows == [file : Nat, line : Nat, cut : BOOLEAN]

(* What the variables are; the runs keep up with the files. *)
TypeInv ==
    /\ files \in Seq(File) /\ files # <<>> /\ Newest <= MaxFiles
    /\ clock \in Nat
    /\ table \subseteq Rows /\ batch \subseteq Rows
    /\ at \in {"idle", "sorted", "next", "read"}
    /\ chosen \in Seq(Nat)
    /\ failed \in BOOLEAN
    /\ since \in 0 .. behind /\ behind \in 0 .. Newest - 1
    /\ Mode # "all" => behind < Window

(* A later file was written to last, or at the same tick. *)
TimesAscend ==
    /\ \A f, g \in 1 .. Newest : f <= g => files[f].mtime <= files[g].mtime
    /\ files[Newest].mtime <= clock

(* The newest file when the run sorted the files, and the oldest it chose. *)
LastSorted == Newest - since

Oldest == IF Window < LastSorted THEN LastSorted - Window + 1 ELSE 1

(* The files left to the run are its oldest ones, the newest of them first, *)
(* and the one that it holds the last line of is the newest it knows.      *)
ChosenInv ==
    at # "idle" =>
        /\ \A j \in 1 .. Len(chosen) : chosen[j] = Oldest + Len(chosen) - j
        /\ Len(chosen) <= LastSorted - Oldest + 1
        /\ at = "sorted" => Len(chosen) = LastSorted - Oldest + 1
        /\ at # "sorted" => growing = LastSorted
        /\ at = "read" => chosen # <<>>

(* Rows cut short are of lines cut short, of files no more written to. *)
CutForGood(rows) ==
    \A r \in rows : r.cut =>
        /\ r.file \in 1 .. Newest - 1
        /\ files[r.file].part = "cut"
        /\ r.line = files[r.file].n + 1

(* Every line of file f has its row. *)
Whole(f, rows) ==
    \A i \in 1 .. MaxLines : Logged(f, i) => Line(f, i, FALSE) \in rows

(* The files no longer written to when the last run without a failure      *)
(* sorted them are stored; so are those of this run, as far as it got.     *)
WholeInv ==
    /\ \A f \in 1 .. Newest - behind - 1 : Whole(f, table)
    /\ at = "read" /\ Head(chosen) < LastSorted => Whole(Head(chosen), batch)
    /\ at \in {"next", "read"} /\ ~failed =>
          \A f \in Oldest + Len(chosen) .. LastSorted - 1 : Whole(f, table)

WindowInv ==
    /\ TypeInv
    /\ TimesAscend
    /\ ChosenInv
    /\ CutForGood(table) /\ CutForGood(batch)
    /\ WholeInv

-----------------------------------------------------------------------------
(* Sorting and choosing files.                                             *)

LEMMA WindowIsPositive == Window \in Nat \ {0} /\ MaxFiles \in Nat \ {0}
  BY FileWindowAssumption DEF Window

(* Files come in the reverse order of their creation. *)
LEMMA SortedIs ==
    ASSUME NamesAscend, TypeInv, TimesAscend
    PROVE  Sorted = [i \in 1 .. Newest |-> Newest - i + 1]
<1>1. Newest \in Nat \ {0}
  BY DEF TypeInv, Newest
<1>2. \A f \in 1 .. Newest : files[f].mtime \in Nat
  <2>1. \A f \in 1 .. Newest : files[f] \in File
    BY DEF TypeInv, Newest
  <2>. QED
    BY <2>1 DEF File
<1>3. ASSUME NEW f \in 1 .. Newest
      PROVE  Place(f) = Newest - f + 1
  <2>. DEFINE before == {g \in 1 .. Newest : g # f /\ SortedBefore(g, f)}
  <2>1. before = f + 1 .. Newest
    <3>1. \A g \in 1 .. Newest : g # f /\ SortedBefore(g, f) <=> g > f
      BY <1>1, <1>2 DEF TimesAscend, SortedBefore, NameAfter
    <3>. QED
      BY <1>1, <3>1
  <2>2. Cardinality(f + 1 .. Newest) = Newest - f
    BY <1>1, FS_Interval
  <2>3. Place(f) = 1 + Cardinality(before)
    BY DEF Place
  <2>. HIDE DEF before
  <2>. QED
    BY <1>1, <2>1, <2>2, <2>3
<1>4. ASSUME NEW i \in 1 .. Newest
      PROVE  (CHOOSE f \in 1 .. Newest : Place(f) = i) = Newest - i + 1
  <2>1. \A f \in 1 .. Newest : Place(f) = i <=> f = Newest - i + 1
    BY <1>1, <1>3
  <2>2. Newest - i + 1 \in 1 .. Newest
    BY <1>1
  <2>. QED
    BY <2>1, <2>2
<1>. QED
  BY <1>4 DEF Sorted

(* A run chooses the last Window files, or all. *)
LEMMA KeptIs ==
    ASSUME NamesAscend, TypeInv, TimesAscend,
           NEW oldest,
           oldest = IF Window < Newest THEN Newest - Window + 1 ELSE 1
    PROVE  /\ Kept(Sorted) \in Seq(Nat)
           /\ Len(Kept(Sorted)) = Newest - oldest + 1
           /\ \A j \in 1 .. Len(Kept(Sorted)) :
                 Kept(Sorted)[j] = oldest + Len(Kept(Sorted)) - j
<1>1. Newest \in Nat \ {0} /\ Window \in Nat \ {0}
  BY WindowIsPositive DEF TypeInv, Newest
<1>. DEFINE s == [i \in 1 .. Newest |-> Newest - i + 1]
<1>2. Sorted = s
  BY SortedIs
<1>3. s \in Seq(Nat) /\ Len(s) = Newest /\ \A i \in 1 .. Newest : s[i] = Newest - i + 1
  BY <1>1
<1>. HIDE DEF s
<1>4. CASE Window < Newest
  <2>1. Kept(s) = SubSeq(s, 1, Window) /\ oldest = Newest - Window + 1
    BY <1>1, <1>3, <1>4 DEF Kept
  <2>2. /\ SubSeq(s, 1, Window) \in Seq(Nat) /\ Len(SubSeq(s, 1, Window)) = Window
        /\ \A i \in 1 .. Window : SubSeq(s, 1, Window)[i] = s[i]
    BY <1>1, <1>3, <1>4
  <2>. QED
    BY <1>1, <1>2, <1>3, <1>4, <2>1, <2>2
<1>5. CASE ~ (Window < Newest)
  BY <1>1, <1>2, <1>3, <1>5 DEF Kept
<1>. QED
  BY <1>4, <1>5

(* newestFile takes the first of the files if none was written to later. *)
LEMMA NewestOfIs ==
    ASSUME NEW s \in Seq(Nat), s # <<>>,
           \A i \in 1 .. Len(s) : /\ files[s[i]].mtime \in Nat
                                  /\ files[s[i]].mtime <= files[s[1]].mtime
    PROVE  NewestOf(s) = s[1]
<1>1. Len(s) \in Nat /\ 1 \in 1 .. Len(s)
  OBVIOUS
<1>. DEFINE Picks(f) == \E i \in 1 .. Len(s) :
                /\ s[i] = f
                /\ \A j \in 1 .. i - 1 : Replaces(f, s[j])
                /\ \A j \in i + 1 .. Len(s) : ~Replaces(s[j], f)
<1>2. Picks(s[1])
  BY <1>1 DEF Replaces
<1>3. ASSUME NEW f, Picks(f) PROVE f = s[1]
  <2>1. PICK i \in 1 .. Len(s) :
                /\ s[i] = f
                /\ \A j \in 1 .. i - 1 : Replaces(f, s[j])
    BY <1>3
  <2>2. CASE i = 1
    BY <2>1, <2>2
  <2>3. CASE i # 1
    <3>1. 1 \in 1 .. i - 1
      BY <1>1, <2>3
    <3>2. files[f].mtime > files[s[1]].mtime
      BY <2>1, <3>1 DEF Replaces
    <3>. QED
      BY <1>1, <2>1, <3>2
  <2>. QED
    BY <2>2, <2>3
<1>. HIDE DEF Picks
<1>4. s[1] \in {s[i] : i \in 1 .. Len(s)}
  BY <1>1
<1>5. NewestOf(s) = CHOOSE f \in {s[i] : i \in 1 .. Len(s)} : Picks(f)
  BY DEF NewestOf, Picks
<1>. QED
  BY <1>2, <1>3, <1>4, <1>5

LEMMA FileFields ==
    ASSUME TypeInv
    PROVE  /\ Newest \in Nat \ {0}
           /\ \A f \in 1 .. Newest :
                 /\ files[f] \in File /\ files[f].n \in Nat
                 /\ files[f].mtime \in Nat
<1>1. Newest \in Nat \ {0} /\ \A f \in 1 .. Newest : files[f] \in File
  BY DEF TypeInv, Newest
<1>. QED
  BY <1>1 DEF File

(* The next file of a run is one it sorted, and the newest of those left. *)
LEMMA HeadIs ==
    ASSUME TypeInv, ChosenInv, at # "idle", chosen # <<>>
    PROVE  /\ Head(chosen) = Oldest + Len(chosen) - 1
           /\ Head(chosen) \in 1 .. LastSorted
           /\ LastSorted \in 1 .. Newest /\ Oldest \in Nat \ {0}
           /\ Len(chosen) \in Nat \ {0}
<1>1. /\ chosen \in Seq(Nat) /\ Newest \in Nat \ {0} /\ Window \in Nat \ {0}
      /\ since \in 0 .. behind /\ behind \in 0 .. Newest - 1
  BY FileFields, WindowIsPositive DEF TypeInv
<1>2. Len(chosen) \in Nat \ {0} /\ Head(chosen) = chosen[1]
  BY <1>1
<1>3. LastSorted \in 1 .. Newest /\ Oldest \in Nat \ {0}
  BY <1>1 DEF LastSorted, Oldest
<1>4. chosen[1] = Oldest + Len(chosen) - 1 /\ Len(chosen) <= LastSorted - Oldest + 1
  BY <1>2 DEF ChosenInv
<1>. QED
  BY <1>2, <1>3, <1>4

-----------------------------------------------------------------------------
(* The logger.                                                             *)

(* The logger writes to the newest file or to one after it. *)
LEMMA LogsExtend ==
    ASSUME TypeInv, TimesAscend, Logs
    PROVE  /\ TypeInv' /\ TimesAscend'
           /\ Newest' \in Nat /\ Newest <= Newest'
           /\ \A f \in 1 .. Newest - 1 : files'[f] = files[f]
           /\ UNCHANGED <<table, run>>
           /\ Newest' - since' = Newest - since
           /\ Newest' - behind' = Newest - behind
<1>1. /\ Newest \in Nat \ {0} /\ files \in Seq(File) /\ clock \in Nat
      /\ \A f \in 1 .. Newest : files[f].mtime \in Nat /\ files[f].n \in Nat
      /\ since \in Nat /\ behind \in Nat
      /\ Newest = Len(files)
  BY FileFields DEF TypeInv, Newest
<1>2. CASE LogText
  <2>1. PICK e \in File : files' = [files EXCEPT ![Newest] = e] /\ e.mtime = clock
    <3>1. \A n \in Nat, p \in {"none", "cut", "text"} :
            [n |-> n, part |-> p, mtime |-> clock] \in File
      BY <1>1 DEF File
    <3>2. \E n \in Nat, p \in {"none", "cut", "text"} :
            files' = [files EXCEPT ![Newest] = [n |-> n, part |-> p, mtime |-> clock]]
      <4>1. files[Newest].n \in Nat /\ files[Newest].n + 1 \in Nat
        BY <1>1
      <4>. QED
        BY <4>1, <1>2 DEF LogText, Write
    <3>. QED
      BY <3>1, <3>2
  <2>2. UNCHANGED <<clock, table, run, since, behind>>
    BY <1>2 DEF LogText
  <2>3. /\ files' \in Seq(File) /\ Len(files') = Newest /\ files'[Newest] = e
        /\ \A f \in 1 .. Newest : f # Newest => files'[f] = files[f]
    BY <1>1, <2>1
  <2>4. Newest' = Newest
    BY <2>3 DEF Newest
  <2>5. TypeInv'
    BY <1>1, <2>2, <2>3, <2>4 DEF TypeInv, run
  <2>6. TimesAscend'
    <3>1. \A f \in 1 .. Newest : files[f].mtime <= files[Newest].mtime
      BY <1>1 DEF TimesAscend
    <3>. QED
      BY <1>1, <2>1, <2>2, <2>3, <2>4, <3>1 DEF TimesAscend
  <2>. QED
    BY <1>1, <2>2, <2>3, <2>4, <2>5, <2>6
<1>3. CASE LogFile
  <2>. DEFINE e == [n |-> 0, part |-> "none", mtime |-> clock]
  <2>1. /\ files' = Append(files, e) /\ Newest < MaxFiles
        /\ since' = since + 1 /\ behind' = behind + 1
        /\ Mode # "all" => behind < Window - 1
        /\ UNCHANGED <<clock, table, run>>
    BY <1>3 DEF LogFile
  <2>2. e \in File /\ e.mtime = clock
    BY <1>1 DEF File
  <2>. HIDE DEF e
  <2>3. /\ files' \in Seq(File) /\ Len(files') = Newest + 1 /\ files' # <<>>
        /\ files'[Newest + 1] = e
        /\ \A f \in 1 .. Newest : files'[f] = files[f]
    BY <1>1, <2>1, <2>2
  <2>4. Newest' = Newest + 1
    BY <2>3 DEF Newest
  <2>5. TypeInv'
    <3>1. MaxFiles \in Nat /\ Window \in Nat /\ Newest \in Nat
          /\ since \in 0 .. behind /\ behind \in 0 .. Newest - 1
      BY <1>1, WindowIsPositive DEF TypeInv
    <3>2. Newest' <= MaxFiles /\ since' \in 0 .. behind'
          /\ behind' \in 0 .. Newest' - 1 /\ (Mode # "all" => behind' < Window)
      BY <2>1, <2>4, <3>1
    <3>. QED
      BY <2>1, <2>3, <3>2 DEF TypeInv, run
  <2>6. TimesAscend'
    <3>1. \A f \in 1 .. Newest : files[f].mtime <= clock
      BY <1>1 DEF TimesAscend
    <3>. QED
      BY <1>1, <2>1, <2>2, <2>3, <2>4, <3>1 DEF TimesAscend
  <2>. QED
    BY <1>1, <2>1, <2>3, <2>4, <2>5, <2>6
<1>4. CASE Tick
  <2>1. clock' = clock + 1 /\ UNCHANGED <<files, table, run, since, behind>>
    BY <1>4 DEF Tick
  <2>2. Newest' = Newest /\ clock' \in Nat
    BY <1>1, <2>1 DEF Newest
  <2>3. TypeInv'
    BY <2>1, <2>2 DEF TypeInv, run
  <2>4. TimesAscend'
    BY <1>1, <2>1, <2>2 DEF TimesAscend
  <2>. QED
    BY <1>1, <2>1, <2>2, <2>3, <2>4
<1>. QED
  BY <1>2, <1>3, <1>4 DEF Logs

(* What is true of the files before the newest stays true of them. *)
LEMMA SettledStays ==
    ASSUME Newest \in Nat, Newest' \in Nat, Newest <= Newest',
           \A f \in 1 .. Newest - 1 : files'[f] = files[f]
    PROVE  /\ \A rows : CutForGood(rows) =>
                 \A r \in rows : r.cut =>
                    /\ r.file \in 1 .. Newest' - 1
                    /\ files'[r.file].part = "cut"
                    /\ r.line = files'[r.file].n + 1
           /\ \A f \in 1 .. Newest - 1 : \A rows : Whole(f, rows) =>
                 \A i \in 1 .. MaxLines :
                    Logged(f, i)' => Line(f, i, FALSE) \in rows
<1>1. ASSUME NEW rows, CutForGood(rows), NEW r \in rows, r.cut
      PROVE  /\ r.file \in 1 .. Newest' - 1
             /\ files'[r.file].part = "cut"
             /\ r.line = files'[r.file].n + 1
  <2>1. /\ r.file \in 1 .. Newest - 1 /\ files[r.file].part = "cut"
        /\ r.line = files[r.file].n + 1
    BY <1>1 DEF CutForGood
  <2>2. r.file \in 1 .. Newest' - 1
    BY <2>1
  <2>. QED
    BY <2>1, <2>2
<1>2. ASSUME NEW f \in 1 .. Newest - 1, NEW rows, Whole(f, rows),
             NEW i \in 1 .. MaxLines, Logged(f, i)'
      PROVE  Line(f, i, FALSE) \in rows
  <2>1. files'[f] = files[f]
    OBVIOUS
  <2>2. Logged(f, i)
    BY <1>2, <2>1 DEF Logged
  <2>. QED
    BY <1>2, <2>2 DEF Whole
<1>. QED
  BY <1>1, <1>2

LEMMA LogsKeepWindow ==
    ASSUME WindowInv, Logs
    PROVE  WindowInv'
<1>1. /\ TypeInv /\ TimesAscend /\ ChosenInv /\ CutForGood(table)
      /\ CutForGood(batch) /\ WholeInv
  BY DEF WindowInv
<1>2. /\ TypeInv' /\ TimesAscend'
      /\ Newest' \in Nat /\ Newest <= Newest' /\ Newest \in Nat \ {0}
      /\ \A f \in 1 .. Newest - 1 : files'[f] = files[f]
      /\ UNCHANGED <<table, run>>
      /\ Newest' - since' = Newest - since
      /\ Newest' - behind' = Newest - behind
  BY <1>1, LogsExtend, FileFields
<1>3. LastSorted' = LastSorted /\ Oldest' = Oldest
  BY <1>2 DEF LastSorted, Oldest, Window
<1>4. UNCHANGED <<at, chosen, growing, batch, failed, table>>
  BY <1>2 DEF run
<1>5. ChosenInv'
  BY <1>1, <1>3, <1>4 DEF ChosenInv
<1>6. CutForGood(table)' /\ CutForGood(batch)'
  BY <1>1, <1>2, <1>4, SettledStays DEF CutForGood
<1>7. /\ since \in 0 .. behind /\ behind \in 0 .. Newest - 1
      /\ LastSorted \in 1 .. Newest /\ Oldest \in Nat \ {0}
  BY <1>1, <1>2, WindowIsPositive DEF TypeInv, LastSorted, Oldest
<1>8. \A f \in 1 .. Newest - 1 : /\ Whole(f, table) => Whole(f, table)'
                                 /\ Whole(f, batch) => Whole(f, batch)'
  BY <1>2, <1>4, SettledStays DEF Whole
<1>9. WholeInv'
  <2>1. \A f \in 1 .. Newest' - behind' - 1 : Whole(f, table)'
    BY <1>1, <1>2, <1>7, <1>8 DEF WholeInv
  <2>2. at' = "read" /\ Head(chosen)' < LastSorted' => Whole(Head(chosen), batch)'
    <3>. SUFFICES ASSUME at = "read", Head(chosen) < LastSorted
                  PROVE  Whole(Head(chosen), batch)'
      BY <1>3, <1>4
    <3>1. Whole(Head(chosen), batch)
      BY <1>1 DEF WholeInv
    <3>2. Head(chosen) \in 1 .. Newest - 1
      <4>1. /\ Head(chosen) \in 1 .. LastSorted
        BY <1>1, HeadIs DEF ChosenInv
      <4>. QED
        BY <1>2, <1>7, <4>1
    <3>3. Whole(Head(chosen), batch)' <=> \A i \in 1 .. MaxLines :
            Logged(Head(chosen), i)' => Line(Head(chosen), i, FALSE) \in batch
      BY <1>4 DEF Whole, Line
    <3>. QED
      <4>. DEFINE h == Head(chosen)
      <4>1. \A i \in 1 .. MaxLines : Logged(h, i)' => Logged(h, i)
        <5>1. files'[h] = files[h] /\ h' = h
          BY <1>2, <1>4, <3>2
        <5>. QED
          BY <5>1 DEF Logged
      <4>. QED
        BY <3>1, <3>3, <4>1 DEF Whole
  <2>3. at' \in {"next", "read"} /\ ~failed' =>
          \A f \in Oldest' + Len(chosen') .. LastSorted' - 1 : Whole(f, table)'
    <3>1. Len(chosen) \in Nat
      BY <1>1 DEF TypeInv
    <3>. QED
      <4>1. \A f \in Oldest + Len(chosen) .. LastSorted - 1 : f \in 1 .. Newest - 1
        BY <1>2, <1>7, <3>1
      <4>2. at \in {"next", "read"} /\ ~failed =>
              \A f \in Oldest + Len(chosen) .. LastSorted - 1 : Whole(f, table)
        BY <1>1 DEF WholeInv
      <4>. QED
        BY <1>3, <1>4, <1>8, <4>1, <4>2
  <2>. QED
    BY <2>1, <2>2, <2>3 DEF WholeInv
<1>. QED
  BY <1>2, <1>5, <1>6, <1>9 DEF WindowInv

-----------------------------------------------------------------------------
(* A run.                                                                  *)

(* What a step leaves alone that touches neither the files nor what was    *)
(* counted of them.                                                        *)
LEMMA SameFiles ==
    ASSUME UNCHANGED <<files, clock, since>>
    PROVE  /\ Newest' = Newest /\ LastSorted' = LastSorted /\ Oldest' = Oldest
           /\ TimesAscend => TimesAscend'
           /\ \A rows : CutForGood(rows) =>
                 \A r \in rows : r.cut =>
                    /\ r.file \in 1 .. Newest' - 1
                    /\ files'[r.file].part = "cut"
                    /\ r.line = files'[r.file].n + 1
           /\ \A f, rows : Whole(f, rows) =>
                 \A i \in 1 .. MaxLines :
                    Logged(f, i)' => Line(f, i, FALSE) \in rows
<1>1. Newest' = Newest
  BY DEF Newest
<1>. QED
  BY <1>1 DEF LastSorted, Oldest, Window, TimesAscend, CutForGood, Whole, Logged

LEMMA ResolveKeeps ==
    ASSUME NamesAscend, WindowInv, Resolve
    PROVE  WindowInv'
<1>1. /\ TypeInv /\ TimesAscend /\ CutForGood(table) /\ CutForGood(batch)
      /\ WholeInv
  BY DEF WindowInv
<1>2. /\ at' = "sorted" /\ chosen' = Kept(Sorted) /\ failed' = FALSE /\ since' = 0
      /\ UNCHANGED <<files, clock, table, growing, batch, behind>>
  BY DEF Resolve, logger
<1>3. Newest' = Newest /\ Newest \in Nat \ {0} /\ LastSorted' = Newest
      /\ Oldest' = IF Window < Newest THEN Newest - Window + 1 ELSE 1
  BY <1>1, <1>2, FileFields DEF LastSorted, Newest, Oldest, Window
<1>4. /\ chosen' \in Seq(Nat)
      /\ Len(chosen') = LastSorted' - Oldest' + 1
      /\ \A j \in 1 .. Len(chosen') : chosen'[j] = Oldest' + Len(chosen') - j
  BY <1>1, <1>2, <1>3, KeptIs
<1>5. TypeInv'
  <2>1. behind \in 0 .. Newest - 1 /\ since' \in 0 .. behind
    BY <1>1, <1>2, <1>3 DEF TypeInv
  <2>. QED
    BY <1>1, <1>2, <1>3, <1>4, <2>1 DEF TypeInv, Window
<1>6. ChosenInv'
  BY <1>1, <1>2, <1>3, <1>4, WindowIsPositive DEF ChosenInv
<1>7. TimesAscend' /\ CutForGood(table)' /\ CutForGood(batch)'
  BY <1>1, <1>2, <1>3 DEF TimesAscend, CutForGood
<1>8. WholeInv'
  BY <1>1, <1>2, <1>3 DEF WholeInv, Whole, Logged
<1>. QED
  BY <1>5, <1>6, <1>7, <1>8 DEF WindowInv

(* The newest file sorted is held, unless a newer one has been created. *)
LEMMA PickKeeps ==
    ASSUME WindowInv, PickGrowing
    PROVE  WindowInv'
<1>1. /\ TypeInv /\ TimesAscend /\ ChosenInv /\ CutForGood(table)
      /\ CutForGood(batch) /\ WholeInv
  BY DEF WindowInv
<1>2. /\ at = "sorted" /\ at' = "next" /\ growing' = NewestOf(chosen)
      /\ UNCHANGED <<files, clock, table, chosen, batch, failed, since, behind>>
  BY DEF PickGrowing, logger
<1>3. /\ Newest \in Nat \ {0} /\ LastSorted \in 1 .. Newest /\ Oldest \in 1 .. LastSorted
      /\ since \in Nat
  BY <1>1, FileFields, WindowIsPositive DEF TypeInv, LastSorted, Oldest
<1>4. /\ chosen \in Seq(Nat) /\ Len(chosen) = LastSorted - Oldest + 1
      /\ \A j \in 1 .. Len(chosen) : chosen[j] = Oldest + Len(chosen) - j
  BY <1>1, <1>2 DEF TypeInv, ChosenInv
<1>5. chosen[1] = LastSorted /\ \A j \in 1 .. Len(chosen) : chosen[j] \in 1 .. LastSorted
  BY <1>3, <1>4
<1>6. NewestOf(chosen) = LastSorted
  <2>1. \A f \in 1 .. LastSorted : /\ files[f].mtime \in Nat
                                   /\ files[f].mtime <= files[LastSorted].mtime
    BY <1>1, <1>3, FileFields DEF TimesAscend
  <2>2. chosen # <<>>
    BY <1>3, <1>4
  <2>. QED
    BY <1>4, <1>5, <2>1, <2>2, NewestOfIs
<1>7. /\ Newest' = Newest /\ LastSorted' = LastSorted /\ Oldest' = Oldest
      /\ TimesAscend'
  BY <1>1, <1>2, SameFiles
<1>8. TypeInv'
  BY <1>1, <1>2, <1>7 DEF TypeInv, Window
<1>9. ChosenInv'
  BY <1>1, <1>2, <1>6, <1>7 DEF ChosenInv
<1>10. CutForGood(table)' /\ CutForGood(batch)'
  BY <1>1, <1>2, <1>7 DEF CutForGood
<1>11. WholeInv'
  <2>1. \A f \in Oldest + Len(chosen) .. LastSorted - 1 : FALSE
    BY <1>3, <1>4
  <2>. QED
    BY <1>1, <1>2, <1>7, <2>1 DEF WholeInv, Whole, Logged
<1>. QED
  BY <1>7, <1>8, <1>9, <1>10, <1>11 DEF WindowInv

(* Only a file no longer written to is read with its last line. *)
LEMMA ReadKeeps ==
    ASSUME HoldsLastLine, WindowInv, ReadFile
    PROVE  WindowInv'
<1>1. /\ TypeInv /\ TimesAscend /\ ChosenInv /\ CutForGood(table) /\ WholeInv
  BY DEF WindowInv
<1>. DEFINE f == Head(chosen)
            n == files[f].n
<1>2. /\ at = "next" /\ chosen # <<>> /\ at' = "read"
      /\ UNCHANGED <<files, clock, table, chosen, growing, failed, since, behind>>
  BY DEF ReadFile, logger
<1>3. PICK tail \in TailRows(f) :
        batch' = {Line(f, i, FALSE) : i \in 1 .. n} \cup tail
  BY DEF ReadFile
<1>b. /\ tail \subseteq batch' /\ \A i \in 1 .. n : Line(f, i, FALSE) \in batch'
      /\ \A r \in batch' : r \in tail \/ \E i \in 1 .. n : r = Line(f, i, FALSE)
  BY <1>3
<1>4. /\ Newest \in Nat \ {0} /\ LastSorted \in 1 .. Newest
      /\ f \in 1 .. LastSorted /\ growing = LastSorted
  BY <1>1, <1>2, HeadIs, FileFields DEF ChosenInv
<1>5. f \in 1 .. Newest /\ n \in Nat /\ files[f] \in File
  BY <1>1, <1>4, FileFields
<1>. HIDE DEF f, n
<1>6. /\ \A r \in tail :
            /\ r \in Rows /\ r.file = f /\ r.line = n + 1
            /\ r.cut => files[f].part = "cut"
      /\ tail # {} => f # LastSorted
      /\ f # LastSorted /\ files[f].part = "text" => Line(f, n + 1, FALSE) \in tail
  <2>1. f \in Nat /\ n + 1 \in Nat
    BY <1>4, <1>5
  <2>2. \A c \in BOOLEAN : LET r == Line(f, n + 1, c) IN
          r \in Rows /\ r.file = f /\ r.line = n + 1 /\ r.cut = c
    BY <2>1 DEF Line, Rows
  <2>3. Held(f) <=> f = LastSorted
    BY <1>4 DEF Held
  <2>4. files[f].part \in {"none", "cut", "text"}
    BY <1>5 DEF File
  <2>5. CASE Held(f) \/ files[f].part = "none"
    <3>1. tail = {}
      BY <2>5 DEF TailRows
    <3>. QED
      BY <2>3, <2>5, <3>1
  <2>6. CASE ~Held(f) /\ files[f].part = "cut"
    <3>1. tail = {} \/ tail = {Line(f, n + 1, TRUE)}
      BY <2>6 DEF TailRows, n
    <3>. QED
      BY <2>2, <2>3, <2>6, <3>1
  <2>7. CASE ~Held(f) /\ files[f].part = "text"
    <3>1. tail = {Line(f, n + 1, FALSE)}
      BY <2>7 DEF TailRows, n
    <3>. QED
      BY <2>2, <2>3, <2>7, <3>1
  <2>. QED
    BY <2>4, <2>5, <2>6, <2>7
<1>7. \A i \in 1 .. n : Line(f, i, FALSE) \in Rows /\ ~Line(f, i, FALSE).cut
  BY <1>4, <1>5 DEF Line, Rows
<1>8. batch' \subseteq Rows
  BY <1>b, <1>6, <1>7
<1>9. /\ Newest' = Newest /\ LastSorted' = LastSorted /\ Oldest' = Oldest
      /\ TimesAscend'
  BY <1>1, <1>2, SameFiles
<1>10. TypeInv'
  BY <1>1, <1>2, <1>8, <1>9 DEF TypeInv, Window
<1>11. ChosenInv'
  BY <1>1, <1>2, <1>9 DEF ChosenInv
<1>12. CutForGood(table)'
  BY <1>1, <1>2, <1>9 DEF CutForGood
<1>13. CutForGood(batch)'
  <2>. SUFFICES ASSUME NEW r \in batch', r.cut
                PROVE  /\ r.file \in 1 .. Newest - 1
                       /\ files[r.file].part = "cut"
                       /\ r.line = files[r.file].n + 1
    BY <1>2, <1>9 DEF CutForGood
  <2>1. r \in tail
    BY <1>b, <1>7
  <2>2. r.file = f /\ r.line = n + 1 /\ files[f].part = "cut" /\ f # LastSorted
    BY <1>6, <2>1
  <2>3. f \in 1 .. Newest - 1
    BY <1>4, <2>2
  <2>. QED
    BY <2>2, <2>3 DEF n
<1>14. ASSUME f < LastSorted PROVE Whole(f, batch')
  <2>. SUFFICES ASSUME NEW i \in 1 .. MaxLines, Logged(f, i)
                PROVE  Line(f, i, FALSE) \in batch'
    BY DEF Whole
  <2>1. CASE i <= n
    <3>1. i \in 1 .. n
      BY <1>5, <2>1
    <3>. QED
      BY <1>b, <3>1
  <2>2. CASE i = n + 1 /\ files[f].part = "text"
    <3>1. f # LastSorted
      BY <1>4, <1>14
    <3>2. Line(f, n + 1, FALSE) \in batch'
      BY <1>b, <1>6, <2>2, <3>1
    <3>. QED
      BY <2>2, <3>2
  <2>. QED
    BY <2>1, <2>2 DEF Logged, n
<1>15. WholeInv'
  <2>1. f' = f
    BY <1>2 DEF f
  <2>2. f < LastSorted => Whole(f, batch)'
    BY <1>2, <1>14, <2>1 DEF Whole, Logged
  <2>3. at' = "read" /\ Head(chosen)' < LastSorted' => Whole(Head(chosen), batch)'
    BY <1>2, <1>9, <2>1, <2>2 DEF f
  <2>4. \A g : Whole(g, table) => Whole(g, table)'
    BY <1>2 DEF Whole, Logged
  <2>. QED
    BY <1>1, <1>2, <1>9, <2>3, <2>4 DEF WholeInv
<1>. QED
  BY <1>9, <1>10, <1>11, <1>12, <1>13, <1>15 DEF WindowInv

(* INSERT ... ON CONFLICT keeps the whole rows there are and adds those of *)
(* the file, of lines that are whole.                                      *)
LEMMA UpsertKeeps ==
    ASSUME TypeInv, CutForGood(table), CutForGood(batch),
           NEW f \in 1 .. Newest
    PROVE  /\ Whole(f, table) => Whole(f, Upsert(batch))
           /\ Whole(f, batch) => Whole(f, Upsert(batch))
<1>. SUFFICES ASSUME NEW i \in 1 .. MaxLines, Logged(f, i),
                     Line(f, i, FALSE) \in table \cup batch
              PROVE  Line(f, i, FALSE) \in Upsert(batch)
  BY DEF Whole
<1>. DEFINE q == Line(f, i, FALSE)
<1>1. q.file = f /\ q.line = i
  BY DEF Line
<1>2. Newest \in Nat /\ files[f].n \in Nat
  BY FileFields
<1>3. ASSUME NEW r \in table \cup batch, SameKey(r, q)
      PROVE  r = q
  <2>1. r \in Rows /\ r.file = f /\ r.line = i
    BY <1>1, <1>3 DEF TypeInv, SameKey
  <2>2. ~ r.cut
    <3>. SUFFICES ASSUME r.cut PROVE FALSE
      OBVIOUS
    <3>1. files[f].part = "cut" /\ i = files[f].n + 1
      BY <1>3, <2>1 DEF CutForGood
    <3>. QED
      BY <1>2, <3>1 DEF Logged
  <2>. QED
    BY <2>1, <2>2 DEF Rows, Line
<1>4. \A r \in table \cup batch : SameKey(r, q) <=> SameKey(q, r)
  BY DEF SameKey
<1>. HIDE DEF q
<1>5. q \in table \cup batch
  BY DEF q
<1>6. q \in Upsert(batch)
  BY <1>3, <1>4, <1>5 DEF Upsert
<1>. QED
  BY <1>6 DEF q

LEMMA UpsertTyped ==
    ASSUME TypeInv, CutForGood(table), CutForGood(batch)
    PROVE  Upsert(batch) \subseteq Rows /\ CutForGood(Upsert(batch))
<1>1. Upsert(batch) \subseteq table \cup batch
  BY DEF Upsert
<1>. QED
  BY <1>1 DEF TypeInv, CutForGood

(* The run goes on with the next file. *)
LEMMA FileKeeps ==
    ASSUME WindowInv, CommitFile \/ FileFails
    PROVE  WindowInv'
<1>1. /\ TypeInv /\ TimesAscend /\ ChosenInv /\ CutForGood(table)
      /\ CutForGood(batch) /\ WholeInv
  BY DEF WindowInv
<1>2. /\ at = "read" /\ at' = "next" /\ chosen' = Tail(chosen) /\ batch' = {}
      /\ UNCHANGED <<files, clock, growing, since, behind>>
      /\ \/ table' = Upsert(batch) /\ failed' = failed
         \/ table' = table /\ failed' = TRUE
  BY DEF CommitFile, FileFails, NextFile, logger
<1>3. /\ chosen \in Seq(Nat) /\ chosen # <<>>
      /\ Head(chosen) = Oldest + Len(chosen) - 1
      /\ Head(chosen) \in 1 .. LastSorted
      /\ LastSorted \in 1 .. Newest /\ Oldest \in Nat \ {0}
      /\ Len(chosen) \in Nat \ {0} /\ Newest \in Nat
      /\ behind \in Nat
  BY <1>1, <1>2, HeadIs, FileFields DEF ChosenInv, TypeInv
<1>4. /\ chosen' \in Seq(Nat) /\ Len(chosen') = Len(chosen) - 1
      /\ \A j \in 1 .. Len(chosen) - 1 : chosen'[j] = chosen[j + 1]
  BY <1>2, <1>3
<1>5. /\ Newest' = Newest /\ LastSorted' = LastSorted /\ Oldest' = Oldest
      /\ TimesAscend'
  BY <1>1, <1>2, SameFiles
<1>6. table' \subseteq Rows /\ CutForGood(table')
  BY <1>1, <1>2, UpsertTyped DEF TypeInv
<1>7. TypeInv'
  BY <1>1, <1>2, <1>4, <1>5, <1>6 DEF TypeInv, Window
<1>8. ChosenInv'
  <2>1. /\ Len(chosen) <= LastSorted - Oldest + 1 /\ growing = LastSorted
        /\ \A j \in 1 .. Len(chosen) : chosen[j] = Oldest + Len(chosen) - j
    BY <1>1, <1>2 DEF ChosenInv
  <2>2. \A j \in 1 .. Len(chosen') : chosen'[j] = Oldest + Len(chosen') - j
    BY <1>3, <1>4, <2>1
  <2>3. Len(chosen') <= LastSorted - Oldest + 1
    BY <1>3, <1>4, <2>1
  <2>. QED
    BY <1>2, <1>5, <2>1, <2>2, <2>3 DEF ChosenInv
<1>9. CutForGood(table)' /\ CutForGood(batch)'
  BY <1>2, <1>5, <1>6 DEF CutForGood
<1>10. \A f \in 1 .. Newest : Whole(f, table) => Whole(f, table)'
  <2>1. \A f \in 1 .. Newest : Whole(f, table) => Whole(f, table')
    BY <1>1, <1>2, UpsertKeeps
  <2>. QED
    BY <1>2, <2>1 DEF Whole, Logged
<1>11. WholeInv'
  <2>1. \A f \in 1 .. Newest' - behind' - 1 : Whole(f, table)'
    <3>1. \A f \in 1 .. Newest - behind - 1 : f \in 1 .. Newest /\ Whole(f, table)
      BY <1>1, <1>3 DEF WholeInv
    <3>. QED
      BY <1>2, <1>5, <1>10, <3>1
  <2>2. ASSUME ~failed', NEW f \in Oldest + Len(chosen') .. LastSorted - 1
        PROVE  Whole(f, table)'
    <3>1. table' = Upsert(batch) /\ ~failed
      BY <1>2, <2>2
    <3>2. f \in 1 .. Newest
      BY <1>3, <1>4, <2>2
    <3>3. CASE f = Head(chosen)
      <4>1. Whole(f, batch)
        BY <1>1, <1>2, <1>3, <2>2, <3>3 DEF WholeInv
      <4>2. Whole(f, table')
        BY <1>1, <3>1, <3>2, <4>1, UpsertKeeps
      <4>. QED
        BY <1>2, <4>2 DEF Whole, Logged
    <3>4. CASE f # Head(chosen)
      <4>1. f \in Oldest + Len(chosen) .. LastSorted - 1
        BY <1>3, <1>4, <2>2, <3>4
      <4>2. Whole(f, table)
        BY <1>1, <1>2, <3>1, <4>1 DEF WholeInv
      <4>. QED
        BY <1>10, <3>2, <4>2
    <3>. QED
      BY <3>3, <3>4
  <2>. QED
    BY <1>2, <1>5, <2>1, <2>2 DEF WholeInv
<1>. QED
  BY <1>5, <1>7, <1>8, <1>9, <1>11 DEF WindowInv

(* A run without a failure has stored the files it sorted, and runs keep   *)
(* up: none between those and the ones stored before is left out.          *)
LEMMA RunEndsKeeps ==
    ASSUME WindowInv, RunEnds \/ Killed
    PROVE  WindowInv'
<1>1. /\ TypeInv /\ TimesAscend /\ ChosenInv /\ CutForGood(table) /\ WholeInv
  BY DEF WindowInv
<1>2. /\ at' = "idle" /\ chosen' = <<>> /\ batch' = {} /\ failed' = FALSE
      /\ UNCHANGED <<files, clock, table, since>>
      /\ \/ behind' = behind
         \/ behind' = since /\ at = "next" /\ chosen = <<>> /\ ~failed
  BY <1>1 DEF RunEnds, Killed, EndRun, logger, TypeInv
<1>3. /\ Newest' = Newest /\ LastSorted' = LastSorted /\ Oldest' = Oldest
      /\ TimesAscend'
  BY <1>1, <1>2, SameFiles
<1>4. /\ since \in 0 .. behind /\ behind \in 0 .. Newest - 1
      /\ Newest \in Nat \ {0} /\ Newest <= MaxFiles
      /\ Window \in Nat \ {0} /\ MaxFiles \in Nat
      /\ Mode # "all" => behind < Window
      /\ Mode = "all" => Window = MaxFiles
      /\ LastSorted = Newest - since
  BY <1>1, FileFields, WindowIsPositive DEF TypeInv, LastSorted, Window
<1>5. TypeInv'
  <2>1. since' \in 0 .. behind' /\ behind' \in 0 .. Newest - 1
        /\ (Mode # "all" => behind' < Window)
    BY <1>2, <1>4
  <2>2. chosen' \in Seq(Nat) /\ batch' \subseteq Rows /\ at' = "idle"
    BY <1>2
  <2>3. /\ files \in Seq(File) /\ files # <<>> /\ Newest <= MaxFiles
        /\ clock \in Nat /\ table \subseteq Rows
    BY <1>1 DEF TypeInv
  <2>. QED
    BY <1>2, <1>3, <2>1, <2>2, <2>3 DEF TypeInv, Window
<1>6. ChosenInv' /\ CutForGood(batch)'
  BY <1>2 DEF ChosenInv, CutForGood
<1>7. CutForGood(table)'
  BY <1>1, <1>2, <1>3 DEF CutForGood
<1>8. ASSUME NEW f \in 1 .. Newest - behind' - 1
      PROVE  Whole(f, table)
  <2>1. CASE behind' = behind
    BY <1>1, <1>8, <2>1 DEF WholeInv
  <2>2. CASE behind' = since /\ at = "next" /\ chosen = <<>> /\ ~failed
    <3>1. f \in 1 .. LastSorted - 1
      BY <1>4, <1>8, <2>2
    <3>2. CASE Oldest <= f
      <4>1. f \in Oldest + Len(chosen) .. LastSorted - 1
        BY <1>4, <2>2, <3>1, <3>2 DEF Oldest
      <4>. QED
        BY <1>1, <2>2, <4>1 DEF WholeInv
    <3>3. CASE ~ (Oldest <= f)
      <4>1. f \in 1 .. Newest - behind - 1
        BY <1>4, <3>1, <3>3 DEF Oldest
      <4>. QED
        BY <1>1, <4>1 DEF WholeInv
    <3>. QED
      BY <3>2, <3>3
  <2>. QED
    BY <1>2, <2>1, <2>2
<1>9. WholeInv'
  BY <1>2, <1>3, <1>8 DEF WholeInv, Whole, Logged
<1>. QED
  BY <1>3, <1>5, <1>6, <1>7, <1>9 DEF WindowInv

-----------------------------------------------------------------------------
(* What it shows.                                                          *)

LEMMA WindowInvariant == NamesAscend /\ HoldsLastLine => (Spec => []WindowInv)
<1>. SUFFICES ASSUME NamesAscend, HoldsLastLine PROVE Spec => []WindowInv
  OBVIOUS
<1>1. Init => WindowInv
  <2>. SUFFICES ASSUME Init PROVE WindowInv
    OBVIOUS
  <2>1. /\ files = <<[n |-> 0, part |-> "none", mtime |-> 0]>> /\ clock = 0
        /\ table = {} /\ at = "idle" /\ chosen = <<>> /\ batch = {}
        /\ failed = FALSE /\ since = 0 /\ behind = 0
    BY DEF Init
  <2>2. /\ files \in Seq(File) /\ files # <<>> /\ Newest = 1
        /\ files[1].mtime = 0
    BY <2>1 DEF File, Newest
  <2>3. TypeInv
    <3>1. MaxFiles \in Nat \ {0} /\ Window \in Nat \ {0}
      BY WindowIsPositive
    <3>2. /\ Newest <= MaxFiles /\ since \in 0 .. behind /\ behind \in 0 .. Newest - 1
          /\ behind < Window /\ chosen \in Seq(Nat)
      BY <2>1, <2>2, <3>1
    <3>. QED
      BY <2>1, <2>2, <3>2 DEF TypeInv
  <2>4. TimesAscend
    BY <2>1, <2>2 DEF TimesAscend
  <2>. QED
    BY <2>1, <2>2, <2>3, <2>4 DEF WindowInv, ChosenInv, CutForGood, WholeInv
<1>2. ASSUME WindowInv, UNCHANGED vars
      PROVE  WindowInv'
  <2>1. /\ UNCHANGED <<files, clock, table, at, chosen, growing, batch, failed>>
        /\ UNCHANGED <<since, behind>>
    BY <1>2 DEF vars, logger, run
  <2>2. /\ TypeInv /\ TimesAscend /\ ChosenInv /\ CutForGood(table)
        /\ CutForGood(batch) /\ WholeInv
    BY <1>2 DEF WindowInv
  <2>3. /\ Newest' = Newest /\ LastSorted' = LastSorted /\ Oldest' = Oldest
        /\ TimesAscend'
    BY <2>1, <2>2, SameFiles
  <2>4. TypeInv'
    BY <2>1, <2>2, <2>3 DEF TypeInv, Window
  <2>5. ChosenInv' /\ CutForGood(table)' /\ CutForGood(batch)'
    BY <2>1, <2>2, <2>3 DEF ChosenInv, CutForGood
  <2>6. WholeInv'
    BY <2>1, <2>2, <2>3 DEF WholeInv, Whole, Logged
  <2>. QED
    BY <2>3, <2>4, <2>5, <2>6 DEF WindowInv
<1>3. WindowInv /\ Next => WindowInv'
  BY LogsKeepWindow, ResolveKeeps, PickKeeps, ReadKeeps, FileKeeps, RunEndsKeeps
     DEF Next, Runs
<1>. QED
  BY <1>1, <1>2, <1>3, PTL DEF Spec

(* No row of a half-written line is in the table once the logger has       *)
(* written the line, however writes, rotations, runs, failed files and     *)
(* kills follow each other: what is read of the file that may still grow   *)
(* ends at its last complete line (newestFile, HoldUnterminatedLastLine).  *)
THEOREM RowsFinal == NamesAscend /\ HoldsLastLine => (Spec => []RowsAreFinal)
<1>. SUFFICES ASSUME NamesAscend, HoldsLastLine PROVE Spec => []RowsAreFinal
  OBVIOUS
<1>1. WindowInv => RowsAreFinal
  <2>. SUFFICES ASSUME WindowInv, NEW f \in 1 .. Newest, NEW i \in 1 .. MaxLines,
                       Torn(f, i)
                PROVE  FALSE
    BY DEF RowsAreFinal
  <2>1. Line(f, i, TRUE) \in table /\ Logged(f, i)
    BY DEF Torn
  <2>2. /\ Line(f, i, TRUE).cut /\ Line(f, i, TRUE).file = f
        /\ Line(f, i, TRUE).line = i
    BY DEF Line
  <2>3. files[f].part = "cut" /\ i = files[f].n + 1
    BY <2>1, <2>2 DEF WindowInv, CutForGood
  <2>4. files[f].n \in Nat
    BY FileFields DEF WindowInv
  <2>. QED
    BY <2>1, <2>3, <2>4 DEF Logged
<1>. QED
  BY <1>1, WindowInvariant, PTL

(* A file that has left the window of the runs is stored whole, its last   *)
(* line without a newline included, if the logger starts no more files     *)
(* than the window holds between two runs that succeed.                    *)
THEOREM NothingLeft == NamesAscend /\ HoldsLastLine => (Spec => []NothingLeftBehind)
<1>. SUFFICES ASSUME NamesAscend, HoldsLastLine PROVE Spec => []NothingLeftBehind
  OBVIOUS
<1>1. WindowInv => NothingLeftBehind
  <2>. SUFFICES ASSUME WindowInv, NEW f \in 1 .. Newest - Window,
                       NEW i \in 1 .. MaxLines, Logged(f, i)
                PROVE  Line(f, i, FALSE) \in table
    BY DEF NothingLeftBehind, Stored
  <2>1. /\ Newest \in Nat \ {0} /\ Newest <= MaxFiles /\ Window \in Nat \ {0}
        /\ MaxFiles \in Nat /\ behind \in Nat
        /\ Mode # "all" => behind < Window
        /\ Mode = "all" => Window = MaxFiles
    BY FileFields, WindowIsPositive DEF WindowInv, TypeInv, Window
  <2>2. f \in 1 .. Newest - behind - 1
    BY <2>1
  <2>3. Whole(f, table)
    BY <2>2 DEF WindowInv, WholeInv
  <2>. QED
    BY <2>3 DEF Whole
<1>. QED
  BY <1>1, WindowInvariant, PTL
=============================================================================
