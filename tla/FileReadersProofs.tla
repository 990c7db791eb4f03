------------------------- MODULE FileReadersProofs -------------------------
(***************************************************************************)
(* Proofs about FileReaders, for files of any length: the tabular reader   *)
(* (GrowthAddsRows, AnyRowResumes, PreviewHolds), the WebdynSun reader     *)
(* (BlocksCarried) and the XML reader (PartsRefused, FieldsFollow).        *)
(*                                                                         *)
(* TabularInv says what a reading knows of the file: as long as it has     *)
(* read nothing the logger may still end (Steady), its head is that of the *)
(* file (KnowsHead, which HeadStays keeps when lines are added) and its    *)
(* rows are those of the lines it has seen (AtRows); one lemma for each    *)
(* action keeps it.  BlockInv says in which block the reader is; XmlInv,   *)
(* that the root is a node without parents; TreeInv, that a node's chain   *)
(* is its parent's and the node.  That the loop over a path ends at the    *)
(* nodes named like it is an induction on its length (AllNumbers).         *)
(***************************************************************************)
EXTENDS FileReaders, Integers, FiniteSets, SequenceTheorems,
        FiniteSetTheorems, WellFoundedInduction, TLAPS

-----------------------------------------------------------------------------
(* Tabular files.  Only the last line may be one the logger has not ended. *)

TabularPieces == UNION {Fragments[s] : s \in Shapes}

TabularShape ==
    Shapes \cup {p.first : p \in TabularPieces} \cup {p.rest : p \in TabularPieces}

TabularLine == [shape : TabularShape, rest : TabularShape, ended : BOOLEAN]

TabularFile ==
    /\ lines \in Seq(TabularLine)
    /\ opts \in Tabular!Options
    /\ \A i \in 1 .. Len(lines) - 1 : lines[i].ended

RowOf(f, n) == [line |-> n, next |-> n, value |-> f[n].shape.value]

(* The line numbers of the rows of file f, its last line included. *)
RowLines(f, o) ==
    {n \in Tabular!BeforeRows(f, o) + 1 .. Len(f) :
        Tabular!IsRow(Tabular!HeadOf(f, o), f[n].shape)}

(* There is one first line of text, if any. *)
LEMMA OneText ==
    ASSUME NEW f \in Seq(TabularLine), NEW k \in Nat,
           NEW i \in Tabular!TextAfter(f, k)
    PROVE  Tabular!TextAfter(f, k) = {i} /\ Tabular!TheText(f, k) = i
<1>1. Len(f) \in Nat
  OBVIOUS
<1>2. ASSUME NEW j \in Tabular!TextAfter(f, k)
      PROVE  j = i
  BY <1>1 DEF Tabular!TextAfter
<1>. QED
  BY <1>2 DEF Tabular!TheText

(* If the header or the delimiter is taken from the first line of text,    *)
(* every row is that line or comes after it.                               *)
LEMMA TextFirst ==
    ASSUME NEW f \in Seq(TabularLine), NEW o \in Tabular!Options,
           Tabular!HasHead(f, o), Tabular!NeedsText(o)
    PROVE  /\ Tabular!TheText(f, o.skip) \in o.skip + 1 .. Len(f)
           /\ Tabular!TheText(f, o.skip) \in Tabular!TextAfter(f, o.skip)
           /\ \A n \in RowLines(f, o) : Tabular!TheText(f, o.skip) <= n
<1>. DEFINE x == Tabular!TheText(f, o.skip)
<1>1. o.skip \in Nat /\ Len(f) \in Nat
  BY DEF Tabular!Options
<1>2. x \in Tabular!TextAfter(f, o.skip)
  BY DEF Tabular!HasHead, Tabular!TheText
<1>3. /\ x \in o.skip + 1 .. Len(f)
      /\ \A j \in o.skip + 1 .. x - 1 : f[j].shape.blank
  BY <1>2 DEF Tabular!TextAfter
<1>. HIDE DEF x
<1>4. ASSUME NEW n \in RowLines(f, o)
      PROVE  x <= n
  <2>1. n \in Int /\ ~f[n].shape.blank
    BY DEF RowLines, Tabular!IsRow
  <2>2. o.skip < n
    BY <1>1, <1>3, <2>1 DEF RowLines, Tabular!BeforeRows, x
  <2>. QED
    BY <1>1, <1>3, <2>1, <2>2
<1>. QED
  BY <1>2, <1>3, <1>4 DEF x

LEMMA BeforeIsNat ==
    ASSUME NEW f \in Seq(TabularLine), NEW o \in Tabular!Options,
           Tabular!HasHead(f, o)
    PROVE  /\ Tabular!BeforeRows(f, o) \in Nat
           /\ Tabular!BeforeRows(f, o) <= Len(f)
           /\ o.skip \in Nat /\ o.skip <= Tabular!BeforeRows(f, o)
<1>1. o.skip \in Nat /\ Len(f) \in Nat
  BY DEF Tabular!Options
<1>2. CASE o.columns = FromFile
  <2>1. Tabular!TheText(f, o.skip) \in o.skip + 1 .. Len(f)
    BY <1>2, TextFirst DEF Tabular!NeedsText
  <2>. QED
    BY <1>1, <1>2, <2>1 DEF Tabular!BeforeRows
<1>. QED
  BY <1>1, <1>2 DEF Tabular!BeforeRows, Tabular!HasHead

(* Two files that agree up to the text the head is made of have the same   *)
(* head.                                                                   *)
Agree(f, g, n) == n \in 0 .. Len(f) /\ n <= Len(g) /\ \A i \in 1 .. n : g[i] = f[i]

LEMMA HeadStays ==
    ASSUME NEW f \in Seq(TabularLine), NEW g \in Seq(TabularLine),
           NEW o \in Tabular!Options, NEW n \in Nat, Agree(f, g, n),
           Tabular!HasHead(f, o),
           Tabular!NeedsText(o) => Tabular!TheText(f, o.skip) <= n,
           Len(f) <= Len(g)
    PROVE  /\ Tabular!HasHead(g, o)
           /\ Tabular!HeadOf(g, o) = Tabular!HeadOf(f, o)
           /\ Tabular!NeedsText(o) =>
                 Tabular!TheText(g, o.skip) = Tabular!TheText(f, o.skip)
           /\ Tabular!BeforeRows(g, o) = Tabular!BeforeRows(f, o)
<1>. DEFINE x == Tabular!TheText(f, o.skip)
<1>1. o.skip \in Nat /\ Len(f) \in Nat /\ Len(g) \in Nat
  BY DEF Tabular!Options
<1>2. CASE Tabular!NeedsText(o)
  <2>1. /\ x \in o.skip + 1 .. Len(f) /\ x <= n
        /\ x \in Tabular!TextAfter(f, o.skip)
    BY <1>2, TextFirst
  <2>. HIDE DEF x
  <2>2. x \in Tabular!TextAfter(g, o.skip)
    <3>1. x \in Int /\ x \in o.skip + 1 .. Len(g)
      BY <1>1, <2>1
    <3>2. \A i \in 1 .. x : g[i] = f[i]
      BY <1>1, <2>1, <3>1 DEF Agree
    <3>3. ~f[x].shape.blank /\ \A j \in o.skip + 1 .. x - 1 : f[j].shape.blank
      BY <2>1 DEF Tabular!TextAfter
    <3>4. g[x] = f[x] /\ \A j \in o.skip + 1 .. x - 1 : g[j] = f[j]
      BY <1>1, <3>1, <3>2
    <3>. QED
      BY <3>1, <3>3, <3>4 DEF Tabular!TextAfter
  <2>3. Tabular!TheText(g, o.skip) = x /\ g[x] = f[x]
    BY <1>1, <2>1, <2>2, OneText DEF Agree
  <2>4. Tabular!HasHead(g, o)
    BY <1>1, <2>1, <2>2 DEF Tabular!HasHead, Agree
  <2>. QED
    BY <1>2, <2>3, <2>4 DEF Tabular!HeadOf, Tabular!BeforeRows, x
<1>3. CASE ~Tabular!NeedsText(o)
  BY <1>1, <1>3
     DEF Tabular!NeedsText, Tabular!HasHead, Tabular!HeadOf, Tabular!BeforeRows
<1>. QED
  BY <1>2, <1>3

(* What `read` counts is what `write` stores, but for NUL bytes and for a  *)
(* header without a timestamp.                                             *)
LEMMA CountedAreRows ==
    ASSUME NEW f \in Seq(TabularLine), NEW o \in Tabular!Options,
           Tabular!HasHead(f, o)
    PROVE  LET sound == Tabular!WellFormed(f, o) \ Tabular!TimestampErrors(f, o)
           IN /\ RowLines(f, o) \subseteq sound
              /\ \A i \in sound \ RowLines(f, o) :
                     f[i].shape.nul \/ ~Tabular!HeadOf(f, o).names
              /\ \A i \in sound : i \in 1 .. Len(f)
<1>. DEFINE x == Tabular!TheText(f, o.skip)
            passed == Tabular!BeforeRows(f, o)
            stored == RowLines(f, o)
            h == Tabular!HeadOf(f, o)
<1>1. Len(f) \in Nat /\ o.skip \in Nat
  BY DEF Tabular!Options
<1>2. passed \in Nat
  BY <1>1, BeforeIsNat
<1>3. Tabular!NeedsText(o) => x \in Nat /\ o.skip < x
  BY <1>1, TextFirst
<1>4. \A n \in stored : Tabular!NeedsText(o) => x <= n
  BY TextFirst
<1>5. /\ o.columns = FromFile => passed = x /\ Tabular!NeedsText(o)
      /\ o.columns # FromFile => passed = o.skip
  BY DEF Tabular!BeforeRows, Tabular!NeedsText
<1>8. stored = {n \in passed + 1 .. Len(f) : Tabular!IsRow(h, f[n].shape)}
  BY <1>1 DEF RowLines
<1>. HIDE DEF x, passed, stored
<1>. DEFINE first == IF ~Tabular!NeedsText(o) THEN o.skip + 1
                     ELSE IF o.columns = FromFile THEN x + 1 ELSE x
<1>6. Tabular!Counted(f, o) = {i \in first .. Len(f) : ~f[i].shape.blank}
  BY DEF Tabular!Counted, x
<1>7. /\ first \in Nat /\ passed < first
      /\ \A n \in stored : n \in Int /\ first <= n /\ n <= Len(f)
  <2>1. \A n \in stored : n \in Int /\ passed < n /\ n <= Len(f)
    BY <1>1, <1>2, <1>8
  <2>2. CASE o.columns = FromFile
    <3>1. first = x + 1 /\ passed = x
      BY <1>5, <2>2
    <3>. QED
      BY <1>2, <2>1, <3>1
  <2>3. CASE o.columns # FromFile /\ Tabular!NeedsText(o)
    <3>1. first = x /\ passed = o.skip
      BY <1>5, <2>3
    <3>. QED
      BY <1>1, <1>3, <1>4, <2>1, <2>3, <3>1
  <2>4. CASE ~Tabular!NeedsText(o)
    <3>1. first = o.skip + 1 /\ passed = o.skip
      BY <1>5, <2>4
    <3>. QED
      BY <1>1, <2>1, <3>1
  <2>. QED
    BY <2>2, <2>3, <2>4
<1>. HIDE DEF first
<1>9. ASSUME NEW n \in stored
      PROVE  n \in Tabular!Counted(f, o) /\ Tabular!IsRow(h, f[n].shape)
  <2>1. Tabular!IsRow(h, f[n].shape) /\ ~f[n].shape.blank
    BY <1>8 DEF Tabular!IsRow
  <2>2. n \in first .. Len(f)
    BY <1>1, <1>7
  <2>. QED
    BY <1>6, <2>1, <2>2
<1>10. ASSUME NEW n \in Tabular!Counted(f, o)
       PROVE  /\ ~f[n].shape.blank
              /\ Tabular!IsRow(h, f[n].shape) => n \in stored
              /\ n \in 1 .. Len(f)
  <2>1. n \in first .. Len(f) /\ ~f[n].shape.blank
    BY <1>6
  <2>2. n \in passed + 1 .. Len(f) /\ n \in 1 .. Len(f)
    BY <1>1, <1>2, <1>7, <2>1
  <2>. QED
    BY <1>8, <2>1, <2>2
<1>11. /\ \A n \in Tabular!WellFormed(f, o) :
             n \in Tabular!Counted(f, o) /\ Tabular!Cells(f[n].shape, h.delimiter) = h.width
       /\ \A n \in Tabular!Counted(f, o) :
             Tabular!Cells(f[n].shape, h.delimiter) = h.width => n \in Tabular!WellFormed(f, o)
       /\ \A n \in Tabular!WellFormed(f, o) :
             n \in Tabular!TimestampErrors(f, o) <=>
                 IF h.names THEN ~f[n].shape.stamped ELSE o.sources
  BY DEF Tabular!WellFormed, Tabular!TimestampErrors
<1>. HIDE DEF h
<1>. QED
  BY <1>9, <1>10, <1>11 DEF stored, h, Tabular!IsRow

-----------------------------------------------------------------------------
(* The reading.                                                            *)

(* The lines read, in whole or, the last one, in part. *)
Seen == IF within THEN at + 1 ELSE at

(* The file is what the reading has seen, so far: it has not changed, or   *)
(* only lines that had ended were read.                                    *)
Steady == (~grown /\ from = Tabular!FromStart) \/ (hold /\ ~early)

TabularTyped ==
    /\ TabularFile
    /\ stage \in {"closed", "resolve", "pass", "rows", "done", "failed"}
    /\ hold \in BOOLEAN /\ early \in BOOLEAN /\ grown \in BOOLEAN
    /\ at \in 0 .. Len(lines)
    /\ within \in BOOLEAN /\ (within => at < Len(lines))
    /\ \A i \in 1 .. at : lines[i].ended
    /\ skipped \in 0 .. opts.skip
    /\ line \in Nat
    /\ from.line \in Nat /\ from.next \in 0 .. Len(lines)
    /\ from.next = 0 => from = Tabular!FromStart
    /\ \A i \in 1 .. from.next : lines[i].ended
    /\ stage \notin {"rows", "done"} => got = {}
    /\ hold => \A r \in got : r.line \in Nat /\ r.next \in 1 .. at

(* Only whole lines are behind a reading the file grows behind. *)
WholeLines == within => ~lines[at + 1].ended /\ ~(hold /\ ~early)

(* A reading from a checkpoint starts after the header. *)
AfterHead ==
    from # Tabular!FromStart =>
        /\ from.line = from.next
        /\ Tabular!HasHead(lines, opts)
        /\ Tabular!BeforeRows(lines, opts) < from.next
        /\ Tabular!NeedsText(opts) => Tabular!TheText(lines, opts.skip) <= from.next

(* Among the lines before the rows: the skipped ones and blank ones. *)
BeforeText ==
    /\ skipped <= Seen
    /\ skipped < opts.skip => Seen = skipped
    /\ \A i \in opts.skip + 1 .. Seen : lines[i].shape.blank

KnowsHead ==
    /\ Tabular!HasHead(lines, opts)
    /\ head = Tabular!HeadOf(lines, opts)
    /\ hold /\ ~early /\ Tabular!NeedsText(opts) =>
           lines[Tabular!TheText(lines, opts.skip)].ended

RowsSeen ==
    {RowOf(lines, n) :
        n \in {k \in Tabular!BeforeRows(lines, opts) + 1 .. Seen :
                 /\ from.next < k
                 /\ Tabular!IsRow(Tabular!HeadOf(lines, opts), lines[k].shape)}}

AtRows ==
    /\ Tabular!BeforeRows(lines, opts) <= Seen
    /\ from.next <= Seen
    /\ line = Seen
    /\ got = RowsSeen

AtDone ==
    \/ Seen = Len(lines)
    \/ hold /\ Seen = Len(lines) - 1 /\ ~lines[Len(lines)].ended

TabularKnows ==
    Steady =>
        /\ WholeLines
        /\ AfterHead
        /\ stage = "resolve" => BeforeText /\ line = from.line
        /\ stage \in {"pass", "rows", "done"} => KnowsHead
        /\ stage = "pass" => /\ BeforeText
                             /\ from = Tabular!FromStart /\ line = Seen
                             /\ opts.columns # FromFile => Seen = skipped
        /\ stage \in {"rows", "done"} => AtRows
        /\ stage = "done" /\ ~grown => AtDone

TabularInv == TabularTyped /\ TabularKnows

LEMMA TabularStarts == Init => TabularInv
<1>. SUFFICES ASSUME Init PROVE TabularInv
  OBVIOUS
<1>1. Tabular!Init /\ opts \in Tabular!Options
  <2>1. Tabular!Init
    BY DEF Init
  <2>. QED
    BY <2>1 DEF Tabular!Init
<1>2. opts.skip \in Nat
  BY <1>1 DEF Tabular!Options
<1>3. TabularTyped
  <2>1. lines = <<>> /\ lines \in Seq(TabularLine) /\ Len(lines) = 0
    BY <1>1 DEF Tabular!Init
  <2>2. TabularFile
    BY <1>1, <2>1 DEF TabularFile
  <2>3. /\ stage = "closed" /\ hold = FALSE /\ from = Tabular!FromStart
        /\ at = 0 /\ within = FALSE /\ skipped = 0 /\ line = 0
        /\ got = {} /\ early = FALSE /\ grown = FALSE
    BY <1>1 DEF Tabular!Init
  <2>4. from.line = 0 /\ from.next = 0
    BY <2>3 DEF Tabular!FromStart
  <2>5. /\ at \in 0 .. Len(lines) /\ skipped \in 0 .. opts.skip
        /\ from.next \in 0 .. Len(lines)
    BY <1>2, <2>1, <2>3, <2>4
  <2>6. \A i \in 1 .. at : lines[i].ended
    BY <2>3
  <2>7. \A i \in 1 .. from.next : lines[i].ended
    BY <2>4
  <2>8. /\ hold \in BOOLEAN /\ early \in BOOLEAN /\ grown \in BOOLEAN
        /\ within \in BOOLEAN /\ ~within /\ ~hold
        /\ got = {} /\ stage = "closed" /\ from = Tabular!FromStart
    BY <2>3
  <2>9. line \in Nat /\ from.line \in Nat
    BY <2>3, <2>4
  <2>. QED
    BY <2>2, <2>5, <2>6, <2>7, <2>8, <2>9 DEF TabularTyped
<1>4. TabularKnows
  BY <1>1 DEF Tabular!Init, TabularKnows, WholeLines, AfterHead
<1>. QED
  BY <1>3, <1>4 DEF TabularInv

(* A line read is the next one of the file, if the reading is steady.      *)
LEMMA LineIsNext ==
    ASSUME TabularTyped, Tabular!ReadLine
    PROVE  /\ at' \in 0 .. Len(lines) /\ within' \in BOOLEAN
           /\ within' => at' < Len(lines)
           /\ \A i \in 1 .. at' : lines[i].ended
           /\ Steady /\ WholeLines =>
                 /\ ~within /\ Seen = at /\ at < Len(lines)
                 /\ Tabular!Piece = lines[Seen + 1].shape
                 /\ Seen' = Seen + 1
           /\ within' => ~lines[at' + 1].ended
           /\ within' <=> ~lines[at + 1].ended
<1>1. /\ Len(lines) \in Nat /\ at \in Nat /\ at <= Len(lines)
      /\ at < Len(lines)
  BY DEF TabularTyped, TabularFile, Tabular!ReadLine, Tabular!AtEnd
<1>2. /\ lines[at + 1].ended \in BOOLEAN
      /\ at' = IF lines[at + 1].ended THEN at + 1 ELSE at
      /\ within' = ~lines[at + 1].ended
  <2>1. lines[at + 1] \in TabularLine
    BY <1>1 DEF TabularTyped, TabularFile
  <2>. QED
    BY <2>1 DEF Tabular!ReadLine, Tabular!Ended, TabularLine
<1>3. \A i \in 1 .. at' : lines[i].ended
  <2>1. \A i \in 1 .. at : lines[i].ended
    BY DEF TabularTyped
  <2>. QED
    BY <1>1, <1>2, <2>1
<1>4. ASSUME Steady, WholeLines
      PROVE  /\ ~within /\ Seen = at
             /\ Tabular!Piece = lines[Seen + 1].shape
             /\ Seen' = Seen + 1
  <2>1. ~within
    BY <1>4 DEF WholeLines, Tabular!ReadLine, Tabular!AtEnd
  <2>. QED
    BY <1>1, <1>2, <2>1 DEF Seen, Tabular!Piece
<1>5. within' => at' < Len(lines) /\ ~lines[at' + 1].ended
  BY <1>1, <1>2
<1>6. at' \in 0 .. Len(lines) /\ within' \in BOOLEAN
  BY <1>1, <1>2
<1>. QED
  BY <1>1, <1>2, <1>3, <1>4, <1>5, <1>6

(* The logger leaves the lines that had ended as they were. *)
LEMMA LoggerStep ==
    ASSUME TabularFile, NEW s \in Shapes, Tabular!TabularAssumption,
           Tabular!WriteLine(s) \/ Tabular!WriteFragment(s) \/ Tabular!EndLine(s),
           NEW n \in Nat, n <= Len(lines), \A i \in 1 .. n : lines[i].ended
    PROVE  /\ TabularFile'
           /\ opts' = opts
           /\ Len(lines) <= Len(lines')
           /\ Agree(lines, lines', n)
<1>1. lines \in Seq(TabularLine) /\ Len(lines) \in Nat
  BY DEF TabularFile
<1>2. Tabular!Blank \in TabularShape
  BY DEF TabularShape, Tabular!TabularAssumption
<1>3. CASE Tabular!WriteLine(s) \/ Tabular!WriteFragment(s)
  <2>1. PICK l \in TabularLine : lines' = Append(lines, l)
    <3>1. CASE Tabular!WriteLine(s)
      BY <1>2, <3>1 DEF Tabular!WriteLine, TabularLine, TabularShape
    <3>2. CASE Tabular!WriteFragment(s)
      BY <1>2, <3>2 DEF Tabular!WriteFragment, TabularLine, TabularShape, TabularPieces
    <3>. QED
      BY <1>3, <3>1, <3>2
  <2>2. ~Tabular!Unended(lines) /\ opts' = opts
    BY <1>3 DEF Tabular!WriteLine, Tabular!WriteFragment
  <2>3. /\ lines' \in Seq(TabularLine) /\ Len(lines') = Len(lines) + 1
        /\ \A i \in 1 .. Len(lines) : lines'[i] = lines[i]
    BY <1>1, <2>1
  <2>4. \A i \in 1 .. Len(lines) : lines[i].ended
    BY <1>1, <2>2 DEF TabularFile, Tabular!Unended, Tabular!Last
  <2>. QED
    BY <1>1, <2>2, <2>3, <2>4 DEF TabularFile, Agree
<1>4. CASE Tabular!EndLine(s)
  <2>1. Tabular!Unended(lines) /\ opts' = opts
    BY <1>4 DEF Tabular!EndLine
  <2>2. PICK l \in TabularLine :
           l.ended /\ lines' = Append(SubSeq(lines, 1, Len(lines) - 1), l)
    BY <1>4 DEF Tabular!EndLine, Tabular!Front, TabularLine, TabularShape, TabularPieces
  <2>4. 1 <= Len(lines) /\ ~lines[Len(lines)].ended
    BY <1>1, <2>1 DEF Tabular!Unended, Tabular!Last
  <2>5. /\ lines' \in Seq(TabularLine) /\ Len(lines') = Len(lines)
        /\ \A i \in 1 .. Len(lines) - 1 : lines'[i] = lines[i]
    <3>. DEFINE m == Len(lines) - 1
                front == SubSeq(lines, 1, m)
    <3>1. m \in Nat /\ \A i \in 1 .. m : lines[i] \in TabularLine
      BY <1>1, <2>4
    <3>2. /\ front \in Seq(TabularLine)
          /\ Len(front) = IF 1 <= m THEN m - 1 + 1 ELSE 0
          /\ \A i \in 1 .. m - 1 + 1 : front[i] = lines[1 + i - 1]
      <4>. HIDE DEF m
      <4>. QED
        BY <3>1, SubSeqProperties
    <3>3. /\ (IF 1 <= m THEN m - 1 + 1 ELSE 0) = m
          /\ m - 1 + 1 = m
          /\ \A i \in 1 .. m : 1 + i - 1 = i
      <4>. HIDE DEF m
      <4>. QED
        BY <3>1
    <3>4. /\ front \in Seq(TabularLine) /\ Len(front) = m
          /\ \A i \in 1 .. m : front[i] = lines[i]
      BY <3>2, <3>3
    <3>5. m + 1 = Len(lines) /\ lines' = Append(front, l)
      BY <1>1, <2>2
    <3>. HIDE DEF m, front
    <3>6. /\ lines' \in Seq(TabularLine) /\ Len(lines') = m + 1
          /\ \A i \in 1 .. m : lines'[i] = front[i]
      BY <3>1, <3>4, <3>5
    <3>. QED
      BY <3>4, <3>5, <3>6 DEF m
  <2>6. n <= Len(lines) - 1
    BY <1>1, <2>4
  <2>7. \A i \in 1 .. Len(lines) - 1 : lines'[i].ended
    BY <2>5 DEF TabularFile
  <2>. QED
    BY <1>1, <2>1, <2>5, <2>6, <2>7 DEF TabularFile, Agree
<1>. QED
  BY <1>3, <1>4

(* The head of a file stays when the text it is made of has ended. *)
LEMMA HeadKept ==
    ASSUME TabularFile, NEW s \in Shapes, Tabular!TabularAssumption,
           Tabular!WriteLine(s) \/ Tabular!WriteFragment(s) \/ Tabular!EndLine(s),
           Tabular!HasHead(lines, opts),
           Tabular!NeedsText(opts) => lines[Tabular!TheText(lines, opts.skip)].ended
    PROVE  /\ Tabular!HasHead(lines', opts)
           /\ Tabular!HeadOf(lines', opts) = Tabular!HeadOf(lines, opts)
           /\ Tabular!BeforeRows(lines', opts) = Tabular!BeforeRows(lines, opts)
           /\ Tabular!NeedsText(opts) =>
                 /\ Tabular!TheText(lines', opts.skip) = Tabular!TheText(lines, opts.skip)
                 /\ lines'[Tabular!TheText(lines', opts.skip)].ended
<1>. DEFINE x == Tabular!TheText(lines, opts.skip)
            n == IF Tabular!NeedsText(opts) THEN x ELSE 0
<1>1. /\ lines \in Seq(TabularLine) /\ Len(lines) \in Nat
      /\ opts \in Tabular!Options /\ opts.skip \in Nat
  BY DEF TabularFile, Tabular!Options
<1>2. Tabular!NeedsText(opts) => x \in 1 .. Len(lines) /\ lines[x].ended
  <2>. SUFFICES ASSUME Tabular!NeedsText(opts) PROVE x \in 1 .. Len(lines)
    OBVIOUS
  <2>1. x \in opts.skip + 1 .. Len(lines)
    BY <1>1, TextFirst
  <2>. HIDE DEF x
  <2>. QED
    BY <1>1, <2>1
<1>3. n \in Nat /\ n <= Len(lines) /\ (Tabular!NeedsText(opts) => n = x)
  BY <1>1, <1>2
<1>4. \A i \in 1 .. n : lines[i].ended
  BY <1>1, <1>2 DEF TabularFile
<1>. HIDE DEF x, n
<1>5. TabularFile' /\ Len(lines) <= Len(lines') /\ Agree(lines, lines', n)
  BY <1>3, <1>4, LoggerStep
<1>6. lines' \in Seq(TabularLine)
  BY <1>5 DEF TabularFile
<1>7. /\ Tabular!HasHead(lines', opts)
      /\ Tabular!HeadOf(lines', opts) = Tabular!HeadOf(lines, opts)
      /\ Tabular!NeedsText(opts) => Tabular!TheText(lines', opts.skip) = x
      /\ Tabular!BeforeRows(lines', opts) = Tabular!BeforeRows(lines, opts)
  BY <1>1, <1>3, <1>5, <1>6, HeadStays DEF x
<1>8. Tabular!NeedsText(opts) => lines'[x].ended
  BY <1>2, <1>3, <1>5 DEF Agree
<1>. QED
  BY <1>7, <1>8 DEF x

(* The logger leaves what a reading knows. *)
LEMMA LoggerKeeps ==
    ASSUME TabularInv, NEW s \in Shapes, Tabular!TabularAssumption,
           Tabular!WriteLine(s) \/ Tabular!WriteFragment(s) \/ Tabular!EndLine(s)
    PROVE  TabularInv'
<1>1. TabularTyped /\ TabularFile
  BY DEF TabularInv, TabularTyped
<1>2. /\ UNCHANGED <<stage, hold, from, at, within, skipped, head, line, got, early>>
      /\ grown' = TRUE
  BY DEF Tabular!WriteLine, Tabular!WriteFragment, Tabular!EndLine, Tabular!reading
<1>3. /\ Len(lines) \in Nat /\ at \in Nat /\ at <= Len(lines)
      /\ from.next \in Nat /\ from.next <= Len(lines)
  BY <1>1 DEF TabularTyped, TabularFile
<1>4. /\ TabularFile' /\ opts' = opts
      /\ Len(lines) <= Len(lines') /\ Len(lines') \in Nat
      /\ Agree(lines, lines', at) /\ Agree(lines, lines', from.next)
  <2>1. \A i \in 1 .. at : lines[i].ended
    BY <1>1 DEF TabularTyped
  <2>2. \A i \in 1 .. from.next : lines[i].ended
    BY <1>1 DEF TabularTyped
  <2>3. TabularFile' /\ opts' = opts /\ Len(lines) <= Len(lines') /\ Agree(lines, lines', at)
    BY <1>1, <1>3, <2>1, LoggerStep
  <2>4. Agree(lines, lines', from.next)
    BY <1>1, <1>3, <2>2, LoggerStep
  <2>5. Len(lines') \in Nat
    BY <2>3 DEF TabularFile
  <2>. QED
    BY <2>3, <2>4, <2>5
<1>5. TabularTyped'
  <2>1. /\ \A i \in 1 .. at : lines'[i].ended
        /\ \A i \in 1 .. from.next : lines'[i].ended
    BY <1>1, <1>4 DEF TabularTyped, Agree
  <2>2. /\ at \in 0 .. Len(lines') /\ (within => at < Len(lines'))
        /\ from.next \in 0 .. Len(lines')
    BY <1>1, <1>3, <1>4 DEF TabularTyped
  <2>3. grown' \in BOOLEAN
    BY <1>2
  <2>. QED
    BY <1>1, <1>2, <1>4, <2>1, <2>2, <2>3 DEF TabularTyped
<1>6. TabularKnows'
  <2>. SUFFICES ASSUME Steady' PROVE TabularKnows'
    BY DEF TabularKnows
  <2>1. hold /\ ~early /\ Steady
    BY <1>2 DEF Steady
  <2>2. /\ ~within /\ AfterHead
        /\ stage = "resolve" => BeforeText /\ line = from.line
        /\ stage \in {"pass", "rows", "done"} => KnowsHead
        /\ stage = "pass" => /\ BeforeText
                             /\ from = Tabular!FromStart /\ line = Seen
                             /\ opts.columns # FromFile => Seen = skipped
        /\ stage \in {"rows", "done"} => AtRows
    BY <2>1 DEF TabularInv, TabularKnows, WholeLines
  <2>3. Seen = at /\ Seen' = at
    BY <1>2, <2>2 DEF Seen
  <2>4. lines \in Seq(TabularLine) /\ lines' \in Seq(TabularLine) /\ opts \in Tabular!Options
    BY <1>1, <1>4 DEF TabularFile
  <2>5. opts.skip \in Nat
    BY <2>4 DEF Tabular!Options
  <2>6. AfterHead'
    <3>. SUFFICES ASSUME from # Tabular!FromStart PROVE AfterHead'
      BY <1>2 DEF AfterHead
    <3>1. /\ from.line = from.next
          /\ Tabular!HasHead(lines, opts)
          /\ Tabular!BeforeRows(lines, opts) < from.next
          /\ Tabular!NeedsText(opts) => Tabular!TheText(lines, opts.skip) <= from.next
      BY <2>2 DEF AfterHead
    <3>2. Tabular!NeedsText(opts) => lines[Tabular!TheText(lines, opts.skip)].ended
      <4>1. Tabular!NeedsText(opts) =>
               Tabular!TheText(lines, opts.skip) \in opts.skip + 1 .. Len(lines)
        BY <2>4, <3>1, TextFirst
      <4>2. \A i \in 1 .. from.next : lines[i].ended
        BY <1>1 DEF TabularTyped
      <4>. DEFINE x == Tabular!TheText(lines, opts.skip)
      <4>3. Tabular!NeedsText(opts) => x \in 1 .. from.next
        <5>1. Tabular!NeedsText(opts) => x \in opts.skip + 1 .. Len(lines) /\ x <= from.next
          BY <3>1, <4>1
        <5>. HIDE DEF x
        <5>. QED
          BY <1>3, <2>5, <5>1
      <4>. QED
        BY <4>2, <4>3
    <3>. QED
      BY <1>1, <1>2, <1>4, <3>1, <3>2, HeadKept DEF AfterHead
  <2>7. stage \in {"pass", "rows", "done"} => KnowsHead'
    <3>. SUFFICES ASSUME KnowsHead PROVE KnowsHead'
      BY <2>2
    <3>. QED
      BY <1>1, <1>2, <1>4, <2>1, HeadKept DEF KnowsHead
  <2>8. BeforeText => BeforeText'
    BY <1>2, <1>3, <1>4, <2>3, <2>5 DEF BeforeText, Agree
  <2>9. stage \in {"rows", "done"} => AtRows'
    <3>. SUFFICES ASSUME KnowsHead, AtRows PROVE AtRows'
      BY <2>2
    <3>1. /\ Tabular!HeadOf(lines', opts) = Tabular!HeadOf(lines, opts)
          /\ Tabular!BeforeRows(lines', opts) = Tabular!BeforeRows(lines, opts)
      BY <1>1, <2>1, HeadKept DEF KnowsHead
    <3>2. Tabular!BeforeRows(lines, opts) \in Nat
      BY <2>4, BeforeIsNat DEF KnowsHead
    <3>3. \A i \in Tabular!BeforeRows(lines, opts) + 1 .. at : lines'[i] = lines[i]
      BY <1>3, <1>4, <3>2 DEF Agree
    <3>4. RowsSeen' = RowsSeen
      BY <1>2, <1>4, <2>3, <3>1, <3>3 DEF RowsSeen, RowOf
    <3>. QED
      BY <1>2, <1>4, <2>3, <3>1, <3>4 DEF AtRows
  <2>10. WholeLines'
    BY <1>2, <2>2 DEF WholeLines
  <2>11. stage = "pass" => /\ BeforeText'
                           /\ from' = Tabular!FromStart /\ line' = Seen'
                           /\ opts'.columns # FromFile => Seen' = skipped'
    BY <1>2, <1>4, <2>2, <2>3, <2>8
  <2>12. stage = "resolve" => BeforeText' /\ line' = from'.line
    BY <1>2, <2>2, <2>8
  <2>13. stage' = stage /\ grown'
    BY <1>2
  <2>. QED
    BY <2>6, <2>7, <2>9, <2>10, <2>11, <2>12, <2>13 DEF TabularKnows
<1>. QED
  BY <1>5, <1>6 DEF TabularInv

(* A reading begins at the start, or after a row of another. *)
LEMMA OpenKeeps == ASSUME TabularInv, Tabular!Open PROVE TabularInv'
<1>1. /\ stage' = "resolve" /\ hold' \in BOOLEAN
      /\ at' = 0 /\ within' = FALSE /\ skipped' = 0
      /\ line' = from'.line /\ got' = {}
      /\ early' = (early /\ from' # Tabular!FromStart)
      /\ grown' = FALSE /\ lines' = lines /\ opts' = opts
  BY DEF Tabular!Open
<1>2. \/ from' = Tabular!FromStart
      \/ hold /\ \E r \in got : from' = [line |-> r.line, next |-> r.next]
  BY DEF Tabular!Open
<1>3. /\ TabularTyped /\ TabularFile /\ lines \in Seq(TabularLine)
      /\ Len(lines) \in Nat /\ at \in Nat /\ at <= Len(lines)
      /\ opts \in Tabular!Options /\ opts.skip \in Nat
  BY DEF TabularInv, TabularTyped, TabularFile, Tabular!Options
<1>4. /\ from'.line \in Nat /\ from'.next \in 0 .. Len(lines)
      /\ from'.next = 0 => from' = Tabular!FromStart
      /\ \A i \in 1 .. from'.next : lines[i].ended
  <2>1. CASE from' = Tabular!FromStart
    BY <1>3, <2>1 DEF Tabular!FromStart
  <2>2. ASSUME hold, NEW r \in got, from' = [line |-> r.line, next |-> r.next]
        PROVE  /\ from'.line \in Nat /\ from'.next \in 0 .. Len(lines)
               /\ from'.next = 0 => from' = Tabular!FromStart
               /\ \A i \in 1 .. from'.next : lines[i].ended
    <3>1. r.line \in Nat /\ r.next \in 1 .. at
      BY <1>3, <2>2 DEF TabularTyped
    <3>2. \A i \in 1 .. at : lines[i].ended
      BY <1>3 DEF TabularTyped
    <3>. QED
      BY <1>3, <2>2, <3>1, <3>2
  <2>. QED
    BY <1>2, <2>1, <2>2
<1>5. TabularTyped'
  <2>1. early' \in BOOLEAN /\ grown' \in BOOLEAN /\ within' \in BOOLEAN /\ ~within'
    BY <1>1
  <2>2. at' \in 0 .. Len(lines) /\ skipped' \in 0 .. opts.skip
    BY <1>1, <1>3
  <2>3. \A i \in 1 .. at' : lines[i].ended
    BY <1>1
  <2>. QED
    BY <1>1, <1>3, <1>4, <2>1, <2>2, <2>3 DEF TabularTyped, TabularFile
<1>6. TabularKnows'
  <2>. SUFFICES ASSUME Steady' PROVE TabularKnows'
    BY DEF TabularKnows
  <2>1. Seen' = 0
    BY <1>1 DEF Seen
  <2>2. AfterHead'
    <3>. SUFFICES ASSUME from' # Tabular!FromStart PROVE AfterHead'
      BY DEF AfterHead
    <3>1. hold /\ ~early
      BY <1>1, <1>2 DEF Steady
    <3>2. PICK r \in got : from' = [line |-> r.line, next |-> r.next]
      BY <1>2
    <3>3. KnowsHead /\ AtRows
      BY <1>3, <3>1, <3>2 DEF TabularInv, TabularTyped, TabularKnows, Steady
    <3>4. PICK n \in Tabular!BeforeRows(lines, opts) + 1 .. Seen :
             r = RowOf(lines, n)
             /\ Tabular!IsRow(Tabular!HeadOf(lines, opts), lines[n].shape)
      BY <3>2, <3>3 DEF AtRows, RowsSeen
    <3>5. Tabular!BeforeRows(lines, opts) \in Nat /\ Tabular!HasHead(lines, opts)
      BY <1>3, <3>3, BeforeIsNat DEF KnowsHead
    <3>6. Seen <= Len(lines) /\ Seen \in Nat
      BY <1>3 DEF Seen, TabularTyped
    <3>7. n \in RowLines(lines, opts)
      BY <1>3, <3>4, <3>5, <3>6 DEF RowLines
    <3>8. Tabular!NeedsText(opts) => Tabular!TheText(lines, opts.skip) <= n
      BY <1>3, <3>5, <3>7, TextFirst
    <3>9. from'.line = n /\ from'.next = n
      BY <3>2, <3>4 DEF RowOf
    <3>. QED
      BY <1>1, <3>4, <3>5, <3>6, <3>8, <3>9 DEF AfterHead
  <2>3. BeforeText'
    BY <1>1, <1>3, <2>1 DEF BeforeText
  <2>. QED
    BY <1>1, <2>2, <2>3 DEF TabularKnows, WholeLines
<1>. QED
  BY <1>5, <1>6 DEF TabularInv

(* A line more before the rows, among the skipped or a blank one.          *)
LEMMA BeforeTextGrows ==
    ASSUME TabularTyped, Steady, WholeLines, BeforeText, Tabular!ReadLine,
           opts' = opts, lines' = lines,
           \/ skipped < opts.skip /\ skipped' = skipped + 1
           \/ skipped = opts.skip /\ skipped' = skipped /\ Tabular!Piece.blank
    PROVE  BeforeText'
<1>1. /\ at \in Nat /\ opts.skip \in Nat /\ skipped \in Nat
  BY DEF TabularTyped, TabularFile, Tabular!Options
<1>2. /\ Seen = at /\ Seen' = Seen + 1
      /\ Tabular!Piece = lines[Seen + 1].shape
  BY LineIsNext
<1>3. CASE skipped < opts.skip /\ skipped' = skipped + 1
  BY <1>1, <1>2, <1>3 DEF BeforeText
<1>4. CASE skipped = opts.skip /\ skipped' = skipped /\ Tabular!Piece.blank
  BY <1>1, <1>2, <1>4 DEF BeforeText
<1>. QED
  BY <1>3, <1>4

(* The types, after a line read. *)
LEMMA ReadTyped ==
    ASSUME TabularTyped, Tabular!ReadLine,
           lines' = lines, opts' = opts, hold' = hold, from' = from, grown' = grown,
           early' \in BOOLEAN, skipped' \in 0 .. opts.skip, line' \in {line, line + 1},
           stage' \in {"resolve", "pass", "rows"},
           stage' # "rows" => got' = {},
           hold => \A r \in got' : r.line \in Nat /\ r.next \in 1 .. at'
    PROVE  TabularTyped'
<1>1. line' \in Nat
  BY DEF TabularTyped
<1>. QED
  BY <1>1, LineIsNext DEF TabularTyped, TabularFile

(* A reading that stays steady was so before; it has no line in part       *)
(* behind it that the logger may end.                                      *)
LEMMA StaysSteady ==
    ASSUME TabularTyped, TabularKnows, Steady', Tabular!ReadLine, lines' = lines,
           hold' = hold, from' = from, grown' = grown,
           early' = (early \/ ~Tabular!Ended) \/ (early' = early /\ ~Tabular!Held)
    PROVE  Steady /\ WholeLines /\ WholeLines'
<1>1. early \in BOOLEAN /\ hold \in BOOLEAN
  BY DEF TabularTyped
<1>2. ~early' => ~early
  BY <1>1
<1>3. Steady
  BY <1>2 DEF Steady
<1>4. WholeLines
  BY <1>3 DEF TabularKnows
<1>5. ~lines[at + 1].ended => ~(hold /\ ~early')
  BY DEF Tabular!Ended, Tabular!Held, Tabular!ReadLine
<1>6. (within' => ~lines[at' + 1].ended) /\ (within' <=> ~lines[at + 1].ended)
  BY LineIsNext
<1>. QED
  BY <1>3, <1>4, <1>5, <1>6 DEF WholeLines

(* The lines before the rows, in either pass. *)
LEMMA PassKeeps ==
    ASSUME TabularInv, Tabular!PassSkipped \/ Tabular!PassBlank
    PROVE  TabularInv'
<1>1. /\ stage = "resolve" /\ Tabular!ReadLine
      /\ early' = (early \/ ~Tabular!Ended)
      /\ stage' = stage /\ hold' = hold /\ from' = from /\ head' = head
      /\ line' = line /\ got' = got /\ grown' = grown
      /\ lines' = lines /\ opts' = opts
  BY DEF Tabular!PassSkipped, Tabular!PassBlank, Tabular!ReadEarly
<1>2. \/ skipped < opts.skip /\ skipped' = skipped + 1
      \/ skipped = opts.skip /\ skipped' = skipped /\ Tabular!Piece.blank
  BY DEF Tabular!PassSkipped, Tabular!PassBlank
<1>3. TabularTyped /\ TabularKnows
  BY DEF TabularInv
<1>4. opts.skip \in Nat /\ skipped \in 0 .. opts.skip
  BY <1>3 DEF TabularTyped, TabularFile, Tabular!Options
<1>5. TabularTyped'
  <2>1. early' \in BOOLEAN
    BY <1>1
  <2>2. skipped' \in 0 .. opts.skip
    BY <1>2, <1>4
  <2>3. got' = {}
    BY <1>1, <1>3 DEF TabularTyped
  <2>. QED
    BY <1>1, <1>3, <2>1, <2>2, <2>3, ReadTyped
<1>6. TabularKnows'
  <2>. SUFFICES ASSUME Steady' PROVE TabularKnows'
    BY DEF TabularKnows
  <2>1. Steady /\ WholeLines /\ WholeLines'
    BY <1>1, <1>3, StaysSteady
  <2>2. AfterHead /\ BeforeText /\ line = from.line
    BY <1>1, <1>3, <2>1 DEF TabularKnows
  <2>3. BeforeText'
    BY <1>1, <1>2, <1>3, <2>1, <2>2, BeforeTextGrows
  <2>4. AfterHead'
    BY <1>1, <2>2 DEF AfterHead
  <2>. QED
    BY <1>1, <2>1, <2>2, <2>3, <2>4 DEF TabularKnows
<1>. QED
  BY <1>5, <1>6 DEF TabularInv

(* What KnowsHead and AfterHead say stays while the file does. *)
LEMMA HeadUnchanged ==
    ASSUME KnowsHead, AfterHead, TabularTyped, hold' = hold, from' = from, head' = head,
           lines' = lines, opts' = opts, ~early' => ~early
    PROVE  KnowsHead' /\ AfterHead'
BY DEF KnowsHead, AfterHead

LEMMA CountSkippedKeeps ==
    ASSUME TabularInv, Tabular!CountSkipped PROVE TabularInv'
<1>1. /\ stage = "pass" /\ Tabular!ReadLine
      /\ skipped < opts.skip /\ skipped' = skipped + 1
      /\ early' = (early \/ ~Tabular!Ended)
      /\ stage' = stage /\ hold' = hold /\ from' = from /\ head' = head
      /\ line' = line + 1 /\ got' = got /\ grown' = grown
      /\ lines' = lines /\ opts' = opts
  BY DEF Tabular!CountSkipped, Tabular!ReadEarly
<1>3. TabularTyped /\ TabularKnows
  BY DEF TabularInv
<1>4. opts.skip \in Nat /\ skipped \in 0 .. opts.skip
  BY <1>3 DEF TabularTyped, TabularFile, Tabular!Options
<1>5. TabularTyped'
  <2>1. early' \in BOOLEAN
    BY <1>1
  <2>2. skipped' \in 0 .. opts.skip
    BY <1>1, <1>4
  <2>3. got' = {}
    BY <1>1, <1>3 DEF TabularTyped
  <2>. QED
    BY <1>1, <1>3, <2>1, <2>2, <2>3, ReadTyped
<1>6. TabularKnows'
  <2>. SUFFICES ASSUME Steady' PROVE TabularKnows'
    BY DEF TabularKnows
  <2>1. Steady /\ WholeLines /\ WholeLines'
    BY <1>1, <1>3, StaysSteady
  <2>2. /\ AfterHead /\ KnowsHead /\ BeforeText
        /\ from = Tabular!FromStart /\ line = Seen
        /\ opts.columns # FromFile => Seen = skipped
    BY <1>1, <1>3, <2>1 DEF TabularKnows
  <2>3. BeforeText'
    BY <1>1, <1>3, <2>1, <2>2, BeforeTextGrows
  <2>4. KnowsHead' /\ AfterHead'
    BY <1>1, <1>3, <2>2, HeadUnchanged
  <2>5. Seen' = Seen + 1
    BY <1>1, <1>3, <2>1, LineIsNext
  <2>. QED
    BY <1>1, <2>1, <2>2, <2>3, <2>4, <2>5 DEF TabularKnows
<1>. QED
  BY <1>5, <1>6 DEF TabularInv

(* The line the reading is at is the first one of text. *)
LEMMA TextIsNext ==
    ASSUME TabularTyped, Steady, WholeLines, BeforeText, Tabular!ReadLine,
           skipped = opts.skip, ~Tabular!Piece.blank
    PROVE  /\ Tabular!TextAfter(lines, opts.skip) = {Seen + 1}
           /\ Tabular!TheText(lines, opts.skip) = Seen + 1
           /\ Seen + 1 \in 1 .. Len(lines)
           /\ Tabular!Piece = lines[Seen + 1].shape
           /\ Tabular!Ended = lines[Seen + 1].ended
<1>1. /\ Len(lines) \in Nat /\ at \in Nat /\ opts.skip \in Nat
      /\ lines \in Seq(TabularLine)
  BY DEF TabularTyped, TabularFile, Tabular!Options
<1>2. /\ ~within /\ Seen = at /\ at < Len(lines)
      /\ Tabular!Piece = lines[Seen + 1].shape
  BY LineIsNext
<1>3. /\ opts.skip <= Seen
      /\ \A i \in opts.skip + 1 .. Seen : lines[i].shape.blank
  BY DEF BeforeText
<1>. DEFINE n == Seen
<1>4. n \in Nat /\ n + 1 <= Len(lines) /\ opts.skip <= n
  BY <1>1, <1>2, <1>3
<1>5. ~lines[n + 1].shape.blank /\ \A i \in opts.skip + 1 .. n : lines[i].shape.blank
  BY <1>2, <1>3
<1>6. Tabular!Ended = lines[n + 1].ended
  BY <1>2 DEF Tabular!Ended
<1>. HIDE DEF n
<1>7. n + 1 \in Tabular!TextAfter(lines, opts.skip)
  BY <1>1, <1>4, <1>5 DEF Tabular!TextAfter
<1>8. /\ Tabular!TextAfter(lines, opts.skip) = {n + 1}
      /\ Tabular!TheText(lines, opts.skip) = n + 1
  BY <1>1, <1>7, OneText
<1>9. n + 1 \in 1 .. Len(lines)
  BY <1>1, <1>4
<1>. QED
  BY <1>2, <1>6, <1>8, <1>9 DEF n

(* The head a reading goes on with is that of the file. *)
LEMMA ResolveKnows ==
    ASSUME TabularTyped, Steady, WholeLines, BeforeText, Tabular!Resolve,
           stage = "resolve"
    PROVE  KnowsHead'
<1>1. /\ skipped = opts.skip /\ lines' = lines /\ opts' = opts /\ hold' = hold
  BY DEF Tabular!Resolve
<1>2. /\ Len(lines) \in Nat /\ at \in Nat /\ opts.skip \in Nat /\ at <= Len(lines)
      /\ early \in BOOLEAN
  BY DEF TabularTyped, TabularFile, Tabular!Options
<1>3. CASE Tabular!NeedsText(opts)
  <2>1. /\ ~Tabular!AtEnd /\ ~Tabular!Piece.blank
        /\ head' = Tabular!HeadFrom(opts, Tabular!Piece)
        /\ early' = (early \/ ~Tabular!Ended)
    BY <1>3 DEF Tabular!Resolve
  <2>2. ~within
    BY <2>1 DEF WholeLines, Tabular!AtEnd
  <2>3. Seen = at /\ at < Len(lines)
    BY <1>2, <2>1, <2>2 DEF Seen, Tabular!AtEnd
  <2>4. /\ Tabular!Piece = lines[at + 1].shape
        /\ Tabular!Ended = lines[at + 1].ended
    BY <2>2 DEF Tabular!Piece, Tabular!Ended
  <2>5. /\ opts.skip <= at
        /\ \A i \in opts.skip + 1 .. at : lines[i].shape.blank
    BY <1>1, <2>3 DEF BeforeText
  <2>6. at + 1 \in Tabular!TextAfter(lines, opts.skip)
    BY <1>2, <2>1, <2>3, <2>4, <2>5 DEF Tabular!TextAfter
  <2>7. Tabular!TheText(lines, opts.skip) = at + 1
    BY <1>2, <2>6, OneText DEF TabularTyped, TabularFile
  <2>8. Tabular!HasHead(lines, opts)
    BY <1>2, <2>3, <2>5, <2>6 DEF Tabular!HasHead
  <2>9. head' = Tabular!HeadOf(lines, opts)
    BY <1>3, <2>1, <2>4, <2>7 DEF Tabular!HeadOf
  <2>10. ~early' => lines[at + 1].ended
    BY <2>1, <2>4
  <2>. QED
    BY <1>1, <2>7, <2>8, <2>9, <2>10 DEF KnowsHead
<1>4. CASE ~Tabular!NeedsText(opts)
  <2>1. head' = Tabular!HeadOf(lines, opts)
    BY <1>4 DEF Tabular!Resolve, Tabular!HeadOf
  <2>2. opts.skip <= Seen /\ Seen <= Len(lines)
    BY <1>1, <1>2 DEF BeforeText, Seen, TabularTyped
  <2>3. Tabular!HasHead(lines, opts)
    BY <1>2, <1>4, <2>2 DEF Tabular!HasHead, Seen
  <2>. QED
    BY <1>1, <1>4, <2>1, <2>3 DEF KnowsHead
<1>. QED
  BY <1>3, <1>4

(* From here the rows are read, from the start or from a checkpoint. *)
LEMMA ResolveKeeps == ASSUME TabularInv, Tabular!Resolve PROVE TabularInv'
<1>1. /\ stage = "resolve"
      /\ stage' = IF from.next = 0 THEN "pass" ELSE "rows"
      /\ hold' = hold /\ from' = from /\ line' = line /\ got' = got
      /\ grown' = grown /\ lines' = lines /\ opts' = opts
      /\ at' = from.next /\ within' = FALSE /\ skipped' = 0
  BY DEF Tabular!Resolve, Tabular!AfterSeek
<1>2. early' = early \/ early' = (early \/ ~Tabular!Ended)
  BY DEF Tabular!Resolve
<1>3. TabularTyped /\ TabularKnows
  BY DEF TabularInv
<1>4. /\ Len(lines) \in Nat /\ opts.skip \in Nat
      /\ from.next \in 0 .. Len(lines) /\ got = {} /\ early \in BOOLEAN
  BY <1>1, <1>3 DEF TabularTyped, TabularFile, Tabular!Options
<1>5. early' \in BOOLEAN /\ (~early' => ~early)
  <2>1. CASE early' = early
    BY <1>4, <2>1
  <2>2. CASE early' = (early \/ ~Tabular!Ended)
    BY <2>2
  <2>. QED
    BY <1>2, <2>1, <2>2
<1>6. TabularTyped'
  <2>1. stage' \in {"pass", "rows"}
    BY <1>1
  <2>2. at' \in 0 .. Len(lines) /\ skipped' \in 0 .. opts.skip
    BY <1>1, <1>4
  <2>3. within' \in BOOLEAN /\ ~within'
    BY <1>1
  <2>4. \A i \in 1 .. at' : lines[i].ended
    BY <1>1, <1>3 DEF TabularTyped
  <2>5. got' = {}
    BY <1>1, <1>4
  <2>. QED
    BY <1>1, <1>3, <1>5, <2>1, <2>2, <2>3, <2>4, <2>5 DEF TabularTyped, TabularFile
<1>7. TabularKnows'
  <2>. SUFFICES ASSUME Steady' PROVE TabularKnows'
    BY DEF TabularKnows
  <2>1. Steady
    BY <1>1, <1>5 DEF Steady
  <2>2. WholeLines /\ AfterHead /\ BeforeText /\ line = from.line
    BY <1>1, <1>3, <2>1 DEF TabularKnows
  <2>3. KnowsHead'
    BY <1>1, <1>3, <2>1, <2>2, ResolveKnows
  <2>4. AfterHead'
    BY <1>1, <2>2 DEF AfterHead
  <2>5. WholeLines' /\ Seen' = from.next
    BY <1>1 DEF WholeLines, Seen
  <2>6. CASE from.next = 0
    <3>1. from = Tabular!FromStart /\ line' = 0
      BY <1>1, <1>3, <2>2, <2>6 DEF TabularTyped, Tabular!FromStart
    <3>2. BeforeText'
      BY <1>1, <1>4, <2>5, <2>6 DEF BeforeText
    <3>. QED
      BY <1>1, <2>3, <2>4, <2>5, <2>6, <3>1, <3>2 DEF TabularKnows
  <2>7. CASE from.next # 0
    <3>1. from # Tabular!FromStart
      BY <2>7 DEF Tabular!FromStart
    <3>2. /\ from.line = from.next
          /\ Tabular!HasHead(lines, opts)
          /\ Tabular!BeforeRows(lines, opts) < from.next
      BY <2>2, <3>1 DEF AfterHead
    <3>3. Tabular!BeforeRows(lines, opts) \in Nat
      BY <1>3, <3>2, BeforeIsNat DEF TabularTyped, TabularFile
    <3>4. RowsSeen' = {}
      BY <1>1, <1>4, <2>5, <3>3 DEF RowsSeen
    <3>5. AtRows'
      BY <1>1, <1>4, <2>2, <2>5, <3>2, <3>3, <3>4 DEF AtRows
    <3>. QED
      BY <1>1, <2>3, <2>4, <2>5, <2>7, <3>5 DEF TabularKnows
  <2>. QED
    BY <2>6, <2>7
<1>. QED
  BY <1>6, <1>7 DEF TabularInv
(* After the header the rows begin. *)
LEMMA RowsBegin ==
    ASSUME KnowsHead', Seen' \in Nat, from' = Tabular!FromStart, got' = {},
           line' = Seen', Tabular!BeforeRows(lines', opts') = Seen'
    PROVE  AtRows'
<1>. DEFINE n == Seen'
<1>1. n \in Nat /\ from'.next = 0
  BY DEF Tabular!FromStart
<1>2. RowsSeen' =
        {RowOf(lines', m) :
            m \in {k \in n + 1 .. n :
                     /\ from'.next < k
                     /\ Tabular!IsRow(Tabular!HeadOf(lines', opts'), lines'[k].shape)}}
  BY DEF RowsSeen
<1>. HIDE DEF n
<1>3. RowsSeen' = {}
  BY <1>1, <1>2
<1>. QED
  BY <1>1, <1>3 DEF AtRows, n

LEMMA CountHeaderKeeps ==
    ASSUME TabularInv, Tabular!CountHeader PROVE TabularInv'
<1>1. /\ stage = "pass" /\ Tabular!ReadLine
      /\ skipped = opts.skip /\ opts.columns = FromFile
      /\ early' = (early \/ ~Tabular!Ended)
      /\ stage' = IF Tabular!Piece.blank THEN stage ELSE "rows"
      /\ hold' = hold /\ from' = from /\ head' = head /\ skipped' = skipped
      /\ line' = line + 1 /\ got' = got /\ grown' = grown
      /\ lines' = lines /\ opts' = opts
  BY DEF Tabular!CountHeader, Tabular!ReadEarly
<1>2. stage' \in {"pass", "rows"} /\ (Tabular!Piece.blank => stage' = "pass")
  BY <1>1
<1>3. TabularTyped /\ TabularKnows /\ got' = {}
  BY <1>1 DEF TabularInv, TabularTyped
<1>4. opts.skip \in Nat /\ skipped \in 0 .. opts.skip /\ at \in Nat
  BY <1>3 DEF TabularTyped, TabularFile, Tabular!Options
<1>5. TabularTyped'
  <2>1. early' \in BOOLEAN
    BY <1>1
  <2>. QED
    BY <1>1, <1>2, <1>3, <1>4, <2>1, ReadTyped
<1>6. TabularKnows'
  <2>. SUFFICES ASSUME Steady' PROVE TabularKnows'
    BY DEF TabularKnows
  <2>1. Steady /\ WholeLines /\ WholeLines'
    BY <1>1, <1>3, StaysSteady
  <2>2. /\ AfterHead /\ KnowsHead /\ BeforeText
        /\ from = Tabular!FromStart /\ line = Seen
    BY <1>1, <1>3, <2>1 DEF TabularKnows
  <2>3. KnowsHead' /\ AfterHead'
    BY <1>1, <1>3, <2>2, HeadUnchanged
  <2>4. Seen' = Seen + 1 /\ Seen \in Nat /\ line' = Seen'
    BY <1>1, <1>3, <1>4, <2>1, <2>2, LineIsNext DEF Seen
  <2>5. CASE Tabular!Piece.blank
    <3>1. BeforeText'
      BY <1>1, <1>3, <2>1, <2>2, <2>5, BeforeTextGrows
    <3>. QED
      BY <1>1, <1>2, <2>1, <2>2, <2>3, <2>4, <2>5, <3>1 DEF TabularKnows
  <2>6. CASE ~Tabular!Piece.blank
    <3>1. Tabular!BeforeRows(lines, opts) = Seen'
      BY <1>1, <1>3, <2>1, <2>2, <2>4, <2>6, TextIsNext DEF Tabular!BeforeRows
    <3>2. AtRows'
      BY <1>1, <1>3, <2>2, <2>3, <2>4, <3>1, RowsBegin
    <3>3. stage' = "rows"
      BY <1>1, <2>6
    <3>. QED
      BY <2>1, <2>3, <3>2, <3>3 DEF TabularKnows
  <2>. QED
    BY <2>5, <2>6
<1>. QED
  BY <1>5, <1>6 DEF TabularInv

LEMMA WithoutHeaderKeeps ==
    ASSUME TabularInv, Tabular!WithoutHeader PROVE TabularInv'
<1>1. /\ stage = "pass" /\ stage' = "rows"
      /\ skipped = opts.skip /\ opts.columns # FromFile
      /\ UNCHANGED <<lines, opts, hold, from, at, within, skipped, head, line,
                     got, early, grown>>
  BY DEF Tabular!WithoutHeader
<1>2. TabularTyped /\ TabularKnows /\ got' = {}
  BY <1>1 DEF TabularInv, TabularTyped
<1>3. opts.skip \in Nat /\ at \in Nat
  BY <1>2 DEF TabularTyped, TabularFile, Tabular!Options
<1>4. TabularTyped'
  BY <1>1, <1>2 DEF TabularTyped, TabularFile
<1>5. TabularKnows'
  <2>. SUFFICES ASSUME Steady' PROVE TabularKnows'
    BY DEF TabularKnows
  <2>1. Steady
    BY <1>1 DEF Steady
  <2>2. /\ WholeLines /\ AfterHead /\ KnowsHead
        /\ from = Tabular!FromStart /\ line = Seen /\ Seen = skipped
    BY <1>1, <1>2, <2>1 DEF TabularKnows
  <2>3. KnowsHead' /\ AfterHead'
    BY <1>1, <1>2, <2>2, HeadUnchanged
  <2>4. WholeLines' /\ Seen' = Seen
    BY <1>1, <2>2 DEF WholeLines, Seen
  <2>5. Tabular!BeforeRows(lines, opts) = Seen
    BY <1>1, <2>2 DEF Tabular!BeforeRows
  <2>6. AtRows'
    BY <1>1, <1>2, <1>3, <2>2, <2>3, <2>4, <2>5, RowsBegin
  <2>. QED
    BY <1>1, <2>3, <2>4, <2>6 DEF TabularKnows
<1>. QED
  BY <1>4, <1>5 DEF TabularInv

LEMMA FileIsEmptyKeeps ==
    ASSUME TabularInv, Tabular!FileIsEmpty PROVE TabularInv'
<1>1. /\ stage = "resolve" /\ stage' = "failed"
      /\ UNCHANGED <<lines, opts, hold, from, at, within, skipped, head, line,
                     got, early, grown>>
  BY DEF Tabular!FileIsEmpty
<1>2. TabularTyped /\ TabularKnows /\ got' = {}
  BY <1>1 DEF TabularInv, TabularTyped
<1>3. TabularTyped'
  BY <1>1, <1>2 DEF TabularTyped, TabularFile
<1>4. Steady' => Steady /\ WholeLines' /\ AfterHead'
  BY <1>1, <1>2 DEF Steady, TabularKnows, WholeLines, AfterHead
<1>5. TabularKnows'
  BY <1>1, <1>4 DEF TabularKnows
<1>. QED
  BY <1>3, <1>5 DEF TabularInv

(* At the end of the file a reading has seen all of it. *)
LEMMA AtEndSeen ==
    ASSUME TabularTyped, WholeLines, Tabular!AtEnd
    PROVE  Seen = Len(lines)
<1>1. /\ Len(lines) \in Nat /\ at \in Nat /\ at <= Len(lines)
      /\ within => at < Len(lines)
      /\ \A i \in 1 .. Len(lines) - 1 : lines[i].ended
  BY DEF TabularTyped, TabularFile
<1>2. CASE within
  <2>1. ~lines[at + 1].ended
    BY <1>2 DEF WholeLines
  <2>2. at + 1 = Len(lines)
    BY <1>1, <1>2, <2>1
  <2>. QED
    BY <1>2, <2>2 DEF Seen
<1>3. CASE ~within
  BY <1>3 DEF Seen, Tabular!AtEnd
<1>. QED
  BY <1>2, <1>3

(* The lines before the rows end with the file only if they were read      *)
(* before they were whole.                                                 *)
LEMMA EndBeforeRowsKeeps ==
    ASSUME TabularInv, Tabular!EndBeforeRows PROVE TabularInv'
<1>1. /\ stage = "pass" /\ stage' \in {"done", "failed"} /\ Tabular!AtEnd
      /\ skipped < opts.skip \/ opts.columns = FromFile
      /\ UNCHANGED <<lines, opts, hold, from, at, within, skipped, head, line,
                     got, early, grown>>
  BY DEF Tabular!EndBeforeRows
<1>2. TabularTyped /\ TabularKnows /\ got' = {}
  BY <1>1 DEF TabularInv, TabularTyped
<1>3. TabularTyped'
  BY <1>1, <1>2 DEF TabularTyped, TabularFile
<1>4. ~Steady
  <2>. SUFFICES ASSUME Steady PROVE FALSE
    OBVIOUS
  <2>1. WholeLines /\ BeforeText /\ KnowsHead
    BY <1>1, <1>2 DEF TabularKnows
  <2>2. Seen = Len(lines)
    BY <1>1, <1>2, <2>1, AtEndSeen
  <2>3. /\ Len(lines) \in Nat /\ opts.skip \in Nat /\ skipped \in 0 .. opts.skip
        /\ opts.skip <= Len(lines)
    BY <1>2, <2>1 DEF TabularTyped, TabularFile, Tabular!Options, KnowsHead, Tabular!HasHead
  <2>4. CASE skipped < opts.skip
    BY <2>1, <2>2, <2>3, <2>4 DEF BeforeText
  <2>5. CASE opts.columns = FromFile
    <3>1. PICK i : i \in Tabular!TextAfter(lines, opts.skip)
      BY <2>1, <2>5 DEF KnowsHead, Tabular!HasHead, Tabular!NeedsText
    <3>2. i \in opts.skip + 1 .. Len(lines) /\ ~lines[i].shape.blank
      BY <3>1 DEF Tabular!TextAfter
    <3>. QED
      BY <2>1, <2>2, <3>2 DEF BeforeText
  <2>. QED
    BY <1>1, <2>4, <2>5
<1>5. ~Steady'
  BY <1>1, <1>4 DEF Steady
<1>. QED
  BY <1>3, <1>5 DEF TabularInv, TabularKnows

(* A line more among the rows is a row of the file, or none. *)
LEMMA RowsSeenGrows ==
    ASSUME TabularTyped, Steady, WholeLines, KnowsHead, AtRows, Tabular!ReadRow
    PROVE  AtRows'
<1>1. /\ Tabular!ReadLine
      /\ line' = line + 1
      /\ got' = IF Tabular!IsRow(head, Tabular!Piece)
                THEN got \cup {[line |-> line + 1, next |-> at + 1,
                                value |-> Tabular!Piece.value]}
                ELSE got
      /\ lines' = lines /\ opts' = opts /\ from' = from
  BY DEF Tabular!ReadRow
<1>2. /\ Seen = at /\ Seen' = Seen + 1 /\ at \in Nat /\ from.next \in Nat
      /\ Tabular!Piece = lines[Seen + 1].shape
  BY <1>1, LineIsNext DEF TabularTyped
<1>3. /\ Tabular!BeforeRows(lines, opts) \in Nat
      /\ head = Tabular!HeadOf(lines, opts)
  BY BeforeIsNat DEF KnowsHead, TabularTyped, TabularFile
<1>4. /\ Tabular!BeforeRows(lines, opts) <= Seen /\ from.next <= Seen
      /\ line = Seen /\ got = RowsSeen
  BY DEF AtRows
<1>. DEFINE b == Tabular!BeforeRows(lines, opts)
            n == Seen
            P(k) == from.next < k /\ Tabular!IsRow(head, lines[k].shape)
            R(m) == {k \in b + 1 .. m : P(k)}
<1>5. got = {RowOf(lines, k) : k \in R(n)}
  BY <1>3, <1>4 DEF RowsSeen
<1>6. RowsSeen' = {RowOf(lines, k) : k \in R(n + 1)}
  BY <1>1, <1>2, <1>3 DEF RowsSeen
<1>7. R(n + 1) = R(n) \cup (IF P(n + 1) THEN {n + 1} ELSE {})
  <2>1. b \in Nat /\ n \in Nat /\ b <= n
    BY <1>2, <1>3, <1>4
  <2>. HIDE DEF b, n, P
  <2>2. \A k : k \in b + 1 .. n + 1 <=> k \in b + 1 .. n \/ k = n + 1
    BY <2>1
  <2>. QED
    BY <2>2
<1>8. P(n + 1) <=> Tabular!IsRow(head, Tabular!Piece)
  BY <1>2, <1>4
<1>9. RowOf(lines, n + 1) =
         [line |-> line + 1, next |-> at + 1, value |-> Tabular!Piece.value]
  BY <1>2, <1>4 DEF RowOf
<1>10. got' = RowsSeen'
  <2>1. CASE P(n + 1)
    <3>1. got' = got \cup {RowOf(lines, n + 1)}
      BY <1>1, <1>8, <1>9, <2>1
    <3>2. R(n + 1) = R(n) \cup {n + 1}
      BY <1>7, <2>1
    <3>. HIDE DEF R, n
    <3>. QED
      BY <1>5, <1>6, <3>1, <3>2
  <2>2. CASE ~P(n + 1)
    <3>1. got' = got
      BY <1>1, <1>8, <2>2
    <3>2. R(n + 1) = R(n)
      BY <1>7, <2>2
    <3>. QED
      BY <1>5, <1>6, <3>1, <3>2
  <2>. QED
    BY <2>1, <2>2
<1>. QED
  BY <1>1, <1>2, <1>3, <1>4, <1>10 DEF AtRows

LEMMA ReadRowKeeps ==
    ASSUME TabularInv, Tabular!ReadRow PROVE TabularInv'
<1>1. /\ stage = "rows" /\ Tabular!ReadLine /\ ~Tabular!Held
      /\ line' = line + 1 /\ stage' = stage /\ skipped' = skipped
      /\ hold' = hold /\ from' = from /\ head' = head
      /\ early' = early /\ grown' = grown
      /\ lines' = lines /\ opts' = opts
  BY DEF Tabular!ReadRow
<1>2. TabularTyped /\ TabularKnows
  BY DEF TabularInv
<1>3. hold => \A r \in got' : r.line \in Nat /\ r.next \in 1 .. at'
  <2>. SUFFICES ASSUME hold, NEW r \in got' PROVE r.line \in Nat /\ r.next \in 1 .. at'
    OBVIOUS
  <2>1. at' = at + 1 /\ at \in Nat /\ line + 1 \in Nat
    BY <1>1, <1>2 DEF Tabular!Held, Tabular!ReadLine, TabularTyped
  <2>2. r \in got \/ r = [line |-> line + 1, next |-> at + 1, value |-> Tabular!Piece.value]
    BY DEF Tabular!ReadRow
  <2>3. CASE r \in got
    <3>1. r.line \in Nat /\ r.next \in 1 .. at
      BY <1>2, <2>3 DEF TabularTyped
    <3>. QED
      BY <2>1, <3>1
  <2>4. CASE r = [line |-> line + 1, next |-> at + 1, value |-> Tabular!Piece.value]
    BY <2>1, <2>4
  <2>. QED
    BY <2>2, <2>3, <2>4
<1>4. TabularTyped'
  <2>1. early' \in BOOLEAN /\ skipped' \in 0 .. opts.skip
    BY <1>1, <1>2 DEF TabularTyped
  <2>. QED
    BY <1>1, <1>2, <1>3, <2>1, ReadTyped
<1>5. TabularKnows'
  <2>. SUFFICES ASSUME Steady' PROVE TabularKnows'
    BY DEF TabularKnows
  <2>1. Steady /\ WholeLines /\ WholeLines'
    BY <1>1, <1>2, StaysSteady
  <2>2. AfterHead /\ KnowsHead /\ AtRows
    BY <1>1, <1>2, <2>1 DEF TabularKnows
  <2>3. KnowsHead' /\ AfterHead'
    BY <1>1, <1>2, <2>2, HeadUnchanged
  <2>4. AtRows'
    BY <1>2, <2>1, <2>2, RowsSeenGrows
  <2>. QED
    BY <1>1, <2>1, <2>3, <2>4 DEF TabularKnows
<1>. QED
  BY <1>4, <1>5 DEF TabularInv

LEMMA EndRowsKeeps ==
    ASSUME TabularInv, Tabular!EndRows PROVE TabularInv'
<1>1. /\ stage = "rows" /\ stage' = "done"
      /\ Tabular!AtEnd \/ Tabular!Held
      /\ UNCHANGED <<lines, opts, hold, from, at, within, skipped, head, line,
                     got, early, grown>>
  BY DEF Tabular!EndRows
<1>2. TabularTyped /\ TabularKnows
  BY DEF TabularInv
<1>3. TabularTyped'
  BY <1>1, <1>2 DEF TabularTyped, TabularFile
<1>4. TabularKnows'
  <2>. SUFFICES ASSUME Steady' PROVE TabularKnows'
    BY DEF TabularKnows
  <2>1. Steady
    BY <1>1 DEF Steady
  <2>2. WholeLines /\ AfterHead /\ KnowsHead /\ AtRows
    BY <1>1, <1>2, <2>1 DEF TabularKnows
  <2>3. KnowsHead' /\ AfterHead'
    BY <1>1, <1>2, <2>2, HeadUnchanged
  <2>4. WholeLines' /\ Seen' = Seen
    BY <1>1, <2>2 DEF WholeLines, Seen
  <2>5. AtRows'
    BY <1>1, <2>2, <2>4 DEF AtRows, RowsSeen
  <2>6. AtDone
    <3>1. CASE Tabular!AtEnd
      BY <1>2, <2>2, <3>1, AtEndSeen DEF AtDone
    <3>2. CASE Tabular!Held /\ ~Tabular!AtEnd
      <4>1. /\ Len(lines) \in Nat /\ at \in Nat /\ at <= Len(lines)
            /\ \A i \in 1 .. Len(lines) - 1 : lines[i].ended
        BY <1>2 DEF TabularTyped, TabularFile
      <4>2. hold /\ ~lines[at + 1].ended
        BY <3>2 DEF Tabular!Held, Tabular!Ended
      <4>3. ~within
        BY <2>2, <3>2 DEF WholeLines, Tabular!AtEnd
      <4>4. at # Len(lines)
        BY <3>2, <4>3 DEF Tabular!AtEnd
      <4>5. at + 1 = Len(lines) /\ at = Len(lines) - 1
        BY <4>1, <4>2, <4>4
      <4>. QED
        BY <4>2, <4>3, <4>5 DEF AtDone, Seen
    <3>. QED
      BY <1>1, <3>1, <3>2 DEF Tabular!Held
  <2>7. AtDone'
    BY <1>1, <2>4, <2>6 DEF AtDone
  <2>. QED
    BY <1>1, <2>3, <2>4, <2>5, <2>7 DEF TabularKnows
<1>. QED
  BY <1>3, <1>4 DEF TabularInv
LEMMA TabularKept == TabularInv /\ [Next]_vars => TabularInv'
<1>. SUFFICES ASSUME TabularInv, [Next]_vars PROVE TabularInv'
  OBVIOUS
<1>1. CASE UNCHANGED tabular
  <2>. USE <1>1 DEF tabular
  <2>1. TabularTyped'
    BY DEF TabularInv, TabularTyped, TabularFile
  <2>2. /\ Steady' = Steady /\ WholeLines' = WholeLines /\ AfterHead' = AfterHead
        /\ BeforeText' = BeforeText /\ KnowsHead' = KnowsHead
        /\ AtRows' = AtRows /\ AtDone' = AtDone /\ Seen' = Seen
    BY DEF Steady, WholeLines, AfterHead, BeforeText, KnowsHead, AtRows, AtDone,
           Seen, RowsSeen
  <2>3. TabularKnows'
    BY <2>2 DEF TabularInv, TabularKnows
  <2>. QED
    BY <2>1, <2>3 DEF TabularInv
<1>2. CASE Tabular!Next
  <2>1. CASE \E s \in Shapes : \/ Tabular!WriteLine(s)
                               \/ Tabular!WriteFragment(s)
                               \/ Tabular!EndLine(s)
    BY <2>1, ReadersAssumption, LoggerKeeps
  <2>. QED
    BY <1>2, <2>1, OpenKeeps, PassKeeps, FileIsEmptyKeeps, ResolveKeeps,
       CountSkippedKeeps, CountHeaderKeeps, WithoutHeaderKeeps,
       EndBeforeRowsKeeps, ReadRowKeeps, EndRowsKeeps DEF Tabular!Next
<1>. QED
  BY <1>1, <1>2 DEF Next, vars, ReadTabular, ReadWebdynsun, ReadXml

-----------------------------------------------------------------------------

(* Lines that had ended when they were read give the rows of the file. *)
LEMMA RowsAreOfFile ==
    ASSUME TabularInv, Tabular!ReadsRows
    PROVE  Tabular!ReadAsFile
<1>1. hold /\ ~early /\ Steady /\ stage \in {"rows", "done"}
  BY DEF Tabular!ReadsRows, Steady
<1>2. KnowsHead /\ AtRows /\ ~within
  BY <1>1 DEF TabularInv, TabularKnows, WholeLines
<1>3. /\ lines \in Seq(TabularLine) /\ opts \in Tabular!Options
      /\ Len(lines) \in Nat /\ at \in Nat /\ at <= Len(lines) /\ from.next \in Nat
      /\ \A i \in 1 .. at : lines[i].ended
  BY DEF TabularInv, TabularTyped, TabularFile
<1>4. Seen = at /\ Tabular!BeforeRows(lines, opts) \in Nat /\ Tabular!HasHead(lines, opts)
  BY <1>2, <1>3, BeforeIsNat DEF Seen, KnowsHead
<1>. DEFINE b == Tabular!BeforeRows(lines, opts)
            h == Tabular!HeadOf(lines, opts)
            S == {k \in b + 1 .. at : from.next < k /\ Tabular!IsRow(h, lines[k].shape)}
            T == {k \in b + 1 .. Len(lines) :
                     lines[k].ended /\ Tabular!IsRow(h, lines[k].shape)}
<1>5. got = {RowOf(lines, k) : k \in S}
  BY <1>2, <1>4 DEF AtRows, RowsSeen
<1>6. Tabular!Rows(lines, opts) = {RowOf(lines, k) : k \in T}
  BY <1>4 DEF Tabular!Rows, RowOf
<1>7. \A k : k \in S <=> k \in T /\ from.next < k /\ k <= at
  <2>. HIDE DEF b, h
  <2>1. b \in Nat
    BY <1>4 DEF b
  <2>. QED
    BY <1>3, <2>1
<1>8. \A k : RowOf(lines, k).next = k
  BY DEF RowOf
<1>. HIDE DEF S, T
<1>9. Tabular!RowsPassed = {r \in {RowOf(lines, k) : k \in T} : from.next < r.next /\ r.next <= at}
  BY <1>6 DEF Tabular!RowsPassed
<1>10. got = Tabular!RowsPassed
  BY <1>5, <1>7, <1>8, <1>9
<1>. QED
  BY <1>2, <1>10 DEF KnowsHead, Tabular!ReadAsFile

(* With the last line held, what a run is handed while the logger writes   *)
(* are the rows of the file, if the lines before them had ended when they  *)
(* were read: a run that reads a growing file stores nothing a later run   *)
(* takes back (typed_reader.go:261-358,360-419).                           *)
THEOREM GrowthAddsRows == Spec => []GrowingOnlyAddsRows
<1>1. Init => TabularInv
  BY TabularStarts
<1>2. TabularInv /\ [Next]_vars => TabularInv'
  BY TabularKept
<1>3. TabularInv => GrowingOnlyAddsRows
  BY RowsAreOfFile DEF GrowingOnlyAddsRows, Tabular!GrowingOnlyAddsRows
<1>. QED
  BY <1>1, <1>2, <1>3, PTL DEF Spec

(* A run that starts at the checkpoint of any row reads on as if it had    *)
(* never stopped: the same rows, under the same line numbers, while the    *)
(* file grows (typed_reader.go:272-314, writer.go:233-240).                *)
THEOREM AnyRowResumes == Spec => []ResumesAfterAnyRow
<1>1. Init => TabularInv
  BY TabularStarts
<1>2. TabularInv /\ [Next]_vars => TabularInv'
  BY TabularKept
<1>3. TabularInv => ResumesAfterAnyRow
  BY RowsAreOfFile DEF ResumesAfterAnyRow, Tabular!ResumesAfterAnyRow
<1>. QED
  BY <1>1, <1>2, <1>3, PTL DEF Spec

(* What `read` counts as well formed and without error is what `write`     *)
(* stores of the same file, but for NUL bytes, a header without the        *)
(* timestamp column and the unended last line that is held (reader.go:     *)
(* 31-219, typed_reader.go:93-252 and 254-358).                            *)
THEOREM PreviewHolds == Spec => []PreviewForetellsRows
<1>1. Init => TabularInv
  BY TabularStarts
<1>2. TabularInv /\ [Next]_vars => TabularInv'
  BY TabularKept
<1>3. TabularInv => PreviewForetellsRows
  <2>. SUFFICES ASSUME TabularInv, stage = "done", ~grown, from = Tabular!FromStart
                PROVE  PreviewForetellsRows
    BY DEF PreviewForetellsRows, Tabular!PreviewForetellsRows
  <2>1. KnowsHead /\ AtRows /\ AtDone
    BY DEF TabularInv, TabularKnows, Steady
  <2>2. /\ lines \in Seq(TabularLine) /\ opts \in Tabular!Options
        /\ Len(lines) \in Nat /\ at \in Nat /\ Seen \in Nat /\ Seen <= Len(lines)
    BY DEF TabularInv, TabularTyped, TabularFile, Seen
  <2>3. Tabular!HasHead(lines, opts) /\ Tabular!BeforeRows(lines, opts) \in Nat
    BY <2>1, <2>2, BeforeIsNat DEF KnowsHead
  <2>. DEFINE stored == {r.next : r \in got}
              sound == Tabular!WellFormed(lines, opts) \ Tabular!TimestampErrors(lines, opts)
              b == Tabular!BeforeRows(lines, opts)
              h == Tabular!HeadOf(lines, opts)
              S == {k \in b + 1 .. Seen : from.next < k /\ Tabular!IsRow(h, lines[k].shape)}
  <2>4. /\ RowLines(lines, opts) \subseteq sound
        /\ \A i \in sound \ RowLines(lines, opts) : lines[i].shape.nul \/ ~h.names
        /\ \A i \in sound : i \in 1 .. Len(lines)
    BY <2>2, <2>3, CountedAreRows
  <2>5. got = {RowOf(lines, k) : k \in S}
    BY <2>1 DEF AtRows, RowsSeen
  <2>6. \A k : RowOf(lines, k).next = k
    BY DEF RowOf
  <2>7. stored = S
    <3>. HIDE DEF S
    <3>. QED
      BY <2>5, <2>6
  <2>8. \A k : k \in S <=> k \in RowLines(lines, opts) /\ k <= Seen
    <3>1. from.next = 0 /\ b \in Nat
      BY <2>3 DEF Tabular!FromStart
    <3>2. \A k : k \in RowLines(lines, opts) <=>
                    k \in b + 1 .. Len(lines) /\ Tabular!IsRow(h, lines[k].shape)
      BY DEF RowLines
    <3>. HIDE DEF b, h
    <3>. QED
      BY <2>2, <3>1, <3>2
  <2>. HIDE DEF stored, sound, h, S
  <2>9. stored \subseteq sound
    BY <2>4, <2>7, <2>8
  <2>10. ASSUME NEW i \in sound \ stored
         PROVE  \/ lines[i].shape.nul
                \/ ~h.names
                \/ hold /\ i = Len(lines) /\ Tabular!Unended(lines)
    <3>1. CASE i \notin RowLines(lines, opts)
      BY <2>4, <3>1
    <3>2. CASE i \in RowLines(lines, opts)
      <4>1. i \in 1 .. Len(lines) /\ ~(i <= Seen)
        BY <2>4, <2>7, <2>8, <3>2
      <4>2. i = Len(lines) /\ hold /\ ~lines[Len(lines)].ended
        BY <2>1, <2>2, <4>1 DEF AtDone
      <4>3. Tabular!Unended(lines)
        BY <2>2, <4>1, <4>2 DEF Tabular!Unended, Tabular!Last
      <4>. QED
        BY <4>2, <4>3
    <3>. QED
      BY <3>1, <3>2
  <2>. QED
    BY <2>9, <2>10
       DEF PreviewForetellsRows, Tabular!PreviewForetellsRows, stored, sound, h
<1>. QED
  BY <1>1, <1>2, <1>3, PTL DEF Spec

-----------------------------------------------------------------------------
(* WebdynSun files.  The reader is in the block its address and type are of. *)

(* LastBefore, of any file. *)
LastIn(f, kind, n) == Webdynsun!Max({i \in 1 .. n - 1 : f[i].is = kind} \cup {0})

(* The block of line n: its address, if it has one that can be read, and   *)
(* its type, if it has had a type line.                                    *)
HasBlock(f, n, a, t) ==
    LET b == LastIn(f, "address", n)
        y == LastIn(f, "type", n)
    IN /\ b \in 0 .. n - 1 /\ y \in 0 .. n - 1
       /\ (IF b = 0 THEN None ELSE f[b].value) # Unreadable
              => a = IF b = 0 THEN None ELSE f[b].value
       /\ b < y => t = f[y].value

(* A row is of a line of the file, and has what that line's block has.     *)
RowInFile(f, r) ==
    /\ r.line \in 1 .. Len(f)
    /\ \E t \in Types \cup {None} :
           HasBlock(f, r.line, r.addr, t) /\ (HasTypeColumn => r.type = t)

(* The reader is in the block its addr and typeInv are of, and every row   *)
(* handed over has those of its own.                                       *)
BlockInv ==
    /\ blocks \in Seq(Webdynsun!Lines)
    /\ HasBlock(blocks, Len(blocks) + 1, addr, typeInv)
    /\ rows \in Seq([line : Nat, addr : Addresses \cup {None},
                     type : Types \cup {None}])
    /\ addr \in Addresses \cup {None} /\ typeInv \in Types \cup {None}
    /\ \A i \in DOMAIN rows : RowInFile(blocks, rows[i])

-----------------------------------------------------------------------------
(* The last line of a kind before a line. *)

(* Lines added later do not change what was the last one before a line. *)
LEMMA LastStays ==
    ASSUME NEW f \in Seq(Webdynsun!Lines), NEW l \in Webdynsun!Lines,
           NEW kind, NEW n \in 1 .. Len(f) + 1
    PROVE  LastIn(Append(f, l), kind, n) = LastIn(f, kind, n)
<1>1. \A i \in 1 .. n - 1 : Append(f, l)[i] = f[i]
  OBVIOUS
<1>2. {i \in 1 .. n - 1 : Append(f, l)[i].is = kind}
         = {i \in 1 .. n - 1 : f[i].is = kind}
  BY <1>1
<1>3. QED
  BY <1>2 DEF LastIn

(* A line of another kind is not it either, and one of the kind is.        *)
LEMMA LastMoves ==
    ASSUME NEW f \in Seq(Webdynsun!Lines), NEW l \in Webdynsun!Lines, NEW kind
    PROVE  LastIn(Append(f, l), kind, Len(f) + 2) =
              IF l.is = kind THEN Len(f) + 1 ELSE LastIn(f, kind, Len(f) + 1)
<1> DEFINE n == Len(f)
           S == {i \in 1 .. n : f[i].is = kind} \cup {0}
           T == {i \in 1 .. n + 1 : Append(f, l)[i].is = kind} \cup {0}
<1>1. n \in Nat /\ n + 2 - 1 = n + 1 /\ n + 1 - 1 = n
  OBVIOUS
<1>2. \A i \in 1 .. n : Append(f, l)[i] = f[i]
  OBVIOUS
<1>3. Append(f, l)[n + 1] = l
  OBVIOUS
<1>4. T = IF l.is = kind THEN S \cup {n + 1} ELSE S
  BY <1>1, <1>2, <1>3
<1>5. /\ LastIn(Append(f, l), kind, n + 2) = Webdynsun!Max(T)
      /\ LastIn(f, kind, n + 1) = Webdynsun!Max(S)
  BY <1>1 DEF LastIn
<1>6. ASSUME l.is = kind PROVE Webdynsun!Max(T) = n + 1
  <2>1. n + 1 \in T /\ \A i \in T : i \in Nat /\ n + 1 >= i
    BY <1>1, <1>4, <1>6
  <2>2. \A x \in T : (\A y \in T : x >= y) => x = n + 1
    BY <1>1, <2>1
  <2> HIDE DEF T
  <2>3. QED
    BY <2>1, <2>2 DEF Webdynsun!Max
<1>7. QED
  BY <1>4, <1>5, <1>6

(* The block of a line stays when the file grows. *)
LEMMA BlockStays ==
    ASSUME NEW f \in Seq(Webdynsun!Lines), NEW l \in Webdynsun!Lines,
           NEW n \in 1 .. Len(f) + 1,
           NEW a, NEW t, HasBlock(f, n, a, t)
    PROVE  HasBlock(Append(f, l), n, a, t)
<1>1. \A kind : LastIn(Append(f, l), kind, n) = LastIn(f, kind, n)
  BY LastStays
<1>2. \A i \in 1 .. n - 1 : Append(f, l)[i] = f[i]
  OBVIOUS
<1>3. QED
  BY <1>1, <1>2 DEF HasBlock

(* So does that of a row. *)
LEMMA RowStays ==
    ASSUME NEW f \in Seq(Webdynsun!Lines), NEW l \in Webdynsun!Lines,
           NEW r, RowInFile(f, r)
    PROVE  RowInFile(Append(f, l), r)
<1>1. PICK t \in Types \cup {None} :
         HasBlock(f, r.line, r.addr, t) /\ (HasTypeColumn => r.type = t)
  BY DEF RowInFile
<1>2. r.line \in 1 .. Len(f) /\ r.line \in 1 .. Len(f) + 1
      /\ r.line \in 1 .. Len(Append(f, l))
  BY DEF RowInFile
<1>3. HasBlock(Append(f, l), r.line, r.addr, t)
  BY <1>1, <1>2, BlockStays
<1>4. QED
  BY <1>1, <1>2, <1>3 DEF RowInFile

(* After a line l the reader is in the block l leaves it in: one of a new  *)
(* address, one with a new type, or the one it was in.                     *)
LEMMA BlockMoves ==
    ASSUME NEW f \in Seq(Webdynsun!Lines), NEW l \in Webdynsun!Lines,
           NEW a, NEW t,
           HasBlock(f, Len(f) + 1, a, t)
    PROVE  HasBlock(Append(f, l), Len(Append(f, l)) + 1,
                    IF l.is = "address" /\ l.value # Unreadable THEN l.value ELSE a,
                    IF l.is = "type" THEN l.value ELSE t)
<1> DEFINE n == Len(f)
           g == Append(f, l)
           b == LastIn(f, "address", n + 1)
           y == LastIn(f, "type", n + 1)
           c == LastIn(g, "address", n + 2)
           z == LastIn(g, "type", n + 2)
<1>1. n \in Nat /\ Len(g) + 1 = n + 2 /\ g[n + 1] = l
      /\ \A i \in 1 .. n : g[i] = f[i]
  OBVIOUS
<1>2. /\ c = IF l.is = "address" THEN n + 1 ELSE b
      /\ z = IF l.is = "type" THEN n + 1 ELSE y
  BY LastMoves
<1>3. /\ b \in 0 .. n /\ y \in 0 .. n
      /\ (IF b = 0 THEN None ELSE f[b].value) # Unreadable
            => a = IF b = 0 THEN None ELSE f[b].value
      /\ b < y => t = f[y].value
  BY <1>1 DEF HasBlock
<1> HIDE DEF n, g, b, y, c, z
<1>4. /\ c \in 0 .. n + 1 /\ z \in 0 .. n + 1
      /\ (IF c = 0 THEN None ELSE g[c].value) # Unreadable
            => (IF l.is = "address" /\ l.value # Unreadable THEN l.value ELSE a)
                  = IF c = 0 THEN None ELSE g[c].value
      /\ c < z => (IF l.is = "type" THEN l.value ELSE t) = g[z].value
  <2>1. CASE l.is = "address"
    BY <1>1, <1>2, <1>3, <2>1
  <2>2. CASE l.is = "type"
    BY <1>1, <1>2, <1>3, <2>2
  <2>3. CASE l.is \notin {"address", "type"}
    BY <1>1, <1>2, <1>3, <2>3
  <2>4. QED
    BY <2>1, <2>2, <2>3
<1>5. QED
  BY <1>1, <1>4 DEF HasBlock, n, g, c, z

-----------------------------------------------------------------------------
(* The reader. *)

(* Before the first line there is no block. *)
LEMMA BlockInit == Webdynsun!Init => BlockInv
<1> SUFFICES ASSUME Webdynsun!Init PROVE BlockInv
  OBVIOUS
<1> USE DEF Webdynsun!Init
<1>1. \A kind : LastIn(<<>>, kind, 1) = 0
  <2>1. SUFFICES ASSUME NEW kind PROVE LastIn(<<>>, kind, 1) = 0
    OBVIOUS
  <2>2. {i \in 1 .. 1 - 1 : <<>>[i].is = kind} \cup {0} = {0}
    OBVIOUS
  <2>3. Webdynsun!Max({0}) = 0
    BY DEF Webdynsun!Max
  <2>4. QED
    BY <2>2, <2>3 DEF LastIn
<1>2. HasBlock(<<>>, 1, None, None)
  BY <1>1 DEF HasBlock
<1>3. QED
  BY <1>2 DEF BlockInv

(* A line that makes no row leaves the reader in the block it is in then.  *)
LEMMA LineKeeps ==
    ASSUME BlockInv, NEW l \in Webdynsun!Lines,
           \/ Webdynsun!UpdateAddr(l) \/ Webdynsun!UpdateType(l)
           \/ Webdynsun!PassOver(l)
    PROVE  BlockInv'
<1> USE DEF BlockInv
<1>1. blocks' = Append(blocks, l) /\ blocks' \in Seq(Webdynsun!Lines) /\ rows' = rows
  <2>1. blocks' = Append(blocks, l) /\ rows' = rows
    BY DEF Webdynsun!UpdateAddr, Webdynsun!UpdateType, Webdynsun!PassOver,
           Webdynsun!ReadLine
  <2>2. QED
    BY <2>1
<1>2. /\ addr' = IF l.is = "address" /\ l.value # Unreadable THEN l.value ELSE addr
      /\ typeInv' = IF l.is = "type" THEN l.value ELSE typeInv
  BY DEF Webdynsun!UpdateAddr, Webdynsun!UpdateType, Webdynsun!PassOver,
         Webdynsun!NewAddr, Webdynsun!state
<1>3. HasBlock(blocks', Len(blocks') + 1, addr', typeInv')
  BY <1>1, <1>2, BlockMoves
<1>4. addr' \in Addresses \cup {None} /\ typeInv' \in Types \cup {None}
  BY <1>2 DEF Webdynsun!Lines
<1>5. \A i \in DOMAIN rows : RowInFile(blocks', rows[i])
  BY <1>1, RowStays
<1>6. QED
  BY <1>1, <1>3, <1>4, <1>5

(* A row is in the block the reader is in. *)
LEMMA RowKeeps ==
    ASSUME BlockInv, NEW l \in Webdynsun!Lines, Webdynsun!HandRow(l)
    PROVE  BlockInv'
<1> USE DEF BlockInv
<1> DEFINE r == Webdynsun!Inject(Len(blocks) + 1)
<1>1. /\ blocks' = Append(blocks, l) /\ blocks' \in Seq(Webdynsun!Lines)
      /\ Len(blocks) \in Nat /\ Len(blocks') = Len(blocks) + 1
      /\ rows' = Append(rows, r) /\ addr' = addr /\ typeInv' = typeInv
  BY DEF Webdynsun!HandRow, Webdynsun!ReadLine, Webdynsun!state
<1>2. r \in [line : Nat, addr : Addresses \cup {None}, type : Types \cup {None}]
  BY <1>1 DEF Webdynsun!Inject
<1>3. HasBlock(blocks', Len(blocks') + 1, addr', typeInv')
  <2>1. l.is = "row"
    BY DEF Webdynsun!HandRow
  <2>2. QED
    BY <1>1, <2>1, BlockMoves
<1>4. RowInFile(blocks', r)
  <2>1. HasBlock(blocks', Len(blocks) + 1, addr, typeInv)
    BY <1>1, BlockStays
  <2>2. r.line = Len(blocks) + 1 /\ r.addr = addr /\ (HasTypeColumn => r.type = typeInv)
    BY DEF Webdynsun!Inject
  <2>3. QED
    BY <1>1, <2>1, <2>2 DEF RowInFile
<1>5. \A i \in DOMAIN rows : RowInFile(blocks', rows[i])
  BY <1>1, RowStays
<1> HIDE DEF r
<1>6. \A i \in DOMAIN rows' : rows'[i] = r \/ (i \in DOMAIN rows /\ rows'[i] = rows[i])
  BY <1>1, <1>2
<1>7. QED
  BY <1>1, <1>2, <1>3, <1>4, <1>5, <1>6

(* The invariant holds of every file. *)
LEMMA BlockKept == BlockInv /\ [Next]_vars => BlockInv'
<1>1. BlockInv /\ (UNCHANGED webdynsun \/ Webdynsun!Stop) => BlockInv'
  BY DEF BlockInv, webdynsun, Webdynsun!state, Webdynsun!Stop
<1>2. BlockInv /\ Webdynsun!Next => BlockInv'
  BY <1>1, LineKeeps, RowKeeps DEF Webdynsun!Next
<1>. QED
  BY <1>1, <1>2 DEF Next, vars, ReadTabular, ReadWebdynsun, ReadXml

(* A row of a block with a readable address and a type line of its own has *)
(* that address and type, whatever lines precede it, unreadable addresses  *)
(* and blocks without rows among them (webdynsun_reader.go:75-143).        *)
THEOREM BlocksCarried == Spec => []RowsCarryTheirBlock
<1>1. BlockInv => RowsCarryTheirBlock
  <2>1. SUFFICES ASSUME BlockInv, NEW i \in DOMAIN rows,
                        NEW b, b = Webdynsun!BlockOf(rows[i].line),
                        NEW y, y = Webdynsun!LastBefore("type", rows[i].line)
                 PROVE  /\ Webdynsun!AddressOf(b) # Unreadable
                              => rows[i].addr = Webdynsun!AddressOf(b)
                        /\ (HasTypeColumn /\ b < y) => rows[i].type = blocks[y].value
    BY DEF RowsCarryTheirBlock, Webdynsun!RowsCarryTheirBlock
  <2>2. RowInFile(blocks, rows[i])
    BY <2>1 DEF BlockInv
  <2>3. PICK t \in Types \cup {None} :
           /\ HasBlock(blocks, rows[i].line, rows[i].addr, t)
           /\ HasTypeColumn => rows[i].type = t
    BY <2>2 DEF RowInFile
  <2>4. /\ b = LastIn(blocks, "address", rows[i].line)
        /\ y = LastIn(blocks, "type", rows[i].line)
    BY <2>1 DEF Webdynsun!BlockOf, Webdynsun!LastBefore, LastIn
  <2>. QED
    BY <2>3, <2>4 DEF HasBlock, Webdynsun!AddressOf
<1>2. Init => BlockInv
  BY BlockInit DEF Init
<1>. QED
  BY <1>1, <1>2, BlockKept, PTL DEF Spec

-----------------------------------------------------------------------------
(* XML documents.  The root, once there is one, is a node without parents. *)

Node == [name : Names, attrs : [Attributes -> Texts \cup {None}],
         text : Seq(Texts), chain : Seq(Nat)]

Document == [nodes : Seq(Node), stack : Seq(Nat), root : Nat, failed : BOOLEAN]

XmlInv ==
    /\ doc \in Document
    /\ \A i \in DOMAIN doc.stack : doc.stack[i] \in DOMAIN doc.nodes
    /\ doc.root = 0 => doc.stack = <<>>
    /\ doc.root # 0 => /\ doc.root \in DOMAIN doc.nodes
                       /\ Len(doc.nodes[doc.root].chain) = 1

(* What a step does to the document, by the kind of the token.             *)
LEMMA TokenRead ==
    ASSUME NEW t \in Xml!Tokens, Xml!Transfer(t)
    PROVE  /\ t.is = "start" => doc' = Xml!Start(doc, t) /\ t \in Elements
           /\ t.is = "end" /\ doc.stack # <<>> =>
                  doc' = [doc EXCEPT !.stack = Xml!Front(@)]
           /\ t.is = "text" /\ doc.stack # <<>> =>
                  /\ doc' = [doc EXCEPT !.nodes[Xml!Last(doc.stack)].text
                                            = Append(@, t.text)]
                  /\ t.text \in Texts
           /\ t.is = "text" /\ doc.stack = <<>> => doc' = doc
           /\ t.is = "bad" \/ (t.is = "end" /\ doc.stack = <<>>) =>
                  doc' = [doc EXCEPT !.failed = TRUE]
           /\ t.is \in {"start", "end", "text", "bad"}
<1>1. doc' = Xml!Step(doc, t)
  BY DEF Xml!Transfer
<1>2. CASE t \in Elements
  <2>1. t.is = "start"
    BY <1>2, ReadersAssumption DEF Xml!XmlAssumption
  <2>. QED
    BY <1>1, <1>2, <2>1 DEF Xml!Step
<1>3. CASE t \in [is : {"text"}, text : Texts]
  BY <1>1, <1>3 DEF Xml!Step
<1>4. CASE t \in [is : {"end", "bad"}]
  BY <1>1, <1>4 DEF Xml!Step
<1>. QED
  BY <1>2, <1>3, <1>4 DEF Xml!Tokens

(* A new element is the last node, and a root if none is open.             *)
LEMMA ElementStarts ==
    ASSUME XmlInv, NEW t \in Elements, doc' = Xml!Start(doc, t)
    PROVE  /\ XmlInv'
           /\ Len(doc.nodes) + 1 \in DOMAIN doc'.nodes
           /\ \A i \in DOMAIN doc.nodes :
                 i \in DOMAIN doc'.nodes /\ doc'.nodes[i] = doc.nodes[i]
           /\ doc.stack = <<>> =>
                 Len(doc'.nodes[Len(doc.nodes) + 1].chain) = 1
<1>. DEFINE n == Len(doc.nodes) + 1
            chain == Append(doc.stack, n)
            node == [name |-> t.name, attrs |-> t.attrs, text |-> <<>>,
                     chain |-> chain]
<1>1. /\ doc \in Document /\ doc.nodes \in Seq(Node) /\ n \in Nat
      /\ doc.stack \in Seq(Nat) /\ doc.root \in Nat
  BY DEF XmlInv, Document
<1>2. t.name \in Names /\ t.attrs \in [Attributes -> Texts \cup {None}]
  BY ReadersAssumption DEF Xml!XmlAssumption
<1>3. chain \in Seq(Nat) /\ <<>> \in Seq(Texts)
  BY <1>1
<1>4. node \in Node /\ node.chain = chain
  BY <1>2, <1>3 DEF Node
<1>5. /\ doc'.nodes = Append(doc.nodes, node) /\ doc'.stack = chain
      /\ doc'.root = IF doc.stack = <<>> THEN n ELSE doc.root
      /\ doc'.failed = doc.failed
      /\ doc' = [nodes |-> Append(doc.nodes, node), stack |-> chain,
                 root |-> IF doc.stack = <<>> THEN n ELSE doc.root,
                 failed |-> doc.failed]
  BY <1>1 DEF Document, Xml!Start
<1>. HIDE DEF node
<1>6. /\ Append(doc.nodes, node) \in Seq(Node)
      /\ DOMAIN Append(doc.nodes, node) = 1 .. n
      /\ DOMAIN doc.nodes = 1 .. n - 1
      /\ \A i \in 1 .. n - 1 : Append(doc.nodes, node)[i] = doc.nodes[i]
      /\ Append(doc.nodes, node)[n] = node
  BY <1>1, <1>4
<1>7. doc' \in Document
  BY <1>1, <1>3, <1>5, <1>6 DEF Document
<1>8. /\ doc.stack = <<>> => Len(chain) = 1
      /\ \A i \in DOMAIN chain : chain[i] \in 1 .. n
  <2>1. \A i \in DOMAIN doc.stack : doc.stack[i] \in 1 .. n - 1
    BY <1>6 DEF XmlInv
  <2>2. DOMAIN doc.stack = 1 .. Len(doc.stack) /\ Len(doc.stack) \in Nat
    BY <1>1
  <2>3. /\ DOMAIN chain = 1 .. Len(doc.stack) + 1 /\ Len(chain) = Len(doc.stack) + 1
        /\ \A i \in 1 .. Len(doc.stack) : chain[i] = doc.stack[i]
        /\ chain[Len(doc.stack) + 1] = n
    <3>. HIDE DEF n
    <3>. QED
      BY <1>1, <2>2
  <2>4. \A i \in DOMAIN chain : chain[i] \in 1 .. n
    <3>. HIDE DEF chain
    <3>. QED
      BY <1>1, <2>1, <2>2, <2>3
  <2>5. doc.stack = <<>> => Len(chain) = 1
    <3>. HIDE DEF chain
    <3>. QED
      BY <2>2, <2>3
  <2>. QED
    BY <2>4, <2>5
<1>9. doc.root # 0 => /\ doc.root \in 1 .. n - 1
                      /\ Len(doc.nodes[doc.root].chain) = 1
  BY <1>6 DEF XmlInv
<1>10. doc.root = 0 => doc.stack = <<>>
  BY DEF XmlInv
<1>. HIDE DEF n, chain
<1>11. /\ \A i \in DOMAIN doc'.stack : doc'.stack[i] \in DOMAIN doc'.nodes
       /\ doc'.root # 0
       /\ doc'.root \in DOMAIN doc'.nodes
       /\ Len(doc'.nodes[doc'.root].chain) = 1
  <2>1. CASE doc.stack = <<>>
    <3>1. n # 0 /\ n \in 1 .. n
      BY <1>1, <1>6 DEF n
    <3>. QED
      BY <1>4, <1>5, <1>6, <1>8, <2>1, <3>1
  <2>2. CASE doc.stack # <<>>
    <3>1. doc.root \in 1 .. n - 1 /\ doc.root \in 1 .. n /\ doc.root # 0
      BY <1>1, <1>9, <1>10, <2>2
    <3>. QED
      BY <1>5, <1>6, <1>8, <1>9, <2>2, <3>1
  <2>. QED
    BY <2>1, <2>2
<1>12. n \in 1 .. n /\ \A i \in 1 .. n - 1 : i \in 1 .. n
  BY <1>1 DEF n
<1>. QED
  BY <1>4, <1>5, <1>6, <1>7, <1>8, <1>11, <1>12 DEF XmlInv, n

(* Text is kept by the element it is in.                                   *)
LEMMA TextKept ==
    ASSUME XmlInv, NEW text \in Texts, doc.stack # <<>>,
           doc' = [doc EXCEPT !.nodes[Xml!Last(doc.stack)].text = Append(@, text)]
    PROVE  XmlInv'
<1>. DEFINE l == Xml!Last(doc.stack)
            node == [doc.nodes[l] EXCEPT !.text = Append(@, text)]
<1>1. /\ doc.nodes \in Seq(Node) /\ doc.stack \in Seq(Nat) /\ doc.root \in Nat
      /\ doc \in Document
  BY DEF XmlInv, Document
<1>2. l \in DOMAIN doc.nodes
  <2>1. Len(doc.stack) \in DOMAIN doc.stack
    BY <1>1
  <2>. QED
    BY <2>1 DEF XmlInv, Xml!Last
<1>3. node \in Node /\ node.chain = doc.nodes[l].chain
  <2>1. doc.nodes[l] \in Node
    BY <1>1, <1>2
  <2>. DEFINE old == doc.nodes[l]
  <2>2. old \in Node /\ node = [old EXCEPT !.text = Append(@, text)]
    BY <2>1
  <2>. HIDE DEF l, old, node
  <2>3. Append(old.text, text) \in Seq(Texts)
    BY <2>2 DEF Node
  <2>4. node = [old EXCEPT !.text = Append(old.text, text)]
    BY <2>2
  <2>5. node \in Node /\ node.chain = old.chain
    BY <2>2, <2>3, <2>4 DEF Node
  <2>. QED
    BY <2>5 DEF old
<1>. DEFINE nodes == [doc.nodes EXCEPT ![l] = node]
<1>4. doc' = [doc EXCEPT !.nodes = nodes]
  BY <1>1, <1>2 DEF Document
<1>. HIDE DEF l, node
<1>5. /\ nodes \in Seq(Node) /\ DOMAIN nodes = DOMAIN doc.nodes
      /\ \A i \in DOMAIN nodes : nodes[i].chain = doc.nodes[i].chain
  <2>1. nodes \in Seq(Node) /\ DOMAIN nodes = DOMAIN doc.nodes
    BY <1>1, <1>2, <1>3
  <2>. QED
    BY <1>2, <1>3, <2>1
<1>. HIDE DEF nodes
<1>6. /\ doc'.nodes = nodes /\ doc'.stack = doc.stack /\ doc'.root = doc.root
      /\ doc' \in Document
  BY <1>1, <1>4, <1>5 DEF Document
<1>. QED
  BY <1>5, <1>6 DEF XmlInv

(* An element that ends is no longer on the stack.                         *)
LEMMA ElementEnds ==
    ASSUME XmlInv, doc.stack # <<>>, doc' = [doc EXCEPT !.stack = Xml!Front(@)]
    PROVE  XmlInv'
<1>1. /\ doc.stack \in Seq(Nat) /\ doc.root \in Nat /\ doc \in Document
  BY DEF XmlInv, Document
<1>. DEFINE m == Len(doc.stack) - 1
            front == SubSeq(doc.stack, 1, m)
<1>2. m \in Nat /\ DOMAIN doc.stack = 1 .. m + 1
  BY <1>1
<1>3. /\ front \in Seq(Nat)
      /\ \A i \in DOMAIN front : /\ i \in DOMAIN doc.stack
                                 /\ front[i] = doc.stack[i]
  <2>1. \A i \in 1 .. m : i \in 1 .. m + 1 /\ doc.stack[i] \in Nat
    BY <1>1, <1>2
  <2>2. m - 1 + 1 = m /\ \A i \in 1 .. m : 1 + i - 1 = i
    <3>. HIDE DEF m
    <3>. QED
      BY <1>2
  <2>3. /\ front \in Seq(Nat)
        /\ Len(front) = IF 1 <= m THEN m - 1 + 1 ELSE 0
        /\ \A i \in 1 .. m - 1 + 1 : front[i] = doc.stack[1 + i - 1]
    <3>. HIDE DEF m
    <3>. QED
      BY <1>2, <2>1, SubSeqProperties
  <2>. HIDE DEF m, front
  <2>4. DOMAIN front = 1 .. m
    BY <1>2, <2>2, <2>3
  <2>. QED
    BY <1>2, <2>1, <2>2, <2>3, <2>4
<1>4. doc' = [doc EXCEPT !.stack = front]
  BY DEF Xml!Front
<1>. HIDE DEF front
<1>5. /\ doc'.nodes = doc.nodes /\ doc'.stack = front /\ doc'.root = doc.root
      /\ doc' \in Document
  BY <1>1, <1>3, <1>4 DEF Document
<1>6. doc.root # 0
  BY DEF XmlInv
<1>. QED
  BY <1>3, <1>5, <1>6 DEF XmlInv

LEMMA XmlStarts == Xml!Init => XmlInv
BY DEF Xml!Init, Xml!Empty, XmlInv, Document

LEMMA TokenKeeps == XmlInv /\ Xml!Next => XmlInv'
<1>. SUFFICES ASSUME XmlInv, NEW t \in Xml!Tokens, Xml!Transfer(t)
              PROVE  XmlInv'
  BY DEF Xml!Next
<1>1. CASE t.is = "start"
  BY <1>1, TokenRead, ElementStarts
<1>2. CASE t.is = "end" /\ doc.stack # <<>>
  BY <1>2, TokenRead, ElementEnds
<1>3. CASE t.is = "text" /\ doc.stack # <<>>
  BY <1>3, TokenRead, TextKept
<1>4. CASE t.is = "text" /\ doc.stack = <<>>
  BY <1>4, TokenRead DEF XmlInv
<1>5. CASE t.is = "bad" \/ (t.is = "end" /\ doc.stack = <<>>)
  <2>1. doc' = [doc EXCEPT !.failed = TRUE]
    BY <1>5, TokenRead
  <2>. QED
    BY <2>1 DEF XmlInv, Document
<1>. QED
  BY <1>1, <1>2, <1>3, <1>4, <1>5, TokenRead

LEMMA XmlKept == XmlInv /\ [Next]_vars => XmlInv'
<1>1. XmlInv /\ UNCHANGED xml => XmlInv'
  BY DEF xml, XmlInv
<1>. QED
  BY <1>1, TokenKeeps DEF Next, vars, ReadTabular, ReadWebdynsun, ReadXml

(* A document that has been accepted can only go on with another root: what *)
(* follows makes it no other row, or it is not one document.               *)
LEMMA AcceptedIsWhole ==
    ASSUME XmlInv, Xml!Next, Xml!OneDocument(doc')
    PROVE  Xml!Row(doc) \in {None, Xml!Row(doc')}
<1>1. PICK t \in Xml!Tokens : Xml!Transfer(t)
  BY DEF Xml!Next
<1>2. CASE Xml!Refused(doc)
  BY <1>2 DEF Xml!Row
<1>3. CASE ~Xml!Refused(doc)
  <2>1. doc.stack = <<>> /\ doc.root # 0
    BY <1>3 DEF Xml!Refused
  <2>2. ~doc'.failed
    BY DEF Xml!OneDocument
  <2>3. CASE t.is = "start"
    <3>. DEFINE n == Len(doc.nodes) + 1
    <3>1. t \in Elements /\ doc' = Xml!Start(doc, t)
      BY <1>1, <2>3, TokenRead
    <3>2. /\ n \in DOMAIN doc'.nodes /\ Len(doc'.nodes[n].chain) = 1
          /\ doc.root \in DOMAIN doc'.nodes
          /\ doc'.nodes[doc.root] = doc.nodes[doc.root]
      BY <2>1, <3>1, ElementStarts DEF XmlInv
    <3>3. Len(doc'.nodes[doc.root].chain) = 1
      BY <2>1, <3>2 DEF XmlInv
    <3>4. {doc.root, n} \subseteq Xml!Roots(doc')
      BY <3>2, <3>3 DEF Xml!Roots
    <3>5. doc.root # n
      <4>1. doc.nodes \in Seq(Node) /\ doc.root \in DOMAIN doc.nodes
        BY <2>1 DEF XmlInv, Document
      <4>. QED
        BY <4>1
    <3>6. IsFiniteSet(Xml!Roots(doc'))
      <4>1. doc'.nodes \in Seq(Node)
        BY <3>1, ElementStarts DEF XmlInv, Document
      <4>2. DOMAIN doc'.nodes = 1 .. Len(doc'.nodes) /\ Len(doc'.nodes) \in Int
        BY <4>1
      <4>3. IsFiniteSet(1 .. Len(doc'.nodes))
        BY <4>2, FS_Interval
      <4>. QED
        BY <4>2, <4>3, FS_Subset DEF Xml!Roots
    <3>. HIDE DEF n
    <3>7. \/ Cardinality(Xml!Roots(doc')) = 0
          \/ Cardinality(Xml!Roots(doc')) = 1
      <4>1. Cardinality(Xml!Roots(doc')) \in Nat
        BY <3>6, FS_CardinalityType
      <4>2. Cardinality(Xml!Roots(doc')) <= 1
        BY DEF Xml!OneDocument, Xml!Cardinality, Cardinality
      <4>. HIDE DEF n
      <4>3. \A c \in Nat : c <= 1 => c = 0 \/ c = 1
        OBVIOUS
      <4>. QED
        BY <4>1, <4>2, <4>3
    <3>8. Cardinality(Xml!Roots(doc')) # 0
      BY <3>4, <3>6, FS_EmptySet
    <3>9. Cardinality(Xml!Roots(doc')) # 1
      BY <3>4, <3>5, <3>6, FS_Singleton
    <3>. QED
      BY <3>7, <3>8, <3>9
  <2>4. CASE t.is = "text"
    BY <1>1, <2>1, <2>4, TokenRead
  <2>5. CASE t.is \in {"end", "bad"}
    <3>1. doc' = [doc EXCEPT !.failed = TRUE]
      BY <1>1, <2>1, <2>5, TokenRead
    <3>. QED
      BY <2>2, <3>1 DEF XmlInv, Document
  <2>. QED
    BY <1>1, <2>3, <2>4, <2>5, TokenRead
<1>. QED
  BY <1>2, <1>3

(* No row is made of a document that is still being transferred: if one    *)
(* document is all the file becomes, what a run stores of the part it has  *)
(* is nothing or the row of the whole (xml_reader.go:57-74,238-280).       *)
THEOREM PartsRefused == Spec => PartIsRefusedOrWhole
<1>1. Init => XmlInv
  BY XmlStarts DEF Init
<1>2. XmlInv /\ [Next]_vars =>
         [Xml!OneDocument(doc') => Xml!Row(doc) \in {None, Xml!Row(doc')}]_xml
  BY AcceptedIsWhole DEF Next, vars, ReadTabular, ReadWebdynsun, ReadXml
<1>. QED
  BY <1>1, <1>2, XmlKept, PTL
     DEF Spec, PartIsRefusedOrWhole, Xml!PartIsRefusedOrWhole, Xml!vars, xml

-----------------------------------------------------------------------------
(* Induction on numbers, with a set in place of a predicate: what has 0    *)
(* and the next of each of its numbers has them all.                       *)
LEMMA AllNumbers ==
    ASSUME NEW T, 0 \in T, \A n \in Nat : n \in T => n + 1 \in T
    PROVE  Nat \subseteq T
<1>. DEFINE U == {n \in Nat : n \notin T}
            R == OpToRel(<, Nat)
<1>1. SUFFICES ASSUME U # {} PROVE FALSE
  OBVIOUS
<1>2. IsWellFoundedOn(R, Nat) /\ U \subseteq Nat
  BY NatLessThanWellFounded
<1>3. \A x, y \in Nat : y < x => <<y, x>> \in R
  BY DEF OpToRel
<1>. HIDE DEF R, U
<1>4. PICK x \in U : \A y \in U : <<y, x>> \notin R
  BY <1>1, <1>2, WFMin
<1>5. x \in Nat /\ x \notin T /\ x # 0
  BY <1>4 DEF U
<1>6. x - 1 \in Nat /\ (x - 1) + 1 = x /\ x - 1 < x
  BY <1>5
<1>7. x - 1 \in T
  BY <1>3, <1>4, <1>5, <1>6 DEF U
<1>. QED
  BY <1>5, <1>6, <1>7

(* The nodes reached by the first names of a path, one name at a time.     *)
Reaches(d, path, n, current) ==
    current = [k \in 0 .. n |->
                  IF k = 0 THEN {d.root} ELSE Xml!Children(d, current[k - 1], path[k])]

(* There is such a function: one for n names gives one for n + 1.          *)
LEMMA SomethingIsReached ==
    ASSUME NEW d, NEW path, NEW m \in Nat
    PROVE  \E current : Reaches(d, path, m, current)
<1>. DEFINE T == {n \in Nat : \E current : Reaches(d, path, n, current)}
<1>1. 0 \in T
  <2>1. Reaches(d, path, 0, [k \in 0 .. 0 |-> {d.root}])
    BY DEF Reaches
  <2>. QED
    BY <2>1
<1>2. ASSUME NEW n \in Nat, n \in T PROVE n + 1 \in T
  <2>1. PICK current : Reaches(d, path, n, current)
    BY <1>2
  <2>. DEFINE next == [k \in 0 .. n + 1 |->
                  IF k = n + 1 THEN Xml!Children(d, current[n], path[n + 1])
                  ELSE current[k]]
  <2>2. \A k \in 0 .. n + 1 : k # 0 => k - 1 \in 0 .. n + 1 /\ k - 1 # n + 1
    OBVIOUS
  <2>3. \A k \in 0 .. n + 1 : k # n + 1 => k \in 0 .. n
    OBVIOUS
  <2>4. \A k \in 0 .. n : current[k] = IF k = 0 THEN {d.root}
                            ELSE Xml!Children(d, current[k - 1], path[k])
    BY <2>1 DEF Reaches
  <2>5. \A k \in 0 .. n + 1 : next[k] = IF k = 0 THEN {d.root}
                            ELSE Xml!Children(d, next[k - 1], path[k])
    <3>. SUFFICES ASSUME NEW k \in 0 .. n + 1
                  PROVE  next[k] = IF k = 0 THEN {d.root}
                                   ELSE Xml!Children(d, next[k - 1], path[k])
      OBVIOUS
    <3>1. CASE k = n + 1
      <4>1. next[k] = Xml!Children(d, current[n], path[n + 1])
        BY <3>1
      <4>2. next[k - 1] = current[n] /\ k # 0
        BY <3>1
      <4>. HIDE DEF next
      <4>. QED
        BY <3>1, <4>1, <4>2
    <3>2. CASE k # n + 1
      <4>1. next[k] = current[k]
        BY <3>2
      <4>2. k # 0 => next[k - 1] = current[k - 1]
        BY <2>2, <3>2
      <4>. HIDE DEF next
      <4>. QED
        BY <2>3, <2>4, <3>2, <4>1, <4>2
    <3>. QED
      BY <3>1, <3>2
  <2>6. Reaches(d, path, n + 1, next)
    <3>1. next = [k \in 0 .. n + 1 |-> next[k]]
      OBVIOUS
    <3>. HIDE DEF next
    <3>. QED
      BY <2>5, <3>1 DEF Reaches
  <2>. QED
    BY <2>6
<1>3. Nat \subseteq T
  <2>. HIDE DEF T
  <2>. QED
    BY <1>1, <1>2, AllNumbers
<1>. QED
  BY <1>3

(* So the recursive definition of Reached is what it says.                 *)
LEMMA ReachedStepByStep ==
    ASSUME NEW d, NEW path, Len(path) \in Nat
    PROVE  \A k \in 0 .. Len(path) :
               Xml!Reached(d, path)[k] =
                   IF k = 0 THEN {d.root}
                   ELSE Xml!Children(d, Xml!Reached(d, path)[k - 1], path[k])
<1>. DEFINE n == Len(path)
<1>1. Xml!Reached(d, path) = CHOOSE current : Reaches(d, path, n, current)
  BY DEF Xml!Reached, Reaches
<1>. HIDE DEF n
<1>2. \E current : Reaches(d, path, n, current)
  BY SomethingIsReached DEF n
<1>3. Reaches(d, path, n, Xml!Reached(d, path))
  BY <1>1, <1>2
<1>. QED
  BY <1>3 DEF Reaches, n

-----------------------------------------------------------------------------
(* The chain of a node is that of its parent, and the node; the stack is   *)
(* the chain of the innermost open element.                                *)
ChainOf(n, c, nodes) ==
    /\ c \in Seq(DOMAIN nodes) /\ Len(c) \in Nat \ {0} /\ c[Len(c)] = n
    /\ Len(c) > 1 => SubSeq(c, 1, Len(c) - 1) = nodes[c[Len(c) - 1]].chain

TreeInv ==
    /\ \A n \in DOMAIN doc.nodes : ChainOf(n, doc.nodes[n].chain, doc.nodes)
    /\ doc.stack # <<>> => doc.stack = doc.nodes[Xml!Last(doc.stack)].chain

LEMMA FunctionIsSeq ==
    ASSUME NEW S, NEW m \in Nat, NEW s \in [1 .. m -> S]
    PROVE  s \in Seq(S)
  BY SeqDef

(* What precedes the last element of a sequence.                           *)
LEMMA AppendedFront ==
    ASSUME NEW S, NEW s \in Seq(S), NEW e \in S
    PROVE  SubSeq(Append(s, e), 1, Len(s)) = s
<1>. DEFINE t == Append(s, e)
            n == Len(s)
<1>1. n \in Nat /\ \A i \in 1 .. n : t[i] = s[i] /\ t[i] \in S
  OBVIOUS
<1>2. \A i \in 1 .. n : 1 + i - 1 = i
  BY <1>1
<1>3. n - 1 + 1 = n /\ (IF 1 <= n THEN n ELSE 0) = n
  BY <1>1
<1>. HIDE DEF t
<1>4. /\ SubSeq(t, 1, n) \in Seq(S)
      /\ Len(SubSeq(t, 1, n)) = n
      /\ \A i \in 1 .. n : SubSeq(t, 1, n)[i] = s[i]
  <2>. HIDE DEF n
  <2>. QED
    BY <1>1, <1>2, <1>3, SubSeqProperties
<1>. QED
  BY <1>4, SeqEqual DEF t

LEMMA BeforeLast ==
    ASSUME NEW S, NEW s \in Seq(S), Len(s) > 1
    PROVE  s[Len(s) - 1] \in S
<1>1. Len(s) - 1 \in 1 .. Len(s)
  OBVIOUS
<1>. QED
  BY <1>1, ElementOfSeq

(* A new element continues the chain of the open one.                      *)
LEMMA ElementGrows ==
    ASSUME XmlInv, TreeInv, NEW t \in Elements, doc' = Xml!Start(doc, t)
    PROVE  TreeInv'
<1>. DEFINE n == Len(doc.nodes) + 1
            chain == Append(doc.stack, n)
            nodes == doc'.nodes
            m == Len(doc.stack)
<1>1. /\ doc \in Document /\ doc.nodes \in Seq(Node) /\ n \in Nat
      /\ doc.stack \in Seq(Nat) /\ m \in Nat
      /\ DOMAIN doc.nodes = 1 .. n - 1 /\ DOMAIN doc.stack = 1 .. m
  BY DEF XmlInv, Document
<1>2. /\ DOMAIN nodes = 1 .. n /\ doc'.stack = chain
      /\ nodes[n].chain = chain
      /\ \A i \in 1 .. n - 1 : nodes[i] = doc.nodes[i]
  <2>. DEFINE node == [name |-> t.name, attrs |-> t.attrs, text |-> <<>>,
                       chain |-> chain]
  <2>1. nodes = Append(doc.nodes, node) /\ doc'.stack = chain
    BY <1>1 DEF Document, Xml!Start
  <2>2. node.chain = chain
    OBVIOUS
  <2>. HIDE DEF node, chain, nodes
  <2>. QED
    BY <1>1, <2>1, <2>2
<1>3. /\ chain \in Seq(1 .. n) /\ Len(chain) = m + 1 /\ chain[m + 1] = n
      /\ \A i \in 1 .. m : chain[i] = doc.stack[i]
      /\ SubSeq(chain, 1, m) = doc.stack
  <2>1. \A i \in 1 .. m : doc.stack[i] \in 1 .. n
    BY <1>1 DEF XmlInv
  <2>. HIDE DEF n
  <2>2. doc.stack \in Seq(1 .. n) /\ n \in 1 .. n
    <3>1. n \in 1 .. n
      BY <1>1 DEF n
    <3>2. doc.stack \in [1 .. m -> 1 .. n]
      BY <1>1, <2>1
    <3>. HIDE DEF m
    <3>. QED
      BY <1>1, <3>1, <3>2, FunctionIsSeq
  <2>3. /\ chain \in Seq(1 .. n) /\ Len(chain) = m + 1 /\ chain[m + 1] = n
        /\ \A i \in 1 .. m : chain[i] = doc.stack[i]
    BY <2>2
  <2>. QED
    BY <2>2, <2>3, AppendedFront DEF m
<1>. HIDE DEF n, chain, nodes, m
<1>4. doc'.stack = nodes[Xml!Last(doc'.stack)].chain
  BY <1>1, <1>2, <1>3 DEF Xml!Last
<1>5. ChainOf(n, chain, nodes)
  <2>1. CASE m = 0
    BY <1>1, <1>2, <1>3, <2>1 DEF ChainOf
  <2>2. CASE m # 0
    <3>1. doc.stack # <<>> /\ Xml!Last(doc.stack) = doc.stack[m] /\ m \in 1 .. m
      BY <1>1, <2>2 DEF m, Xml!Last
    <3>2. doc.stack[m] \in 1 .. n - 1 /\ chain[m] = doc.stack[m]
      BY <1>1, <1>3, <3>1 DEF XmlInv
    <3>3. nodes[chain[m]].chain = doc.stack
      BY <1>2, <3>1, <3>2 DEF TreeInv
    <3>. QED
      BY <1>1, <1>2, <1>3, <3>3 DEF ChainOf
  <2>. QED
    BY <2>1, <2>2
<1>6. ASSUME NEW i \in 1 .. n - 1 PROVE ChainOf(i, nodes[i].chain, nodes)
  <2>. DEFINE c == doc.nodes[i].chain
  <2>1. ChainOf(i, c, doc.nodes) /\ nodes[i].chain = c
    BY <1>1, <1>2, <1>6 DEF TreeInv
  <2>. HIDE DEF c
  <2>2. c \in Seq(1 .. n - 1) /\ c \in Seq(1 .. n)
    BY <1>1, <2>1 DEF ChainOf
  <2>3. Len(c) > 1 => c[Len(c) - 1] \in 1 .. n - 1
    BY <2>2, BeforeLast
  <2>. QED
    BY <1>2, <2>1, <2>2, <2>3 DEF ChainOf
<1>7. \A i \in 1 .. n : i = n \/ i \in 1 .. n - 1
  BY <1>1
<1>. QED
  BY <1>2, <1>4, <1>5, <1>6, <1>7 DEF TreeInv, nodes

(* Text changes no chain.                                                  *)
LEMMA TextGrows ==
    ASSUME XmlInv, TreeInv, NEW text, doc.stack # <<>>,
           doc' = [doc EXCEPT !.nodes[Xml!Last(doc.stack)].text = Append(@, text)]
    PROVE  TreeInv'
<1>. DEFINE l == Xml!Last(doc.stack)
            node == [doc.nodes[l] EXCEPT !.text = Append(@, text)]
<1>1. doc \in Document /\ doc.nodes \in Seq(Node)
  BY DEF XmlInv, Document
<1>2. doc'.nodes = [doc.nodes EXCEPT ![l] = node] /\ doc'.stack = doc.stack
  BY <1>1 DEF Document
<1>3. l \in DOMAIN doc.nodes => node.chain = doc.nodes[l].chain
  <2>. SUFFICES ASSUME l \in DOMAIN doc.nodes PROVE node.chain = doc.nodes[l].chain
    OBVIOUS
  <2>. DEFINE old == doc.nodes[l]
  <2>1. old \in Node
    BY <1>1
  <2>2. node = [old EXCEPT !.text = Append(@, text)]
    OBVIOUS
  <2>. HIDE DEF old, node, l
  <2>3. node.chain = old.chain
    BY <2>1, <2>2 DEF Node
  <2>. QED
    BY <2>3 DEF old
<1>. HIDE DEF l, node
<1>4. /\ DOMAIN doc'.nodes = DOMAIN doc.nodes
      /\ \A i \in DOMAIN doc.nodes : doc'.nodes[i].chain = doc.nodes[i].chain
  BY <1>1, <1>2, <1>3
<1>5. l \in DOMAIN doc.nodes
  <2>1. doc.stack \in Seq(Nat)
    BY DEF XmlInv, Document
  <2>2. Len(doc.stack) \in DOMAIN doc.stack
    BY <2>1
  <2>. QED
    BY <2>2 DEF XmlInv, l, Xml!Last
<1>7. ASSUME NEW i \in DOMAIN doc.nodes
      PROVE  ChainOf(i, doc'.nodes[i].chain, doc'.nodes)
  <2>. DEFINE c == doc.nodes[i].chain
              ns == doc'.nodes
  <2>1. ChainOf(i, c, doc.nodes) /\ ns[i].chain = c
    BY <1>4 DEF TreeInv
  <2>2. /\ DOMAIN ns = DOMAIN doc.nodes
        /\ \A j \in DOMAIN doc.nodes : ns[j].chain = doc.nodes[j].chain
    BY <1>4
  <2>. HIDE DEF c, ns
  <2>3. Len(c) > 1 => c[Len(c) - 1] \in DOMAIN doc.nodes
    BY <2>1, BeforeLast DEF ChainOf
  <2>. QED
    BY <2>1, <2>2, <2>3 DEF ChainOf, ns
<1>. QED
  BY <1>2, <1>4, <1>5, <1>7 DEF TreeInv, l

(* When an element ends its parent is the innermost open one.              *)
LEMMA ElementLeaves ==
    ASSUME XmlInv, TreeInv, doc.stack # <<>>,
           doc' = [doc EXCEPT !.stack = Xml!Front(@)]
    PROVE  TreeInv'
<1>. DEFINE m == Len(doc.stack)
            l == doc.stack[m]
            front == SubSeq(doc.stack, 1, m - 1)
<1>1. /\ doc \in Document /\ doc.stack \in Seq(Nat) /\ m \in Nat \ {0}
      /\ m \in DOMAIN doc.stack
  BY DEF XmlInv, Document
<1>2. doc'.nodes = doc.nodes /\ doc'.stack = front
  BY <1>1 DEF Document, Xml!Front
<1>3. l \in DOMAIN doc.nodes /\ doc.stack = doc.nodes[l].chain
  BY <1>1 DEF XmlInv, TreeInv, Xml!Last
<1>4. ChainOf(l, doc.stack, doc.nodes)
  BY <1>3 DEF TreeInv
<1>5. front # <<>> => front = doc.nodes[Xml!Last(front)].chain
  <2>1. CASE m = 1
    BY <1>1, <2>1, SubSeqProperties
  <2>2. CASE m > 1
    <3>1. front = doc.nodes[doc.stack[m - 1]].chain
      BY <1>4, <2>2 DEF ChainOf
    <3>2. /\ m - 1 \in Nat /\ m - 1 - 1 + 1 = m - 1 /\ 1 + (m - 1) - 1 = m - 1
          /\ m - 1 \in 1 .. m - 1 - 1 + 1
          /\ \A i \in 1 .. m - 1 : doc.stack[i] \in Nat
      <4>. HIDE DEF m
      <4>1. m - 1 \in Nat /\ m - 1 - 1 + 1 = m - 1 /\ 1 + (m - 1) - 1 = m - 1
            /\ m - 1 \in 1 .. m - 1 - 1 + 1
        BY <1>1, <2>2
      <4>2. \A i \in 1 .. m - 1 : i \in 1 .. m
        BY <1>1
      <4>3. DOMAIN doc.stack = 1 .. m
        BY <1>1 DEF m
      <4>. QED
        BY <1>1, <4>1, <4>2, <4>3
    <3>3. Len(front) = m - 1 /\ front[m - 1] = doc.stack[m - 1]
      <4>1. 1 <= m - 1
        BY <1>1, <2>2
      <4>. HIDE DEF m
      <4>. QED
        BY <1>1, <3>2, <4>1, SubSeqProperties
    <3>. HIDE DEF m, front
    <3>. QED
      BY <3>1, <3>3 DEF Xml!Last
  <2>. QED
    BY <1>1, <2>1, <2>2
<1>. HIDE DEF front
<1>. QED
  BY <1>2, <1>5 DEF TreeInv

LEMMA TreeKept == XmlInv /\ TreeInv /\ [Next]_vars => TreeInv'
<1>1. TreeInv /\ UNCHANGED xml => TreeInv'
  BY DEF xml, TreeInv
<1>2. ASSUME XmlInv, TreeInv, NEW t \in Xml!Tokens, Xml!Transfer(t)
      PROVE  TreeInv'
  <2>1. CASE t.is = "start"
    BY <1>2, <2>1, TokenRead, ElementGrows
  <2>2. CASE t.is = "end" /\ doc.stack # <<>>
    BY <1>2, <2>2, TokenRead, ElementLeaves
  <2>3. CASE t.is = "text" /\ doc.stack # <<>>
    BY <1>2, <2>3, TokenRead, TextGrows
  <2>4. CASE t.is = "text" /\ doc.stack = <<>>
    BY <1>2, <2>4, TokenRead DEF TreeInv
  <2>5. CASE t.is = "bad" \/ (t.is = "end" /\ doc.stack = <<>>)
    <3>1. doc' = [doc EXCEPT !.failed = TRUE]
      BY <1>2, <2>5, TokenRead
    <3>2. doc'.nodes = doc.nodes /\ doc'.stack = doc.stack
      BY <1>2, <3>1 DEF XmlInv, Document
    <3>. QED
      BY <1>2, <3>2 DEF TreeInv
  <2>. QED
    BY <1>2, <2>1, <2>2, <2>3, <2>4, <2>5, TokenRead
<1>. QED
  BY <1>1, <1>2 DEF Next, vars, ReadTabular, ReadWebdynsun, ReadXml, Xml!Next

LEMMA XmlTree == Spec => [](XmlInv /\ TreeInv)
<1>1. Init => TreeInv
  BY DEF Init, Xml!Init, Xml!Empty, TreeInv
<1>2. Init => XmlInv
  BY XmlStarts DEF Init
<1>. QED
  BY <1>1, <1>2, XmlKept, TreeKept, PTL DEF Spec

-----------------------------------------------------------------------------
(* The nodes at the end of the first k names of a path.                    *)
AtPath(path, k) ==
    {n \in DOMAIN doc.nodes :
        LET c == doc.nodes[n].chain
        IN /\ Len(c) = k + 1 /\ c[1] = doc.root
           /\ \A j \in 1 .. k : doc.nodes[c[j + 1]].name = path[j]}

LEMMA Prefix ==
    ASSUME NEW S, NEW s \in Seq(S), Len(s) > 1
    PROVE  LET p == SubSeq(s, 1, Len(s) - 1)
           IN Len(p) = Len(s) - 1 /\ \A j \in 1 .. Len(s) - 1 : p[j] = s[j]
<1>. DEFINE m == Len(s) - 1
<1>1. m \in Nat /\ 1 <= m /\ m - 1 + 1 = m
  OBVIOUS
<1>2. \A j \in 1 .. m : j \in 1 .. Len(s)
  OBVIOUS
<1>3. \A j \in 1 .. m : s[j] \in S
  BY <1>2, ElementOfSeq
<1>. HIDE DEF m
<1>4. \A j \in 1 .. m : 1 + j - 1 = j
  BY <1>1
<1>5. Len(SubSeq(s, 1, m)) = m /\ \A j \in 1 .. m : SubSeq(s, 1, m)[j] = s[j]
  BY <1>1, <1>3, <1>4, SubSeqProperties
<1>. QED
  BY <1>5 DEF m

(* One more name leads from the nodes to their children of that name.      *)
LEMMA ChildrenAtPath ==
    ASSUME XmlInv, TreeInv, NEW path, NEW k \in Nat \ {0}
    PROVE  Xml!Children(doc, AtPath(path, k - 1), path[k]) = AtPath(path, k)
<1>0. doc.nodes \in Seq(Node) /\ 0 \notin DOMAIN doc.nodes
  BY DEF XmlInv, Document
<1>. SUFFICES ASSUME NEW n \in DOMAIN doc.nodes
              PROVE  (/\ doc.nodes[n].name = path[k]
                      /\ Xml!Parent(doc, n) \in AtPath(path, k - 1))
                     <=> n \in AtPath(path, k)
  BY DEF Xml!Children, AtPath
<1>. DEFINE c == doc.nodes[n].chain
            L == Len(c)
            p == c[L - 1]
            d == doc.nodes[p].chain
<1>1. /\ c \in Seq(DOMAIN doc.nodes) /\ L \in Nat \ {0} /\ c[L] = n
      /\ L > 1 => SubSeq(c, 1, L - 1) = d
  BY DEF TreeInv, ChainOf
<1>2. L > 1 => /\ Len(d) = L - 1 /\ p \in DOMAIN doc.nodes
               /\ \A j \in 1 .. L - 1 : d[j] = c[j]
  BY <1>1, Prefix, BeforeLast
<1>3. Xml!Parent(doc, n) = IF L = 1 THEN 0 ELSE p
  BY DEF Xml!Parent
<1>4. n \in AtPath(path, k) <=>
          /\ L = k + 1 /\ c[1] = doc.root
          /\ \A j \in 1 .. k : doc.nodes[c[j + 1]].name = path[j]
  BY DEF AtPath
<1>5. L > 1 => (p \in AtPath(path, k - 1) <=>
          /\ Len(d) = k - 1 + 1 /\ d[1] = doc.root
          /\ \A j \in 1 .. k - 1 : doc.nodes[d[j + 1]].name = path[j])
  BY <1>2 DEF AtPath
<1>6. L = 1 => Xml!Parent(doc, n) \notin AtPath(path, k - 1)
  BY <1>0, <1>3 DEF AtPath
<1>. HIDE DEF c, L, p, d
<1>7. CASE L # k + 1
  <2>1. n \notin AtPath(path, k)
    BY <1>4, <1>7
  <2>2. Xml!Parent(doc, n) \notin AtPath(path, k - 1)
    BY <1>1, <1>2, <1>3, <1>5, <1>6, <1>7
  <2>. QED
    BY <2>1, <2>2
<1>8. CASE L = k + 1
  <2>1. L > 1 /\ L # 1 /\ L - 1 = k /\ k - 1 + 1 = k
    BY <1>8
  <2>2. Len(d) = k - 1 + 1 /\ \A j \in 1 .. k : d[j] = c[j]
    BY <1>2, <2>1
  <2>3. d[1] = c[1] /\ \A j \in 1 .. k - 1 : d[j + 1] = c[j + 1]
    BY <2>2
  <2>4. c[k + 1] = n
    BY <1>1, <1>8
  <2>5. \A j \in 1 .. k : j = k \/ j \in 1 .. k - 1
    OBVIOUS
  <2>6. k \in 1 .. k /\ \A j \in 1 .. k - 1 : j \in 1 .. k
    OBVIOUS
  <2>7. (\A j \in 1 .. k : doc.nodes[c[j + 1]].name = path[j]) <=>
            /\ doc.nodes[n].name = path[k]
            /\ \A j \in 1 .. k - 1 : doc.nodes[d[j + 1]].name = path[j]
    BY <2>3, <2>4, <2>5, <2>6
  <2>. QED
    BY <1>3, <1>4, <1>5, <1>8, <2>1, <2>2, <2>3, <2>7
<1>. QED
  BY <1>7, <1>8

(* The loop over the whole path ends at its nodes.                         *)
LEMMA ReachedAtPath ==
    ASSUME XmlInv, TreeInv, doc.root # 0, NEW path, Len(path) \in Nat
    PROVE  Xml!Reached(doc, path)[Len(path)] = AtPath(path, Len(path))
<1>. DEFINE m == Len(path)
            R == Xml!Reached(doc, path)
            T == {n \in Nat : n <= m => R[n] = AtPath(path, n)}
<1>0. \A k \in 0 .. m :
          R[k] = IF k = 0 THEN {doc.root} ELSE Xml!Children(doc, R[k - 1], path[k])
  BY ReachedStepByStep
<1>. HIDE DEF R
<1>1. 0 \in T
  <2>1. R[0] = {doc.root}
    BY <1>0
  <2>2. ASSUME NEW n \in AtPath(path, 0) PROVE n = doc.root
    BY <2>2 DEF AtPath, TreeInv, ChainOf
  <2>3. doc.root \in AtPath(path, 0)
    <3>1. /\ doc.root \in DOMAIN doc.nodes
          /\ Len(doc.nodes[doc.root].chain) = 1
          /\ doc.nodes[doc.root].chain[1] = doc.root
      BY DEF XmlInv, TreeInv, ChainOf
    <3>. QED
      BY <3>1 DEF AtPath
  <2>. QED
    BY <2>1, <2>2, <2>3
<1>2. ASSUME NEW n \in Nat, n \in T PROVE n + 1 \in T
  <2>. SUFFICES ASSUME n + 1 <= m
                PROVE  R[n + 1] = AtPath(path, n + 1)
    OBVIOUS
  <2>1. n <= m /\ n + 1 \in 0 .. m /\ n + 1 # 0 /\ n + 1 - 1 = n
        /\ n + 1 \in Nat \ {0}
    OBVIOUS
  <2>2. R[n] = AtPath(path, n)
    BY <1>2, <2>1
  <2>3. R[n + 1]
          = Xml!Children(doc, R[n], path[n + 1])
    BY <1>0, <2>1
  <2>. QED
    BY <2>1, <2>2, <2>3, ChildrenAtPath
<1>. HIDE DEF T
<1>3. Nat \subseteq T
  BY <1>1, <1>2, AllNumbers
<1>. QED
  BY <1>3 DEF T, R

(* What a path resolves to is the elements whose names are those of it.    *)
LEMMA ResolvedInPath ==
    ASSUME XmlInv, TreeInv, doc.root # 0,
           NEW segments \in Seq(STRING) \ {<<>>}
    PROVE  Xml!Resolve(doc, segments) = Xml!InPath(doc, segments)
<1>. DEFINE path == Xml!Below(doc, segments)
            m == Len(path)
            S == Names \cup STRING
<1>1. path \in Seq(STRING)
  BY HeadTailProperties DEF Xml!Below
<1>. HIDE DEF path
<1>2. path \in Seq(S) /\ m \in Nat
  BY <1>1, SeqMonotonic
<1>3. Xml!Resolve(doc, segments) = AtPath(path, m)
  BY <1>2, ReachedAtPath DEF Xml!Resolve, path
<1>4. ASSUME NEW n \in DOMAIN doc.nodes
      PROVE  n \in AtPath(path, m) <=>
                 /\ Head(doc.nodes[n].chain) = doc.root
                 /\ Tail(Xml!NamesOf(doc, n)) = path
  <2>. DEFINE c == doc.nodes[n].chain
              names == Xml!NamesOf(doc, n)
              L == Len(c)
              T == Tail(names)
  <2>1. c \in Seq(DOMAIN doc.nodes) /\ L \in Nat \ {0}
    BY DEF TreeInv, ChainOf
  <2>2. /\ DOMAIN c = 1 .. L /\ Head(c) = c[1]
        /\ \A j \in 1 .. L : c[j] \in DOMAIN doc.nodes
    BY <2>1
  <2>3. names = [j \in 1 .. L |-> doc.nodes[c[j]].name]
    BY <2>2 DEF Xml!NamesOf
  <2>4. doc.nodes \in Seq(Node) /\ \A i \in DOMAIN doc.nodes : doc.nodes[i].name \in S
    <3>1. doc.nodes \in Seq(Node)
      BY DEF XmlInv, Document
    <3>2. \A i \in DOMAIN doc.nodes : doc.nodes[i] \in Node
      BY <3>1
    <3>. QED
      BY <3>1, <3>2 DEF Node
  <2>. HIDE DEF c, L, names, S
  <2>5. /\ names \in Seq(S) /\ Len(names) = L
        /\ \A j \in 1 .. L : names[j] = doc.nodes[c[j]].name
    <3>1. \A j \in 1 .. L : doc.nodes[c[j]].name \in S
      BY <2>2, <2>4
    <3>2. names \in [1 .. L -> S] /\ L \in Nat
      BY <2>1, <2>3, <3>1
    <3>3. names \in Seq(S)
      BY <3>2, SeqDef
    <3>. QED
      BY <2>3, <3>2, <3>3
  <2>6. /\ T \in Seq(S) /\ Len(T) = L - 1
        /\ \A j \in 1 .. L - 1 : T[j] = doc.nodes[c[j + 1]].name
    <3>1. names # <<>>
      BY <2>1, <2>5
    <3>2. \A j \in 1 .. L - 1 : j + 1 \in 1 .. L
      BY <2>1
    <3>. HIDE DEF T
    <3>. QED
      BY <2>5, <3>1, <3>2, HeadTailProperties DEF T
  <2>. HIDE DEF T
  <2>7. n \in AtPath(path, m) <=>
            /\ L = m + 1 /\ c[1] = doc.root
            /\ \A j \in 1 .. m : doc.nodes[c[j + 1]].name = path[j]
    BY DEF AtPath, c, L
  <2>8. T = path <=> L = m + 1
                     /\ \A j \in 1 .. m : doc.nodes[c[j + 1]].name = path[j]
    <3>1. CASE L # m + 1
      BY <1>2, <2>1, <2>6, <3>1
    <3>2. CASE L = m + 1
      <4>1. L - 1 = m
        BY <1>2, <3>2
      <4>2. (\A j \in 1 .. m : T[j] = path[j]) => T = path
        <5>. HIDE DEF m
        <5>. QED
          BY <1>2, <2>6, <4>1, SeqEqual DEF m
      <4>. QED
        BY <2>6, <3>2, <4>1, <4>2
    <3>. QED
      BY <3>1, <3>2
  <2>. QED
    BY <2>2, <2>7, <2>8 DEF T, names, c
<1>. QED
  BY <1>3, <1>4 DEF Xml!InPath, AtPath, path

(* Whatever the document and the fields, however deep: a column has the    *)
(* text or the attribute of the first element of its own path, a number if *)
(* it is to be one, or all the elements of the path, and of no other       *)
(* (xml_reader.go:100-225, 283-326).                                       *)
THEOREM FieldsFollow == Spec => []FieldsFollowTheirPath
<1>1. XmlInv /\ TreeInv => FieldsFollowTheirPath
  <2>. SUFFICES ASSUME XmlInv, TreeInv, ~Xml!Refused(doc), NEW f \in Fields,
                       NEW found, found = Xml!InPath(doc, f.segments)
                PROVE  LET first == Xml!FirstOf(found)
                       IN /\ f \in DOMAIN Xml!Row(doc) => found # {}
                          /\ f.type = "scalar" /\ f \in DOMAIN Xml!Row(doc) =>
                                /\ Xml!Row(doc)[f] = Xml!Raw(doc, first, f.attr)
                                /\ Xml!ToSet(Xml!Row(doc)[f]) \subseteq Values
                          /\ f.type = "json" /\ found # {} =>
                                f \in DOMAIN Xml!Row(doc) /\ DOMAIN Xml!Row(doc)[f] = found
    BY DEF FieldsFollowTheirPath, Xml!FieldsFollowTheirPath
  <2>1. f.segments \in Seq(STRING) \ {<<>>}
    BY ReadersAssumption DEF Xml!XmlAssumption
  <2>2. found = Xml!Resolve(doc, f.segments)
    BY <2>1, ResolvedInPath DEF Xml!Refused
  <2>3. /\ f \in DOMAIN Xml!Row(doc) <=> Xml!HasValue(doc, f)
        /\ Xml!HasValue(doc, f) => Xml!Row(doc)[f] = Xml!ValueOf(doc, f)
    BY DEF Xml!Row
  <2>. DEFINE raw == Xml!Raw(doc, Xml!FirstOf(found), f.attr)
              keeps == Xml!KeepsNodes(f, found)
  <2>4. /\ Xml!HasValue(doc, f) <=>
               found # {} /\ (keeps \/ Xml!Parses(f.type, raw))
        /\ Xml!ValueOf(doc, f) = IF keeps THEN Xml!Marshal(doc, found, f.attr) ELSE raw
    BY <2>2 DEF Xml!HasValue, Xml!ValueOf
  <2>5. /\ f.type = "scalar" => ~keeps
        /\ f.type = "json" => keeps
    BY DEF Xml!KeepsNodes
  <2>6. f.type = "scalar" /\ Xml!Parses(f.type, raw) => Xml!ToSet(raw) \subseteq Values
    BY DEF Xml!Parses
  <2>7. DOMAIN Xml!Marshal(doc, found, f.attr) = found
    BY DEF Xml!Marshal
  <2>. HIDE DEF raw, keeps
  <2>. QED
    BY <2>3, <2>4, <2>5, <2>6, <2>7 DEF raw
<1>. QED
  BY <1>1, XmlTree, PTL
=============================================================================
