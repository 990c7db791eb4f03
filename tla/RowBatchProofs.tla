--------------------------- MODULE RowBatchProofs ---------------------------
(***************************************************************************)
(* Proofs about RowBatch, for every table, file, batch size and limit on   *)
(* parameters: no INSERT is too large or, where keys print as they         *)
(* compare, refused, do_nothing stores every key, in the order of the      *)
(* batches, and under do_update batching changes nothing.                  *)
(***************************************************************************)
EXTENDS RowBatchProperties, WellFoundedInduction, FiniteSetTheorems, TLAPS

-----------------------------------------------------------------------------
(* Numbers.                                                                *)

(* A set of naturals that is not empty has a least one. *)
LEMMA Least ==
    ASSUME NEW S \in SUBSET Nat, S # {}
    PROVE  \E m \in S : \A n \in S : m <= n
<1>. DEFINE Below(n) == 0 .. (n - 1)
            T == {Below(n) : n \in S}
<1>1. T \subseteq FiniteSubsetsOf(Nat) /\ T # {}
  <2>1. \A n \in S : Below(n) \in SUBSET Nat /\ IsFiniteSet(Below(n))
    BY FS_Interval
  <2>. QED
    BY <2>1 DEF FiniteSubsetsOf
<1>. HIDE DEF T
<1>2. \E x \in T : \A y \in T : <<y, x>> \notin StrictSubsetOrdering(Nat)
  BY <1>1, WFMin, FS_StrictSubsetOrderingWellFounded, Zenon
<1>3. PICK m \in S : \A y \in T : <<y, Below(m)>> \notin StrictSubsetOrdering(Nat)
  BY <1>2 DEF T
<1>4. \A n \in S : ~ (n < m)
  <2>. SUFFICES ASSUME NEW n \in S, n < m PROVE FALSE
    OBVIOUS
  <2>1. Below(n) \subseteq Below(m) /\ n \in Below(m) /\ n \notin Below(n)
    OBVIOUS
  <2>2. Below(n) \in SUBSET Nat /\ Below(m) \in SUBSET Nat
    OBVIOUS
  <2>3. <<Below(n), Below(m)>> \in StrictSubsetOrdering(Nat)
    BY <2>1, <2>2 DEF StrictSubsetOrdering
  <2>. QED
    BY <1>3, <2>3 DEF T
<1>. QED
  BY <1>4

(* effectiveBatchSize: as many rows as the limit on parameters has room    *)
(* for, at least one, and never more than configured.                      *)
LEMMA BatchFits ==
    ASSUME NEW w \in Nat \ {0}, w <= MaxParameters
    PROVE  /\ EffectiveBatchSize(w) \in Nat \ {0}
           /\ EffectiveBatchSize(w) <= BatchSize
           /\ \A n \in Nat : n <= EffectiveBatchSize(w) => n * w <= MaxParameters
<1>. DEFINE q == MaxParameters \div w
<1>1. MaxParameters \in Nat /\ BatchSize \in Nat \ {0}
  BY RowBatchAssumption
<1>2. q \in Nat /\ q * w <= MaxParameters /\ q # 0
  BY <1>1
<1>. HIDE DEF q
<1>3. EffectiveBatchSize(w) = IF BatchSize < q THEN BatchSize ELSE q
  BY <1>2 DEF EffectiveBatchSize, q
<1>4. EffectiveBatchSize(w) \in Nat \ {0} /\ EffectiveBatchSize(w) <= q
  BY <1>1, <1>2, <1>3
<1>5. ASSUME NEW n \in Nat, n <= q
      PROVE  n * w <= MaxParameters
  <2>1. n * w <= q * w
    BY <1>2, <1>5
  <2>. QED
    BY <1>1, <1>2, <2>1
<1>. QED
  BY <1>1, <1>2, <1>3, <1>4, <1>5

(* A row has a parameter at least, and not more than a statement may have. *)
LEMMA WidthFits ==
    ASSUME NEW cs \in ColumnSets \cup {{}}
    PROVE  Width(cs) \in Nat \ {0} /\ Width(cs) <= MaxParameters
<1>1. /\ cs \in SUBSET Columns /\ IsFiniteSet(Columns)
      /\ MaxParameters \in Nat
      /\ FixedColumns + Cardinality(Columns) <= MaxParameters
  BY RowBatchAssumption
<1>2. Cardinality(cs) \in Nat /\ Cardinality(cs) <= Cardinality(Columns)
      /\ Cardinality(Columns) \in Nat
  BY <1>1, FS_Subset, FS_CardinalityType
<1>. QED
  BY <1>1, <1>2 DEF Width, FixedColumns

-----------------------------------------------------------------------------
(* INSERT.                                                                 *)

Waiter == [sig : Signatures, row : Nat \ {0}]

Table == [Keys -> StoredRow \cup {Absent}]

(* The row INSERT takes for a key is one of the key's; under do_update it  *)
(* is the newest.                                                          *)
LEMMA WinnerWaits ==
    ASSUME NEW b \in Seq(Waiter), NEW n \in Nat,
           \A i \in DOMAIN b : b[i].row <= n,
           NEW k, Waiting(b, k) # {}
    PROVE  /\ Winner(b, k) \in Waiting(b, k)
           /\ DoUpdate => \A j \in Waiting(b, k) : b[j].row <= b[Winner(b, k)].row
<1>. DEFINE W == Waiting(b, k)
            Wins(i) == \A j \in W :
                          IF DoUpdate THEN b[j].row <= b[i].row ELSE i <= j
<1>1. W \subseteq DOMAIN b /\ W \subseteq Nat
  BY DEF Waiting
<1>2. \A i \in W : b[i].row \in Nat /\ b[i].row <= n
  <2>1. \A i \in DOMAIN b : b[i] \in Waiter
    OBVIOUS
  <2>. QED
    BY <1>1, <2>1 DEF Waiter
<1>. HIDE DEF W
<1>3. \E i \in W : Wins(i)
  <2>1. CASE ~DoUpdate
    BY <2>1, <1>1, Least DEF W
  <2>2. CASE DoUpdate
    <3>. DEFINE S == {n - b[i].row : i \in W}
    <3>1. S \in SUBSET Nat /\ S # {}
      BY <1>2 DEF W
    <3>2. PICK m \in S : \A s \in S : m <= s
      BY <3>1, Least, Zenon
    <3>3. PICK i \in W : m = n - b[i].row
      BY <3>2
    <3>4. \A j \in W : n - b[i].row <= n - b[j].row
      BY <3>2, <3>3
    <3>5. \A j \in W : b[j].row <= b[i].row
      BY <3>4, <1>2
    <3>. QED
      BY <3>5, <2>2
  <2>. QED
    BY <2>1, <2>2
<1>4. Winner(b, k) = CHOOSE i \in W : Wins(i)
  BY DEF Winner, W
<1>5. Winner(b, k) \in W /\ Wins(Winner(b, k))
  BY <1>3, <1>4
<1>. QED
  BY <1>5 DEF W

(* INSERT keeps the table's type. *)
LEMMA InsertTyped ==
    ASSUME NEW b \in Seq(Waiter), NEW n \in Nat,
           \A i \in DOMAIN b : b[i].row <= n,
           NEW t \in Table, NEW cs
    PROVE  Insert(t, b, cs) \in Table /\ Affected(t, b) \in Nat
<1>1. ASSUME NEW k \in Keys, Waiting(b, k) # {}
      PROVE  Stored(t[k], cs, b[Winner(b, k)].row) \in StoredRow
  <2>1. Winner(b, k) \in DOMAIN b
    BY <1>1, WinnerWaits DEF Waiting
  <2>2. b[Winner(b, k)] \in Waiter
    BY <2>1
  <2>3. t[k] = Absent \/ t[k] \in [Columns -> Nat]
    BY DEF Table, StoredRow
  <2>. QED
    BY <2>2, <2>3 DEF Stored, StoredRow, Waiter
<1>2. Insert(t, b, cs) \in Table
  BY <1>1 DEF Insert, Table
<1>3. Affected(t, b) \in Nat
  <2>. DEFINE new == {k \in Keys : Waiting(b, k) # {} /\ t[k] = Absent}
              hit == {KeyOf[b[i].sig] : i \in DOMAIN b}
  <2>1. IsFiniteSet(hit)
    <3>1. Len(b) \in Nat /\ DOMAIN b = 1 .. Len(b)
      OBVIOUS
    <3>2. IsFiniteSet(DOMAIN b)
      BY <3>1, FS_Interval
    <3>. DEFINE f == [i \in DOMAIN b |-> KeyOf[b[i].sig]]
    <3>3. f \in Surjection(DOMAIN b, hit)
      BY DEF Surjection
    <3>. QED
      BY <3>2, <3>3, FS_Surjection
  <2>2. new \subseteq hit
    BY DEF Waiting
  <2>3. Cardinality(new) \in Nat
    BY <2>1, <2>2, FS_Subset, FS_CardinalityType
  <2>4. Affected(t, b) = IF DoUpdate THEN Len(b) ELSE Cardinality(new)
    BY DEF Affected
  <2>. QED
    BY <2>3, <2>4
<1>. QED
  BY <1>2, <1>3

(* A batch without rows changes nothing. *)
LEMMA InsertNothing ==
    ASSUME NEW t \in Table, NEW cs
    PROVE  Insert(t, <<>>, cs) = t
  BY DEF Insert, Waiting, Table

-----------------------------------------------------------------------------
(* Types, the limit on parameters and the keys of a batch.                 *)

Tx == [table : Table, inserted : Nat, params : Nat]

(* The rows that wait are numbered as they were delivered, up to n. *)
Numbered(b, n) ==
    /\ \A i \in DOMAIN b : b[i].row <= n
    /\ \A i, j \in DOMAIN b : b[i].row = b[j].row => i = j

(* With a primary key, no two rows that wait print the same key. *)
KeysDistinct(b) ==
    HasPrimaryKey => \A i, j \in DOMAIN b : b[i].sig = b[j].sig => i = j

(* A batch that waits has room for a row. *)
HasRoom == batch # <<>> =>
    cols \in ColumnSets /\ Len(batch) < EffectiveBatchSize(Width(cols))

BatchInv ==
    /\ VarsTyped
    /\ Numbered(batch, Len(rows))
    /\ KeysDistinct(batch)
    /\ HasRoom
    /\ tx.params <= MaxParameters

(* What is sent is not too large, and leaves a well-typed transaction. *)
LEMMA SentTyped ==
    ASSUME NEW t \in Tx, t.params <= MaxParameters,
           NEW b \in Seq(Waiter), NEW n \in Nat, Numbered(b, n),
           NEW cs \in ColumnSets \cup {{}},
           b # <<>> => Len(b) <= EffectiveBatchSize(Width(cs))
    PROVE  /\ Sent(t, b, cs) \in Tx
           /\ Sent(t, b, cs).params <= MaxParameters
           /\ Len(b) * Width(cs) <= MaxParameters
<1>0. MaxParameters \in Nat
  BY RowBatchAssumption
<1>1. /\ Width(cs) \in Nat \ {0} /\ Width(cs) <= MaxParameters
      /\ Len(b) \in Nat
  BY WidthFits
<1>2. Len(b) * Width(cs) \in Nat /\ Len(b) * Width(cs) <= MaxParameters
  <2>1. CASE b = <<>>
    <3>1. Len(b) = 0
      BY <2>1
    <3>. QED
      BY <3>1, <1>0, <1>1
  <2>2. CASE b # <<>>
    BY <2>2, <1>1, BatchFits
  <2>. QED
    BY <2>1, <2>2
<1>3. /\ t.table \in Table /\ t.inserted \in Nat /\ t.params \in Nat
  BY DEF Tx
<1>4. Insert(t.table, b, cs) \in Table /\ Affected(t.table, b) \in Nat
  BY <1>3, InsertTyped DEF Numbered
<1>5. \E p \in Nat : /\ p <= MaxParameters
                     /\ Sent(t, b, cs) =
                          [table |-> Insert(t.table, b, cs),
                           inserted |-> t.inserted + Affected(t.table, b),
                           params |-> p]
  BY <1>2, <1>3 DEF Sent
<1>6. t.inserted + Affected(t.table, b) \in Nat
  BY <1>3, <1>4
<1>. QED
  BY <1>2, <1>4, <1>5, <1>6 DEF Tx

(* A row that has joined a batch with room waits in it, or has been sent   *)
(* with it.                                                                *)
LEMMA Queued ==
    ASSUME NEW t \in Tx, t.params <= MaxParameters,
           NEW b \in Seq(Waiter), NEW n \in Nat, Numbered(b, n),
           NEW cs \in ColumnSets,
           Len(b) <= EffectiveBatchSize(Width(cs)),
           Queue(t, b, cs)
    PROVE  /\ tx' \in Tx /\ tx'.params <= MaxParameters
           /\ \/ batch' = <<>>
              \/ batch' = b /\ Len(b) < EffectiveBatchSize(Width(cs))
<1>1. Sent(t, b, cs) \in Tx /\ Sent(t, b, cs).params <= MaxParameters
  BY SentTyped
<1>2. Width(cs) \in Nat \ {0} /\ Width(cs) <= MaxParameters
  BY WidthFits
<1>3. Len(b) \in Nat /\ EffectiveBatchSize(Width(cs)) \in Nat
  BY <1>2, BatchFits
<1>. QED
  BY <1>1, <1>3 DEF Queue, IsFull

(* The row delivered is a waiter numbered after all others. *)
LEMMA NewRowTyped ==
    ASSUME VarsTyped, NEW sig \in Signatures
    PROVE  /\ NewRow(sig) \in Waiter
           /\ NewRow(sig).sig = sig /\ NewRow(sig).row = Len(rows) + 1
           /\ Len(rows) \in Nat
  BY DEF VarsTyped, NewRow, Waiter

(* A row added to a batch, or put in the place of the row of its key.      *)
LEMMA RowAdded ==
    ASSUME NEW b \in Seq(Waiter), NEW n \in Nat, Numbered(b, n),
           NEW r \in Waiter, r.row = n + 1
    PROVE  /\ Append(b, r) \in Seq(Waiter)
           /\ Len(Append(b, r)) = Len(b) + 1
           /\ Numbered(Append(b, r), n + 1)
           /\ KeysDistinct(b) /\ (HasPrimaryKey => \A i \in DOMAIN b : b[i].sig # r.sig)
                => KeysDistinct(Append(b, r))
           /\ \A i \in DOMAIN b :
                LET c == [b EXCEPT ![i] = r] IN
                /\ c \in Seq(Waiter) /\ Len(c) = Len(b) /\ DOMAIN c = DOMAIN b
                /\ Numbered(c, n + 1)
                /\ KeysDistinct(b) /\ b[i].sig = r.sig => KeysDistinct(c)
<1>1. \A i \in DOMAIN b : b[i] \in Waiter /\ b[i].row \in Nat
  <2>1. \A i \in DOMAIN b : b[i] \in Waiter
    OBVIOUS
  <2>. QED
    BY <2>1 DEF Waiter
<1>2. /\ Append(b, r) \in Seq(Waiter)
      /\ Len(Append(b, r)) = Len(b) + 1
      /\ Len(b) \in Nat
      /\ DOMAIN b = 1 .. Len(b) /\ DOMAIN Append(b, r) = 1 .. (Len(b) + 1)
      /\ \A i \in DOMAIN b : Append(b, r)[i] = b[i]
      /\ Append(b, r)[Len(b) + 1] = r
  OBVIOUS
<1>. DEFINE a == Append(b, r)
<1>. HIDE DEF a
<1>3. Numbered(a, n + 1)
  <2>1. \A i \in DOMAIN a : i \in DOMAIN b \/ i = Len(b) + 1
    BY <1>2 DEF a
  <2>2. \A i \in DOMAIN b : a[i].row = b[i].row /\ b[i].row <= n
    BY <1>2 DEF a, Numbered
  <2>3. a[Len(b) + 1].row = n + 1
    BY <1>2 DEF a
  <2>. QED
    BY <2>1, <2>2, <2>3, <1>1 DEF Numbered
<1>4. ASSUME KeysDistinct(b), HasPrimaryKey => \A i \in DOMAIN b : b[i].sig # r.sig
      PROVE  KeysDistinct(a)
  <2>1. \A i \in DOMAIN a : i \in DOMAIN b \/ i = Len(b) + 1
    BY <1>2 DEF a
  <2>2. \A i \in DOMAIN b : a[i].sig = b[i].sig
    BY <1>2 DEF a
  <2>3. a[Len(b) + 1].sig = r.sig
    BY <1>2 DEF a
  <2>. QED
    BY <2>1, <2>2, <2>3, <1>4 DEF KeysDistinct
<1>5. ASSUME NEW i \in DOMAIN b
      PROVE  LET c == [b EXCEPT ![i] = r] IN
             /\ c \in Seq(Waiter) /\ Len(c) = Len(b) /\ DOMAIN c = DOMAIN b
             /\ Numbered(c, n + 1)
             /\ KeysDistinct(b) /\ b[i].sig = r.sig => KeysDistinct(c)
  <2>. DEFINE c == [b EXCEPT ![i] = r]
  <2>1. c \in Seq(Waiter) /\ Len(c) = Len(b) /\ DOMAIN c = DOMAIN b
    OBVIOUS
  <2>2. c[i] = r /\ \A j \in DOMAIN b : j # i => c[j] = b[j]
    OBVIOUS
  <2>. HIDE DEF c
  <2>3. Numbered(c, n + 1)
    BY <2>1, <2>2, <1>1 DEF Numbered
  <2>4. KeysDistinct(b) /\ b[i].sig = r.sig => KeysDistinct(c)
    BY <2>1, <2>2 DEF KeysDistinct
  <2>. QED
    BY <2>1, <2>3, <2>4 DEF c
<1>. QED
  BY <1>2, <1>3, <1>4, <1>5 DEF a

(* A row of no batch: the first of a new one. *)
LEMMA RowAlone ==
    ASSUME NEW n \in Nat, NEW r \in Waiter, r.row = n + 1
    PROVE  /\ <<r>> \in Seq(Waiter) /\ Len(<<r>>) = 1
           /\ Numbered(<<r>>, n + 1) /\ KeysDistinct(<<r>>)
<1>1. r.row \in Nat
  BY DEF Waiter
<1>. QED
  BY <1>1 DEF Numbered, KeysDistinct

LEMMA BatchInit == Init => BatchInv
<1>. SUFFICES ASSUME Init PROVE BatchInv
  OBVIOUS
<1>. USE DEF Init
<1>1. base \in Table
  BY RowBatchAssumption DEF Table
<1>2. VarsTyped
  <2>1. tx \in [table : Table, inserted : Nat, params : Nat]
    BY <1>1
  <2>2. rows \in Seq([sig : Signatures, cols : ColumnSets])
        /\ batch \in Seq([sig : Signatures, row : Nat \ {0}])
    OBVIOUS
  <2>3. latest \in 0 .. Len(rows)
    OBVIOUS
  <2>. QED
    BY <1>1, <2>1, <2>2, <2>3 DEF VarsTyped, Table
<1>3. tx.params <= MaxParameters
  BY RowBatchAssumption
<1>. QED
  BY <1>2, <1>3 DEF BatchInv, Numbered, KeysDistinct, HasRoom

(* A batch that waits is not too large to be sent. *)
LEMMA RoomLeft ==
    ASSUME BatchInv
    PROVE  batch # <<>> => Len(batch) <= EffectiveBatchSize(Width(cols))
<1>. SUFFICES ASSUME batch # <<>>
              PROVE  Len(batch) <= EffectiveBatchSize(Width(cols))
  OBVIOUS
<1>1. cols \in ColumnSets /\ Len(batch) < EffectiveBatchSize(Width(cols))
  BY DEF BatchInv, HasRoom
<1>2. Width(cols) \in Nat \ {0} /\ Width(cols) <= MaxParameters
  BY <1>1, WidthFits
<1>3. EffectiveBatchSize(Width(cols)) \in Nat /\ Len(batch) \in Nat
  BY <1>2, BatchFits DEF BatchInv, VarsTyped
<1>. QED
  BY <1>1, <1>3

(* The steps that deliver a row. *)
LEMMA DeliverKeeps ==
    ASSUME BatchInv, NEW sig \in Signatures, NEW cs \in ColumnSets,
           Replace(sig, cs) \/ Join(sig, cs) \/ StartBatch(sig, cs)
    PROVE  BatchInv'
<1>. DEFINE n == Len(rows)
            r == NewRow(sig)
<1>1. /\ VarsTyped /\ Numbered(batch, n) /\ KeysDistinct(batch) /\ HasRoom
      /\ tx.params <= MaxParameters
  BY DEF BatchInv
<1>2. r \in Waiter /\ r.sig = sig /\ r.row = n + 1 /\ n \in Nat
  BY <1>1, NewRowTyped
<1>3. /\ batch \in Seq(Waiter) /\ tx \in Tx /\ cols \in ColumnSets \cup {{}}
      /\ base \in Table /\ status = "reading" /\ latest \in 0 .. n
      /\ rows \in Seq([sig : Signatures, cols : ColumnSets])
  BY <1>1 DEF VarsTyped, Waiter, Tx, Table, Replace, Join, StartBatch, Delivered
<1>4. /\ rows' \in Seq([sig : Signatures, cols : ColumnSets])
      /\ Len(rows') = n + 1 /\ base' = base /\ status' = status
  <2>1. rows' = Append(rows, [sig |-> sig, cols |-> cs])
        /\ base' = base /\ status' = status
    BY DEF Replace, Join, StartBatch, Delivered
  <2>. QED
    BY <1>3, <2>1
<1>. HIDE DEF n, r
<1>5. Width(cs) \in Nat \ {0} /\ Width(cs) <= MaxParameters
  BY WidthFits
<1>6. EffectiveBatchSize(Width(cs)) \in Nat \ {0}
  BY <1>5, BatchFits
<1>7. SUFFICES /\ tx' \in Tx /\ tx'.params <= MaxParameters
               /\ batch' \in Seq(Waiter)
               /\ Numbered(batch', n + 1) /\ KeysDistinct(batch')
               /\ cols' \in ColumnSets
               /\ batch' # <<>> => Len(batch') < EffectiveBatchSize(Width(cols'))
               /\ latest' \in 0 .. (n + 1)
  <2>1. VarsTyped'
    BY <1>3, <1>4, <1>7 DEF VarsTyped, Tx, Table, Waiter
  <2>2. HasRoom'
    BY <1>7 DEF HasRoom
  <2>3. Numbered(batch', Len(rows')) /\ KeysDistinct(batch)'
    BY <1>4, <1>7 DEF KeysDistinct
  <2>. QED
    BY <2>1, <2>2, <2>3, <1>7 DEF BatchInv, Numbered
<1>8. ASSUME NEW b \in Seq(Waiter), NEW t \in Tx, t.params <= MaxParameters,
             Numbered(b, n + 1), KeysDistinct(b),
             Len(b) <= EffectiveBatchSize(Width(cs)),
             Queue(t, b, cs), cols' = cs
      PROVE  /\ tx' \in Tx /\ tx'.params <= MaxParameters
             /\ batch' \in Seq(Waiter)
             /\ Numbered(batch', n + 1) /\ KeysDistinct(batch')
             /\ cols' \in ColumnSets
             /\ batch' # <<>> => Len(batch') < EffectiveBatchSize(Width(cols'))
  <2>1. n + 1 \in Nat
    BY <1>2
  <2>2. /\ tx' \in Tx /\ tx'.params <= MaxParameters
        /\ \/ batch' = <<>>
           \/ batch' = b /\ Len(b) < EffectiveBatchSize(Width(cs))
    BY <1>8, <2>1, Queued
  <2>3. Numbered(<<>>, n + 1) /\ KeysDistinct(<<>>) /\ <<>> \in Seq(Waiter)
    BY DEF Numbered, KeysDistinct
  <2>. QED
    BY <1>8, <2>2, <2>3
<1>9. CASE Replace(sig, cs)
  <2>0. \A i \in DOMAIN batch :
            LET c == [batch EXCEPT ![i] = r] IN
            /\ c \in Seq(Waiter) /\ Len(c) = Len(batch) /\ DOMAIN c = DOMAIN batch
            /\ Numbered(c, n + 1)
            /\ KeysDistinct(batch) /\ batch[i].sig = r.sig => KeysDistinct(c)
    BY <1>1, <1>2, <1>3, RowAdded
  <2>. USE <1>9 DEF Replace
  <2>1. PICK i \in SameKey(sig) : batch' = [batch EXCEPT ![i] = r]
    BY DEF r
  <2>2. i \in DOMAIN batch /\ batch[i].sig = r.sig
    BY <2>1, <1>2 DEF SameKey
  <2>3. /\ batch' \in Seq(Waiter) /\ Len(batch') = Len(batch)
        /\ Numbered(batch', n + 1) /\ KeysDistinct(batch')
    BY <1>1, <2>0, <2>1, <2>2
  <2>4. batch # <<>> /\ cols = cs /\ cols' = cols /\ tx' = tx /\ latest' = latest
    BY DEF Joins
  <2>5. Len(batch') < EffectiveBatchSize(Width(cols')) /\ cols' \in ColumnSets
    BY <1>1, <2>3, <2>4 DEF HasRoom
  <2>6. latest' \in 0 .. (n + 1)
    BY <1>2, <1>3, <2>4
  <2>. QED
    BY <1>1, <1>3, <2>3, <2>4, <2>5, <2>6
<1>10. CASE Join(sig, cs)
  <2>. USE <1>10 DEF Join
  <2>1. Queue(tx, Append(batch, r), cs) /\ cols' = cols /\ latest' = Len(rows')
    BY DEF r
  <2>2. batch # <<>> /\ cols = cs
    BY DEF Joins
  <2>3. HasPrimaryKey => \A i \in DOMAIN batch : batch[i].sig # r.sig
    BY <1>2 DEF SameKey
  <2>4. /\ Append(batch, r) \in Seq(Waiter)
        /\ Len(Append(batch, r)) = Len(batch) + 1
        /\ Numbered(Append(batch, r), n + 1)
        /\ KeysDistinct(Append(batch, r))
    BY <1>1, <1>2, <1>3, <2>3, RowAdded
  <2>5. Len(Append(batch, r)) <= EffectiveBatchSize(Width(cs))
    <3>1. Len(batch) \in Nat /\ Len(batch) < EffectiveBatchSize(Width(cs))
      BY <1>1, <1>3, <2>2 DEF HasRoom
    <3>. QED
      BY <3>1, <2>4, <1>6
  <2>6. latest' \in 0 .. (n + 1)
    BY <1>2, <1>4, <2>1
  <2>. QED
    BY <1>1, <1>3, <1>8, <2>1, <2>2, <2>4, <2>5, <2>6
<1>11. CASE StartBatch(sig, cs)
  <2>. USE <1>11 DEF StartBatch
  <2>. DEFINE t == Sent(tx, batch, cols)
  <2>1. Queue(t, <<r>>, cs) /\ cols' = cs /\ latest' = Len(rows')
    BY DEF r
  <2>2. t \in Tx /\ t.params <= MaxParameters
    <3>1. batch # <<>> => Len(batch) <= EffectiveBatchSize(Width(cols))
      BY RoomLeft
    <3>. QED
      BY <3>1, <1>1, <1>2, <1>3, SentTyped
  <2>. HIDE DEF t
  <2>3. /\ <<r>> \in Seq(Waiter) /\ Len(<<r>>) = 1
        /\ Numbered(<<r>>, n + 1) /\ KeysDistinct(<<r>>)
    BY <1>2, RowAlone
  <2>4. Len(<<r>>) <= EffectiveBatchSize(Width(cs))
    BY <2>3, <1>6
  <2>5. latest' \in 0 .. (n + 1)
    BY <1>2, <1>4, <2>1
  <2>. QED
    BY <1>8, <2>1, <2>2, <2>3, <2>4, <2>5
<1>. QED
  BY <1>9, <1>10, <1>11

(* The end of the file, reached or not. *)
LEMMA EndKeeps ==
    ASSUME BatchInv, Finish \/ Fail
    PROVE  BatchInv'
<1>. USE DEF BatchInv
<1>1. /\ batch \in Seq(Waiter) /\ tx \in Tx /\ cols \in ColumnSets \cup {{}}
      /\ base \in Table /\ Len(rows) \in Nat /\ tx.params <= MaxParameters
  BY DEF VarsTyped, Waiter, Tx, Table
<1>2. batch # <<>> => Len(batch) <= EffectiveBatchSize(Width(cols))
  BY RoomLeft
<1>3. Sent(tx, batch, cols) \in Tx /\ Sent(tx, batch, cols).params <= MaxParameters
  BY <1>1, <1>2, SentTyped
<1>4. [tx EXCEPT !.table = base] \in Tx
      /\ [tx EXCEPT !.table = base].params = tx.params
  BY <1>1 DEF Tx
<1>5. tx' \in Tx /\ tx'.params <= MaxParameters
  BY <1>1, <1>3, <1>4 DEF Finish, Fail
<1>6. /\ batch' = <<>> /\ UNCHANGED <<rows, base, cols, latest>>
      /\ status' \in {"committed", "failed"}
  BY DEF Finish, Fail
<1>7. VarsTyped'
  BY <1>5, <1>6 DEF VarsTyped, Tx, Table
<1>. QED
  BY <1>5, <1>6, <1>7 DEF Numbered, KeysDistinct, HasRoom

LEMMA BatchInvariant == Spec => []BatchInv
<1>1. BatchInv /\ UNCHANGED vars => BatchInv'
  BY DEF BatchInv, VarsTyped, Numbered, KeysDistinct, HasRoom, vars
<1>2. BatchInv /\ Next => BatchInv'
  BY DeliverKeeps, EndKeeps DEF Next
<1>. QED
  BY <1>1, <1>2, BatchInit, PTL DEF Spec

(* What waits in b are rows of rs with columns cs. *)
AreRows(rs, b, cs) ==
    \A i \in DOMAIN b : /\ b[i].row \in DOMAIN rs
                        /\ rs[b[i].row] = [sig |-> b[i].sig, cols |-> cs]

LEMMA DeliverKeepsRows ==
    ASSUME BatchInv, AreRows(rows, batch, cols),
           NEW sig \in Signatures, NEW cs \in ColumnSets,
           Replace(sig, cs) \/ Join(sig, cs) \/ StartBatch(sig, cs)
    PROVE  AreRows(rows', batch', cols')
<1>. DEFINE r == NewRow(sig)
            d == [sig |-> sig, cols |-> cs]
            m == Len(rows) + 1
<1>1. VarsTyped
  BY DEF BatchInv
<1>2. r \in Waiter /\ r.sig = sig /\ r.row = m /\ Len(rows) \in Nat
  BY <1>1, NewRowTyped
<1>3. /\ batch \in Seq(Waiter)
      /\ rows \in Seq([sig : Signatures, cols : ColumnSets])
  BY <1>1 DEF VarsTyped, Waiter
<1>4. rows' = Append(rows, d)
  BY DEF Replace, Join, StartBatch, Delivered
<1>5. /\ DOMAIN rows' = DOMAIN rows \cup {m}
      /\ \A i \in DOMAIN rows : rows'[i] = rows[i]
      /\ rows'[m] = d
  BY <1>3, <1>4
<1>. HIDE DEF r, m
<1>6. CASE Replace(sig, cs)
  <2>1. PICK i \in SameKey(sig) : batch' = [batch EXCEPT ![i] = r]
    BY <1>6 DEF Replace, r
  <2>2. cols = cs /\ cols' = cols /\ i \in DOMAIN batch
    BY <1>6, <2>1 DEF Replace, Joins, SameKey
  <2>3. /\ DOMAIN batch' = DOMAIN batch /\ batch'[i] = r
        /\ \A j \in DOMAIN batch : j # i => batch'[j] = batch[j]
    BY <1>3, <2>1, <2>2
  <2>. QED
    BY <1>2, <1>5, <2>2, <2>3 DEF AreRows
<1>7. CASE Join(sig, cs)
  <2>. DEFINE c == Append(batch, r)
  <2>1. (batch' = <<>> \/ batch' = c) /\ cols' = cs /\ cols = cs
    BY <1>7 DEF Join, Joins, Queue, r
  <2>2. /\ DOMAIN c = DOMAIN batch \cup {Len(batch) + 1}
        /\ c[Len(batch) + 1] = r
        /\ \A j \in DOMAIN batch : c[j] = batch[j]
    BY <1>3
  <2>. HIDE DEF c
  <2>3. AreRows(rows', c, cs)
    BY <1>2, <1>5, <2>1, <2>2 DEF AreRows
  <2>. QED
    BY <2>1, <2>3 DEF AreRows
<1>8. CASE StartBatch(sig, cs)
  <2>1. (batch' = <<>> \/ batch' = <<r>>) /\ cols' = cs
    BY <1>8 DEF StartBatch, Queue, r
  <2>. QED
    BY <1>2, <1>5, <2>1 DEF AreRows
<1>. QED
  BY <1>6, <1>7, <1>8

(* The variables keep their types: an INSERT whatever its batch leaves a   *)
(* table, and the batch holds rows of the file with the columns of the     *)
(* batch, fewer than a statement takes.                                    *)
THEOREM TypeCorrect == Spec => []TypeOK
<1>. DEFINE Are == AreRows(rows, batch, cols)
<1>1. Init => Are
  BY DEF Init, AreRows
<1>2. BatchInv /\ Are /\ [Next]_vars => Are'
  <2>1. Finish \/ Fail => Are'
    BY DEF Finish, Fail, AreRows
  <2>2. Are /\ UNCHANGED vars => Are'
    BY DEF vars
  <2>. QED
    BY <2>1, <2>2, DeliverKeepsRows DEF Next
<1>3. BatchInv /\ Are => TypeOK
  BY DEF BatchInv, HasRoom, AreRows, TypeOK, BatchOfRows
<1>. QED
  BY <1>1, <1>2, <1>3, BatchInvariant, PTL DEF Spec

(* No INSERT has more parameters than a statement may have, for every      *)
(* batch_size and every limit that has room for one row.                   *)
THEOREM WithinLimit == Spec => []ParametersWithinLimit
<1>1. BatchInv => ParametersWithinLimit
  <2>. SUFFICES ASSUME BatchInv PROVE Len(batch) * Width(cols) <= MaxParameters
    BY DEF BatchInv, ParametersWithinLimit
  <2>1. CASE batch = <<>>
    <3>1. Len(batch) = 0 /\ cols \in ColumnSets \cup {{}} /\ MaxParameters \in Nat
      BY <2>1, RowBatchAssumption DEF BatchInv, VarsTyped
    <3>2. Width(cols) \in Nat
      BY <3>1, WidthFits
    <3>. QED
      BY <3>1, <3>2
  <2>2. CASE batch # <<>>
    <3>1. /\ cols \in ColumnSets /\ Len(batch) \in Nat
          /\ Len(batch) < EffectiveBatchSize(Width(cols))
      BY <2>2 DEF BatchInv, HasRoom, VarsTyped
    <3>2. Width(cols) \in Nat \ {0} /\ Width(cols) <= MaxParameters
      BY <3>1, WidthFits
    <3>3. EffectiveBatchSize(Width(cols)) \in Nat
      BY <3>2, BatchFits
    <3>. QED
      BY <3>1, <3>2, <3>3, BatchFits
  <2>. QED
    BY <2>1, <2>2
<1>. QED
  BY <1>1, BatchInvariant, PTL

(* With a primary key whose values print as they compare, no INSERT is     *)
(* refused for holding a key twice.                                        *)
THEOREM Accepted == Spec => []InsertsAccepted
<1>1. BatchInv => InsertsAccepted
  <2>. SUFFICES ASSUME BatchInv, HasPrimaryKey,
                       \A s, t \in Signatures : KeyOf[s] = KeyOf[t] => s = t,
                       NEW i \in DOMAIN batch, NEW j \in DOMAIN batch,
                       KeyOf[batch[i].sig] = KeyOf[batch[j].sig]
                PROVE  i = j
    BY DEF InsertsAccepted, Refused
  <2>0. batch \in Seq(Waiter)
    BY DEF BatchInv, VarsTyped, Waiter
  <2>1. batch[i] \in Waiter /\ batch[j] \in Waiter
    BY <2>0
  <2>2. batch[i].sig = batch[j].sig
    BY <2>1 DEF Waiter
  <2>. QED
    BY <2>2 DEF BatchInv, KeysDistinct
<1>. QED
  BY <1>1, BatchInvariant, PTL

-----------------------------------------------------------------------------
(* Under do_nothing, every key of the file is in the transaction's table   *)
(* or waits, and the table's new rows are rows of the file, counted once.  *)

(* The keys the transaction has brought to the table. *)
NewKeys(t) == {k \in Keys : base[k] = Absent /\ t[k] # Absent}

(* Transaction t has kept the table's rows, has its new ones from the rows *)
(* of rs, and has counted them.                                            *)
StoresRows(rs, t) ==
    /\ \A k \in Keys : base[k] # Absent => t.table[k] = base[k]
    /\ \A k \in Keys : t.table[k] # base[k] =>
          \E i \in DOMAIN rs : /\ KeyOf[rs[i].sig] = k
                               /\ t.table[k] = Stored(Absent, rs[i].cols, i)
    /\ IsFiniteSet(NewKeys(t.table))
    /\ t.inserted = Cardinality(NewKeys(t.table))

(* Every key of rs is in the table or waits. *)
HasKeys(rs, t, b) ==
    \A i \in DOMAIN rs : \/ t.table[KeyOf[rs[i].sig]] # Absent
                         \/ Waiting(b, KeyOf[rs[i].sig]) # {}

StoredInv ==
    (~DoUpdate /\ status # "failed") =>
        /\ StoresRows(rows, tx)
        /\ AreRows(rows, batch, cols)
        /\ HasKeys(rows, tx, batch)
        /\ status = "committed" => batch = <<>>

(* Sending a batch of rows of rs stores them. *)
LEMMA SentStores ==
    ASSUME ~DoUpdate, base \in Table,
           NEW rs, NEW n \in Nat, NEW cs, NEW t \in Tx, StoresRows(rs, t),
           NEW b \in Seq(Waiter), Numbered(b, n), AreRows(rs, b, cs)
    PROVE  LET u == Sent(t, b, cs) IN
           /\ StoresRows(rs, u)
           /\ \A k \in Keys : t.table[k] # Absent \/ Waiting(b, k) # {} =>
                 u.table[k] # Absent
<1>. DEFINE u == Sent(t, b, cs)
            old == t.table
            new == Insert(old, b, cs)
            added == {k \in Keys : Waiting(b, k) # {} /\ old[k] = Absent}
<1>1. u.table = new /\ u.inserted = t.inserted + Cardinality(added)
  BY DEF Sent, Affected
<1>2. old \in Table
  BY DEF Tx
<1>3. ASSUME NEW k \in Keys, Waiting(b, k) # {}, old[k] = Absent
      PROVE  /\ new[k] # Absent
             /\ \E i \in DOMAIN rs : /\ KeyOf[rs[i].sig] = k
                                     /\ new[k] = Stored(Absent, rs[i].cols, i)
  <2>. DEFINE w == Winner(b, k)
  <2>1. w \in DOMAIN b /\ KeyOf[b[w].sig] = k
    BY <1>3, WinnerWaits DEF Numbered, Waiting
  <2>2. b[w] \in Waiter
    BY <2>1
  <2>3. new[k] = Stored(Absent, cs, b[w].row)
    BY <1>3 DEF Insert
  <2>4. b[w].row \in DOMAIN rs /\ rs[b[w].row] = [sig |-> b[w].sig, cols |-> cs]
    BY <2>1 DEF AreRows
  <2>. HIDE DEF w, new
  <2>5. new[k] \in StoredRow
    BY <2>2, <2>3 DEF Stored, StoredRow, Waiter
  <2>6. new[k] # Absent
    BY <2>5, RowBatchAssumption
  <2>7. rs[b[w].row].cols = cs /\ rs[b[w].row].sig = b[w].sig
    BY <2>4
  <2>. QED
    BY <2>1, <2>3, <2>4, <2>6, <2>7
<1>4. ASSUME NEW k \in Keys, k \notin added
      PROVE  new[k] = old[k]
  BY <1>4 DEF Insert
<1>5. \A k \in added : base[k] = Absent
  BY DEF StoresRows
<1>6. NewKeys(new) = NewKeys(old) \cup added /\ NewKeys(old) \cap added = {}
  BY <1>3, <1>4, <1>5 DEF NewKeys
<1>7. IsFiniteSet(added)
  <2>. DEFINE hit == {KeyOf[b[i].sig] : i \in DOMAIN b}
  <2>1. Len(b) \in Nat /\ DOMAIN b = 1 .. Len(b)
    OBVIOUS
  <2>2. IsFiniteSet(DOMAIN b)
    BY <2>1, FS_Interval
  <2>. DEFINE f == [i \in DOMAIN b |-> KeyOf[b[i].sig]]
  <2>3. f \in Surjection(DOMAIN b, hit)
    BY DEF Surjection
  <2>4. IsFiniteSet(hit)
    BY <2>2, <2>3, FS_Surjection
  <2>5. added \subseteq hit
    BY DEF Waiting
  <2>. QED
    BY <2>4, <2>5, FS_Subset
<1>. HIDE DEF u, old, new, added
<1>8. IsFiniteSet(NewKeys(old)) /\ t.inserted = Cardinality(NewKeys(old))
  BY DEF StoresRows, old
<1>9. /\ IsFiniteSet(NewKeys(new))
      /\ Cardinality(NewKeys(new)) = Cardinality(NewKeys(old)) + Cardinality(added)
  <2>1. /\ IsFiniteSet(NewKeys(old) \cup added)
        /\ Cardinality(NewKeys(old) \cup added) =
             Cardinality(NewKeys(old)) + Cardinality(added) - Cardinality({})
    BY <1>6, <1>7, <1>8, FS_Union, Zenon
  <2>2. Cardinality({}) = 0
    BY FS_EmptySet
  <2>3. Cardinality(NewKeys(old)) \in Nat /\ Cardinality(added) \in Nat
    BY <1>7, <1>8, FS_CardinalityType
  <2>. QED
    BY <1>6, <2>1, <2>2, <2>3
<1>10. ASSUME NEW k \in Keys, base[k] # Absent
       PROVE  new[k] = base[k]
  <2>1. k \notin added /\ old[k] = base[k]
    BY <1>5, <1>10 DEF StoresRows, old
  <2>. QED
    BY <1>4, <2>1
<1>11. ASSUME NEW k \in Keys, new[k] # base[k]
       PROVE  \E i \in DOMAIN rs : /\ KeyOf[rs[i].sig] = k
                                   /\ new[k] = Stored(Absent, rs[i].cols, i)
  <2>1. CASE k \in added
    BY <1>3, <2>1 DEF added
  <2>2. CASE k \notin added
    BY <1>4, <1>11, <2>2 DEF StoresRows, old
  <2>. QED
    BY <2>1, <2>2
<1>12. StoresRows(rs, u)
  BY <1>1, <1>8, <1>9, <1>10, <1>11 DEF StoresRows, u
<1>13. ASSUME NEW k \in Keys, old[k] # Absent \/ Waiting(b, k) # {}
       PROVE  new[k] # Absent
  BY <1>3, <1>4, <1>13 DEF added
<1>. QED
  BY <1>1, <1>12, <1>13 DEF u, old

LEMMA RowHasSig ==
    ASSUME NEW rs \in Seq([sig : Signatures, cols : ColumnSets])
    PROVE  \A i \in DOMAIN rs : rs[i].sig \in Signatures
<1>. DEFINE R == [sig : Signatures, cols : ColumnSets]
<1>1. rs \in Seq(R) /\ \A r \in R : r.sig \in Signatures
  OBVIOUS
<1>. HIDE DEF R
<1>2. \A i \in DOMAIN rs : rs[i] \in R
  BY <1>1
<1>. QED
  BY <1>1, <1>2

(* A row more in the file takes nothing from what is stored or waits. *)
LEMMA RowsGrow ==
    ASSUME NEW rs \in Seq([sig : Signatures, cols : ColumnSets]), NEW r
    PROVE  /\ DOMAIN Append(rs, r) = DOMAIN rs \cup {Len(rs) + 1}
           /\ \A i \in DOMAIN rs : Append(rs, r)[i] = rs[i]
           /\ Append(rs, r)[Len(rs) + 1] = r
           /\ \A t : StoresRows(rs, t) => StoresRows(Append(rs, r), t)
           /\ \A b, cs : AreRows(rs, b, cs) => AreRows(Append(rs, r), b, cs)
<1>1. /\ DOMAIN Append(rs, r) = DOMAIN rs \cup {Len(rs) + 1}
      /\ \A i \in DOMAIN rs : Append(rs, r)[i] = rs[i]
      /\ Append(rs, r)[Len(rs) + 1] = r
  OBVIOUS
<1>. DEFINE a == Append(rs, r)
<1>. HIDE DEF a
<1>2. ASSUME NEW t, StoresRows(rs, t) PROVE StoresRows(a, t)
  BY <1>1, <1>2 DEF StoresRows, a
<1>3. ASSUME NEW b, NEW cs, AreRows(rs, b, cs) PROVE AreRows(a, b, cs)
  BY <1>1, <1>3 DEF AreRows, a
<1>. QED
  BY <1>1, <1>2, <1>3 DEF a

(* Queue stores the batch or leaves it waiting. *)
LEMMA QueueStores ==
    ASSUME ~DoUpdate, base \in Table,
           NEW rs, \A i \in DOMAIN rs : rs[i].sig \in Signatures,
           NEW n \in Nat, NEW cs, NEW t \in Tx, StoresRows(rs, t),
           NEW b \in Seq(Waiter), Numbered(b, n), AreRows(rs, b, cs),
           HasKeys(rs, t, b), Queue(t, b, cs)
    PROVE  /\ StoresRows(rs, tx') /\ AreRows(rs, batch', cs)
           /\ HasKeys(rs, tx', batch')
<1>1. CASE IsFull(b, cs)
  <2>1. tx' = Sent(t, b, cs) /\ batch' = <<>>
    BY <1>1 DEF Queue
  <2>2. /\ StoresRows(rs, tx')
        /\ \A k \in Keys : t.table[k] # Absent \/ Waiting(b, k) # {} =>
              tx'.table[k] # Absent
    BY <2>1, SentStores
  <2>3. \A i \in DOMAIN rs : KeyOf[rs[i].sig] \in Keys
    BY RowBatchAssumption
  <2>. QED
    BY <2>1, <2>2, <2>3 DEF HasKeys, AreRows
<1>2. CASE ~IsFull(b, cs)
  BY <1>2 DEF Queue
<1>. QED
  BY <1>1, <1>2

(* A row delivered is stored, waits, or takes the place of one that waits. *)
LEMMA DeliverStores ==
    ASSUME BatchInv, StoredInv, ~DoUpdate,
           NEW sig \in Signatures, NEW cs \in ColumnSets,
           Replace(sig, cs) \/ Join(sig, cs) \/ StartBatch(sig, cs)
    PROVE  StoredInv'
<1>. DEFINE n == Len(rows)
            r == NewRow(sig)
            m == n + 1
            d == [sig |-> sig, cols |-> cs]
            rs == Append(rows, d)
<1>1. VarsTyped /\ Numbered(batch, n)
  BY DEF BatchInv
<1>2. r \in Waiter /\ r.sig = sig /\ r.row = n + 1 /\ n \in Nat
  BY <1>1, NewRowTyped
<1>3. /\ batch \in Seq(Waiter) /\ tx \in Tx /\ base \in Table
      /\ rows \in Seq([sig : Signatures, cols : ColumnSets])
  BY <1>1 DEF VarsTyped, Waiter, Tx, Table
<1>4. /\ rows' = rs /\ base' = base /\ status' = "reading" /\ status = "reading"
  BY DEF Replace, Join, StartBatch, Delivered
<1>5. /\ StoresRows(rows, tx) /\ AreRows(rows, batch, cols)
      /\ HasKeys(rows, tx, batch)
  BY <1>4 DEF StoredInv
<1>6. /\ DOMAIN rs = DOMAIN rows \cup {m}
      /\ \A i \in DOMAIN rows : rs[i] = rows[i]
      /\ rs[m] = d
      /\ \A t : StoresRows(rows, t) => StoresRows(rs, t)
      /\ \A b, c : AreRows(rows, b, c) => AreRows(rs, b, c)
  BY <1>3, RowsGrow
<1>7. \A i \in DOMAIN rs : rs[i].sig \in Signatures
  <2>1. rs \in Seq([sig : Signatures, cols : ColumnSets])
    BY <1>3
  <2>. HIDE DEF rs
  <2>. QED
    BY <2>1, RowHasSig
<1>m. m \in Nat /\ m = n + 1
  BY <1>2
<1>. HIDE DEF n, m, r, rs
<1>8. d.sig = sig /\ d.cols = cs
  OBVIOUS
<1>9. SUFFICES /\ StoresRows(rs, tx') /\ AreRows(rs, batch', cols')
               /\ HasKeys(rs, tx', batch')
  <2>. QED
    BY <1>4, <1>9 DEF StoredInv, StoresRows, NewKeys
<1>10. CASE Replace(sig, cs)
  <2>1. PICK i \in SameKey(sig) : batch' = [batch EXCEPT ![i] = r]
    BY <1>10 DEF Replace, r
  <2>2. cols = cs /\ cols' = cols /\ tx' = tx
    BY <1>10 DEF Replace, Joins
  <2>3. i \in DOMAIN batch /\ batch[i].sig = sig
    BY <2>1 DEF SameKey
  <2>4. /\ DOMAIN batch' = DOMAIN batch /\ batch'[i] = r
        /\ \A j \in DOMAIN batch : j # i => batch'[j] = batch[j]
    BY <1>3, <2>1, <2>3
  <2>5. AreRows(rs, batch', cols')
    BY <1>2, <1>5, <1>6, <1>m, <2>2, <2>4 DEF AreRows
  <2>6. \A k : Waiting(batch, k) = Waiting(batch', k)
    BY <1>2, <2>3, <2>4 DEF Waiting
  <2>7. Waiting(batch', KeyOf[sig]) # {}
    BY <2>3, <2>6 DEF Waiting
  <2>8. HasKeys(rs, tx', batch')
    BY <1>5, <1>6, <1>8, <2>2, <2>6, <2>7 DEF HasKeys
  <2>. QED
    BY <1>5, <1>6, <2>2, <2>5, <2>8
<1>11. CASE Join(sig, cs)
  <2>. DEFINE c == Append(batch, r)
  <2>1. Queue(tx, c, cs) /\ cols' = cs /\ cols = cs
    BY <1>11 DEF Join, Joins, r
  <2>2. c \in Seq(Waiter) /\ Numbered(c, m)
    BY <1>1, <1>2, <1>3, <1>m, RowAdded DEF n
  <2>3. /\ DOMAIN c = DOMAIN batch \cup {Len(batch) + 1}
        /\ c[Len(batch) + 1] = r
        /\ \A j \in DOMAIN batch : c[j] = batch[j]
    BY <1>3
  <2>. HIDE DEF c
  <2>4. AreRows(rs, c, cs)
    BY <1>2, <1>5, <1>6, <1>m, <2>1, <2>3 DEF AreRows
  <2>5. \A k : Waiting(batch, k) \subseteq Waiting(c, k)
    BY <2>3 DEF Waiting
  <2>6. Waiting(c, KeyOf[sig]) # {}
    BY <1>2, <2>3 DEF Waiting
  <2>7. HasKeys(rs, tx, c)
    BY <1>5, <1>6, <1>8, <2>5, <2>6 DEF HasKeys
  <2>. QED
    BY <1>3, <1>5, <1>6, <1>7, <1>m, <2>1, <2>2, <2>4, <2>7, QueueStores
<1>12. CASE StartBatch(sig, cs)
  <2>. DEFINE t == Sent(tx, batch, cols)
              c == <<r>>
  <2>1. Queue(t, c, cs) /\ cols' = cs
    BY <1>12 DEF StartBatch, r
  <2>2. /\ StoresRows(rs, t)
        /\ \A k \in Keys : tx.table[k] # Absent \/ Waiting(batch, k) # {} =>
              t.table[k] # Absent
    BY <1>1, <1>2, <1>3, <1>5, <1>6, SentStores
  <2>3. t \in Tx
    <3>1. cols \in ColumnSets \cup {{}} /\ tx.params <= MaxParameters
      BY DEF BatchInv, VarsTyped
    <3>2. batch # <<>> => Len(batch) <= EffectiveBatchSize(Width(cols))
      BY RoomLeft
    <3>. QED
      BY <1>1, <1>2, <1>3, <3>1, <3>2, SentTyped
  <2>. HIDE DEF t
  <2>4. c \in Seq(Waiter) /\ Numbered(c, m)
    BY <1>2, <1>m, RowAlone
  <2>5. DOMAIN c = {1} /\ c[1] = r
    OBVIOUS
  <2>. HIDE DEF c
  <2>6. AreRows(rs, c, cs)
    BY <1>2, <1>6, <1>m, <2>5 DEF AreRows
  <2>7. Waiting(c, KeyOf[sig]) # {}
    BY <1>2, <2>5 DEF Waiting
  <2>8. \A i \in DOMAIN rows : t.table[KeyOf[rows[i].sig]] # Absent
    <3>1. \A i \in DOMAIN rows : KeyOf[rows[i].sig] \in Keys
      BY <1>6, <1>7, RowBatchAssumption
    <3>. QED
      BY <1>5, <2>2, <3>1 DEF HasKeys
  <2>9. HasKeys(rs, t, c)
    BY <1>6, <1>8, <2>7, <2>8 DEF HasKeys
  <2>. QED
    BY <1>3, <1>7, <1>m, <2>1, <2>2, <2>3, <2>4, <2>6, <2>9, QueueStores
<1>. QED
  BY <1>10, <1>11, <1>12

LEMMA StoredInvariant == Spec => []StoredInv
<1>1. Init => StoredInv
  <2>. SUFFICES ASSUME Init PROVE StoredInv
    OBVIOUS
  <2>1. NewKeys(tx.table) = {} /\ tx.table = base /\ tx.inserted = 0
    BY DEF Init, NewKeys
  <2>2. IsFiniteSet({}) /\ Cardinality({}) = 0
    BY FS_EmptySet
  <2>3. StoresRows(rows, tx)
    BY <2>1, <2>2 DEF StoresRows
  <2>4. DOMAIN rows = {} /\ DOMAIN batch = {} /\ status = "reading"
    BY DEF Init
  <2>. QED
    BY <2>3, <2>4 DEF StoredInv, AreRows, HasKeys
<1>2. ASSUME BatchInv, StoredInv, Finish, ~DoUpdate
      PROVE  StoredInv'
  <2>1. /\ status = "reading" /\ tx' = Sent(tx, batch, cols) /\ batch' = <<>>
        /\ UNCHANGED <<rows, base, cols>>
    BY <1>2 DEF Finish
  <2>2. /\ batch \in Seq(Waiter) /\ tx \in Tx /\ base \in Table
        /\ Numbered(batch, Len(rows)) /\ Len(rows) \in Nat
        /\ rows \in Seq([sig : Signatures, cols : ColumnSets])
    BY <1>2 DEF BatchInv, VarsTyped, Waiter, Tx, Table
  <2>3. /\ StoresRows(rows, tx) /\ AreRows(rows, batch, cols)
        /\ HasKeys(rows, tx, batch)
    BY <1>2, <2>1 DEF StoredInv
  <2>4. /\ StoresRows(rows, tx')
        /\ \A k \in Keys : tx.table[k] # Absent \/ Waiting(batch, k) # {} =>
              tx'.table[k] # Absent
    BY <1>2, <2>1, <2>2, <2>3, SentStores
  <2>5. \A i \in DOMAIN rows : KeyOf[rows[i].sig] \in Keys
    BY <2>2, RowHasSig, RowBatchAssumption
  <2>6. HasKeys(rows, tx', <<>>)
    BY <2>3, <2>4, <2>5 DEF HasKeys
  <2>7. AreRows(rows, <<>>, cols)
    BY DEF AreRows
  <2>. QED
    BY <2>1, <2>4, <2>6, <2>7 DEF StoredInv, StoresRows, NewKeys
<1>3. Fail => StoredInv'
  BY DEF Fail, StoredInv
<1>4. UNCHANGED vars /\ StoredInv => StoredInv'
  BY DEF vars, StoredInv, StoresRows, NewKeys, AreRows, HasKeys
<1>5. ~(~DoUpdate) => StoredInv'
  BY DEF StoredInv
<1>6. BatchInv /\ StoredInv /\ [Next]_vars => StoredInv'
  BY <1>2, <1>3, <1>4, <1>5, DeliverStores DEF Next
<1>. QED
  BY <1>1, <1>6, BatchInvariant, PTL DEF Spec

(* Under do_nothing a committed file has all its keys in the table, the    *)
(* new ones from its own rows, and counts them right, whatever the batch   *)
(* size, the columns of the rows and the spellings of their keys.          *)
THEOREM KeysStored == Spec => []EveryKeyStored
<1>1. StoredInv => EveryKeyStored
  BY DEF StoredInv, EveryKeyStored, StoresRows, HasKeys, NewKeys, Waiting
<1>. QED
  BY <1>1, StoredInvariant, PTL

-----------------------------------------------------------------------------
(* Under do_nothing, the row stored for a new key is the first of the file *)
(* with that key, or one that has taken its place in the batch.            *)

(* v is what row j of rs stores, which may have taken the place of the     *)
(* first row of key k.                                                     *)
Kept(rs, k, v) ==
    \E i, j \in DOMAIN rs :
        /\ FirstRow(rs, k, i)
        /\ TakesPlace(rs, i, j)
        /\ v = Stored(Absent, rs[j].cols, j)

(* Row j waits for key k where the first row of the key waited; all rows   *)
(* since have the columns of the batch.                                    *)
Leads(rs, cs, k, j) ==
    \E i \in DOMAIN rs :
        /\ FirstRow(rs, k, i)
        /\ TakesPlace(rs, i, j)
        /\ \A n \in i .. Len(rs) : rs[n].cols = cs

KeptRows(rs, t) == \A k \in Keys : t.table[k] # base[k] => Kept(rs, k, t.table[k])

LeadRows(rs, t, b, cs) ==
    \A k \in Keys : t.table[k] = Absent /\ Waiting(b, k) # {}
        => Leads(rs, cs, k, b[Winner(b, k)].row)

WinsInv ==
    (~DoUpdate /\ status # "failed") =>
        /\ KeptRows(rows, tx)
        /\ LeadRows(rows, tx, batch, cols)

(* Under do_nothing, INSERT takes the first of the rows of a key. *)
LEMMA FirstWins ==
    ASSUME ~DoUpdate, NEW b \in Seq(Waiter), NEW k, Waiting(b, k) # {}
    PROVE  /\ Winner(b, k) \in Waiting(b, k) /\ Winner(b, k) \in Nat
           /\ \A j \in Waiting(b, k) : Winner(b, k) <= j
           /\ \A c \in Seq(Waiter) :
                 /\ Waiting(b, k) \subseteq Waiting(c, k)
                 /\ \A j \in Waiting(c, k) : j \in Waiting(b, k) \/ j > Len(b)
                 => Winner(c, k) = Winner(b, k)
<1>1. ASSUME NEW c \in Seq(Waiter), Waiting(c, k) # {}
      PROVE  /\ Winner(c, k) \in Waiting(c, k) /\ Winner(c, k) \in Nat
             /\ \A j \in Waiting(c, k) : Winner(c, k) <= j
  <2>. DEFINE W == Waiting(c, k)
  <2>1. W \in SUBSET Nat /\ W # {}
    BY <1>1 DEF Waiting
  <2>2. Winner(c, k) = CHOOSE i \in W : \A j \in W : i <= j
    BY DEF Winner
  <2>. HIDE DEF W
  <2>3. \E i \in W : \A j \in W : i <= j
    BY <2>1, Least
  <2>. QED
    BY <2>1, <2>2, <2>3 DEF W
<1>2. \A j \in Waiting(b, k) : j \in Nat /\ j <= Len(b)
  BY DEF Waiting
<1>3. Len(b) \in Nat
  OBVIOUS
<1>. QED
  BY <1>1, <1>2, <1>3

(* A row more in the file changes nothing of the rows before. *)
LEMMA KeptGrows ==
    ASSUME NEW rs \in Seq([sig : Signatures, cols : ColumnSets]), NEW d
    PROVE  /\ \A k, i : FirstRow(rs, k, i) => FirstRow(Append(rs, d), k, i)
           /\ \A i, j : TakesPlace(rs, i, j) => TakesPlace(Append(rs, d), i, j)
           /\ \A k, v : Kept(rs, k, v) => Kept(Append(rs, d), k, v)
           /\ \A cs, k, j : Leads(rs, cs, k, j) /\ d.cols = cs
                 => Leads(Append(rs, d), cs, k, j)
<1>. DEFINE a == Append(rs, d)
<1>1. /\ Len(rs) \in Nat /\ Len(a) = Len(rs) + 1
      /\ DOMAIN rs = 1 .. Len(rs) /\ DOMAIN a = 1 .. (Len(rs) + 1)
      /\ \A i \in 1 .. Len(rs) : a[i] = rs[i]
      /\ a[Len(rs) + 1] = d
  OBVIOUS
<1>. HIDE DEF a
<1>2. ASSUME NEW k, NEW i, FirstRow(rs, k, i) PROVE FirstRow(a, k, i)
  <2>1. i \in 1 .. Len(rs) /\ \A j \in 1 .. (i - 1) : j \in 1 .. Len(rs)
    BY <1>1, <1>2 DEF FirstRow
  <2>. QED
    BY <1>1, <1>2, <2>1 DEF FirstRow
<1>3. ASSUME NEW i, NEW j, TakesPlace(rs, i, j) PROVE TakesPlace(a, i, j)
  <2>1. /\ i \in 1 .. Len(rs) /\ j \in 1 .. Len(rs)
        /\ \A n \in i .. j : n \in 1 .. Len(rs)
    BY <1>1, <1>3 DEF TakesPlace
  <2>. QED
    BY <1>1, <1>3, <2>1 DEF TakesPlace
<1>4. ASSUME NEW k, NEW v, Kept(rs, k, v) PROVE Kept(a, k, v)
  <2>1. PICK i \in DOMAIN rs, j \in DOMAIN rs :
          FirstRow(rs, k, i) /\ TakesPlace(rs, i, j)
          /\ v = Stored(Absent, rs[j].cols, j)
    BY <1>4 DEF Kept
  <2>2. FirstRow(a, k, i) /\ TakesPlace(a, i, j) /\ a[j] = rs[j]
        /\ i \in DOMAIN a /\ j \in DOMAIN a
    BY <1>1, <1>2, <1>3, <2>1
  <2>. QED
    BY <2>1, <2>2 DEF Kept
<1>5. ASSUME NEW cs, NEW k, NEW j, Leads(rs, cs, k, j), d.cols = cs
      PROVE  Leads(a, cs, k, j)
  <2>1. PICK i \in DOMAIN rs : FirstRow(rs, k, i) /\ TakesPlace(rs, i, j)
          /\ \A n \in i .. Len(rs) : rs[n].cols = cs
    BY <1>5 DEF Leads
  <2>2. FirstRow(a, k, i) /\ TakesPlace(a, i, j) /\ i \in DOMAIN a
    BY <1>1, <1>2, <1>3, <2>1
  <2>3. \A n \in i .. Len(a) : a[n].cols = cs
    BY <1>1, <1>5, <2>1
  <2>. QED
    BY <2>2, <2>3 DEF Leads
<1>. QED
  BY <1>2, <1>3, <1>4, <1>5 DEF a

(* Sending a batch keeps, of each key that is new, the row that leads.     *)
LEMMA SentKeeps ==
    ASSUME ~DoUpdate, NEW rs, NEW cs, NEW t \in Tx, NEW b \in Seq(Waiter),
           AreRows(rs, b, cs), KeptRows(rs, t), LeadRows(rs, t, b, cs)
    PROVE  KeptRows(rs, Sent(t, b, cs))
<1>. DEFINE new == Insert(t.table, b, cs)
<1>1. Sent(t, b, cs).table = new
  BY DEF Sent
<1>2. ASSUME NEW k \in Keys, Waiting(b, k) # {}, t.table[k] = Absent
      PROVE  Kept(rs, k, new[k])
  <2>. DEFINE j == b[Winner(b, k)].row
  <2>1. Winner(b, k) \in DOMAIN b
    BY <1>2, FirstWins DEF Waiting
  <2>2. j \in DOMAIN rs /\ rs[j] = [sig |-> b[Winner(b, k)].sig, cols |-> cs]
    BY <2>1 DEF AreRows
  <2>3. rs[j].cols = cs
    BY <2>2
  <2>4. new[k] = Stored(Absent, cs, j)
    BY <1>2 DEF Insert
  <2>5. Leads(rs, cs, k, j)
    BY <1>2 DEF LeadRows
  <2>. HIDE DEF j, new
  <2>. QED
    BY <2>2, <2>3, <2>4, <2>5 DEF Leads, Kept
<1>3. ASSUME NEW k \in Keys, ~(Waiting(b, k) # {} /\ t.table[k] = Absent)
      PROVE  new[k] = t.table[k]
  BY <1>3 DEF Insert
<1>. HIDE DEF new
<1>. QED
  BY <1>1, <1>2, <1>3 DEF KeptRows

(* Queue keeps what leads, sent or waiting. *)
LEMMA QueueKeeps ==
    ASSUME ~DoUpdate, NEW rs, NEW cs, NEW t \in Tx, NEW b \in Seq(Waiter),
           AreRows(rs, b, cs), KeptRows(rs, t), LeadRows(rs, t, b, cs),
           Queue(t, b, cs)
    PROVE  KeptRows(rs, tx') /\ LeadRows(rs, tx', batch', cs)
<1>1. CASE IsFull(b, cs)
  <2>1. tx' = Sent(t, b, cs) /\ batch' = <<>>
    BY <1>1 DEF Queue
  <2>2. \A k : Waiting(<<>>, k) = {}
    BY DEF Waiting
  <2>. QED
    BY <2>1, <2>2, SentKeeps DEF LeadRows
<1>2. CASE ~IsFull(b, cs)
  BY <1>2 DEF Queue
<1>. QED
  BY <1>1, <1>2

(* The row delivered leads its key if no row of the file had the key.      *)
LEMMA NewLeads ==
    ASSUME NEW rs \in Seq([sig : Signatures, cols : ColumnSets]),
           NEW sig, NEW cs,
           \A i \in DOMAIN rs : KeyOf[rs[i].sig] # KeyOf[sig]
    PROVE  Leads(Append(rs, [sig |-> sig, cols |-> cs]), cs, KeyOf[sig], Len(rs) + 1)
<1>. DEFINE d == [sig |-> sig, cols |-> cs]
            a == Append(rs, d)
            m == Len(rs) + 1
<1>1. /\ Len(rs) \in Nat /\ Len(a) = m
      /\ DOMAIN rs = 1 .. Len(rs) /\ DOMAIN a = 1 .. m
      /\ \A i \in 1 .. Len(rs) : a[i] = rs[i]
      /\ a[m] = d
  OBVIOUS
<1>2. d.sig = sig /\ d.cols = cs
  OBVIOUS
<1>. HIDE DEF d, a
<1>3. m \in DOMAIN a /\ (\A n \in 1 .. (m - 1) : n \in 1 .. Len(rs))
      /\ (\A n \in m .. m : n = m) /\ m <= m
  BY <1>1
<1>. HIDE DEF m
<1>4. FirstRow(a, KeyOf[sig], m)
  BY <1>1, <1>2, <1>3 DEF FirstRow
<1>5. TakesPlace(a, m, m)
  BY <1>3 DEF TakesPlace
<1>. QED
  BY <1>1, <1>2, <1>3, <1>4, <1>5 DEF Leads, a, d, m

(* The new row in the place of row j of its key. *)
LEMMA ReplacedLeads ==
    ASSUME NEW rs \in Seq([sig : Signatures, cols : ColumnSets]),
           NEW sig, NEW cs, NEW k, NEW j \in DOMAIN rs, HasPrimaryKey,
           Leads(rs, cs, k, j), rs[j].sig = sig
    PROVE  Leads(Append(rs, [sig |-> sig, cols |-> cs]), cs, k, Len(rs) + 1)
<1>. DEFINE d == [sig |-> sig, cols |-> cs]
            a == Append(rs, d)
            m == Len(rs) + 1
<1>1. /\ Len(rs) \in Nat /\ Len(a) = m
      /\ DOMAIN rs = 1 .. Len(rs) /\ DOMAIN a = 1 .. m
      /\ \A i \in 1 .. Len(rs) : a[i] = rs[i]
      /\ a[m] = d
  OBVIOUS
<1>2. d.sig = sig /\ d.cols = cs
  OBVIOUS
<1>3. \A n, i : FirstRow(rs, n, i) => FirstRow(a, n, i)
  BY KeptGrows
<1>. HIDE DEF d, a
<1>4. PICK i \in DOMAIN rs : FirstRow(rs, k, i) /\ TakesPlace(rs, i, j)
          /\ \A n \in i .. Len(rs) : rs[n].cols = cs
  BY DEF Leads
<1>5. i \in 1 .. Len(rs) /\ i <= m /\ m \in DOMAIN a /\ i \in DOMAIN a
  BY <1>1, <1>4
<1>6. \A n \in i .. m : a[n].cols = cs
  BY <1>1, <1>2, <1>4, <1>5
<1>7. a[i].cols = cs /\ a[i].sig = sig /\ a[m].sig = sig
  BY <1>1, <1>2, <1>4, <1>5, <1>6 DEF TakesPlace
<1>. HIDE DEF m
<1>8. TakesPlace(a, i, m)
  BY <1>5, <1>6, <1>7 DEF TakesPlace
<1>. QED
  BY <1>1, <1>3, <1>4, <1>5, <1>6, <1>8 DEF Leads, a, d, m

LEMMA DeliverWins ==
    ASSUME BatchInv, StoredInv, WinsInv, ~DoUpdate,
           NEW sig \in Signatures, NEW cs \in ColumnSets,
           Replace(sig, cs) \/ Join(sig, cs) \/ StartBatch(sig, cs)
    PROVE  WinsInv'
<1>. DEFINE R == [sig : Signatures, cols : ColumnSets]
            r == NewRow(sig)
            m == Len(rows) + 1
            d == [sig |-> sig, cols |-> cs]
            rs == Append(rows, d)
<1>1. VarsTyped
  BY DEF BatchInv
<1>2. r \in Waiter /\ r.sig = sig /\ r.row = m /\ Len(rows) \in Nat
  BY <1>1, NewRowTyped
<1>3. /\ batch \in Seq(Waiter) /\ tx \in Tx /\ base \in Table
      /\ rows \in Seq(R)
  BY <1>1 DEF VarsTyped, Waiter, Tx, Table
<1>4. rows' = rs /\ base' = base /\ status = "reading"
  BY DEF Replace, Join, StartBatch, Delivered
<1>5. /\ StoresRows(rows, tx) /\ AreRows(rows, batch, cols)
      /\ HasKeys(rows, tx, batch)
      /\ KeptRows(rows, tx) /\ LeadRows(rows, tx, batch, cols)
  BY <1>4 DEF StoredInv, WinsInv
<1>6. AreRows(rs, batch', cols')
  BY <1>4, <1>5, DeliverKeepsRows
<1>7. /\ \A k, v : Kept(rows, k, v) => Kept(rs, k, v)
      /\ \A k, j : Leads(rows, cs, k, j) => Leads(rs, cs, k, j)
  <2>1. d.cols = cs
    OBVIOUS
  <2>. HIDE DEF d
  <2>. QED
    BY <1>3, <2>1, KeptGrows
<1>8. /\ \A t : KeptRows(rows, t) => KeptRows(rs, t)
  BY <1>7 DEF KeptRows
<1>9. \A b, c : AreRows(rows, b, c) => AreRows(rs, b, c)
  BY <1>3, RowsGrow
<1>10. \A i \in DOMAIN rows : rows[i].sig \in Signatures
  BY <1>3, RowHasSig
<1>k. /\ KeyOf[sig] \in Keys
      /\ \A i \in DOMAIN rows : KeyOf[rows[i].sig] \in Keys
  BY <1>10, RowBatchAssumption
<1>11. (\A i \in DOMAIN rows : KeyOf[rows[i].sig] # KeyOf[sig])
          => Leads(rs, cs, KeyOf[sig], m)
  BY <1>3, NewLeads
<1>12. HasPrimaryKey => \A k, j : j \in DOMAIN rows /\ Leads(rows, cs, k, j)
            /\ rows[j].sig = sig => Leads(rs, cs, k, m)
  BY <1>3, ReplacedLeads
<1>d. m \in DOMAIN rs /\ rs[m] = d
  BY <1>3
<1>13. AreRows(rs, <<r>>, cs)
  <2>2. DOMAIN <<r>> = {1} /\ <<r>>[1] = r
    OBVIOUS
  <2>. HIDE DEF r, rs, m
  <2>. QED
    BY <1>2, <1>d, <2>2 DEF AreRows
<1>14. SUFFICES KeptRows(rs, tx') /\ LeadRows(rs, tx', batch', cols')
  <2>. HIDE DEF rs
  <2>. QED
    BY <1>4, <1>14 DEF WinsInv, KeptRows, LeadRows
<1>15. DOMAIN batch \subseteq Nat /\ Len(batch) \in Nat
       /\ \A i \in DOMAIN batch : i <= Len(batch) /\ batch[i].sig \in Signatures
  <2>1. \A i \in DOMAIN batch : batch[i] \in Waiter
    BY <1>3
  <2>. QED
    BY <1>3, <2>1 DEF Waiter
<1>. HIDE DEF r, m, d, rs, R
<1>16. CASE Replace(sig, cs)
  <2>1. PICK p \in SameKey(sig) : batch' = [batch EXCEPT ![p] = r]
    BY <1>16 DEF Replace, r
  <2>2. cols = cs /\ cols' = cs /\ tx' = tx
    BY <1>16 DEF Replace, Joins
  <2>3. p \in DOMAIN batch /\ batch[p].sig = sig /\ HasPrimaryKey
    BY <2>1 DEF SameKey
  <2>4. /\ DOMAIN batch' = DOMAIN batch /\ batch'[p] = r
        /\ \A j \in DOMAIN batch : j # p => batch'[j] = batch[j]
        /\ batch' \in Seq(Waiter)
    BY <1>2, <1>3, <2>1, <2>3
  <2>5. \A k : Waiting(batch, k) = Waiting(batch', k)
    BY <1>2, <2>3, <2>4 DEF Waiting
  <2>6. ASSUME NEW k \in Keys, tx.table[k] = Absent, Waiting(batch', k) # {}
        PROVE  Leads(rs, cs, k, batch'[Winner(batch', k)].row)
    <3>. DEFINE w == Winner(batch, k)
    <3>1. /\ w \in DOMAIN batch
          /\ Winner(batch', k) = w
      <4>1. Waiting(batch, k) # {}
        BY <2>5, <2>6
      <4>2. /\ w \in Waiting(batch, k)
            /\ \A c \in Seq(Waiter) :
                 /\ Waiting(batch, k) \subseteq Waiting(c, k)
                 /\ \A j \in Waiting(c, k) : j \in Waiting(batch, k) \/ j > Len(batch)
                 => Winner(c, k) = w
        BY <1>3, <4>1, FirstWins
      <4>. QED
        BY <2>4, <2>5, <4>2 DEF Waiting
    <3>2. Leads(rows, cs, k, batch[w].row)
      BY <1>5, <2>2, <2>5, <2>6 DEF LeadRows
    <3>. HIDE DEF w
    <3>3. CASE w # p
      <4>1. batch'[w] = batch[w]
        BY <2>4, <3>1, <3>3
      <4>. QED
        BY <1>7, <3>1, <3>2, <4>1
    <3>4. CASE w = p
      <4>1. /\ batch[p].row \in DOMAIN rows
            /\ rows[batch[p].row] = [sig |-> batch[p].sig, cols |-> cols]
        BY <1>5, <2>3 DEF AreRows
      <4>2. rows[batch[p].row].sig = sig
        BY <2>3, <4>1
      <4>3. Leads(rs, cs, k, m)
        BY <1>12, <2>3, <3>2, <3>4, <4>1, <4>2
      <4>. QED
        BY <1>2, <2>4, <3>1, <3>4, <4>3
    <3>. QED
      BY <3>3, <3>4
  <2>. QED
    BY <1>5, <1>8, <2>2, <2>6 DEF LeadRows
<1>17. CASE Join(sig, cs)
  <2>. DEFINE c == Append(batch, r)
  <2>1. Queue(tx, c, cs) /\ cols' = cs /\ cols = cs
    BY <1>17 DEF Join, Joins, r
  <2>2. /\ c \in Seq(Waiter)
        /\ DOMAIN c = DOMAIN batch \cup {Len(batch) + 1}
        /\ c[Len(batch) + 1] = r
        /\ \A j \in DOMAIN batch : c[j] = batch[j]
    BY <1>2, <1>3
  <2>. HIDE DEF c
  <2>3. AreRows(rs, c, cs)
    <3>1. AreRows(rs, batch, cs) /\ m \in DOMAIN rs
          /\ rs[m] = [sig |-> sig, cols |-> cs]
      <4>. QED
        BY <1>5, <1>9, <1>d, <2>1 DEF d
    <3>. QED
      BY <1>2, <2>2, <3>1 DEF AreRows
  <2>4. ASSUME NEW k \in Keys, tx.table[k] = Absent, Waiting(c, k) # {}
        PROVE  Leads(rs, cs, k, c[Winner(c, k)].row)
    <3>1. CASE Waiting(batch, k) # {}
      <4>. DEFINE w == Winner(batch, k)
      <4>1. /\ w \in Waiting(batch, k)
            /\ \A e \in Seq(Waiter) :
                 /\ Waiting(batch, k) \subseteq Waiting(e, k)
                 /\ \A j \in Waiting(e, k) : j \in Waiting(batch, k) \/ j > Len(batch)
                 => Winner(e, k) = w
        BY <1>3, <3>1, FirstWins
      <4>2. Waiting(batch, k) \subseteq Waiting(c, k)
        BY <2>2 DEF Waiting
      <4>3. \A j \in Waiting(c, k) : j \in Waiting(batch, k) \/ j > Len(batch)
        BY <1>15, <2>2 DEF Waiting
      <4>4. Winner(c, k) = w /\ w \in DOMAIN batch
        BY <2>2, <4>1, <4>2, <4>3 DEF Waiting
      <4>5. Leads(rows, cs, k, batch[w].row)
        BY <1>5, <2>1, <2>4, <3>1 DEF LeadRows
      <4>. HIDE DEF w
      <4>. QED
        BY <1>7, <2>2, <4>4, <4>5
    <3>2. CASE Waiting(batch, k) = {}
      <4>1. \A i \in DOMAIN rows : KeyOf[rows[i].sig] # k
        BY <1>5, <2>4, <3>2 DEF HasKeys
      <4>2. \A j \in Waiting(c, k) : j = Len(batch) + 1
        BY <2>2, <3>2 DEF Waiting
      <4>3. Winner(c, k) \in Waiting(c, k)
        BY <2>2, <2>4, FirstWins
      <4>4. Winner(c, k) = Len(batch) + 1 /\ KeyOf[sig] = k
        BY <1>2, <2>2, <4>2, <4>3 DEF Waiting
      <4>. QED
        BY <1>2, <1>11, <2>2, <4>1, <4>4
    <3>. QED
      BY <3>1, <3>2
  <2>5. LeadRows(rs, tx, c, cs)
    BY <2>4 DEF LeadRows
  <2>. QED
    BY <1>3, <1>5, <1>8, <2>1, <2>2, <2>3, <2>5, QueueKeeps
<1>18. CASE StartBatch(sig, cs)
  <2>. DEFINE t == Sent(tx, batch, cols)
              c == <<r>>
  <2>1. Queue(t, c, cs) /\ cols' = cs
    BY <1>18 DEF StartBatch, r
  <2>2. KeptRows(rs, t)
    BY <1>3, <1>5, <1>8, SentKeeps
  <2>3. t \in Tx
    <3>1. /\ cols \in ColumnSets \cup {{}} /\ tx.params <= MaxParameters
          /\ Numbered(batch, Len(rows))
      BY DEF BatchInv, VarsTyped
    <3>2. batch # <<>> => Len(batch) <= EffectiveBatchSize(Width(cols))
      BY RoomLeft
    <3>. QED
      BY <1>2, <1>3, <3>1, <3>2, SentTyped
  <2>4. \A k \in Keys : tx.table[k] # Absent \/ Waiting(batch, k) # {} =>
              t.table[k] # Absent
    <3>1. Numbered(batch, Len(rows))
      BY DEF BatchInv
    <3>. QED
      BY <1>2, <1>3, <1>5, <3>1, SentStores
  <2>. HIDE DEF t
  <2>5. c \in Seq(Waiter) /\ DOMAIN c = {1} /\ c[1] = r
    BY <1>2
  <2>. HIDE DEF c
  <2>6. AreRows(rs, c, cs)
    BY <1>13 DEF c
  <2>7. \A i \in DOMAIN rows : t.table[KeyOf[rows[i].sig]] # Absent
    BY <1>5, <1>k, <2>4 DEF HasKeys
  <2>8. ASSUME NEW k \in Keys, t.table[k] = Absent, Waiting(c, k) # {}
        PROVE  Leads(rs, cs, k, c[Winner(c, k)].row)
    <3>1. Winner(c, k) \in Waiting(c, k)
      BY <2>5, <2>8, FirstWins
    <3>2. c[Winner(c, k)] = r /\ KeyOf[sig] = k
      BY <1>2, <2>5, <3>1 DEF Waiting
    <3>3. \A i \in DOMAIN rows : KeyOf[rows[i].sig] # k
      BY <2>7, <2>8
    <3>. QED
      BY <1>2, <1>11, <3>2, <3>3
  <2>9. LeadRows(rs, t, c, cs)
    BY <2>8 DEF LeadRows
  <2>. QED
    BY <2>1, <2>2, <2>3, <2>5, <2>6, <2>9, QueueKeeps
<1>. QED
  BY <1>16, <1>17, <1>18

(* Under do_nothing the row stored for a new key is the first of the file  *)
(* with that key, or a later one that took its place while it waited,      *)
(* whatever the batch size, the columns and the spellings of the keys.     *)
THEOREM BatchOrderHolds == Spec => []EarlierBatchWins
<1>1. Init => WinsInv
  <2>1. \A k : Waiting(<<>>, k) = {}
    BY DEF Waiting
  <2>. QED
    BY <2>1 DEF Init, WinsInv, KeptRows, LeadRows
<1>2. ASSUME BatchInv, StoredInv, WinsInv, Finish, ~DoUpdate
      PROVE  WinsInv'
  <2>1. /\ status = "reading" /\ tx' = Sent(tx, batch, cols) /\ batch' = <<>>
        /\ UNCHANGED <<rows, base, cols>>
    BY <1>2 DEF Finish
  <2>2. batch \in Seq(Waiter) /\ tx \in Tx
    BY <1>2 DEF BatchInv, VarsTyped, Waiter, Tx, Table
  <2>3. /\ AreRows(rows, batch, cols)
        /\ KeptRows(rows, tx) /\ LeadRows(rows, tx, batch, cols)
    BY <1>2, <2>1 DEF StoredInv, WinsInv
  <2>4. KeptRows(rows, tx')
    BY <1>2, <2>1, <2>2, <2>3, SentKeeps
  <2>5. \A k : Waiting(<<>>, k) = {}
    BY DEF Waiting
  <2>. QED
    BY <2>1, <2>4, <2>5 DEF WinsInv, KeptRows, LeadRows
<1>3. Fail => WinsInv'
  BY DEF Fail, WinsInv
<1>4. UNCHANGED vars /\ WinsInv => WinsInv'
  BY DEF vars, WinsInv, KeptRows, LeadRows
<1>5. ~(~DoUpdate) => WinsInv'
  BY DEF WinsInv
<1>6. BatchInv /\ StoredInv /\ WinsInv /\ [Next]_vars => WinsInv'
  BY <1>2, <1>3, <1>4, <1>5, DeliverWins DEF Next
<1>7. BatchInv /\ WinsInv /\ (status = "failed" => tx.table = base)
         => EarlierBatchWins
  BY DEF WinsInv, KeptRows, Kept, EarlierBatchWins
<1>8. Init => (status = "failed" => tx.table = base)
  BY DEF Init
<1>9. BatchInv /\ (status = "failed" => tx.table = base) /\ [Next]_vars
         => (status = "failed" => tx.table = base)'
  <2>. SUFFICES ASSUME BatchInv, status = "failed" => tx.table = base,
                       [Next]_vars, status' = "failed"
                PROVE  tx'.table = base'
    OBVIOUS
  <2>1. tx \in Tx
    BY DEF BatchInv, VarsTyped, Tx, Table
  <2>2. [tx EXCEPT !.table = base].table = base
    BY <2>1 DEF Tx
  <2>. QED
    BY <2>2 DEF Next, Replace, Join, StartBatch, Delivered, Finish, Fail, vars
<1>. QED
  BY <1>1, <1>6, <1>7, <1>8, <1>9, BatchInvariant, StoredInvariant, PTL DEF Spec

-----------------------------------------------------------------------------
(* Under do_update, RowBatch implements RowByRow: with the waiting batch   *)
(* counted in, the table is always what the rows would have made of it one *)
(* by one.                                                                 *)

(* The winner is the newest row of the key. *)
LEMMA WinnerIs ==
    ASSUME DoUpdate,
           NEW b \in Seq(Waiter), NEW n \in Nat, Numbered(b, n),
           NEW k, NEW i \in Waiting(b, k),
           \A j \in Waiting(b, k) : b[j].row <= b[i].row
    PROVE  Winner(b, k) = i
<1>. DEFINE w == Winner(b, k)
<1>1. w \in Waiting(b, k) /\ b[i].row <= b[w].row
  BY WinnerWaits DEF Numbered
<1>. HIDE DEF w
<1>2. i \in DOMAIN b /\ w \in DOMAIN b
  BY <1>1 DEF Waiting
<1>3. b[i] \in Waiter /\ b[w] \in Waiter
  BY <1>2
<1>4. b[i].row \in Nat /\ b[w].row \in Nat
  BY <1>3 DEF Waiter
<1>5. b[i].row = b[w].row
  BY <1>1, <1>4
<1>6. w = i
  BY <1>2, <1>5 DEF Numbered
<1>. QED
  BY <1>6 DEF w

(* Batch c is batch b with row r, the newest, whichever row of the same    *)
(* key it took the place of.                                               *)
OneMore(b, c, r) ==
    /\ \E i \in DOMAIN c : c[i] = r
    /\ \A k \in Keys \ {KeyOf[r.sig]} :
          /\ Waiting(c, k) = Waiting(b, k)
          /\ \A i \in Waiting(b, k) : c[i] = b[i]

(* Table u is table t with row number v, of columns cs, put under key k. *)
Puts(t, u, k, cs, v) == u = [t EXCEPT ![k] = Stored(t[k], cs, v)]

LEMMA InsertOneMore ==
    ASSUME DoUpdate,
           NEW n \in Nat, NEW t \in Table, NEW cs \in ColumnSets \cup {{}},
           NEW b \in Seq(Waiter), Numbered(b, n),
           NEW c \in Seq(Waiter), NEW m \in Nat, m = n + 1, Numbered(c, m),
           NEW r \in Waiter, r.row = m, OneMore(b, c, r)
    PROVE  Puts(Insert(t, b, cs), Insert(t, c, cs), KeyOf[r.sig], cs, m)
<1>. DEFINE key == KeyOf[r.sig]
            old == Insert(t, b, cs)
<1>1. key \in Keys
  BY RowBatchAssumption DEF Waiter
<1>2. old \in Table /\ Insert(t, c, cs) \in Table
  BY InsertTyped DEF Numbered
<1>3. Insert(t, c, cs)[key] = Stored(old[key], cs, m)
  <2>1. PICK i \in DOMAIN c : c[i] = r
    BY DEF OneMore
  <2>2. i \in Waiting(c, key)
    BY <2>1 DEF Waiting
  <2>3. \A j \in Waiting(c, key) : c[j].row <= c[i].row
    BY <2>1 DEF Numbered, Waiting
  <2>4. Winner(c, key) = i
    BY <2>2, <2>3, WinnerIs
  <2>5. Insert(t, c, cs)[key] = Stored(t[key], cs, m)
    BY <1>1, <2>1, <2>2, <2>4 DEF Insert
  <2>6. Stored(old[key], cs, m) = Stored(t[key], cs, m)
    <3>1. CASE Waiting(b, key) = {}
      BY <1>1, <3>1 DEF Insert
    <3>2. CASE Waiting(b, key) # {}
      <4>. DEFINE v == b[Winner(b, key)].row
      <4>1. old[key] = Stored(t[key], cs, v)
        BY <1>1, <3>2 DEF Insert
      <4>2. old[key] # Absent
        <5>1. Winner(b, key) \in DOMAIN b
          BY <3>2, WinnerWaits DEF Numbered, Waiting
        <5>2. b[Winner(b, key)] \in Waiter
          BY <5>1
        <5>3. v \in Nat
          BY <5>2 DEF Waiter
        <5>4. t[key] = Absent \/ t[key] \in [Columns -> Nat]
          BY <1>1 DEF Table, StoredRow
        <5>5. Stored(t[key], cs, v) \in StoredRow
          BY <5>3, <5>4 DEF Stored, StoredRow
        <5>. QED
          BY <4>1, <5>5, RowBatchAssumption
      <4>. HIDE DEF v, old
      <4>. QED
        BY <4>1, <4>2 DEF Stored
    <3>. QED
      BY <3>1, <3>2
  <2>. QED
    BY <2>5, <2>6
<1>4. ASSUME NEW k \in Keys, k # key
      PROVE  Insert(t, c, cs)[k] = old[k]
  <2>1. /\ Waiting(c, k) = Waiting(b, k)
        /\ \A i \in Waiting(b, k) : c[i] = b[i]
    BY <1>4 DEF OneMore
  <2>2. CASE Waiting(b, k) = {}
    BY <2>1, <2>2 DEF Insert
  <2>3. CASE Waiting(b, k) # {}
    <3>. DEFINE w == Winner(b, k)
    <3>1. w \in Waiting(b, k) /\ \A j \in Waiting(b, k) : b[j].row <= b[w].row
      BY <2>3, WinnerWaits DEF Numbered
    <3>. HIDE DEF w
    <3>2. w \in Waiting(c, k) /\ \A j \in Waiting(c, k) : c[j].row <= c[w].row
      BY <2>1, <3>1
    <3>3. Winner(c, k) = w
      BY <3>2, WinnerIs
    <3>4. c[w] = b[w]
      BY <2>1, <3>1
    <3>. QED
      BY <2>1, <2>3, <3>3, <3>4 DEF Insert, w
  <2>. QED
    BY <2>2, <2>3
<1>. HIDE DEF old, key
<1>5. Insert(t, c, cs) = [old EXCEPT ![key] = Stored(old[key], cs, m)]
  BY <1>1, <1>2, <1>3, <1>4 DEF Table
<1>. QED
  BY <1>5 DEF old, key, Puts

-----------------------------------------------------------------------------
(* The steps.                                                              *)

written == Insert(tx.table, batch, cols)

(* Sending rows now or later makes no difference. *)
LEMMA QueueKeepsWritten ==
    ASSUME NEW t \in Tx, NEW b \in Seq(Waiter), NEW n \in Nat, Numbered(b, n),
           NEW cs, Queue(t, b, cs), cols' = cs
    PROVE  written' = Insert(t.table, b, cs)
<1>1. CASE IsFull(b, cs)
  <2>1. t.table \in Table
    BY DEF Tx
  <2>2. tx'.table = Insert(t.table, b, cs) /\ batch' = <<>>
    BY <1>1 DEF Queue, Sent
  <2>3. Insert(t.table, b, cs) \in Table
    BY <2>1, InsertTyped DEF Numbered
  <2>. QED
    BY <2>2, <2>3, InsertNothing DEF written
<1>2. CASE ~ IsFull(b, cs)
  BY <1>2 DEF Queue, written
<1>. QED
  BY <1>1, <1>2

(* A row delivered is a row written. *)
LEMMA DeliverRefines ==
    ASSUME DoUpdate, BatchInv, NEW sig \in Signatures, NEW cs \in ColumnSets,
           Replace(sig, cs) \/ Join(sig, cs) \/ StartBatch(sig, cs)
    PROVE  Abstract!WriteRow(KeyOf[sig], cs)
<1>. DEFINE n == Len(rows)
            r == NewRow(sig)
            k == KeyOf[sig]
            m == n + 1
<1>1. VarsTyped /\ Numbered(batch, n)
  BY DEF BatchInv
<1>2. r \in Waiter /\ r.sig = sig /\ r.row = n + 1 /\ n \in Nat
  BY <1>1, NewRowTyped
<1>3. /\ batch \in Seq(Waiter) /\ tx \in Tx /\ cols \in ColumnSets \cup {{}}
      /\ tx.table \in Table
  BY <1>1 DEF VarsTyped, Waiter, Tx, Table
<1>4. /\ status = "reading" /\ status' = "reading" /\ base' = base
      /\ Len(rows') = n + 1
  <2>1. /\ status = "reading" /\ status' = status /\ base' = base
        /\ rows' = Append(rows, [sig |-> sig, cols |-> cs])
    BY DEF Replace, Join, StartBatch, Delivered
  <2>2. rows \in Seq([sig : Signatures, cols : ColumnSets])
    BY <1>1 DEF VarsTyped
  <2>. QED
    BY <2>1, <2>2
<1>m. m = n + 1 /\ m \in Nat
  BY <1>2
<1>. HIDE DEF n, r, k, m
<1>k. k = KeyOf[r.sig] /\ k = KeyOf[sig]
  BY <1>2 DEF k
<1>5. SUFFICES written' = [written EXCEPT ![k] = Stored(written[k], cs, m)]
  <2>1. Stored(written[k], cs, n + 1) = Abstract!Write(written[k], cs, n + 1)
    BY DEF Stored, Abstract!Write
  <2>. QED
    BY <1>4, <1>5, <1>m, <2>1 DEF Abstract!WriteRow, written, n, k
<1>6. /\ Append(batch, r) \in Seq(Waiter) /\ Numbered(Append(batch, r), m)
      /\ \A i \in DOMAIN batch :
            LET c == [batch EXCEPT ![i] = r] IN
            c \in Seq(Waiter) /\ DOMAIN c = DOMAIN batch /\ Numbered(c, m)
  BY <1>1, <1>2, <1>3, <1>m, RowAdded DEF n
<1>7. CASE Replace(sig, cs)
  <2>1. PICK i \in SameKey(sig) : batch' = [batch EXCEPT ![i] = r]
    BY <1>7 DEF Replace, r
  <2>2. cols = cs /\ cols' = cols /\ tx' = tx
    BY <1>7 DEF Replace, Joins
  <2>3. i \in DOMAIN batch /\ batch[i].sig = sig
    BY <2>1 DEF SameKey
  <2>. DEFINE c == [batch EXCEPT ![i] = r]
  <2>4. c \in Seq(Waiter) /\ DOMAIN c = DOMAIN batch /\ Numbered(c, m)
    BY <1>6, <2>3
  <2>5. c[i] = r /\ \A j \in DOMAIN batch : j # i => c[j] = batch[j]
    BY <1>3, <2>3
  <2>. HIDE DEF c
  <2>6. OneMore(batch, c, r)
    <3>1. \A k2 \in Keys \ {KeyOf[r.sig]} : Waiting(c, k2) = Waiting(batch, k2)
      BY <1>2, <2>3, <2>4, <2>5 DEF Waiting
    <3>2. \A k2 \in Keys \ {KeyOf[r.sig]} : \A j \in Waiting(batch, k2) : c[j] = batch[j]
      BY <1>2, <2>3, <2>5 DEF Waiting
    <3>. QED
      BY <2>3, <2>4, <2>5, <3>1, <3>2 DEF OneMore
  <2>7. Insert(tx.table, c, cols) =
          [written EXCEPT ![k] = Stored(written[k], cols, m)]
    <3>1. Puts(Insert(tx.table, batch, cols), Insert(tx.table, c, cols), KeyOf[r.sig], cols, m)
      <4>1. /\ n \in Nat /\ m \in Nat /\ tx.table \in Table /\ cols \in ColumnSets \cup {{}}
            /\ batch \in Seq(Waiter) /\ Numbered(batch, n)
            /\ c \in Seq(Waiter) /\ Numbered(c, m)
            /\ r \in Waiter /\ r.row = m /\ m = n + 1 /\ OneMore(batch, c, r)
        BY <1>1, <1>2, <1>3, <1>m, <2>4, <2>6
      <4>. QED
        BY <4>1, InsertOneMore
    <3>. QED
      BY <1>k, <3>1 DEF written, Puts
  <2>. QED
    BY <2>1, <2>2, <2>7 DEF c, written
<1>8. CASE Join(sig, cs)
  <2>. DEFINE c == Append(batch, r)
  <2>1. Queue(tx, c, cs) /\ cols' = cols /\ cols = cs
    BY <1>8 DEF Join, Joins, r
  <2>2. c \in Seq(Waiter) /\ Numbered(c, m) /\ m \in Nat
    BY <1>2, <1>m, <1>6
  <2>3. /\ DOMAIN batch = 1 .. Len(batch) /\ DOMAIN c = 1 .. (Len(batch) + 1)
        /\ c[Len(batch) + 1] = r /\ Len(batch) \in Nat
        /\ \A j \in DOMAIN batch : c[j] = batch[j]
    BY <1>3
  <2>. HIDE DEF c
  <2>4. OneMore(batch, c, r)
    <3>1. \A k2 \in Keys \ {KeyOf[r.sig]} : Waiting(c, k2) = Waiting(batch, k2)
      <4>. SUFFICES ASSUME NEW k2 \in Keys \ {KeyOf[r.sig]}
                    PROVE  Waiting(c, k2) = Waiting(batch, k2)
        OBVIOUS
      <4>1. \A j \in DOMAIN c : j \in DOMAIN batch \/ j = Len(batch) + 1
        BY <2>3
      <4>2. \A j \in DOMAIN batch : j \in DOMAIN c
        BY <2>3
      <4>. QED
        BY <2>3, <4>1, <4>2 DEF Waiting
    <3>2. \A k2 \in Keys \ {KeyOf[r.sig]} : \A j \in Waiting(batch, k2) : c[j] = batch[j]
      BY <2>3 DEF Waiting
    <3>. QED
      BY <2>3, <3>1, <3>2 DEF OneMore
  <2>5. Insert(tx.table, c, cols) =
          [written EXCEPT ![k] = Stored(written[k], cols, m)]
    <3>1. Puts(Insert(tx.table, batch, cols), Insert(tx.table, c, cols), KeyOf[r.sig], cols, m)
      <4>1. /\ n \in Nat /\ m \in Nat /\ tx.table \in Table /\ cols \in ColumnSets \cup {{}}
            /\ batch \in Seq(Waiter) /\ Numbered(batch, n)
            /\ c \in Seq(Waiter) /\ Numbered(c, m)
            /\ r \in Waiter /\ r.row = m /\ m = n + 1 /\ OneMore(batch, c, r)
        BY <1>1, <1>2, <1>3, <1>m, <2>2, <2>4
      <4>. QED
        BY <4>1, InsertOneMore
    <3>. QED
      BY <1>k, <3>1 DEF written, Puts
  <2>6. written' = Insert(tx.table, c, cs)
    BY <1>3, <2>1, <2>2, QueueKeepsWritten
  <2>. QED
    BY <2>1, <2>5, <2>6
<1>9. CASE StartBatch(sig, cs)
  <2>. DEFINE t == Sent(tx, batch, cols)
              c == <<r>>
              none == <<>>
  <2>1. Queue(t, c, cs) /\ cols' = cs
    BY <1>9 DEF StartBatch, r
  <2>2. t.table = written /\ written \in Table
    BY <1>1, <1>2, <1>3, InsertTyped DEF Sent, written, Numbered, n
  <2>3. t \in Tx
    <3>1. /\ Affected(tx.table, batch) \in Nat /\ tx.inserted \in Nat
          /\ tx.params \in Nat /\ Len(batch) \in Nat /\ Width(cols) \in Nat
      <4>1. Affected(tx.table, batch) \in Nat
        BY <1>1, <1>2, <1>3, InsertTyped DEF Numbered
      <4>2. Width(cols) \in Nat
        BY <1>3, WidthFits
      <4>. QED
        BY <1>3, <4>1, <4>2 DEF Tx
    <3>2. Len(batch) * Width(cols) \in Nat
      BY <3>1
    <3>3. \E p \in Nat : t = [table |-> written,
                              inserted |-> tx.inserted + Affected(tx.table, batch),
                              params |-> p]
      BY <3>1, <3>2 DEF Sent, written
    <3>4. tx.inserted + Affected(tx.table, batch) \in Nat
      BY <3>1
    <3>. QED
      BY <2>2, <3>3, <3>4 DEF Tx
  <2>4. /\ c \in Seq(Waiter) /\ Numbered(c, m)
        /\ none \in Seq(Waiter) /\ Numbered(none, n) /\ m \in Nat
    BY <1>2, <1>m, RowAlone DEF Numbered
  <2>5. OneMore(none, c, r)
    <3>1. DOMAIN c = {1} /\ c[1] = r
      OBVIOUS
    <3>. QED
      BY <3>1 DEF OneMore, Waiting
  <2>. HIDE DEF t, c, none
  <2>6. Insert(written, none, cs) = written
    BY <2>2, InsertNothing DEF none
  <2>7. Insert(written, c, cs) =
          [written EXCEPT ![k] = Stored(written[k], cs, m)]
    <3>1. Puts(Insert(written, none, cs), Insert(written, c, cs), KeyOf[r.sig], cs, m)
      <4>1. /\ n \in Nat /\ m \in Nat /\ written \in Table /\ cs \in ColumnSets \cup {{}}
            /\ none \in Seq(Waiter) /\ Numbered(none, n)
            /\ c \in Seq(Waiter) /\ Numbered(c, m)
            /\ r \in Waiter /\ r.row = m /\ m = n + 1 /\ OneMore(none, c, r)
        BY <1>2, <1>m, <2>2, <2>4, <2>5
      <4>. QED
        BY <4>1, InsertOneMore
    <3>. QED
      BY <1>k, <3>1, <2>6 DEF Puts
  <2>8. written' = Insert(written, c, cs)
    BY <2>1, <2>2, <2>3, <2>4, QueueKeepsWritten
  <2>. QED
    BY <2>7, <2>8
<1>. QED
  BY <1>7, <1>8, <1>9

(* The last batch is written already; a rollback takes everything back. *)
LEMMA EndRefines ==
    ASSUME BatchInv, Finish \/ Fail
    PROVE  Abstract!Commit \/ Abstract!Fail
<1>1. /\ tx.table \in Table /\ base \in Table
      /\ batch \in Seq(Waiter) /\ Numbered(batch, Len(rows)) /\ Len(rows) \in Nat
      /\ tx \in Tx
  BY DEF BatchInv, VarsTyped, Table, Waiter, Tx
<1>2. CASE Finish
  <2>1. /\ tx'.table = written /\ batch' = <<>> /\ cols' = cols /\ rows' = rows
        /\ base' = base /\ status = "reading" /\ status' = "committed"
    BY <1>2 DEF Finish, Sent, written
  <2>2. written \in Table
    BY <1>1, InsertTyped DEF written, Numbered
  <2>3. Insert(tx'.table, batch', cols') = written
    BY <2>1, <2>2, InsertNothing
  <2>. QED
    BY <2>1, <2>3 DEF Abstract!Commit, written
<1>3. CASE Fail
  <2>1. /\ tx'.table = base /\ batch' = <<>> /\ cols' = cols /\ rows' = rows
        /\ base' = base /\ status = "reading" /\ status' = "failed"
    BY <1>1, <1>3 DEF Fail, Tx
  <2>2. Insert(tx'.table, batch', cols') = base
    BY <1>1, <2>1, InsertNothing
  <2>. QED
    BY <2>1, <2>2 DEF Abstract!Fail
<1>. QED
  BY <1>2, <1>3

(* With do_update, whatever the batch size, the limit on parameters, the   *)
(* columns and the keys of the rows, and whichever INSERT fails, the       *)
(* transaction holds what writing the rows one by one would have made of   *)
(* the table, and commits all of it or nothing.                            *)
THEOREM Refines == DoUpdate => (Spec => ImplementsRowByRow)
<1>. SUFFICES ASSUME DoUpdate PROVE Spec => ImplementsRowByRow
  OBVIOUS
<1>1. Init => Abstract!Init
  <2>. SUFFICES ASSUME Init PROVE Abstract!Init
    OBVIOUS
  <2>1. base \in Table /\ base \in Tables /\ tx.table = base
    BY RowBatchAssumption DEF Init, Table
  <2>2. Insert(tx.table, batch, cols) = base
    BY <2>1, InsertNothing DEF Init
  <2>. QED
    BY <2>1, <2>2 DEF Init, Abstract!Init
<1>2. BatchInv /\ [Next]_vars => [Abstract!Next]_(Abstract!vars)
  <2>1. UNCHANGED vars => UNCHANGED Abstract!vars
    BY DEF vars, Abstract!vars
  <2>2. ASSUME BatchInv, NEW sig \in Signatures, NEW cs \in ColumnSets,
               Replace(sig, cs) \/ Join(sig, cs) \/ StartBatch(sig, cs)
        PROVE  Abstract!Next
    <3>1. KeyOf[sig] \in Keys
      BY RowBatchAssumption
    <3>. QED
      BY <2>2, <3>1, DeliverRefines DEF Abstract!Next
  <2>. QED
    BY <2>1, <2>2, EndRefines DEF Next, Abstract!Next
<1>. QED
  BY <1>1, <1>2, BatchInvariant, PTL DEF Spec, ImplementsRowByRow, Abstract!Spec
=============================================================================
