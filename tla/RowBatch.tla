------------------------------ MODULE RowBatch ------------------------------
(***************************************************************************)
(* How writeSingleFile (internal/timescaledb/writer.go) turns the rows of  *)
(* one file into INSERT statements: rows of equal columns wait in a batch, *)
(* a row whose key is already waiting takes the place of the waiting one,  *)
(* and a batch is sent when it is full, when the columns change and at the *)
(* end of the file.                                                        *)
(*                                                                         *)
(* A row carries its number in the file as the value of every column it    *)
(* has; 0 is null.  ts, source_file, source_line_number and flags are in   *)
(* every row and only count as parameters.  The reader's and the payload's *)
(* errors are Fail; so is any other error of the database.                 *)
(***************************************************************************)
EXTENDS Integers, Sequences, FiniteSets

CONSTANTS
    Keys,           \* key values PostgreSQL tells apart
    Signatures,     \* key values buildPrimaryKeySignature tells apart
    KeyOf,          \* the key each signature is the text of
    HasPrimaryKey,  \* does the table have a primary key, of columns rows have
    Columns,        \* the table's other columns
    ColumnSets,     \* those a row of the file may have
    Absent,         \* no row of a key
    Tables,         \* what the table may hold before
    DoUpdate,       \* on_conflict: do_update, else do_nothing
    BatchSize,      \* batch_size; Validate turns 0 and less into 5000
    MaxParameters,  \* maxPostgresParameters
    MaxRows         \* bounds the model: rows of the file

FixedColumns == 4

Width(cs) == FixedColumns + Cardinality(cs)

StoredRow == [Columns -> Nat]

(* A table has at most 1600 columns and a statement 65535 parameters. *)
ASSUME RowBatchAssumption ==
    /\ KeyOf \in [Signatures -> Keys]
    /\ HasPrimaryKey \in BOOLEAN /\ DoUpdate \in BOOLEAN
    /\ IsFiniteSet(Columns)
    /\ ColumnSets \subseteq SUBSET Columns
    /\ Absent \notin StoredRow
    /\ Tables \subseteq [Keys -> StoredRow \cup {Absent}]
    /\ BatchSize \in Nat \ {0}
    /\ MaxParameters \in Nat
    /\ FixedColumns + Cardinality(Columns) <= MaxParameters
    /\ MaxRows \in Nat

VARIABLES
    rows,      \* the rows delivered so far
    base,      \* the table before the transaction
    tx,        \* the transaction: the table as it sees it, the rows
               \* inserted (result.RowsInserted) and, as history, the most
               \* parameters an INSERT has had
    batch,     \* batchValues and batchPrimaryKeyRows: the rows waiting
    cols,      \* batchColumns
    latest,    \* the row latestRow, and the last checkpoint, are of
    status     \* "reading", "committed" or "failed"

vars == <<rows, base, tx, batch, cols, latest, status>>

-----------------------------------------------------------------------------
(* buildInsertStatement's INSERT ... ON CONFLICT and what it does.         *)

Waiting(b, k) == {i \in DOMAIN b : KeyOf[b[i].sig] = k}

(* ON CONFLICT DO UPDATE cannot affect a row a second time. *)
Refused(b) ==
    DoUpdate /\ \E i, j \in DOMAIN b : i # j /\ KeyOf[b[i].sig] = KeyOf[b[j].sig]

(* The row that counts for key k: the only one under do_update (the newest *)
(* if the statement will be refused), the first one under do_nothing.      *)
Winner(b, k) ==
    CHOOSE i \in Waiting(b, k) : \A j \in Waiting(b, k) :
        IF DoUpdate THEN b[j].row <= b[i].row ELSE i <= j

Stored(old, cs, v) ==
    [c \in Columns |->
        IF c \in cs THEN v ELSE IF old = Absent THEN 0 ELSE old[c]]

(* Mutant: the columns a row lacks are set to null. *)
InsertsNulls(t, b, cs) ==
    [k \in Keys |->
        IF Waiting(b, k) = {} THEN t[k]
        ELSE Stored(Absent, cs, b[Winner(b, k)].row)]

Insert(t, b, cs) ==
    [k \in Keys |->
        IF Waiting(b, k) = {} \/ (~DoUpdate /\ t[k] # Absent)
        THEN t[k]
        ELSE Stored(t[k], cs, b[Winner(b, k)].row)]

(* RowsAffected. *)
Affected(t, b) ==
    IF DoUpdate
    THEN Len(b)
    ELSE Cardinality({k \in Keys : Waiting(b, k) # {} /\ t[k] = Absent})

(* Mutant: the limit on parameters is forgotten. *)
ConfiguredBatchSize(width) == BatchSize

EffectiveBatchSize(width) ==
    LET byParameters == MaxParameters \div width IN
    IF byParameters <= 0 THEN 1
    ELSE IF BatchSize < byParameters THEN BatchSize ELSE byParameters

-----------------------------------------------------------------------------
Init ==
    /\ rows = <<>>
    /\ base \in Tables
    /\ tx = [table |-> base, inserted |-> 0, params |-> 0]
    /\ batch = <<>>
    /\ cols = {}
    /\ latest = 0
    /\ status = "reading"

(* flushBatch: the transaction after batch b of columns cs, which may be   *)
(* empty, is sent.                                                         *)
Sent(t, b, cs) ==
    LET p == Len(b) * Width(cs) IN
    [table    |-> Insert(t.table, b, cs),
     inserted |-> t.inserted + Affected(t.table, b),
     params   |-> IF t.params < p THEN p ELSE t.params]

IsFull(b, cs) == Len(b) >= EffectiveBatchSize(Width(cs))

(* Mutant: rows are numbered from 0. *)
RowBefore(sig) == [sig |-> sig, row |-> Len(rows)]

NewRow(sig) == [sig |-> sig, row |-> Len(rows) + 1]

(* Mutant: the columns are not compared. *)
JoinsAny(cs) == batch # <<>>

(* sameColumns, when a row with columns cs arrives. *)
Joins(cs) == batch # <<>> /\ cols = cs

(* Mutant: batchPrimaryKeyRows is not looked at. *)
NoSameKey(sig) == {}

SameKey(sig) ==
    IF HasPrimaryKey THEN {i \in DOMAIN batch : batch[i].sig = sig} ELSE {}

Delivered(sig, cs) ==
    /\ status = "reading"
    /\ Len(rows) < MaxRows
    /\ rows' = Append(rows, [sig |-> sig, cols |-> cs])
    /\ UNCHANGED <<base, status>>

(* The key is waiting already: its row is replaced, and the callback       *)
(* returns before latestRow and the checkpoints.                           *)
Replace(sig, cs) ==
    /\ Delivered(sig, cs)
    /\ Joins(cs)
    /\ \E i \in SameKey(sig) : batch' = [batch EXCEPT ![i] = NewRow(sig)]
    /\ UNCHANGED <<tx, cols, latest>>

(* What a row added to the batch does, t being the transaction before. *)
Queue(t, b, cs) ==
    IF IsFull(b, cs)
    THEN tx' = Sent(t, b, cs) /\ batch' = <<>>
    ELSE tx' = t /\ batch' = b

Join(sig, cs) ==
    /\ Delivered(sig, cs)
    /\ Joins(cs)
    /\ SameKey(sig) = {}
    /\ LET b == Append(batch, NewRow(sig)) IN
       /\ IsFull(b, cs) => ~Refused(b)
       /\ Queue(tx, b, cs)
    /\ latest' = Len(rows')
    /\ UNCHANGED cols

(* There is no batch, or one of other columns, which is sent first. *)
StartBatch(sig, cs) ==
    /\ Delivered(sig, cs)
    /\ ~Joins(cs)
    /\ ~Refused(batch)
    /\ Queue(Sent(tx, batch, cols), <<NewRow(sig)>>, cs)
    /\ cols' = cs
    /\ latest' = Len(rows')

(* Mutant: the rows still waiting at the end of the file are forgotten. *)
FinishUnsent ==
    /\ status = "reading"
    /\ batch' = <<>>
    /\ status' = "committed"
    /\ UNCHANGED <<rows, base, tx, cols, latest>>

(* The last flushBatch and tx.Commit. *)
Finish ==
    /\ status = "reading"
    /\ ~Refused(batch)
    /\ tx' = Sent(tx, batch, cols)
    /\ batch' = <<>>
    /\ status' = "committed"
    /\ UNCHANGED <<rows, base, cols, latest>>

(* An error at any point, a refused INSERT included; tx.Rollback. *)
Fail ==
    /\ status = "reading"
    /\ tx' = [tx EXCEPT !.table = base]
    /\ batch' = <<>>
    /\ status' = "failed"
    /\ UNCHANGED <<rows, base, cols, latest>>

Next ==
    \/ \E sig \in Signatures, cs \in ColumnSets :
          Replace(sig, cs) \/ Join(sig, cs) \/ StartBatch(sig, cs)
    \/ Finish
    \/ Fail

Spec == Init /\ [][Next]_vars
=============================================================================
