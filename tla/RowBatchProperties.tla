------------------------- MODULE RowBatchProperties -------------------------
(***************************************************************************)
(* What batching may and may not change about the rows of a file.          *)
(***************************************************************************)
EXTENDS RowBatch

(* The types of the variables. *)
VarsTyped ==
    /\ rows \in Seq([sig : Signatures, cols : ColumnSets])
    /\ base \in [Keys -> StoredRow \cup {Absent}]
    /\ tx \in [table : [Keys -> StoredRow \cup {Absent}],
               inserted : Nat, params : Nat]
    /\ batch \in Seq([sig : Signatures, row : Nat \ {0}])
    /\ cols \in ColumnSets \cup {{}}
    /\ latest \in 0 .. Len(rows)
    /\ status \in {"reading", "committed", "failed"}

(* The batch holds rows of the file with their keys, all of the columns    *)
(* batchColumns, and has room for one more.                                *)
BatchOfRows ==
    /\ \A i \in DOMAIN batch :
          /\ batch[i].row \in DOMAIN rows
          /\ rows[batch[i].row] = [sig |-> batch[i].sig, cols |-> cols]
    /\ batch # <<>> => Len(batch) < EffectiveBatchSize(Width(cols))

(* Every variable keeps its type; the rows waiting are among the rows      *)
(* delivered, less than one statement's worth of them, and of equal        *)
(* columns, those of the batch.                                            *)
TypeOK == VarsTyped /\ BatchOfRows

(* No INSERT has more parameters than PostgreSQL takes, whatever the batch *)
(* size configured and the columns of the rows (effectiveBatchSize).       *)
ParametersWithinLimit ==
    /\ tx.params <= MaxParameters
    /\ Len(batch) * Width(cols) <= MaxParameters

(* With a primary key whose values print as they compare, no INSERT is     *)
(* refused for holding a key twice, though the file may repeat keys        *)
(* (batchPrimaryKeyRows).                                                  *)
InsertsAccepted ==
    (HasPrimaryKey /\ \A s, t \in Signatures : KeyOf[s] = KeyOf[t] => s = t)
        => ~Refused(batch)

(* do_update: at every step the table, with the batch that waits, is what  *)
(* the rows would have made of it one by one; so is what is committed.     *)
Abstract == INSTANCE RowByRow WITH
    count <- Len(rows),
    written <- Insert(tx.table, batch, cols),
    visible <- IF status = "committed" THEN tx.table ELSE base,
    status <- status

ImplementsRowByRow == Abstract!Spec

(* Row i is the first of the file with key k. *)
FirstRow(rs, k, i) ==
    /\ i \in DOMAIN rs /\ KeyOf[rs[i].sig] = k
    /\ \A j \in 1 .. (i - 1) : KeyOf[rs[j].sig] # k

(* Row j can be where row i was waiting: it is i, or the table has a       *)
(* primary key, both print the same key and no row from i to j has other   *)
(* columns.                                                                *)
TakesPlace(rs, i, j) ==
    /\ i \in DOMAIN rs /\ j \in DOMAIN rs /\ i <= j
    /\ i # j => HasPrimaryKey
    /\ rs[j].sig = rs[i].sig
    /\ \A n \in i .. j : rs[n].cols = rs[i].cols

(* do_nothing, a file that repeats a key: what batching stores for a new   *)
(* key is the key's first row, or a later one that took its place while it *)
(* waited.  A row of an earlier batch is never overtaken by one of a later *)
(* batch, nor by one whose key prints in another way (writer.go:297-337).  *)
EarlierBatchWins ==
    ~DoUpdate => \A k \in Keys : tx.table[k] # base[k] =>
        \E i, j \in DOMAIN rows :
            /\ FirstRow(rows, k, i)
            /\ TakesPlace(rows, i, j)
            /\ tx.table[k] = Stored(Absent, rows[j].cols, j)

(* do_nothing: a committed file has its keys in the table, each new one    *)
(* with the values of one of the file's rows, and RowsInserted is the      *)
(* number of keys that were not there before.                              *)
EveryKeyStored ==
    (~DoUpdate /\ status = "committed") =>
        /\ \A i \in DOMAIN rows : tx.table[KeyOf[rows[i].sig]] # Absent
        /\ \A k \in Keys : tx.table[k] # base[k] =>
              \E i \in DOMAIN rows :
                  /\ KeyOf[rows[i].sig] = k
                  /\ tx.table[k] = Stored(Absent, rows[i].cols, i)
        /\ tx.inserted =
              Cardinality({k \in Keys : base[k] = Absent /\ tx.table[k] # Absent})
=============================================================================
