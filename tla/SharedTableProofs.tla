------------------------- MODULE SharedTableProofs --------------------------
(***************************************************************************)
(* Proofs about SharedTable, for any files, keys and number of workers.    *)
(***************************************************************************)
EXTENDS SharedTableProperties, FiniteSetTheorems, TLAPS

(* The keys a transaction has written are locked by it. *)
LocksInv ==
    \A f \in Files : \A k \in mine[f] : at[f] = "writing" /\ lock[k] = f

(* What a transaction has done with the rows before pos: it has written    *)
(* them or, under do_nothing, met a committed row.                         *)
RowsInv ==
    \A f \in Files :
        /\ at[f] = "queued" => pos[f] = 0
        /\ mine[f] \subseteq KeySet[f]
        /\ ~DoUpdate => \A k \in mine[f] : table[k] = NoRow
        /\ at[f] = "writing" =>
              \A i \in 1 .. pos[f] :
                  \/ KeysOf[f][i] \in mine[f]
                  \/ ~DoUpdate /\ table[KeysOf[f][i]] # NoRow

(* A file is committed once, and not before its commit. *)
CommitsInv ==
    /\ \A i, j \in 1 .. Len(commits) : commits[i] = commits[j] => i = j
    /\ \A i \in 1 .. Len(commits) : at[commits[i]] \notin {"queued", "writing"}

(* Only whole files are renamed. *)
ExportInv ==
    /\ \A f \in Files : at[f] = "filled" => temp[f].whole
    /\ PromIsWhole

TableInv == TypeOK /\ LocksInv /\ RowsInv /\ CommitsInv /\ ExportInv

-----------------------------------------------------------------------------
LEMMA KeysTyped ==
    ASSUME NEW f \in Files, NEW i \in 1 .. Len(KeysOf[f])
    PROVE  /\ KeysOf[f][i] \in Keys
           /\ KeysOf[f][i] \in KeySet[f]
           /\ Len(KeysOf[f]) \in Nat
<1>1. KeysOf[f] \in Seq(Keys)
  BY SharedTableAssumption
<1>. QED
  BY <1>1 DEF KeySet

LEMMA TableInit == Init => TableInv
<1>. SUFFICES ASSUME Init PROVE TableInv
  OBVIOUS
<1>. USE SharedTableAssumption DEF Init
<1>1. TypeOK
  <2>1. \A f \in Files : pos[f] <= Len(KeysOf[f])
    BY DEF Files
  <2>2. Absent \in [row : 0 .. NFiles, whole : BOOLEAN]
    BY DEF Absent
  <2>3. table \in [Keys -> (0 .. NFiles) \cup {NoRow}]
    OBVIOUS
  <2>4. lock \in [Keys -> 0 .. NFiles]
    OBVIOUS
  <2>5. commits \in Seq(Files) /\ Len(commits) <= NFiles
    OBVIOUS
  <2>. QED
    BY <2>1, <2>2, <2>3, <2>4, <2>5 DEF TypeOK
<1>2. LocksInv /\ RowsInv /\ CommitsInv /\ ExportInv
  BY DEF LocksInv, RowsInv, CommitsInv, ExportInv, PromIsWhole, Absent
<1>. QED
  BY <1>1, <1>2 DEF TableInv

LEMMA BeginKeeps ==
    ASSUME TableInv, NEW f \in Files, Begin(f)
    PROVE  TableInv'
<1>. USE SharedTableAssumption DEF TableInv
<1>1. /\ at[f] = "queued" /\ at' = [at EXCEPT ![f] = "writing"]
      /\ UNCHANGED <<pos, mine, lock, table, commits, temp, prom, failures>>
  BY DEF Begin, transactions, export
<1>2. at'[f] = "writing" /\ \A g \in Files : g # f => at'[g] = at[g]
  BY <1>1 DEF TypeOK
<1>3. TypeOK'
  BY <1>1 DEF TypeOK
<1>4. mine[f] = {} /\ pos[f] = 0
  BY <1>1 DEF LocksInv, RowsInv
<1>5. LocksInv'
  BY <1>1, <1>2, <1>4 DEF LocksInv
<1>6. RowsInv'
  BY <1>1, <1>2, <1>4 DEF RowsInv
<1>7. CommitsInv'
  <2>1. \A i \in 1 .. Len(commits) : commits[i] \in Files /\ commits[i] # f
    BY <1>1 DEF CommitsInv, TypeOK
  <2>. QED
    BY <1>1, <1>2, <2>1 DEF CommitsInv
<1>8. ExportInv'
  BY <1>1, <1>2 DEF ExportInv, PromIsWhole
<1>. QED
  BY <1>3, <1>5, <1>6, <1>7, <1>8

LEMMA WriteKeeps ==
    ASSUME TableInv, NEW f \in Files, WriteRow(f)
    PROVE  TableInv'
<1>. USE SharedTableAssumption DEF TableInv
<1>. DEFINE n == pos[f] + 1
            k == KeysOf[f][n]
<1>1. /\ at[f] = "writing" /\ n \in 1 .. Len(KeysOf[f]) /\ lock[k] \in {0, f}
      /\ pos' = [pos EXCEPT ![f] = n]
      /\ UNCHANGED <<at, table, commits, temp, prom, failures>>
  BY KeysTyped DEF WriteRow, HasNext, Blocked, NextKey, TypeOK, export
<1>2. k \in Keys /\ k \in KeySet[f] /\ n \in Nat /\ n <= Len(KeysOf[f])
  BY <1>1, KeysTyped
<1>3. IF Writes(f)
      THEN /\ mine' = [mine EXCEPT ![f] = @ \cup {k}]
           /\ lock' = [lock EXCEPT ![k] = f]
      ELSE UNCHANGED <<mine, lock>>
  BY DEF WriteRow, NextKey
<1>4. Writes(f) <=> DoUpdate \/ (table[k] = NoRow /\ k \notin mine[f])
  BY DEF Writes, NextKey
<1>5. /\ pos'[f] = n /\ (\A g \in Files : g # f => pos'[g] = pos[g])
      /\ pos[f] \in Nat /\ n = pos[f] + 1
      /\ \A i \in 1 .. n : i \in 1 .. pos[f] \/ i = n
  BY <1>1 DEF TypeOK
<1>6. \A g \in Files : k \in mine[g] => g = f
  <2>1. \A g \in Files : g # 0
    BY DEF Files
  <2>. QED
    BY <1>1, <2>1 DEF LocksInv
<1>. HIDE DEF k, n
<1>7. TypeOK'
  <2>. DEFINE Places == 0 .. NFiles
  <2>0. /\ mine \in [Files -> SUBSET Keys] /\ lock \in [Keys -> Places]
        /\ f \in Places
    BY DEF TypeOK, Files
  <2>. HIDE DEF Places
  <2>1. mine' \in [Files -> SUBSET Keys]
    <3>1. CASE Writes(f)
      <4>1. mine[f] \cup {k} \in SUBSET Keys
        BY <1>2, <2>0
      <4>2. mine' = [mine EXCEPT ![f] = mine[f] \cup {k}]
        BY <1>3, <3>1
      <4>. QED
        BY <2>0, <4>1, <4>2
    <3>2. CASE ~Writes(f)
      BY <1>3, <2>0, <3>2
    <3>. QED
      BY <3>1, <3>2
  <2>2. lock' \in [Keys -> Places]
    <3>1. CASE Writes(f)
      <4>1. lock' = [lock EXCEPT ![k] = f]
        BY <1>3, <3>1
      <4>. QED
        BY <1>2, <2>0, <4>1
    <3>2. CASE ~Writes(f)
      BY <1>3, <2>0, <3>2
    <3>. QED
      BY <3>1, <3>2
  <2>3. pos' \in [Files -> Nat]
    BY <1>1, <1>2 DEF TypeOK
  <2>4. \A g \in Files : pos'[g] <= Len(KeysOf[g])
    BY <1>2, <1>5 DEF TypeOK
  <2>. QED
    BY <1>1, <2>1, <2>2, <2>3, <2>4 DEF TypeOK, Places
<1>8. /\ \A g \in Files : g # f => mine'[g] = mine[g]
      /\ mine[f] \subseteq mine'[f] /\ mine'[f] \subseteq mine[f] \cup {k}
      /\ Writes(f) => k \in mine'[f] /\ lock'[k] = f
      /\ ~Writes(f) => mine'[f] = mine[f]
      /\ \A l \in Keys : l # k => lock'[l] = lock[l]
      /\ ~Writes(f) => lock' = lock
  BY <1>2, <1>3 DEF TypeOK
<1>9. LocksInv'
  <2>. SUFFICES ASSUME NEW g \in Files, NEW l \in mine'[g]
                PROVE  at[g] = "writing" /\ lock'[l] = g
    BY <1>1 DEF LocksInv
  <2>0. l \in Keys
    BY <1>7 DEF TypeOK
  <2>1. CASE g # f
    <3>1. l \in mine[g] /\ l # k
      BY <1>6, <1>8, <2>1
    <3>. QED
      BY <1>8, <2>0, <3>1 DEF LocksInv
  <2>2. CASE g = f
    <3>1. CASE l = k
      <4>1. CASE Writes(f)
        BY <1>1, <1>8, <2>2, <3>1, <4>1
      <4>2. CASE ~Writes(f)
        BY <1>1, <1>8, <2>2, <3>1, <4>2 DEF LocksInv
      <4>. QED
        BY <4>1, <4>2
    <3>2. CASE l # k
      <4>1. l \in mine[f]
        BY <1>8, <2>2, <3>2
      <4>. QED
        BY <1>1, <1>8, <2>0, <2>2, <3>2, <4>1 DEF LocksInv
    <3>. QED
      BY <3>1, <3>2
  <2>. QED
    BY <2>1, <2>2
<1>10. RowsInv'
  <2>1. ASSUME NEW g \in Files, g # f
        PROVE  /\ at'[g] = at[g] /\ pos'[g] = pos[g] /\ mine'[g] = mine[g]
    BY <1>1, <1>5, <1>8, <2>1
  <2>2. /\ at'[f] # "queued"
        /\ mine'[f] \subseteq KeySet[f]
        /\ ~DoUpdate => \A l \in mine'[f] : table[l] = NoRow
    <3>1. mine'[f] \subseteq KeySet[f]
      BY <1>2, <1>8 DEF RowsInv
    <3>2. ASSUME ~DoUpdate, NEW l \in mine'[f] PROVE table[l] = NoRow
      <4>1. CASE Writes(f)
        BY <1>4, <1>8, <3>2, <4>1 DEF RowsInv
      <4>2. CASE ~Writes(f)
        BY <1>8, <3>2, <4>2 DEF RowsInv
      <4>. QED
        BY <4>1, <4>2
    <3>. QED
      BY <1>1, <3>1, <3>2
  <2>3. \A i \in 1 .. pos'[f] :
            \/ KeysOf[f][i] \in mine'[f]
            \/ ~DoUpdate /\ table[KeysOf[f][i]] # NoRow
    <3>. SUFFICES ASSUME NEW i \in 1 .. n
                  PROVE  \/ KeysOf[f][i] \in mine'[f]
                         \/ ~DoUpdate /\ table[KeysOf[f][i]] # NoRow
      BY <1>5
    <3>1. CASE i \in 1 .. pos[f]
      BY <1>1, <1>8, <3>1 DEF RowsInv
    <3>2. CASE i = n
      <4>1. KeysOf[f][i] = k
        BY <3>2 DEF k
      <4>. QED
        BY <1>4, <1>8, <4>1
    <3>. QED
      BY <1>5, <3>1, <3>2
  <2>. QED
    BY <1>1, <2>1, <2>2, <2>3 DEF RowsInv
<1>11. CommitsInv' /\ ExportInv'
  BY <1>1 DEF CommitsInv, ExportInv, PromIsWhole
<1>. QED
  BY <1>7, <1>9, <1>10, <1>11

(* A file that is not committed leaves room in commits. *)
LEMMA RoomToCommit ==
    ASSUME TableInv, NEW f \in Files, at[f] = "writing"
    PROVE  Len(commits) + 1 <= NFiles
<1>. USE SharedTableAssumption DEF TableInv
<1>. DEFINE n == Len(commits)
            fileOf == [i \in 1 .. n |-> commits[i]]
<1>1. commits \in Seq(Files) /\ n \in Nat
  BY DEF TypeOK
<1>2. \A i \in 1 .. n : commits[i] \in Files \ {f}
  BY <1>1 DEF CommitsInv
<1>3. IsFiniteSet(Files) /\ Cardinality(Files) = NFiles
  BY FS_Interval DEF Files
<1>4. IsFiniteSet(Files \ {f}) /\ Cardinality(Files \ {f}) = NFiles - 1
  BY <1>3, FS_RemoveElement
<1>5. \A i, j \in 1 .. n : commits[i] = commits[j] => i = j
  BY DEF CommitsInv
<1>. HIDE DEF n
<1>6. Cardinality(1 .. n) = n
  <2>1. n \in Int /\ 1 \in Int
    BY <1>1
  <2>2. Cardinality(1 .. n) = IF 1 > n THEN 0 ELSE n - 1 + 1
    BY <2>1, FS_Interval
  <2>. QED
    BY <1>1, <2>2
<1>7. fileOf \in Injection(1 .. n, Files \ {f})
  BY <1>2, <1>5 DEF Injection, IsInjective
<1>8. Cardinality(1 .. n) <= Cardinality(Files \ {f})
  BY <1>4, <1>7, FS_Injection
<1>. QED
  BY <1>1, <1>4, <1>6, <1>8 DEF n

LEMMA CommitKeeps ==
    ASSUME TableInv, NEW f \in Files, NEW next \in {"committed", "done", "failed"},
           CommitTo(f, next), failures' \in Nat
    PROVE  TableInv'
<1>. USE SharedTableAssumption DEF TableInv
<1>1. /\ at[f] = "writing" /\ at' = [at EXCEPT ![f] = next]
      /\ table' = Applied(f) /\ lock' = Released(f)
      /\ mine' = [mine EXCEPT ![f] = {}] /\ commits' = Append(commits, f)
      /\ UNCHANGED <<pos, temp, prom>>
  BY DEF CommitTo, export
<1>2. /\ at'[f] = next /\ mine'[f] = {}
      /\ \A g \in Files : g # f => at'[g] = at[g] /\ mine'[g] = mine[g]
      /\ \A g \in Files : g # 0 /\ g # NoRow
  BY <1>1 DEF TypeOK, Files
<1>3. \A k \in Keys :
          /\ table'[k] = IF k \in mine[f] THEN f ELSE table[k]
          /\ lock'[k] = IF lock[k] = f THEN 0 ELSE lock[k]
  BY <1>1 DEF Applied, Released
<1>4. TypeOK'
  <2>1. table' \in [Keys -> (0 .. NFiles) \cup {NoRow}]
    BY <1>1 DEF TypeOK, Applied, Files
  <2>2. lock' \in [Keys -> 0 .. NFiles]
    BY <1>1 DEF TypeOK, Released
  <2>3. mine' \in [Files -> SUBSET Keys]
    BY <1>1 DEF TypeOK
  <2>4. commits' \in Seq(Files) /\ Len(commits') <= NFiles
    <3>1. commits \in Seq(Files) /\ Len(commits) + 1 <= NFiles
      BY <1>1, RoomToCommit DEF TypeOK
    <3>. QED
      BY <1>1, <3>1
  <2>5. at' \in [Files -> {"queued", "writing", "committed", "filling", "filled",
                          "done", "failed"}]
    BY <1>1 DEF TypeOK
  <2>. QED
    BY <1>1, <2>1, <2>2, <2>3, <2>4, <2>5 DEF TypeOK
<1>5. LocksInv'
  <2>. SUFFICES ASSUME NEW g \in Files, NEW k \in mine'[g]
                PROVE  at'[g] = "writing" /\ lock'[k] = g
    BY DEF LocksInv
  <2>1. g # f /\ k \in mine[g] /\ k \in Keys
    BY <1>2 DEF TypeOK
  <2>. QED
    BY <1>2, <1>3, <2>1 DEF LocksInv
<1>6. RowsInv'
  <2>1. ASSUME NEW g \in Files, g # f, NEW k \in mine[g]
        PROVE  table'[k] = table[k]
    <3>1. k \in Keys /\ k \notin mine[f]
      BY <2>1 DEF LocksInv, TypeOK
    <3>. QED
      BY <1>3, <3>1
  <2>2. ASSUME NEW k \in Keys, table[k] # NoRow PROVE table'[k] # NoRow
    BY <1>2, <1>3, <2>2
  <2>3. ASSUME NEW g \in Files, g # f
        PROVE  /\ at'[g] = "queued" => pos[g] = 0
               /\ mine'[g] \subseteq KeySet[g]
               /\ ~DoUpdate => \A k \in mine'[g] : table'[k] = NoRow
    BY <1>2, <2>1, <2>3 DEF RowsInv
  <2>4. ASSUME NEW g \in Files, g # f, at'[g] = "writing", NEW i \in 1 .. pos[g]
        PROVE  \/ KeysOf[g][i] \in mine'[g]
               \/ ~DoUpdate /\ table'[KeysOf[g][i]] # NoRow
    <3>1. KeysOf[g][i] \in Keys
      <4>1. Len(KeysOf[g]) \in Nat /\ pos[g] \in Nat /\ pos[g] <= Len(KeysOf[g])
        BY DEF TypeOK
      <4>2. i \in 1 .. Len(KeysOf[g])
        BY <4>1
      <4>. QED
        BY <4>2, KeysTyped
    <3>. QED
      BY <1>2, <2>2, <2>4, <3>1 DEF RowsInv
  <2>. QED
    BY <1>1, <1>2, <2>3, <2>4 DEF RowsInv
<1>7. CommitsInv'
  <2>1. commits \in Seq(Files) /\ Len(commits) \in Nat
    BY DEF TypeOK
  <2>2. \A i \in 1 .. Len(commits) : commits[i] # f /\ commits[i] \in Files
    BY <1>1, <2>1 DEF CommitsInv
  <2>3. /\ Len(commits') = Len(commits) + 1
        /\ commits'[Len(commits) + 1] = f
        /\ \A i \in 1 .. Len(commits) : commits'[i] = commits[i]
    BY <1>1, <2>1
  <2>4. \A i \in 1 .. Len(commits') : i \in 1 .. Len(commits) \/ i = Len(commits) + 1
    BY <2>1, <2>3
  <2>5. \A i, j \in 1 .. Len(commits') : commits'[i] = commits'[j] => i = j
    BY <2>2, <2>3, <2>4 DEF CommitsInv
  <2>6. \A i \in 1 .. Len(commits') : at'[commits'[i]] \notin {"queued", "writing"}
    BY <1>2, <2>2, <2>3, <2>4 DEF CommitsInv
  <2>. QED
    BY <2>5, <2>6 DEF CommitsInv
<1>8. ExportInv'
  BY <1>1, <1>2 DEF ExportInv, PromIsWhole
<1>. QED
  BY <1>4, <1>5, <1>6, <1>7, <1>8

LEMMA RollbackKeeps ==
    ASSUME TableInv, NEW f \in Files, at[f] = "writing", Rollback(f), failures' \in Nat
    PROVE  TableInv'
<1>. USE SharedTableAssumption DEF TableInv
<1>1. /\ at' = [at EXCEPT ![f] = "failed"] /\ mine' = [mine EXCEPT ![f] = {}]
      /\ lock' = Released(f)
      /\ UNCHANGED <<pos, table, commits, temp, prom>>
  BY DEF Rollback, AfterRollback, ReleasedByRollback, export
<1>2. /\ at'[f] = "failed" /\ mine'[f] = {}
      /\ \A g \in Files : g # f => at'[g] = at[g] /\ mine'[g] = mine[g]
      /\ \A k \in Keys : lock'[k] = IF lock[k] = f THEN 0 ELSE lock[k]
  BY <1>1 DEF TypeOK, Released
<1>3. TypeOK'
  <2>1. lock' \in [Keys -> 0 .. NFiles]
    BY <1>1 DEF TypeOK, Released
  <2>2. mine' \in [Files -> SUBSET Keys]
    BY <1>1 DEF TypeOK
  <2>. QED
    BY <1>1, <2>1, <2>2 DEF TypeOK
<1>4. LocksInv'
  <2>. SUFFICES ASSUME NEW g \in Files, NEW k \in mine'[g]
                PROVE  at'[g] = "writing" /\ lock'[k] = g
    BY DEF LocksInv
  <2>1. g # f /\ k \in mine[g] /\ k \in Keys
    BY <1>2 DEF TypeOK
  <2>. QED
    BY <1>2, <2>1 DEF LocksInv
<1>5. RowsInv'
  BY <1>1, <1>2 DEF RowsInv
<1>6. CommitsInv'
  <2>1. \A i \in 1 .. Len(commits) : commits[i] \in Files
    BY DEF TypeOK
  <2>. QED
    BY <1>1, <1>2, <2>1 DEF CommitsInv
<1>7. ExportInv'
  BY <1>1, <1>2 DEF ExportInv, PromIsWhole
<1>. QED
  BY <1>3, <1>4, <1>5, <1>6, <1>7

LEMMA DeadlockedWrites ==
    ASSUME NEW f \in Files, Deadlocked(f)
    PROVE  at[f] = "writing"
  BY DEF Deadlocked, Blocked, HasNext

(* writeAtomically leaves the table alone. *)
LEMMA ExportKeeps ==
    ASSUME TableInv, NEW f \in Files,
           CreateTemp(f) \/ FillTemp(f) \/ Publish(f) \/ ExportFails(f)
    PROVE  TableInv'
<1>. USE SharedTableAssumption DEF TableInv
<1>. DEFINE Temp == [row : 0 .. NFiles, whole : BOOLEAN]
<1>1. /\ at[f] \in {"committed", "filling", "filled"}
      /\ UNCHANGED <<pos, mine, lock, table, commits>>
      /\ failures' \in Nat
  BY DEF CreateTemp, FillTemp, Publish, ExportFails, transactions, TypeOK
<1>2. \E a \in {"filling", "filled", "done", "failed"} : at' = [at EXCEPT ![f] = a]
  BY DEF CreateTemp, FillTemp, Publish, ExportFails
<1>3. /\ at'[f] \in {"filling", "filled", "done", "failed"}
      /\ at' \in [Files -> {"queued", "writing", "committed", "filling", "filled",
                            "done", "failed"}]
      /\ \A g \in Files : g # f => at'[g] = at[g]
  BY <1>2 DEF TypeOK
<1>4. /\ [row |-> f, whole |-> FALSE] \in Temp
      /\ [row |-> f, whole |-> TRUE] \in Temp
      /\ Absent \in Temp /\ temp \in [Files -> Temp] /\ prom \in Temp
  BY DEF Absent, Files, TypeOK
<1>. HIDE DEF Temp
<1>5. /\ \E t \in Temp : temp' = [temp EXCEPT ![f] = t] /\ (FillTemp(f) => t.whole)
      /\ prom' \in Temp
  <2>1. CASE CreateTemp(f)
    <3>1. ~FillTemp(f)
      BY <2>1 DEF CreateTemp, FillTemp
    <3>. QED
      BY <1>4, <2>1, <3>1 DEF CreateTemp, TempName
  <2>2. CASE FillTemp(f)
    BY <1>4, <2>2 DEF FillTemp, TempName
  <2>3. CASE Publish(f)
    <3>1. ~FillTemp(f)
      BY <2>3 DEF Publish, FillTemp
    <3>. QED
      BY <1>4, <2>3, <3>1 DEF Publish, TempName
  <2>4. CASE ExportFails(f)
    <3>1. ~FillTemp(f)
      BY <1>2, <1>4, <2>4 DEF ExportFails, FillTemp, TypeOK
    <3>. QED
      BY <1>4, <2>4, <3>1 DEF ExportFails, TempName
  <2>. QED
    BY <2>1, <2>2, <2>3, <2>4
<1>6. /\ \A g \in Files : g # f => temp'[g] = temp[g]
      /\ FillTemp(f) => temp'[f].whole
      /\ temp' \in [Files -> Temp]
  BY <1>4, <1>5
<1>7. TypeOK'
  BY <1>1, <1>3, <1>5, <1>6 DEF TypeOK, Temp
<1>8. LocksInv' /\ RowsInv'
  BY <1>1, <1>3 DEF LocksInv, RowsInv
<1>9. CommitsInv'
  <2>1. \A i \in 1 .. Len(commits) : commits[i] \in Files
    BY DEF TypeOK
  <2>. QED
    BY <1>1, <1>3, <2>1 DEF CommitsInv
<1>10. ExportInv'
  <2>1. at'[f] = "filled" => FillTemp(f)
    BY <1>3 DEF CreateTemp, Publish, ExportFails, TypeOK
  <2>2. PromIsWhole'
    <3>1. CASE Publish(f)
      BY <1>4, <3>1 DEF Publish, TempName, ExportInv, PromIsWhole
    <3>2. CASE ~Publish(f)
      BY <3>2 DEF CreateTemp, FillTemp, ExportFails, ExportInv, PromIsWhole
    <3>. QED
      BY <3>1, <3>2
  <2>. QED
    BY <1>3, <1>6, <2>1, <2>2 DEF ExportInv
<1>. QED
  BY <1>7, <1>8, <1>9, <1>10

LEMMA TableNext == TableInv /\ Next => TableInv'
<1>. SUFFICES ASSUME TableInv, NEW f \in Files, Goes(f) \/ Fails(f) PROVE TableInv'
  BY DEF Next
<1>0. failures \in Nat /\ failures + 1 \in Nat
  BY DEF TableInv, TypeOK
<1>1. CASE Begin(f)
  BY <1>1, BeginKeeps
<1>2. CASE WriteRow(f)
  BY <1>2, WriteKeeps
<1>3. CASE Commit(f)
  BY <1>0, <1>3, CommitKeeps DEF Commit
<1>4. CASE CommitUnheard(f)
  BY <1>0, <1>4, CommitKeeps DEF CommitUnheard
<1>5. CASE EndDeadlock(f)
  BY <1>0, <1>5, DeadlockedWrites, RollbackKeeps DEF EndDeadlock
<1>6. CASE WriteFails(f)
  BY <1>0, <1>6, RollbackKeeps DEF WriteFails
<1>7. CASE CreateTemp(f) \/ FillTemp(f) \/ Publish(f) \/ ExportFails(f)
  BY <1>7, ExportKeeps
<1>. QED
  BY <1>1, <1>2, <1>3, <1>4, <1>5, <1>6, <1>7 DEF Goes, Fails

LEMMA TableInvariant == Spec => []TableInv
<1>1. TableInv /\ UNCHANGED vars => TableInv'
  BY DEF TableInv, TypeOK, LocksInv, RowsInv, CommitsInv, ExportInv, PromIsWhole,
         vars, transactions, export
<1>. QED
  BY <1>1, TableInit, TableNext, PTL DEF Spec
-----------------------------------------------------------------------------
(* The variables keep their types; no file is committed twice.             *)
THEOREM TypeCorrect == Spec => []TypeOK
  BY TableInvariant, PTL DEF TableInv

(* Whatever the number of workers that export at the same time, the .prom  *)
(* file is a whole one.                                                    *)
THEOREM PromWhole == Spec => []PromIsWhole
  BY TableInvariant, PTL DEF TableInv, ExportInv

(* A commit writes the whole file on the table of that moment: what was    *)
(* skipped under do_nothing is still there, what was written is locked.    *)
LEMMA CommitRefines ==
    ASSUME TableInv, NEW f \in Files, NEW next, CommitTo(f, next)
    PROVE  Abstract!Write(f)
<1>. USE SharedTableAssumption DEF TableInv
<1>1. /\ at[f] = "writing" /\ pos[f] = Len(KeysOf[f])
      /\ table' = Applied(f) /\ commits' = Append(commits, f)
      /\ commits \in Seq(Files)
  BY DEF CommitTo, TypeOK
<1>2. f \notin Committed
  BY <1>1 DEF Committed, CommitsInv
<1>3. Committed' = Committed \cup {f}
  <2>1. /\ Len(commits') = Len(commits) + 1 /\ Len(commits) \in Nat
        /\ commits'[Len(commits) + 1] = f
        /\ \A i \in 1 .. Len(commits) : commits'[i] = commits[i]
    BY <1>1
  <2>2. 1 .. Len(commits') = (1 .. Len(commits)) \cup {Len(commits) + 1}
    BY <2>1
  <2>. QED
    BY <2>1, <2>2 DEF Committed
<1>4. ASSUME NEW k \in Keys
      PROVE  k \in mine[f] <=> k \in KeySet[f] /\ (DoUpdate \/ table[k] = NoRow)
  <2>1. k \in mine[f] => k \in KeySet[f] /\ (DoUpdate \/ table[k] = NoRow)
    BY DEF RowsInv
  <2>2. ASSUME k \in KeySet[f], DoUpdate \/ table[k] = NoRow
        PROVE  k \in mine[f]
    <3>1. PICK i \in 1 .. Len(KeysOf[f]) : KeysOf[f][i] = k
      BY <2>2 DEF KeySet
    <3>. QED
      BY <1>1, <2>2, <3>1 DEF RowsInv
  <2>. QED
    BY <2>1, <2>2
<1>5. table' = Abstract!With(f)
  BY <1>1, <1>4 DEF Applied, Abstract!With
<1>. QED
  BY <1>2, <1>3, <1>5 DEF Abstract!Write

(* However the workers' transactions interleave, the table is the one the  *)
(* files leave when they are written one after the other.                  *)
THEOREM Refines == Spec => ImplementsSerialFiles
<1>1. Init => Abstract!Init
  BY DEF Init, Abstract!Init, Committed
<1>2. TableInv /\ Next => Abstract!Next \/ UNCHANGED Abstract!vars
  <2>. SUFFICES ASSUME TableInv, NEW f \in Files, Goes(f) \/ Fails(f)
                PROVE  Abstract!Next \/ UNCHANGED Abstract!vars
    BY DEF Next
  <2>1. CASE Commit(f) \/ CommitUnheard(f)
    <3>1. Abstract!Write(f)
      BY <2>1, CommitRefines DEF Commit, CommitUnheard
    <3>. QED
      BY <3>1 DEF Abstract!Next
  <2>2. CASE EndDeadlock(f) \/ WriteFails(f)
    BY <2>2 DEF EndDeadlock, WriteFails, Rollback, AfterRollback, Committed,
                Abstract!vars
  <2>3. CASE Begin(f) \/ WriteRow(f)
    BY <2>3 DEF Begin, WriteRow, transactions, Committed, Abstract!vars
  <2>4. CASE CreateTemp(f) \/ FillTemp(f) \/ Publish(f) \/ ExportFails(f)
    BY <2>4 DEF CreateTemp, FillTemp, Publish, ExportFails, transactions,
                Committed, Abstract!vars
  <2>. QED
    BY <2>1, <2>2, <2>3, <2>4 DEF Goes, Fails
<1>3. UNCHANGED vars => UNCHANGED Abstract!vars
  BY DEF vars, transactions, Committed, Abstract!vars
<1>4. TableInv /\ [Next]_vars => [Abstract!Next]_(Abstract!vars)
  BY <1>2, <1>3
<1>. QED
  BY <1>1, <1>4, TableInvariant, PTL DEF Spec, ImplementsSerialFiles, Abstract!Spec
=============================================================================
