----------------------- MODULE SharedTableProperties ------------------------
(***************************************************************************)
(* What SharedTable is expected to satisfy.                                *)
(***************************************************************************)
EXTENDS SharedTable

(* Every variable keeps its type. *)
TypeOK ==
    /\ at \in [Files -> {"queued", "writing", "committed", "filling", "filled",
                         "done", "failed"}]
    /\ pos \in [Files -> Nat]
    /\ \A f \in Files : pos[f] <= Len(KeysOf[f])
    /\ mine \in [Files -> SUBSET Keys]
    /\ lock \in [Keys -> 0 .. NFiles]
    /\ table \in [Keys -> (0 .. NFiles) \cup {NoRow}]
    /\ commits \in Seq(Files) /\ Len(commits) <= NFiles
    /\ temp \in [Files -> [row : 0 .. NFiles, whole : BOOLEAN]]
    /\ prom \in [row : 0 .. NFiles, whole : BOOLEAN]
    /\ failures \in Nat

(* The transactions of concurrent workers leave in the table what writing  *)
(* their files one after the other, in the order of the commits, would     *)
(* have left: no mixture of rows of two files (writer.go:242-247, 360),    *)
(* and of a file rolled back no row at all.                                *)
KeySet == [f \in Files |-> {KeysOf[f][i] : i \in 1 .. Len(KeysOf[f])}]

Committed == {commits[i] : i \in 1 .. Len(commits)}

Abstract == INSTANCE SerialFiles WITH stored <- Committed

ImplementsSerialFiles == Abstract!Spec

(* Concurrent exports to one path never publish a file that is half        *)
(* written (exporter.go:83-108; "reemplaza el archivo de forma atomica",   *)
(* README.md:161).                                                         *)
PromIsWhole == prom # Absent => prom.whole

(* Whatever locks the workers meet, every file ends. *)
EveryFileEnds == <>(\A f \in Files : at[f] \in {"done", "failed"})
=============================================================================
