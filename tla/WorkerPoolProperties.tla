------------------------ MODULE WorkerPoolProperties ------------------------
(***************************************************************************)
(* What WorkerPool is expected to satisfy.                                 *)
(***************************************************************************)
EXTENDS WorkerPool

(* Every variable keeps its type. *)
TypeOK ==
    /\ concurrent \in BOOLEAN
    /\ taken \in 0 .. NFiles
    /\ filesClosed \in BOOLEAN
    /\ worker \in [Workers -> [at : {"idle", "writing", "sending", "exited"},
                               file : 0 .. NFiles,
                               end : {"no", "ok", "failed"}]]
    /\ written \in [Files -> {"no", "ok", "failed"}]
    /\ outcomes \in Seq([file : Files, end : Ends])
    /\ read \in 0 .. Len(outcomes)
    /\ outcomesClosed \in BOOLEAN
    /\ firstErr \in 0 .. NFiles
    /\ counted \in SUBSET Files
    /\ result \in [err : 0 .. NFiles, counted : SUBSET Files] \cup {NoResult}

(* No worker is left with an outcome to send when outcomeCh is closed: the *)
(* send would panic (writer.go:190-193, wg.Wait before close).             *)
SendsAreSafe ==
    \A w \in Workers : worker[w].at \in {"writing", "sending"} => ~outcomesClosed

(* outcomeCh's buffer of len(files) is enough: a worker never waits for    *)
(* its outcome to be received (writer.go:156).                             *)
SendsNeverWait ==
    \A w \in Workers : worker[w].at = "sending" => Len(outcomes) - read < OutcomeBuffer

(* Both ways of going through the files are FileQueue: every file is       *)
(* written once and by one worker, an error stops none of the others, and  *)
(* what is returned covers all of them.                                    *)
Abstract == INSTANCE FileQueue

ImplementsFileQueue == Abstract!Spec

(* WriteInputFiles returns, however the goroutines interleave and whichever *)
(* files fail.                                                             *)
RunReturns == <>(result # NoResult)
=============================================================================
