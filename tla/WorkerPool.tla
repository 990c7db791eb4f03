----------------------------- MODULE WorkerPool -----------------------------
(***************************************************************************)
(* How WriteInputFiles (internal/timescaledb/writer.go) goes through the   *)
(* files of a run: one after the other or, in mode all with a concurrency  *)
(* above one, with writeFilesConcurrently's goroutines and channels.       *)
(*                                                                         *)
(* Files are named by their place in the list.  writeSingleFile is here    *)
(* only its end, good or bad; what it does is in GrowingFile, RowBatch and *)
(* SharedTable.  A file has one outcome, so the files whose rows           *)
(* RowsInserted adds up are a set.                                         *)
(***************************************************************************)
EXTENDS Integers, Sequences

CONSTANTS NFiles,       \* len(files)
          Workers,      \* the workers' goroutines
          NoResult

Files == 1 .. NFiles

(* runWrite refuses an input without files; workerCount is at least 1. *)
ASSUME WorkerPoolAssumption ==
    /\ NFiles \in Nat \ {0}
    /\ Workers # {}
    /\ NoResult \notin [err : Nat, counted : SUBSET Files]

VARIABLES
    concurrent,     \* are the goroutines used?
    taken,          \* files handed over on fileCh, or taken by the loop
    filesClosed,    \* close(fileCh)
    worker,         \* what each worker is doing, and with which file
    written,        \* history: the end of each file's writeSingleFile
    outcomes,       \* every outcome sent on outcomeCh
    read,           \* how many of them have been received
    outcomesClosed, \* close(outcomeCh)
    firstErr,       \* the file of firstErr, or 0
    counted,        \* the files in result.RowsInserted
    result          \* what WriteInputFiles has returned, as runWrite uses it

channels == <<filesClosed, worker, outcomes, read, outcomesClosed>>
vars == <<concurrent, taken, written, firstErr, counted, result, channels>>

Idle == [at |-> "idle", file |-> 0, end |-> "no"]
Exited == [at |-> "exited", file |-> 0, end |-> "no"]

(* Mode and concurrency are the configuration's; one file is written alone. *)
Init ==
    /\ concurrent \in (IF NFiles > 1 THEN BOOLEAN ELSE {FALSE})
    /\ taken = 0
    /\ filesClosed = FALSE
    /\ worker = [w \in Workers |-> Idle]
    /\ written = [f \in Files |-> "no"]
    /\ outcomes = <<>>
    /\ read = 0
    /\ outcomesClosed = FALSE
    /\ firstErr = 0
    /\ counted = {}
    /\ result = NoResult

(* Mutant: off by one. *)
MoreFilesAndOne == taken <= NFiles

MoreFiles == taken < NFiles

(* Mutant: a later error hides that there was one. *)
NoteLast(f, end) ==
    IF end = "ok"
    THEN counted' = counted \cup {f} /\ firstErr' = 0
    ELSE firstErr' = f /\ UNCHANGED counted

(* The error or the result of the file just written or received.           *)
Note(f, end) ==
    IF end = "ok"
    THEN counted' = counted \cup {f} /\ UNCHANGED firstErr
    ELSE firstErr' = (IF firstErr = 0 THEN f ELSE firstErr) /\ UNCHANGED counted

(* runWrite drops the rows counted when there is an error. *)
Returned ==
    result' = [err |-> firstErr,
               counted |-> IF firstErr = 0 THEN counted ELSE {}]

-----------------------------------------------------------------------------
(* One after the other.                                                    *)

(* The loop's body: an error does not stop it. *)
WriteNext(end) ==
    /\ ~concurrent /\ result = NoResult
    /\ MoreFiles
    /\ taken' = taken + 1
    /\ written' = [written EXCEPT ![taken + 1] = end]
    /\ Note(taken + 1, end)
    /\ UNCHANGED <<concurrent, result, channels>>

LoopDone == taken = NFiles

LoopEnds ==
    /\ ~concurrent /\ result = NoResult
    /\ LoopDone
    /\ Returned
    /\ UNCHANGED <<concurrent, taken, written, firstErr, counted, channels>>

-----------------------------------------------------------------------------
(* writeFilesConcurrently.                                                 *)

(* The sender and a worker meet on the unbuffered fileCh. *)
TakeFile(w) ==
    /\ concurrent
    /\ MoreFiles
    /\ worker[w] = Idle
    /\ taken' = taken + 1
    /\ worker' = [worker EXCEPT
                    ![w] = [at |-> "writing", file |-> taken + 1, end |-> "no"]]
    /\ UNCHANGED <<concurrent, filesClosed, written, outcomes, read,
                   outcomesClosed, firstErr, counted, result>>

CloseFiles ==
    /\ concurrent
    /\ taken = NFiles /\ ~filesClosed
    /\ filesClosed' = TRUE
    /\ UNCHANGED <<concurrent, taken, worker, written, outcomes, read,
                   outcomesClosed, firstErr, counted, result>>

(* writeSingleFile returns. *)
WriteEnds(w, end) ==
    /\ worker[w].at = "writing"
    /\ worker' = [worker EXCEPT ![w].at = "sending", ![w].end = end]
    /\ written' = [written EXCEPT ![worker[w].file] = end]
    /\ UNCHANGED <<concurrent, taken, filesClosed, outcomes, read, outcomesClosed,
                   firstErr, counted, result>>

(* Mutant: a worker returns after an error, without wg.Done. *)
LostAfterError(end) ==
    IF end = "ok" THEN Idle ELSE [at |-> "lost", file |-> 0, end |-> "no"]

(* What a worker does after an outcome: the next file. *)
AfterOutcome(end) == Idle

(* Mutant: one place too few. *)
OutcomeBufferShort == NFiles - 1

(* make(chan writeOutcome, len(files)) *)
OutcomeBuffer == NFiles

(* The send waits for a place in the buffer.  A send on a closed channel would *)
(* panic; SendsAreSafe says it never happens.                              *)
SendOutcome(w) ==
    /\ worker[w].at = "sending"
    /\ Len(outcomes) - read < OutcomeBuffer
    /\ outcomes' = Append(outcomes, [file |-> worker[w].file,
                                     end |-> worker[w].end])
    /\ worker' = [worker EXCEPT ![w] = AfterOutcome(worker[w].end)]
    /\ UNCHANGED <<concurrent, taken, filesClosed, written, read,
                   outcomesClosed, firstErr, counted, result>>

(* range fileCh ends; wg.Done. *)
WorkerExits(w) ==
    /\ filesClosed
    /\ worker[w] = Idle
    /\ worker' = [worker EXCEPT ![w] = Exited]
    /\ UNCHANGED <<concurrent, taken, filesClosed, written, outcomes, read,
                   outcomesClosed, firstErr, counted, result>>

(* Mutant: wg.Add in the goroutine, so that wg.Wait may not wait. *)
AnyExited == \E w \in Workers : worker[w] = Exited

AllExited == \A w \in Workers : worker[w] = Exited

(* wg.Wait returns. *)
CloseOutcomes ==
    /\ AllExited /\ ~outcomesClosed
    /\ outcomesClosed' = TRUE
    /\ UNCHANGED <<concurrent, taken, filesClosed, worker, written, outcomes,
                   read, firstErr, counted, result>>

Receive ==
    /\ read < Len(outcomes)
    /\ read' = read + 1
    /\ Note(outcomes[read + 1].file, outcomes[read + 1].end)
    /\ UNCHANGED <<concurrent, taken, filesClosed, worker, written, outcomes,
                   outcomesClosed, result>>

(* range outcomeCh ends. *)
PoolEnds ==
    /\ result = NoResult
    /\ outcomesClosed /\ read = Len(outcomes)
    /\ Returned
    /\ UNCHANGED <<concurrent, taken, written, firstErr, counted, channels>>

-----------------------------------------------------------------------------
Ends == {"ok", "failed"}

LoopStep == (\E end \in Ends : WriteNext(end)) \/ LoopEnds

WorkerStep(w) ==
    \/ TakeFile(w)
    \/ \E end \in Ends : WriteEnds(w, end)
    \/ SendOutcome(w)
    \/ WorkerExits(w)

MainStep == Receive \/ PoolEnds

Next ==
    \/ LoopStep
    \/ \E w \in Workers : WorkerStep(w)
    \/ CloseFiles
    \/ CloseOutcomes
    \/ MainStep

Spec == Init /\ [][Next]_vars

(* The Go scheduler runs every goroutine; every call to the database ends. *)
FairSpec ==
    /\ Spec
    /\ WF_vars(LoopStep)
    /\ \A w \in Workers : WF_vars(WorkerStep(w))
    /\ WF_vars(CloseFiles)
    /\ WF_vars(CloseOutcomes)
    /\ WF_vars(MainStep)
=============================================================================
