----------------------------- MODULE FileQueue ------------------------------
(***************************************************************************)
(* What writing the files of an input promises: every file is written      *)
(* once, whatever becomes of the others, and only then is there a result:  *)
(* the file of an error, or the files whose rows are counted.              *)
(***************************************************************************)
EXTENDS Integers

CONSTANTS Files, NoResult

VARIABLES written,   \* "no", "ok" or "failed", for each file
          result     \* NoResult, or the error and the files counted

vars == <<written, result>>

Init ==
    /\ written = [f \in Files |-> "no"]
    /\ result = NoResult

Write(f, end) ==
    /\ result = NoResult
    /\ written[f] = "no"
    /\ written' = [written EXCEPT ![f] = end]
    /\ UNCHANGED result

Failed == {f \in Files : written[f] = "failed"}

Return ==
    /\ result = NoResult
    /\ \A f \in Files : written[f] # "no"
    /\ IF Failed = {}
       THEN result' = [err |-> 0, counted |-> Files]
       ELSE \E f \in Failed : result' = [err |-> f, counted |-> {}]
    /\ UNCHANGED written

Next ==
    \/ \E f \in Files, end \in {"ok", "failed"} : Write(f, end)
    \/ Return

Spec == Init /\ [][Next]_vars
=============================================================================
