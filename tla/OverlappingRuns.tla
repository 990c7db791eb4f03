-------------------------- MODULE OverlappingRuns --------------------------
(***************************************************************************)
(* Two runs of one growing_file input at the same time: the scheduler      *)
(* starts `write` again while a slow run has not ended.  Nothing keeps     *)
(* them apart (state.go and writer.go take no lock): they read one state   *)
(* file, insert into one table and write one .prom file and one state      *)
(* file.  Each run is a GrowingFile with local variables of its own.       *)
(*                                                                         *)
(* Simplifications, beside those of GrowingFile.                           *)
(*  - PostgreSQL makes an INSERT wait for the transaction that has         *)
(*    inserted the key; here rows meet when a transaction commits.         *)
(*  - The second run is the one started while the first has not ended; it  *)
(*    may end after it.                                                    *)
(***************************************************************************)
EXTENDS GrowingFileProperties

CONSTANT MaxOverlaps  \* bound: runs started while another has not ended

ASSUME OverlapAssumption == MaxOverlaps \in Nat

VARIABLES
    pc2, path2, loaded2, gen2, off2, line2, tx2, cks2, last2, pending2,
    overlaps   \* bound counter

locals2 == <<path2, loaded2, gen2, off2, line2, tx2, cks2, last2, pending2>>
second == <<pc2, locals2>>
allVars == <<vars, second, overlaps>>

Second == INSTANCE GrowingFile WITH
    pc <- pc2, path <- path2, loaded <- loaded2, gen <- gen2, off <- off2,
    line <- line2, tx <- tx2, cks <- cks2, last <- last2, pending <- pending2

-----------------------------------------------------------------------------
(* Both runs have truncated the state file and the other one has written   *)
(* it: what it wrote goes on after the end of a shorter state.             *)
SaveOverLonger ==
    /\ state # Corrupt
    /\ state' = Corrupt
    /\ UNCHANGED <<logger, db, prom, misplaced, failures>>

FirstRuns ==
    /\ Runs \/ (pc = "save" /\ SaveOverLonger /\ EndRun)
    /\ UNCHANGED <<second, overlaps>>

StartSecond ==
    /\ pc # "idle"
    /\ overlaps < MaxOverlaps
    /\ overlaps' = overlaps + 1
    /\ Second!StartRun
    /\ UNCHANGED <<pc, locals>>

SecondRuns ==
    /\ pc2 # "idle"
    /\ Second!Runs \/ (pc2 = "save" /\ SaveOverLonger /\ Second!EndRun)
    /\ UNCHANGED <<pc, locals, overlaps>>

OverlapInit ==
    /\ Init
    /\ pc2 = "idle"
    /\ path2 = path
    /\ loaded2 = NoState
    /\ gen2 = 0
    /\ off2 = 0
    /\ line2 = 0
    /\ tx2 = {}
    /\ cks2 = <<>>
    /\ last2 = NoRow
    /\ pending2 = NoState
    /\ overlaps = 0

OverlapNext ==
    \/ Logs /\ UNCHANGED <<second, overlaps>>
    \/ FirstRuns
    \/ RunFails /\ UNCHANGED <<second, overlaps>>
    \/ StartSecond
    \/ SecondRuns
    \/ Second!RunFails /\ UNCHANGED <<pc, locals, overlaps>>

OverlapSpec == OverlapInit /\ [][OverlapNext]_allVars

(* The timer starts a run again and again, and a run that is not stopped   *)
(* goes on whatever the other does; nothing obliges the logger to write.   *)
FairOverlapSpec ==
    /\ OverlapSpec
    /\ WF_allVars(FirstRuns)
    /\ WF_allVars(SecondRuns)
=============================================================================
