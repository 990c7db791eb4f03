---------------------------- MODULE ResumeState ----------------------------
(***************************************************************************)
(* The resume state of a growing_file input: what internal/timescaledb/    *)
(* state.go keeps in the JSON state file of one (input, output) pair, the  *)
(* plan it makes of it and how it trims the checkpoints of a run.          *)
(*                                                                         *)
(* Left out: input_name, schema, table and updated_at are written and      *)
(* never read.  Two fields are ghosts: gen of a checkpoint, the generation *)
(* of the file (GrowingFile's name for an inode) its line was read from,   *)
(* and read of a state, how far the run that saved it had read.            *)
(***************************************************************************)
EXTENDS Integers, Sequences

CONSTANTS Paths,        \* the names the input's globs can match
          ReplayLines,  \* input.ReplayLines
          NoState,      \* no state file: loadResumeState returns nil, nil
          Corrupt       \* a state file json.Unmarshal refuses

(* Validate refuses a negative replay_lines and turns 0 into 5. *)
ASSUME ReplayLinesAssumption == ReplayLines \in Nat \ {0}

Checkpoint == [line : Nat, next : Nat \ {0}, gen : Nat]

FileState == [path : Paths, size : Nat, mtime : Nat, cks : Seq(Checkpoint),
              read : [gen : Nat, next : Nat]]

(* The checkpoints of a state file, none when there is no readable one. *)
Checkpoints(s) == IF s \in {NoState, Corrupt} THEN <<>> ELSE s.cks

Same(s, path, size, mtime) ==
    s # NoState /\ s.path = path /\ size = s.size /\ mtime = s.mtime

FromStart == [line |-> 0, next |-> 0, gen |-> 0]

(* buildResumePlan's last two branches: the checkpoint ReplayLines before  *)
(* the last one, or the oldest.                                            *)
ReplayFromUnnumbered(cks) ==
    LET k == Len(cks) - ReplayLines IN
    [cks[IF k < 1 THEN 1 ELSE k] EXCEPT !.line = 0]

ReplayFrom(cks) ==
    LET k == Len(cks) - ReplayLines IN cks[IF k < 1 THEN 1 ELSE k]

(* Where the run starts reading (SkipUnchanged is Same above).             *)
ResumePoint(s, path, size) ==
    IF \/ s = NoState
       \/ s.path # path
       \/ size < s.size
       \/ s.cks = <<>>
    THEN FromStart
    ELSE ReplayFrom(s.cks)

(* trimResumeCheckpoints: the last ReplayLines + 1 of them. *)
TrimCheckpoints(cks) ==
    IF Len(cks) <= ReplayLines + 1
    THEN cks
    ELSE SubSeq(cks, Len(cks) - ReplayLines, Len(cks))
=============================================================================
