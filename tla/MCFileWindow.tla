---------------------------- MODULE MCFileWindow ----------------------------
(* FileWindow for TLC: all its constants are given by the .cfg files.      *)
EXTENDS FileWindowProperties
=============================================================================
