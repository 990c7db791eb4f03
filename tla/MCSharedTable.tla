--------------------------- MODULE MCSharedTable ----------------------------
(***************************************************************************)
(* Instances of SharedTable.  The first three files wait for each other in *)
(* a circle, the fourth shares a key with each of them and has one twice.  *)
(***************************************************************************)
EXTENDS SharedTableProperties

MCKeysOf == << <<1, 2>>, <<2, 3>>, <<3, 1>>, <<2, 1, 2>> >>
=============================================================================
