---------------------------- MODULE MCWorkerPool ----------------------------
(***************************************************************************)
(* Instances of WorkerPool: fewer workers than files, so that some of them *)
(* come back for more and some do not.                                     *)
(***************************************************************************)
EXTENDS WorkerPoolProperties

CONSTANTS w1, w2, w3
=============================================================================
