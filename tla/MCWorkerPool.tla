---------------------------- MODULE MCWorkerPool ----------------------------
(***************************************************************************)
(* WorkerPool for TLC: two worker goroutines, and the pools to begin with. *)
(***************************************************************************)
EXTENDS WorkerPool

CONSTANTS w1, w2

MCWorkers == <<w1, w2>>
MCOne     == <<w1>>
=============================================================================
