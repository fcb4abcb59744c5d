------------------------------- MODULE MCApi -------------------------------
(***************************************************************************)
(* Api for TLC: two worker goroutines and the requests of the cfg.         *)
(***************************************************************************)
EXTENDS Api

CONSTANTS w1, w2

MCWorkers == <<w1, w2>>
MCOne     == <<w1>>
=============================================================================
