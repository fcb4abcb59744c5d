---------------------------- MODULE MCDirCounts ----------------------------
(* Values of the constants of DirCounts for TLC. *)
EXTENDS DirCounts

CONSTANTS root, sub, w1

MCDir     == {root, sub}
MCParent  == [d \in Dir |-> root]
MCWarmers == {w1}
=============================================================================
