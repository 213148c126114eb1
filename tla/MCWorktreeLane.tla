--------------------------- MODULE MCWorktreeLane ---------------------------
(* Instances of WorktreeLane small enough for TLC: the constants in the cfg files. *)
EXTENDS WorktreeLane, TLC
=============================================================================
