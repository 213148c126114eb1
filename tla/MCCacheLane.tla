---------------------------- MODULE MCCacheLane ----------------------------
(* Instances of CacheLane small enough for TLC: the constants in the cfg files. *)
EXTENDS CacheLane, TLC
=============================================================================
