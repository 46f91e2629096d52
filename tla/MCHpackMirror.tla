---------------------------- MODULE MCHpackMirror ----------------------------
(* Small tables for TLC: the overhead of an entry is 2 instead of 32, so   *)
(* that entries of sizes 3 and 4 meet capacities of 3, 6 and 8, and a      *)
(* capacity of 8 is above the track limit.                                 *)
EXTENDS HpackMirror
=============================================================================
