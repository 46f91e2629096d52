--------------------------- MODULE MCSnapshotHandover ---------------------------
(***************************************************************************)
(* SnapshotHandover for TLC; the constants are plain numbers and sets.     *)
(***************************************************************************)
EXTENDS SnapshotHandover
=============================================================================
