---------------------------- MODULE SnapshotHandover ----------------------------
(***************************************************************************)
(* The decoder of h2tapd handed over to h2rebuild by a snapshot.           *)
(*                                                                         *)
(* h2tapd decodes a direction up to the snapshot's next_frame_seq and      *)
(* writes its table down (dir_snapshot); h2rebuild seeds a decoder with it *)
(* and goes on from that very byte (seed_from_snapshot).  Until Handover   *)
(* the observer of HpackMirror is the daemon's, from then on it is the     *)
(* rebuilder's.                                                            *)
(*                                                                         *)
(* Only the daemon limits the table it tracks (tracker.rs:36).  A direction*)
(* whose table is over the limit is not snapshottable, so this module is   *)
(* about a TrackLimit no capacity reaches, which is none for both.         *)
(***************************************************************************)
EXTENDS HpackMirror

VARIABLES
  handed,   \* the snapshot has been taken
  watched   \* history: the daemon saw the connection from its first byte

handoverVars == <<vars, handed, watched>>

(* is_snapshottable(), and so DirSnapshot.usable, for a direction whose    *)
(* pending bytes are in the capture.                                       *)
Snapshottable == ~poisoned /\ ~desynced /\ IsExact(dec) /\ ~blk.open

(* An Entry of a snapshot is a name and a value; that the name was only a  *)
(* placeholder is not written.                                             *)
Written(t) == [i \in DOMAIN t |-> [t[i] EXCEPT !.unknown = FALSE]]

HandoverInit == Init /\ handed = FALSE /\ watched = ~desynced

Handover ==
  /\ ~handed
  /\ Snapshottable
  /\ handed' = TRUE
  /\ dec' = EnforceLimit(FromEntries(Written(dec.table), dec.max))
  /\ UNCHANGED <<encVars, poisoned, desynced, doubt, blk, envVars, watched>>

HandoverNext ==
  \/ Next /\ UNCHANGED <<handed, watched>>
  \/ Handover

HandoverSpec == HandoverInit /\ [][HandoverNext]_handoverVars

-----------------------------------------------------------------------------
(* A daemon that watched a connection from its first byte holds the        *)
(* encoder's table entry for entry, and so does the rebuilder seeded by    *)
(* it, to the end of the capture - unless a loss, a table too large to     *)
(* track or SETTINGS ahead of the encoder intervene (new_exact(),          *)
(* from_entries(), seed_from_snapshot()).                                  *)
MirrorExact ==
  watched /\ ~poisoned /\ ~dec.over /\ (nset = 0 \/ doubt = {}) =>
    dec.table = enc.table /\ dec.max = enc.max

(* Whatever the daemon missed, every value in a seeded table is the one    *)
(* the encoder has at that index (dir_snapshot(), from_entries()).         *)
SeededValuesTrue ==
  handed => \A i \in DOMAIN dec.table : i \in DOMAIN enc.table =>
              dec.table[i].val = enc.table[i].val

(* README.md:178: a decode is "safe rather than silently wrong" - so a     *)
(* name in a seeded table is the encoder's, or is known to be a stand-in.  *)
SeededNamesTrue ==
  handed => \A i \in DOMAIN dec.table : i \in DOMAIN enc.table =>
              dec.table[i].unknown \/ dec.table[i].name = enc.table[i].name
=============================================================================
